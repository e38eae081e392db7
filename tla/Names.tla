------------------------------- MODULE Names -------------------------------
(***************************************************************************)
(* Distinguished names and what is worked out from them: internal/ldapx's  *)
(* entry.go, rootdse.go (Bases) and client.go (directChildren). A DN is    *)
(* the sequence of its components, the entry's own first; a component is   *)
(* <<name, spelling>>, since servers and operators spell one name in upper *)
(* and lower case. (SplitDN, which finds the components, is in Splitting.) *)
(***************************************************************************)
EXTENDS Integers, Sequences, SequencesExt, FiniteSets

Fold(dn) == [i \in DOMAIN dn |-> dn[i][1]]     \* strings.ToLower

EqualDN(a, b) == Fold(a) = Fold(b)

(* 1 for a child, 2 for a grandchild, 0 for parent itself, -1 elsewhere.   *)
DepthUnder(child, parent) ==
    IF IsSuffix(Fold(parent), Fold(child)) THEN Len(child) - Len(parent) ELSE -1

(* The ancestor of child, or child, right under parent.                    *)
AncestorUnder(child, parent) ==
    SubSeq(child, DepthUnder(child, parent), Len(child))

(* Whether a text is one: what does not parse has no components.           *)
IsDN(dn) == dn # <<>>

(* The first of the longest.                                               *)
Containing(dn, bases) == {i \in DOMAIN bases : DepthUnder(dn, bases[i]) >= 0}
Longest(bases, S)  == {i \in S : \A j \in S : Len(bases[j]) <= Len(bases[i])}
First(S)           == CHOOSE i \in S : \A j \in S : i <= j
BestBase(dn, bases) ==
    LET S == Containing(dn, bases)
    IN  IF ~IsDN(dn) \/ S = {} THEN <<>> ELSE bases[First(Longest(bases, S))]

(* A slip: the components in the order they are written.                   *)
PathFromAbove(base, dn) ==
    LET d == DepthUnder(dn, base)
    IN  IF d < 0 THEN <<>>
        ELSE <<base>> \o [k \in 1 .. d |-> SubSeq(dn, k, Len(dn))]

(* base, then one component more at a time, down to dn.                    *)
PathFrom(base, dn) ==
    LET d == DepthUnder(dn, base)
    IN  IF d < 0 THEN <<>>
        ELSE <<base>> \o [k \in 1 .. d |-> SubSeq(dn, d - k + 1, Len(dn))]

-----------------------------------------------------------------------------
(* The elements of s at the places in S, in their order.                   *)
Selected(s, S) ==
    LET place(i) == Cardinality({j \in S : j < i}) + 1
    IN  [k \in 1 .. Cardinality(S) |-> s[CHOOSE i \in S : place(i) = k]]

(* Only the first of DNs that differ in spelling.                          *)
WithoutTwins(s) ==
    Selected(s, {i \in DOMAIN s : \A j \in 1 .. i - 1 : ~EqualDN(s[j], s[i])})

(* Those of an answer that many levels under parent.                       *)
AtDepth(parent, answer, depths) ==
    Selected(answer, {i \in DOMAIN answer : DepthUnder(answer[i], parent) \in depths})

(* A row for e, which the server listed or PADL has inferred.              *)
Row(e, synthesized) == [dn |-> e, synthesized |-> synthesized]

(* A slip: an ancestor is inferred though it is listed.                    *)
ChildrenTwice(parent, answer) ==
    LET real    == WithoutTwins(AtDepth(parent, answer, {1}))
        deeper  == AtDepth(parent, answer, Nat \ {0, 1})
        implied == WithoutTwins([i \in DOMAIN deeper |-> AncestorUnder(deeper[i], parent)])
    IN  [i \in DOMAIN real |-> Row(real[i], FALSE)]
        \o [i \in DOMAIN implied |-> Row(implied[i], TRUE)]

(* A server may answer a one-level search with the whole subtree. What is  *)
(* deeper stands for the ancestor it is under, unless that is listed too.  *)
directChildren(parent, answer) ==
    LET real    == WithoutTwins(AtDepth(parent, answer, {1}))
        deeper  == AtDepth(parent, answer, Nat \ {0, 1})
        implied == WithoutTwins([i \in DOMAIN deeper |-> AncestorUnder(deeper[i], parent)])
        missing == Selected(implied,
            {i \in DOMAIN implied : \A j \in DOMAIN real : ~EqualDN(real[j], implied[i])})
    IN  [i \in DOMAIN real |-> Row(real[i], FALSE)]
        \o [i \in DOMAIN missing |-> Row(missing[i], TRUE)]

-----------------------------------------------------------------------------
(* sort.SliceStable of s, where before has <<i, j>> when the element at i  *)
(* is less than the one at j.                                              *)
SliceStable(s, before) ==
    LET ahead(i, j) == <<i, j>> \in before \/ (<<j, i>> \notin before /\ i < j)
        rank(i) == Cardinality({j \in DOMAIN s : ahead(j, i)}) + 1
    IN  [k \in DOMAIN s |-> s[CHOOSE i \in DOMAIN s : rank(i) = k]]

(* Containers first, then by RDN.                                          *)
Before(containers, a, b) ==
    LET holds(r) == r.synthesized \/ Fold(r.dn) \in containers
    IN  \/ holds(a) /\ ~holds(b)
        \/ (holds(a) <=> holds(b)) /\ Fold(a.dn)[1] < Fold(b.dn)[1]

SortEntries(containers, rows) ==
    SliceStable(rows, {p \in (DOMAIN rows) \X (DOMAIN rows) :
                          Before(containers, rows[p[1]], rows[p[2]])})

(* By their text, without regard to case: alike up to the k-th.            *)
LessAt(x, y, k) ==
    /\ k \in DOMAIN y
    /\ \A i \in 1 .. k - 1 : i \in DOMAIN x /\ x[i] = y[i]
    /\ k \in DOMAIN x => x[k] < y[k]

Precedes(a, b) == \E k \in DOMAIN b : LessAt(Fold(a), Fold(b), k)

SortContexts(contexts) ==
    SliceStable(contexts, {p \in (DOMAIN contexts) \X (DOMAIN contexts) :
                              Precedes(contexts[p[1]], contexts[p[2]])})

(* What a root DSE publishes: its contexts, the default one (<<>> for none)*)
(* and those an Active Directory calls its configuration and schema        *)
(* partitions. The default one goes first.                                 *)
Bases(root, override, showAll) ==
    LET hidden(dn) == \E h \in root.partitions : EqualDN(h, dn)
        rest       == SortContexts(root.contexts)
        published  == Selected(rest, {i \in DOMAIN rest : showAll \/ ~hidden(rest[i])})
    IN  IF override # <<>> THEN <<override>>
        ELSE WithoutTwins((IF root.default = <<>> THEN <<>> ELSE <<root.default>>)
                          \o published)
=============================================================================
