---------------------------- MODULE TextProofs ------------------------------
(***************************************************************************)
(* What is made of texts: a DN split character by character (Splitting),   *)
(* the lines of an LDIF document (Ldif) and values put into words          *)
(* (Rendering), for any texts, of any length, and any numbers.             *)
(***************************************************************************)
EXTENDS Splitting, Ldif, Rendering, FiniteSetTheorems, SequenceTheorems,
        WellFoundedInduction, TLAPS

-----------------------------------------------------------------------------
(* Splitting.                                                              *)

(* The ends of components the scan has passed.                             *)
Passed(k) == {m \in Ends(dn) : m < k}

(* Where the scan is: what it holds of the state of the grammar, and the   *)
(* pieces it has cut off.                                                  *)
Scanned ==
    /\ esc = Escaped(dn, i)
    /\ done => i = Len(dn) + 1
    /\ start - 1 \in Passed(i) \cup {0} /\ \A m \in Passed(i) : m <= start - 1
    /\ ~done =>
        /\ Len(parts) = Cardinality(Passed(i))
        /\ \A n \in 1 .. Len(parts) : /\ n \in DOMAIN Pieces(dn)
                                      /\ parts[n] = TrimSpace(Pieces(dn)[n])

IInvSplit == SplitOK /\ Scanned

-----------------------------------------------------------------------------
(* Numbers.                                                                *)
LEMMA LeastOf ==
    ASSUME NEW T \in SUBSET Nat, T # {}
    PROVE  \E x \in T : \A y \in T : x <= y
<1>1. PICK x \in T : \A y \in T : ~(<<y, x>> \in OpToRel(<, Nat))
    BY NatLessThanWellFounded, WFMin
<1>2. \A y \in T : ~(y < x)
    BY <1>1 DEF OpToRel
<1> QED
    BY <1>2

LEMMA GreatestOf ==
    ASSUME NEW n \in Nat, NEW T \in SUBSET (0 .. n), T # {}
    PROVE  \E x \in T : \A y \in T : y <= x
<1> DEFINE U == {n - y : y \in T}
<1>1. U \in SUBSET Nat /\ U # {}
  <2>1. \A y \in T : n - y \in Nat
    OBVIOUS
  <2> QED
    BY <2>1
<1>2. PICK u \in U : \A y \in U : u <= y
    BY <1>1, LeastOf
<1>3. PICK x \in T : u = n - x
    OBVIOUS
<1>4. ASSUME NEW y \in T PROVE y <= x
  <2>1. n - y \in U
    OBVIOUS
  <2>2. n - x <= n - y
    BY <1>2, <1>3, <2>1
  <2>3. x \in 0 .. n /\ y \in 0 .. n
    OBVIOUS
  <2> QED
    BY <2>2, <2>3
<1> QED
    BY <1>4

(* What is trimmed off is taken from the ends.                             *)
LEMMA TrimIsTyped ==
    ASSUME NEW S, NEW s \in Seq(S)
    PROVE  TrimSpace(s) \in Seq(S)
<1> DEFINE ink == {k \in DOMAIN s : s[k] # Space}
           first == CHOOSE k \in ink \cup {1} : \A m \in ink : k <= m
           last == CHOOSE k \in ink \cup {0} : \A m \in ink : k >= m
<1>1. Len(s) \in Nat /\ DOMAIN s = 1 .. Len(s)
    OBVIOUS
<1>2. ink \subseteq 1 .. Len(s)
    BY <1>1
<1> HIDE DEF ink
<1>3. \E k \in ink \cup {1} : \A m \in ink : k <= m
  <2>1. CASE ink = {}
    BY <2>1
  <2>2. CASE ink # {}
    BY <1>1, <1>2, <2>2, LeastOf
  <2> QED
    BY <2>1, <2>2
<1>4. \E k \in ink \cup {0} : \A m \in ink : k >= m
  <2>1. CASE ink = {}
    BY <2>1
  <2>2. CASE ink # {}
    <3>1. ink \in SUBSET (0 .. Len(s))
      BY <1>1, <1>2
    <3>2. PICK x \in ink : \A y \in ink : y <= x
      BY <1>1, <2>2, <3>1, GreatestOf
    <3>3. \A y \in ink : x >= y
      BY <3>1, <3>2
    <3> QED
      BY <3>3
  <2> QED
    BY <2>1, <2>2
<1>5. first \in ink \cup {1} /\ last \in ink \cup {0}
    BY <1>3, <1>4
<1>6. TrimSpace(s) = SubSeq(s, first, last)
    BY DEF TrimSpace, ink
<1> HIDE DEF first, last
<1>7. first \in Nat \ {0} /\ last \in 0 .. Len(s)
    BY <1>1, <1>2, <1>5
<1>8. CASE last < first
    BY <1>1, <1>6, <1>7, <1>8, SubSeqEmpty
<1>9. CASE first <= last
  <2>1. \A k \in first .. last : k \in 1 .. Len(s)
    BY <1>1, <1>7
  <2> QED
    BY <1>1, <1>6, <1>7, <1>9, <2>1, SubSeqProperties
<1> QED
    BY <1>7, <1>8, <1>9

-----------------------------------------------------------------------------
(* The grammar, one character further on.                                  *)
LEMMA NothingIsEscapedAtFirst == ASSUME NEW s PROVE ~Escaped(s, 1)
<1>1. {m \in 1 .. 1 - 1 : \A n \in m .. 1 - 1 : s[n] = Backslash} = {}
    OBVIOUS
<1>2. Cardinality({}) = 0
    BY FS_EmptySet
<1> QED
    BY <1>1, <1>2 DEF Escaped

LEMMA EscapedNext ==
    ASSUME NEW s \in Seq(Chars), NEW k \in 1 .. Len(s)
    PROVE  Escaped(s, k + 1) <=> s[k] = Backslash /\ ~Escaped(s, k)
<1> DEFINE run(j) == {m \in 1 .. j - 1 : \A n \in m .. j - 1 : s[n] = Backslash}
<1>1. Len(s) \in Nat /\ k \in Nat
    OBVIOUS
<1>2. IsFiniteSet(run(k)) /\ Cardinality(run(k)) \in Nat
  <2>1. IsFiniteSet(1 .. k - 1)
    BY <1>1, FS_Interval
  <2> QED
    BY <2>1, FS_Subset, FS_CardinalityType
<1>3. CASE s[k] = Backslash
  <2>1. run(k + 1) = run(k) \cup {k}
    BY <1>1, <1>3
  <2>2. k \notin run(k)
    BY <1>1
  <2>3. Cardinality(run(k + 1)) = Cardinality(run(k)) + 1
    BY <1>2, <2>1, <2>2, FS_AddElement
  <2> HIDE DEF run
  <2>4. Cardinality(run(k + 1)) % 2 = 1 <=> ~(Cardinality(run(k)) % 2 = 1)
    BY <1>2, <2>3
  <2> QED
    BY <1>3, <2>4 DEF Escaped, run
<1>4. CASE s[k] # Backslash
  <2>1. run(k + 1) = {}
    BY <1>1, <1>4
  <2>2. Cardinality(run(k + 1)) = 0
    BY <2>1, FS_EmptySet
  <2> QED
    BY <1>4, <2>2 DEF Escaped
<1> QED
    BY <1>3, <1>4

-----------------------------------------------------------------------------
(* The ends of components, in order.                                       *)
LEMMA EndsAreFinite ==
    ASSUME NEW s \in Seq(Chars)
    PROVE  /\ Ends(s) \subseteq 1 .. Len(s) + 1 /\ Len(s) + 1 \in Ends(s)
           /\ \A T \in SUBSET Ends(s) : IsFiniteSet(T) /\ Cardinality(T) \in Nat
<1>1. Len(s) \in Nat /\ DOMAIN s = 1 .. Len(s)
    OBVIOUS
<1>2. Ends(s) \subseteq 1 .. Len(s) + 1 /\ Len(s) + 1 \in Ends(s)
    BY <1>1 DEF Ends
<1>3. IsFiniteSet(1 .. Len(s) + 1)
    BY <1>1, FS_Interval
<1>4. \A T \in SUBSET Ends(s) : IsFiniteSet(T) /\ Cardinality(T) \in Nat
    BY <1>2, <1>3, FS_Subset, FS_CardinalityType
<1> QED
    BY <1>2, <1>4

(* No two of them are the n-th.                                            *)
LEMMA RanksDiffer ==
    ASSUME NEW s \in Seq(Chars), NEW k \in Ends(s), NEW l \in Ends(s),
           Cardinality({m \in Ends(s) : m <= k}) = Cardinality({m \in Ends(s) : m <= l})
    PROVE  k = l
<1> DEFINE upto(j) == {m \in Ends(s) : m <= j}
<1>1. k \in Nat /\ l \in Nat
    BY EndsAreFinite
<1>2. ASSUME NEW a \in Ends(s), NEW b \in Ends(s), a <= b, a \in Nat, b \in Nat,
             Cardinality(upto(a)) = Cardinality(upto(b))
      PROVE  a = b
  <2>1. upto(a) \in SUBSET upto(b)
    <3>1. \A m \in Ends(s) : m <= a => m <= b
      BY <1>2, EndsAreFinite
    <3> QED
      BY <3>1
  <2>2. IsFiniteSet(upto(b))
    BY EndsAreFinite
  <2> HIDE DEF upto
  <2>3. upto(a) = upto(b)
    BY <1>2, <2>1, <2>2, FS_Subset
  <2>4. b \in upto(b)
    BY <1>2 DEF upto
  <2>5. b <= a
    BY <2>3, <2>4 DEF upto
  <2> QED
    BY <1>2, <2>5
<1>3. CASE k <= l
    BY <1>1, <1>2, <1>3
<1>4. CASE l <= k
    BY <1>1, <1>2, <1>4
<1> QED
    BY <1>1, <1>3, <1>4

(* The piece before an end is the one the scan cuts off there.             *)
LEMMA PieceAt ==
    ASSUME dn \in Seq(Chars), NEW e \in Ends(dn), NEW b \in Nat,
           b - 1 \in Passed(e) \cup {0}, \A m \in Passed(e) : m <= b - 1
    PROVE  LET n == Cardinality(Passed(e)) + 1
           IN  n \in DOMAIN Pieces(dn) /\ Pieces(dn)[n] = SubSeq(dn, b, e - 1)
<1> DEFINE n == Cardinality(Passed(e)) + 1
           upto(j) == {m \in Ends(dn) : m <= j}
<1>1. e \in Nat /\ Cardinality(Ends(dn)) \in Nat
    BY EndsAreFinite
<1>2. upto(e) = Passed(e) \cup {e} /\ e \notin Passed(e)
    BY <1>1, EndsAreFinite DEF Passed
<1>3. IsFiniteSet(Passed(e)) /\ Cardinality(Passed(e)) \in Nat
    BY EndsAreFinite DEF Passed
<1>4. Cardinality(upto(e)) = n
    BY <1>2, <1>3, FS_AddElement
<1>5. n \in 1 .. Cardinality(Ends(dn))
  <2>1. upto(e) \in SUBSET Ends(dn) /\ IsFiniteSet(Ends(dn))
    BY EndsAreFinite
  <2> HIDE DEF upto
  <2>2. Cardinality(upto(e)) <= Cardinality(Ends(dn))
    BY <2>1, FS_Subset
  <2> QED
    BY <1>1, <1>3, <1>4, <2>2
<1>6. (CHOOSE k \in Ends(dn) : Cardinality({m \in Ends(dn) : m <= k}) = n) = e
    BY <1>4, RanksDiffer
<1>7. Pieces(dn)[n] = Piece(dn, e) /\ n \in DOMAIN Pieces(dn)
    BY <1>5, <1>6 DEF Pieces
<1>8. Piece(dn, e) = SubSeq(dn, b, e - 1)
  <2> DEFINE before == {k \in Ends(dn) \cup {0} : k < e}
  <2>1. before = Passed(e) \cup {0}
    BY <1>1, EndsAreFinite DEF Passed
  <2>2. b - 1 \in before /\ \A m \in before : b - 1 >= m
    <3>1. \A m \in Passed(e) : m \in Nat
      BY EndsAreFinite DEF Passed
    <3> QED
      BY <2>1, <3>1
  <2>3. \A m \in before : m \in Nat
    BY EndsAreFinite
  <2> HIDE DEF before
  <2>4. (CHOOSE k \in before : \A m \in before : k >= m) = b - 1
    BY <2>2, <2>3
  <2>5. (b - 1) + 1 = b
    OBVIOUS
  <2> QED
    BY <2>4, <2>5 DEF Piece, before
<1> QED
    BY <1>7, <1>8

-----------------------------------------------------------------------------
LEMMA InitSplitInv == InitSplit => IInvSplit
<1> SUFFICES ASSUME InitSplit PROVE IInvSplit
    OBVIOUS
<1>1. dn \in Seq(Chars)
  <2>1. PICK n \in 1 .. MaxLen, s \in [1 .. MaxLen -> Chars] : dn = TrimSpace(SubSeq(s, 1, n))
    BY DEF InitSplit
  <2>2. SubSeq(s, 1, n) \in Seq(Chars)
    <3>1. \A k \in 1 .. n : s[k] \in Chars
      BY SplittingAssumption
    <3> QED
      BY <3>1, SubSeqProperties, SplittingAssumption
  <2> QED
    BY <2>1, <2>2, TrimIsTyped
<1>2. i = 1 /\ start = 1 /\ esc = FALSE /\ parts = <<>> /\ done = FALSE
    BY DEF InitSplit
<1>3. TypeOKSplit
  <2>1. i \in 1 .. Len(dn) + 1 /\ start \in 1 .. i /\ parts \in Seq(Seq(Chars))
    BY <1>1, <1>2
  <2> QED
    BY <1>1, <1>2, <2>1 DEF TypeOKSplit
<1>4. Passed(1) = {} /\ Cardinality(Passed(1)) = 0
  <2>1. Passed(1) = {}
    BY <1>1, EndsAreFinite DEF Passed
  <2> QED
    BY <2>1, FS_EmptySet
<1>5. esc = Escaped(dn, i)
  <2>1. Escaped(dn, 1) \in BOOLEAN
    BY DEF Escaped
  <2> QED
    BY <1>2, <2>1, NothingIsEscapedAtFirst
<1> QED
    BY <1>2, <1>3, <1>4, <1>5 DEF IInvSplit, SplitOK, SplitsAtBareCommas, Scanned

(* A piece that is cut off is the next one.                                *)
LEMMA CutKeeps ==
    ASSUME IInvSplit, ~done, i \in Ends(dn),
           parts' = Append(parts, TrimSpace(SubSeq(dn, start, i - 1)))
    PROVE  /\ parts' \in Seq(Seq(Chars)) /\ Len(parts') = Cardinality(Passed(i)) + 1
           /\ \A n \in 1 .. Len(parts') : /\ n \in DOMAIN Pieces(dn)
                                          /\ parts'[n] = TrimSpace(Pieces(dn)[n])
<1> DEFINE piece == SubSeq(dn, start, i - 1)
<1>1. /\ dn \in Seq(Chars) /\ Len(dn) \in Nat /\ i \in 1 .. Len(dn) + 1 /\ start \in 1 .. i
      /\ parts \in Seq(Seq(Chars)) /\ Len(parts) \in Nat
    BY DEF IInvSplit, SplitOK, TypeOKSplit
<1>2. piece \in Seq(Chars)
  <2>1. \A k \in start .. i - 1 : dn[k] \in Chars
    BY <1>1
  <2> QED
    BY <1>1, <2>1, SubSeqProperties
<1>3. LET n == Cardinality(Passed(i)) + 1
      IN  n \in DOMAIN Pieces(dn) /\ Pieces(dn)[n] = piece
    BY <1>1, PieceAt DEF IInvSplit, Scanned
<1>4. TrimSpace(piece) \in Seq(Chars)
    BY <1>2, TrimIsTyped
<1> HIDE DEF piece
<1>5. /\ parts' \in Seq(Seq(Chars)) /\ Len(parts') = Len(parts) + 1
      /\ \A n \in 1 .. Len(parts) : parts'[n] = parts[n]
      /\ parts'[Len(parts) + 1] = TrimSpace(piece)
    BY <1>1, <1>4 DEF piece
<1>6. Len(parts) = Cardinality(Passed(i))
    BY DEF IInvSplit, Scanned
<1>7. ASSUME NEW n \in 1 .. Len(parts')
      PROVE  n \in DOMAIN Pieces(dn) /\ parts'[n] = TrimSpace(Pieces(dn)[n])
  <2>1. CASE n \in 1 .. Len(parts)
    BY <1>5, <2>1 DEF IInvSplit, Scanned
  <2>2. CASE n = Len(parts) + 1
    BY <1>3, <1>5, <1>6, <2>2
  <2> QED
    BY <1>1, <1>5, <2>1, <2>2
<1> QED
    BY <1>5, <1>6, <1>7

LEMMA ScanKeeps == IInvSplit /\ Scan => IInvSplit'
<1> SUFFICES ASSUME IInvSplit, Scan PROVE IInvSplit'
    OBVIOUS
<1>1. /\ dn \in Seq(Chars) /\ Len(dn) \in Nat /\ i \in 1 .. Len(dn) /\ i' = i + 1
      /\ start \in 1 .. i /\ parts \in Seq(Seq(Chars)) /\ ~done
      /\ dn' = dn /\ done = FALSE /\ done' = FALSE
    <2>1. i <= Len(dn) /\ dn \in Seq(Chars) /\ i \in 1 .. Len(dn) + 1
      BY DEF Scan, IInvSplit, SplitOK, TypeOKSplit
    <2>2. ~done
      BY <2>1 DEF IInvSplit, Scanned
    <2> QED
      BY <2>1, <2>2 DEF Scan, IInvSplit, SplitOK, TypeOKSplit
<1>2. esc' = Escaped(dn', i') /\ esc' \in BOOLEAN
  <2>1. \A k : Escaped(dn, k) \in BOOLEAN
    BY DEF Escaped
  <2>2. esc = Escaped(dn, i) /\ esc' = (~esc /\ dn[i] = Backslash)
    BY DEF Scan, IInvSplit, Scanned
  <2>3. Escaped(dn, i + 1) <=> dn[i] = Backslash /\ ~Escaped(dn, i)
    BY <1>1, EscapedNext
  <2> QED
    BY <1>1, <2>1, <2>2, <2>3
<1>3. \A k : Passed(k)' = Passed(k)
    BY <1>1 DEF Passed
<1>4. i \in Ends(dn) <=> dn[i] = Comma /\ ~esc
    BY <1>1 DEF Ends, IInvSplit, Scanned
<1>5. CASE i \in Ends(dn)
  <2>1. /\ parts' = Append(parts, TrimSpace(SubSeq(dn, start, i - 1)))
        /\ start' = i + 1
    BY <1>4, <1>5 DEF Scan
  <2>2. Passed(i + 1) = Passed(i) \cup {i} /\ i \notin Passed(i)
    BY <1>1, <1>5, EndsAreFinite, SMTT(30) DEF Passed
  <2>3. Cardinality(Passed(i + 1)) = Cardinality(Passed(i)) + 1
    <3>1. IsFiniteSet(Passed(i))
      BY <1>1, EndsAreFinite DEF Passed
    <3> QED
      BY <2>2, <3>1, FS_AddElement
  <2>4. \A m \in Passed(i + 1) : m <= start' - 1
    BY <1>1, <2>1, EndsAreFinite DEF Passed
  <2>5. start' - 1 = i /\ start' \in 1 .. i'
    BY <1>1, <2>1
  <2>6. /\ parts' \in Seq(Seq(Chars)) /\ Len(parts') = Cardinality(Passed(i)) + 1
        /\ \A n \in 1 .. Len(parts') : /\ n \in DOMAIN Pieces(dn)
                                       /\ parts'[n] = TrimSpace(Pieces(dn)[n])
    BY <1>1, <1>5, <2>1, CutKeeps
  <2>7. TypeOKSplit' /\ SplitsAtBareCommas'
    <3>1. i' \in 1 .. Len(dn) + 1
      BY <1>1
    <3> QED
      BY <1>1, <1>2, <2>5, <2>6, <3>1 DEF TypeOKSplit, SplitsAtBareCommas
  <2>8. Scanned'
    BY <1>1, <1>2, <1>3, <2>2, <2>3, <2>4, <2>5, <2>6 DEF Scanned
  <2> QED
    BY <2>7, <2>8 DEF IInvSplit, SplitOK
<1>6. CASE i \notin Ends(dn)
  <2>1. UNCHANGED <<start, parts>>
    BY <1>4, <1>6 DEF Scan
  <2>2. Passed(i + 1) = Passed(i)
    BY <1>1, <1>6, EndsAreFinite DEF Passed
  <2>3. TypeOKSplit' /\ SplitsAtBareCommas'
    <3>1. i' \in 1 .. Len(dn) + 1 /\ start' \in 1 .. i'
      BY <1>1, <2>1
    <3> QED
      BY <1>1, <1>2, <2>1, <3>1 DEF TypeOKSplit, SplitsAtBareCommas
  <2>4. Scanned'
    BY <1>1, <1>2, <1>3, <2>1, <2>2 DEF IInvSplit, Scanned
  <2> QED
    BY <2>3, <2>4 DEF IInvSplit, SplitOK
<1> QED
    BY <1>5, <1>6

LEMMA ReturnKeeps == IInvSplit /\ Return => IInvSplit'
<1> SUFFICES ASSUME IInvSplit, Return PROVE IInvSplit'
    OBVIOUS
<1>1. /\ dn \in Seq(Chars) /\ Len(dn) \in Nat /\ i = Len(dn) + 1 /\ ~done /\ done' = TRUE
      /\ i \in Ends(dn) /\ Ends(dn) \subseteq 1 .. i /\ UNCHANGED <<dn, i, start, esc>>
    BY EndsAreFinite DEF Return, IInvSplit, SplitOK, TypeOKSplit
<1>2. parts' = Append(parts, TrimSpace(SubSeq(dn, start, i - 1)))
    BY <1>1 DEF Return
<1>3. /\ parts' \in Seq(Seq(Chars)) /\ Len(parts') = Cardinality(Passed(i)) + 1
      /\ \A n \in 1 .. Len(parts') : /\ n \in DOMAIN Pieces(dn)
                                     /\ parts'[n] = TrimSpace(Pieces(dn)[n])
    BY <1>1, <1>2, CutKeeps
<1>4. Cardinality(Ends(dn)) = Cardinality(Passed(i)) + 1
  <2>1. Ends(dn) = Passed(i) \cup {i} /\ i \notin Passed(i)
    BY <1>1 DEF Passed
  <2>2. IsFiniteSet(Passed(i))
    BY <1>1, EndsAreFinite DEF Passed
  <2> QED
    BY <2>1, <2>2, FS_AddElement
<1>5. DOMAIN Pieces(dn) = 1 .. Len(parts')
    BY <1>3, <1>4 DEF Pieces
<1>6. SplitsAtBareCommas'
  <2>1. parts' = [n \in 1 .. Len(parts') |-> TrimSpace(Pieces(dn)[n])]
    BY <1>3
  <2> QED
    BY <1>1, <1>5, <2>1 DEF SplitsAtBareCommas
<1>7. TypeOKSplit'
    BY <1>1, <1>3 DEF IInvSplit, SplitOK, TypeOKSplit
<1>8. Scanned'
    BY <1>1 DEF IInvSplit, Scanned, Passed
<1> QED
    BY <1>6, <1>7, <1>8 DEF IInvSplit, SplitOK

(* SplitDN cuts every DN, of any length, at its bare commas and nowhere    *)
(* else (ldapx/entry.go).                                                  *)
THEOREM SplitsWell == SpecSplit => []SplitOK
<1>1. ASSUME IInvSplit, UNCHANGED splitVars PROVE IInvSplit'
    BY <1>1 DEF splitVars, IInvSplit, SplitOK, TypeOKSplit, SplitsAtBareCommas, Scanned, Passed
<1>2. IInvSplit /\ [NextSplit]_splitVars => IInvSplit'
    BY <1>1, ScanKeeps, ReturnKeeps DEF NextSplit
<1>3. IInvSplit => SplitOK
    BY DEF IInvSplit
<1> QED
    BY <1>2, <1>3, InitSplitInv, PTL DEF SpecSplit

-----------------------------------------------------------------------------
(* Loops: the recursions of Ldif and Rendering, a turn for each number up  *)
(* to a last. A recursion is what it says because a function of that kind  *)
(* exists, and what it computes is shown for the least number at fault.    *)

(* What a loop starts with, and what its k-th turn makes of x.             *)
First(loop) == IF loop = "double" THEN 1 ELSE IF loop = "add" THEN 0 ELSE <<>>

Turn(loop, over, x, k) ==
    IF loop = "join" THEN Join(x, over[k])
    ELSE IF loop = "read" THEN ReadLine(x, over[k])
    ELSE IF loop = "double" THEN 2 * x
    ELSE x + IF Power2[k - 1] \in over THEN Power2[k - 1] ELSE 0

(* f holds what the loop has after each of its first n turns.              *)
Runs(f, loop, over, n) ==
    f = [k \in 0 .. n |-> IF k = 0 THEN First(loop) ELSE Turn(loop, over, f[k - 1], k)]

LEMMA LoopRuns ==
    ASSUME NEW loop, NEW over, NEW n \in Nat
    PROVE  \E f : Runs(f, loop, over, n)
<1> DEFINE stuck == {m \in Nat : ~\E f : Runs(f, loop, over, m)}
<1>1. SUFFICES ASSUME stuck # {} PROVE FALSE
    OBVIOUS
<1>2. PICK m \in stuck : \A l \in stuck : m <= l
    BY <1>1, LeastOf
<1>3. CASE m = 0
  <2> DEFINE f == [k \in 0 .. 0 |-> First(loop)]
  <2>1. \A k \in 0 .. 0 : k = 0
    OBVIOUS
  <2>2. Runs(f, loop, over, 0)
    BY <2>1 DEF Runs
  <2> QED
    BY <1>3, <2>2
<1>4. CASE m # 0
  <2>1. m - 1 \in Nat /\ m - 1 \notin stuck
    BY <1>2, <1>4
  <2>2. PICK f : Runs(f, loop, over, m - 1)
    BY <2>1
  <2> DEFINE g == [k \in 0 .. m |-> IF k = m THEN Turn(loop, over, f[m - 1], m) ELSE f[k]]
  <2>3. \A k \in 0 .. m - 1 : g[k] = f[k]
    BY <2>1
  <2>4. ASSUME NEW k \in 0 .. m
        PROVE  g[k] = IF k = 0 THEN First(loop) ELSE Turn(loop, over, g[k - 1], k)
    <3>1. CASE k = m
      <4>1. g[k] = Turn(loop, over, f[m - 1], m)
        BY <3>1
      <4>2. g[k - 1] = f[m - 1]
        BY <2>1, <2>3, <3>1
      <4> QED
        BY <1>4, <3>1, <4>1, <4>2
    <3>2. CASE k \in 0 .. m - 1
      <4>1. g[k] = f[k] /\ f[k] = IF k = 0 THEN First(loop) ELSE Turn(loop, over, f[k - 1], k)
        BY <2>2, <2>3, <3>2 DEF Runs
      <4>2. k # 0 => k - 1 \in 0 .. m - 1
        BY <2>1, <3>2
      <4> HIDE DEF g
      <4> QED
        BY <2>3, <4>1, <4>2
    <3> QED
      BY <2>1, <3>1, <3>2
  <2>5. g = [k \in 0 .. m |-> g[k]]
    OBVIOUS
  <2> HIDE DEF g
  <2>6. Runs(g, loop, over, m)
    BY <2>4, <2>5 DEF Runs
  <2> QED
    BY <1>2, <2>6
<1> QED
    BY <1>3, <1>4

(* Loops over what begins alike begin alike.                               *)
Alike(loop, over, over2, n) ==
    \A x : \A k \in 1 .. n : Turn(loop, over, x, k) = Turn(loop, over2, x, k)

LEMMA LoopsAgree ==
    ASSUME NEW loop, NEW over, NEW over2, NEW n \in Nat, NEW m \in Nat, n <= m,
           NEW f, Runs(f, loop, over, n), NEW g, Runs(g, loop, over2, m),
           Alike(loop, over, over2, n)
    PROVE  \A k \in 0 .. n : f[k] = g[k]
<1> DEFINE apart == {k \in 0 .. n : f[k] # g[k]}
<1>1. SUFFICES ASSUME apart # {} PROVE FALSE
    OBVIOUS
<1>2. PICK k \in apart : \A l \in apart : k <= l
  <2>1. apart \in SUBSET Nat
    OBVIOUS
  <2> HIDE DEF apart
  <2> QED
    BY <1>1, <2>1, LeastOf
<1>3. k \in 0 .. n /\ k \in 0 .. m /\ f[k] # g[k]
    BY <1>2
<1>4. CASE k = 0
    BY <1>3, <1>4 DEF Runs
<1>5. CASE k # 0
  <2>1. k - 1 \in 0 .. n /\ k - 1 \notin apart /\ k \in 1 .. n
    BY <1>2, <1>3, <1>5
  <2>2. f[k - 1] = g[k - 1]
    BY <2>1
  <2>3. f[k] = Turn(loop, over, f[k - 1], k) /\ g[k] = Turn(loop, over2, g[k - 1], k)
    BY <1>3, <1>5 DEF Runs
  <2> QED
    BY <1>3, <2>1, <2>2, <2>3 DEF Alike
<1> QED
    BY <1>4, <1>5

(* The readers of a document are such loops, ...                           *)
LEMMA UnfoldRuns ==
    ASSUME NEW d, Len(d) \in Nat
    PROVE  \E f : Runs(f, "join", d, Len(d)) /\ Unfold(d) = f[Len(d)]
<1>1. PICK g : Runs(g, "join", d, Len(d))
    BY LoopRuns
<1>2. \A f : Runs(f, "join", d, Len(d)) <=>
         f = [k \in 0 .. Len(d) |-> IF k = 0 THEN <<>> ELSE Join(f[k - 1], d[k])]
    BY DEF Runs, Turn, First
<1>3. PICK f : /\ f = [k \in 0 .. Len(d) |-> IF k = 0 THEN <<>> ELSE Join(f[k - 1], d[k])]
               /\ Unfold(d) = f[Len(d)]
  <2>1. g = [k \in 0 .. Len(d) |-> IF k = 0 THEN <<>> ELSE Join(g[k - 1], d[k])]
    BY <1>1, <1>2
  <2> QED
    BY <2>1 DEF Unfold
<1> QED
    BY <1>2, <1>3

LEMMA EntriesRuns ==
    ASSUME NEW d, Len(d) \in Nat
    PROVE  \E f : Runs(f, "read", d, Len(d)) /\ Entries(d) = f[Len(d)]
<1>1. PICK g : Runs(g, "read", d, Len(d))
    BY LoopRuns
<1>2. \A f : Runs(f, "read", d, Len(d)) <=>
         f = [k \in 0 .. Len(d) |-> IF k = 0 THEN <<>> ELSE ReadLine(f[k - 1], d[k])]
    BY DEF Runs, Turn, First
<1>3. PICK f : /\ f = [k \in 0 .. Len(d) |-> IF k = 0 THEN <<>> ELSE ReadLine(f[k - 1], d[k])]
               /\ Entries(d) = f[Len(d)]
  <2>1. g = [k \in 0 .. Len(d) |-> IF k = 0 THEN <<>> ELSE ReadLine(g[k - 1], d[k])]
    BY <1>1, <1>2
  <2> QED
    BY <2>1 DEF Entries
<1> QED
    BY <1>2, <1>3

(* ... and what they make of one line more is said by what they make of    *)
(* the lines before.                                                       *)
LEMMA ReadersGoOn ==
    ASSUME NEW S, NEW d \in Seq(S), NEW line \in S
    PROVE  /\ Unfold(Append(d, line)) = Join(Unfold(d), line)
           /\ Entries(Append(d, line)) = ReadLine(Entries(d), line)
<1> DEFINE e == Append(d, line)
<1>1. Len(d) \in Nat /\ Len(e) = Len(d) + 1 /\ e[Len(d) + 1] = line
      /\ \A k \in 1 .. Len(d) : e[k] = d[k]
    OBVIOUS
<1> HIDE DEF e
<1>2. ASSUME NEW loop \in {"join", "read"}, NEW f, Runs(f, loop, d, Len(d)),
             NEW g, Runs(g, loop, e, Len(e))
      PROVE  g[Len(e)] = Turn(loop, e, f[Len(d)], Len(d) + 1)
  <2>1. Alike(loop, d, e, Len(d))
    BY <1>1 DEF Turn, Alike
  <2>2. f[Len(d)] = g[Len(d)]
    <3>1. Len(d) \in Nat /\ Len(e) \in Nat /\ Len(d) <= Len(e) /\ Len(d) \in 0 .. Len(d)
      BY <1>1
    <3>2. \A k \in 0 .. Len(d) : f[k] = g[k]
      BY <1>2, <2>1, <3>1, LoopsAgree
    <3> QED
      BY <3>1, <3>2
  <2>3. Len(e) \in 0 .. Len(e) /\ Len(e) # 0 /\ Len(e) - 1 = Len(d)
    BY <1>1
  <2>4. g[Len(e)] = Turn(loop, e, g[Len(e) - 1], Len(e))
    BY <1>2, <2>3 DEF Runs
  <2> QED
    BY <1>1, <2>2, <2>3, <2>4
<1>3. Unfold(e) = Join(Unfold(d), line)
  <2>1. PICK f : Runs(f, "join", d, Len(d)) /\ Unfold(d) = f[Len(d)]
    BY <1>1, UnfoldRuns
  <2>2. PICK g : Runs(g, "join", e, Len(e)) /\ Unfold(e) = g[Len(e)]
    BY <1>1, UnfoldRuns
  <2> QED
    BY <1>1, <1>2, <2>1, <2>2 DEF Turn
<1>4. Entries(e) = ReadLine(Entries(d), line)
  <2>1. PICK f : Runs(f, "read", d, Len(d)) /\ Entries(d) = f[Len(d)]
    BY <1>1, EntriesRuns
  <2>2. PICK g : Runs(g, "read", e, Len(e)) /\ Entries(e) = g[Len(e)]
    BY <1>1, EntriesRuns
  <2> QED
    BY <1>1, <1>2, <2>1, <2>2 DEF Turn
<1> QED
    BY <1>3, <1>4 DEF e

LEMMA ReadersStart == Unfold(<<>>) = <<>> /\ Entries(<<>>) = <<>>
<1>1. Len(<<>>) = 0
    OBVIOUS
<1>2. \A f, loop : Runs(f, loop, <<>>, 0) /\ loop \in {"join", "read"} => f[0] = <<>>
    BY DEF Runs, First
<1>3. PICK f : Runs(f, "join", <<>>, 0) /\ Unfold(<<>>) = f[0]
    BY <1>1, UnfoldRuns
<1>4. PICK g : Runs(g, "read", <<>>, 0) /\ Entries(<<>>) = g[0]
    BY <1>1, EntriesRuns
<1> QED
    BY <1>2, <1>3, <1>4
-----------------------------------------------------------------------------
(* Ldif.                                                                   *)

(* Characters of a line, and those that may be written as they are.        *)
LineChar == Seq(Char) \X Nat
Fit(c)   == c \in LineChar /\ (c[2] = 0 => c[1][1] \notin {"\n", "^", "~"})

FitChar  == {c \in LineChar : Fit(c)}
LineText == Seq(FitChar)
FitLine  == {line \in Seq(FitChar) : Len(line) <= LineWidth}

(* Any line there can be, comments as well.                                *)
AnyLine  == Seq(LineChar)

LEMMA LinesAreLines ==
    /\ LineText \subseteq AnyLine /\ FitLine \subseteq LineText
    /\ \A lines \in Seq(FitLine) : lines \in Seq(AnyLine)
<1>1. FitChar \subseteq LineChar
    BY DEF FitChar
<1>2. LineText \subseteq AnyLine
    BY <1>1 DEF LineText, AnyLine
<1>3. FitLine \subseteq LineText
    BY DEF FitLine, LineText
<1>4. FitLine \subseteq AnyLine
    BY <1>2, <1>3
<1> HIDE DEF FitLine, AnyLine
<1>5. \A lines \in Seq(FitLine) : lines \in Seq(AnyLine)
    BY <1>4
<1> QED
    BY <1>2, <1>3, <1>5

-----------------------------------------------------------------------------
LEMMA LiteralIsFit ==
    ASSUME NEW s \in Seq(Char), ToSet(s) \cap {"\n", "^", "~"} = {}
    PROVE  Literal(s) \in Seq(FitChar) /\ Len(Literal(s)) = Len(s)
<1>1. Literal(s) = [k \in 1 .. Len(s) |-> <<<<s[k]>>, 0>>] /\ Len(s) \in Nat
    BY DEF Literal
<1>2. ASSUME NEW k \in 1 .. Len(s)
      PROVE  <<<<s[k]>>, 0>> \in FitChar
  <2>1. s[k] \in Char /\ s[k] \in ToSet(s)
    BY DEF ToSet
  <2>2. s[k] \notin {"\n", "^", "~"}
    BY <2>1
  <2>3. <<s[k]>> \in Seq(Char) /\ <<s[k]>>[1] = s[k]
    BY <2>1
  <2> DEFINE c == <<<<s[k]>>, 0>>
  <2>4. c \in LineChar /\ c[1][1] = s[k]
    BY <2>3 DEF LineChar
  <2> QED
    BY <2>2, <2>4 DEF FitChar, Fit
<1> QED
    BY <1>1, <1>2

LEMMA Base64IsFit ==
    ASSUME NEW v \in Seq(Char)
    PROVE  Base64(v) \in Seq(FitChar)
<1>1. 4 * ((Len(v) + 2) \div 3) \in Nat
  <2>1. Len(v) \in Nat
    OBVIOUS
  <2> QED
    BY <2>1
<1>2. ASSUME NEW k \in 1 .. 4 * ((Len(v) + 2) \div 3)
      PROVE  <<v, k>> \in FitChar
  <2> DEFINE c == <<v, k>>
  <2>1. k \in Nat \ {0}
    BY <1>1
  <2>2. c \in LineChar /\ c[2] # 0
    BY <2>1 DEF LineChar
  <2> QED
    BY <2>2 DEF FitChar, Fit
<1> QED
    BY <1>1, <1>2 DEF Base64

(* What a line starts with, and what stands between name and value.        *)
LEMMA MarksAreFit ==
    /\ <<" ">> \in Seq(Char) /\ ToSet(<<" ">>) = {" "}
    /\ <<":", " ">> \in Seq(Char) /\ ToSet(<<":", " ">>) = {":", " "}
    /\ <<":", ":", " ">> \in Seq(Char) /\ ToSet(<<":", ":", " ">>) = {":", " "}
    /\ DN \in Seq(Char) /\ ToSet(DN) = {"-"} /\ DN # <<>>
<1>1. {" ", ":", "#", "a", "-"} \subseteq Char
    BY DEF Char
<1>2. ASSUME NEW x \in Char
      PROVE  <<x>> \in Seq(Char) /\ ToSet(<<x>>) = {x} /\ <<x>> # <<>>
  <2>1. DOMAIN <<x>> = {1} /\ <<x>>[1] = x
    OBVIOUS
  <2> QED
    BY <2>1 DEF ToSet
<1>3. ASSUME NEW x \in Char, NEW y \in Char
      PROVE  <<x, y>> \in Seq(Char) /\ ToSet(<<x, y>>) = {x, y}
  <2>1. DOMAIN <<x, y>> = {1, 2} /\ <<x, y>>[1] = x /\ <<x, y>>[2] = y
    OBVIOUS
  <2> QED
    BY <2>1 DEF ToSet
<1>4. ASSUME NEW x \in Char, NEW y \in Char, NEW z \in Char
      PROVE  <<x, y, z>> \in Seq(Char) /\ ToSet(<<x, y, z>>) = {x, y, z}
  <2>1. /\ DOMAIN <<x, y, z>> = {1, 2, 3}
        /\ <<x, y, z>>[1] = x /\ <<x, y, z>>[2] = y /\ <<x, y, z>>[3] = z
    OBVIOUS
  <2> QED
    BY <2>1 DEF ToSet
<1>5. /\ <<" ">> \in Seq(Char) /\ ToSet(<<" ">>) = {" "}
      /\ DN \in Seq(Char) /\ ToSet(DN) = {"-"} /\ DN # <<>>
    BY <1>1, <1>2 DEF DN
<1>6. <<":", " ">> \in Seq(Char) /\ ToSet(<<":", " ">>) = {":", " "}
    BY <1>1, <1>3
<1>7. <<":", ":", " ">> \in Seq(Char) /\ ToSet(<<":", ":", " ">>) = {":", " "}
  <2>1. {":", ":", " "} = {":", " "}
    OBVIOUS
  <2> QED
    BY <1>1, <1>4, <2>1
<1> QED
    BY <1>5, <1>6, <1>7

LEMMA ConcatenationHolds ==
    ASSUME NEW S, NEW a \in Seq(S), NEW b \in Seq(S)
    PROVE  ToSet(a \o b) \subseteq ToSet(a) \cup ToSet(b)
<1>1. ASSUME NEW k \in DOMAIN (a \o b)
      PROVE  (a \o b)[k] \in ToSet(a) \cup ToSet(b)
  <2>1. /\ Len(a) \in Nat /\ Len(b) \in Nat /\ k \in 1 .. Len(a) + Len(b)
        /\ (a \o b)[k] = IF k <= Len(a) THEN a[k] ELSE b[k - Len(a)]
    BY ConcatProperties
  <2>2. CASE k <= Len(a)
    BY <2>1, <2>2 DEF ToSet
  <2>3. CASE k > Len(a)
    <3>1. k - Len(a) \in DOMAIN b
      BY <2>1, <2>3
    <3> QED
      BY <2>1, <2>3, <3>1 DEF ToSet
  <2> QED
    BY <2>1, <2>2, <2>3
<1> QED
    BY <1>1 DEF ToSet

(* A continuation is no longer than it may be.                             *)
LEMMA ContinuationIsFit ==
    ASSUME NEW line \in Seq(FitChar), NEW m \in Nat
    PROVE  Continuation(line, m, LineWidth - 1) \in FitLine
<1> DEFINE last == Min({m + (LineWidth - 1), Len(line)})
           rest == SubSeq(line, m + 1, last)
<1>1. LineWidth \in Nat \ {0, 1} /\ Len(line) \in Nat
    BY LdifAssumption
<1>2. last \in Nat /\ last <= Len(line) /\ last <= m + (LineWidth - 1)
  <2>1. \E x \in {m + (LineWidth - 1), Len(line)} :
            \A y \in {m + (LineWidth - 1), Len(line)} : x <= y
    BY <1>1
  <2> QED
    BY <1>1, <2>1 DEF Min
<1> HIDE DEF last
<1>3. rest \in Seq(FitChar) /\ Len(rest) <= LineWidth - 1
  <2>1. CASE last <= m
    BY <1>1, <1>2, <2>1, SubSeqEmpty
  <2>2. CASE m + 1 <= last
    <3>1. \A k \in m + 1 .. last : line[k] \in FitChar
      BY <1>1, <1>2
    <3> QED
      BY <1>1, <1>2, <2>2, <3>1, SubSeqProperties
  <2> QED
    BY <1>2, <2>1, <2>2
<1>4. Literal(<<" ">>) \in Seq(FitChar) /\ Len(Literal(<<" ">>)) = 1
  <2>1. Len(<<" ">>) = 1 /\ {" "} \cap {"\n", "^", "~"} = {}
    OBVIOUS
  <2> QED
    BY <2>1, MarksAreFit, LiteralIsFit
<1> DEFINE space == Literal(<<" ">>)
<1>5. Continuation(line, m, LineWidth - 1) = space \o rest
    BY DEF Continuation, last
<1> HIDE DEF rest, space
<1>6. /\ space \o rest \in Seq(FitChar) /\ Len(rest) \in Nat
      /\ Len(space \o rest) = Len(space) + Len(rest)
  <2>1. space \in Seq(FitChar)
    BY <1>4 DEF space
  <2> QED
    BY <1>3, <2>1, ConcatProperties
<1>7. Len(space \o rest) <= LineWidth
  <2>1. Len(space) = 1
    BY <1>4 DEF space
  <2> QED
    BY <1>1, <1>3, <1>6, <2>1
<1> QED
    BY <1>5, <1>6, <1>7 DEF FitLine

LEMMA FoldedLinesAreFit ==
    ASSUME NEW line \in Seq(FitChar)
    PROVE  FoldLine(line) \in Seq(FitLine)
<1>1. LineWidth \in Nat \ {0, 1} /\ Len(line) \in Nat
    BY LdifAssumption
<1>2. CASE Len(line) <= LineWidth
  <2>1. line \in FitLine
    BY <1>2 DEF FitLine
  <2> QED
    BY <1>2, <2>1 DEF FoldLine
<1>3. CASE ~(Len(line) <= LineWidth)
  <2> DEFINE n == (Len(line) - 2) \div (LineWidth - 1)
             more == [k \in 1 .. n |->
                Continuation(line, LineWidth + (k - 1) * (LineWidth - 1), LineWidth - 1)]
  <2>1. SubSeq(line, 1, LineWidth) \in FitLine
    <3>1. \A k \in 1 .. LineWidth : line[k] \in FitChar
      BY <1>1, <1>3
    <3>2. /\ SubSeq(line, 1, LineWidth) \in Seq(FitChar)
          /\ Len(SubSeq(line, 1, LineWidth)) = LineWidth
      BY <1>1, <1>3, <3>1, SubSeqProperties
    <3> QED
      BY <1>1, <3>2 DEF FitLine
  <2>2. n \in Nat
    <3>1. Len(line) - 2 \in Nat /\ LineWidth - 1 \in Nat \ {0}
      BY <1>1, <1>3
    <3>2. \A x \in Nat, y \in Nat \ {0} : x \div y \in Nat
      OBVIOUS
    <3> QED
      BY <3>1, <3>2
  <2>3. ASSUME NEW k \in 1 .. n
        PROVE  Continuation(line, LineWidth + (k - 1) * (LineWidth - 1), LineWidth - 1)
                 \in FitLine
    <3>1. k - 1 \in Nat /\ LineWidth - 1 \in Nat
      BY <1>1, <2>2
    <3>2. \A x, y \in Nat : LineWidth + x * y \in Nat
      BY <1>1
    <3> QED
      BY <3>1, <3>2, ContinuationIsFit
  <2> HIDE DEF n
  <2>4. more \in Seq(FitLine)
    BY <2>2, <2>3
  <2>5. <<SubSeq(line, 1, LineWidth)>> \in Seq(FitLine)
    BY <2>1
  <2>6. FoldLine(line) = <<SubSeq(line, 1, LineWidth)>> \o more
    BY <1>3 DEF FoldLine, n
  <2> QED
    BY <2>4, <2>5, <2>6, ConcatProperties
<1> QED
    BY <1>2, <1>3

(* What is between a name and a value is fit, and the value is written as  *)
(* it is only if it is.                                                    *)
LEMMA AttributeIsFit ==
    ASSUME NEW n \in Seq(Char), SafeAttrName(n), NEW v \in Seq(Char)
    PROVE  WriteAttr(n, v) \in Seq(FitLine)
<1>1. ASSUME NEW mark \in {<<":", " ">>, <<":", ":", " ">>}
      PROVE  Literal(n \o mark) \in Seq(FitChar)
  <2>1. mark \in Seq(Char) /\ ToSet(mark) = {":", " "}
    BY MarksAreFit
  <2>2. ToSet(n) \subseteq {"a", "-"}
    BY DEF SafeAttrName
  <2>3. n \o mark \in Seq(Char) /\ ToSet(n \o mark) \subseteq {"a", "-", ":", " "}
    BY <2>1, <2>2, ConcatenationHolds, ConcatProperties
  <2> QED
    BY <2>3, LiteralIsFit
<1>2. CASE NeedsBase64(v)
  <2>1. Literal(n \o <<":", ":", " ">>) \o Base64(v) \in Seq(FitChar)
    BY <1>1, Base64IsFit, ConcatProperties
  <2> QED
    BY <1>2, <2>1, FoldedLinesAreFit DEF WriteAttr
<1>3. CASE ~NeedsBase64(v)
  <2>1. ToSet(v) \cap {"\n", "^", "~"} = {}
    <3>1. CASE v = <<>>
      BY <3>1 DEF ToSet
    <3>2. CASE v # <<>>
      BY <1>3, <3>2 DEF NeedsBase64
    <3> QED
      BY <3>1, <3>2
  <2>2. Literal(n \o <<":", " ">>) \o Literal(v) \in Seq(FitChar)
    BY <1>1, <2>1, LiteralIsFit, ConcatProperties
  <2> QED
    BY <1>3, <2>2, FoldedLinesAreFit DEF WriteAttr
<1> QED
    BY <1>2, <1>3

-----------------------------------------------------------------------------
(* What is folded is unfolded.                                             *)

LEMMA PrefixGrows ==
    ASSUME NEW S, NEW s \in Seq(S), NEW a \in Nat, NEW b \in Nat, a <= b, b <= Len(s)
    PROVE  /\ SubSeq(s, 1, a) \in Seq(S) /\ SubSeq(s, a + 1, b) \in Seq(S)
           /\ SubSeq(s, 1, a) \o SubSeq(s, a + 1, b) = SubSeq(s, 1, b)
<1>1. Len(s) \in Nat /\ \A k \in 1 .. Len(s) : s[k] \in S
    OBVIOUS
<1>2. /\ SubSeq(s, 1, a) = [k \in 1 .. a |-> s[k]] /\ SubSeq(s, 1, a) \in Seq(S)
      /\ SubSeq(s, 1, b) = [k \in 1 .. b |-> s[k]]
      /\ SubSeq(s, a + 1, b) = [k \in 1 .. b - a |-> s[k + a]]
      /\ SubSeq(s, a + 1, b) \in Seq(S)
    BY <1>1
<1>3. Len(SubSeq(s, 1, a)) = a /\ Len(SubSeq(s, a + 1, b)) = b - a
    BY <1>1, <1>2
<1> DEFINE p == SubSeq(s, 1, a)
           q == SubSeq(s, a + 1, b)
<1>4. /\ Len(p \o q) = b /\ p \o q \in Seq(S)
      /\ \A k \in 1 .. b : (p \o q)[k] = IF k <= a THEN p[k] ELSE q[k - a]
    BY <1>2, <1>3, ConcatProperties
<1>5. \A k \in 1 .. b : (p \o q)[k] = s[k]
    BY <1>2, <1>4
<1>6. p \o q = [k \in 1 .. b |-> s[k]]
    BY <1>4, <1>5
<1> QED
    BY <1>2, <1>6

(* How much of the line has been written after k continuations.            *)
Reached(line, k) == Min({LineWidth + k * (LineWidth - 1), Len(line)})

LEMMA ReachedIs ==
    ASSUME NEW line, Len(line) \in Nat, NEW k \in Nat
    PROVE  LET n == LineWidth + k * (LineWidth - 1)
           IN  n \in Nat /\ Reached(line, k) = IF n <= Len(line) THEN n ELSE Len(line)
<1> DEFINE n == LineWidth + k * (LineWidth - 1)
<1>1. LineWidth \in Nat /\ LineWidth - 1 \in Nat
    BY LdifAssumption
<1>2. \A x, y \in Nat : LineWidth + x * y \in Nat
    BY <1>1
<1>3. n \in Nat
    BY <1>1, <1>2
<1> HIDE DEF n
<1>4. Reached(line, k) = Min({n, Len(line)})
    BY DEF Reached, n
<1>5. Min({n, Len(line)}) = IF n <= Len(line) THEN n ELSE Len(line)
  <2> DEFINE m == IF n <= Len(line) THEN n ELSE Len(line)
  <2>1. m \in {n, Len(line)} /\ \A y \in {n, Len(line)} : m <= y
    BY <1>3
  <2>2. \A x \in {n, Len(line)} : (\A y \in {n, Len(line)} : x <= y) => x = m
    BY <1>3
  <2> HIDE DEF m
  <2>3. Min({n, Len(line)}) = m
    BY <2>1, <2>2 DEF Min
  <2> QED
    BY <2>3 DEF m
<1> QED
    BY <1>3, <1>4, <1>5 DEF n

LEMMA ContinuationIs ==
    ASSUME NEW line, Len(line) \in Nat, Len(line) > LineWidth,
           NEW k \in 1 .. (Len(line) - 2) \div (LineWidth - 1)
    PROVE  /\ Reached(line, k - 1) \in Nat /\ Reached(line, k) \in Nat
           /\ Reached(line, k - 1) <= Reached(line, k) /\ Reached(line, k) <= Len(line)
           /\ Continuation(line, LineWidth + (k - 1) * (LineWidth - 1), LineWidth - 1)
                = Literal(<<" ">>) \o SubSeq(line, Reached(line, k - 1) + 1, Reached(line, k))
<1> DEFINE w == LineWidth - 1
           n == (Len(line) - 2) \div w
<1>1. LineWidth \in Nat /\ w \in Nat \ {0} /\ Len(line) - 2 \in Nat
    BY LdifAssumption
<1> HIDE DEF w
<1>2. n \in Nat /\ n * w <= Len(line) - 2
    BY <1>1
<1>3. k \in Nat /\ k - 1 \in Nat /\ k <= n
    BY <1>2 DEF w
<1> HIDE DEF n
<1>4. (k - 1) * w = k * w - w /\ (k - 1) * w \in Nat /\ k * w <= n * w
    BY <1>1, <1>2, <1>3
<1>5. LineWidth = w + 1
    BY <1>1 DEF w
<1>6. Reached(line, k - 1) = LineWidth + (k - 1) * w
  <2>1. LineWidth + (k - 1) * w <= Len(line)
    BY <1>1, <1>2, <1>3, <1>4, <1>5
  <2> QED
    BY <1>3, <2>1, ReachedIs DEF w
<1>7. Reached(line, k) = Min({LineWidth + (k - 1) * w + w, Len(line)})
  <2>1. LineWidth + k * w = LineWidth + (k - 1) * w + w
    BY <1>1, <1>2, <1>3, <1>4
  <2> QED
    BY <2>1 DEF Reached, w
<1>8. /\ Reached(line, k) \in Nat /\ Reached(line, k) <= Len(line)
      /\ Reached(line, k) =
           IF LineWidth + k * w <= Len(line) THEN LineWidth + k * w ELSE Len(line)
    BY <1>3, ReachedIs DEF w
<1>9. Reached(line, k - 1) \in Nat /\ Reached(line, k - 1) <= Reached(line, k)
    BY <1>1, <1>2, <1>3, <1>4, <1>5, <1>6, <1>8
<1>10. Continuation(line, LineWidth + (k - 1) * w, w)
         = Literal(<<" ">>) \o SubSeq(line, Reached(line, k - 1) + 1, Reached(line, k))
    BY <1>6, <1>7 DEF Continuation
<1> QED
    BY <1>8, <1>9, <1>10 DEF w

(* The last one reaches the end.                                           *)
LEMMA AllIsReached ==
    ASSUME NEW line, Len(line) \in Nat, Len(line) > LineWidth
    PROVE  /\ (Len(line) - 2) \div (LineWidth - 1) \in Nat
           /\ Reached(line, 0) = LineWidth
           /\ Reached(line, (Len(line) - 2) \div (LineWidth - 1)) = Len(line)
<1> DEFINE w == LineWidth - 1
           n == (Len(line) - 2) \div w
<1>1. LineWidth \in Nat /\ w \in Nat \ {0} /\ Len(line) - 2 \in Nat
    BY LdifAssumption
<1>2. LineWidth = w + 1
    BY <1>1 DEF w
<1> HIDE DEF w
<1>3. /\ n \in Nat /\ Len(line) - 2 = w * n + ((Len(line) - 2) % w)
      /\ (Len(line) - 2) % w \in 0 .. w - 1
    BY <1>1
<1>4. n * w + w > Len(line) - 2
    BY <1>1, <1>3
<1> HIDE DEF n
<1>5. LineWidth + n * w >= Len(line)
  <2>1. n * w \in Nat
    BY <1>1, <1>3
  <2> QED
    BY <1>1, <1>2, <1>4, <2>1
<1>6. Reached(line, n) = Len(line)
  <2>1. n * w \in Nat
    BY <1>1, <1>3
  <2>2. Reached(line, n) =
          IF LineWidth + n * w <= Len(line) THEN LineWidth + n * w ELSE Len(line)
    BY <1>3, ReachedIs DEF w
  <2> QED
    BY <1>1, <1>5, <2>1, <2>2
<1>7. Reached(line, 0) = LineWidth
  <2>1. LineWidth + 0 * w = LineWidth
    BY <1>1
  <2> QED
    BY <1>1, <2>1, ReachedIs DEF w
<1> QED
    BY <1>3, <1>6, <1>7 DEF n, w

-----------------------------------------------------------------------------
LEMMA HeadAndRest ==
    ASSUME NEW S, NEW a \in S, NEW s \in Seq(S)
    PROVE  /\ <<a>> \o s \in Seq(S) /\ <<a>> \o s # <<>>
           /\ (<<a>> \o s)[1] = a /\ Tail(<<a>> \o s) = s
           /\ Len(<<a>> \o s) = Len(s) + 1
           /\ \A k \in 1 .. Len(s) : (<<a>> \o s)[k + 1] = s[k]
<1>1. <<a>> \in Seq(S) /\ Len(<<a>>) = 1 /\ <<a>>[1] = a
    OBVIOUS
<1> DEFINE one == <<a>>
           all == one \o s
<1> HIDE DEF one
<1>2. one \in Seq(S) /\ Len(one) = 1 /\ one[1] = a
    BY <1>1 DEF one
<1>3. /\ all \in Seq(S) /\ Len(all) = Len(s) + 1 /\ Len(s) \in Nat
      /\ \A k \in 1 .. Len(all) : all[k] = IF k <= 1 THEN one[k] ELSE s[k - 1]
  <2>1. Len(s) \in Nat /\ Len(one) + Len(s) = Len(s) + 1
    BY <1>2
  <2>2. all \in Seq(S) /\ Len(all) = Len(one) + Len(s)
    BY <1>2, ConcatProperties
  <2>3. \A k \in 1 .. Len(one) + Len(s) :
            all[k] = IF k <= Len(one) THEN one[k] ELSE s[k - Len(one)]
    BY <1>2, ConcatProperties
  <2> HIDE DEF all
  <2> QED
    BY <1>2, <2>1, <2>2, <2>3
<1> HIDE DEF all
<1>4. all[1] = a /\ all # <<>> /\ \A k \in 1 .. Len(s) : all[k + 1] = s[k]
    BY <1>2, <1>3
<1>5. Tail(all) = s
  <2>1. /\ Tail(all) \in Seq(S) /\ Len(Tail(all)) = Len(s)
        /\ \A k \in 1 .. Len(s) : Tail(all)[k] = all[k + 1]
    BY <1>3, <1>4
  <2> QED
    BY <1>4, <2>1
<1> QED
    BY <1>3, <1>4, <1>5 DEF all, one

LEMMA OneOf ==
    ASSUME NEW S, NEW s \in Seq(S), NEW k \in 1 .. Len(s)
    PROVE  SubSeq(s, k, k) = <<s[k]>>
<1>1. Len(s) \in Nat /\ k \in Nat
    OBVIOUS
<1>2. SubSeq(s, k, k) = [j \in 1 .. 1 |-> s[k + j - 1]]
    BY <1>1
<1>3. \A j \in 1 .. 1 : s[k + j - 1] = s[k]
    BY <1>1
<1>4. SubSeq(s, k, k) = [j \in 1 .. 1 |-> s[k]]
    BY <1>2, <1>3
<1> QED
    BY <1>4

LEMMA Widened ==
    ASSUME NEW S, NEW T, S \subseteq T, NEW s \in Seq(S)
    PROVE  s \in Seq(T)
    OBVIOUS

LEMMA LastReplaced ==
    ASSUME NEW S, NEW t \in Seq(S), NEW a \in S, NEW b \in S
    PROVE  LET u == Append(t, a)
           IN  /\ u # <<>> /\ u[Len(u)] = a /\ u \in Seq(S)
               /\ [u EXCEPT ![Len(u)] = b] = Append(t, b)
<1> DEFINE u == Append(t, a)
           v == Append(t, b)
           w == [u EXCEPT ![Len(u)] = b]
<1>1. /\ u \in Seq(S) /\ Len(u) = Len(t) + 1 /\ u[Len(u)] = a /\ Len(t) \in Nat
      /\ \A k \in 1 .. Len(t) : u[k] = t[k]
    OBVIOUS
<1>2. /\ v \in Seq(S) /\ Len(v) = Len(t) + 1 /\ v[Len(v)] = b
      /\ \A k \in 1 .. Len(t) : v[k] = t[k]
    OBVIOUS
<1> HIDE DEF u, v
<1>3. /\ w \in Seq(S) /\ Len(w) = Len(u)
      /\ \A k \in 1 .. Len(u) : w[k] = IF k = Len(u) THEN b ELSE u[k]
    BY <1>1
<1> HIDE DEF w
<1>4. \A k \in 1 .. Len(w) : w[k] = v[k]
    BY <1>1, <1>2, <1>3
<1>5. w = v
    BY <1>1, <1>2, <1>3, <1>4
<1>6. u # <<>>
    BY <1>1
<1> QED
    BY <1>1, <1>5, <1>6 DEF u, v, w

LEMMA SpaceIs ==
    Literal(<<" ">>) = <<<<<<" ">>, 0>>>> /\ <<<<" ">>, 0>> \in FitChar
<1>1. Literal(<<" ">>) \in Seq(FitChar) /\ Len(Literal(<<" ">>)) = 1
  <2>1. Len(<<" ">>) = 1 /\ {" "} \cap {"\n", "^", "~"} = {}
    OBVIOUS
  <2> QED
    BY <2>1, MarksAreFit, LiteralIsFit
<1>2. Literal(<<" ">>)[1] = <<<<" ">>, 0>>
  <2>1. DOMAIN <<" ">> = {1} /\ <<" ">>[1] = " "
    OBVIOUS
  <2> QED
    BY <2>1 DEF Literal
<1> DEFINE c == <<<<" ">>, 0>>
<1> HIDE DEF c
<1>3. ASSUME NEW s \in Seq(FitChar), Len(s) = 1, s[1] = c PROVE s = <<c>> /\ c \in FitChar
    BY <1>3
<1> QED
    BY <1>1, <1>2, <1>3 DEF c

(* A continuation goes on with the last line there is.                     *)
LEMMA ContinuationJoins ==
    ASSUME NEW texts \in Seq(AnyLine), NEW text \in AnyLine, NEW more \in AnyLine
    PROVE  Join(Append(texts, text), Literal(<<" ">>) \o more) = Append(texts, text \o more)
<1> DEFINE space == Literal(<<" ">>)
           c == space \o more
           before == Append(texts, text)
           both == text \o more
<1> DEFINE x == <<<<" ">>, 0>>
<1>1. space = <<x>> /\ x \in LineChar
    BY SpaceIs DEF FitChar
<1> HIDE DEF x, space
<1>2. c # <<>> /\ c[1] = x /\ Tail(c) = more
    BY <1>1, HeadAndRest DEF AnyLine
<1>6. Starts(c, " ")
  <2>1. space[1] = x
    BY <1>1
  <2> QED
    BY <1>2, <2>1 DEF Starts, space
<1> HIDE DEF c
<1>3. both \in AnyLine
    BY ConcatProperties DEF AnyLine
<1> HIDE DEF both
<1>4. /\ before # <<>> /\ before[Len(before)] = text
      /\ [before EXCEPT ![Len(before)] = both] = Append(texts, both)
    BY <1>3, LastReplaced
<1> HIDE DEF before
<1>5. Join(before, c) = [before EXCEPT ![Len(before)] = both]
    BY <1>2, <1>4, <1>6 DEF Join, both
<1> QED
    BY <1>4, <1>5 DEF c, before, both, space

(* The turns of Unfold, one by one.                                        *)
JoinRuns(f, lines, n) == Runs(f, "join", lines, n)

LEMMA JoinStep ==
    ASSUME NEW f, NEW lines, NEW n \in Nat, JoinRuns(f, lines, n), NEW m \in Nat, m + 1 <= n
    PROVE  f[m + 1] = Join(f[m], lines[m + 1])
<1>1. m + 1 \in 0 .. n /\ m + 1 # 0 /\ (m + 1) - 1 = m
    OBVIOUS
<1> QED
    BY <1>1 DEF JoinRuns, Runs, Turn

(* What is read of a document is read of it with more after it.            *)
LEMMA RunGoesOn ==
    ASSUME NEW S, NEW d \in Seq(S), NEW more \in Seq(S)
    PROVE  \E f : /\ JoinRuns(f, d \o more, Len(d) + Len(more))
                  /\ f[Len(d)] = Unfold(d) /\ Unfold(d \o more) = f[Len(d) + Len(more)]
<1> DEFINE e == d \o more
<1>1. /\ Len(d) \in Nat /\ Len(more) \in Nat /\ Len(e) = Len(d) + Len(more)
      /\ \A k \in 1 .. Len(d) : e[k] = d[k]
    BY ConcatProperties
<1> HIDE DEF e
<1>2. PICK g : Runs(g, "join", d, Len(d)) /\ Unfold(d) = g[Len(d)]
    BY <1>1, UnfoldRuns
<1>3. PICK f : Runs(f, "join", e, Len(e)) /\ Unfold(e) = f[Len(e)]
  <2>1. Len(e) \in Nat
    BY <1>1
  <2> QED
    BY <2>1, UnfoldRuns
<1>4. Alike("join", d, e, Len(d))
    BY <1>1 DEF Turn, Alike
<1>5. f[Len(d)] = g[Len(d)]
  <2>1. Len(e) \in Nat /\ Len(d) <= Len(e) /\ Len(d) \in 0 .. Len(d)
    BY <1>1
  <2>2. \A k \in 0 .. Len(d) : g[k] = f[k]
    BY <1>1, <1>2, <1>3, <1>4, <2>1, LoopsAgree
  <2> QED
    BY <2>1, <2>2
<1> QED
    BY <1>1, <1>2, <1>3, <1>5 DEF e, JoinRuns

(* What a line starts with is what its first piece starts with.            *)
LEMMA PrefixStarts ==
    ASSUME NEW S, NEW s \in Seq(S), NEW n \in Nat \ {0}, n <= Len(s)
    PROVE  /\ SubSeq(s, 1, n) \in Seq(S) /\ Len(SubSeq(s, 1, n)) = n
           /\ SubSeq(s, 1, n) # <<>> /\ SubSeq(s, 1, n)[1] = s[1]
<1>1. Len(s) \in Nat /\ \A k \in 1 .. Len(s) : s[k] \in S
    OBVIOUS
<1>2. SubSeq(s, 1, n) = [k \in 1 .. n |-> s[k]] /\ SubSeq(s, 1, n) \in Seq(S)
    BY <1>1
<1> DEFINE p == SubSeq(s, 1, n)
<1> HIDE DEF p
<1>3. p = [k \in 1 .. n |-> s[k]] /\ p \in Seq(S)
    BY <1>2 DEF p
<1>4. Len(p) = n /\ p # <<>> /\ p[1] = s[1]
    BY <1>3
<1> QED
    BY <1>3, <1>4 DEF p

(* A line that does not begin with a blank is a line of its own, ...       *)
OfItsOwn(line) == ~Starts(line, " ")

LEMMA LineIsRead ==
    ASSUME NEW S, NEW d \in Seq(S), NEW line \in S, OfItsOwn(line)
    PROVE  Unfold(d \o <<line>>) = Append(Unfold(d), line)
<1>1. d \o <<line>> = Append(d, line)
    OBVIOUS
<1>2. Unfold(Append(d, line)) = Join(Unfold(d), line)
    BY ReadersGoOn
<1> QED
    BY <1>1, <1>2 DEF Join, OfItsOwn

(* ... and fold takes nothing from it and adds nothing to it.              *)
LEMMA FoldedIsUnfolded ==
    ASSUME NEW d \in Seq(AnyLine), Unfold(d) \in Seq(AnyLine),
           NEW line \in LineText, line # <<>>, OfItsOwn(line)
    PROVE  Unfold(d \o FoldLine(line)) = Append(Unfold(d), line)
<1> DEFINE texts == Unfold(d)
           w == LineWidth - 1
           n == (Len(line) - 2) \div w
           first == SubSeq(line, 1, LineWidth)
           more == [k \in 1 .. n |-> Continuation(line, LineWidth + (k - 1) * w, w)]
<1>1. CASE Len(line) <= LineWidth
  <2>1. FoldLine(line) = <<line>>
    BY <1>1 DEF FoldLine
  <2>2. line \in AnyLine
    BY LinesAreLines
  <2> QED
    BY <2>1, <2>2, LineIsRead
<1>2. CASE ~(Len(line) <= LineWidth)
  <2>1. LineWidth \in Nat \ {0, 1} /\ Len(line) \in Nat /\ Len(line) > LineWidth
    BY <1>2, LdifAssumption
  <2>2. FoldLine(line) = <<first>> \o more
    BY <1>2 DEF FoldLine
  <2>3. n \in Nat /\ Reached(line, 0) = LineWidth /\ Reached(line, n) = Len(line)
    BY <2>1, AllIsReached
  <2>4. ASSUME NEW k \in 1 .. n
        PROVE  /\ Reached(line, k - 1) \in Nat /\ Reached(line, k) \in Nat
               /\ Reached(line, k - 1) <= Reached(line, k) /\ Reached(line, k) <= Len(line)
               /\ more[k] = Literal(<<" ">>)
                              \o SubSeq(line, Reached(line, k - 1) + 1, Reached(line, k))
    BY <2>1, ContinuationIs
  <2>5. first \in LineText /\ OfItsOwn(first)
    <3>1. first \in LineText /\ first # <<>> /\ first[1] = line[1]
      BY <2>1, PrefixStarts DEF LineText
    <3> QED
      BY <3>1 DEF Starts, OfItsOwn
  <2>6. FoldLine(line) \in Seq(FitLine)
    BY FoldedLinesAreFit DEF LineText
  <2>7. /\ Len(FoldLine(line)) = n + 1 /\ FoldLine(line)[1] = first
        /\ \A k \in 1 .. n : FoldLine(line)[k + 1] = more[k]
    <3> HIDE DEF n, first
    <3>1. <<first>> \o more = [k \in 1 .. n + 1 |-> IF k = 1 THEN first ELSE more[k - 1]]
      BY <2>3
    <3> HIDE DEF more
    <3>2. \A k \in 1 .. n : k + 1 \in 1 .. n + 1 /\ k + 1 # 1 /\ (k + 1) - 1 = k
      BY <2>3
    <3> QED
      BY <2>2, <2>3, <3>1, <3>2
  <2> HIDE DEF n, first, more
  <2> DEFINE e == d \o FoldLine(line)
             l == Len(d)
  <2>8. /\ l \in Nat /\ Len(e) = l + 1 + n /\ e[l + 1] = first
        /\ \A k \in 1 .. n : e[l + 1 + k] = more[k]
    <3> DEFINE folded == FoldLine(line)
    <3> HIDE DEF folded
    <3>1. /\ l \in Nat /\ Len(d \o folded) = l + Len(folded)
          /\ \A k \in 1 .. Len(folded) : (d \o folded)[l + k] = folded[k]
      <4>1. folded \in Seq(AnyLine)
        BY <2>6, LinesAreLines DEF folded
      <4> QED
        BY <4>1, ConcatProperties
    <3>2. Len(folded) = n + 1 /\ folded[1] = first /\ \A k \in 1 .. n : folded[k + 1] = more[k]
      BY <2>7 DEF folded
    <3>3. \A k \in 1 .. n : k + 1 \in 1 .. n + 1 /\ l + (k + 1) = l + 1 + k
      BY <2>3, <3>1
    <3>4. \A k \in 1 .. n : (d \o folded)[l + 1 + k] = more[k]
      BY <3>1, <3>2, <3>3
    <3>5. (d \o folded)[l + 1] = first
      BY <2>3, <3>1, <3>2
    <3> QED
      BY <2>3, <3>1, <3>2, <3>4, <3>5 DEF folded
  <2>9. PICK f : JoinRuns(f, e, l + 1 + n) /\ f[l] = texts /\ Unfold(e) = f[l + 1 + n]
    <3>1. l + Len(FoldLine(line)) = l + 1 + n
      BY <2>3, <2>7, <2>8
    <3> QED
      BY <2>6, <3>1, LinesAreLines, RunGoesOn
  <2> HIDE DEF e, l, texts
  <2> DEFINE joined(k) == SubSeq(line, 1, Reached(line, k))
             missed == {k \in 0 .. n : f[l + 1 + k] # Append(texts, joined(k))}
  <2>10. f[l + 1] = Append(texts, joined(0))
    <3>1. l \in Nat /\ l + 1 <= l + 1 + n /\ l + 1 + n \in Nat
      BY <2>3, <2>8
    <3>2. f[l + 1] = Join(f[l], e[l + 1])
      BY <2>9, <3>1, JoinStep
    <3> QED
      BY <2>3, <2>5, <2>8, <2>9, <3>2 DEF Join, first, OfItsOwn
  <2>11. ASSUME NEW k \in 1 .. n, f[l + 1 + (k - 1)] = Append(texts, joined(k - 1))
         PROVE  f[l + 1 + k] = Append(texts, joined(k))
    <3> DEFINE rest == SubSeq(line, Reached(line, k - 1) + 1, Reached(line, k))
    <3>1. /\ l + k \in Nat /\ l + k + 1 <= l + 1 + n /\ l + 1 + n \in Nat
          /\ l + k + 1 = l + 1 + k /\ l + k = l + 1 + (k - 1)
      BY <2>3, <2>8
    <3>2. f[l + 1 + k] = Join(f[l + 1 + (k - 1)], more[k])
      <4>1. f[l + k + 1] = Join(f[l + k], e[l + k + 1])
        BY <2>9, <3>1, JoinStep
      <4> QED
        BY <2>8, <3>1, <4>1
    <3>3. more[k] = Literal(<<" ">>) \o rest
      BY <2>4
    <3>4. joined(k - 1) \in LineText /\ rest \in LineText /\ joined(k - 1) \o rest = joined(k)
      BY <2>4, PrefixGrows DEF LineText
    <3>5. texts \in Seq(AnyLine)
      BY DEF texts
    <3> HIDE DEF rest, joined
    <3>7. joined(k - 1) \in AnyLine /\ rest \in AnyLine
      BY <3>4, LinesAreLines
    <3>6. Join(Append(texts, joined(k - 1)), Literal(<<" ">>) \o rest)
            = Append(texts, joined(k - 1) \o rest)
      BY <3>5, <3>7, ContinuationJoins
    <3> QED
      BY <2>11, <3>2, <3>3, <3>4, <3>6
  <2>12. missed = {}
    <3>1. SUFFICES ASSUME missed # {} PROVE FALSE
      OBVIOUS
    <3>2. missed \in SUBSET Nat
      BY <2>3
    <3>3. PICK k \in missed : \A j \in missed : k <= j
      <4> HIDE DEF missed
      <4> QED
        BY <3>1, <3>2, LeastOf
    <3>4. k \in 0 .. n /\ f[l + 1 + k] # Append(texts, joined(k))
      BY <3>3
    <3>5. CASE k = 0
      BY <2>8, <2>10, <3>4, <3>5
    <3>6. CASE k # 0
      <4>1. k \in 1 .. n /\ k - 1 \in 0 .. n /\ ~(k <= k - 1)
        BY <2>3, <3>4, <3>6
      <4>2. k - 1 \notin missed
        BY <3>3, <4>1
      <4>3. f[l + 1 + (k - 1)] = Append(texts, joined(k - 1))
        BY <4>1, <4>2
      <4> HIDE DEF joined, missed
      <4> QED
        BY <2>11, <3>4, <4>1, <4>3
    <3> QED
      BY <3>5, <3>6
  <2>13. f[l + 1 + n] = Append(texts, joined(n))
    <3>1. n \in 0 .. n
      BY <2>3
    <3> QED
      BY <2>12, <3>1
  <2>14. joined(n) = line
    BY <2>3 DEF LineText
  <2> QED
    BY <2>9, <2>13, <2>14 DEF e, texts
<1> QED
    BY <1>1, <1>2
-----------------------------------------------------------------------------
(* What is written is read.                                                *)
Lit(c) == <<<<c>>, 0>>

LEMMA LitIs ==
    /\ \A c, e : Lit(c) = Lit(e) <=> c = e
    /\ \A c : Lit(c)[1][1] = c /\ Lit(c)[2] = 0 /\ Literal(<<c>>)[1] = Lit(c)
<1>1. ASSUME NEW c PROVE Literal(<<c>>)[1] = Lit(c)
  <2>1. DOMAIN <<c>> = {1} /\ <<c>>[1] = c
    OBVIOUS
  <2> QED
    BY <2>1 DEF Literal, Lit
<1>2. ASSUME NEW c PROVE Lit(c)[1][1] = c /\ Lit(c)[2] = 0
    BY DEF Lit
<1>3. ASSUME NEW c, NEW e PROVE Lit(c) = Lit(e) <=> c = e
    BY <1>2
<1> QED
    BY <1>1, <1>2, <1>3

LEMMA LiteralIs ==
    ASSUME NEW s \in Seq(Char)
    PROVE  /\ Len(Literal(s)) = Len(s) /\ Len(s) \in Nat
           /\ \A k \in 1 .. Len(s) : Literal(s)[k] = Lit(s[k])
<1>1. Literal(s) = [k \in 1 .. Len(s) |-> Lit(s[k])] /\ Len(s) \in Nat
    BY DEF Literal, Lit
<1> QED
    BY <1>1

LEMMA TextIs ==
    ASSUME NEW s \in Seq(Char), NEW chars, DOMAIN chars = 1 .. Len(s),
           \A k \in 1 .. Len(s) : chars[k] = Lit(s[k])
    PROVE  Text(chars) = s
<1>1. s = [k \in 1 .. Len(s) |-> s[k]]
    OBVIOUS
<1>2. Text(chars) = [k \in 1 .. Len(s) |-> s[k]]
    BY LitIs DEF Text
<1> QED
    BY <1>1, <1>2

(* The parts of a line are found where they were put.                      *)
LEMMA SuffixIs ==
    ASSUME NEW S, NEW p \in Seq(S), NEW q \in Seq(S)
    PROVE  /\ p \o q \in Seq(S) /\ Len(p \o q) = Len(p) + Len(q)
           /\ Len(p) \in Nat /\ Len(q) \in Nat
           /\ \A k \in 1 .. Len(p) : (p \o q)[k] = p[k]
           /\ \A k \in 1 .. Len(q) : (p \o q)[Len(p) + k] = q[k]
           /\ SubSeq(p \o q, Len(p) + 1, Len(p \o q)) = q
<1> DEFINE s == p \o q
<1>1. /\ s \in Seq(S) /\ Len(s) = Len(p) + Len(q) /\ Len(p) \in Nat /\ Len(q) \in Nat
      /\ \A k \in 1 .. Len(p) : s[k] = p[k]
      /\ \A k \in 1 .. Len(q) : s[Len(p) + k] = q[k]
    BY ConcatProperties
<1> HIDE DEF s
<1>2. SubSeq(s, Len(p) + 1, Len(s)) = [k \in 1 .. Len(q) |-> s[k + Len(p)]]
    BY <1>1
<1>3. SubSeq(s, Len(p) + 1, Len(s)) = [k \in 1 .. Len(q) |-> q[k]]
  <2>1. \A k \in 1 .. Len(q) : s[k + Len(p)] = q[k]
    BY <1>1
  <2> QED
    BY <1>2, <2>1
<1>4. q = [k \in 1 .. Len(q) |-> q[k]]
    OBVIOUS
<1> QED
    BY <1>1, <1>3, <1>4 DEF s

Marks == {<<":", " ">>, <<":", ":", " ">>}

LEMMA MarkIs ==
    ASSUME NEW mark \in Marks
    PROVE  Len(mark) \in Nat /\ Len(mark) >= 2 /\ mark[1] = ":"
<1>1. CASE mark = <<":", " ">>
  <2>1. Len(<<":", " ">>) = 2 /\ <<":", " ">>[1] = ":"
    OBVIOUS
  <2>2. Len(mark) = 2 /\ mark[1] = ":"
    BY <1>1, <2>1, Zenon
  <2> QED
    BY <2>2
<1>2. CASE mark = <<":", ":", " ">>
  <2>1. Len(<<":", ":", " ">>) = 3 /\ <<":", ":", " ">>[1] = ":"
    OBVIOUS
  <2>2. Len(mark) = 3 /\ mark[1] = ":"
    BY <1>2, <2>1, Zenon
  <2> QED
    BY <2>2
<1> QED
    BY <1>1, <1>2 DEF Marks

(* A name is followed by the first colon.                                  *)
LEMMA NameIs ==
    ASSUME NEW n \in Seq(Char), SafeAttrName(n), NEW mark \in Marks
    PROVE  LET head == Literal(n \o mark)
           IN  /\ head \in LineText /\ Len(head) = Len(n) + Len(mark)
               /\ Len(n) \in Nat \ {0} /\ Len(mark) \in Nat /\ Len(mark) >= 2
               /\ \A k \in 1 .. Len(n) : head[k] = Lit(n[k]) /\ n[k] \in {"a", "-"}
               /\ \A k \in 1 .. Len(mark) : head[Len(n) + k] = Lit(mark[k])
<1>1. mark \in Seq(Char) /\ ToSet(mark) = {":", " "}
    BY MarksAreFit DEF Marks
<1>2. n # <<>> /\ ToSet(n) \subseteq {"a", "-"}
    BY DEF SafeAttrName
<1>3. n \o mark \in Seq(Char) /\ ToSet(n \o mark) \subseteq {"a", "-", ":", " "}
    BY <1>1, <1>2, ConcatenationHolds, ConcatProperties
<1> DEFINE text == n \o mark
           head == Literal(text)
<1>4. /\ text \in Seq(Char) /\ Len(text) = Len(n) + Len(mark)
      /\ Len(n) \in Nat /\ Len(mark) \in Nat
      /\ \A k \in 1 .. Len(n) : text[k] = n[k]
      /\ \A k \in 1 .. Len(mark) : text[Len(n) + k] = mark[k]
    BY <1>1, SuffixIs
<1>5. ToSet(text) \cap {"\n", "^", "~"} = {}
    BY <1>3
<1> HIDE DEF text
<1>6. head \in LineText
    BY <1>4, <1>5, LiteralIsFit DEF LineText
<1>7. Len(head) = Len(text) /\ \A k \in 1 .. Len(text) : head[k] = Lit(text[k])
    BY <1>4, LiteralIs
<1> HIDE DEF head
<1>8. Len(n) # 0 /\ \A k \in 1 .. Len(n) : n[k] \in {"a", "-"}
    BY <1>2 DEF ToSet
<1>9. Len(mark) \in Nat /\ Len(mark) >= 2
    BY MarkIs
<1>10. \A k \in 1 .. Len(n) : head[k] = Lit(n[k])
    BY <1>4, <1>7
<1>11. \A k \in 1 .. Len(mark) : head[Len(n) + k] = Lit(mark[k])
  <2>1. \A k \in 1 .. Len(mark) : Len(n) + k \in 1 .. Len(text)
    BY <1>4
  <2> QED
    BY <1>4, <1>7, <2>1
<1> QED
    BY <1>4, <1>6, <1>7, <1>8, <1>9, <1>10, <1>11 DEF head, text

Laid(n, mark, rest) == Literal(n \o mark) \o rest

IsLaid(line, n, mark, rest) ==
    /\ line \in LineText /\ Len(line) = Len(n) + Len(mark) + Len(rest)
    /\ Len(n) \in Nat \ {0} /\ Len(mark) \in Nat /\ Len(mark) >= 2 /\ Len(rest) \in Nat
    /\ \A k \in 1 .. Len(n) : line[k] = Lit(n[k]) /\ n[k] \in {"a", "-"}
    /\ \A k \in 1 .. Len(mark) : line[Len(n) + k] = Lit(mark[k])
    /\ \A k \in 1 .. Len(rest) : line[Len(n) + Len(mark) + k] = rest[k]
    /\ SubSeq(line, Len(n) + Len(mark) + 1, Len(line)) = rest

LEMMA LineIsLaidOut ==
    ASSUME NEW n \in Seq(Char), SafeAttrName(n), NEW mark \in Marks, NEW rest \in LineText,
           NEW line, line = Laid(n, mark, rest)
    PROVE  IsLaid(line, n, mark, rest)
<1> DEFINE head == Literal(n \o mark)
<1>1. /\ head \in LineText /\ Len(head) = Len(n) + Len(mark)
      /\ Len(n) \in Nat \ {0} /\ Len(mark) \in Nat /\ Len(mark) >= 2
      /\ \A k \in 1 .. Len(n) : head[k] = Lit(n[k]) /\ n[k] \in {"a", "-"}
      /\ \A k \in 1 .. Len(mark) : head[Len(n) + k] = Lit(mark[k])
    BY NameIs
<1> HIDE DEF head
<1>2. /\ head \o rest \in LineText /\ Len(head \o rest) = Len(head) + Len(rest)
      /\ Len(rest) \in Nat
      /\ \A k \in 1 .. Len(head) : (head \o rest)[k] = head[k]
      /\ \A k \in 1 .. Len(rest) : (head \o rest)[Len(head) + k] = rest[k]
      /\ SubSeq(head \o rest, Len(head) + 1, Len(head \o rest)) = rest
  <2>1. head \in Seq(FitChar) /\ rest \in Seq(FitChar)
    BY <1>1 DEF LineText
  <2>2. head \o rest \in LineText /\ Len(head \o rest) = Len(head) + Len(rest)
    BY <2>1, SuffixIs DEF LineText
  <2>3. Len(rest) \in Nat /\ \A k \in 1 .. Len(head) : (head \o rest)[k] = head[k]
    BY <2>1, SuffixIs
  <2>4. \A k \in 1 .. Len(rest) : (head \o rest)[Len(head) + k] = rest[k]
    BY <2>1, SuffixIs
  <2>5. SubSeq(head \o rest, Len(head) + 1, Len(head \o rest)) = rest
    BY <2>1, SuffixIs
  <2> QED
    BY <2>2, <2>3, <2>4, <2>5
<1>3. line = head \o rest
    BY DEF head, Laid
<1>4. \A k \in 1 .. Len(n) : line[k] = Lit(n[k]) /\ n[k] \in {"a", "-"}
    BY <1>1, <1>2, <1>3
<1>5. \A k \in 1 .. Len(mark) : line[Len(n) + k] = Lit(mark[k])
  <2>1. \A k \in 1 .. Len(mark) : Len(n) + k \in 1 .. Len(head)
    BY <1>1
  <2> QED
    BY <1>1, <1>2, <1>3, <2>1
<1> QED
  <2>1. line \in LineText /\ Len(line) = Len(n) + Len(mark) + Len(rest)
    BY <1>1, <1>2, <1>3
  <2>2. \A k \in 1 .. Len(rest) : line[Len(n) + Len(mark) + k] = rest[k]
    BY <1>1, <1>2, <1>3
  <2>3. SubSeq(line, Len(n) + Len(mark) + 1, Len(line)) = rest
    BY <1>1, <1>2, <1>3
  <2> QED
    BY <1>1, <1>2, <1>4, <1>5, <2>1, <2>2, <2>3 DEF IsLaid

(* Neither a comment nor the version of the format.                        *)
IsComment(line) == Starts(line, "#")
SaysSomething(line) == ~IsComment(line) /\ ~Starts(line, "v")

LEMMA NameIsRead ==
    ASSUME NEW n \in Seq(Char), SafeAttrName(n), NEW mark \in Marks, NEW rest \in LineText,
           NEW line, line = Laid(n, mark, rest)
    PROVE  /\ Min(Colons(line)) = Len(n) + 1
           /\ Text(SubSeq(line, 1, Len(n))) = n
           /\ line # <<>> /\ OfItsOwn(line) /\ SaysSomething(line)
<1>1. /\ line \in LineText /\ Len(line) = Len(n) + Len(mark) + Len(rest)
      /\ Len(n) \in Nat \ {0} /\ Len(mark) \in Nat /\ Len(mark) >= 2 /\ Len(rest) \in Nat
      /\ \A k \in 1 .. Len(n) : line[k] = Lit(n[k]) /\ n[k] \in {"a", "-"}
      /\ \A k \in 1 .. Len(mark) : line[Len(n) + k] = Lit(mark[k])
  <2>1. IsLaid(line, n, mark, rest)
    BY LineIsLaidOut
  <2> QED
    BY <2>1 DEF IsLaid
<1>2. mark[1] = ":"
    BY MarkIs
<1>3. DOMAIN line = 1 .. Len(line) /\ Len(line) \in Nat
    BY <1>1 DEF LineText
<1>4. \A k \in DOMAIN line : k \in Colons(line) <=> line[k] = Lit(":")
    BY LitIs DEF Colons
<1>5. Len(n) + 1 \in Colons(line)
  <2>1. 1 \in 1 .. Len(mark) /\ Len(n) + 1 \in DOMAIN line
    <3>1. Len(mark) >= 1 /\ Len(mark) \in Nat
      BY <1>1
    <3>2. Len(n) + 1 \in 1 .. Len(line)
      BY <1>1, <3>1
    <3> QED
      BY <1>3, <3>1, <3>2
  <2>2. line[Len(n) + 1] = Lit(":")
    BY <1>1, <1>2, <2>1
  <2> QED
    BY <1>4, <2>1, <2>2
<1>6. \A k \in Colons(line) : k \in Nat /\ Len(n) + 1 <= k
  <2>1. Colons(line) \subseteq 1 .. Len(line)
    BY <1>3 DEF Colons
  <2>2. ASSUME NEW k \in Colons(line), k \in 1 .. Len(n) PROVE FALSE
    <3>1. line[k] = Lit(":") /\ line[k] = Lit(n[k]) /\ n[k] \in {"a", "-"}
      BY <1>1, <1>3, <1>4, <2>1, <2>2
    <3>2. n[k] = ":"
      BY <3>1, LitIs
    <3> QED
      BY <3>1, <3>2
  <2> QED
    BY <1>1, <1>3, <2>1, <2>2
<1>7. Min(Colons(line)) = Len(n) + 1
  <2> DEFINE all == Colons(line)
             m == Len(n) + 1
  <2> HIDE DEF all
  <2>1. m \in all /\ \A k \in all : k \in Nat /\ m <= k
    BY <1>5, <1>6 DEF all
  <2>2. \A x \in all : (\A y \in all : x <= y) => x = m
    BY <1>1, <2>1
  <2>3. Min(all) = m
    BY <2>1, <2>2 DEF Min
  <2> QED
    BY <2>3 DEF all
<1>8. Text(SubSeq(line, 1, Len(n))) = n
  <2>1. SubSeq(line, 1, Len(n)) = [k \in 1 .. Len(n) |-> line[k]]
    BY <1>1, <1>3
  <2> DEFINE chars == SubSeq(line, 1, Len(n))
  <2>2. DOMAIN chars = 1 .. Len(n) /\ \A k \in 1 .. Len(n) : chars[k] = Lit(n[k])
    BY <1>1, <2>1
  <2> HIDE DEF chars
  <2>3. Text(chars) = n
    BY <2>2, TextIs
  <2> QED
    BY <2>3 DEF chars
<1>9. line # <<>> /\ line[1] \notin {Lit(" "), Lit("#"), Lit("v")}
  <2>1. line[1] = Lit(n[1]) /\ n[1] \in {"a", "-"}
    BY <1>1
  <2>2. Lit(n[1]) # Lit(" ") /\ Lit(n[1]) # Lit("#") /\ Lit(n[1]) # Lit("v")
    <3>1. n[1] # " " /\ n[1] # "#" /\ n[1] # "v"
      BY <2>1
    <3> QED
      BY <3>1, LitIs
  <2>3. line # <<>>
    BY <1>1, <1>3
  <2> QED
    BY <2>1, <2>2, <2>3
<1>10. OfItsOwn(line) /\ SaysSomething(line)
    BY <1>9, LitIs DEF OfItsOwn, SaysSomething, IsComment, Starts
<1> QED
    BY <1>7, <1>8, <1>9, <1>10
-----------------------------------------------------------------------------
BlankFirst(v) == v # <<>> /\ v[1] = " "

LEMMA PlainIs ==
    ASSUME NEW v \in Seq(Char), ~NeedsBase64(v)
    PROVE  Literal(v) \in LineText /\ ~BlankFirst(v)
<1>1. CASE v = <<>>
  <2>1. ToSet(v) \cap {"\n", "^", "~"} = {}
    BY <1>1 DEF ToSet
  <2> QED
    BY <1>1, <2>1, LiteralIsFit DEF LineText, BlankFirst
<1>2. CASE v # <<>>
  <2>1. ToSet(v) \cap {"\n", "^", "~"} = {} /\ v[1] # " "
    BY <1>2 DEF NeedsBase64
  <2> QED
    BY <2>1, LiteralIsFit DEF LineText, BlankFirst
<1> QED
    BY <1>1, <1>2

ColonAt(line, k) == k \in Colons(line)

LEMMA ColonIs ==
    ASSUME NEW line, NEW k \in DOMAIN line
    PROVE  ColonAt(line, k) <=> line[k] = Lit(":")
<1>1. Literal(<<":">>)[1] = Lit(":")
    BY LitIs
<1> QED
    BY <1>1 DEF ColonAt, Colons

(* A value written as it is.                                               *)
PlainMark  == <<":", " ">>
Base64Mark == <<":", ":", " ">>

LEMMA MarksAre ==
    /\ PlainMark \in Marks /\ Len(PlainMark) = 2 /\ PlainMark[2] = " "
    /\ Base64Mark \in Marks /\ Len(Base64Mark) = 3 /\ Base64Mark[2] = ":"
    BY DEF PlainMark, Base64Mark, Marks

Blank == Lit(" ")

LEMMA PlainIsRead ==
    ASSUME NEW n \in Seq(Char), SafeAttrName(n), NEW v \in Seq(Char), Literal(v) \in LineText,
           ~BlankFirst(v), NEW line, line = Laid(n, PlainMark, Literal(v))
    PROVE  ValueOf(line, Len(n) + 1) = v
<1> DEFINE i0 == Len(n) + 1
           rest == SubSeq(line, i0 + 1, Len(line))
           text == {j \in DOMAIN rest : rest[j] # Literal(<<" ">>)[1]}
<1>1. PlainMark \in Marks /\ Len(PlainMark) = 2 /\ PlainMark[2] = " "
    BY MarksAre
<1>0. IsLaid(line, n, PlainMark, Literal(v))
    BY <1>1, LineIsLaidOut
<1>2. line \in LineText /\ Len(line) = Len(n) + 2 + Len(v)
  <2>1. line \in LineText /\ Len(line) = Len(n) + Len(PlainMark) + Len(Literal(v))
    BY <1>0 DEF IsLaid
  <2> QED
    BY <1>1, <2>1, LiteralIs
<1>3. Len(n) \in Nat \ {0} /\ Len(v) \in Nat
    BY <1>0, LiteralIs DEF IsLaid
<1>4. line[Len(n) + 2] = Blank
  <2>1. \A k \in 1 .. Len(PlainMark) : line[Len(n) + k] = Lit(PlainMark[k])
    BY <1>0 DEF IsLaid
  <2>2. 2 \in 1 .. 2
    OBVIOUS
  <2> QED
    BY <1>1, <2>1, <2>2 DEF Blank
<1>5. \A k \in 1 .. Len(v) : line[Len(n) + 2 + k] = Lit(v[k])
  <2>1. \A k \in 1 .. Len(Literal(v)) : line[Len(n) + Len(PlainMark) + k] = Literal(v)[k]
    BY <1>0 DEF IsLaid
  <2>2. Len(Literal(v)) = Len(v) /\ \A k \in 1 .. Len(v) : Literal(v)[k] = Lit(v[k])
    BY LiteralIs
  <2> QED
    BY <1>1, <2>1, <2>2
<1>6. DOMAIN line = 1 .. Len(line) /\ Len(line) \in Nat
    BY <1>2 DEF LineText
<1>7. i0 + 1 \notin Colons(line)
  <2>1. i0 + 1 \in DOMAIN line /\ i0 + 1 = Len(n) + 2
    BY <1>2, <1>3, <1>6
  <2>2. " " # ":"
    OBVIOUS
  <2>3. Blank # Lit(":")
    BY <2>2, LitIs DEF Blank
  <2>4. ~ColonAt(line, i0 + 1)
    BY <1>4, <2>1, <2>3, ColonIs
  <2> QED
    BY <2>4 DEF ColonAt
<1>8. /\ DOMAIN rest = 1 .. Len(v) + 1 /\ Len(rest) = Len(v) + 1 /\ rest[1] = Blank
      /\ \A k \in 1 .. Len(v) : rest[k + 1] = Lit(v[k])
  <2>1. rest = [k \in 1 .. Len(v) + 1 |-> line[k + Len(n) + 1]]
    BY <1>2, <1>3, <1>6
  <2>2. 1 + Len(n) + 1 = Len(n) + 2 /\ 1 \in 1 .. Len(v) + 1
    BY <1>3
  <2>3. \A k \in 1 .. Len(v) : /\ k + 1 \in 1 .. Len(v) + 1
                              /\ (k + 1) + Len(n) + 1 = Len(n) + 2 + k
    BY <1>3
  <2> HIDE DEF rest
  <2>4. DOMAIN rest = 1 .. Len(v) + 1 /\ Len(rest) = Len(v) + 1
    BY <1>3, <2>1
  <2>5. rest[1] = Blank
    BY <1>4, <2>1, <2>2
  <2>6. \A k \in 1 .. Len(v) : rest[k + 1] = Lit(v[k])
    BY <1>5, <2>1, <2>3
  <2> QED
    BY <2>4, <2>5, <2>6
<1>9. ValueOf(line, i0) = IF text = {} THEN <<>> ELSE Text(SubSeq(rest, Min(text), Len(rest)))
    BY <1>7 DEF ValueOf
<1> HIDE DEF rest
<1>10. \A j \in DOMAIN rest : j \in text <=> rest[j] # Blank
    BY LitIs DEF Blank
<1>13. text \subseteq DOMAIN rest
    OBVIOUS
<1> HIDE DEF i0, text
<1>11. CASE v = <<>>
  <2>1. text = {}
    <3>1. Len(v) = 0
      BY <1>11
    <3>2. DOMAIN rest = 1 .. 0 + 1
      BY <1>8, <3>1
    <3>3. \A j \in DOMAIN rest : j = 1
      BY <3>2
    <3> QED
      BY <1>8, <1>10, <1>13, <3>3
  <2> QED
    BY <1>9, <1>11, <2>1 DEF i0
<1>12. CASE v # <<>>
  <2>1. Len(v) >= 1 /\ 1 \in 1 .. Len(v)
    BY <1>3, <1>12
  <2>2. Lit(v[1]) # Blank
    BY <1>12, LitIs DEF BlankFirst, Blank
  <2>3. 2 \in text
    <3>1. rest[1 + 1] = Lit(v[1])
      BY <1>8, <2>1
    <3>2. 2 \in DOMAIN rest /\ 1 + 1 = 2
      BY <1>3, <1>8, <2>1
    <3> QED
      BY <1>10, <2>2, <3>1, <3>2
  <2>4. \A j \in text : j \in Nat /\ 2 <= j
    <3>1. \A j \in text : j \in 1 .. Len(v) + 1 /\ j # 1
      BY <1>8, <1>10, <1>13
    <3>2. \A j \in 1 .. Len(v) + 1 : j # 1 => j \in Nat /\ 2 <= j
      BY <1>3
    <3> QED
      BY <3>1, <3>2
  <2>5. Min(text) = 2
    <3>1. \A x \in text : (\A y \in text : x <= y) => x = 2
      BY <2>3, <2>4
    <3> QED
      BY <2>3, <2>4, <3>1 DEF Min
  <2> DEFINE chars == SubSeq(rest, 2, Len(v) + 1)
  <2>6. chars = [k \in 1 .. Len(v) |-> rest[k + 1]]
    BY <1>3, <1>8, <2>1
  <2>7. DOMAIN chars = 1 .. Len(v) /\ \A k \in 1 .. Len(v) : chars[k] = Lit(v[k])
    BY <1>8, <2>6
  <2> HIDE DEF chars
  <2>8. Text(chars) = v
    BY <2>7, TextIs
  <2>9. ValueOf(line, i0) = Text(SubSeq(rest, 2, Len(v) + 1))
    BY <1>8, <1>9, <2>3, <2>5
  <2> QED
    BY <2>8, <2>9 DEF chars, i0
<1> QED
    BY <1>11, <1>12

(* A value written in base64.                                              *)
LEMMA Base64IsRead ==
    ASSUME NEW n \in Seq(Char), SafeAttrName(n), NEW v \in Seq(Char), v # <<>>,
           NEW line, line = Laid(n, Base64Mark, Base64(v))
    PROVE  ValueOf(line, Len(n) + 1) = v
<1> DEFINE i0 == Len(n) + 1
           b == Base64(v)
           l == 4 * ((Len(v) + 2) \div 3)
<1>1. Base64Mark \in Marks /\ Len(Base64Mark) = 3 /\ Base64Mark[2] = ":"
    BY MarksAre
<1>2. Len(v) \in Nat /\ Len(v) >= 1
    OBVIOUS
<1>3. l \in Nat /\ l >= 1
    BY <1>2
<1>4. b = [k \in 1 .. l |-> <<v, k>>]
    BY DEF Base64
<1>5. b \in LineText /\ Len(b) = l /\ b[1][1] = v
  <2>1. b \in LineText
    BY Base64IsFit DEF LineText
  <2> HIDE DEF l, b
  <2>2. Len(b) = l /\ b[1] = <<v, 1>>
    BY <1>3, <1>4
  <2> QED
    BY <2>1, <2>2
<1> HIDE DEF l, b
<1>6. line = Laid(n, Base64Mark, b)
    BY DEF b
<1>0. IsLaid(line, n, Base64Mark, b)
    BY <1>1, <1>5, <1>6, LineIsLaidOut
<1>7. line \in LineText /\ Len(line) = Len(n) + 3 + l
  <2>1. line \in LineText /\ Len(line) = Len(n) + Len(Base64Mark) + Len(b)
    BY <1>0 DEF IsLaid
  <2> QED
    BY <1>1, <1>5, <2>1
<1>8. Len(n) \in Nat \ {0}
    BY <1>0 DEF IsLaid
<1>9. line[Len(n) + 2] = Lit(":")
  <2>1. \A k \in 1 .. Len(Base64Mark) : line[Len(n) + k] = Lit(Base64Mark[k])
    BY <1>0 DEF IsLaid
  <2> QED
    BY <1>1, <2>1
<1>10. line[Len(n) + 3 + 1] = b[1]
  <2>1. \A k \in 1 .. Len(b) : line[Len(n) + Len(Base64Mark) + k] = b[k]
    BY <1>0 DEF IsLaid
  <2> QED
    BY <1>1, <1>3, <1>5, <2>1
<1>11. SubSeq(line, Len(n) + 3 + 1, Len(line)) = b
  <2>1. SubSeq(line, Len(n) + Len(Base64Mark) + 1, Len(line)) = b
    BY <1>0 DEF IsLaid
  <2> QED
    BY <1>1, <2>1
<1>12. i0 + 1 = Len(n) + 2 /\ i0 + 3 = Len(n) + 3 + 1 /\ ~(Len(line) < i0 + 3)
    BY <1>3, <1>7, <1>8
<1>13. i0 + 1 \in Colons(line)
  <2>1. i0 + 1 \in DOMAIN line
    <3>1. DOMAIN line = 1 .. Len(line) /\ Len(line) \in Nat
      BY <1>7 DEF LineText
    <3> QED
      BY <1>3, <1>7, <1>8, <3>1
  <2>2. ColonAt(line, i0 + 1)
    BY <1>9, <1>12, <2>1, ColonIs
  <2> QED
    BY <2>2 DEF ColonAt
<1>14. line[i0 + 3][1] = v /\ SubSeq(line, i0 + 3, Len(line)) = Base64(v)
    BY <1>5, <1>10, <1>11, <1>12 DEF b
<1> HIDE DEF i0
<1>15. ValueOf(line, i0) = v
    BY <1>12, <1>13, <1>14 DEF ValueOf
<1> QED
    BY <1>15 DEF i0

-----------------------------------------------------------------------------
(* The line of an attribute, before it is folded.                          *)
LineOf(n, v) ==
    IF NeedsBase64(v) THEN Laid(n, Base64Mark, Base64(v)) ELSE Laid(n, PlainMark, Literal(v))

LEMMA AttributeIsLine == \A n, v : WriteAttr(n, v) = FoldLine(LineOf(n, v))
    BY DEF WriteAttr, LineOf, Laid, PlainMark, Base64Mark

LEMMA AttributeIsRead ==
    ASSUME NEW n \in Seq(Char), SafeAttrName(n), NEW v \in Seq(Char),
           NEW line, line = LineOf(n, v)
    PROVE  /\ line \in LineText /\ line # <<>> /\ OfItsOwn(line) /\ SaysSomething(line)
           /\ Min(Colons(line)) = Len(n) + 1 /\ Text(SubSeq(line, 1, Len(n))) = n
           /\ ValueOf(line, Len(n) + 1) = v /\ Len(n) \in Nat
<1>1. CASE NeedsBase64(v)
  <2>1. line = Laid(n, Base64Mark, Base64(v)) /\ Base64Mark \in Marks
    BY <1>1, MarksAre DEF LineOf
  <2>2. Base64(v) \in LineText
    BY Base64IsFit DEF LineText
  <2>3. ValueOf(line, Len(n) + 1) = v
    <3>1. v # <<>>
      BY <1>1 DEF NeedsBase64
    <3> QED
      BY <2>1, <3>1, Base64IsRead
  <2>4. line \in LineText /\ Len(n) \in Nat
    BY <2>1, <2>2, LineIsLaidOut DEF IsLaid
  <2> QED
    BY <2>1, <2>2, <2>3, <2>4, NameIsRead
<1>2. CASE ~NeedsBase64(v)
  <2>1. line = Laid(n, PlainMark, Literal(v)) /\ PlainMark \in Marks
    BY <1>2, MarksAre DEF LineOf
  <2>2. Literal(v) \in LineText /\ ~BlankFirst(v)
    BY <1>2, PlainIs
  <2>3. ValueOf(line, Len(n) + 1) = v
    BY <2>1, <2>2, PlainIsRead
  <2>4. line \in LineText /\ Len(n) \in Nat
    BY <2>1, <2>2, LineIsLaidOut DEF IsLaid
  <2> QED
    BY <2>1, <2>2, <2>3, <2>4, NameIsRead
<1> QED
    BY <1>1, <1>2

LEMMA ValueIsRead ==
    ASSUME NEW n \in Seq(Char), SafeAttrName(n), NEW v \in Seq(Char), NEW entries
    PROVE  ReadLine(entries, LineOf(n, v)) =
             IF n = DN THEN Append(entries, [dn |-> v, attrs |-> <<>>])
             ELSE [entries EXCEPT ![Len(entries)].attrs = Append(@, <<n, v>>)]
<1> DEFINE line == LineOf(n, v)
<1>1. /\ line # <<>> /\ SaysSomething(line)
      /\ Min(Colons(line)) = Len(n) + 1 /\ Text(SubSeq(line, 1, Len(n))) = n
      /\ ValueOf(line, Len(n) + 1) = v /\ Len(n) \in Nat
    BY AttributeIsRead
<1>2. (Len(n) + 1) - 1 = Len(n)
    BY <1>1
<1> HIDE DEF line
<1> QED
    BY <1>1, <1>2 DEF ReadLine, SaysSomething, IsComment, line

(* Comments, counted.                                                      *)
LEMMA CommentsGrow ==
    ASSUME NEW t \in Seq(AnyLine), NEW line \in AnyLine
    PROVE  Cardinality(Comments(Append(t, line))) =
             IF IsComment(line) THEN Cardinality(Comments(t)) + 1 ELSE Cardinality(Comments(t))
<1> DEFINE u == Append(t, line)
           k == Len(t) + 1
<1>1. /\ Len(t) \in Nat /\ DOMAIN t = 1 .. Len(t) /\ DOMAIN u = 1 .. k /\ u[k] = line
      /\ \A j \in 1 .. Len(t) : u[j] = t[j]
    OBVIOUS
<1> HIDE DEF u
<1>2. \A x : \A j \in DOMAIN x : j \in Comments(x) <=> IsComment(x[j])
    BY DEF Comments, IsComment
<1>3. \A x : Comments(x) \subseteq DOMAIN x
    BY DEF Comments
<1>4. IsFiniteSet(Comments(t)) /\ k \notin Comments(t)
  <2>1. IsFiniteSet(1 .. Len(t))
    <3>1. 1 \in Int /\ Len(t) \in Int
      BY <1>1
    <3> QED
      BY <3>1, FS_Interval
  <2>2. Comments(t) \in SUBSET (1 .. Len(t))
    BY <1>1, <1>3
  <2>3. \A j \in 1 .. Len(t) : j # k
    BY <1>1
  <2> QED
    BY <2>1, <2>2, <2>3, FS_Subset
<1>5. \A j : j \in 1 .. k <=> j \in 1 .. Len(t) \/ j = k
    BY <1>1
<1> HIDE DEF k
<1>6. CASE IsComment(line)
  <2>1. Comments(u) = Comments(t) \cup {k}
    BY <1>1, <1>2, <1>3, <1>5, <1>6
  <2> QED
    BY <1>4, <1>6, <2>1, FS_AddElement DEF u
<1>7. CASE ~IsComment(line)
  <2>1. Comments(u) = Comments(t)
    BY <1>1, <1>2, <1>3, <1>5, <1>7
  <2> QED
    BY <1>7, <2>1 DEF u
<1> QED
    BY <1>6, <1>7

(* The document of the entries g, with n comments.                         *)
Says(d, g, n) ==
    /\ d \in Seq(AnyLine) /\ Unfold(d) \in Seq(AnyLine)
    /\ Entries(Unfold(d)) = g /\ Cardinality(Comments(Unfold(d))) = n

LEMMA LineIsAdded ==
    ASSUME NEW d, NEW g, NEW n, Says(d, g, n),
           NEW lines \in Seq(AnyLine), NEW line \in AnyLine,
           Unfold(d \o lines) = Append(Unfold(d), line)
    PROVE  Says(d \o lines, ReadLine(g, line), IF IsComment(line) THEN n + 1 ELSE n)
<1> DEFINE t == Unfold(d)
<1>1. t \in Seq(AnyLine) /\ Entries(t) = g /\ Cardinality(Comments(t)) = n
    BY DEF Says
<1>2. d \o lines \in Seq(AnyLine)
    BY ConcatProperties DEF Says
<1> HIDE DEF t
<1>3. Append(t, line) \in Seq(AnyLine) /\ Entries(Append(t, line)) = ReadLine(g, line)
    BY <1>1, ReadersGoOn
<1>4. Cardinality(Comments(Append(t, line))) = IF IsComment(line) THEN n + 1 ELSE n
    BY <1>1, CommentsGrow
<1>5. Unfold(d \o lines) = Append(t, line)
    BY DEF t
<1> QED
    BY <1>2, <1>3, <1>4, <1>5 DEF Says

LEMMA AttributeIsAdded ==
    ASSUME NEW d, NEW g, NEW n, Says(d, g, n),
           NEW name \in Seq(Char), SafeAttrName(name), NEW v \in Seq(Char)
    PROVE  Says(d \o WriteAttr(name, v),
                IF name = DN THEN Append(g, [dn |-> v, attrs |-> <<>>])
                ELSE [g EXCEPT ![Len(g)].attrs = Append(@, <<name, v>>)], n)
<1> DEFINE line == LineOf(name, v)
<1>1. line \in LineText /\ line # <<>> /\ OfItsOwn(line) /\ ~IsComment(line)
    BY AttributeIsRead DEF SaysSomething
<1>2. ReadLine(g, line) = IF name = DN THEN Append(g, [dn |-> v, attrs |-> <<>>])
                          ELSE [g EXCEPT ![Len(g)].attrs = Append(@, <<name, v>>)]
    BY ValueIsRead
<1>3. WriteAttr(name, v) = FoldLine(line) /\ WriteAttr(name, v) \in Seq(AnyLine)
    BY AttributeIsLine, AttributeIsFit, LinesAreLines
<1> HIDE DEF line
<1>4. Unfold(d \o FoldLine(line)) = Append(Unfold(d), line)
    BY <1>1, FoldedIsUnfolded DEF Says
<1>5. Says(d \o FoldLine(line), ReadLine(g, line), n)
  <2>1. line \in AnyLine
    BY <1>1, LinesAreLines
  <2> QED
    BY <1>1, <1>3, <1>4, <2>1, LineIsAdded
<1> QED
    BY <1>2, <1>3, <1>5

(* A line that stands alone and that the reader skips.                     *)
Skipped(line) == OfItsOwn(line) /\ \A g : ReadLine(g, line) = g

LEMMA SkippedIsAdded ==
    ASSUME NEW d, NEW g, NEW n, Says(d, g, n), NEW line \in AnyLine, Skipped(line)
    PROVE  Says(d \o <<line>>, g, IF IsComment(line) THEN n + 1 ELSE n)
<1>1. <<line>> \in Seq(AnyLine) /\ d \in Seq(AnyLine)
    BY DEF Says
<1>2. Unfold(d \o <<line>>) = Append(Unfold(d), line)
    BY <1>1, LineIsRead DEF Skipped
<1>3. Says(d \o <<line>>, ReadLine(g, line), IF IsComment(line) THEN n + 1 ELSE n)
    BY <1>1, <1>2, LineIsAdded
<1>4. ReadLine(g, line) = g
    BY DEF Skipped
<1> QED
    BY <1>3, <1>4

LEMMA SeparatorIsAdded ==
    ASSUME NEW d, NEW g, NEW n, Says(d, g, n)
    PROVE  Says(d \o Separator, g, n)
<1> DEFINE c == <<>>
<1>1. ~IsComment(c) /\ Skipped(c)
    BY DEF IsComment, Skipped, OfItsOwn, Starts, ReadLine
<1>2. c \in AnyLine
    BY DEF AnyLine
<1>3. Separator = <<c>>
    BY DEF Separator
<1> HIDE DEF c
<1> QED
    BY <1>1, <1>2, <1>3, SkippedIsAdded

(* Comments.                                                               *)
CommentLine == {line \in AnyLine : IsComment(line)}

LEMMA CommentIsSkipped ==
    ASSUME NEW line \in CommentLine
    PROVE  line \in AnyLine /\ IsComment(line) /\ Skipped(line)
<1>1. line \in AnyLine /\ IsComment(line)
    BY DEF CommentLine
<1>2. line # <<>> /\ line[1] = Lit("#")
    BY <1>1, LitIs DEF IsComment, Starts
<1>3. Lit("#") # Lit(" ")
  <2>1. "#" # " "
    OBVIOUS
  <2> QED
    BY <2>1, LitIs
<1>4. OfItsOwn(line)
    BY <1>2, <1>3, LitIs DEF OfItsOwn, Starts
<1>5. ASSUME NEW g PROVE ReadLine(g, line) = g
    BY <1>1 DEF ReadLine, IsComment
<1> QED
    BY <1>1, <1>4, <1>5 DEF Skipped

LEMMA LinesAssociate ==
    ASSUME NEW a \in Seq(AnyLine), NEW b \in Seq(AnyLine), NEW c \in Seq(AnyLine)
    PROVE  (a \o b) \o c = a \o (b \o c)
    BY ConcatAssociative

LEMMA CommentsAreAdded ==
    ASSUME NEW d, NEW g, NEW n \in Nat, Says(d, g, n), NEW lines \in Seq(CommentLine)
    PROVE  Says(d \o lines, g, n + Len(lines))
<1> DEFINE first(k) == SubSeq(lines, 1, k)
           short == {k \in 0 .. Len(lines) : ~Says(d \o first(k), g, n + k)}
<1>1. Len(lines) \in Nat /\ \A k \in 1 .. Len(lines) : lines[k] \in CommentLine
    OBVIOUS
<1>2. CommentLine \subseteq AnyLine
    BY DEF CommentLine
<1>3. d \in Seq(AnyLine) /\ lines \in Seq(AnyLine)
  <2>1. d \in Seq(AnyLine)
    BY DEF Says
  <2> HIDE DEF CommentLine, AnyLine
  <2> QED
    BY <1>2, <2>1
<1>4. short = {}
  <2>1. SUFFICES ASSUME short # {} PROVE FALSE
    OBVIOUS
  <2>2. PICK k \in short : \A j \in short : k <= j
    <3>1. short \in SUBSET Nat
      BY <1>1
    <3> HIDE DEF short
    <3> QED
      BY <2>1, <3>1, LeastOf
  <2>3. k \in 0 .. Len(lines) /\ ~Says(d \o first(k), g, n + k)
    BY <2>2
  <2>4. CASE k = 0
    <3>1. first(0) = <<>> /\ d \o <<>> = d
      BY <1>3
    <3>2. n + 0 = n
      OBVIOUS
    <3> QED
      BY <2>3, <2>4, <3>1, <3>2
  <2>5. CASE k # 0
    <3>1. k - 1 \in 0 .. Len(lines) /\ k \in 1 .. Len(lines) /\ ~(k <= k - 1)
      BY <1>1, <2>3, <2>5
    <3>2. Says(d \o first(k - 1), g, n + (k - 1))
      BY <2>2, <3>1
    <3>3. first(k - 1) \in Seq(AnyLine) /\ first(k) = first(k - 1) \o <<lines[k]>>
      <4>1. /\ SubSeq(lines, 1, k - 1) \in Seq(AnyLine)
            /\ SubSeq(lines, 1, k - 1) \o SubSeq(lines, (k - 1) + 1, k) = SubSeq(lines, 1, k)
        <5>1. k - 1 \in Nat /\ k \in Nat /\ k - 1 <= k /\ k <= Len(lines)
          BY <1>1, <3>1
        <5> QED
          BY <1>3, <5>1, PrefixGrows
      <4>2. SubSeq(lines, (k - 1) + 1, k) = <<lines[k]>>
        <5>1. (k - 1) + 1 = k
          BY <3>1
        <5>2. SubSeq(lines, k, k) = <<lines[k]>>
          BY <3>1, OneOf
        <5> QED
          BY <5>1, <5>2
      <4> QED
        BY <4>1, <4>2
    <3>4. lines[k] \in AnyLine /\ IsComment(lines[k]) /\ Skipped(lines[k])
      BY <1>1, <3>1, CommentIsSkipped
    <3> HIDE DEF first
    <3>5. Says((d \o first(k - 1)) \o <<lines[k]>>, g, (n + (k - 1)) + 1)
      BY <3>2, <3>4, SkippedIsAdded
    <3>6. (d \o first(k - 1)) \o <<lines[k]>> = d \o first(k)
      <4>1. <<lines[k]>> \in Seq(AnyLine)
        BY <3>4
      <4>2. (d \o first(k - 1)) \o <<lines[k]>> = d \o (first(k - 1) \o <<lines[k]>>)
        <5>1. d \in Seq(AnyLine) /\ first(k - 1) \in Seq(AnyLine)
          BY <1>3, <3>3
        <5> QED
          BY <4>1, <5>1, LinesAssociate
      <4> QED
        BY <3>3, <4>2
    <3>7. (n + (k - 1)) + 1 = n + k
      BY <3>1
    <3> QED
      BY <2>3, <3>5, <3>6, <3>7
  <2> QED
    BY <2>4, <2>5
<1>5. Says(d \o first(Len(lines)), g, n + Len(lines))
  <2>1. Len(lines) \in 0 .. Len(lines)
    BY <1>1
  <2> QED
    BY <1>4, <2>1
<1>6. first(Len(lines)) = lines
    BY <1>3
<1> QED
    BY <1>5, <1>6

(* What is between line breaks holds none.                                 *)
LEMMA SplitLinesIs ==
    ASSUME NEW text \in Seq(Char)
    PROVE  /\ Len(SplitLines(text)) \in Nat
           /\ DOMAIN SplitLines(text) = 1 .. Len(SplitLines(text))
           /\ \A k \in DOMAIN SplitLines(text) :
                 SplitLines(text)[k] \in Seq({c \in ToSet(text) : c # "\n"})
           /\ "\n" \notin ToSet(text) => Len(SplitLines(text)) = 1
<1> DEFINE broken(m) == {j \in 1 .. m : text[j] = "\n"}
           n == Breaks(text, Len(text))
<1>1. Len(text) \in Nat /\ \A m \in 1 .. Len(text) : text[m] \in ToSet(text)
    BY DEF ToSet
<1>2. ASSUME NEW m \in Nat
      PROVE  IsFiniteSet(broken(m)) /\ Breaks(text, m) \in Nat
             /\ Breaks(text, m) = Cardinality(broken(m))
  <2>1. IsFiniteSet(1 .. m) /\ broken(m) \in SUBSET (1 .. m)
    <3>1. 1 \in Int /\ m \in Int
      OBVIOUS
    <3> QED
      BY <3>1, FS_Interval
  <2>2. IsFiniteSet(broken(m))
    BY <2>1, FS_Subset
  <2> QED
    BY <2>2, FS_CardinalityType DEF Breaks
<1>3. n \in Nat
    BY <1>1, <1>2
<1>4. ASSUME NEW a \in Nat, NEW b \in Nat, NEW j \in Nat, a < j, j <= b, text[j] = "\n"
      PROVE  Breaks(text, a) # Breaks(text, b)
  <2>1. broken(a) \in SUBSET broken(b)
    BY <1>4
  <2>2. j \in broken(b) /\ j \notin broken(a)
    BY <1>4
  <2>3. IsFiniteSet(broken(b))
    BY <1>2
  <2> HIDE DEF broken
  <2>4. Cardinality(broken(b)) # Cardinality(broken(a))
    BY <2>1, <2>2, <2>3, FS_Subset
  <2> QED
    BY <1>2, <2>4
<1> DEFINE at(k) == {m \in DOMAIN text : text[m] # "\n" /\ Breaks(text, m) = k - 1}
           line(k) == IF at(k) = {} THEN <<>> ELSE SubSeq(text, Min(at(k)), Max(at(k)))
           plain == {c \in ToSet(text) : c # "\n"}
<1>5. ASSUME NEW k \in 1 .. n + 1
      PROVE  line(k) \in Seq(plain)
  <2>1. CASE at(k) = {}
    BY <2>1
  <2>2. CASE at(k) # {}
    <3> DEFINE a == Min(at(k))
               b == Max(at(k))
    <3>1. at(k) \in SUBSET Nat /\ at(k) \in SUBSET (0 .. Len(text))
      BY <1>1
    <3>2. \A m \in at(k) : /\ m \in 1 .. Len(text) /\ text[m] # "\n"
                           /\ Breaks(text, m) = k - 1
      BY <1>1
    <3> HIDE DEF at
    <3>3. a \in at(k) /\ \A y \in at(k) : a <= y
      BY <2>2, <3>1, LeastOf DEF Min
    <3>4. b \in at(k) /\ \A y \in at(k) : y <= b
      <4>1. \E x \in at(k) : \A y \in at(k) : y <= x
        BY <1>1, <2>2, <3>1, GreatestOf
      <4>2. \A x, y \in at(k) : (x >= y) <=> (y <= x)
        BY <3>1
      <4> QED
        BY <4>1, <4>2 DEF Max
    <3>5. a \in Nat /\ b \in Nat /\ 1 <= a /\ a <= b /\ b <= Len(text)
      BY <1>1, <3>2, <3>3, <3>4
    <3>6. text[a] # "\n" /\ Breaks(text, a) = Breaks(text, b)
      BY <3>2, <3>3, <3>4
    <3> HIDE DEF a, b, plain
    <3>7. ASSUME NEW j \in a .. b PROVE text[j] \in plain
      <4>1. text[j] # "\n"
        <5>1. CASE j = a
          BY <3>6, <5>1
        <5>2. CASE j # a
          <6>1. j \in Nat /\ a < j /\ j <= b
            BY <3>5, <5>2
          <6> QED
            BY <1>4, <3>5, <3>6, <6>1
        <5> QED
          BY <5>1, <5>2
      <4>2. text[j] \in ToSet(text)
        BY <1>1, <3>5
      <4> QED
        BY <4>1, <4>2 DEF plain
    <3>8. SubSeq(text, a, b) \in Seq(plain)
      <4>1. SubSeq(text, a, b) = [j \in 1 .. (b - a) + 1 |-> text[a + j - 1]]
        BY <1>1, <3>5
      <4>2. (b - a) + 1 \in Nat
        BY <3>5
      <4>3. \A j \in 1 .. (b - a) + 1 : text[a + j - 1] \in plain
        BY <3>5, <3>7
      <4> QED
        BY <4>1, <4>2, <4>3
    <3> QED
      BY <2>2, <3>8 DEF a, b
  <2> QED
    BY <2>1, <2>2
<1>6. SplitLines(text) = [k \in 1 .. n + 1 |-> line(k)]
    BY DEF SplitLines
<1>7. "\n" \notin ToSet(text) => n = 0
  <2>1. SUFFICES ASSUME "\n" \notin ToSet(text) PROVE n = 0
    OBVIOUS
  <2>2. broken(Len(text)) = {}
    BY <1>1, <2>1
  <2> QED
    BY <1>1, <1>2, <2>2, FS_EmptySet
<1> DEFINE lines == SplitLines(text)
<1> HIDE DEF n, line, plain
<1>8. lines \in Seq(Seq(plain)) /\ Len(lines) = n + 1 /\ DOMAIN lines = 1 .. n + 1
  <2>1. n + 1 \in Nat
    BY <1>3
  <2> QED
    BY <1>5, <1>6, <2>1
<1>9. \A k \in DOMAIN lines : lines[k] \in Seq(plain)
    BY <1>5, <1>6
<1> HIDE DEF lines
<1> QED
    BY <1>3, <1>7, <1>8, <1>9 DEF lines, plain

(* A comment of any text is made of comment lines, which hold no other     *)
(* characters than the text; one of a single line is a single line.        *)
LEMMA CommentIs ==
    ASSUME NEW text \in Seq(Char), NEW heads \in BOOLEAN, "^" \in ToSet(text) => heads
    PROVE  /\ Comment(text) \in Seq(CommentLine) /\ Len(Comment(text)) \in Nat
           /\ \A k \in DOMAIN Comment(text) : IsFit(Comment(text)[k], heads)
           /\ "\n" \notin ToSet(text) => Len(Comment(text)) = 1
<1> DEFINE lines == SplitLines(text)
           plain == {c \in ToSet(text) : c # "\n"}
           mark == <<"#", " ">>
           comment(k) == Literal(mark \o lines[k])
<1>1. /\ Len(lines) \in Nat /\ DOMAIN lines = 1 .. Len(lines)
      /\ \A k \in DOMAIN lines : lines[k] \in Seq(plain)
      /\ "\n" \notin ToSet(text) => Len(lines) = 1
    BY SplitLinesIs
<1>2. plain \subseteq Char /\ "\n" \notin plain
    BY DEF ToSet
<1>3. {"#", " "} \subseteq Char /\ "\n" \notin {"#", " "} /\ "^" \notin {"#", " "}
    BY DEF Char
<1>4. mark \in Seq({"#", " "}) /\ mark[1] = "#"
    OBVIOUS
<1>10. Len(mark) = 2
    OBVIOUS
<1> HIDE DEF lines, plain, mark
<1>5. ASSUME NEW k \in DOMAIN lines
      PROVE  /\ comment(k) \in AnyLine /\ IsComment(comment(k))
             /\ IsFit(comment(k), heads)
  <2> DEFINE s == mark \o lines[k]
             both == {"#", " "} \cup plain
  <2>1. mark \in Seq(both) /\ lines[k] \in Seq(both)
    <3>1. {"#", " "} \subseteq both /\ plain \subseteq both
      OBVIOUS
    <3>2. lines[k] \in Seq(plain)
      BY <1>1
    <3> HIDE DEF both
    <3>3. mark \in Seq(both)
      BY <1>4, <3>1, Widened
    <3> QED
      BY <3>1, <3>2, <3>3, Widened
  <2>3. both \subseteq Char
    BY <1>2, <1>3
  <2> HIDE DEF both
  <2> DEFINE rest == lines[k]
  <2>2. s \in Seq(both) /\ Len(s) = 2 + Len(rest) /\ s[1] = "#" /\ Len(rest) \in Nat
    <3> HIDE DEF rest
    <3>1. rest \in Seq(both) /\ s = mark \o rest
      BY <2>1 DEF rest
    <3>2. /\ mark \o rest \in Seq(both) /\ Len(mark \o rest) = Len(mark) + Len(rest)
          /\ \A j \in 1 .. Len(mark) : (mark \o rest)[j] = mark[j]
          /\ Len(rest) \in Nat
      BY <2>1, <3>1, SuffixIs
    <3> HIDE DEF s
    <3>3. Len(mark) = 2 /\ 1 \in 1 .. Len(mark)
      BY <1>10
    <3>4. (mark \o rest)[1] = mark[1]
      BY <3>2, <3>3
    <3>5. s[1] = "#"
      BY <1>4, <3>1, <3>4
    <3> QED
      BY <3>1, <3>2, <3>3, <3>5
  <2> HIDE DEF s
  <2>4. s \in Seq(Char)
    BY <2>2, <2>3
  <2>5. /\ Len(Literal(s)) = Len(s) /\ Len(s) \in Nat
        /\ \A j \in 1 .. Len(s) : Literal(s)[j] = Lit(s[j])
    BY <2>4, LiteralIs
  <2>6. DOMAIN Literal(s) = 1 .. Len(s)
    BY <2>2 DEF Literal
  <2>7. IsComment(Literal(s))
    <3>1. Literal(s)[1] = Lit("#") /\ Literal(s) # <<>>
      BY <2>2, <2>5, <2>6
    <3>2. Literal(<<"#">>)[1] = Lit("#")
      BY LitIs
    <3> QED
      BY <3>1, <3>2 DEF IsComment, Starts
  <2>8. \A j \in 1 .. Len(s) : s[j] \in both
    BY <2>2
  <2>9. "\n" \notin both /\ ("^" \in both => heads)
    BY <1>2, <1>3 DEF both, plain
  <2>10. ASSUME NEW j \in DOMAIN Literal(s)
         PROVE  /\ Literal(s)[j][1][1] # "\n"
                /\ (Literal(s)[j][1][1] = "^" => heads)
    <3>1. Literal(s)[j][1][1] = s[j] /\ s[j] \in both
      BY <2>5, <2>6, <2>8, <2>10, LitIs
    <3> QED
      BY <2>9, <3>1
  <2>11. IsFit(Literal(s), heads)
    BY <2>7, <2>10 DEF IsFit, IsComment
  <2>12. Literal(s) \in AnyLine
    <3>1. ASSUME NEW c \in Char PROVE Lit(c) \in LineChar
      <4>1. <<c>> \in Seq(Char) /\ 0 \in Nat
        OBVIOUS
      <4> QED
        BY <4>1 DEF Lit, LineChar
    <3>2. Literal(s) = [j \in 1 .. Len(s) |-> Lit(s[j])]
      BY <2>2 DEF Literal, Lit
    <3>3. \A j \in 1 .. Len(s) : Lit(s[j]) \in LineChar
      BY <2>3, <2>8, <3>1
    <3> QED
      BY <2>5, <3>2, <3>3 DEF AnyLine
  <2> QED
    BY <2>7, <2>11, <2>12 DEF s
<1>6. Comment(text) = [k \in 1 .. Len(lines) |-> comment(k)]
    BY <1>1 DEF Comment, lines, mark
<1>7. \A k \in 1 .. Len(lines) : comment(k) \in CommentLine
    BY <1>1, <1>5 DEF CommentLine
<1> DEFINE all == Comment(text)
<1> HIDE DEF comment
<1>8. all \in Seq(CommentLine) /\ Len(all) = Len(lines) /\ DOMAIN all = 1 .. Len(lines)
    BY <1>1, <1>6, <1>7
<1>9. \A k \in DOMAIN all : IsFit(all[k], heads)
    BY <1>1, <1>5, <1>6, <1>8
<1> HIDE DEF all
<1> QED
    BY <1>1, <1>8, <1>9 DEF all

(* The version of the format.                                              *)
LEMMA VersionIs ==
    /\ Literal(<<"v">>) \in AnyLine /\ Skipped(Literal(<<"v">>))
    /\ ~IsComment(Literal(<<"v">>)) /\ IsFit(Literal(<<"v">>), FALSE)
<1> DEFINE line == Literal(<<"v">>)
           x == Lit("v")
<1>1. line = <<x>> /\ x[1][1] = "v"
  <2>1. DOMAIN <<"v">> = {1} /\ <<"v">>[1] = "v"
    OBVIOUS
  <2> QED
    BY <2>1, LitIs DEF Literal, Lit
<1>2. x \in LineChar
  <2>1. <<"v">> \in Seq(Char) /\ 0 \in Nat
    BY DEF Char
  <2> QED
    BY <2>1 DEF Lit, LineChar
<1>3. x # Lit("#") /\ x # Lit(" ")
  <2>1. "v" # "#" /\ "v" # " "
    OBVIOUS
  <2> QED
    BY <2>1, LitIs
<1> HIDE DEF x, line
<1>8. line \in AnyLine
    BY <1>1, <1>2 DEF AnyLine
<1>4. line # <<>> /\ line[1] = x /\ Len(line) = 1 /\ DOMAIN line = {1} /\ line \in AnyLine
    BY <1>1, <1>8
<1> USE DEF line
<1>5. Starts(line, "v") /\ ~IsComment(line) /\ OfItsOwn(line)
  <2>1. Literal(<<"v">>)[1] = x /\ Literal(<<"#">>)[1] = Lit("#")
        /\ Literal(<<" ">>)[1] = Lit(" ")
    BY LitIs DEF x
  <2> HIDE DEF line
  <2> QED
    BY <1>3, <1>4, <2>1 DEF Starts, IsComment, OfItsOwn
<1> HIDE DEF line
<1>6. Skipped(line)
    BY <1>5 DEF Skipped, ReadLine
<1>7. IsFit(line, FALSE)
  <2>1. line[1][1][1] = "v" /\ "v" \notin {"\n", "~", "^"}
    BY <1>1, <1>4
  <2>2. Len(line) <= LineWidth
    BY <1>4, LdifAssumption
  <2> QED
    BY <1>4, <2>1, <2>2 DEF IsFit
<1> QED
    BY <1>4, <1>5, <1>6, <1>7 DEF line

(* The lines of a document of which the first h head it.                   *)
AllFit(d, h) == \A k \in DOMAIN d : IsFit(d[k], k <= h)

LEMMA FitsGrow ==
    ASSUME NEW d \in Seq(AnyLine), NEW lines \in Seq(AnyLine), NEW h, AllFit(d, h),
           \A k \in DOMAIN lines : IsFit(lines[k], FALSE)
    PROVE  AllFit(d \o lines, h)
<1> DEFINE e == d \o lines
<1>1. /\ Len(e) = Len(d) + Len(lines) /\ Len(d) \in Nat /\ Len(lines) \in Nat
      /\ DOMAIN e = 1 .. Len(e)
      /\ \A k \in 1 .. Len(d) : e[k] = d[k]
      /\ \A k \in 1 .. Len(lines) : e[Len(d) + k] = lines[k]
  <2>1. e \in Seq(AnyLine)
    BY ConcatProperties
  <2> QED
    BY <2>1, SuffixIs
<1>2. ASSUME NEW line, IsFit(line, FALSE), NEW b PROVE IsFit(line, b)
    BY <1>2 DEF IsFit
<1> HIDE DEF e
<1>3. ASSUME NEW k \in DOMAIN e PROVE IsFit(e[k], k <= h)
  <2>1. CASE k \in 1 .. Len(d)
    BY <1>1, <2>1 DEF AllFit
  <2>2. CASE k \notin 1 .. Len(d)
    <3>1. k - Len(d) \in 1 .. Len(lines) /\ Len(d) + (k - Len(d)) = k
      BY <1>1, <2>2
    <3>2. e[k] = lines[k - Len(d)] /\ k - Len(d) \in DOMAIN lines
      BY <1>1, <3>1
    <3> QED
      BY <1>2, <3>2
  <2> QED
    BY <2>1, <2>2
<1> QED
    BY <1>3 DEF AllFit, e

LEMMA SeparatorIs ==
    /\ Separator \in Seq(AnyLine) /\ Version \in Seq(AnyLine)
    /\ \A k \in DOMAIN Separator : IsFit(Separator[k], FALSE)
    /\ \A k \in DOMAIN Version : IsFit(Version[k], FALSE)
<1> DEFINE c == <<>>
           v == Literal(<<"v">>)
<1>1. c \in AnyLine /\ IsFit(c, FALSE)
    BY LdifAssumption DEF AnyLine, IsFit
<1>2. v \in AnyLine /\ IsFit(v, FALSE)
    BY VersionIs
<1>3. Separator = <<c>> /\ Version = <<v>> \o Separator
    BY DEF Separator, Version
<1> HIDE DEF c, v
<1>4. Separator \in Seq(AnyLine) /\ Len(Separator) = 1 /\ Separator[1] = c
    BY <1>1, <1>3
<1>5. \A k \in DOMAIN Separator : IsFit(Separator[k], FALSE)
  <2>1. \A k \in DOMAIN Separator : k = 1
    BY <1>4
  <2> QED
    BY <1>1, <1>4, <2>1
<1>6. /\ Version \in Seq(AnyLine) /\ Version[1] = v /\ Len(Version) = 2
      /\ Version[2] = c
  <2>1. /\ Version \in Seq(AnyLine) /\ Version[1] = v /\ Len(Version) = Len(Separator) + 1
        /\ \A k \in 1 .. Len(Separator) : Version[k + 1] = Separator[k]
    BY <1>2, <1>3, <1>4, HeadAndRest
  <2>2. 1 \in 1 .. 1 /\ 1 + 1 = 2
    OBVIOUS
  <2> QED
    BY <1>4, <2>1, <2>2
<1>7. ASSUME NEW k \in DOMAIN Version PROVE IsFit(Version[k], FALSE)
  <2>1. k = 1 \/ k = 2
    BY <1>6
  <2> QED
    BY <1>1, <1>2, <1>6, <2>1
<1> QED
    BY <1>4, <1>5, <1>6, <1>7

LEMMA AttributeFits ==
    ASSUME NEW n \in Seq(Char), SafeAttrName(n), NEW v \in Seq(Char)
    PROVE  /\ WriteAttr(n, v) \in Seq(AnyLine)
           /\ \A k \in DOMAIN WriteAttr(n, v) : IsFit(WriteAttr(n, v)[k], FALSE)
<1> DEFINE lines == WriteAttr(n, v)
<1>1. lines \in Seq(FitLine) /\ lines \in Seq(AnyLine)
    BY AttributeIsFit, LinesAreLines
<1> HIDE DEF lines
<1>2. ASSUME NEW line \in FitLine PROVE IsFit(line, FALSE)
  <2>1. Len(line) <= LineWidth /\ \A m \in DOMAIN line : line[m] \in FitChar
    BY DEF FitLine
  <2> QED
    BY <2>1 DEF IsFit, FitChar, Fit
<1>3. \A k \in DOMAIN lines : lines[k] \in FitLine
    BY <1>1
<1>4. lines \in Seq(AnyLine) /\ \A k \in DOMAIN lines : IsFit(lines[k], FALSE)
    BY <1>1, <1>2, <1>3
<1> QED
    BY <1>4 DEF lines

LEMMA QuotedIs ==
    ASSUME NEW n \in Seq(Char)
    PROVE  <<"a">> \o Quoted(n) \in Seq(Char) /\ ToSet(<<"a">> \o Quoted(n)) \cap {"\n", "^"} = {}
<1> DEFINE safe == {c \in Char : c \notin {"\n", "^"}}
<1>1. "a" \in safe /\ "\\" \in safe
    BY DEF Char
<1>2. Quoted(n) \in Seq(safe)
    BY <1>1 DEF Quoted
<1>3. <<"a">> \in Seq(safe)
    BY <1>1
<1> DEFINE s == <<"a">> \o Quoted(n)
<1>4. s \in Seq(safe)
    BY <1>2, <1>3, ConcatProperties
<1> HIDE DEF s
<1>5. s \in Seq(Char) /\ ToSet(s) \cap {"\n", "^"} = {}
    BY <1>4 DEF ToSet
<1> QED
    BY <1>5 DEF s

(* The inductive invariant of both theorems.                               *)
IInvLdif ==
    /\ Says(doc, given, header + dropped) /\ header \in Nat /\ dropped \in Nat
    /\ AllFit(doc, header)

LEMMA HeaderIsWritten ==
    ASSUME IInvLdif, NEW v \in Exported, WriteHeader(v)
    PROVE  IInvLdif'
<1> DEFINE text == <<"a", "\n">> \o v \o <<"\n", "a">>
           says == Comment(text)
<1>1. text \in Seq(Char)
  <2>1. <<"a", "\n">> \in Seq(Char) /\ <<"\n", "a">> \in Seq(Char)
    BY DEF Char
  <2>2. v \in Seq(Char)
    BY LdifAssumption
  <2> QED
    BY <2>1, <2>2, ConcatProperties
<1>2. doc = <<>> /\ doc' = says \o Separator \o Version /\ header' = Len(says)
      /\ given' = given /\ dropped' = dropped
    BY DEF WriteHeader
<1> HIDE DEF text
<1>3. says \in Seq(CommentLine) /\ Len(says) \in Nat
      /\ \A k \in DOMAIN says : IsFit(says[k], TRUE)
    BY <1>1, CommentIs
<1>4. says \in Seq(AnyLine)
  <2>1. CommentLine \subseteq AnyLine
    BY DEF CommentLine
  <2> HIDE DEF CommentLine, AnyLine, says
  <2> QED
    BY <1>3, <2>1
<1> HIDE DEF says
<1>5. Says(<<>>, given, dropped) /\ dropped \in Nat
  <2>1. Cardinality(Comments(Unfold(<<>>))) = 0
    <3>1. Unfold(<<>>) = <<>> /\ Comments(<<>>) = {}
      BY ReadersStart DEF Comments
    <3> QED
      BY <3>1, FS_EmptySet
  <2>2. Says(<<>>, given, header + dropped) /\ header \in Nat /\ dropped \in Nat
    BY <1>2 DEF IInvLdif
  <2>3. header + dropped = 0
    BY <2>1, <2>2 DEF Says
  <2>4. header + dropped = dropped
    BY <2>2, <2>3
  <2> QED
    BY <2>2, <2>4
<1>6. Says(says, given, dropped + Len(says))
  <2>1. <<>> \o says = says
    BY <1>4
  <2>2. Says(<<>> \o says, given, dropped + Len(says))
    BY <1>3, <1>5, CommentsAreAdded
  <2> QED
    BY <2>1, <2>2
<1> DEFINE line == Literal(<<"v">>)
           n == dropped + Len(says)
           d == says \o Separator
<1>7. Says(d, given, n)
    BY <1>6, SeparatorIsAdded
<1>8. line \in AnyLine /\ Skipped(line) /\ ~IsComment(line) /\ Version = <<line>> \o Separator
    BY VersionIs DEF Version
<1>9. d \in Seq(AnyLine)
    BY <1>4, SeparatorIs, ConcatProperties
<1> HIDE DEF d, line, n
<1>10. Says((d \o <<line>>) \o Separator, given, n)
  <2>1. Says(d \o <<line>>, given, n)
    BY <1>7, <1>8, SkippedIsAdded
  <2> QED
    BY <2>1, SeparatorIsAdded
<1>11. (d \o <<line>>) \o Separator = d \o Version
  <2>1. <<line>> \in Seq(AnyLine)
    BY <1>8
  <2> QED
    BY <1>8, <1>9, <2>1, SeparatorIs, LinesAssociate
<1>12. AllFit(says, Len(says))
  <2>1. DOMAIN says = 1 .. Len(says)
    BY <1>4
  <2>2. \A k \in DOMAIN says : (k <= Len(says)) = TRUE
    BY <1>3, <2>1
  <2> QED
    BY <1>3, <2>2 DEF AllFit
<1>13. AllFit(d, Len(says))
    BY <1>4, <1>12, SeparatorIs, FitsGrow DEF d
<1>14. AllFit(d \o Version, Len(says))
    BY <1>9, <1>13, SeparatorIs, FitsGrow
<1>15. doc' = d \o Version /\ header' + dropped' = n /\ header' \in Nat /\ dropped' \in Nat
  <2>1. Len(says) + dropped = dropped + Len(says)
    BY <1>3, <1>5
  <2> QED
    BY <1>2, <1>3, <1>5, <2>1 DEF d, n
<1> QED
    BY <1>2, <1>10, <1>11, <1>14, <1>15 DEF IInvLdif

(* A line or several more, and the header as it was.                       *)
LEMMA MoreIsWritten ==
    ASSUME IInvLdif, NEW lines \in Seq(AnyLine),
           \A k \in DOMAIN lines : IsFit(lines[k], FALSE),
           NEW g, NEW n \in Nat, Says(doc \o lines, g, header + n),
           doc' = doc \o lines, given' = g, dropped' = n, header' = header
    PROVE  IInvLdif'
<1>1. doc \in Seq(AnyLine) /\ AllFit(doc, header) /\ header \in Nat
    BY DEF IInvLdif, Says
<1>2. AllFit(doc \o lines, header)
    BY <1>1, FitsGrow
<1> QED
    BY <1>1, <1>2 DEF IInvLdif

LEMMA LdifInvariant == SpecLdif => []IInvLdif
<1>1. InitLdif => IInvLdif
  <2> SUFFICES ASSUME InitLdif PROVE IInvLdif
    OBVIOUS
  <2>1. doc = <<>> /\ given = <<>> /\ dropped = 0 /\ header = 0 /\ header + dropped = 0
    BY DEF InitLdif
  <2>2. Comments(<<>>) = {} /\ Cardinality({}) = 0
    BY FS_EmptySet DEF Comments
  <2>3. <<>> \in Seq(AnyLine) /\ 0 \in Nat /\ AllFit(<<>>, 0)
    BY DEF AllFit
  <2>4. Unfold(<<>>) = <<>> /\ Entries(<<>>) = <<>>
    BY ReadersStart
  <2>5. Says(<<>>, <<>>, 0)
    BY <2>2, <2>3, <2>4, Zenon DEF Says
  <2> QED
    BY <2>1, <2>3, <2>5 DEF IInvLdif
<1>2. ASSUME IInvLdif, [NextLdif]_ldifVars PROVE IInvLdif'
  <2>1. header \in Nat /\ dropped \in Nat /\ header + dropped \in Nat
        /\ Says(doc, given, header + dropped)
    BY <1>2 DEF IInvLdif
  <2>2. ASSUME NEW v \in Exported, WriteHeader(v) PROVE IInvLdif'
    BY <1>2, <2>2, HeaderIsWritten
  <2>3. ASSUME NEW v \in Value, WriteDN(v) PROVE IInvLdif'
    <3>1. DN \in Seq(Char) /\ SafeAttrName(DN) /\ v \in Seq(Char)
      BY LdifAssumption, MarksAreFit DEF SafeAttrName
    <3>2. Says(doc \o WriteAttr(DN, v), Append(given, [dn |-> v, attrs |-> <<>>]),
               header + dropped)
      BY <2>1, <3>1, AttributeIsAdded
    <3> QED
      BY <1>2, <2>1, <2>3, <3>1, <3>2, AttributeFits, MoreIsWritten DEF WriteDN
  <2>4. ASSUME NEW n \in Name, NEW v \in Value, WriteValue(n, v) PROVE IInvLdif'
    <3>1. n \in Seq(Char) /\ n # DN /\ SafeAttrName(n) /\ v \in Seq(Char)
      BY <2>4, LdifAssumption DEF WriteValue
    <3>2. Says(doc \o WriteAttr(n, v),
               [given EXCEPT ![Len(given)].attrs = Append(@, <<n, v>>)], header + dropped)
      BY <2>1, <3>1, AttributeIsAdded
    <3> QED
      BY <1>2, <2>1, <2>4, <3>1, <3>2, AttributeFits, MoreIsWritten DEF WriteValue
  <2>5. ASSUME NEW n \in Name, Drop(n) PROVE IInvLdif'
    <3> DEFINE text == <<"a">> \o Quoted(n)
               says == Comment(text)
    <3>1. text \in Seq(Char) /\ "^" \notin ToSet(text) /\ "\n" \notin ToSet(text)
      BY LdifAssumption, QuotedIs
    <3>2. doc' = doc \o says /\ dropped' = dropped + 1 /\ UNCHANGED <<header, given>>
      BY <2>5 DEF Drop
    <3> HIDE DEF text
    <3>3. says \in Seq(CommentLine) /\ Len(says) = 1
          /\ \A k \in DOMAIN says : IsFit(says[k], FALSE)
      BY <3>1, CommentIs
    <3>4. says \in Seq(AnyLine)
      <4>1. CommentLine \subseteq AnyLine
        BY DEF CommentLine
      <4> HIDE DEF CommentLine, AnyLine, says
      <4> QED
        BY <3>3, <4>1
    <3> HIDE DEF says
    <3>5. Says(doc \o says, given, (header + dropped) + Len(says))
      BY <2>1, <3>3, CommentsAreAdded
    <3>6. (header + dropped) + Len(says) = header + (dropped + 1) /\ dropped + 1 \in Nat
      BY <2>1, <3>3
    <3> QED
      BY <1>2, <3>2, <3>3, <3>4, <3>5, <3>6, MoreIsWritten
  <2>6. CASE EndEntry
    <3>1. Says(doc \o Separator, given, header + dropped)
      BY <2>1, SeparatorIsAdded
    <3> QED
      BY <1>2, <2>1, <2>6, <3>1, SeparatorIs, MoreIsWritten DEF EndEntry
  <2>7. CASE UNCHANGED ldifVars
    BY <1>2, <2>7 DEF IInvLdif, ldifVars
  <2> QED
    BY <1>2, <2>2, <2>3, <2>4, <2>5, <2>6, <2>7 DEF NextLdif
<1> QED
    BY <1>1, <1>2, PTL DEF SpecLdif

(* Whatever entries are exported, and whatever characters their values     *)
(* start, end and go on with, a reader of the document gets them back, and *)
(* one comment for every attribute that could not be written.              *)
THEOREM DocumentReadsBack == SpecLdif => []DocumentIsSound
<1>1. IInvLdif => DocumentIsSound
    BY DEF IInvLdif, Says, DocumentIsSound, ReadsBack, DropsAreSaid
<1> QED
    BY <1>1, LdifInvariant, PTL

(* Whatever is exported, no line but a comment is longer than LineWidth,   *)
(* none is broken in two by a character of a name, a DN or a value,        *)
(* comments alone hold what is not ASCII, and a control character is       *)
(* written as it is only in the header.                                    *)
THEOREM LinesStayFit == SpecLdif => []LinesAreFit
<1>1. IInvLdif => LinesAreFit
    BY DEF IInvLdif, AllFit, LinesAreFit
<1> QED
    BY <1>1, LdifInvariant, PTL

-----------------------------------------------------------------------------
(* Rendering.                                                              *)

(* A unit that leaves no remainder is no longer than what it measures.     *)
LEMMA ExactUnit ==
    ASSUME NEW d \in Nat \ {0}, NEW u \in Nat \ {0}, d % u = 0
    PROVE  (d \div u) * u = d /\ u <= d
<1>1. d \div u \in Nat /\ d = u * (d \div u) + (d % u)
    OBVIOUS
<1>2. (d \div u) * u = d
    BY <1>1
<1>3. d \div u >= 1
    BY <1>1, <1>2
<1>4. (d \div u) * u >= 1 * u
    BY <1>1, <1>3
<1> QED
    BY <1>2, <1>4

LEMMA DurationIsExact ==
    ASSUME NEW d \in Nat \ {0}
    PROVE  \E u \in Nat \ {0} :
              /\ HumanDuration(d) = <<d \div u, u>> /\ (d \div u) * u = d
              /\ \A j \in DOMAIN Units : Units[j] > u => d % Units[j] # 0
<1> DEFINE exact == {u \in ToSet(Units) : d % u = 0}
<1>1. \A u \in ToSet(Units) : u \in Nat \ {0}
    BY RenderingAssumption DEF ToSet
<1>2. \A j \in DOMAIN Units : Units[j] \in ToSet(Units)
    BY DEF ToSet
<1>3. CASE exact = {}
  <2>1. HumanDuration(d) = <<d \div 1, 1>>
    BY <1>3 DEF HumanDuration, In
  <2>2. (d \div 1) * 1 = d
    OBVIOUS
  <2> QED
    BY <1>2, <1>3, <2>1, <2>2
<1>4. CASE exact # {}
  <2>1. \A u \in exact : u \in 0 .. d
    BY <1>1, ExactUnit
  <2>2. \E x \in exact : \A y \in exact : y <= x
    <3> HIDE DEF exact
    <3> QED
      BY <1>4, <2>1, GreatestOf
  <2>3. PICK x \in exact : \A y \in exact : x >= y
    BY <1>1, <2>2
  <2> DEFINE u == Max(exact)
  <2>4. u \in exact /\ \A y \in exact : u >= y
    BY <2>3 DEF Max
  <2>5. HumanDuration(d) = <<d \div u, u>>
    BY <1>4 DEF HumanDuration, In
  <2>6. u \in Nat \ {0} /\ (d \div u) * u = d
    BY <1>1, <2>4, ExactUnit
  <2>7. ASSUME NEW j \in DOMAIN Units, Units[j] > u, d % Units[j] = 0
        PROVE  FALSE
    <3>1. Units[j] \in exact
      BY <1>2, <2>7
    <3> HIDE DEF exact, u
    <3>2. Units[j] \in Nat /\ u >= Units[j] /\ u \in Nat
      BY <1>1, <1>2, <2>4, <2>6, <3>1
    <3> QED
      BY <2>7, <3>2
  <2> HIDE DEF u
  <2> QED
    BY <2>5, <2>6, <2>7
<1> QED
    BY <1>3, <1>4

(* What is in range is not wrapped.                                        *)
LEMMA InRangeIsKept ==
    ASSUME NEW d \in Nat, d <= WordMax
    PROVE  Wrap(d) = d
<1>1. WordMax \in Nat \ {0}
    BY RenderingAssumption
<1>2. (d + WordMax + 1) % (2 * (WordMax + 1)) = d + WordMax + 1
    BY <1>1
<1> QED
    BY <1>1, <1>2 DEF Wrap

(* Only a duration has two parts.                                          *)
LEMMA TicksShown ==
    ASSUME NEW n \in Int64, Len(FiletimeInterval(n)) = 2
    PROVE  n < 0 /\ FiletimeInterval(n) = HumanDuration(Wrap(-n * Tick))
<1>1. Len(<<"never">>) = 1 /\ Len(<<"not set">>) = 1 /\ Len(<<>>) = 0
    OBVIOUS
<1>2. n \in Int /\ WordMax \in Nat
    BY RenderingAssumption DEF Int64
<1>3. n # -WordMax - 1 /\ n # 0 /\ ~(n > 0)
    BY <1>1, <1>2 DEF FiletimeInterval, Unrendered
<1> QED
    BY <1>2, <1>3 DEF FiletimeInterval

LEMMA SecondsShown ==
    ASSUME NEW n \in Int64, Len(SecondsInterval(n)) = 2
    PROVE  n > 0 /\ SecondsInterval(n) = HumanDuration(Wrap(n * Units[Len(Units)]))
<1>1. Len(<<"not set">>) = 1 /\ Len(<<>>) = 0
    OBVIOUS
<1>2. n \in Int
    BY RenderingAssumption DEF Int64
<1>3. n # 0 /\ ~(n < 0)
    BY <1>1, <1>2 DEF SecondsInterval, Unrendered
<1> QED
    BY <1>2, <1>3 DEF SecondsInterval

LEMMA IntervalIsExact ==
    ASSUME NEW n \in Int64,
           \/ Render("ticks", n, FiletimeInterval(n))
           \/ Render("seconds", n, SecondsInterval(n))
    PROVE  PoliciesAreExact' /\ AssociationsAreReadRight'
<1> DEFINE d == Lasts'
           second == Units[Len(Units)]
<1>1. AssociationsAreReadRight'
    BY DEF Render, AssociationsAreReadRight
<1>2. /\ n \in Int /\ WordMax \in Nat \ {0} /\ Tick \in Nat \ {0} /\ second \in Nat \ {0}
      /\ n >= -WordMax - 1
    BY RenderingAssumption DEF Int64
<1>3. ASSUME IsDuration', d <= WordMax
      PROVE  d \in Nat \ {0} /\ shown' = HumanDuration(d)
  <2>1. CASE Render("ticks", n, FiletimeInterval(n))
    <3>1. d = -n * Tick /\ shown' = FiletimeInterval(n)
      BY <2>1 DEF Render, Lasts
    <3>2. n < 0 /\ shown' = HumanDuration(Wrap(-n * Tick))
      BY <1>3, <3>1, TicksShown DEF IsDuration
    <3>3. -n \in Nat \ {0}
      BY <1>2, <3>2
    <3>4. \A a, b \in Nat \ {0} : a * b \in Nat \ {0}
      OBVIOUS
    <3>5. d \in Nat \ {0}
      BY <1>2, <3>1, <3>3, <3>4
    <3> QED
      BY <1>3, <3>1, <3>2, <3>5, InRangeIsKept
  <2>2. CASE Render("seconds", n, SecondsInterval(n))
    <3>1. d = n * second /\ shown' = SecondsInterval(n)
      BY <2>2 DEF Render, Lasts
    <3>2. n > 0 /\ shown' = HumanDuration(Wrap(n * second))
      BY <1>3, <3>1, SecondsShown DEF IsDuration
    <3>3. n \in Nat \ {0}
      BY <1>2, <3>2
    <3>4. \A a, b \in Nat \ {0} : a * b \in Nat \ {0}
      OBVIOUS
    <3>5. d \in Nat \ {0}
      BY <1>2, <3>1, <3>3, <3>4
    <3> QED
      BY <1>3, <3>1, <3>2, <3>5, InRangeIsKept
  <2> QED
    BY <2>1, <2>2
<1>4. ASSUME IsDuration', d <= WordMax
      PROVE  /\ shown'[1] * shown'[2] = d
             /\ \A j \in DOMAIN Units : Units[j] > shown'[2] => d % Units[j] # 0
  <2>1. d \in Nat \ {0} /\ shown' = HumanDuration(d)
    BY <1>3, <1>4
  <2> HIDE DEF d
  <2>2. PICK u \in Nat \ {0} :
            /\ HumanDuration(d) = <<d \div u, u>> /\ (d \div u) * u = d
            /\ \A j \in DOMAIN Units : Units[j] > u => d % Units[j] # 0
    BY <2>1, DurationIsExact
  <2> QED
    BY <2>1, <2>2
<1> QED
    BY <1>1, <1>4 DEF PoliciesAreExact

LEMMA AssociationIsRead ==
    ASSUME NEW n, NEW key,
           NEW fields \in {<<Driver, Number(n), key>>, <<Number(n), Driver, key>>},
           IsState(Number(n))
    PROVE  DirXMLAssociation(fields) = <<Number(n), Driver, key>>
<1>1. Number(n).is = "number" /\ ~IsState(Driver) /\ Driver.is = "dn"
      /\ Number(n) # Unset /\ Driver # Unset
    BY DEF Number, Driver, Unset, IsState
<1>2. Take(Take(Take(Untold, fields[1]), fields[2]), fields[3])
        = [state |-> Number(n), driver |-> Driver, key |-> key]
  <2>1. CASE fields = <<Driver, Number(n), key>>
    <3>1. Take(Untold, Driver) = [state |-> Unset, driver |-> Driver, key |-> Unset]
      BY <1>1 DEF Take, Untold
    <3>2. Take([state |-> Unset, driver |-> Driver, key |-> Unset], Number(n))
            = [state |-> Number(n), driver |-> Driver, key |-> Unset]
      BY <1>1 DEF Take
    <3>3. Take([state |-> Number(n), driver |-> Driver, key |-> Unset], key)
            = [state |-> Number(n), driver |-> Driver, key |-> key]
      BY <1>1 DEF Take
    <3> QED
      BY <2>1, <3>1, <3>2, <3>3
  <2>2. CASE fields = <<Number(n), Driver, key>>
    <3>1. Take(Untold, Number(n)) = [state |-> Number(n), driver |-> Unset, key |-> Unset]
      BY <1>1 DEF Take, Untold
    <3>2. Take([state |-> Number(n), driver |-> Unset, key |-> Unset], Driver)
            = [state |-> Number(n), driver |-> Driver, key |-> Unset]
      BY <1>1 DEF Take
    <3>3. Take([state |-> Number(n), driver |-> Driver, key |-> Unset], key)
            = [state |-> Number(n), driver |-> Driver, key |-> key]
      BY <1>1 DEF Take
    <3> QED
      BY <2>2, <3>1, <3>2, <3>3
  <2> QED
    BY <2>1, <2>2
<1> QED
    BY <1>1, <1>2 DEF DirXMLAssociation

LEMMA AssociationStep ==
    ASSUME NEW n, NEW key,
           NEW fields \in {<<Driver, Number(n), key>>, <<Number(n), Driver, key>>},
           Render("association", fields, DirXMLAssociation(fields))
    PROVE  PoliciesAreExact' /\ AssociationsAreReadRight'
<1>1. PoliciesAreExact'
    BY DEF Render, PoliciesAreExact, IsDuration
<1>2. StateOf(fields) = Number(n) /\ fields[3] = key
  <2>1. {fields[1], fields[2]} = {Driver, Number(n)}
    OBVIOUS
  <2>2. Driver.is = "dn" /\ Number(n).is = "number"
    BY DEF Driver, Number
  <2> QED
    BY <2>1, <2>2 DEF StateOf
<1>3. AssociationsAreReadRight'
    BY <1>2, AssociationIsRead DEF Render, AssociationsAreReadRight
<1> QED
    BY <1>1, <1>3

LEMMA RenderInvariant == SpecRender => [](PoliciesAreExact /\ AssociationsAreReadRight)
<1>1. InitRender => PoliciesAreExact /\ AssociationsAreReadRight
    BY DEF InitRender, PoliciesAreExact, AssociationsAreReadRight, IsDuration
<1>2. ASSUME PoliciesAreExact /\ AssociationsAreReadRight, [NextRender]_renderVars
      PROVE  PoliciesAreExact' /\ AssociationsAreReadRight'
  <2>1. CASE Flags
    <3>1. kind' = "flags"
      BY <2>1 DEF Flags, Render
    <3> QED
      BY <3>1 DEF PoliciesAreExact, AssociationsAreReadRight, IsDuration
  <2>2. CASE Interval
    BY <2>2, IntervalIsExact DEF Interval
  <2>3. CASE Association
    BY <2>3, AssociationStep DEF Association
  <2>4. CASE UNCHANGED renderVars
    BY <1>2, <2>4 DEF renderVars, PoliciesAreExact, AssociationsAreReadRight, IsDuration,
       Lasts
  <2> QED
    BY <1>2, <2>1, <2>2, <2>3, <2>4 DEF NextRender
<1> QED
    BY <1>1, <1>2, PTL DEF SpecRender

(* Below the largest integer an interval is shown exactly, in the largest  *)
(* unit that leaves nothing over, whatever the units and the tick are; and *)
(* whatever the key of an association looks like, its state and its driver *)
(* are told apart, in either order.                                        *)
THEOREM RenderingIsTrue == SpecRender => []WordsAreTrue
<1>1. PoliciesAreExact /\ AssociationsAreReadRight => WordsAreTrue
    BY DEF WordsAreTrue
<1> QED
    BY <1>1, RenderInvariant, PTL
-----------------------------------------------------------------------------
LEMMA Power2Runs == Runs(Power2, "double", <<>>, Width)
<1>1. PICK g : Runs(g, "double", <<>>, Width)
    BY LoopRuns, RenderingAssumption
<1>2. \A f : Runs(f, "double", <<>>, Width) <=>
         f = [k \in 0 .. Width |-> IF k = 0 THEN 1 ELSE 2 * f[k - 1]]
    BY DEF Runs, Turn, First
<1>3. g = [k \in 0 .. Width |-> IF k = 0 THEN 1 ELSE 2 * g[k - 1]]
    BY <1>1, <1>2
<1>4. Power2 = [k \in 0 .. Width |-> IF k = 0 THEN 1 ELSE 2 * Power2[k - 1]]
    BY <1>3 DEF Power2
<1> QED
    BY <1>2, <1>4

(* Each power is twice the one before.                                     *)
LEMMA Powers ==
    /\ Width \in Nat \ {0} /\ Power2[0] = 1
    /\ \A k \in 0 .. Width - 1 : Power2[k + 1] = 2 * Power2[k]
<1>1. Width \in Nat \ {0}
    BY RenderingAssumption
<1>2. Power2[0] = 1
    BY <1>1, Power2Runs DEF Runs, First
<1>3. ASSUME NEW k \in 0 .. Width - 1 PROVE Power2[k + 1] = 2 * Power2[k]
  <2>1. k + 1 \in 0 .. Width /\ k + 1 # 0 /\ (k + 1) - 1 = k
    BY <1>1
  <2> QED
    BY <2>1, Power2Runs DEF Runs, Turn
<1> QED
    BY <1>1, <1>2, <1>3

LEMMA PowersArePositive == \A k \in 0 .. Width : Power2[k] \in Nat \ {0}
<1> DEFINE bad == {k \in 0 .. Width : Power2[k] \notin Nat \ {0}}
<1>1. SUFFICES ASSUME bad # {} PROVE FALSE
    OBVIOUS
<1>2. bad \in SUBSET Nat
    OBVIOUS
<1>3. PICK k \in bad : \A j \in bad : k <= j
  <2> HIDE DEF bad
  <2> QED
    BY <1>1, <1>2, LeastOf
<1>4. k \in 0 .. Width /\ Power2[k] \notin Nat \ {0} /\ Width \in Nat
    BY <1>3, Powers
<1>5. k # 0
    BY <1>4, Powers
<1>6. k - 1 \in 0 .. Width - 1 /\ k - 1 \in 0 .. Width /\ (k - 1) + 1 = k
    BY <1>4, <1>5
<1>7. k - 1 \notin bad
    BY <1>3, <1>6
<1>8. Power2[k - 1] \in Nat \ {0}
    BY <1>6, <1>7
<1>9. Power2[(k - 1) + 1] = 2 * Power2[k - 1]
    BY <1>6, Powers
<1>10. \A x \in Nat \ {0} : 2 * x \in Nat \ {0}
    OBVIOUS
<1> QED
    BY <1>4, <1>6, <1>8, <1>9, <1>10

LEMMA PowersDivide ==
    ASSUME NEW i0 \in Nat, NEW k0 \in 0 .. Width, i0 < k0
    PROVE  \E m \in Nat : Power2[k0] = Power2[i0] * (2 * m)
<1> DEFINE bad == {k \in 0 .. Width :
                     i0 < k /\ ~\E m \in Nat : Power2[k] = Power2[i0] * (2 * m)}
<1>1. SUFFICES ASSUME bad # {} PROVE FALSE
    OBVIOUS
<1>2. bad \in SUBSET Nat
    OBVIOUS
<1>3. PICK k \in bad : \A j \in bad : k <= j
  <2> HIDE DEF bad
  <2> QED
    BY <1>1, <1>2, LeastOf
<1>4. k \in 0 .. Width /\ i0 < k /\ ~\E m \in Nat : Power2[k] = Power2[i0] * (2 * m)
    BY <1>3
<1>5. /\ Width \in Nat /\ k - 1 \in 0 .. Width - 1 /\ k - 1 \in 0 .. Width
      /\ (k - 1) + 1 = k /\ i0 <= k - 1
    BY <1>4, Powers
<1>6. Power2[k] = 2 * Power2[k - 1]
  <2>1. Power2[(k - 1) + 1] = 2 * Power2[k - 1]
    BY <1>5, Powers
  <2> QED
    BY <1>5, <2>1
<1>7. CASE i0 = k - 1
  <2>1. Power2[k - 1] \in Nat
    BY <1>5, PowersArePositive
  <2>2. Power2[k] = Power2[i0] * (2 * 1)
    BY <1>6, <1>7, <2>1
  <2> QED
    BY <1>4, <2>2
<1>8. CASE i0 # k - 1
  <2>1. i0 < k - 1 /\ ~(k <= k - 1)
    BY <1>4, <1>5, <1>8
  <2>2. k - 1 \notin bad
    BY <1>3, <2>1
  <2>3. PICK m \in Nat : Power2[k - 1] = Power2[i0] * (2 * m)
    BY <1>5, <2>1, <2>2
  <2>4. Power2[i0] \in Nat
    <3>1. i0 \in 0 .. Width
      BY <1>4, <1>5
    <3> QED
      BY <3>1, PowersArePositive
  <2>5. 2 * (Power2[i0] * (2 * m)) = Power2[i0] * (2 * (2 * m))
    BY <2>4
  <2>6. 2 * m \in Nat /\ Power2[k] = Power2[i0] * (2 * (2 * m))
    BY <1>6, <2>3, <2>5
  <2> QED
    BY <1>4, <2>6
<1> QED
    BY <1>7, <1>8

-----------------------------------------------------------------------------
(* A bit above those of x makes no difference to them.                     *)
LEMMA LowBitsStay ==
    ASSUME NEW x \in Nat, NEW p \in Nat \ {0}, NEW m \in Nat
    PROVE  Has(x + p * (2 * m), p) <=> Has(x, p)
<1> DEFINE q == x \div p
<1>1. q \in Nat /\ x % p \in 0 .. p - 1 /\ x = p * q + (x % p)
    OBVIOUS
<1>2. x + p * (2 * m) = p * (q + 2 * m) + (x % p)
  <2>1. p * (q + 2 * m) = p * q + p * (2 * m)
    BY <1>1
  <2> QED
    BY <1>1, <2>1
<1>3. (x + p * (2 * m)) \div p = q + 2 * m
  <2> DEFINE r == x % p
             c == q + 2 * m
  <2>1. c \in Nat /\ r \in 0 .. p - 1
    BY <1>1
  <2> HIDE DEF r, c
  <2>2. (p * c + r) \div p = c
    BY <2>1
  <2> QED
    BY <1>2, <2>2 DEF r, c
<1> HIDE DEF q
<1>4. (q + 2 * m) % 2 = q % 2
    BY <1>1
<1> QED
    BY <1>3, <1>4 DEF Has, q

LEMMA TopBitIs ==
    ASSUME NEW x \in Nat, NEW p \in Nat \ {0}, x < p
    PROVE  Has(x + p, p) /\ ~Has(x, p)
<1>1. x \div p = 0 /\ (x + p) \div p = 1
    OBVIOUS
<1> QED
    BY <1>1 DEF Has

(* A loop that adds the bits of S, k of them tried so far.                 *)
Added(f, S) == Runs(f, "add", S, Width)

LEMMA WordRuns == ASSUME NEW S PROVE \E f : Added(f, S) /\ WordOf(S) = f[Width]
<1>1. PICK g : Runs(g, "add", S, Width)
    BY LoopRuns, RenderingAssumption
<1>2. \A f : Runs(f, "add", S, Width) <=>
         f = [k \in 0 .. Width |->
                IF k = 0 THEN 0
                ELSE f[k - 1] + IF Power2[k - 1] \in S THEN Power2[k - 1] ELSE 0]
    BY DEF Runs, Turn, First
<1>3. g = [k \in 0 .. Width |->
             IF k = 0 THEN 0
             ELSE g[k - 1] + IF Power2[k - 1] \in S THEN Power2[k - 1] ELSE 0]
    BY <1>1, <1>2
<1>4. PICK f : /\ f = [k \in 0 .. Width |->
                         IF k = 0 THEN 0
                         ELSE f[k - 1] + IF Power2[k - 1] \in S THEN Power2[k - 1] ELSE 0]
               /\ WordOf(S) = f[Width]
    BY <1>3 DEF WordOf
<1> QED
    BY <1>2, <1>4 DEF Added

LEMMA AddStep ==
    ASSUME NEW f, NEW S, Added(f, S), NEW k \in 0 .. Width - 1
    PROVE  f[0] = 0 /\ f[k + 1] = f[k] + IF Power2[k] \in S THEN Power2[k] ELSE 0
<1>1. Width \in Nat
    BY RenderingAssumption
<1>2. 0 \in 0 .. Width /\ k + 1 \in 0 .. Width /\ k + 1 # 0 /\ (k + 1) - 1 = k
    BY <1>1
<1> QED
    BY <1>2 DEF Added, Runs, Turn, First

(* The first k bits of x are those of S, and no other bit of x is set.     *)
Holds(x, S, k) ==
    /\ x \in Nat /\ x < Power2[k]
    /\ \A j \in 0 .. k - 1 : Has(x, Power2[j]) <=> Power2[j] \in S

LEMMA HoldsNext ==
    ASSUME NEW x, NEW y, NEW S, NEW k \in 0 .. Width - 1, Holds(x, S, k),
           y = x + IF Power2[k] \in S THEN Power2[k] ELSE 0
    PROVE  Holds(y, S, k + 1)
<1> DEFINE p == Power2[k]
<1>1. Width \in Nat /\ k \in Nat /\ k \in 0 .. Width /\ Power2[k + 1] = 2 * p
    BY Powers
<1>2. p \in Nat \ {0} /\ x \in Nat /\ x < p
    BY <1>1, PowersArePositive DEF Holds
<1>3. ASSUME NEW j \in 0 .. k PROVE Has(y, Power2[j]) <=> Power2[j] \in S
  <2>1. CASE j = k
    <3>1. Has(x + p, p) /\ ~Has(x, p) /\ x + 0 = x
      BY <1>2, TopBitIs
    <3> QED
      BY <2>1, <3>1
  <2>2. CASE j # k
    <3>1. j \in Nat /\ j < k /\ j \in 0 .. k - 1 /\ j \in 0 .. Width
      BY <1>1, <2>2
    <3>2. Has(x, Power2[j]) <=> Power2[j] \in S
      BY <3>1 DEF Holds
    <3>3. PICK m \in Nat : p = Power2[j] * (2 * m)
      BY <1>1, <3>1, PowersDivide
    <3>4. Power2[j] \in Nat \ {0}
      BY <3>1, PowersArePositive
    <3>5. Has(x + p, Power2[j]) <=> Has(x, Power2[j])
      BY <1>2, <3>3, <3>4, LowBitsStay
    <3>6. x + 0 = x
      BY <1>2
    <3> QED
      BY <3>2, <3>5, <3>6
  <2> QED
    BY <2>1, <2>2
<1>4. y \in Nat /\ y < 2 * p
  <2> HIDE DEF p
  <2>1. y = x + p \/ y = x + 0
    BY DEF p
  <2> QED
    BY <1>2, <2>1
<1>5. (k + 1) - 1 = k
    BY <1>1
<1> QED
    BY <1>1, <1>3, <1>4, <1>5 DEF Holds

LEMMA WordHas ==
    ASSUME NEW S, NEW b \in Bits
    PROVE  Has(WordOf(S), b) <=> b \in S
<1>1. PICK f : Added(f, S) /\ WordOf(S) = f[Width]
    BY WordRuns
<1>2. Width \in Nat \ {0} /\ Power2[0] = 1
    BY Powers
<1> DEFINE bad == {k \in 0 .. Width : ~Holds(f[k], S, k)}
<1>3. bad = {}
  <2>1. SUFFICES ASSUME bad # {} PROVE FALSE
    OBVIOUS
  <2>2. bad \in SUBSET Nat
    OBVIOUS
  <2>3. PICK k \in bad : \A j \in bad : k <= j
    <3> HIDE DEF bad
    <3> QED
      BY <2>1, <2>2, LeastOf
  <2>4. k \in 0 .. Width /\ ~Holds(f[k], S, k)
    BY <2>3
  <2>5. k # 0
    <3>1. 0 \in 0 .. Width - 1
      BY <1>2
    <3>2. f[0] = 0
      BY <1>1, <3>1, AddStep
    <3>3. \A j \in 0 .. 0 - 1 : FALSE
      OBVIOUS
    <3>4. Holds(0, S, 0)
      BY <1>2, <3>3 DEF Holds
    <3> QED
      BY <2>4, <3>2, <3>4
  <2>6. k - 1 \in 0 .. Width - 1 /\ k - 1 \in 0 .. Width /\ (k - 1) + 1 = k /\ ~(k <= k - 1)
    BY <1>2, <2>4, <2>5
  <2>7. Holds(f[k - 1], S, k - 1)
    BY <2>3, <2>6
  <2> DEFINE l == k - 1
  <2> HIDE DEF l
  <2>8. l \in 0 .. Width - 1 /\ l + 1 = k /\ Holds(f[l], S, l)
    BY <2>6, <2>7 DEF l
  <2>9. f[l + 1] = f[l] + IF Power2[l] \in S THEN Power2[l] ELSE 0
    BY <1>1, <2>8, AddStep
  <2>10. Holds(f[l + 1], S, l + 1)
    BY <2>8, <2>9, HoldsNext
  <2> QED
    BY <2>4, <2>8, <2>10
<1>4. Holds(f[Width], S, Width)
  <2>1. Width \in 0 .. Width
    BY <1>2
  <2> QED
    BY <1>3, <2>1
<1> QED
    BY <1>1, <1>4 DEF Holds, Bits

LEMMA FlagsAreShown ==
    ASSUME NEW n, NEW table
    PROVE  /\ n \in -Power2[Width - 1] .. Power2[Width] - 1 => BitField(n, table) # Unrendered
           /\ BitField(n, table) # Unrendered =>
                \A b \in Bits : Has(n % Power2[Width], b) <=>
                    b \in BitField(n, table)[1] \/ Has(BitField(n, table)[2], b)
<1> DEFINE w == n % Power2[Width]
           set == {b \in Bits : Has(w, b)}
<1>1. NamedBits(w, table) = <<set \cap table, WordOf(set \ table)>>
    BY DEF NamedBits
<1>2. NamedBits(w, table) # Unrendered
    BY <1>1 DEF Unrendered
<1>3. \A b \in Bits : Has(w, b) <=> b \in set \cap table \/ Has(WordOf(set \ table), b)
    BY WordHas
<1>4. n \in -Power2[Width - 1] .. Power2[Width] - 1 => BitField(n, table) = NamedBits(w, table)
  <2>1. Power2[Width - 1] \in Int /\ Power2[Width] \in Int
    <3>1. Width - 1 \in 0 .. Width /\ Width \in 0 .. Width
      BY RenderingAssumption
    <3> QED
      BY <3>1, PowersArePositive
  <2> QED
    BY <2>1 DEF BitField
<1>5. BitField(n, table) # Unrendered => BitField(n, table) = NamedBits(w, table)
    BY DEF BitField
<1> HIDE DEF w, set
<1>6. BitField(n, table) # Unrendered =>
        /\ BitField(n, table)[1] = set \cap table
        /\ BitField(n, table)[2] = WordOf(set \ table)
    BY <1>1, <1>5
<1>7. BitField(n, table) # Unrendered =>
        \A b \in Bits : Has(w, b) <=>
            b \in BitField(n, table)[1] \/ Has(BitField(n, table)[2], b)
    BY <1>3, <1>6
<1> QED
    BY <1>2, <1>4, <1>7 DEF w

(* However wide the word is, and whichever of its bits have a name, a flag *)
(* word is shown with every bit that is set and none that is not.          *)
THEOREM NoBitIsLost == SpecRender => []EveryBitIsShown
<1>1. InitRender => EveryBitIsShown
    BY DEF InitRender, EveryBitIsShown
<1>2. ASSUME EveryBitIsShown, [NextRender]_renderVars PROVE EveryBitIsShown'
  <2>1. CASE Flags
    <3>1. PICK n \in -Power2[Width] .. 2 * Power2[Width], table \in Tables :
              kind' = "flags" /\ value' = <<n, table>> /\ shown' = BitField(n, table)
      BY <2>1 DEF Flags, Render
    <3>2. value'[1] = n
      BY <3>1
    <3> QED
      BY <3>1, <3>2, FlagsAreShown DEF EveryBitIsShown
  <2>2. CASE Interval \/ Association
    <3>1. kind' # "flags"
      BY <2>2 DEF Interval, Association, Render
    <3> QED
      BY <3>1 DEF EveryBitIsShown
  <2>3. CASE UNCHANGED renderVars
    BY <1>2, <2>3 DEF renderVars, EveryBitIsShown
  <2> QED
    BY <1>2, <2>1, <2>2, <2>3 DEF NextRender
<1> QED
    BY <1>1, <1>2, PTL DEF SpecRender
=============================================================================
