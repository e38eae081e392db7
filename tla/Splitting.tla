------------------------------ MODULE Splitting ------------------------------
(***************************************************************************)
(* SplitDN (internal/ldapx/entry.go): one pass over a DN that cuts it at   *)
(* the commas no backslash escapes and trims blanks off the pieces.        *)
(* Other functions on DNs, PathFrom among them, join some of the pieces    *)
(* with commas, and the result is split another time.                      *)
(***************************************************************************)
EXTENDS Naturals, Sequences, FiniteSets, SequencesExt

CONSTANTS Letters,                   \* characters that mean nothing here
          Comma, Backslash, Space,
          MaxLen                     \* bound: characters in a DN

Chars == Letters \cup {Comma, Backslash, Space}

ASSUME SplittingAssumption ==
    /\ Cardinality({Comma, Backslash, Space} \cup Letters) = 3 + Cardinality(Letters)
    /\ MaxLen \in Nat

VARIABLES dn, i, start, esc, parts,  \* SplitDN's, before they have their
          done                       \* last step

splitVars == <<dn, i, start, esc, parts, done>>

-----------------------------------------------------------------------------
(* strings.TrimSpace, to which an escaped blank is a blank.                *)
TrimSpace(s) ==
    LET ink == {k \in DOMAIN s : s[k] # Space}
    IN  SubSeq(s, CHOOSE k \in ink \cup {1} : \A m \in ink : k <= m,
                  CHOOSE k \in ink \cup {0} : \A m \in ink : k >= m)

(* What the grammar of DNs says: a character after an odd run of           *)
(* backslashes is escaped, and a bare comma ends a component.              *)
Escaped(s, k) ==
    Cardinality({m \in 1 .. k - 1 : \A n \in m .. k - 1 : s[n] = Backslash}) % 2 = 1
Ends(s)  == {k \in DOMAIN s : s[k] = Comma /\ ~Escaped(s, k)} \cup {Len(s) + 1}
Piece(s, end) ==
    LET before == {k \in Ends(s) \cup {0} : k < end}
    IN  SubSeq(s, (CHOOSE k \in before : \A m \in before : k >= m) + 1, end - 1)
Pieces(s) == [n \in 1 .. Cardinality(Ends(s)) |->
    Piece(s, CHOOSE k \in Ends(s) : Cardinality({m \in Ends(s) : m <= k}) = n)]

(* A DN as servers write them: no component is empty or begins or ends     *)
(* with a bare blank, and no backslash is the last character.              *)
IsName(s) ==
    /\ ~Escaped(s, Len(s) + 1)
    /\ \A n \in DOMAIN Pieces(s) : LET p == Pieces(s)[n] IN
          p # <<>> /\ p[1] # Space /\ (p[Len(p)] = Space => Escaped(p, Len(p)))

Joined(ps) == FlattenSeq([n \in DOMAIN ps |-> IF n = 1 THEN ps[n] ELSE <<Comma>> \o ps[n]])

-----------------------------------------------------------------------------
InitSplit ==
    /\ \E n \in 1 .. MaxLen, s \in [1 .. MaxLen -> Chars] :
          dn = TrimSpace(SubSeq(s, 1, n)) /\ dn # <<>>
    /\ i = 1 /\ start = 1 /\ esc = FALSE /\ parts = <<>> /\ done = FALSE

(* A slip: an escaped backslash escapes what follows.                      *)
ScanForgetfully ==
    /\ i <= Len(dn)
    /\ i' = i + 1
    /\ IF dn[i] = Backslash THEN esc' = TRUE /\ UNCHANGED <<start, parts>>
       ELSE /\ esc' = FALSE
            /\ IF dn[i] = Comma /\ ~esc
               THEN /\ parts' = Append(parts, TrimSpace(SubSeq(dn, start, i - 1)))
                    /\ start' = i + 1
               ELSE UNCHANGED <<start, parts>>
    /\ UNCHANGED <<dn, done>>

(* The body of the loop.                                                   *)
Scan ==
    /\ i <= Len(dn)
    /\ i' = i + 1
    /\ esc' = (~esc /\ dn[i] = Backslash)
    /\ IF ~esc /\ dn[i] = Comma
       THEN /\ parts' = Append(parts, TrimSpace(SubSeq(dn, start, i - 1)))
            /\ start' = i + 1
       ELSE UNCHANGED <<start, parts>>
    /\ UNCHANGED <<dn, done>>

Return ==
    /\ i > Len(dn) /\ ~done
    /\ parts' = Append(parts, TrimSpace(SubSeq(dn, start, Len(dn))))
    /\ done' = TRUE
    /\ UNCHANGED <<dn, i, start, esc>>

NextSplit == Scan \/ Return

SpecSplit == InitSplit /\ [][NextSplit]_splitVars

-----------------------------------------------------------------------------
TypeOKSplit ==
    /\ dn \in Seq(Chars) /\ i \in 1 .. Len(dn) + 1 /\ start \in 1 .. i
    /\ parts \in Seq(Seq(Chars))
    /\ esc \in BOOLEAN /\ done \in BOOLEAN

(* The components SplitDN returns are those of the grammar, trimmed.       *)
SplitsAtBareCommas ==
    done => parts = [n \in DOMAIN Pieces(dn) |-> TrimSpace(Pieces(dn)[n])]

SplitOK == TypeOKSplit /\ SplitsAtBareCommas

(* entry.go:199 on PathFrom: "the chain of DNs from base down to dn        *)
(* inclusive", which joins what SplitDN returned: joined whole and split   *)
(* again, the pieces of a name are the same.                               *)
PathsEndAtTheEntry ==
    done /\ IsName(dn) =>
        LET again == Pieces(Joined(parts))
        IN  parts = [n \in DOMAIN again |-> TrimSpace(again[n])]
=============================================================================
