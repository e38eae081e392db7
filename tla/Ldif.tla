-------------------------------- MODULE Ldif --------------------------------
(***************************************************************************)
(* An LDIF document as it is written (internal/ldif/ldif.go: WriteEntry,   *)
(* writeAttr, needsBase64, fold, safeAttrName, Comment), line by line, and *)
(* what a reader of RFC 2849 makes of it; the header is the one runExport  *)
(* (internal/ui/app.go) puts before it. A value is a sequence of           *)
(* characters, of which only those the format treats apart are told apart. *)
(***************************************************************************)
EXTENDS Naturals, Sequences, FiniteSets, SequencesExt, FiniteSetsExt

CONSTANTS Value,      \* values, sequences of Char
          Name,       \* attribute names, sequences of Char
          Exported,   \* bound: the values that are the DN of an export
          LineWidth,
          MaxAttrs    \* bound: dn lines and attribute values written

\* ^ is a control character, ~ one that is not ASCII, v stands for the words
\* "version: 1" and \ for any escape that %q writes.
Char == {"a", "-", " ", ":", "<", "#", "\n", "^", "~", "v", "\\"}

DN == <<"-">>       \* the name "dn", which no attribute has

ASSUME LdifAssumption ==
    /\ Value \subseteq Seq(Char) /\ Name \subseteq Seq(Char) \ {DN}
    /\ Exported \subseteq Seq(Char)
    /\ LineWidth \in Nat \ {0, 1} /\ MaxAttrs \in Nat

VARIABLES
    doc,      \* the lines written
    header,   \* how many of them head the document as comments
    given,    \* the entries they were written for: their dn and attributes
    dropped,  \* attributes with a name that cannot be written
    unfinished  \* the last entry is

ldifVars == <<doc, header, given, dropped, unfinished>>

InitLdif ==
    /\ doc = <<>> /\ header = 0 /\ given = <<>>
    /\ dropped = 0 /\ unfinished = FALSE

-----------------------------------------------------------------------------
(* A character of a line is one of the text itself, or the i-th of the     *)
(* base64 form of v.                                                       *)
Literal(s) == [i \in DOMAIN s |-> <<<<s[i]>>, 0>>]
Base64(v)  == [i \in 1 .. 4 * ((Len(v) + 2) \div 3) |-> <<v, i>>]

SafeAttrName(n) == n # <<>> /\ ToSet(n) \subseteq {"a", "-"}

NeedsBase64(v) ==
    /\ v # <<>>
    /\ \/ v[1] \in {" ", ":", "<"}
       \/ v[Len(v)] = " "
       \/ ToSet(v) \cap {"\n", "^", "~"} # {}

(* At most n characters of line after the i-th, on a line of their own.    *)
Continuation(line, i, n) ==
    Literal(<<" ">>) \o SubSeq(line, i + 1, Min({i + n, Len(line)}))

(* A slip: a last line that is not full is forgotten.                      *)
FoldToTheLastFull(line) ==
    IF Len(line) <= LineWidth THEN <<line>>
    ELSE <<SubSeq(line, 1, LineWidth)>> \o
         [k \in 1 .. (Len(line) - 1) \div (LineWidth - 1) - 1 |->
             Continuation(line, LineWidth + (k - 1) * (LineWidth - 1), LineWidth - 1)]

(* A slip: the space is not counted.                                       *)
FoldWithoutTheSpace(line) ==
    IF Len(line) <= LineWidth THEN <<line>>
    ELSE <<SubSeq(line, 1, LineWidth)>> \o
         [k \in 1 .. (Len(line) - 1) \div LineWidth |->
             Continuation(line, k * LineWidth, LineWidth)]

(* fold: the first line is LineWidth long, a continuation as many          *)
(* characters with the space it starts with.                               *)
FoldLine(line) ==
    IF Len(line) <= LineWidth THEN <<line>>
    ELSE <<SubSeq(line, 1, LineWidth)>> \o
         [k \in 1 .. (Len(line) - 2) \div (LineWidth - 1) |->
             Continuation(line, LineWidth + (k - 1) * (LineWidth - 1), LineWidth - 1)]

WriteAttr(n, v) ==
    FoldLine(IF NeedsBase64(v) THEN Literal(n \o <<":", ":", " ">>) \o Base64(v)
                           ELSE Literal(n \o <<":", " ">>) \o Literal(v))

(* strings.Split at line breaks: how many there are up to the i-th         *)
(* character, and what is after the k-th and before the next.              *)
Breaks(text, i) == Cardinality({j \in 1 .. i : text[j] = "\n"})

SplitLines(text) ==
    [k \in 1 .. Breaks(text, Len(text)) + 1 |->
        LET at == {i \in DOMAIN text : text[i] # "\n" /\ Breaks(text, i) = k - 1}
        IN  IF at = {} THEN <<>> ELSE SubSeq(text, Min(at), Max(at))]

(* Any text, every line of it marked.                                      *)
Comment(text) ==
    LET lines == SplitLines(text)
    IN  [k \in DOMAIN lines |-> Literal(<<"#", " ">> \o lines[k])]

(* A slip: %s, as in the header.                                           *)
QuotedNot(n) == n

(* %q writes a control character as an escape.                             *)
Quoted(n) == [i \in DOMAIN n |-> IF n[i] \in {"\n", "^"} THEN "\\" ELSE n[i]]

Separator == <<<<>>>>
Version   == <<Literal(<<"v">>)>> \o Separator

-----------------------------------------------------------------------------
Written == FoldLeft(LAMBDA n, e : n + 1 + Len(e.attrs), 0, given)

(* runExport: where the document comes from, v being the DN of what is     *)
(* exported, written with %s; and the first line of WriteEntries. A copy   *)
(* to the clipboard has neither.                                           *)
WriteHeader(v) ==
    /\ doc = <<>>
    /\ LET says == Comment(<<"a", "\n">> \o v \o <<"\n", "a">>)
       IN  /\ doc' = says \o Separator \o Version
           /\ header' = Len(says)
    /\ UNCHANGED <<given, dropped, unfinished>>

(* WriteEntry: the dn line.                                                *)
WriteDN(v) ==
    /\ ~unfinished /\ Written < MaxAttrs
    /\ unfinished' = TRUE
    /\ doc' = doc \o WriteAttr(DN, v)
    /\ given' = Append(given, [dn |-> v, attrs |-> <<>>])
    /\ UNCHANGED <<header, dropped>>

(* One value of an attribute.                                              *)
WriteValue(n, v) ==
    /\ unfinished /\ Written < MaxAttrs
    /\ SafeAttrName(n)
    /\ doc' = doc \o WriteAttr(n, v)
    /\ given' = [given EXCEPT ![Len(given)].attrs = Append(@, <<n, v>>)]
    /\ UNCHANGED <<header, dropped, unfinished>>

(* An attribute whose name cannot be written is said to be missing.        *)
Drop(n) ==
    /\ unfinished /\ dropped < MaxAttrs
    /\ ~SafeAttrName(n)
    /\ dropped' = dropped + 1
    /\ doc' = doc \o Comment(<<"a">> \o Quoted(n))
    /\ UNCHANGED <<header, given, unfinished>>

(* The blank line that separates records.                                  *)
EndEntry ==
    /\ unfinished
    /\ unfinished' = FALSE
    /\ doc' = doc \o Separator
    /\ UNCHANGED <<header, given, dropped>>

NextLdif ==
    \/ \E v \in Exported : WriteHeader(v)
    \/ \E v \in Value : WriteDN(v)
    \/ \E n \in Name : Drop(n) \/ \E v \in Value : WriteValue(n, v)
    \/ EndEntry

SpecLdif == InitLdif /\ [][NextLdif]_ldifVars

-----------------------------------------------------------------------------
(* The reader of RFC 2849. Continuations are joined, ...                   *)
Starts(line, c) == line # <<>> /\ line[1] = Literal(<<c>>)[1]

Join(lines, line) ==
    IF Starts(line, " ") /\ lines # <<>>
    THEN [lines EXCEPT ![Len(lines)] = @ \o Tail(line)]
    ELSE Append(lines, line)

Unfold(lines) ==
    LET joined[k \in 0 .. Len(lines)] ==
            IF k = 0 THEN <<>> ELSE Join(joined[k - 1], lines[k])
    IN  joined[Len(lines)]

(* ... a name ends at the first colon and a second one announces base64,   *)
(* and what follows a blank line is the dn of the next entry.              *)
Colons(line) == {i \in DOMAIN line : line[i] = Literal(<<":">>)[1]}

Text(chars) == [i \in DOMAIN chars |-> chars[i][1][1]]

ValueOf(line, i) ==
    IF i + 1 \in Colons(line)
    THEN IF Len(line) < i + 3 THEN <<"?">>
         ELSE LET v == line[i + 3][1]
              IN  IF SubSeq(line, i + 3, Len(line)) = Base64(v) THEN v ELSE <<"?">>
    ELSE LET rest == SubSeq(line, i + 1, Len(line))
             text == {j \in DOMAIN rest : rest[j] # Literal(<<" ">>)[1]}
         IN  IF text = {} THEN <<>> ELSE Text(SubSeq(rest, Min(text), Len(rest)))

ReadLine(entries, line) ==
    IF line = <<>> \/ Starts(line, "#") \/ Starts(line, "v") THEN entries
    ELSE LET i    == Min(Colons(line))
             name == Text(SubSeq(line, 1, i - 1))
             v    == ValueOf(line, i)
         IN  IF name = DN THEN Append(entries, [dn |-> v, attrs |-> <<>>])
             ELSE [entries EXCEPT ![Len(entries)].attrs = Append(@, <<name, v>>)]

Entries(lines) ==
    LET read[k \in 0 .. Len(lines)] ==
            IF k = 0 THEN <<>> ELSE ReadLine(read[k - 1], lines[k])
    IN  read[Len(lines)]

(* What was written can be read back: every entry, every value and none    *)
(* other, whatever characters they start, end and continue with.           *)
ReadsBack == Entries(Unfold(doc)) = given

(* "it was dropped instead of letting it through or losing it silently":   *)
(* one comment says so for every attribute that is missing, and there are  *)
(* no others but the header's.                                             *)
Comments(lines) == {k \in DOMAIN lines : Starts(lines[k], "#")}
DropsAreSaid == Cardinality(Comments(Unfold(doc))) = header + dropped

(* "LineWidth is where RFC 2849 folds a long line": no line but a comment  *)
(* is longer; no character breaks a line in two; what is not ASCII is in   *)
(* comments alone; and a control character is in none but the header's,    *)
(* where the DN of what is exported is written as it is.                   *)
IsFit(line, heads) ==
    /\ Len(line) <= LineWidth \/ Starts(line, "#")
    /\ \A i \in DOMAIN line : line[i][2] = 0 =>
           /\ line[i][1][1] # "\n"
           /\ line[i][1][1] = "~" => Starts(line, "#")
           /\ line[i][1][1] = "^" => heads

LinesAreFit == \A k \in DOMAIN doc : IsFit(doc[k], k <= header)

(* "A DN comes through here too, and a directory is free to put an escape  *)
(* sequence in one; an LDIF that is copied to the clipboard and pasted     *)
(* into a terminal should not carry it" (needsBase64), and an export       *)
(* should not either (CHANGELOG.md): no control character is written as it *)
(* is. It is in the header of an export (a run shows it).                  *)
NoEscapeSequences ==
    \A k \in DOMAIN doc : \A i \in DOMAIN doc[k] :
        doc[k][i][2] = 0 => doc[k][i][1][1] # "^"

(* The document means what was exported, and says what is missing.         *)
DocumentIsSound == ReadsBack /\ DropsAreSaid
=============================================================================
