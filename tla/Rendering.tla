----------------------------- MODULE Rendering ------------------------------
(***************************************************************************)
(* How attribute values that are numbers, or fields run together, are put  *)
(* into words (ldapx/attr.go: bitField, namedBits, formatFiletimeInterval, *)
(* formatSecondsInterval, humanDuration; attr_edir.go:                     *)
(* formatDirXMLAssociation). Numbers have the width they have in the code, *)
(* scaled down: what matters is where they wrap. A rendering is the        *)
(* meaning it conveys, Unrendered when the value is left as it is.         *)
(***************************************************************************)
EXTENDS Integers, Sequences, SequencesExt, FiniteSetsExt

CONSTANTS Width,    \* bits of a flag word: 32
          Tables,   \* flag tables: sets of bits that have a name
          WordMax,  \* the largest int64
          Tick,     \* a FILETIME tick, in nanoseconds
          Units,    \* a day, an hour, a minute and a second, in nanoseconds
          States,   \* association states that have a name: 0 .. 5
          Key       \* the third field of an association: fields, see below

(* The bits of a flag word, by their values; 2^i, written as a recursion.   *)
Power2[i \in 0 .. Width] == IF i = 0 THEN 1 ELSE 2 * Power2[i - 1]
Bits == {Power2[i] : i \in 0 .. Width - 1}

ASSUME RenderingAssumption ==
    /\ Width \in Nat \ {0} /\ WordMax \in Nat \ {0} /\ Tick \in Nat \ {0}
    /\ \A t \in Tables : t \subseteq Bits
    /\ Units \in Seq(Nat \ {0}) /\ Units # <<>>

VARIABLES
    kind,    \* what was rendered last: "flags", "ticks", "seconds" or "association"
    value,   \* its value
    shown    \* the rendering

renderVars == <<kind, value, shown>>

(* A rendering is a tuple of the parts it has.                             *)
Unrendered == <<>>

InitRender == kind = "none" /\ value = <<>> /\ shown = Unrendered

Render(k, v, r) == kind' = k /\ value' = v /\ shown' = r

-----------------------------------------------------------------------------
Has(v, bit) == (v \div bit) % 2 = 1

(* A slip: bits without a name are forgotten.                              *)
NamedBitsAlone(v, table) == <<{b \in table : Has(v, b)}, 0>>

(* The number in which the bits of S are set and no others.                *)
WordOf(S) ==
    LET sum[i \in 0 .. Width] ==
            IF i = 0 THEN 0
            ELSE sum[i - 1] + IF Power2[i - 1] \in S THEN Power2[i - 1] ELSE 0
    IN  sum[Width]

(* namedBits: the bits that have a name, the others as one number.         *)
NamedBits(v, table) ==
    LET set == {b \in Bits : Has(v, b)}
    IN  <<set \cap table, WordOf(set \ table)>>

(* bitField: the number may be written signed or unsigned.                 *)
BitField(n, table) ==
    IF n < -Power2[Width - 1] \/ n >= Power2[Width] THEN Unrendered
    ELSE NamedBits(n % Power2[Width], table)

Flags == \E n \in -Power2[Width] .. 2 * Power2[Width], table \in Tables :
             Render("flags", <<n, table>>, BitField(n, table))

-----------------------------------------------------------------------------
Int64 == -WordMax - 1 .. WordMax
Wrap(n) == ((n + WordMax + 1) % (2 * (WordMax + 1))) - WordMax - 1

In(d, unit) == <<d \div unit, unit>>

(* A slip: the largest unit that fits.                                     *)
HumanDurationRounded(d) ==
    LET big == {u \in ToSet(Units) : u <= d} \cup {Units[Len(Units)]}
    IN  In(d, Max(big))

(* humanDuration: the largest unit that leaves no remainder, else d itself.*)
HumanDuration(d) ==
    LET exact == {u \in ToSet(Units) : d % u = 0}
    IN  In(d, IF exact = {} THEN 1 ELSE Max(exact))

(* formatFiletimeInterval: negative ticks, int64's minimum being "never".  *)
FiletimeInterval(n) ==
    CASE n = -WordMax - 1 -> <<"never">>
      [] n = 0 -> <<"not set">>
      [] n > 0 -> Unrendered
      [] OTHER -> HumanDuration(Wrap(-n * Tick))

(* formatSecondsInterval.                                                  *)
SecondsInterval(n) ==
    CASE n < 0 -> Unrendered
      [] n = 0 -> <<"not set">>
      [] OTHER -> HumanDuration(Wrap(n * Units[Len(Units)]))

Interval == \E n \in Int64 :
                \/ Render("ticks", n, FiletimeInterval(n))
                \/ Render("seconds", n, SecondsInterval(n))

-----------------------------------------------------------------------------
(* A field of an association is a number, something with a "=" in it or    *)
(* some other text.                                                        *)
Number(n)  == [is |-> "number", of |-> n]
Driver     == [is |-> "dn", of |-> 0]
Unset      == [is |-> "unset", of |-> 0]

IsState(p) == p.is = "number" /\ p.of \in States

(* A slip: the state is the last field that could be one.                  *)
TakeTheLast(got, p) ==
    CASE IsState(p) -> [got EXCEPT !.state = p]
      [] got.driver = Unset /\ p.is = "dn" -> [got EXCEPT !.driver = p]
      [] OTHER -> [got EXCEPT !.key = p]

(* The loop of formatDirXMLAssociation: fields are told apart by shape.    *)
Take(got, p) ==
    CASE got.state = Unset /\ IsState(p) -> [got EXCEPT !.state = p]
      [] got.driver = Unset /\ p.is = "dn" -> [got EXCEPT !.driver = p]
      [] OTHER -> [got EXCEPT !.key = p]

Untold == [state |-> Unset, driver |-> Unset, key |-> Unset]

(* There are three fields, or the value is left as it is.                  *)
DirXMLAssociation(parts) ==
    LET got == Take(Take(Take(Untold, parts[1]), parts[2]), parts[3])
    IN  IF got.state = Unset \/ got.driver = Unset THEN Unrendered ELSE <<got.state, got.driver, got.key>>

(* "References disagree about which order the first two come in"; a state  *)
(* may be one the table does not name.                                     *)
Association ==
    \E n \in States \cup {Max(States) + 1}, key \in Key :
        \E parts \in {<<Driver, Number(n), key>>, <<Number(n), Driver, key>>} :
            Render("association", parts, DirXMLAssociation(parts))

NextRender == Flags \/ Interval \/ Association

SpecRender == InitRender /\ [][NextRender]_renderVars

-----------------------------------------------------------------------------
(* "A bit nobody has named is still a bit that is set": whichever way the  *)
(* word is written, every bit of it is shown and none that is not set, and *)
(* a word with its top bit set is the same word with a sign or without.    *)
EveryBitIsShown ==
    kind = "flags" =>
        LET n == value[1] IN
        /\ n \in -Power2[Width - 1] .. Power2[Width] - 1 => shown # Unrendered
        /\ shown # Unrendered =>
              \A b \in Bits :
                  Has(n % Power2[Width], b) <=> b \in shown[1] \/ Has(shown[2], b)

Lasts == IF kind = "ticks" THEN -value * Tick ELSE value * Units[Len(Units)]

IsDuration == kind \in {"ticks", "seconds"} /\ Len(shown) = 2

(* Below int64's 292 years an interval is shown exactly, in whole days,    *)
(* hours, minutes or seconds where it is a whole number of them.           *)
PoliciesAreExact ==
    IsDuration /\ Lasts <= WordMax =>
        /\ shown[1] * shown[2] = Lasts
        /\ \A i \in DOMAIN Units : Units[i] > shown[2] => Lasts % Units[i] # 0

(* "anything odd falls back to Go's own rendering rather than being        *)
(* rounded into a lie".                                                    *)
NoIntervalIsALie == IsDuration => shown[1] * shown[2] = Lasts

StateOf(parts) == CHOOSE p \in {parts[1], parts[2]} : p.is = "number"

(* An association with a state that has a name is reported with that state,*)
(* its driver and its key, whichever of the two comes first and whatever   *)
(* the key looks like.                                                     *)
AssociationsAreReadRight ==
    kind = "association" /\ IsState(StateOf(value)) =>
        shown = <<StateOf(value), Driver, value[3]>>

(* humanDuration and DirXMLAssociation: what is put in words says what is  *)
(* stored.                                                                 *)
WordsAreTrue == PoliciesAreExact /\ AssociationsAreReadRight

(* It "reports nothing if it cannot tell".                                 *)
NothingReportedUntold ==
    kind = "association" /\ shown # Unrendered => shown[1] = StateOf(value)
=============================================================================
