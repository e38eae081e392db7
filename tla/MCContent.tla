------------------------------ MODULE MCContent ------------------------------
(* Model checking what PADL makes of names and values, and of what the      *)
(* operator types and is shown: the filter bar (FilterBar), the list of     *)
(* hits (SearchResults), DNs character by character (Splitting) and         *)
(* component by component (Browse), a document written (Ldif) and values    *)
(* put into words (Rendering). The six share no state; subject says which   *)
(* of them a behaviour is about, and the others stay in an initial state.   *)
EXTENDS FilterBar, SearchResults, Splitting, Browse, Ldif, Rendering, TLC

CONSTANTS mar, m, mstar, generic, lldap, cn, sn, uid, q1, q2, s1, s2

VARIABLE subject

(* FilterBar: a long word, a short one and one with a wildcard, in texts of *)
(* one and of two, on two kinds of server.                                  *)
MCTerm       == {mar, m, mstar}
MCShort      == {m}
MCStarred    == {mstar}
MCWords      == {<<mar>>, <<m>>, <<m, mstar>>}
MCVendor     == {generic, lldap}
MCAttributes == [v \in MCVendor |-> IF v = lldap THEN {uid, cn} ELSE {cn, sn, uid}]
MCExact      == {uid}

(* SearchResults: two queries and two searches at once, so that one can     *)
(* end, or replace the list, while the other is paging.                     *)
MCQuery    == {q1, q2}
MCSlot     == {s1, s2}

(* Splitting: every DN of up to five characters.                            *)
MCLetters   == {"x"}
MCBackslash == "\\"

(* Ldif: values short enough to start and end with every character, and     *)
(* plain ones that are folded once, twice or just not at this width; names  *)
(* that need folding themselves, and two that are none; the export of an    *)
(* entry whose DN has line breaks, a control and a non-ASCII character.     *)
MCLong  == {[k \in 1 .. n |-> "a"] : n \in {4, 5, 7, 8}}
MCMixed == {<<"a", " ", "a", " ", " ", "a", "#">>, <<"a", "a", "a", "^">>}
MCValue == SeqOf({"a", " ", ":", "<", "\n", "~"}, 2) \cup MCLong \cup MCMixed
MCName  == {<<"a">>, <<"a", "a", "a", "a", "a", "a">>, <<"\n", "a", ":", "^">>, <<>>}
MCExported == {<<"a", "^", "\n", "\n", "~">>}

(* Rendering: words of four bits, integers of eight, and keys that look     *)
(* like a state, like a DN and like neither.                                *)
MCTables == {{}, {1, 4}, {1, 2, 8}, {1, 2, 4, 8}}
MCUnits  == <<24, 12, 4>>
MCKey    == {Number(1), Number(3), [is |-> "dn", of |-> 1], [is |-> "text", of |-> 0]}

-----------------------------------------------------------------------------
(* Browse, on four servers: an Active Directory, whose configuration and    *)
(* schema partitions are named under its domain; lldap, which answers with  *)
(* whole subtrees and lists some containers only by what is in them; an     *)
(* eDirectory, which publishes no contexts; and an OpenLDAP with a          *)
(* container the bind cannot see. Names, in the order they sort: 1 the      *)
(* domain, 2 to 9 below it.                                                 *)
lower(n) == <<n, "lower">>
upper(n) == <<n, "UPPER">>

Domain         == <<upper(1)>>
ConfigNC       == <<upper(3)>> \o Domain
SchemaNC       == <<upper(8)>> \o ConfigNC
Suffix         == <<lower(1)>>
People(parent) == <<lower(4)>> \o parent
Groups(parent) == <<lower(5)>> \o parent

Directory(default, published, partitions, overrides, named, holders, whole) ==
    [root |-> [default |-> default, contexts |-> published, partitions |-> partitions],
     overrides |-> overrides, entries |-> named,
     containers |-> {Fold(e) : e \in holders}, wholeSubtree |-> whole]

ActiveDirectory ==
    Directory(Domain, <<ConfigNC, SchemaNC, Suffix>>, {<<lower(3)>> \o Suffix, SchemaNC},
        {<<>>, People(Domain), Suffix},
        <<<<lower(2)>> \o Domain, People(Domain), <<upper(6)>> \o People(Domain),
          <<lower(7)>> \o ConfigNC>>, {People(Domain)}, FALSE)

LLDAP ==
    Directory(Suffix, <<Suffix>>, {}, {<<>>},
        <<<<lower(6)>> \o Groups(Suffix), <<lower(2)>> \o People(Domain), Suffix,
          <<upper(4)>> \o Suffix, <<lower(7)>> \o People(Suffix), <<lower(2)>> \o Suffix>>,
        {}, TRUE)

EDirectory ==
    Directory(<<>>, <<>>, {}, {<<>>, Suffix},
        <<<<lower(5)>> \o Suffix, <<lower(2)>> \o Suffix>>, {<<lower(5)>> \o Suffix}, FALSE)

OpenLDAP ==
    Directory(<<>>, <<Suffix, <<lower(9)>> \o Suffix>>, {}, {<<>>, Suffix},
        <<<<lower(6)>> \o Groups(Suffix), People(Suffix),
          <<lower(2), lower(9)>> \o Suffix>>, {People(Suffix)}, FALSE)

MCServers == {ActiveDirectory, LLDAP, EDirectory, OpenLDAP}
MCGoals ==
    UNION {Range(s.entries) : s \in {ActiveDirectory, OpenLDAP}}
    \cup {<<>>, <<lower(2)>> \o People(Suffix), <<lower(9)>>, <<lower(9), lower(9)>> \o Suffix}

-----------------------------------------------------------------------------
(* Where the others wait.                                                   *)
Aside ==
    /\ subject # "bar"       => vendor = generic
    /\ subject # "splitting" => dn = <<"x">>
    /\ subject # "browse"    => server = EDirectory /\ override = <<>>

InitContent ==
    /\ subject \in {"bar", "results", "splitting", "browse", "ldif", "rendering"}
    /\ InitBar /\ InitResults /\ InitBrowse /\ InitLdif /\ InitRender
    /\ InitSplit
    /\ Aside

NextContent ==
    /\ UNCHANGED subject
    /\ \/ /\ subject = "bar" /\ NextBar
          /\ UNCHANGED <<resultsVars, splitVars, browseVars, ldifVars, renderVars>>
       \/ /\ subject = "results" /\ NextResults
          /\ UNCHANGED <<barVars, splitVars, browseVars, ldifVars, renderVars>>
       \/ /\ subject = "splitting" /\ NextSplit
          /\ UNCHANGED <<barVars, resultsVars, browseVars, ldifVars, renderVars>>
       \/ /\ subject = "browse" /\ NextBrowse
          /\ UNCHANGED <<barVars, resultsVars, splitVars, ldifVars, renderVars>>
       \/ /\ subject = "ldif" /\ NextLdif
          /\ UNCHANGED <<barVars, resultsVars, splitVars, browseVars, renderVars>>
       \/ /\ subject = "rendering" /\ NextRender
          /\ UNCHANGED <<barVars, resultsVars, splitVars, browseVars, ldifVars>>

contentVars == <<subject, barVars, resultsVars, splitVars, browseVars, ldifVars,
                 renderVars>>

SpecContent == InitContent /\ [][NextContent]_contentVars
==============================================================================
