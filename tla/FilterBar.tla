------------------------------ MODULE FilterBar ------------------------------
(***************************************************************************)
(* The filter bar (ui/search.go: searchBar) and the filter it builds from  *)
(* bare words (ldapx/quick.go): what is typed, the session's history that  *)
(* Up and Down walk through, the preview, and what Enter sends.            *)
(***************************************************************************)
EXTENDS Naturals, Sequences, SequencesExt, FiniteSets

CONSTANTS Term,          \* words
          Short,         \* those of a single character
          Starred,       \* those with a wildcard the operator typed
          Raw,           \* a filter, as opposed to words
          Words,         \* what an operator may type, as sequences of words
          Vendor, Attributes,   \* Attributes[v]: QuickSearchAttributes
          Exact          \* exactMatchAttributes

Blank == <<>>
Texts == Words \cup {Blank, <<Raw>>}

ASSUME FilterAssumption ==
    /\ Words \subseteq Seq(Term) \ {Blank}
    /\ Short \subseteq Term /\ Starred \subseteq Term /\ Raw \notin Term
    /\ \A v \in Vendor : Attributes[v] \ Exact # {}

VARIABLES
    open,      \* the bar is on screen
    vendor, scope, text,
    history, pos, draft,
    sent,      \* the query that was last run
    typed      \* what the operator last typed below the history

barVars == <<open, vendor, scope, text, history, pos, draft, sent, typed>>

Scopes == {"base", "one", "sub"}

InitBar ==
    /\ open = FALSE
    /\ vendor \in Vendor /\ scope = "sub"
    /\ text = Blank /\ typed = Blank
    /\ history = <<>> /\ pos = 0 /\ draft = Blank
    /\ sent = [filter |-> Blank, scope |-> "sub"]

-----------------------------------------------------------------------------
(* quick.go. A clause <<attribute, word, star>> asks for the word, and a   *)
(* filter for any clause of each of its sets.                              *)
IsRawFilter(t) == t = <<Raw>>

(* One short word is matched as it is.                                     *)
prefixed(terms) == Len(terms) > 1 \/ (Len(terms) = 1 /\ terms[1] \notin Short)

Star(attr, term, prefix) == prefix /\ term \notin Starred /\ attr \notin Exact

QuickFilter(t, v) ==
    [n \in DOMAIN t |->
        {<<attr, t[n], Star(attr, t[n], prefixed(t))>> : attr \in Attributes[v]}]

(* A slip: a prefix search takes two words.                                *)
PrefixSearchOfPairs(t) == ~IsRawFilter(t) /\ Len(t) > 1

PrefixSearch(t) == ~IsRawFilter(t) /\ prefixed(t)

(* search.go: preview.                                                     *)
Preview ==
    IF IsRawFilter(text) THEN "raw"
    ELSE IF text = Blank THEN "words match"
    ELSE IF ~PrefixSearch(text) THEN "as typed"
    ELSE IF Len(text) = 1 THEN "any of" ELSE "all words"

Filter == IF IsRawFilter(text) THEN text ELSE QuickFilter(text, vendor)

-----------------------------------------------------------------------------
(* Searches are of one connection at a time; its vendor comes with open.   *)
Open ==
    /\ ~open
    /\ open' = TRUE
    /\ vendor' \in Vendor
    /\ text' = Blank /\ typed' = Blank /\ draft' = Blank
    /\ pos' = Len(history)
    /\ UNCHANGED <<scope, history, sent>>

Type(t) ==
    /\ open
    /\ text' = t
    /\ typed' = IF pos = Len(history) THEN t ELSE typed
    /\ UNCHANGED <<open, vendor, scope, history, pos, draft, sent>>

(* A slip: whatever is in the bar becomes the draft.                       *)
WalkLosingDraft(p) ==
    /\ open /\ history # <<>>
    /\ pos' = p
    /\ draft' = text
    /\ text' = IF p = Len(history) THEN draft ELSE history[p + 1]
    /\ UNCHANGED <<open, vendor, scope, history, sent, typed>>

(* walkHistory, to an entry or below the newest.                           *)
WalkHistory(p) ==
    /\ open /\ history # <<>>
    /\ pos' = p
    /\ draft' = IF pos = Len(history) THEN text ELSE draft
    /\ text' = IF p = Len(history) THEN draft' ELSE history[p + 1]
    /\ UNCHANGED <<open, vendor, scope, history, sent, typed>>

(* walkHistory stops at either end.                                        *)
Up   == WalkHistory(IF pos = 0 THEN 0 ELSE pos - 1)
Down == WalkHistory(IF pos = Len(history) THEN pos ELSE pos + 1)

(* ctrl-s.                                                                 *)
NextScope ==
    /\ open
    /\ scope' = CASE scope = "base" -> "one" [] scope = "one" -> "sub"
                  [] scope = "sub" -> "base"
    /\ UNCHANGED <<open, vendor, text, history, pos, draft, sent, typed>>

(* remember takes one repeat out.                                          *)
Remember ==
    /\ history' = Append(RemoveFirst(history, text), text)
    /\ pos' = Len(history')

Enter ==
    /\ open /\ text # Blank
    /\ Remember
    /\ sent' = [filter |-> Filter, scope |-> scope]
    /\ open' = FALSE
    /\ UNCHANGED <<vendor, scope, text, draft, typed>>

(* Esc, or Enter with nothing typed.                                       *)
Cancel ==
    /\ open
    /\ open' = FALSE
    /\ UNCHANGED <<vendor, scope, text, history, pos, draft, sent, typed>>

NextBar ==
    \/ Open \/ Up \/ Down \/ NextScope \/ Enter \/ Cancel
    \/ \E t \in Texts : Type(t)

SpecBar == InitBar /\ [][NextBar]_barVars

-----------------------------------------------------------------------------
TypeOKBar ==
    /\ open \in BOOLEAN /\ vendor \in Vendor /\ scope \in Scopes
    /\ {text, draft, typed} \subseteq Texts
    /\ history \in Seq(Texts \ {Blank})
    /\ pos \in 0 .. Len(history)

(* "moving a repeat to the end rather than storing it twice".              *)
HistoryHasNoRepeats == IsInjective(history)

(* "coming back out restores it rather than losing it": below the history  *)
(* the field holds what was typed there, however often and wherever the    *)
(* operator went in between, and whatever was edited on the way.           *)
DraftSurvives == open /\ pos = Len(history) => text = typed

(* "preview describes what pressing enter will actually run": it says "as  *)
(* typed" when no word gets a wildcard, and otherwise every word that has  *)
(* none gets one on some attribute.                                        *)
PreviewIsTrue ==
    open /\ text # Blank /\ ~IsRawFilter(text) =>
        IF Preview = "as typed"
        THEN \A n \in DOMAIN Filter : \A clause \in Filter[n] : ~clause[3]
        ELSE /\ Preview = (IF Len(Filter) = 1 THEN "any of" ELSE "all words")
             /\ \A n \in DOMAIN Filter :
                   text[n] \notin Starred => \E clause \in Filter[n] : clause[3]

(* What the field holds, as far as the operator typed or recalled it.      *)
BarOK == TypeOKBar /\ HistoryHasNoRepeats /\ DraftSurvives
=============================================================================
