-------------------------- MODULE SearchingProofs ---------------------------
(***************************************************************************)
(* Searching: the filter that is typed (FilterBar) and the list of what it *)
(* finds (SearchResults), for any words, vendors, queries, pages, dialogs  *)
(* and searches in flight.                                                 *)
(***************************************************************************)
EXTENDS FilterBar, SearchResults, SequenceTheorems, TLAPS

-----------------------------------------------------------------------------
(* FilterBar.                                                              *)

(* Above the bottom of the history, the draft has what was typed there.    *)
DraftIsKept == open /\ pos # Len(history) => draft = typed

IInvBar == BarOK /\ DraftIsKept

-----------------------------------------------------------------------------
LEMMA BlankIsAText == Blank \in Texts
BY DEF Texts

(* RemoveFirst on a sequence without repeats.                              *)
LEMMA FirstIsRemoved ==
    ASSUME NEW S, NEW s \in Seq(S), NEW e, IsInjective(s)
    PROVE  /\ RemoveFirst(s, e) \in Seq(S)
           /\ IsInjective(RemoveFirst(s, e))
           /\ \A k \in 1 .. Len(RemoveFirst(s, e)) : RemoveFirst(s, e)[k] # e
<1>1. CASE ~\E i \in 1 .. Len(s) : s[i] = e
    BY <1>1 DEF RemoveFirst
<1>2. CASE \E i \in 1 .. Len(s) : s[i] = e
  <2>1. PICK i \in 1 .. Len(s) : s[i] = e
    BY <1>2
  <2>2. \A j \in 1 .. Len(s) : s[j] = e <=> j = i
    BY <2>1 DEF IsInjective
  <2>3. {j \in 1 .. Len(s) : s[j] = e} = {i}
    BY <2>2
  <2>4. Min({i}) = i
    BY DEF Min
  <2>5. SelectInSeq(s, LAMBDA v : v = e) = i
    BY <2>3, <2>4 DEF SelectInSeq
  <2>6. RemoveFirst(s, e) = SubSeq(s, 1, i - 1) \o SubSeq(s, i + 1, Len(s))
    BY <1>2, <2>5 DEF RemoveFirst, RemoveAt
  <2> DEFINE a == SubSeq(s, 1, i - 1)
             b == SubSeq(s, i + 1, Len(s))
  <2>7. /\ a \in Seq(S) /\ Len(a) = i - 1 /\ \A k \in 1 .. i - 1 : a[k] = s[k]
        /\ b \in Seq(S) /\ Len(b) = Len(s) - i
        /\ \A k \in 1 .. Len(s) - i : b[k] = s[i + k]
    BY <2>1, SubSeqProperties
  <2> HIDE DEF a, b
  <2>8. /\ a \o b \in Seq(S) /\ Len(a \o b) = Len(s) - 1
        /\ \A k \in 1 .. Len(s) - 1 : (a \o b)[k] = IF k < i THEN s[k] ELSE s[k + 1]
    <3>1. Len(s) \in Nat /\ Len(a) + Len(b) = Len(s) - 1
      BY <2>7
    <3>2. /\ a \o b \in Seq(S) /\ Len(a \o b) = Len(s) - 1
          /\ \A k \in 1 .. Len(s) - 1 : (a \o b)[k] = IF k <= i - 1 THEN a[k] ELSE b[k - (i - 1)]
      <4>1. /\ a \o b \in Seq(S) /\ Len(a \o b) = Len(a) + Len(b)
            /\ \A k \in 1 .. Len(a) + Len(b) :
                  (a \o b)[k] = IF k <= Len(a) THEN a[k] ELSE b[k - Len(a)]
        BY <2>7, ConcatProperties
      <4> QED
        BY <2>7, <3>1, <4>1
    <3>3. ASSUME NEW k \in 1 .. Len(s) - 1
          PROVE  (a \o b)[k] = IF k < i THEN s[k] ELSE s[k + 1]
      <4>1. CASE k < i
        BY <2>7, <3>1, <3>2, <4>1
      <4>2. CASE ~(k < i)
        <5>1. k - (i - 1) \in 1 .. Len(s) - i /\ i + (k - (i - 1)) = k + 1
          BY <3>1, <4>2
        <5> QED
          BY <2>7, <3>1, <3>2, <4>2, <5>1
      <4> QED
        BY <4>1, <4>2
    <3> QED
      BY <3>2, <3>3
  <2>9. ASSUME NEW k \in 1 .. Len(s) - 1
        PROVE  \E m \in 1 .. Len(s) : (a \o b)[k] = s[m] /\ m # i
                                     /\ (m = IF k < i THEN k ELSE k + 1)
    <3>1. (IF k < i THEN k ELSE k + 1) \in 1 .. Len(s)
      BY <2>1
    <3>2. CASE k < i
      BY <2>8, <3>1, <3>2
    <3>3. CASE ~(k < i)
      BY <2>8, <3>1, <3>3
    <3> QED
      BY <3>2, <3>3
  <2>10. \A k \in 1 .. Len(s) - 1 : (a \o b)[k] # e
    BY <2>2, <2>9
  <2>11. IsInjective(a \o b)
    <3>1. DOMAIN (a \o b) = 1 .. Len(s) - 1
      BY <2>8
    <3>2. \A m, n \in 1 .. Len(s) : s[m] = s[n] => m = n
      BY DEF IsInjective
    <3>3. ASSUME NEW k \in 1 .. Len(s) - 1, NEW n \in 1 .. Len(s) - 1,
                 (a \o b)[k] = (a \o b)[n]
          PROVE  k = n
      <4>1. PICK m \in 1 .. Len(s) : (a \o b)[k] = s[m] /\ (m = IF k < i THEN k ELSE k + 1)
        BY <2>9
      <4>2. PICK l \in 1 .. Len(s) : (a \o b)[n] = s[l] /\ (l = IF n < i THEN n ELSE n + 1)
        BY <2>9
      <4>3. m = l
        BY <3>2, <3>3, <4>1, <4>2
      <4> QED
        BY <4>1, <4>2, <4>3
    <3> QED
      BY <3>1, <3>3 DEF IsInjective
  <2> QED
    BY <2>6, <2>8, <2>10, <2>11 DEF a, b
<1> QED
    BY <1>1, <1>2

LEMMA RememberKeeps ==
    ASSUME TypeOKBar, HistoryHasNoRepeats, text # Blank, Remember
    PROVE  /\ history' \in Seq(Texts \ {Blank}) /\ pos' \in 0 .. Len(history')
           /\ HistoryHasNoRepeats'
<1> DEFINE rest == RemoveFirst(history, text)
<1>1. /\ rest \in Seq(Texts \ {Blank}) /\ IsInjective(rest)
      /\ \A k \in 1 .. Len(rest) : rest[k] # text
    BY FirstIsRemoved DEF TypeOKBar, HistoryHasNoRepeats
<1>2. history' = Append(rest, text) /\ pos' = Len(history') /\ text \in Texts \ {Blank}
    BY DEF Remember, TypeOKBar
<1> HIDE DEF rest
<1>3. /\ history' \in Seq(Texts \ {Blank}) /\ Len(history') = Len(rest) + 1
      /\ \A k \in 1 .. Len(rest) : history'[k] = rest[k]
      /\ history'[Len(rest) + 1] = text
    BY <1>1, <1>2
<1>4. IsInjective(history')
    BY <1>1, <1>3 DEF IsInjective
<1> QED
    BY <1>2, <1>3, <1>4 DEF HistoryHasNoRepeats

-----------------------------------------------------------------------------
LEMMA InitBarInv == InitBar => IInvBar
<1> SUFFICES ASSUME InitBar PROVE IInvBar
    OBVIOUS
<1>1. TypeOKBar
  <2>1. history \in Seq(Texts \ {Blank}) /\ pos \in 0 .. Len(history)
    BY DEF InitBar
  <2> QED
    BY <2>1, BlankIsAText DEF InitBar, TypeOKBar, Scopes
<1>2. HistoryHasNoRepeats
    BY DEF InitBar, HistoryHasNoRepeats, IsInjective
<1> QED
    BY <1>1, <1>2 DEF InitBar, IInvBar, BarOK, DraftSurvives, DraftIsKept

LEMMA WalkHistoryKeeps ==
    ASSUME IInvBar, NEW p \in 0 .. Len(history), WalkHistory(p)
    PROVE  IInvBar'
<1>1. draft' \in Texts /\ draft' = typed
    BY DEF WalkHistory, IInvBar, BarOK, TypeOKBar, DraftSurvives, DraftIsKept
<1>2. text' \in Texts /\ (p = Len(history) => text' = typed)
    BY <1>1 DEF WalkHistory, IInvBar, BarOK, TypeOKBar
<1> QED
    BY <1>1, <1>2 DEF WalkHistory, IInvBar, BarOK, TypeOKBar, HistoryHasNoRepeats,
       DraftSurvives, DraftIsKept

LEMMA BarStepKeeps == IInvBar /\ [NextBar]_barVars => IInvBar'
<1> SUFFICES ASSUME IInvBar, [NextBar]_barVars PROVE IInvBar'
    OBVIOUS
<1>1. CASE Open
    BY <1>1, BlankIsAText DEF Open, IInvBar, BarOK, TypeOKBar, HistoryHasNoRepeats,
       DraftSurvives, DraftIsKept
<1>2. CASE Up \/ Down
  <2>1. PICK p \in 0 .. Len(history) : WalkHistory(p)
    BY <1>2 DEF Up, Down, IInvBar, BarOK, TypeOKBar
  <2> QED
    BY <2>1, WalkHistoryKeeps
<1>3. CASE NextScope \/ Cancel \/ UNCHANGED barVars
  <2>1. /\ UNCHANGED <<vendor, text, history, pos, draft, typed>>
        /\ open' \in BOOLEAN /\ (open' => open) /\ scope' \in Scopes
    <3>1. CASE NextScope
      <4>1. scope' \in Scopes
        BY <3>1 DEF NextScope, IInvBar, BarOK, TypeOKBar, Scopes
      <4> QED
        BY <3>1, <4>1 DEF NextScope, IInvBar, BarOK, TypeOKBar
    <3>2. CASE Cancel
      BY <3>2 DEF Cancel, IInvBar, BarOK, TypeOKBar
    <3>3. CASE UNCHANGED barVars
      BY <3>3 DEF barVars, IInvBar, BarOK, TypeOKBar
    <3> QED
      BY <1>3, <3>1, <3>2, <3>3
  <2> QED
    BY <2>1 DEF IInvBar, BarOK, TypeOKBar, HistoryHasNoRepeats, DraftSurvives, DraftIsKept
<1>4. CASE Enter
    BY <1>4, RememberKeeps DEF Enter, IInvBar, BarOK, TypeOKBar, DraftSurvives, DraftIsKept
<1>5. ASSUME NEW t \in Texts, Type(t) PROVE IInvBar'
    BY <1>5 DEF Type, IInvBar, BarOK, TypeOKBar, HistoryHasNoRepeats,
       DraftSurvives, DraftIsKept
<1> QED
    BY <1>1, <1>2, <1>3, <1>4, <1>5 DEF NextBar

LEMMA BarInvariant == SpecBar => []IInvBar
BY InitBarInv, BarStepKeeps, PTL DEF SpecBar

(* The filter bar never loses what was typed below its history, and never  *)
(* lists a filter twice (ui/search.go: remember, walkHistory).             *)
THEOREM BarKeepsWhatWasTyped == SpecBar => []BarOK
<1>1. IInvBar => BarOK
    BY DEF IInvBar
<1> QED
    BY <1>1, BarInvariant, PTL

-----------------------------------------------------------------------------
LEMMA PreviewOfWords ==
    ASSUME TypeOKBar, text # Blank, ~IsRawFilter(text)
    PROVE  PreviewIsTrue
<1>1. /\ text \in Words /\ text \in Seq(Term) /\ vendor \in Vendor
      /\ Filter = QuickFilter(text, vendor) /\ DOMAIN text = 1 .. Len(text)
      /\ Len(text) \in Nat
    BY FilterAssumption DEF TypeOKBar, Texts, IsRawFilter, Filter
<1>2. \A n \in DOMAIN text :
          Filter[n] = {<<attr, text[n], Star(attr, text[n], prefixed(text))>> :
                          attr \in Attributes[vendor]}
    BY <1>1 DEF QuickFilter
<1>3. DOMAIN Filter = DOMAIN text /\ Len(Filter) = Len(text)
    BY <1>1 DEF QuickFilter
<1>4. CASE ~prefixed(text)
  <2>1. \A attr, term : ~Star(attr, term, prefixed(text))
    BY <1>4 DEF Star
  <2>2. \A n \in DOMAIN Filter : \A clause \in Filter[n] : ~clause[3]
    BY <1>2, <1>3, <2>1
  <2>3. Preview = "as typed"
    BY <1>4 DEF Preview, PrefixSearch
  <2> QED
    BY <2>2, <2>3 DEF PreviewIsTrue
<1>5. CASE prefixed(text)
  <2>1. ASSUME NEW n \in DOMAIN Filter, text[n] \notin Starred
        PROVE  \E clause \in Filter[n] : clause[3]
    <3>1. PICK attr \in Attributes[vendor] : attr \notin Exact
      BY <1>1, FilterAssumption
    <3>2. Star(attr, text[n], prefixed(text))
      BY <1>5, <2>1, <3>1 DEF Star
    <3>3. <<attr, text[n], Star(attr, text[n], prefixed(text))>> \in Filter[n]
      BY <1>2, <1>3
    <3> QED
      BY <3>2, <3>3
  <2>2. Preview = (IF Len(Filter) = 1 THEN "any of" ELSE "all words")
    BY <1>3, <1>5 DEF Preview, PrefixSearch
  <2> QED
    BY <2>1, <2>2 DEF PreviewIsTrue
<1> QED
    BY <1>4, <1>5

(* The preview describes what Enter will run (preview, against QuickFilter *)
(* in ldapx/quick.go).                                                     *)
THEOREM PreviewDescribes == SpecBar => []PreviewIsTrue
<1>1. IInvBar => PreviewIsTrue
    BY PreviewOfWords DEF IInvBar, BarOK, PreviewIsTrue
<1> QED
    BY <1>1, BarInvariant, PTL

-----------------------------------------------------------------------------
(* SearchResults.                                                          *)

(* Searches belong to a connection; a page to append, to hits found over   *)
(* the present one.                                                        *)
FetchesAreOfThisConnection ==
    /\ \A s \in Slot : fetch[s] # Idle => connected
    /\ \A s \in Slot : fetch[s] # Idle /\ fetch[s].append => mine
    /\ mine => connected

(* The list has the keyboard, or is the first to get it back from the      *)
(* dialogs on top of one another, only while its hits are of this          *)
(* connection. A dialog whose keyboard a new connection took never gives   *)
(* it to the list of the old one.                                          *)
ListToType(k) ==
    /\ focus = "dialog" /\ modals[k] = "results"
    /\ \A i \in k + 1 .. Len(modals) : modals[i] = "dialog"

KeyboardIsOfThisConnection ==
    /\ focus = "results" => mine
    /\ \A k \in 1 .. Len(modals) : ListToType(k) => mine

(* A more row stands below hits, and asks for more of some search.         *)
MoreHasAList == cookie # 0 => pages # <<>> /\ query \in Query

(* Under all the dialogs is a pane or the filter bar.                      *)
DialogsCoverAPane ==
    /\ focus = "dialog" => modals # <<>>
    /\ modals # <<>> => modals[1] # "dialog"

IInvResults ==
    /\ TypeOKResults
    /\ DialogsCoverAPane
    /\ MoreHasAList
    /\ FetchesAreOfThisConnection
    /\ KeyboardIsOfThisConnection
    /\ ShownHitsAreOfThisConnection
    /\ LoadingHasSearch
    /\ MoreContinuesTheList

-----------------------------------------------------------------------------
(* Adding at the end of a sequence: its length, its last element, and what *)
(* stays where it was.                                                     *)
LEMMA AddAtEnd ==
    ASSUME NEW S, NEW t \in Seq(S), NEW x \in S
    PROVE  /\ t \o <<x>> \in Seq(S) /\ Append(t, x) \in Seq(S)
           /\ Len(t \o <<x>>) = Len(t) + 1 /\ Len(Append(t, x)) = Len(t) + 1
           /\ Last(t \o <<x>>) = x
           /\ t \o <<x>> # <<>>
           /\ Append(t, x)[Len(t) + 1] = x
           /\ \A i \in 1 .. Len(t) : Append(t, x)[i] = t[i]
PROOF
  <1>1. t \o <<x>> \in Seq(S) /\ Len(t \o <<x>>) = Len(t) + 1
    OBVIOUS
  <1>2. (t \o <<x>>)[Len(t) + 1] = x
    OBVIOUS
  <1>3. Last(t \o <<x>>) = x
    BY <1>1, <1>2 DEF Last
  <1>4. t \o <<x>> # <<>>
    BY <1>1, LenProperties
  <1> QED
    BY <1>1, <1>3, <1>4, AppendProperties

(* Taking the last element off: the rest keeps its places.                 *)
LEMMA TakeFromEnd ==
    ASSUME NEW S, NEW t \in Seq(S), t # <<>>
    PROVE  /\ Last(t) \in S /\ Last(t) = t[Len(t)] /\ Len(t) \in 1 .. Len(t)
           /\ Front(t) \in Seq(S) /\ Len(Front(t)) = Len(t) - 1
           /\ \A i \in 1 .. Len(t) - 1 : Front(t)[i] = t[i]
PROOF
  <1>1. Len(t) \in Nat \ {0}
    BY EmptySeq
  <1>2. Last(t) \in S /\ Last(t) = t[Len(t)] /\ Len(t) \in 1 .. Len(t)
    BY <1>1, ElementOfSeq DEF Last
  <1>3. \A i \in 1 .. Len(t) - 1 : t[i] \in S
    BY <1>1, ElementOfSeq
  <1>4. Front(t) \in Seq(S) /\ Len(Front(t)) = Len(t) - 1
    BY <1>1 DEF Front
  <1>5. \A i \in 1 .. Len(t) - 1 : Front(t)[i] = t[i]
    BY <1>1, <1>4 DEF Front
  <1> QED
    BY <1>2, <1>4, <1>5

(* Opening a dialog keeps the keyboard's promise: what it covers, the list *)
(* or a dialog on its way back to it, was allowed to have the keyboard.    *)
LEMMA OpenDialogKeepsKeyboard ==
    ASSUME TypeOKResults, DialogsCoverAPane, KeyboardIsOfThisConnection, OpenDialog, mine' = mine
    PROVE  /\ KeyboardIsOfThisConnection'
           /\ modals' \in Seq(Focus) /\ focus' = "dialog"
           /\ DialogsCoverAPane'
PROOF
  <1> DEFINE n == Len(modals)
  <1>1. modals \in Seq(Focus) /\ focus \in Focus
    BY DEF TypeOKResults
  <1>2. n \in Nat
    BY <1>1, LenProperties
  <1>3. modals' = Append(modals, focus) /\ focus' = "dialog"
    BY DEF OpenDialog
  <1>4. /\ modals' \in Seq(Focus) /\ Len(modals') = n + 1
        /\ modals'[n + 1] = focus
        /\ \A i \in 1 .. n : modals'[i] = modals[i]
    BY <1>1, <1>3, AddAtEnd
  <1>5. ASSUME NEW k \in 1 .. n + 1, ListToType(k)'
        PROVE  mine
    <2>1. modals'[k] = "results" /\ \A i \in k + 1 .. n + 1 : modals'[i] = "dialog"
      BY <1>4, <1>5 DEF ListToType
    <2>2. CASE k = n + 1
      BY <1>4, <2>1, <2>2 DEF KeyboardIsOfThisConnection
    <2>3. CASE k \in 1 .. n
      <3>1. focus = "dialog"
        BY <1>2, <1>4, <2>1, <2>3
      <3>2. modals[k] = "results" /\ \A i \in k + 1 .. n : modals[i] = "dialog"
        BY <1>2, <1>4, <2>1, <2>3
      <3> QED
        BY <2>3, <3>1, <3>2 DEF ListToType, KeyboardIsOfThisConnection
    <2> QED
      BY <1>2, <1>5, <2>2, <2>3
  <1>6. KeyboardIsOfThisConnection'
    BY <1>3, <1>4, <1>5 DEF KeyboardIsOfThisConnection
  <1>7. modals' # <<>>
    BY <1>2, <1>4, EmptySeq
  <1>8. modals'[1] # "dialog"
    <2>1. CASE n = 0
      BY <1>1, <1>4, <2>1, EmptySeq DEF DialogsCoverAPane
    <2>2. CASE n # 0
      BY <1>1, <1>2, <1>4, <2>2, EmptySeq DEF DialogsCoverAPane
    <2> QED
      BY <2>1, <2>2
  <1> QED
    BY <1>3, <1>4, <1>6, <1>7, <1>8 DEF DialogsCoverAPane

(* Closing the top dialog gives the keyboard to what it covered.           *)
LEMMA CloseDialogKeepsKeyboard ==
    ASSUME TypeOKResults, DialogsCoverAPane, KeyboardIsOfThisConnection, CloseDialog
    PROVE  /\ KeyboardIsOfThisConnection'
           /\ modals' \in Seq(Focus) /\ focus' \in Focus
           /\ DialogsCoverAPane'
PROOF
  <1> DEFINE n == Len(modals)
  <1>1. modals \in Seq(Focus) /\ focus = "dialog" /\ mine' = mine /\ modals # <<>>
    BY DEF TypeOKResults, CloseDialog, listVars, DialogsCoverAPane
  <1>2. focus' = Last(modals) /\ modals' = Front(modals)
    BY DEF CloseDialog
  <1>3. n \in Nat \ {0}
    BY <1>1, EmptySeq
  <1>4. /\ focus' \in Focus /\ focus' = modals[n]
        /\ modals' \in Seq(Focus) /\ Len(modals') = n - 1
        /\ \A i \in 1 .. n - 1 : modals'[i] = modals[i]
    BY <1>1, <1>2, TakeFromEnd
  <1>5. focus' = "results" => mine
    <2>1. ASSUME focus' = "results" PROVE ListToType(n) /\ n \in 1 .. n
      <3>1. n \in 1 .. n /\ n + 1 .. n = {}
        BY <1>3
      <3>2. modals[n] = "results"
        BY <1>4, <2>1
      <3> QED
        BY <1>1, <3>1, <3>2 DEF ListToType
    <2> QED
      BY <2>1 DEF KeyboardIsOfThisConnection
  <1>6. ASSUME NEW k \in 1 .. n - 1, ListToType(k)'
        PROVE  mine
    <2>1. modals[k] = "results" /\ \A i \in k + 1 .. n : modals[i] = "dialog"
      <3>1. focus' = "dialog" /\ modals'[k] = "results"
            /\ \A i \in k + 1 .. n - 1 : modals'[i] = "dialog"
        BY <1>4, <1>6 DEF ListToType
      <3>2. modals[n] = "dialog" /\ modals[k] = "results"
        BY <1>4, <1>6, <3>1
      <3>3. \A i \in k + 1 .. n - 1 : i \in 1 .. n - 1 /\ modals[i] = "dialog"
        BY <1>3, <1>4, <1>6, <3>1
      <3> QED
        BY <1>3, <1>6, <3>2, <3>3
    <2> QED
      BY <1>1, <1>3, <1>6, <2>1 DEF ListToType, KeyboardIsOfThisConnection
  <1>7. KeyboardIsOfThisConnection'
    BY <1>1, <1>4, <1>5, <1>6 DEF KeyboardIsOfThisConnection
  <1>8. CASE n = 1
    BY <1>1, <1>4, <1>7, <1>8, EmptySeq DEF DialogsCoverAPane
  <1>9. CASE n # 1
    <2>1. modals' # <<>>
      BY <1>3, <1>4, <1>9, EmptySeq
    <2>2. modals'[1] # "dialog"
      BY <1>1, <1>3, <1>4, <1>9 DEF DialogsCoverAPane
    <2> QED
      BY <1>4, <1>7, <2>1, <2>2 DEF DialogsCoverAPane
  <1> QED
    BY <1>8, <1>9

-----------------------------------------------------------------------------
(* What a step that starts a search leaves true of the searches in flight. *)
LEMMA StartIsTyped ==
    ASSUME TypeOKResults, NEW q \in Query, NEW page \in 1 .. LastPage,
           NEW append \in BOOLEAN, Start(q, page, append)
    PROVE  /\ fetch' \in [Slot -> Fetch \cup {Idle}]
           /\ \A s \in Slot : fetch'[s] # Idle =>
                  \/ fetch[s] # Idle /\ fetch'[s] = fetch[s]
                  \/ connected /\ fetch'[s].append = append
           /\ \A s \in Slot : fetch[s] # Idle => fetch'[s] = fetch[s]
           /\ connected /\ append => \E s \in Slot : fetch'[s] # Idle /\ fetch'[s].append
PROOF
  <1> DEFINE f == [q |-> q, page |-> page, append |-> append]
  <1>1. f \in Fetch /\ f # Idle /\ f.append = append
    BY SearchAssumption DEF Fetch
  <1>2. CASE connected
    <2>1. PICK s \in Slot : fetch[s] = Idle /\ fetch' = [fetch EXCEPT ![s] = f]
      BY <1>2 DEF Start
    <2> QED
      BY <1>1, <1>2, <2>1 DEF TypeOKResults
  <1>3. CASE ~connected
    BY <1>3 DEF Start, TypeOKResults
  <1> QED
    BY <1>2, <1>3

(* The invariant holds at the start.                                       *)
LEMMA ResultsInit == InitResults => IInvResults
PROOF
  <1> SUFFICES ASSUME InitResults PROVE IInvResults
    OBVIOUS
  <1> USE DEF InitResults
  <1>1. TypeOKResults
    <2>1. pages \in Seq(Query \X (1 .. LastPage)) /\ Len(pages) = 0
      BY EmptySeq
    <2>2. modals \in Seq(Focus) /\ focus \in Focus
      BY EmptySeq DEF Focus
    <2>3. fetch \in [Slot -> Fetch \cup {Idle}]
      OBVIOUS
    <2>4. modals \in Seq(Focus) /\ Len(pages) <= MaxPages + 1 /\ cookie \in 0 .. LastPage
      BY <2>1, <2>2, SearchAssumption
    <2> QED
      BY <2>1, <2>2, <2>3, <2>4 DEF TypeOKResults
  <1>2. KeyboardIsOfThisConnection
    BY DEF KeyboardIsOfThisConnection, ListToType
  <1> QED
    BY <1>1, <1>2
    DEF IInvResults, MoreHasAList, DialogsCoverAPane, FetchesAreOfThisConnection,
        ShownHitsAreOfThisConnection, LoadingHasSearch, MoreContinuesTheList

(* Steps that leave the searches and the list alone and move only the      *)
(* keyboard: to a place that is not the list, or to a list on show.        *)
LEMMA KeyboardMoves ==
    ASSUME IInvResults, UNCHANGED <<fetch, listVars, modals, connected>>,
           focus' \in Focus \ {"dialog"}, focus' = "results" => mine,
           front' \in {front, "tree"},
           searching' \in BOOLEAN, dialling' \in BOOLEAN, jumping' \in BOOLEAN
    PROVE  IInvResults'
PROOF
  <1> USE DEF IInvResults, listVars
  <1>1. TypeOKResults'
    BY DEF TypeOKResults
  <1>2. MoreHasAList' /\ FetchesAreOfThisConnection' /\ MoreContinuesTheList'
    BY DEF MoreHasAList, FetchesAreOfThisConnection, MoreContinuesTheList
  <1>3. DialogsCoverAPane' /\ KeyboardIsOfThisConnection'
    BY DEF DialogsCoverAPane, KeyboardIsOfThisConnection, ListToType
  <1>4. ShownHitsAreOfThisConnection' /\ LoadingHasSearch'
    BY DEF ShownHitsAreOfThisConnection, LoadingHasSearch, TypeOKResults
  <1> QED
    BY <1>1, <1>2, <1>3, <1>4

(* Every step keeps the invariant. The steps that move the keyboard alone  *)
(* come first; then those that start, end or drop searches.                *)
LEMMA ResultsStep == IInvResults /\ [NextResults]_resultsVars => IInvResults'
PROOF
  <1> SUFFICES ASSUME IInvResults, [NextResults]_resultsVars PROVE IInvResults'
    OBVIOUS
  <1> USE DEF resultsVars, listVars, keyVars, connVars
  <1>0. /\ TypeOKResults /\ MoreHasAList /\ DialogsCoverAPane
        /\ FetchesAreOfThisConnection /\ KeyboardIsOfThisConnection
        /\ ShownHitsAreOfThisConnection /\ LoadingHasSearch /\ MoreContinuesTheList
    BY DEF IInvResults
  <1>1. /\ front \in {"tree", "results"} /\ focus \in Focus
        /\ searching \in BOOLEAN /\ dialling \in BOOLEAN /\ jumping \in BOOLEAN
        /\ connected \in BOOLEAN
        /\ front = "results" => mine
        /\ focus = "results" => mine
        /\ modals = <<>> => focus # "dialog"
    BY <1>0 DEF TypeOKResults, ShownHitsAreOfThisConnection,
                KeyboardIsOfThisConnection, DialogsCoverAPane
  <1>2. CASE OpenSearch
    BY <1>1, <1>2, KeyboardMoves DEF OpenSearch, Focus
  <1>3. CASE CancelSearch
    BY <1>1, <1>3, KeyboardMoves DEF CancelSearch, CloseSearchBar, Focus
  <1>4. CASE CloseResults
    BY <1>1, <1>4, KeyboardMoves DEF CloseResults, Focus
  <1>5. CASE JumpFromResults
    BY <1>1, <1>5, KeyboardMoves DEF JumpFromResults, Focus
  <1>6. CASE Tab
    BY <1>1, <1>6, KeyboardMoves DEF Tab, Focus
  <1>7. CASE Follow
    BY <1>1, <1>7, KeyboardMoves DEF Follow, Focus
  <1>8. CASE JumpEnds
    <2>1. CASE focus' = "dialog"
      <3>1. TypeOKResults' /\ MoreHasAList' /\ DialogsCoverAPane'
        BY <1>0, <1>8, <2>1 DEF JumpEnds, TypeOKResults, MoreHasAList,
                                DialogsCoverAPane
      <3>2. FetchesAreOfThisConnection' /\ KeyboardIsOfThisConnection'
        BY <1>0, <1>8, <2>1 DEF JumpEnds, FetchesAreOfThisConnection,
                                KeyboardIsOfThisConnection, ListToType
      <3>3. ShownHitsAreOfThisConnection' /\ LoadingHasSearch' /\ MoreContinuesTheList'
        BY <1>0, <1>8 DEF JumpEnds, ShownHitsAreOfThisConnection,
                          LoadingHasSearch, MoreContinuesTheList
      <3> QED
        BY <3>1, <3>2, <3>3 DEF IInvResults
    <2>2. CASE focus' # "dialog"
      BY <1>1, <1>8, <2>2, KeyboardMoves DEF JumpEnds, Focus
    <2> QED
      BY <2>1, <2>2
  <1>9. CASE AskSomething \/ DialFails
    <2>1. OpenDialog /\ UNCHANGED <<fetch, listVars, front, searching, connected>>
          /\ dialling' \in BOOLEAN /\ jumping' = jumping
      BY <1>1, <1>9 DEF AskSomething, DialFails
    <2>2. /\ KeyboardIsOfThisConnection' /\ DialogsCoverAPane'
          /\ modals' \in Seq(Focus) /\ focus' = "dialog"
      BY <1>0, <2>1, OpenDialogKeepsKeyboard
    <2>3. TypeOKResults' /\ MoreHasAList'
      BY <1>0, <1>1, <2>1, <2>2 DEF TypeOKResults, MoreHasAList, Focus
    <2>4. /\ FetchesAreOfThisConnection' /\ ShownHitsAreOfThisConnection'
          /\ LoadingHasSearch' /\ MoreContinuesTheList'
      BY <1>0, <2>1 DEF FetchesAreOfThisConnection, ShownHitsAreOfThisConnection,
                        LoadingHasSearch, MoreContinuesTheList
    <2> QED
      BY <2>2, <2>3, <2>4 DEF IInvResults
  <1>10. CASE CloseDialog
    <2>1. UNCHANGED <<fetch, listVars, front, searching, connected>>
          /\ dialling' \in BOOLEAN /\ jumping' \in BOOLEAN
      BY <1>1, <1>10 DEF CloseDialog
    <2>2. /\ KeyboardIsOfThisConnection' /\ DialogsCoverAPane'
          /\ modals' \in Seq(Focus) /\ focus' \in Focus
      BY <1>0, <1>10, CloseDialogKeepsKeyboard
    <2>3. TypeOKResults' /\ MoreHasAList'
      BY <1>0, <1>1, <2>1, <2>2 DEF TypeOKResults, MoreHasAList
    <2>4. /\ FetchesAreOfThisConnection' /\ ShownHitsAreOfThisConnection'
          /\ LoadingHasSearch' /\ MoreContinuesTheList'
      BY <1>0, <2>1 DEF FetchesAreOfThisConnection, ShownHitsAreOfThisConnection,
                        LoadingHasSearch, MoreContinuesTheList
    <2> QED
      BY <2>2, <2>3, <2>4 DEF IInvResults
  <1>11. ASSUME NEW q \in Query, RunSearch(q) PROVE IInvResults'
    <2>1. /\ Start(q, 1, FALSE) /\ UNCHANGED <<listVars, front, modals, connVars, jumping>>
          /\ focus' \in {"results", "tree"}
          /\ focus' = "results" => front = "results"
          /\ searching' = FALSE
      BY <1>11 DEF RunSearch, CloseSearchBar
    <2>2. 1 \in 1 .. LastPage
      BY SearchAssumption
    <2>3. /\ fetch' \in [Slot -> Fetch \cup {Idle}]
          /\ \A s \in Slot : fetch'[s] # Idle =>
                 \/ fetch[s] # Idle /\ fetch'[s] = fetch[s]
                 \/ connected /\ fetch'[s].append = FALSE
          /\ \A s \in Slot : fetch[s] # Idle => fetch'[s] = fetch[s]
      BY <1>0, <2>1, <2>2, StartIsTyped
    <2>4. TypeOKResults' /\ MoreHasAList'
      BY <1>0, <1>1, <2>1, <2>3 DEF TypeOKResults, MoreHasAList, Focus
    <2>5. FetchesAreOfThisConnection' /\ LoadingHasSearch'
      BY <1>0, <2>1, <2>3 DEF FetchesAreOfThisConnection, LoadingHasSearch
    <2>6. ShownHitsAreOfThisConnection' /\ MoreContinuesTheList'
      BY <1>0, <2>1 DEF ShownHitsAreOfThisConnection, MoreContinuesTheList
    <2>7. DialogsCoverAPane' /\ KeyboardIsOfThisConnection'
      BY <1>0, <1>1, <2>1 DEF DialogsCoverAPane, KeyboardIsOfThisConnection, ListToType
    <2> QED
      BY <2>4, <2>5, <2>6, <2>7 DEF IInvResults
  <1>12. CASE LoadMoreResults
    <2>1. /\ Start(query, cookie, TRUE) /\ loading' = TRUE
          /\ focus = "results" /\ cookie # 0
          /\ UNCHANGED <<pages, query, cookie, mine, front, searching, keyVars,
                         connVars, jumping>>
      BY <1>12 DEF LoadMoreResults
    <2>2. query \in Query /\ cookie \in 1 .. LastPage /\ mine /\ connected
      BY <1>0, <1>1, <2>1, SearchAssumption
      DEF TypeOKResults, MoreHasAList, FetchesAreOfThisConnection
    <2>3. /\ fetch' \in [Slot -> Fetch \cup {Idle}]
          /\ \E s \in Slot : fetch'[s] # Idle /\ fetch'[s].append
      BY <1>0, <2>1, <2>2, StartIsTyped
    <2>4. TypeOKResults' /\ MoreHasAList'
      BY <1>0, <1>1, <2>1, <2>3 DEF TypeOKResults, MoreHasAList
    <2>5. FetchesAreOfThisConnection' /\ LoadingHasSearch'
      BY <1>0, <2>1, <2>2, <2>3 DEF FetchesAreOfThisConnection, LoadingHasSearch
    <2>6. ShownHitsAreOfThisConnection' /\ MoreContinuesTheList'
      BY <1>0, <2>1 DEF ShownHitsAreOfThisConnection, MoreContinuesTheList
    <2>7. DialogsCoverAPane' /\ KeyboardIsOfThisConnection'
      BY <1>0, <1>1, <2>1 DEF DialogsCoverAPane, KeyboardIsOfThisConnection, ListToType
    <2> QED
      BY <2>4, <2>5, <2>6, <2>7 DEF IInvResults
  <1>13. ASSUME NEW s \in Slot, Fail(s) PROVE IInvResults'
    <2>1. /\ OpenDialog /\ fetch' = [fetch EXCEPT ![s] = Idle] /\ loading' = FALSE
          /\ UNCHANGED <<pages, query, cookie, mine, front, searching, connVars, jumping>>
      BY <1>13 DEF Fail
    <2>2. /\ KeyboardIsOfThisConnection' /\ DialogsCoverAPane'
          /\ modals' \in Seq(Focus) /\ focus' = "dialog"
      BY <1>0, <2>1, OpenDialogKeepsKeyboard
    <2>3. fetch' \in [Slot -> Fetch \cup {Idle}]
      BY <1>0, <2>1 DEF TypeOKResults
    <2>4. TypeOKResults' /\ MoreHasAList'
      BY <1>0, <1>1, <2>1, <2>2, <2>3 DEF TypeOKResults, MoreHasAList, Focus
    <2>5. FetchesAreOfThisConnection' /\ LoadingHasSearch'
      BY <1>0, <2>1 DEF FetchesAreOfThisConnection, LoadingHasSearch, TypeOKResults
    <2>6. ShownHitsAreOfThisConnection' /\ MoreContinuesTheList'
      BY <1>0, <2>1 DEF ShownHitsAreOfThisConnection, MoreContinuesTheList
    <2> QED
      BY <2>2, <2>4, <2>5, <2>6 DEF IInvResults
  <1>14. CASE Disconnect \/ Adopt
    <2>1. /\ fetch' = [s \in Slot |-> Idle] /\ front' = "tree" /\ mine' = FALSE
          /\ jumping' = FALSE /\ dialling' = FALSE /\ connected' \in BOOLEAN
          /\ UNCHANGED <<pages, query, cookie, loading, searching, modals>>
          /\ focus' # "results" /\ focus' \in Focus
          /\ focus' = "dialog" => focus = "dialog" /\ modals = <<>>
      BY <1>1, <1>14 DEF Disconnect, Adopt, Leave, GlobalKey, Focus
    <2>2. focus' # "dialog"
      BY <1>1, <2>1
    <2>3. TypeOKResults' /\ MoreHasAList'
      <3>1. fetch' \in [Slot -> Fetch \cup {Idle}]
        BY <2>1
      <3>2. /\ front' \in {"tree", "results"} /\ mine' \in BOOLEAN
            /\ jumping' \in BOOLEAN /\ dialling' \in BOOLEAN
        BY <2>1
      <3> QED
        BY <1>0, <2>1, <3>1, <3>2 DEF TypeOKResults, MoreHasAList
    <2>4. FetchesAreOfThisConnection' /\ LoadingHasSearch'
      BY <2>1 DEF FetchesAreOfThisConnection, LoadingHasSearch
    <2>5. ShownHitsAreOfThisConnection' /\ MoreContinuesTheList'
      BY <1>0, <2>1 DEF ShownHitsAreOfThisConnection, MoreContinuesTheList
    <2>6. DialogsCoverAPane' /\ KeyboardIsOfThisConnection'
      BY <1>0, <2>1, <2>2 DEF DialogsCoverAPane, KeyboardIsOfThisConnection, ListToType
    <2> QED
      BY <2>3, <2>4, <2>5, <2>6 DEF IInvResults
  <1>15. ASSUME NEW s \in Slot, Land(s) PROVE IInvResults'
    <2> DEFINE f == fetch[s]
               kept == IF f.append THEN pages ELSE <<>>
    <2>1. /\ f # Idle
          /\ f.append => Len(pages) < MaxPages
          /\ fetch' = [fetch EXCEPT ![s] = Idle]
          /\ pages' = kept \o <<<<f.q, f.page>>>>
          /\ query' = f.q /\ cookie' = IF f.page < LastPage THEN f.page + 1 ELSE 0
          /\ loading' = FALSE /\ mine' = (mine \/ ~f.append)
          /\ front' = "results" /\ focus' = "results"
          /\ UNCHANGED <<searching, modals, connVars, jumping>>
      BY <1>15 DEF Land, Show
    <2>2. f \in Fetch
      BY <1>0, <2>1 DEF TypeOKResults
    <2>3. f.q \in Query /\ f.page \in 1 .. LastPage /\ f.append \in BOOLEAN
      BY <2>2 DEF Fetch
    <2>4. <<f.q, f.page>> \in Query \X (1 .. LastPage)
      BY <2>3
    <2>5. kept \in Seq(Query \X (1 .. LastPage))
      BY <1>0, EmptySeq DEF TypeOKResults
    <2>6. Len(kept) + 1 <= MaxPages + 1 /\ Len(kept) \in Nat
      <3>1. CASE f.append
        BY <1>0, <2>1, <3>1, LenProperties, SearchAssumption DEF TypeOKResults
      <3>2. CASE ~f.append
        BY <3>2, EmptySeq, SearchAssumption
      <3> QED
        BY <3>1, <3>2
    <2>7. /\ pages' \in Seq(Query \X (1 .. LastPage)) /\ Len(pages') <= MaxPages + 1
          /\ Last(pages') = <<f.q, f.page>> /\ pages' # <<>>
      <3> DEFINE x == <<f.q, f.page>>
      <3>1. /\ kept \o <<x>> \in Seq(Query \X (1 .. LastPage))
            /\ Len(kept \o <<x>>) = Len(kept) + 1
            /\ Last(kept \o <<x>>) = x /\ kept \o <<x>> # <<>>
        <4> HIDE DEF kept, x
        <4> QED
          BY <2>4, <2>5, AddAtEnd DEF x
      <3> HIDE DEF kept, x
      <3>2. pages' = kept \o <<x>>
        BY <2>1 DEF x
      <3>3. Len(pages') <= MaxPages + 1
        BY <2>6, <3>1, <3>2
      <3> QED
        BY <3>1, <3>2, <3>3 DEF x
    <2>8. connected /\ mine'
      BY <1>0, <2>1, <2>3 DEF FetchesAreOfThisConnection
    <2>9. cookie' \in 0 .. LastPage
      BY <2>1, <2>3, SearchAssumption
    <2>10. fetch' \in [Slot -> Fetch \cup {Idle}]
      BY <1>0, <2>1 DEF TypeOKResults
    <2>11. TypeOKResults'
      BY <1>0, <1>1, <2>1, <2>3, <2>7, <2>8, <2>9, <2>10 DEF TypeOKResults, Focus
    <2>12. MoreHasAList' /\ LoadingHasSearch'
      BY <2>1, <2>3, <2>7 DEF MoreHasAList, LoadingHasSearch
    <2>13. FetchesAreOfThisConnection' /\ ShownHitsAreOfThisConnection'
      BY <1>0, <2>1, <2>8 DEF FetchesAreOfThisConnection,
                              ShownHitsAreOfThisConnection, TypeOKResults
    <2>14. MoreContinuesTheList'
      BY <2>1, <2>3, <2>7, SearchAssumption DEF MoreContinuesTheList
    <2>15. DialogsCoverAPane' /\ KeyboardIsOfThisConnection'
      BY <1>0, <2>1, <2>8 DEF DialogsCoverAPane, KeyboardIsOfThisConnection, ListToType
    <2> QED
      BY <2>11, <2>12, <2>13, <2>14, <2>15 DEF IInvResults
  <1>16. CASE UNCHANGED resultsVars
    <2>1. TypeOKResults' /\ MoreHasAList' /\ MoreContinuesTheList'
      BY <1>0, <1>16 DEF TypeOKResults, MoreHasAList, MoreContinuesTheList
    <2>2. DialogsCoverAPane' /\ KeyboardIsOfThisConnection'
      BY <1>0, <1>16 DEF DialogsCoverAPane, KeyboardIsOfThisConnection, ListToType
    <2>3. /\ FetchesAreOfThisConnection' /\ ShownHitsAreOfThisConnection'
          /\ LoadingHasSearch'
      BY <1>0, <1>16 DEF FetchesAreOfThisConnection,
                         ShownHitsAreOfThisConnection, LoadingHasSearch
    <2> QED
      BY <2>1, <2>2, <2>3 DEF IInvResults
  <1> QED
    BY <1>2, <1>3, <1>4, <1>5, <1>6, <1>7, <1>8, <1>9, <1>10, <1>11, <1>12,
       <1>13, <1>14, <1>15, <1>16
    DEF NextResults

LEMMA ResultsInvariant == SpecResults => []IInvResults
  BY ResultsInit, ResultsStep, PTL DEF SpecResults

-----------------------------------------------------------------------------
(* Every reachable state is of the types the code gives its fields.        *)
THEOREM ResultsTyped == SpecResults => []TypeOKResults
PROOF
  <1>1. IInvResults => TypeOKResults
    BY DEF IInvResults
  <1> QED
    BY <1>1, ResultsInvariant, PTL

(* A list of hits on show is always one of the present connection.         *)
THEOREM HitsKeepToTheirConnection == SpecResults => []ShownHitsAreOfThisConnection
PROOF
  <1>1. IInvResults => ShownHitsAreOfThisConnection
    BY DEF IInvResults
  <1> QED
    BY <1>1, ResultsInvariant, PTL

(* The more row of the list on show is dead only while a page is coming,   *)
(* and what it asks for follows the last page listed.                      *)
THEOREM MoreRowContinues == SpecResults => []MoreRowIsSound
PROOF
  <1>1. IInvResults => MoreRowIsSound
    BY DEF IInvResults, MoreRowIsSound
  <1> QED
    BY <1>1, ResultsInvariant, PTL
=============================================================================
