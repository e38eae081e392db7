-------------------------- MODULE RequestsProofs ----------------------------
(***************************************************************************)
(* What PADL asks of a server and does with the answer: a connection and   *)
(* its certificate (Connecting), a search in pages (DirectorySearch), the  *)
(* entry on show (ObjectPane) and a tree written to a file (Export), for   *)
(* any certificates, servers, pages, trees and failures.                   *)
(***************************************************************************)
EXTENDS Connecting, DirectorySearch, ObjectPane, Export, SequenceTheorems, TLAPS

-----------------------------------------------------------------------------
(* Connecting.                                                             *)

(* Nothing was sent before the bind, and what carries the bind was         *)
(* verified unless the profile asks for no TLS.                            *)
BeforeTheBind ==
    /\ stage \in {"dial", "upgrade", "bind"} => sent = {}
    /\ stage = "upgrade" => security = "starttls"
    /\ outcome = "question" => sent = {}

Verified(c) == security # "plain" => c # None /\ c \in Valid \cup {pin}

TheChannelIsVerified ==
    /\ stage \in {"bind", "bound", "root"} => Verified(channel)
    /\ \A c \in sent : Verified(c)

(* Only the call's own connection is open, and no question is left over.   *)
NothingIsLeft ==
    /\ stage = "dial" => conn = "none"
    /\ stage # "returned" => capture = None
    /\ outcome \in {"question", "error"} => conn # "open"

IInvConnect ==
    TypeOKConnect /\ BeforeTheBind /\ TheChannelIsVerified /\ NothingIsLeft

-----------------------------------------------------------------------------
(* A fresh call of Connect satisfies the invariant.                        *)
LEMMA StartsWell ==
    ASSUME security \in {"plain", "ldaps", "starttls"},
           simple \in BOOLEAN, baseDN \in BOOLEAN, pin \in Cert \cup {None}, Start
    PROVE  IInvConnect
BY DEF Start, IInvConnect, TypeOKConnect, BeforeTheBind, TheChannelIsVerified,
       NothingIsLeft, Verified, Stages

LEMMA InitWell == InitConnect => IInvConnect
BY StartsWell DEF InitConnect

LEMMA StepConnect == IInvConnect /\ [NextConnect]_connectVars => IInvConnect'
<1> SUFFICES ASSUME IInvConnect, [NextConnect]_connectVars PROVE IInvConnect'
    OBVIOUS
<1> USE ConnectAssumption DEF IInvConnect
<1>1. CASE Dial
  <2>1. CASE security = "ldaps" /\ \E c \in Cert : Handshake(c)
    <3>1. PICK c \in Cert : Handshake(c)
        BY <2>1
    <3> QED
        BY <1>1, <2>1, <3>1 DEF Dial, Handshake, VerifyPeer, Failed, profile,
           TypeOKConnect, Stages, BeforeTheBind, TheChannelIsVerified, NothingIsLeft,
           Verified
  <2>2. CASE security # "ldaps"
    BY <1>1, <2>2 DEF Dial, profile, TypeOKConnect, Stages, BeforeTheBind,
       TheChannelIsVerified, NothingIsLeft, Verified
  <2> QED
    BY <1>1, <2>1, <2>2 DEF Dial
<1>2. CASE Upgrade
  <2>1. PICK c \in Cert : Handshake(c)
    BY <1>2 DEF Upgrade
  <2> QED
    BY <1>2, <2>1, ZenonT(40) DEF Upgrade, Handshake, VerifyPeer, Failed, profile,
       TypeOKConnect, Stages, BeforeTheBind, TheChannelIsVerified, NothingIsLeft,
       Verified
<1>3. CASE DialFails \/ UpgradeFails \/ BindFails
  BY <1>3 DEF DialFails, UpgradeFails, BindFails, Failed, profile, TypeOKConnect,
     Stages, BeforeTheBind, TheChannelIsVerified, NothingIsLeft, Verified
<1>4. CASE Bind \/ Bound
  BY <1>4 DEF Bind, Bound, wire, profile, TypeOKConnect, Stages, BeforeTheBind,
     TheChannelIsVerified, NothingIsLeft, Verified
<1>5. CASE RootRead
  BY <1>5 DEF RootRead, Succeed, profile, TypeOKConnect, Stages, BeforeTheBind,
     TheChannelIsVerified, NothingIsLeft, Verified
<1>6. ASSUME NEW b \in BOOLEAN, RootUnread(b) PROVE IInvConnect'
  BY <1>6 DEF RootUnread, Succeed, Failed, profile, TypeOKConnect, Stages,
     BeforeTheBind, TheChannelIsVerified, NothingIsLeft, Verified
<1>7. CASE Cancel
  BY <1>7 DEF Cancel, wire, profile, TypeOKConnect, Stages, BeforeTheBind,
     TheChannelIsVerified, NothingIsLeft, Verified
<1>8. CASE Accept \/ Reconnect
  BY <1>8 DEF Accept, Reconnect, Again, profile, TypeOKConnect, Stages,
     BeforeTheBind, TheChannelIsVerified, NothingIsLeft, Verified
<1>9. CASE UNCHANGED connectVars
  BY <1>9 DEF connectVars, wire, profile, TypeOKConnect, Stages, BeforeTheBind,
     TheChannelIsVerified, NothingIsLeft, Verified
<1> QED
  BY <1>1, <1>2, <1>3, <1>4, <1>5, <1>6, <1>7, <1>8, <1>9
     DEF NextConnect, Server, Client, RootRefused, RootCancelled, TimeOut

-----------------------------------------------------------------------------
LEMMA AlwaysConnect == SpecConnect => []IInvConnect
BY InitWell, StepConnect, PTL DEF SpecConnect

(* Connect's variables keep their types, and a question is asked exactly   *)
(* about the certificate this call's verifier would not decide about.      *)
THEOREM ConnectTyped == SpecConnect => []TypeOKConnect
<1>1. IInvConnect => TypeOKConnect
    BY DEF IInvConnect
<1> QED
    BY <1>1, AlwaysConnect, PTL

(* tls.go: whatever certificates peers present, from call to call, the     *)
(* password of a profile with TLS goes to none but a verified peer.        *)
THEOREM PasswordIsKept == SpecConnect => []PasswordOnlyToTheTrusted
<1>1. IInvConnect => PasswordOnlyToTheTrusted
    BY DEF IInvConnect, TheChannelIsVerified, Verified, PasswordOnlyToTheTrusted
<1> QED
    BY <1>1, AlwaysConnect, PTL

(* client.go, Connect: "nothing else happens" before the operator's        *)
(* answer, and a failed call closes its connection.                        *)
THEOREM NothingHappensBeforeTheAnswer == SpecConnect => []NothingElseHappens
<1>1. IInvConnect => NothingElseHappens
    BY DEF IInvConnect, BeforeTheBind, NothingIsLeft, NothingElseHappens
<1> QED
    BY <1>1, AlwaysConnect, PTL

-----------------------------------------------------------------------------
(* DirectorySearch.                                                        *)

NatIndex == 0 .. Total + 1

EntriesInARow ==
    /\ entries = [k \in 1 .. Len(entries) |-> from + k - 1]
    /\ NextEntry <= Total + 1

(* Where the caller is with the listing.                                   *)
Continued ==
    /\ cookie # NoCookie => more /\ cookie = Len(listed) + 1
    /\ more /\ cookie = NoCookie => listed = <<>>
    /\ call = "search" => more /\ from = Len(listed) + 1

(* What the answer received so far says of what is to come.                *)
Answered ==
    /\ truncated => NextEntry <= Total /\ control = NoCookie /\ stream # "open"
    /\ control # NoCookie => /\ control = NextEntry /\ entries # <<>>
                             /\ stream # "open"
    /\ call = "search" /\ stream = "ended" /\ ~ctxDone
         => NextEntry > Total \/ truncated \/ control # NoCookie

IInvSearch ==
    /\ TypeOKSearch /\ InOrder
    /\ {paging, ctxDone, truncated, more, cut} \subseteq BOOLEAN
    /\ EntriesInARow /\ Continued /\ Answered

-----------------------------------------------------------------------------
LEMMA InitSearchInv == InitSearch => IInvSearch
<1> SUFFICES ASSUME InitSearch PROVE IInvSearch
    OBVIOUS
<1>1. TypeOKSearch
    BY DirectoryAssumption DEF InitSearch, TypeOKSearch, NoCookie
<1>2. InOrder /\ EntriesInARow
    BY DirectoryAssumption DEF InitSearch, InOrder, EntriesInARow, NextEntry
<1>3. Continued /\ Answered
    BY DirectoryAssumption DEF InitSearch, Continued, Answered, NextEntry, NoCookie
<1> QED
    BY <1>1, <1>2, <1>3 DEF InitSearch, IInvSearch

LEMMA BeginKeeps ==
    ASSUME IInvSearch, NEW what \in {"search", "entry"}, NEW first \in 1 .. Total + 1,
           Begin(what, first), what = "search" => more /\ first = Len(listed) + 1,
           UNCHANGED <<paging, link, pageVars>>, entryRead' \in {"none", entryRead}
    PROVE  IInvSearch'
<1>1. TypeOKSearch' /\ InOrder'
    BY DirectoryAssumption DEF Begin, pageVars, IInvSearch, TypeOKSearch, InOrder, NoCookie
<1>2. EntriesInARow'
    BY DirectoryAssumption DEF Begin, EntriesInARow, NextEntry
<1>3. Continued' /\ Answered'
    BY DirectoryAssumption
    DEF Begin, pageVars, IInvSearch, Continued, Answered, NextEntry, NoCookie
<1> QED
    BY <1>1, <1>2, <1>3 DEF Begin, pageVars, IInvSearch

LEMMA SearchKeeps == IInvSearch /\ Search => IInvSearch'
<1> SUFFICES ASSUME IInvSearch, Search PROVE IInvSearch'
    OBVIOUS
<1> DEFINE first == IF cookie = NoCookie THEN 1 ELSE cookie
<1>1. first \in 1 .. Total + 1 /\ more /\ first = Len(listed) + 1
    BY DirectoryAssumption
    DEF Search, IInvSearch, TypeOKSearch, Continued, NoCookie
<1> QED
    BY <1>1, BeginKeeps DEF Search

LEMMA EntryCallKeeps == IInvSearch /\ EntryCall => IInvSearch'
<1> SUFFICES ASSUME IInvSearch, EntryCall PROVE IInvSearch'
    OBVIOUS
<1>1. 1 \in 1 .. Total + 1
    BY DirectoryAssumption
<1> QED
    BY <1>1, BeginKeeps DEF EntryCall

LEMMA StartOverKeeps == IInvSearch /\ StartOver => IInvSearch'
<1> SUFFICES ASSUME IInvSearch, StartOver PROVE IInvSearch'
    OBVIOUS
<1>1. TypeOKSearch' /\ InOrder' /\ Continued'
    BY DirectoryAssumption
    DEF StartOver, callVars, IInvSearch, TypeOKSearch, InOrder, Continued, NoCookie
<1>2. EntriesInARow' /\ Answered'
    BY DEF StartOver, callVars, IInvSearch, EntriesInARow, Answered, NextEntry
<1> QED
    BY <1>1, <1>2 DEF StartOver, callVars, IInvSearch

LEMMA ReceiveEntryKeeps == IInvSearch /\ ReceiveEntry => IInvSearch'
<1> SUFFICES ASSUME IInvSearch, ReceiveEntry PROVE IInvSearch'
    OBVIOUS
<1>1. /\ from \in 1 .. Total + 1 /\ entries \in Seq(1 .. Total)
      /\ NextEntry \in 1 .. Total /\ Len(entries) \in 0 .. PageSize
      /\ stream = "open" /\ control = NoCookie /\ ~truncated
    BY DirectoryAssumption
    DEF ReceiveEntry, IInvSearch, TypeOKSearch, Answered, EntriesInARow, NextEntry
<1>2. CASE UNCHANGED entries
    BY <1>1, <1>2, DirectoryAssumption
    DEF ReceiveEntry, pageVars, IInvSearch, TypeOKSearch, InOrder, EntriesInARow, Continued,
        Answered, NextEntry, NoCookie
<1>3. CASE entries' = Append(entries, NextEntry) /\ UNCHANGED <<truncated, stream>>
  <2>1. Len(entries) < PageSize
    BY <1>1, <1>3, DirectoryAssumption DEF ReceiveEntry, Cap
  <2>2. /\ entries' \in Seq(1 .. Total) /\ Len(entries') = Len(entries) + 1
        /\ \A k \in 1 .. Len(entries) : entries'[k] = entries[k]
        /\ entries'[Len(entries) + 1] = NextEntry
    BY <1>1, <1>3
  <2>3. from' = from /\ NextEntry' = NextEntry + 1
    BY <1>1, <2>2 DEF ReceiveEntry, NextEntry
  <2>4. entries' = [k \in 1 .. Len(entries') |-> from' + k - 1]
    BY <1>1, <2>2, <2>3 DEF IInvSearch, EntriesInARow, NextEntry
  <2> QED
    BY <1>1, <1>3, <2>1, <2>2, <2>3, <2>4, DirectoryAssumption
    DEF ReceiveEntry, pageVars, IInvSearch, TypeOKSearch, InOrder, EntriesInARow, Continued,
        Answered, NoCookie
<1> QED
    BY <1>2, <1>3 DEF ReceiveEntry

LEMMA ReceiveDoneKeeps == IInvSearch /\ ReceiveDone => IInvSearch'
<1> SUFFICES ASSUME IInvSearch, ReceiveDone PROVE IInvSearch'
    OBVIOUS
<1>1. NextEntry \in 1 .. Total + 1 /\ control = NoCookie /\ ~truncated
    BY DirectoryAssumption
    DEF ReceiveDone, IInvSearch, TypeOKSearch, Answered, EntriesInARow, NextEntry
<1>2. control' \in 0 .. Total + 1
    BY <1>1, DirectoryAssumption DEF ReceiveDone, NoCookie
<1>3. TypeOKSearch' /\ InOrder' /\ EntriesInARow' /\ Continued'
    BY <1>2 DEF ReceiveDone, pageVars, IInvSearch, TypeOKSearch, InOrder, EntriesInARow,
       Continued, NextEntry
<1>4. NextEntry' = NextEntry
    BY DEF ReceiveDone, NextEntry
<1>5. Answered'
  <2>1. ~truncated' /\ stream' # "open"
    BY <1>1 DEF ReceiveDone
  <2>2. CASE Paged
    <3>1. /\ control' # NoCookie => control' = NextEntry /\ entries # <<>>
          /\ NextEntry <= Total => control' # NoCookie
      BY <1>1, <2>2 DEF ReceiveDone, NoCookie
    <3>2. entries' = entries /\ (NextEntry > Total \/ NextEntry <= Total)
      BY <1>1, DirectoryAssumption DEF ReceiveDone
    <3>3. control' # NoCookie => control' = NextEntry' /\ entries' # <<>>
      BY <1>4, <3>1, <3>2
    <3>4. NextEntry' > Total \/ control' # NoCookie
      BY <1>4, <3>1, <3>2
    <3> QED
      BY <2>1, <3>3, <3>4 DEF Answered
  <2>3. CASE ~Paged
    BY <1>1, <1>4, <2>1, <2>3 DEF ReceiveDone, Answered, Paged
  <2> QED
    BY <2>2, <2>3
<1> QED
    BY <1>3, <1>5 DEF ReceiveDone, pageVars, IInvSearch

LEMMA StopEarlyKeeps == IInvSearch /\ StopEarly => IInvSearch'
BY DEF StopEarly, pageVars, IInvSearch, TypeOKSearch, InOrder, EntriesInARow, Continued,
   Answered, NextEntry

LEMMA CancelCallKeeps == IInvSearch /\ CancelCall => IInvSearch'
BY DEF CancelCall, pageVars, IInvSearch, TypeOKSearch, InOrder, EntriesInARow, Continued,
   Answered, NextEntry

LEMMA DropKeeps ==
    ASSUME IInvSearch, NEW how \in {"lost", "closed"}, Drop(how)
    PROVE  IInvSearch'
BY DEF Drop, pageVars, IInvSearch, TypeOKSearch, InOrder, EntriesInARow, Continued,
   Answered, NextEntry

(* A page that is handed to the caller.                                    *)
Delivered == call = "search" /\ stream = "ended" /\ ~ctxDone

LEMMA PageContinues ==
    ASSUME IInvSearch, Return, Delivered
    PROVE  /\ listed' = listed \o entries
           /\ Len(listed') = Len(listed) + Len(entries) /\ Len(listed') + 1 = NextEntry
           /\ listed' \in Seq(1 .. Total) /\ InOrder'
           /\ Len(listed') \in Len(listed) .. Total
<1>1. /\ listed \in Seq(1 .. Total) /\ entries \in Seq(1 .. Total) /\ from = Len(listed) + 1
      /\ listed' = listed \o entries
    BY DEF IInvSearch, TypeOKSearch, Continued, Return, Delivered, Broken
<1>2. Len(listed') = Len(listed) + Len(entries)
      /\ \A k \in 1 .. Len(listed') : listed'[k] = k
  <2>1. /\ \A k \in 1 .. Len(listed) : listed[k] = k
        /\ \A k \in 1 .. Len(entries) : entries[k] = Len(listed) + k
    BY <1>1 DEF IInvSearch, InOrder, EntriesInARow
  <2>2. /\ Len(listed') = Len(listed) + Len(entries)
        /\ \A k \in 1 .. Len(listed') :
              listed'[k] = IF k <= Len(listed) THEN listed[k] ELSE entries[k - Len(listed)]
    BY <1>1, ConcatProperties
  <2>3. Len(listed) \in Nat /\ Len(entries) \in Nat
    BY <1>1
  <2> QED
    BY <2>1, <2>2, <2>3
<1>3. listed' \in Seq(1 .. Total)
    BY <1>1
<1>4. InOrder'
    BY <1>2, <1>3 DEF InOrder
<1>5. Len(listed') + 1 = NextEntry /\ NextEntry <= Total + 1
    BY <1>1, <1>2 DEF IInvSearch, EntriesInARow, NextEntry
<1>6. Len(listed') \in Len(listed) .. Total
    BY <1>1, <1>2, <1>5, DirectoryAssumption DEF NextEntry
<1> QED
    BY <1>1, <1>2, <1>3, <1>4, <1>5, <1>6

LEMMA ReturnKeeps == IInvSearch /\ Return => IInvSearch'
<1> SUFFICES ASSUME IInvSearch, Return PROVE IInvSearch'
    OBVIOUS
<1>1. CASE Delivered
  <2>1. /\ listed' = listed \o entries /\ cut' = truncated /\ cookie' = control
        /\ more' = (control # NoCookie) /\ call' = "none" /\ UNCHANGED entryRead
        /\ UNCHANGED <<ctxDone, from, entries, truncated, control, stream, paging, link>>
    BY <1>1 DEF Return, Delivered, Broken, Kept
  <2>2. Continued'
    BY <1>1, <2>1, PageContinues DEF Continued, IInvSearch, Answered
  <2>3. EntriesInARow' /\ Answered' /\ TypeOKSearch'
    BY <1>1, <2>1, PageContinues
    DEF IInvSearch, EntriesInARow, Answered, TypeOKSearch, NextEntry
  <2> QED
    BY <1>1, <2>1, <2>2, <2>3, PageContinues DEF IInvSearch
<1>2. CASE ~Delivered
  <2>1. /\ call' = "none" /\ UNCHANGED pageVars
        /\ entryRead' \in {"none", "found", "failed"}
        /\ UNCHANGED <<ctxDone, from, entries, truncated, control, stream, paging, link>>
    BY <1>2 DEF Return, Delivered, Broken, Kept, PickEntry, IInvSearch, TypeOKSearch
  <2> QED
    BY <2>1 DEF pageVars, IInvSearch, TypeOKSearch, InOrder, EntriesInARow, Continued,
       Answered, NextEntry
<1> QED
    BY <1>1, <1>2

LEMMA SearchStepKeeps == IInvSearch /\ [NextSearch]_searchVars => IInvSearch'
<1> SUFFICES ASSUME IInvSearch, [NextSearch]_searchVars PROVE IInvSearch'
    OBVIOUS
<1>1. CASE UNCHANGED searchVars
    BY <1>1 DEF searchVars, callVars, pageVars, IInvSearch, TypeOKSearch, InOrder,
       EntriesInARow, Continued, Answered, NextEntry
<1> QED
    BY <1>1, SearchKeeps, StartOverKeeps, EntryCallKeeps, ReceiveEntryKeeps,
       ReceiveDoneKeeps, StopEarlyKeeps, ReturnKeeps, CancelCallKeeps, DropKeeps
    DEF NextSearch

THEOREM SearchInvariant == SpecSearch => []IInvSearch
BY InitSearchInv, SearchStepKeeps, PTL DEF SpecSearch

-----------------------------------------------------------------------------
LEMMA InitIsAListing == InitSearch => Promise!InitListing
BY DEF InitSearch, Promise!InitListing

LEMMA StepIsOfAListing ==
    IInvSearch /\ [NextSearch]_searchVars
        => [Promise!NextPage \/ Promise!StartOver]_(Promise!listingVars)
<1> SUFFICES ASSUME IInvSearch, [NextSearch]_searchVars
             PROVE  [Promise!NextPage \/ Promise!StartOver]_(Promise!listingVars)
    OBVIOUS
<1>1. ASSUME UNCHANGED pageVars PROVE UNCHANGED Promise!listingVars
    BY <1>1 DEF pageVars, Promise!listingVars
<1>2. ASSUME StartOver PROVE Promise!StartOver
    BY <1>2 DEF StartOver, Promise!StartOver
<1>3. ASSUME Return, Delivered PROVE Promise!NextPage
  <2>1. /\ cut' = truncated /\ more' = (control # NoCookie) /\ more
    BY <1>3 DEF Return, Delivered, Broken, IInvSearch, Continued
  <2>2. control # NoCookie => Len(entries) > 0 /\ ~truncated
    BY DEF IInvSearch, Answered, TypeOKSearch
  <2>3. /\ Len(listed') \in Len(listed) .. Total /\ Len(listed) \in Nat
        /\ Len(entries) \in Nat /\ Len(listed') = Len(listed) + Len(entries)
        /\ Len(listed') + 1 = NextEntry
    BY <1>3, PageContinues DEF IInvSearch, TypeOKSearch
  <2>4. more' => Len(listed') > Len(listed) /\ ~cut'
    <3>1. more' => Len(entries) > 0 /\ ~cut'
      BY <2>1, <2>2
    <3>2. Len(entries) > 0 => Len(listed') > Len(listed)
      BY <2>3
    <3> QED
      BY <3>1, <3>2
  <2>5. ~more' /\ ~cut' => NextEntry > Total
    BY <1>3, <2>1 DEF IInvSearch, Answered, Delivered
  <2>6. cut' => NextEntry <= Total
    BY <2>1 DEF IInvSearch, Answered
  <2>7. /\ ~more' /\ ~cut' => Len(listed') = Total
        /\ cut' => Len(listed') < Total
    BY <2>3, <2>5, <2>6, DirectoryAssumption
  <2>8. more' \in BOOLEAN /\ cut' \in BOOLEAN
    BY <2>1 DEF IInvSearch
  <2> QED
    BY <2>1, <2>3, <2>4, <2>7, <2>8 DEF Promise!NextPage
<1>4. ASSUME Return, ~Delivered PROVE UNCHANGED pageVars
    BY <1>4 DEF Return, Delivered, Broken, IInvSearch, TypeOKSearch
<1> QED
    BY <1>1, <1>2, <1>3, <1>4
    DEF NextSearch, searchVars, Search, EntryCall, ReceiveEntry, ReceiveDone, StopEarly,
        CancelCall, Drop

(* Search implements Listing.                                              *)
THEOREM SearchIsAListing == SpecSearch => ImplementsListing
<1>1. IInvSearch => TypeOKSearch /\ InOrder
    BY DEF IInvSearch
<1> QED
    BY <1>1, InitIsAListing, StepIsOfAListing, SearchInvariant, PTL
    DEF SpecSearch, ImplementsListing, Promise!SpecListing

-----------------------------------------------------------------------------
(* ObjectPane.                                                             *)

(* A pending read asks for what is chosen, unless the tree has no rows to  *)
(* read again when the choice changes.                                     *)
ReadIsAsChosen ==
    read # NoRead /\ contexts # "none" => read.operational = operational

(* A tree with rows has its cursor on one, and results are of a connection.*)
CursorIsOnARow == contexts # "none" => cursor \in Row
ResultsAreOfAConnection == front = "results" => connected

IInvPane ==
    /\ TypeOKPane
    /\ LoadingHasRead
    /\ LinksAreOfTheShownTree
    /\ CompleteAsChosen
    /\ ReadIsAsChosen
    /\ CursorIsOnARow
    /\ ResultsAreOfAConnection

-----------------------------------------------------------------------------
(* Asking for an entry, or for none, keeps what the pane promises about    *)
(* whatever operational attributes and contexts are chosen after it.       *)
LEMMA AskingIsWell ==
    ASSUME IInvPane, connected', connected' \in BOOLEAN, contexts' \in Contexts,
           front' \in {"tree", "results"}, operational' \in BOOLEAN,
           cursor' \in Row \cup {NoRow}, CursorIsOnARow',
           UNCHANGED keyVars,
           NEW dn \in Entry \cup {Nowhere},
           LoadEntry(dn, operational'),
           dn = Nowhere =>
               UNCHANGED <<operational, contexts>> \/ contexts' = "none"
    PROVE  IInvPane'
<1> USE PaneAssumption
<1>1. CASE dn = Nowhere
  BY <1>1 DEF IInvPane, LoadEntry, Clear, keyVars, TypeOKPane, LoadingHasRead,
     LinksAreOfTheShownTree, CompleteAsChosen, ReadIsAsChosen,
     CursorIsOnARow, ResultsAreOfAConnection, Contexts
<1>2. CASE dn # Nowhere
  <2>1. read' = [dn |-> dn, operational |-> operational'] /\ read' \in Read
    BY <1>2 DEF LoadEntry, Read
  <2> QED
    BY <1>2, <2>1 DEF IInvPane, LoadEntry, SetBusy, keyVars, TypeOKPane,
       LoadingHasRead, LinksAreOfTheShownTree, CompleteAsChosen, ReadIsAsChosen,
       CursorIsOnARow, ResultsAreOfAConnection, Contexts
<1> QED
  BY <1>1, <1>2

(* What tells the pane of a row of the tree.                               *)
LEMMA SelectingIsWell ==
    ASSUME IInvPane, connected, NEW r \in Row, SelectionChanged(r), cursor' = r,
           UNCHANGED <<connected, contexts, front, operational, keyVars>>
    PROVE  IInvPane'
<1>1. CASE r.more
  BY <1>1, PaneAssumption DEF SelectionChanged, IInvPane, Clear, keyVars, TypeOKPane,
     LoadingHasRead, LinksAreOfTheShownTree, CompleteAsChosen, ReadIsAsChosen,
     CursorIsOnARow, ResultsAreOfAConnection, Contexts
<1>2. CASE ~r.more
  <2>1. r.dn \in Entry /\ LoadEntry(r.dn, operational')
    BY <1>2 DEF SelectionChanged, Row
  <2>2. r.dn # Nowhere
    BY <2>1, PaneAssumption
  <2> QED
    BY <2>1, <2>2, AskingIsWell DEF IInvPane, TypeOKPane, CursorIsOnARow
<1> QED
  BY <1>1, <1>2

LEMMA InitPaneWell == InitPane => IInvPane
<1> SUFFICES ASSUME InitPane PROVE IInvPane
    OBVIOUS
<1>1. Nothing \in (Entry \cup {Nowhere}) \X (Entry \cup {Nowhere})
    BY DEF Nothing
<1>2. TypeOKPane
    BY <1>1 DEF InitPane, TypeOKPane, Contexts
<1>3. LoadingHasRead /\ LinksAreOfTheShownTree /\ CompleteAsChosen
    BY DEF InitPane, LoadingHasRead, LinksAreOfTheShownTree, CompleteAsChosen
<1>4. ReadIsAsChosen /\ CursorIsOnARow /\ ResultsAreOfAConnection
    BY DEF InitPane, ReadIsAsChosen, CursorIsOnARow, ResultsAreOfAConnection
<1> QED
    BY <1>2, <1>3, <1>4 DEF IInvPane

(* The tree is filled anew, for this connection or the next.               *)
LEMMA NewContextsAreWell ==
    ASSUME IInvPane, connected', connected' \in BOOLEAN, UNCHANGED keyVars,
           NEW which \in Contexts, NEW pending \in {read, NoRead},
           NewContexts(which, pending)
    PROVE  IInvPane'
<1> USE PaneAssumption
<1>1. CASE which = "none"
  BY <1>1 DEF NewContexts, IInvPane, Clear, keyVars, TypeOKPane, LoadingHasRead,
     LinksAreOfTheShownTree, CompleteAsChosen, ReadIsAsChosen,
     CursorIsOnARow, ResultsAreOfAConnection
<1>2. CASE which # "none"
  <2>1. PICK dn \in Entry :
            /\ cursor' = [dn |-> dn, more |-> FALSE]
            /\ head' = "loading" /\ named' = dn /\ asked' = dn
            /\ entry' = Nowhere /\ links' = "none"
            /\ complete' = FALSE /\ lost' = FALSE
            /\ read' = [dn |-> dn, operational |-> operational]
    BY <1>2 DEF NewContexts
  <2>2. cursor' \in Row /\ read' \in Read
    BY <2>1 DEF Row, Read, IInvPane, TypeOKPane
  <2> QED
    BY <1>2, <2>1, <2>2 DEF NewContexts, IInvPane, keyVars, TypeOKPane,
       LoadingHasRead, LinksAreOfTheShownTree, CompleteAsChosen, ReadIsAsChosen,
       CursorIsOnARow, ResultsAreOfAConnection, Contexts
<1> QED
  BY <1>1, <1>2

-----------------------------------------------------------------------------
LEMMA StepPane == IInvPane /\ [NextPane]_paneVars => IInvPane'
<1> SUFFICES ASSUME IInvPane, [NextPane]_paneVars PROVE IInvPane'
    OBVIOUS
<1>1. ASSUME NEW r \in Row, MoveCursor(r) PROVE IInvPane'
  BY <1>1, SelectingIsWell DEF MoveCursor
<1>2. ASSUME NEW dn \in Entry, Arrive(dn) PROVE IInvPane'
  <2>1. [dn |-> dn, more |-> FALSE] \in Row
    BY DEF Row
  <2>2. CASE front = "tree" /\ SelectionChanged(cursor')
    BY <1>2, <2>1, <2>2, SelectingIsWell DEF Arrive
  <2>3. CASE UNCHANGED <<shownVars, read, asked>>
    BY <1>2, <2>1, <2>3 DEF Arrive, IInvPane, shownVars, keyVars, TypeOKPane,
       LoadingHasRead, LinksAreOfTheShownTree, CompleteAsChosen, ReadIsAsChosen,
       CursorIsOnARow, ResultsAreOfAConnection
  <2> QED
    BY <1>2, <2>2, <2>3 DEF Arrive
<1>3. ASSUME NEW dn \in Entry, ShowOutside(dn) \/ SelectHit(dn) PROVE IInvPane'
  <2>1. /\ connected' /\ connected' \in BOOLEAN /\ front' \in {"tree", "results"}
        /\ LoadEntry(dn, operational')
        /\ UNCHANGED <<contexts, cursor, operational, keyVars>>
    BY <1>3 DEF ShowOutside, SelectHit, treeVars, IInvPane, TypeOKPane
  <2> QED
    BY <2>1, AskingIsWell DEF IInvPane, TypeOKPane, CursorIsOnARow
<1>4. CASE ShowNoHits
  BY <1>4 DEF ShowNoHits, IInvPane, shownVars, keyVars, TypeOKPane, LoadingHasRead,
     LinksAreOfTheShownTree, CompleteAsChosen, ReadIsAsChosen, CursorIsOnARow,
     ResultsAreOfAConnection
<1>5. CASE CloseResults \/ ToggleOperational
  <2>1. /\ connected' /\ connected' \in BOOLEAN /\ front' \in {"tree", "results"}
        /\ operational' \in BOOLEAN
        /\ LoadEntry(cursor.dn, operational')
        /\ UNCHANGED <<contexts, cursor, keyVars>>
    BY <1>5 DEF CloseResults, ToggleOperational, treeVars, IInvPane, TypeOKPane,
       ResultsAreOfAConnection
  <2>2. cursor.dn \in Entry \cup {Nowhere}
    BY DEF IInvPane, TypeOKPane, Row, NoRow
  <2>3. cursor.dn = Nowhere => contexts' = "none"
    BY <2>1, PaneAssumption DEF IInvPane, TypeOKPane, CursorIsOnARow, Row
  <2> QED
    BY <2>1, <2>2, <2>3, AskingIsWell DEF IInvPane, TypeOKPane, CursorIsOnARow
<1>6. CASE Copy \/ Bookmark
  <2>1. cursor.dn \in Entry \cup {Nowhere}
    BY DEF IInvPane, TypeOKPane, Row, NoRow
  <2> QED
    BY <1>6, <2>1 DEF Copy, Bookmark, treeVars, shownVars, IInvPane, TypeOKPane,
       LoadingHasRead, LinksAreOfTheShownTree, CompleteAsChosen, ReadIsAsChosen,
       CursorIsOnARow, ResultsAreOfAConnection
<1>7. CASE ToggleAllContexts
  <2> DEFINE which == CASE contexts = "some" -> "all" [] contexts = "all" -> "some"
                        [] OTHER -> "none"
  <2>1. which \in Contexts
    BY DEF Contexts
  <2> HIDE DEF which
  <2>2. NewContexts(which, read)
    BY <1>7 DEF ToggleAllContexts, which
  <2> QED
    BY <1>7, <2>1, <2>2, NewContextsAreWell DEF ToggleAllContexts, IInvPane, TypeOKPane
<1>8. CASE Adopt
  <2>1. PICK which \in {"none", "some"} : NewContexts(which, NoRead)
    BY <1>8 DEF Adopt
  <2>2. which \in Contexts
    BY DEF Contexts
  <2> QED
    BY <1>8, <2>1, <2>2, NewContextsAreWell DEF Adopt
<1>9. CASE Disconnect
  BY <1>9, PaneAssumption DEF Disconnect, Clear, keyVars, IInvPane, TypeOKPane, Contexts,
     LoadingHasRead, LinksAreOfTheShownTree, CompleteAsChosen, ReadIsAsChosen,
     CursorIsOnARow, ResultsAreOfAConnection
<1>10. CASE LandEntry
  <2>1. read.dn \in Entry /\ read.operational \in BOOLEAN /\ read.dn # Nowhere
    BY <1>10, PaneAssumption DEF LandEntry, IInvPane, TypeOKPane, Read
  <2> QED
    BY <1>10, <2>1 DEF LandEntry, treeVars, keyVars, IInvPane, TypeOKPane,
       LoadingHasRead, LinksAreOfTheShownTree, CompleteAsChosen, ReadIsAsChosen,
       CursorIsOnARow, ResultsAreOfAConnection
<1>11. CASE LandFailure
  BY <1>11 DEF LandFailure, Clear, treeVars, keyVars, IInvPane, TypeOKPane, Contexts,
     LoadingHasRead, LinksAreOfTheShownTree, CompleteAsChosen, ReadIsAsChosen,
     CursorIsOnARow, ResultsAreOfAConnection
<1>12. CASE UNCHANGED paneVars
  BY <1>12 DEF paneVars, treeVars, shownVars, keyVars, IInvPane, TypeOKPane,
     LoadingHasRead, LinksAreOfTheShownTree, CompleteAsChosen, ReadIsAsChosen,
     CursorIsOnARow, ResultsAreOfAConnection
<1> QED
  BY <1>1, <1>2, <1>3, <1>4, <1>5, <1>6, <1>7, <1>8, <1>9, <1>10, <1>11, <1>12
     DEF NextPane, LandRead

LEMMA AlwaysPane == SpecPane => []IInvPane
BY InitPaneWell, StepPane, PTL DEF SpecPane

-----------------------------------------------------------------------------
(* object.go: the pane's fields keep their types, and a read is only       *)
(* pending while there is a connection to make it.                         *)
THEOREM PaneTyped == SpecPane => []TypeOKPane
<1>1. IInvPane => TypeOKPane
    BY DEF IInvPane
<1> QED
    BY <1>1, AlwaysPane, PTL

(* app.go, loadEntry: whatever is asked for, fails and is replaced, a pane *)
(* that says it is loading waits for a read of the entry it names.         *)
THEOREM PaneWaitsForItsRead == SpecPane => []LoadingHasRead
<1>1. IInvPane => LoadingHasRead
    BY DEF IInvPane
<1> QED
    BY <1>1, AlwaysPane, PTL

(* object.go, setBases and buildRows: the rows on show were made with the  *)
(* naming contexts that are in the tree.                                   *)
THEOREM PaneLinksIntoTheTree == SpecPane => []LinksAreOfTheShownTree
<1>1. IInvPane => LinksAreOfTheShownTree
    BY DEF IInvPane
<1> QED
    BY <1>1, AlwaysPane, PTL

(* app.go, toggleOperational: when no read is pending, what is on show was *)
(* read as chosen last; operational attributes that are wanted and missing *)
(* are those the second read of Client.Entry failed to get.                *)
THEOREM PaneShowsWhatWasChosen == SpecPane => []CompleteAsChosen
<1>1. IInvPane => CompleteAsChosen
    BY DEF IInvPane
<1> QED
    BY <1>1, AlwaysPane, PTL

-----------------------------------------------------------------------------
(* Export.                                                                 *)

(* An entry turns up in the listing of one that has been read.             *)
Turned(n) == n = Root \/ \E m \in Range(out) : n \in Range(Kids[m])

AtHand == IF pc = "entry" THEN {current} ELSE {}

(* Each entry is visited once, and what is read has been visited.          *)
OneVisitEach ==
    /\ IsInjective(out)
    /\ Range(out) \subseteq visited \ AtHand /\ AtHand \subseteq visited
    /\ pc = "children" => current \in Range(out)

OnlyWhatTurnsUp ==
    /\ \A n \in Range(queue) \cup AtHand : Turned(n)
    /\ Range(out) \subseteq Exportable

(* In a run without trouble, an entry that has been listed has been        *)
(* visited, or is in the queue, or is beyond the page read last.           *)
NothingForgotten ==
    Paging /\ Faultless /\ result # "failed" =>
        /\ Root \in visited \cup Range(queue)
        /\ \A m \in Range(out) : \A k \in 1 .. Len(Kids[m]) :
              \/ Kids[m][k] \in visited \cup Range(queue)
              \/ pc = "children" /\ m = current /\ k > offset
        /\ visited \subseteq Range(out) \cup missed \cup AtHand
        /\ missed \subseteq Unreadable

WholeTreeWalked ==
    /\ pc \in {"create", "write"} \/ result = "ok" => queue = <<>>
    /\ pc # "done" => result = "none"

IInvExport ==
    /\ TypeOKExport /\ ParentsComeFirst
    /\ OneVisitEach /\ OnlyWhatTurnsUp /\ NothingForgotten /\ WholeTreeWalked

-----------------------------------------------------------------------------
(* The ranges of the sequences the walk builds.                            *)
LEMMA RangeOfAppend ==
    ASSUME NEW S, NEW s \in Seq(S), NEW e \in S
    PROVE  Range(Append(s, e)) = Range(s) \cup {e}
<1>1. /\ Append(s, e) \in Seq(S) /\ Len(Append(s, e)) = Len(s) + 1 /\ Len(s) \in Nat
      /\ \A k \in 1 .. Len(s) : Append(s, e)[k] = s[k]
      /\ Append(s, e)[Len(s) + 1] = e
    OBVIOUS
<1>2. Range(Append(s, e)) = {Append(s, e)[k] : k \in 1 .. Len(s) + 1}
      /\ Range(s) = {s[k] : k \in 1 .. Len(s)}
    BY <1>1, RangeEquality
<1>3. 1 .. Len(s) + 1 = (1 .. Len(s)) \cup {Len(s) + 1}
    BY <1>1
<1> QED
    BY <1>1, <1>2, <1>3

LEMMA RangeOfTail ==
    ASSUME NEW S, NEW s \in Seq(S), s # <<>>
    PROVE  /\ Head(s) \in S /\ Tail(s) \in Seq(S)
           /\ Range(s) = {Head(s)} \cup Range(Tail(s))
<1>1. /\ Len(s) \in Nat \ {0} /\ Head(s) = s[1] /\ Head(s) \in S
      /\ Tail(s) \in Seq(S) /\ Len(Tail(s)) = Len(s) - 1
      /\ \A k \in 1 .. Len(s) - 1 : Tail(s)[k] = s[k + 1]
    BY EmptySeq, HeadTailProperties
<1>2. Range(s) = {s[k] : k \in 1 .. Len(s)}
      /\ Range(Tail(s)) = {Tail(s)[k] : k \in 1 .. Len(s) - 1}
    BY <1>1, RangeEquality
<1>3. ASSUME NEW k \in 1 .. Len(s) PROVE s[k] \in {Head(s)} \cup Range(Tail(s))
  <2>1. CASE k = 1
    BY <1>1, <2>1
  <2>2. CASE k # 1
    <3>1. k - 1 \in 1 .. Len(s) - 1 /\ Tail(s)[k - 1] = s[k]
      BY <1>1, <2>2
    <3> QED
      BY <1>2, <3>1
  <2> QED
    BY <2>1, <2>2
<1>4. ASSUME NEW k \in 1 .. Len(s) - 1 PROVE Tail(s)[k] \in Range(s)
  <2>1. k + 1 \in 1 .. Len(s)
    BY <1>1
  <2> QED
    BY <1>1, <1>2, <2>1
<1>5. Head(s) \in Range(s)
    BY <1>1, <1>2
<1> QED
    BY <1>1, <1>2, <1>3, <1>4, <1>5

LEMMA RangeOfPage ==
    ASSUME NEW S, NEW s \in Seq(S), NEW m \in Nat, NEW n \in 0 .. Len(s)
    PROVE  /\ SubSeq(s, m + 1, n) \in Seq(S)
           /\ Range(SubSeq(s, m + 1, n)) = {s[k] : k \in m + 1 .. n}
<1>1. Len(s) \in Nat
    OBVIOUS
<1>2. CASE n <= m
  <2>1. SubSeq(s, m + 1, n) = <<>> /\ m + 1 .. n = {}
    BY <1>1, <1>2, SubSeqEmpty
  <2>2. Range(<<>>) = {}
    BY DEF Range
  <2>3. {s[k] : k \in m + 1 .. n} = {} /\ <<>> \in Seq(S)
    BY <2>1
  <2> QED
    BY <2>1, <2>2, <2>3
<1>3. CASE n > m
  <2> DEFINE p == SubSeq(s, m + 1, n)
  <2>1. p \in Seq(S) /\ Len(p) = n - m /\ \A k \in 1 .. n - m : p[k] = s[m + k]
    BY <1>1, <1>3, SubSeqProperties
  <2> HIDE DEF p
  <2>2. Range(p) = {p[k] : k \in 1 .. n - m}
    BY <2>1, RangeEquality
  <2>3. ASSUME NEW k \in m + 1 .. n PROVE s[k] \in Range(p)
    <3>1. k - m \in 1 .. n - m /\ m + (k - m) = k
      BY <1>1, <1>3
    <3> QED
      BY <2>1, <2>2, <3>1
  <2>4. ASSUME NEW k \in 1 .. n - m PROVE p[k] \in {s[j] : j \in m + 1 .. n}
    <3>1. m + k \in m + 1 .. n
      BY <1>1, <1>3
    <3> QED
      BY <2>1, <3>1
  <2> QED
    BY <2>1, <2>2, <2>3, <2>4 DEF p
<1> QED
    BY <1>1, <1>2, <1>3

LEMMA KidsAreNodes ==
    ASSUME NEW n \in Node
    PROVE  /\ Kids[n] \in Seq(Node) /\ Len(Kids[n]) \in Nat
           /\ Range(Kids[n]) = {Kids[n][k] : k \in 1 .. Len(Kids[n])}
           /\ Range(Kids[n]) \subseteq Node
<1>1. Kids[n] \in Seq(Node)
    BY ExportAssumption
<1> QED
    BY <1>1, RangeEquality, RangeOfSeq

(* What can be exported is closed, and no closed set is smaller.           *)
LEMMA ExportableIsClosed ==
    /\ Root \in Exportable \cup Unreadable
    /\ \A n \in Exportable : Range(Kids[n]) \subseteq Exportable \cup Unreadable
<1>1. Root \in Exportable \cup Unreadable
    BY ExportAssumption DEF Exportable, ClosedUnderKids
<1>2. ASSUME NEW n \in Exportable, NEW k \in Range(Kids[n]) \ Unreadable
      PROVE  k \in Exportable
  <2>1. n \in Node /\ k \in Node
    BY <1>2, KidsAreNodes DEF Exportable
  <2>2. ASSUME NEW S \in SUBSET Node, ClosedUnderKids(S) PROVE k \in S
    BY <1>2, <2>2 DEF Exportable, ClosedUnderKids
  <2> QED
    BY <1>2, <2>1, <2>2 DEF Exportable
<1> QED
    BY <1>1, <1>2

LEMMA ExportableIsLeast ==
    ASSUME NEW S \in SUBSET Node, ClosedUnderKids(S)
    PROVE  Exportable \subseteq S
BY DEF Exportable

-----------------------------------------------------------------------------
LEMMA InitExportInv == InitExport => IInvExport
<1> SUFFICES ASSUME InitExport PROVE IInvExport
    OBVIOUS
<1>1. queue \in Seq(Node) /\ Range(queue) = {Root} /\ Range(out) = {} /\ out \in Seq(Node)
  <2>1. <<>> \in Seq(Node) /\ <<Root>> = Append(<<>>, Root) /\ Range(<<>>) = {}
    BY ExportAssumption DEF Range
  <2>2. Range(<<Root>>) = {Root} /\ <<Root>> \in Seq(Node)
    <3>1. <<Root>> \in Seq(Node) /\ Len(<<Root>>) = 1 /\ <<Root>>[1] = Root
      BY ExportAssumption
    <3>2. Range(<<Root>>) = {<<Root>>[k] : k \in 1 .. Len(<<Root>>)}
      BY <3>1, RangeEquality, Zenon
    <3> QED
      BY <3>1, <3>2
  <2>3. queue = <<Root>> /\ out = <<>>
    BY DEF InitExport
  <2> QED
    BY <2>1, <2>2, <2>3
<1>2. TypeOKExport
    BY <1>1, ExportAssumption DEF InitExport, TypeOKExport
<1>3. ParentsComeFirst /\ IsInjective(out)
    BY DEF InitExport, ParentsComeFirst, IsInjective
<1> QED
    BY <1>1, <1>2, <1>3 DEF InitExport, IInvExport, OneVisitEach, OnlyWhatTurnsUp, AtHand,
       Turned, NothingForgotten, WholeTreeWalked

(* What is still to be looked at, and what has been said about it, stay as *)
(* they are when the walk does.                                            *)
LEMMA OthersKeep ==
    ASSUME IInvExport, UNCHANGED <<pc, queue, visited, out, current, offset, result, missed>>,
           file' \in {"absent", "other", "partial", "whole"},
           aborted' \in BOOLEAN, linkUp' \in BOOLEAN, Faultless' => Faultless
    PROVE  IInvExport'
<1>1. TypeOKExport'
    BY DEF IInvExport, TypeOKExport
<1>2. AtHand' = AtHand /\ \A n : Turned(n)' <=> Turned(n)
    BY DEF AtHand, Turned
<1>3. ParentsComeFirst' /\ OneVisitEach' /\ OnlyWhatTurnsUp'
    BY <1>2 DEF IInvExport, ParentsComeFirst, OneVisitEach, OnlyWhatTurnsUp
<1>4. NothingForgotten' /\ WholeTreeWalked'
    BY <1>2 DEF IInvExport, NothingForgotten, WholeTreeWalked
<1> QED
    BY <1>1, <1>3, <1>4 DEF IInvExport

LEMMA PopKeeps == IInvExport /\ Pop => IInvExport'
<1> SUFFICES ASSUME IInvExport, Pop PROVE IInvExport'
    OBVIOUS
<1> DEFINE n == Head(queue)
<1>1. /\ TypeOKExport /\ queue \in Seq(Node) /\ n \in Node /\ Tail(queue) \in Seq(Node)
      /\ Range(queue) = {n} \cup Range(Tail(queue)) /\ AtHand = {}
    BY RangeOfTail DEF Pop, IInvExport, TypeOKExport, AtHand
<1> HIDE DEF n
<1>2. CASE aborted
    BY <1>1, <1>2 DEF Pop, FailExport, IInvExport, TypeOKExport, ParentsComeFirst,
       OneVisitEach, OnlyWhatTurnsUp, AtHand, Turned, NothingForgotten, WholeTreeWalked
<1>3. CASE ~aborted
  <2>1. /\ queue' = Tail(queue) /\ current' = n /\ visited' = visited \cup {n}
        /\ pc' = (IF n \in visited THEN "pop" ELSE "entry") /\ result' = result
        /\ UNCHANGED <<out, offset, file, aborted, linkUp, missed>> /\ pc = "pop"
    BY <1>3 DEF Pop, n
  <2>2. TypeOKExport'
    BY <1>1, <2>1 DEF TypeOKExport
  <2>3. AtHand' = {n} \ visited
    BY <2>1 DEF AtHand
  <2>4. ParentsComeFirst' /\ OneVisitEach'
    BY <1>1, <2>1, <2>3 DEF IInvExport, ParentsComeFirst, OneVisitEach
  <2>5. OnlyWhatTurnsUp'
    BY <1>1, <2>1, <2>3 DEF IInvExport, OnlyWhatTurnsUp, Turned
  <2>6. NothingForgotten'
    <3>1. visited' \cup Range(queue)' = visited \cup Range(queue)
      BY <1>1, <2>1
    <3>2. Faultless' = Faultless
      BY <2>1 DEF Faultless
    <3>3. visited \subseteq Range(out) \cup missed
            => visited' \subseteq Range(out)' \cup missed' \cup AtHand'
      BY <2>1, <2>3
    <3> QED
      BY <1>1, <2>1, <3>1, <3>2, <3>3 DEF IInvExport, NothingForgotten
  <2>7. WholeTreeWalked'
    BY <2>1 DEF IInvExport, WholeTreeWalked
  <2> QED
    BY <2>2, <2>4, <2>5, <2>6, <2>7 DEF IInvExport
<1> QED
    BY <1>2, <1>3

LEMMA ReadEntryKeeps == IInvExport /\ ReadEntry => IInvExport'
<1> SUFFICES ASSUME IInvExport, ReadEntry PROVE IInvExport'
    OBVIOUS
<1>1. /\ TypeOKExport /\ pc = "entry" /\ pc' = "children" /\ offset' = 0
      /\ out' = Append(out, current) /\ out \in Seq(Node) /\ current \in Node \ Unreadable
      /\ UNCHANGED <<queue, visited, current, file, result, aborted, linkUp, missed>>
      /\ AtHand = {current} /\ AtHand' = {}
    BY DEF ReadEntry, IInvExport, TypeOKExport, AtHand
<1>2. /\ out' \in Seq(Node) /\ Len(out') = Len(out) + 1 /\ Len(out) \in Nat
      /\ \A k \in 1 .. Len(out) : out'[k] = out[k]
      /\ out'[Len(out) + 1] = current
      /\ Range(out') = Range(out) \cup {current}
      /\ Range(out) = {out[k] : k \in 1 .. Len(out)}
      /\ DOMAIN out = 1 .. Len(out) /\ DOMAIN out' = 1 .. Len(out) + 1
    BY <1>1, RangeOfAppend, RangeEquality
<1>3. current \notin Range(out) /\ current \in visited /\ Turned(current)
    BY <1>1 DEF IInvExport, OneVisitEach, OnlyWhatTurnsUp
<1>4. TypeOKExport'
    BY <1>1, <1>2, KidsAreNodes DEF TypeOKExport
<1>5. ParentsComeFirst'
  <2>1. ASSUME NEW i \in 1 .. Len(out), out[i] # Root
        PROVE  \E j \in 1 .. i - 1 : out'[i] \in Range(Kids[out'[j]])
    <3>1. PICK j \in 1 .. i - 1 : out[i] \in Range(Kids[out[j]])
      BY <1>2, <2>1 DEF IInvExport, ParentsComeFirst
    <3> QED
      BY <1>2, <3>1
  <2>2. ASSUME current # Root
        PROVE  \E j \in 1 .. Len(out) : current \in Range(Kids[out'[j]])
    BY <1>2, <1>3, <2>2 DEF Turned
  <2> QED
    BY <1>2, <2>1, <2>2 DEF ParentsComeFirst
<1>6. OneVisitEach'
  <2>1. IsInjective(out')
    BY <1>2, <1>3 DEF IInvExport, OneVisitEach, IsInjective
  <2> QED
    BY <1>1, <1>2, <1>3, <2>1 DEF IInvExport, OneVisitEach
<1>7. OnlyWhatTurnsUp'
  <2>1. current \in Exportable
    BY <1>1, <1>3, ExportableIsClosed DEF IInvExport, OnlyWhatTurnsUp, Turned
  <2> QED
    BY <1>1, <1>2, <2>1 DEF IInvExport, OnlyWhatTurnsUp, Turned
<1>8. NothingForgotten'
  <2>1. Faultless' = Faultless /\ visited' \cup Range(queue)' = visited \cup Range(queue)
    BY <1>1 DEF Faultless
  <2>2. \A k \in 1 .. Len(Kids[current]) : k > offset'
    BY <1>1, KidsAreNodes
  <2> QED
    BY <1>1, <1>2, <2>1, <2>2 DEF IInvExport, NothingForgotten
<1>9. WholeTreeWalked'
    BY <1>1 DEF IInvExport, WholeTreeWalked
<1> QED
    BY <1>4, <1>5, <1>6, <1>7, <1>8, <1>9 DEF IInvExport

LEMMA SkipEntryKeeps == IInvExport /\ SkipEntry => IInvExport'
<1> SUFFICES ASSUME IInvExport, SkipEntry PROVE IInvExport'
    OBVIOUS
<1>1. /\ AtHand = {current} /\ AtHand' = {} /\ pc = "entry" /\ pc' = "pop"
      /\ missed' = missed \cup {current} /\ Faultless' = Faultless
      /\ Faultless => current \in Unreadable
      /\ UNCHANGED <<queue, visited, out, current, offset, file, result, aborted, linkUp>>
    BY DEF SkipEntry, AtHand, Faultless
<1>2. TypeOKExport'
    BY <1>1 DEF IInvExport, TypeOKExport
<1>3. ParentsComeFirst' /\ OneVisitEach' /\ OnlyWhatTurnsUp' /\ WholeTreeWalked'
    BY <1>1 DEF IInvExport, ParentsComeFirst, OneVisitEach, OnlyWhatTurnsUp, Turned,
       WholeTreeWalked
<1>4. NothingForgotten'
    BY <1>1 DEF IInvExport, NothingForgotten
<1> QED
    BY <1>2, <1>3, <1>4 DEF IInvExport

LEMMA ReadChildrenKeeps == IInvExport /\ ReadChildren => IInvExport'
<1> SUFFICES ASSUME IInvExport, ReadChildren PROVE IInvExport'
    OBVIOUS
<1> DEFINE kids == Kids[current]
           last == Upto(offset)
<1>1. PICK behind \in {offset} \cup (IF offset > 0 THEN {offset - 1} ELSE {}) :
          queue' = queue \o SubSeq(kids, behind + 1, last)
    BY DEF ReadChildren
<1>2. /\ TypeOKExport /\ queue \in Seq(Node) /\ current \in Range(out) /\ current \in Node
      /\ offset \in 0 .. Len(kids) /\ behind \in 0 .. offset /\ AtHand = {}
      /\ Limit \in Nat /\ Paging \in BOOLEAN
    BY KidsAreNodes, ExportAssumption
    DEF ReadChildren, IInvExport, TypeOKExport, OneVisitEach, AtHand
<1>3. /\ pc = "children" /\ offset' = last
      /\ pc' = (IF Paging /\ last < Len(kids) THEN "children" ELSE "pop")
      /\ UNCHANGED <<visited, out, current, file, result, aborted, linkUp, missed>>
    BY DEF ReadChildren
<1>4. last \in offset .. Len(kids) /\ last \in Nat
    BY <1>2, KidsAreNodes DEF Upto
<1> HIDE DEF last
<1>5. /\ queue' \in Seq(Node)
      /\ Range(queue) \subseteq Range(queue')
      /\ \A k \in behind + 1 .. last : kids[k] \in Range(queue')
      /\ \A n \in Range(queue') \ Range(queue) : \E k \in behind + 1 .. last : n = kids[k]
  <2>1. /\ SubSeq(kids, behind + 1, last) \in Seq(Node)
        /\ Range(SubSeq(kids, behind + 1, last)) = {kids[k] : k \in behind + 1 .. last}
    <3>1. behind \in Nat /\ last \in 0 .. Len(kids) /\ kids \in Seq(Node)
      BY <1>2, <1>4, KidsAreNodes
    <3> QED
      BY <3>1, RangeOfPage, SMTT(30)
  <2>2. ASSUME NEW page \in Seq(Node)
        PROVE  /\ queue \o page \in Seq(Node)
               /\ Range(queue \o page) = Range(queue) \cup Range(page)
    BY <1>2, <2>2, RangeConcatenation, ConcatProperties
  <2>3. /\ queue' \in Seq(Node)
        /\ Range(queue') = Range(queue) \cup {kids[k] : k \in behind + 1 .. last}
    BY <1>1, <2>1, <2>2
  <2> QED
    BY <2>3
<1>6. TypeOKExport' /\ AtHand' = {}
    BY <1>2, <1>3, <1>4, <1>5 DEF TypeOKExport, AtHand
<1>7. ParentsComeFirst' /\ OneVisitEach' /\ WholeTreeWalked'
    BY <1>2, <1>3, <1>6 DEF IInvExport, ParentsComeFirst, OneVisitEach, WholeTreeWalked
<1>8. OnlyWhatTurnsUp'
  <2>1. ASSUME NEW k \in behind + 1 .. last PROVE kids[k] \in Range(kids)
    <3>1. k \in 1 .. Len(kids)
      BY <1>2, <1>4, KidsAreNodes
    <3> QED
      BY <1>2, <3>1, KidsAreNodes
  <2> QED
    BY <1>2, <1>3, <1>5, <1>6, <2>1 DEF IInvExport, OnlyWhatTurnsUp, Turned
<1>9. NothingForgotten'
  <2> SUFFICES ASSUME Paging, Faultless', result' # "failed"
               PROVE  /\ Root \in visited' \cup Range(queue')
                      /\ \A m \in Range(out) : \A k \in 1 .. Len(Kids[m]) :
                            \/ Kids[m][k] \in visited' \cup Range(queue')
                            \/ pc' = "children" /\ m = current /\ k > last
                      /\ visited \subseteq Range(out) \cup missed
                      /\ missed \subseteq Unreadable
    BY <1>3, <1>6 DEF NothingForgotten
  <2>1. /\ Root \in visited \cup Range(queue)
        /\ \A m \in Range(out) : \A k \in 1 .. Len(Kids[m]) :
              \/ Kids[m][k] \in visited \cup Range(queue)
              \/ m = current /\ k > offset
        /\ visited \subseteq Range(out) \cup missed /\ missed \subseteq Unreadable
    BY <1>2, <1>3 DEF IInvExport, NothingForgotten, Faultless
  <2>2. ASSUME NEW k \in 1 .. Len(kids), k > offset
        PROVE  kids[k] \in Range(queue') \/ (pc' = "children" /\ k > last)
    <3>1. CASE k <= last
      <4>1. k \in behind + 1 .. last
        BY <1>2, <1>4, <2>2, <3>1
      <4> QED
        BY <1>5, <4>1
    <3>2. CASE k > last
      <4>1. last < Len(kids)
        BY <1>2, <1>4, <3>2, KidsAreNodes
      <4> QED
        BY <1>3, <3>2, <4>1
    <3> QED
      BY <1>4, <3>1, <3>2
  <2> QED
    BY <1>3, <1>5, <2>1, <2>2
<1> QED
    BY <1>6, <1>7, <1>8, <1>9 DEF IInvExport

LEMMA EndKeeps ==
    ASSUME IInvExport, Collected \/ FailChildren \/ Create \/ WriteEntries
    PROVE  IInvExport'
<1>1. /\ UNCHANGED <<queue, visited, out, current, offset, aborted, linkUp, missed>>
      /\ AtHand = {} /\ AtHand' = {} /\ Faultless' = Faultless
    BY DEF Collected, FailChildren, FailExport, Create, WriteEntries, AtHand, Faultless
<1>2. TypeOKExport'
    BY <1>1 DEF Collected, FailChildren, FailExport, Create, WriteEntries, IInvExport,
       TypeOKExport
<1>3. ParentsComeFirst' /\ OnlyWhatTurnsUp'
    BY <1>1 DEF IInvExport, ParentsComeFirst, OnlyWhatTurnsUp, Turned
<1>4. OneVisitEach' /\ WholeTreeWalked'
    BY <1>1 DEF Collected, FailChildren, FailExport, Create, WriteEntries, IInvExport,
       OneVisitEach, WholeTreeWalked
<1>5. result' # "failed" => result # "failed" /\ pc # "children"
    BY DEF Collected, FailChildren, FailExport, Create, WriteEntries, IInvExport,
       WholeTreeWalked
<1>6. NothingForgotten'
    BY <1>1, <1>5 DEF IInvExport, NothingForgotten
<1> QED
    BY <1>2, <1>3, <1>4, <1>6 DEF IInvExport

LEMMA ExportStepKeeps == IInvExport /\ [NextExport]_exportVars => IInvExport'
<1> SUFFICES ASSUME IInvExport, [NextExport]_exportVars PROVE IInvExport'
    OBVIOUS
<1>1. CASE CancelExport \/ LoseConnection \/ CreateElsewhere \/ UNCHANGED exportVars
  <2>1. /\ UNCHANGED <<pc, queue, visited, out, current, offset, result, missed>>
        /\ file' \in {"absent", "other", "partial", "whole"}
        /\ aborted' \in BOOLEAN /\ linkUp' \in BOOLEAN
    BY <1>1 DEF CancelExport, LoseConnection, CreateElsewhere, exportVars, IInvExport,
       TypeOKExport
  <2>2. Faultless' => Faultless
    BY <1>1 DEF CancelExport, LoseConnection, CreateElsewhere, exportVars, IInvExport,
       TypeOKExport, Faultless
  <2> QED
    BY <2>1, <2>2, OthersKeep
<1> QED
    BY <1>1, PopKeeps, ReadEntryKeeps, SkipEntryKeeps, ReadChildrenKeeps, EndKeeps
    DEF NextExport, Goroutine

LEMMA ExportInvariant == SpecExport => []IInvExport
BY InitExportInv, ExportStepKeeps, PTL DEF SpecExport

-----------------------------------------------------------------------------
LEMMA NothingMissing == IInvExport => ExportIsComplete
<1> SUFFICES ASSUME IInvExport, Paging, Faultless, result = "ok"
             PROVE  IsInjective(out) /\ Range(out) = Exportable
    BY DEF ExportIsComplete
<1>1. queue = <<>> /\ pc = "done" /\ AtHand = {} /\ Range(queue) = {}
    BY DEF IInvExport, WholeTreeWalked, AtHand, Range
<1>2. /\ Root \in visited /\ visited \subseteq Range(out) \cup Unreadable
      /\ \A m \in Range(out) : \A k \in 1 .. Len(Kids[m]) : Kids[m][k] \in visited
    BY <1>1 DEF IInvExport, NothingForgotten
<1>3. Range(out) \subseteq Node
    BY RangeOfSeq DEF IInvExport, TypeOKExport
<1>4. ClosedUnderKids(Range(out))
  <2>1. ASSUME NEW m \in Range(out), NEW n \in Range(Kids[m])
        PROVE  n \in Range(out) \cup Unreadable
    <3>1. PICK k \in 1 .. Len(Kids[m]) : n = Kids[m][k]
      BY <1>3, <2>1, KidsAreNodes
    <3> QED
      BY <1>2, <3>1
  <2> QED
    BY <1>2, <2>1 DEF ClosedUnderKids
<1>5. Exportable \subseteq Range(out)
    BY <1>3, <1>4, ExportableIsLeast
<1> QED
    BY <1>5 DEF IInvExport, OneVisitEach, OnlyWhatTurnsUp

(* collectSubtree and runExport: what an export writes is every entry it   *)
(* can reach, once, and after the entry it is under, for any tree, page    *)
(* size and shifting of pages.                                             *)
THEOREM ExportsAreUsable == SpecExport => []ExportIsUsable
<1>1. IInvExport => ExportIsUsable
    BY NothingMissing DEF IInvExport, ExportIsUsable
<1> QED
    BY <1>1, ExportInvariant, PTL
=============================================================================
