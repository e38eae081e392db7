------------------------- MODULE RememberedProofs ---------------------------
(***************************************************************************)
(* What PADL remembers: what outlives its profile (ProfileLifecycle), the  *)
(* trail of visited entries (History) and the file on disk (ConfigStore),  *)
(* for any profiles, entries, limits, callers and kills.                   *)
(***************************************************************************)
EXTENDS ProfileLifecycle, History, ConfigStore, SequenceTheorems, TLAPS

-----------------------------------------------------------------------------
(* ProfileLifecycle.                                                       *)

(* Until a call has failed, file and memory agree, and so do the profiles  *)
(* and the list the operator picks one of.                                 *)
CopiesAgree ==
    ~troubled => /\ onDisk = profiles /\ pinsOnDisk = pins
                 /\ screen \in {"list", "form", "confirm"} => listed = profiles
                 /\ \A i \in pins \cup keychain : Known(i)

(* App.profile is one, whenever it can be changed.                         *)
ConnectedToOne ==
    /\ current # NoId => profile \in ProfileRecord
    /\ screen = "bookmarks" => current # NoId

(* What a dialog over the list is about.                                   *)
DialogIsOfOne ==
    /\ screen = "confirm" => form \in ProfileId
    /\ form \in ProfileId => listed[form] # NoRecord

IInvLife == TypeOKLife /\ CopiesAgree /\ ConnectedToOne /\ DialogIsOfOne

-----------------------------------------------------------------------------
LEMMA TypeOfLife ==
    ASSUME TypeOKLife
    PROVE  /\ profiles \in [ProfileId -> ProfileRecord \cup {NoRecord}]
           /\ listed \in [ProfileId -> ProfileRecord \cup {NoRecord}]
           /\ onDisk \in [ProfileId -> ProfileRecord \cup {NoRecord}]
BY DEF TypeOKLife

LEMMA InitLifeInv == InitLife => IInvLife
BY LifecycleAssumption DEF InitLife, IInvLife, TypeOKLife, CopiesAgree, ConnectedToOne,
   DialogIsOfOne, Known, Screen

(* Put keeps the store's type.                                             *)
LEMMA PutIsTyped ==
    ASSUME TypeOKLife, NEW i, NEW p \in ProfileRecord \cup {NoRecord}, Put(i, p)
    PROVE  /\ profiles' \in [ProfileId -> ProfileRecord \cup {NoRecord}]
           /\ \A j \in ProfileId : profiles'[j] = IF j = i THEN p ELSE profiles[j]
BY TypeOfLife DEF Put

(* A profile that is put there is known, and no other is lost.             *)
LEMMA PutLosesNone ==
    ASSUME TypeOKLife, NEW i, NEW p \in ProfileRecord, Put(i, p)
    PROVE  \A j \in ProfileId : Known(j) => Known(j)'
BY PutIsTyped, LifecycleAssumption DEF Known

LEMMA LookingKeeps ==
    ASSUME IInvLife,
           \/ OpenProfiles \/ OpenNewForm \/ Dismiss \/ CloseConnection \/ OpenBookmarks
           \/ \E i \in ProfileId : OpenForm(i)
    PROVE  IInvLife'
BY LifecycleAssumption
DEF OpenProfiles, OpenNewForm, Dismiss, CloseConnection, OpenBookmarks, OpenForm, ShowList,
    keptVars, pinVars, openVars, IInvLife, TypeOKLife, CopiesAgree, ConnectedToOne,
    DialogIsOfOne, Known, Screen

LEMMA RestartKeeps == IInvLife /\ Restart => IInvLife'
<1> SUFFICES ASSUME IInvLife, Restart PROVE IInvLife'
    OBVIOUS
<1>1. TypeOKLife'
    BY TypeOfLife DEF Restart, ShowList, IInvLife, TypeOKLife, Screen
<1>2. CopiesAgree'
    BY DEF Restart, ShowList, IInvLife, CopiesAgree, Known
<1>3. ConnectedToOne' /\ DialogIsOfOne'
    BY LifecycleAssumption DEF Restart, ShowList, ConnectedToOne, DialogIsOfOne
<1> QED
    BY <1>1, <1>2, <1>3 DEF IInvLife

(* A save in the form, of either kind.                                     *)
LEMMA SaveKeeps ==
    ASSUME IInvLife, NEW i \in ProfileId, NEW p \in ProfileRecord, Put(i, p),
           \/ Saved /\ ShowList(profiles')
           \/ SaveFailed /\ UNCHANGED <<screen, listed, form>>,
           inherited' \subseteq pins, UNCHANGED <<pinVars, keychain, openVars>>
    PROVE  IInvLife'
<1>1. TypeOKLife'
    BY PutIsTyped, TypeOfLife, ZenonT(40)
    DEF Saved, SaveFailed, ShowList, pinVars, openVars, IInvLife, TypeOKLife, Screen
<1>2. CopiesAgree'
  <2>1. \A j \in pins \cup keychain : Known(j) => Known(j)'
      BY PutLosesNone DEF IInvLife, TypeOKLife
  <2> QED
      BY <2>1 DEF Saved, SaveFailed, ShowList, pinVars, IInvLife, TypeOKLife, CopiesAgree
<1>3. ConnectedToOne' /\ DialogIsOfOne'
    BY LifecycleAssumption DEF Saved, SaveFailed, ShowList, openVars, IInvLife,
       ConnectedToOne, DialogIsOfOne
<1> QED
    BY <1>1, <1>2, <1>3 DEF IInvLife

LEMMA SaveEditKeeps ==
    ASSUME IInvLife, NEW i \in ProfileId, NEW s \in Server, SaveEdit(i, s)
    PROVE  IInvLife'
<1>1. Edited(i, s) \in ProfileRecord
    BY LifecycleAssumption, TypeOfLife
    DEF SaveEdit, IInvLife, DialogIsOfOne, Edited, ProfileRecord
<1>2. inherited' \subseteq pins
    BY DEF SaveEdit, IInvLife, TypeOKLife
<1> QED
    BY <1>1, <1>2, SaveKeeps DEF SaveEdit

LEMMA SaveNewKeeps ==
    ASSUME IInvLife, NEW i \in ProfileId, NEW s \in Server, SaveNew(i, s)
    PROVE  IInvLife'
<1>1. [server |-> s, bookmarks |-> {}] \in ProfileRecord
    BY DEF ProfileRecord
<1>2. inherited' \subseteq pins
    BY DEF SaveNew, IInvLife, TypeOKLife
<1> QED
    BY <1>1, <1>2, SaveKeeps DEF SaveNew

LEMMA DeleteKeeps ==
    ASSUME IInvLife, NEW i \in ProfileId, Delete(i)
    PROVE  IInvLife'
<1>1. /\ profiles' \in [ProfileId -> ProfileRecord \cup {NoRecord}]
      /\ \A j \in ProfileId : profiles'[j] = IF j = i THEN NoRecord ELSE profiles[j]
    BY PutIsTyped DEF Delete, IInvLife
<1>2. CASE /\ onDisk' = profiles' /\ ShowList(profiles')
           /\ \E unpinned \in Outcomes("pin"), forgotten \in Outcomes("forget") :
                /\ ForgetPin(i, unpinned) /\ ForgetPassword(i, forgotten)
                /\ troubled' = (troubled \/ ~unpinned \/ ~forgotten)
  <2>1. PICK unpinned \in BOOLEAN, forgotten \in BOOLEAN :
                /\ ForgetPin(i, unpinned) /\ ForgetPassword(i, forgotten)
                /\ troubled' = (troubled \/ ~unpinned \/ ~forgotten)
      BY <1>2 DEF Outcomes
  <2>2. TypeOKLife'
      BY <1>1, <1>2, <2>1 DEF Delete, ShowList, ForgetPin, PutPins, ForgetPassword,
         openVars, IInvLife, TypeOKLife, Screen
  <2>3. CopiesAgree'
    <3>1. ~troubled' => /\ pins' = pins \ {i} /\ pinsOnDisk' = pins'
                        /\ keychain' = keychain \ {i} /\ ~troubled
        BY <2>1 DEF ForgetPin, PutPins, ForgetPassword
    <3>2. ~troubled' => \A j \in pins' \cup keychain' : Known(j)'
        BY <1>1, <3>1 DEF IInvLife, TypeOKLife, CopiesAgree, Known
    <3> QED
        BY <1>2, <3>1, <3>2 DEF CopiesAgree, ShowList
  <2>4. ConnectedToOne' /\ DialogIsOfOne'
      BY <1>2, LifecycleAssumption DEF Delete, ShowList, openVars, IInvLife,
         ConnectedToOne, DialogIsOfOne
  <2> QED
      BY <2>2, <2>3, <2>4 DEF IInvLife
<1>3. CASE /\ SaveFailed
           /\ screen' = "list" /\ form' = NoId
           /\ UNCHANGED <<listed, pinVars, keychain>>
    BY <1>1, <1>3, LifecycleAssumption DEF Delete, SaveFailed, pinVars, openVars, IInvLife,
       TypeOKLife, CopiesAgree, ConnectedToOne, DialogIsOfOne, Screen
<1> QED
    BY <1>2, <1>3 DEF Delete

LEMMA ConnectKeeps ==
    ASSUME IInvLife, NEW i \in ProfileId, Connect(i) \/ PinNotSaved(i)
    PROVE  IInvLife'
<1>1. /\ listed[i] \in ProfileRecord /\ screen = "list" /\ screen' = "main"
      /\ UNCHANGED <<listed, form, profiles, onDisk>>
    BY TypeOfLife DEF Connect, PinNotSaved, IInvLife
<1>2. CASE Connect(i)
  <2>1. /\ \/ pins' = pins /\ pinsOnDisk' = pinsOnDisk
           \/ pins' = pins \cup {i} /\ pinsOnDisk' = pins'
        /\ inherited' \subseteq pins'
        /\ keychain' \in {keychain, keychain \cup {i}}
        /\ current' = i /\ profile' = listed[i] /\ troubled' = troubled
      BY <1>2 DEF Connect, PutPins, pinVars, IInvLife, TypeOKLife
  <2>2. TypeOKLife'
      BY <1>1, <2>1 DEF IInvLife, TypeOKLife, Screen
  <2>3. CopiesAgree'
      BY <1>1, <1>2, <2>1 DEF Connect, IInvLife, CopiesAgree, Known
  <2> QED
      BY <1>1, <2>1, <2>2, <2>3 DEF IInvLife, ConnectedToOne, DialogIsOfOne
<1>3. CASE PinNotSaved(i)
    BY <1>1, <1>3 DEF PinNotSaved, PutPins, openVars, IInvLife, TypeOKLife, CopiesAgree,
       ConnectedToOne, DialogIsOfOne, Screen
<1> QED
    BY <1>2, <1>3

LEMMA BookmarkKeeps ==
    ASSUME IInvLife, NEW d \in Dn, ToggleBookmark(d) \/ DeleteBookmark(d)
    PROVE  IInvLife'
<1>1. /\ current # NoId /\ PutCurrent(d) /\ screen \in {"main", "bookmarks"}
      /\ UNCHANGED <<screen, listed, form, pinVars, keychain, inherited, current>>
    BY DEF ToggleBookmark, DeleteBookmark, IInvLife, ConnectedToOne
<1>2. Toggled(profile, d) \in ProfileRecord
  <2>1. PICK v \in Server, b \in SUBSET Dn : profile = [server |-> v, bookmarks |-> b]
      BY <1>1 DEF IInvLife, ConnectedToOne, ProfileRecord
  <2>2. Toggled(profile, d)
          = [server |-> v, bookmarks |-> IF d \in b THEN b \ {d} ELSE b \cup {d}]
      BY <2>1 DEF Toggled
  <2> QED
      BY <2>2 DEF ProfileRecord
<1>3. Put(current, Toggled(profile, d)) /\ profile' \in {profile, Toggled(profile, d)}
      /\ \/ onDisk' = profiles' /\ troubled' = troubled
         \/ onDisk' = onDisk /\ troubled' = TRUE
    BY <1>1 DEF PutCurrent, Saved, SaveFailed
<1>4. TypeOKLife'
  <2>1. profiles' \in [ProfileId -> ProfileRecord \cup {NoRecord}]
      BY <1>2, <1>3, PutIsTyped DEF IInvLife
  <2>2. profile' \in ProfileRecord \cup {NoRecord} /\ troubled' \in BOOLEAN
      BY <1>2, <1>3 DEF IInvLife, TypeOKLife
  <2>3. {listed, profiles, onDisk}' \subseteq [ProfileId -> ProfileRecord \cup {NoRecord}]
      BY <1>1, <1>3, <2>1 DEF IInvLife, TypeOKLife
  <2> QED
      BY <1>1, <2>2, <2>3 DEF pinVars, IInvLife, TypeOKLife
<1>5. CopiesAgree'
  <2>1. \A j \in pins \cup keychain : Known(j) => Known(j)'
      BY <1>2, <1>3, PutLosesNone DEF IInvLife, TypeOKLife
  <2> QED
      BY <1>1, <1>3, <2>1 DEF pinVars, IInvLife, TypeOKLife, CopiesAgree
<1>6. ConnectedToOne' /\ DialogIsOfOne'
    BY <1>1, <1>2, <1>3 DEF IInvLife, ConnectedToOne, DialogIsOfOne
<1> QED
    BY <1>4, <1>5, <1>6 DEF IInvLife

LEMMA LifeStepKeeps == IInvLife /\ [NextLife]_lifeVars => IInvLife'
<1> SUFFICES ASSUME IInvLife, [NextLife]_lifeVars PROVE IInvLife'
    OBVIOUS
<1>1. CASE UNCHANGED lifeVars
    BY <1>1 DEF lifeVars, keptVars, pinVars, openVars, IInvLife, TypeOKLife, CopiesAgree,
       ConnectedToOne, DialogIsOfOne, Known
<1> QED
    BY <1>1, LookingKeeps, RestartKeeps, SaveEditKeeps, SaveNewKeeps, DeleteKeeps,
       ConnectKeeps, BookmarkKeeps
    DEF NextLife

LEMMA LifeInvariant == SpecLife => []IInvLife
BY InitLifeInv, LifeStepKeeps, PTL DEF SpecLife

-----------------------------------------------------------------------------
(* confirmDelete takes the pin and the password of a profile along, and    *)
(* nothing brings them back without it, in any sequence of edits,          *)
(* connections, bookmarks and restarts in which no call fails.             *)
THEOREM DeletedForGood == SpecLife => []NothingOutlivesItsProfile
<1>1. IInvLife => NothingOutlivesItsProfile
    BY DEF IInvLife, CopiesAgree, NothingOutlivesItsProfile
<1> QED
    BY <1>1, LifeInvariant, PTL

(* Saving the form of a profile leaves its bookmarks as they are (app.go,  *)
(* openProfileForm), until a save has failed.                              *)
THEOREM FormsKeepBookmarks == SpecLife => EditsKeepBookmarks
<1>1. ASSUME IInvLife, NEW i \in ProfileId, NEW s \in Server,
             ~troubled, SaveEdit(i, s), Known(i)
      PROVE  profiles'[i].bookmarks = profiles[i].bookmarks
  <2>1. listed = profiles
      BY <1>1 DEF IInvLife, CopiesAgree, SaveEdit
  <2> QED
      BY <1>1, <2>1, TypeOfLife DEF SaveEdit, Put, Edited, IInvLife
<1>2. IInvLife => \A i \in ProfileId, s \in Server : ~troubled /\ SaveEdit(i, s) /\ Known(i)
                    => profiles'[i].bookmarks = profiles[i].bookmarks
    BY <1>1
<1> QED
    BY <1>2, LifeInvariant, PTL DEF EditsKeepBookmarks

(* A deletion that profiles.yaml does not have leaves pin and password     *)
(* alone (confirmDelete).                                                  *)
THEOREM NothingGoesBeforeTheProfile == SpecLife => FailedDeleteTakesNothing
<1>1. ASSUME IInvLife, NEW i \in ProfileId, Delete(i), onDisk'[i] # NoRecord
      PROVE  UNCHANGED <<pinVars, keychain>>
  <2>1. profiles'[i] = NoRecord
      BY <1>1, TypeOfLife DEF Delete, Put, IInvLife
  <2> QED
      BY <1>1, <2>1 DEF Delete
<1>2. IInvLife => \A i \in ProfileId : Delete(i) /\ onDisk'[i] # NoRecord
                    => UNCHANGED <<pinVars, keychain>>
    BY <1>1
<1> QED
    BY <1>2, LifeInvariant, PTL DEF FailedDeleteTakesNothing

-----------------------------------------------------------------------------
(* History.                                                                *)

(* before only serves ForwardUndoesBack; the trails have to be sequences   *)
(* for their lengths to add up.                                            *)
IInvHistory == TypeOKHistory /\ HistoryIsBounded /\ TrailIsOfThisConnection

-----------------------------------------------------------------------------
LEMMA FrontIsShorter ==
    ASSUME NEW S, NEW s \in Seq(S), s # <<>>
    PROVE  Front(s) \in Seq(S) /\ Len(Front(s)) = Len(s) - 1 /\ Last(s) \in S
<1>1. Len(s) \in Nat \ {0}
    BY EmptySeq
<1>2. Front(s) = SubSeq(s, 1, Len(s) - 1)
    BY DEF Front
<1>3. \A i \in 1 .. Len(s) : s[i] \in S
    BY LenProperties
<1>4. Front(s) \in Seq(S) /\ Len(Front(s)) = Len(s) - 1
  <2> DEFINE n == Len(s) - 1
  <2>1. n \in Nat /\ 1 \in Int /\ n \in Int /\ \A i \in 1 .. n : s[i] \in S
    BY <1>1, <1>3
  <2> HIDE DEF n
  <2>2. /\ SubSeq(s, 1, n) \in Seq(S)
        /\ Len(SubSeq(s, 1, n)) = IF 1 <= n THEN n - 1 + 1 ELSE 0
    BY <2>1
  <2>3. Len(SubSeq(s, 1, n)) = n
    BY <2>1, <2>2
  <2> QED
    BY <1>2, <2>2, <2>3 DEF n
<1>5. Last(s) \in S
    BY <1>1, <1>3 DEF Last
<1> QED
    BY <1>4, <1>5

(* Appending the entry one is on lengthens a trail by at most one.         *)
LEMMA PushedIsATrail ==
    ASSUME TypeOKHistory, NEW s \in Seq(Entry)
    PROVE  Pushed(s) \in Seq(Entry) /\ Len(Pushed(s)) <= Len(s) + 1
<1>1. CASE cursor = Nowhere
    BY <1>1 DEF Pushed, Here
<1>2. CASE cursor # Nowhere
    BY <1>2, AppendProperties DEF Pushed, Here, TypeOKHistory
<1> QED
    BY <1>1, <1>2

(* The newest entries of a trail are at most HistoryLimit.                 *)
LEMMA NewestIsBounded ==
    ASSUME NEW s \in Seq(Entry)
    PROVE  Newest(s) \in Seq(Entry) /\ Len(Newest(s)) <= HistoryLimit
<1> DEFINE first == IF Len(s) > HistoryLimit THEN Len(s) - HistoryLimit + 1 ELSE 1
<1>1. first \in Nat /\ Len(s) \in Nat /\ HistoryLimit \in Nat
    BY HistoryAssumption
<1>2. 1 <= first /\ Len(s) - first + 1 <= HistoryLimit
    BY <1>1
<1>3. Newest(s) = SubSeq(s, first, Len(s))
    BY DEF Newest
<1> HIDE DEF first
<1> QED
    BY <1>1, <1>2, <1>3, SubSeqProperties, HistoryAssumption

(* recordJump adds at most one entry and forgets the way forward.          *)
LEMMA RecordIsWell ==
    ASSUME IInvHistory, NEW dn \in Entry, Record(dn)
    PROVE  /\ back' \in Seq(Entry) /\ forward' \in Seq(Entry)
           /\ Len(back') + Len(forward') <= HistoryLimit
<1>1. CASE cursor \in {Nowhere, dn}
    BY <1>1 DEF Record, Here, IInvHistory, TypeOKHistory, HistoryIsBounded
<1>2. CASE cursor \notin {Nowhere, dn}
  <2>1. Append(back, cursor) \in Seq(Entry)
    BY <1>2 DEF IInvHistory, TypeOKHistory
  <2>2. back' = Newest(Append(back, cursor)) /\ forward' = <<>>
    BY <1>2 DEF Record, Here
  <2>3. Len(forward') = 0 /\ forward' \in Seq(Entry)
    BY <2>2, EmptySeq
  <2>4. back' \in Seq(Entry) /\ Len(back') <= HistoryLimit /\ Len(back') \in Nat
    BY <2>1, <2>2, NewestIsBounded, LenProperties
  <2> QED
    BY <2>3, <2>4, HistoryAssumption
<1> QED
    BY <1>1, <1>2

(* Jumps only ever go to entries, or have none to go to.                   *)
LEMMA GoalsAreEntries ==
    ASSUME TypeOKHistory, NEW j \in Jumper,
           (\E dn \in Entry : Go(j, dn)) \/ Arrive(j) \/ GiveUp(j) \/ UNCHANGED jumpVars
    PROVE  /\ cursor' \in Entry \cup {Nowhere}
           /\ goal' \in [Jumper -> Entry \cup {Nowhere}]
BY DEF TypeOKHistory, Go, Arrive, GiveUp, jumpVars

-----------------------------------------------------------------------------
LEMMA EmptyTrails ==
    <<>> \in Seq(Entry) /\ Len(<<>>) = 0 /\ Len(<<>>) + Len(<<>>) <= HistoryLimit
BY HistoryAssumption, EmptySeq

LEMMA InitHistoryWell == InitHistory => IInvHistory
BY EmptyTrails DEF InitHistory, InitJump, IInvHistory, TypeOKHistory,
   HistoryIsBounded, TrailIsOfThisConnection

LEMMA StepHistory == IInvHistory /\ [NextHistory]_historyVars => IInvHistory'
<1> SUFFICES ASSUME IInvHistory, [NextHistory]_historyVars PROVE IInvHistory'
    OBVIOUS
<1> USE DEF IInvHistory
<1>1. ASSUME NEW j \in Jumper, NEW dn \in Entry, Follow(j, dn) PROVE IInvHistory'
    BY <1>1, RecordIsWell, GoalsAreEntries
       DEF Follow, TypeOKHistory, HistoryIsBounded, TrailIsOfThisConnection
<1>2. ASSUME NEW j \in Jumper, GoBack(j) PROVE IInvHistory'
  <2>1. /\ Front(back) \in Seq(Entry) /\ Len(Front(back)) = Len(back) - 1
        /\ Last(back) \in Entry
    BY <1>2, FrontIsShorter DEF GoBack, TypeOKHistory
  <2>2. Pushed(forward) \in Seq(Entry) /\ Len(Pushed(forward)) <= Len(forward) + 1
    BY PushedIsATrail DEF TypeOKHistory
  <2>3. /\ cursor' \in Entry \cup {Nowhere}
        /\ goal' \in [Jumper -> Entry \cup {Nowhere}]
    BY <1>2, <2>1, GoalsAreEntries DEF GoBack, Revisit
  <2>4. Len(back') + Len(forward') <= HistoryLimit
    <3>1. Len(back) \in Nat /\ Len(forward) \in Nat /\ Len(Pushed(forward)) \in Nat
        BY <2>2 DEF TypeOKHistory
    <3> QED
        BY <1>2, <2>1, <2>2, <3>1, HistoryAssumption DEF GoBack, HistoryIsBounded
  <2> QED
    BY <1>2, <2>1, <2>2, <2>3, <2>4
       DEF GoBack, TypeOKHistory, HistoryIsBounded, TrailIsOfThisConnection
<1>3. ASSUME NEW j \in Jumper, GoForward(j) PROVE IInvHistory'
  <2>1. /\ Front(forward) \in Seq(Entry) /\ Len(Front(forward)) = Len(forward) - 1
        /\ Last(forward) \in Entry
    BY <1>3, FrontIsShorter DEF GoForward, TypeOKHistory
  <2>2. Pushed(back) \in Seq(Entry) /\ Len(Pushed(back)) <= Len(back) + 1
    BY PushedIsATrail DEF TypeOKHistory
  <2>3. /\ cursor' \in Entry \cup {Nowhere}
        /\ goal' \in [Jumper -> Entry \cup {Nowhere}]
    BY <1>3, <2>1, GoalsAreEntries DEF GoForward, Revisit
  <2>4. Len(back') + Len(forward') <= HistoryLimit
    <3>1. Len(back) \in Nat /\ Len(forward) \in Nat /\ Len(Pushed(back)) \in Nat
        BY <2>2 DEF TypeOKHistory
    <3> QED
        BY <1>3, <2>1, <2>2, <3>1, HistoryAssumption DEF GoForward, HistoryIsBounded
  <2>5. undone' \in BOOLEAN /\ before' \in Seq(Entry)
    BY <1>3 DEF GoForward
  <2> QED
    BY <1>3, <2>1, <2>2, <2>3, <2>4, <2>5
       DEF GoForward, TypeOKHistory, HistoryIsBounded, TrailIsOfThisConnection
<1>4. ASSUME NEW j \in Jumper, JumpEnds(j) PROVE IInvHistory'
    BY <1>4, GoalsAreEntries
       DEF JumpEnds, trailVars, TypeOKHistory, HistoryIsBounded, TrailIsOfThisConnection
<1>5. ASSUME NEW dn \in Entry, Scroll(dn) PROVE IInvHistory'
    BY <1>5 DEF Scroll, Move, TypeOKHistory, HistoryIsBounded, TrailIsOfThisConnection
<1>6. ASSUME NEW dn \in Entry \cup {Nowhere}, Adopt(dn) PROVE IInvHistory'
    BY <1>6, EmptyTrails
       DEF Adopt, Leave, TypeOKHistory, HistoryIsBounded, TrailIsOfThisConnection
<1>7. CASE Disconnect
    BY <1>7, EmptyTrails DEF Disconnect, Leave, TypeOKHistory, HistoryIsBounded,
       TrailIsOfThisConnection
<1>8. CASE UNCHANGED historyVars
    BY <1>8 DEF historyVars, jumpVars, trailVars, TypeOKHistory, HistoryIsBounded,
       TrailIsOfThisConnection
<1> QED
    BY <1>1, <1>2, <1>3, <1>4, <1>5, <1>6, <1>7, <1>8 DEF NextHistory

LEMMA AlwaysHistory == SpecHistory => []IInvHistory
BY InitHistoryWell, StepHistory, PTL DEF SpecHistory

-----------------------------------------------------------------------------
(* The trails are sequences of entries, whatever jumps end when.           *)
THEOREM HistoryTyped == SpecHistory => []TypeOKHistory
<1>1. IInvHistory => TypeOKHistory
    BY DEF IInvHistory
<1> QED
    BY <1>1, AlwaysHistory, PTL

(* app.go, historyLimit: goForward pushes to the trail without trimming it,*)
(* and the two trails together stay within the limit all the same; adopt:  *)
(* < and > never lead into another connection's directory.                 *)
THEOREM TrailKeepsToItsBounds == SpecHistory => []TrailIsSound
<1>1. IInvHistory => TrailIsSound
    BY DEF IInvHistory, TrailIsSound
<1> QED
    BY <1>1, AlwaysHistory, PTL

-----------------------------------------------------------------------------
(* ConfigStore.                                                            *)

(* What is about to be renamed over the file was written to its end.       *)
WrittenBeforeRenamed ==
    \A c \in Caller : pc[c] \in {"close", "rename"} => temp[c] = data[c]

IInvStore == TypeOKStore /\ FileIsWhole /\ WrittenBeforeRenamed /\ OnlyKillsLeaveLitter

LEMMA EmptyIsContents == Empty \in Contents
BY DEF Empty, Contents

LEMMA InitStoreWell == InitStore => IInvStore
BY EmptyIsContents DEF InitStore, InitConfig, IInvStore, TypeOKStore, FileIsWhole,
   WrittenBeforeRenamed, OnlyKillsLeaveLitter, Step

-----------------------------------------------------------------------------
LEMMA StepStore == IInvStore /\ [NextStore]_storeVars => IInvStore'
<1> SUFFICES ASSUME IInvStore, [NextStore]_storeVars PROVE IInvStore'
    OBVIOUS
<1> USE DEF IInvStore, FileIsWhole, OnlyKillsLeaveLitter
<1>1. ASSUME NEW c \in Caller, NEW i \in Id, NEW v \in Value \cup {Absent},
             PutOrDelete(c, i, v)
      PROVE  IInvStore'
  <2>1. [memory EXCEPT ![i] = v] \in Contents
    BY DEF TypeOKStore, Contents
  <2> QED
    BY <1>1, <2>1 DEF PutOrDelete, Goto, TypeOKStore, WrittenBeforeRenamed, Step
<1>2. ASSUME NEW c \in Caller, Encode(c) \/ CreateTemp(c) PROVE IInvStore'
    BY <1>2 DEF Encode, CreateTemp, Goto, TypeOKStore, WrittenBeforeRenamed, Step
<1>3. ASSUME NEW c \in Caller, Write(c) PROVE IInvStore'
    BY <1>3 DEF Write, Goto, TypeOKStore, WrittenBeforeRenamed, Step
<1>4. ASSUME NEW c \in Caller, CloseTemp(c) \/ Fail(c) PROVE IInvStore'
    BY <1>4 DEF CloseTemp, Fail, Goto, TypeOKStore, WrittenBeforeRenamed, Step
<1>5. ASSUME NEW c \in Caller, Rename(c) PROVE IInvStore'
  <2>1. temp[c] = data[c] /\ data[c] \in Contents
    BY <1>5 DEF Rename, Goto, WrittenBeforeRenamed, TypeOKStore
  <2> QED
    BY <1>5, <2>1 DEF Rename, Goto, TypeOKStore, WrittenBeforeRenamed, Step
<1>6. ASSUME NEW c \in Caller, Return(c) PROVE IInvStore'
    BY <1>6, EmptyIsContents DEF Return, TypeOKStore, WrittenBeforeRenamed, Step
<1>7. CASE Kill
    BY <1>7, EmptyIsContents DEF Kill, TypeOKStore, WrittenBeforeRenamed, Step
<1>8. CASE Load
    BY <1>8 DEF Load, TypeOKStore, WrittenBeforeRenamed
<1>9. CASE UNCHANGED storeVars
    BY <1>9 DEF storeVars, TypeOKStore, WrittenBeforeRenamed
<1> QED
    BY <1>1, <1>2, <1>3, <1>4, <1>5, <1>6, <1>7, <1>8, <1>9 DEF NextStore, Save

LEMMA AlwaysStore == SpecStore => []IInvStore
BY InitStoreWell, StepStore, PTL DEF SpecStore

(* Every step of a Put, Delete, Save, kill and start keeps the store's     *)
(* fields what they are.                                                   *)
THEOREM StoreTyped == SpecStore => []TypeOKStore
<1>1. IInvStore => TypeOKStore
    BY DEF IInvStore
<1> QED
    BY <1>1, AlwaysStore, PTL

(* config/profiles.go, Save: a crash cannot leave a truncated config       *)
(* behind, whatever else is being saved at the time.                       *)
THEOREM FileStaysWhole == SpecStore => []FileIsWhole
<1>1. IInvStore => FileIsWhole
    BY DEF IInvStore
<1> QED
    BY <1>1, AlwaysStore, PTL

(* writeFilePrivate removes its temporary file unless the program is       *)
(* killed first.                                                           *)
THEOREM NoLitterButAfterAKill == SpecStore => []OnlyKillsLeaveLitter
<1>1. IInvStore => OnlyKillsLeaveLitter
    BY DEF IInvStore
<1> QED
    BY <1>1, AlwaysStore, PTL

-----------------------------------------------------------------------------
(* PADL saves from the UI thread only: there is one caller. While it is in *)
(* Save nothing changes what it has encoded, and a program that is not     *)
(* running saves nothing.                                                  *)
OneCaller == \E c : Caller = {c}

EncodedIsMemory ==
    \A c \in Caller :
        /\ pc[c] \in {"create", "write", "close", "rename"} => data[c] = memory
        /\ ~running => pc[c] = "idle"

(* A Save that has renamed, or is over without an error, left the file as  *)
(* memory is.                                                              *)
SavedIsMemory ==
    \A c \in Caller :
        /\ pc[c] = "done" => file = memory
        /\ running /\ pc[c] = "idle" /\ ~unsaved => file = memory

OneInv == IInvStore /\ EncodedIsMemory /\ SavedIsMemory

LEMMA OneInit == InitStore => OneInv
BY InitStoreWell DEF InitStore, InitConfig, OneInv, EncodedIsMemory, SavedIsMemory

LEMMA OneStep ==
    ASSUME OneCaller
    PROVE  OneInv /\ [NextStore]_storeVars => OneInv'
<1> SUFFICES ASSUME OneInv, [NextStore]_storeVars PROVE EncodedIsMemory' /\ SavedIsMemory'
    BY StepStore DEF OneInv
<1>0. PICK c : Caller = {c}
    BY DEF OneCaller
<1> USE <1>0 DEF OneInv, IInvStore, TypeOKStore, EncodedIsMemory, SavedIsMemory, Goto
<1>1. CASE \E i \in Id, v \in Value \cup {Absent} : PutOrDelete(c, i, v)
    BY <1>1 DEF PutOrDelete
<1>2. CASE Encode(c) \/ CreateTemp(c) \/ Write(c) \/ CloseTemp(c)
    BY <1>2 DEF Encode, CreateTemp, Write, CloseTemp
<1>3. CASE Rename(c)
    BY <1>3 DEF Rename, WrittenBeforeRenamed
<1>4. CASE Fail(c) \/ Return(c)
    BY <1>4 DEF Fail, Return
<1>5. CASE Kill
  <2>1. running' = FALSE /\ \A d \in Caller : pc'[d] = "idle"
    BY <1>5 DEF Kill
  <2> QED
    BY <2>1
<1>6. CASE Load
  <2>1. ~running /\ memory' = file /\ UNCHANGED <<file, pc>>
    BY <1>6 DEF Load
  <2>2. pc[c] = "idle"
    BY <2>1
  <2> QED
    BY <2>1, <2>2
<1>7. CASE UNCHANGED storeVars
    BY <1>7 DEF storeVars
<1> QED
    BY <1>1, <1>2, <1>3, <1>4, <1>5, <1>6, <1>7 DEF NextStore, Save

(* Every step is a change, a commit, a reload or none of them: the rename  *)
(* is the instant a change is on disk.                                     *)
LEMMA OneStepIsAllowed ==
    ASSUME OneCaller
    PROVE  OneInv /\ [NextStore]_storeVars => [Change \/ Commit \/ Reload]_configVars
<1> SUFFICES ASSUME OneInv, [NextStore]_storeVars
             PROVE  [Change \/ Commit \/ Reload]_configVars
    OBVIOUS
<1>0. PICK c : Caller = {c}
    BY DEF OneCaller
<1> USE <1>0 DEF configVars
<1>1. ASSUME NEW i \in Id, NEW v \in Value \cup {Absent}, PutOrDelete(c, i, v)
      PROVE  Change
    BY <1>1 DEF PutOrDelete, Change
<1>2. CASE Rename(c)
  <2>1. file' = memory
    BY <1>2 DEF Rename, Goto, OneInv, EncodedIsMemory, IInvStore, WrittenBeforeRenamed
  <2> QED
    BY <1>2, <2>1 DEF Rename, Commit
<1>3. CASE Load
    BY <1>3 DEF Load, Reload
<1>4. CASE \/ Encode(c) \/ CreateTemp(c) \/ Write(c) \/ CloseTemp(c)
           \/ Fail(c) \/ Return(c) \/ Kill \/ UNCHANGED storeVars
    BY <1>4 DEF Encode, CreateTemp, Write, CloseTemp, Fail, Return, Kill, storeVars
<1> QED
    BY <1>1, <1>2, <1>3, <1>4 DEF NextStore, Save

(* A Put or Delete, a kill at any point of it and a start afterwards are   *)
(* to the owner of the file what SavedConfig says.                         *)
THEOREM StoreImplementsSavedConfig ==
    ASSUME OneCaller
    PROVE  SpecStore => ImplementsSavedConfig
<1>1. InitStore => InitConfig
    BY DEF InitStore
<1> QED
    BY <1>1, OneInit, OneStep, OneStepIsAllowed, PTL
       DEF SpecStore, SpecConfig, ImplementsSavedConfig

(* config/profiles.go, Put and Delete: once the last one has returned and  *)
(* has not failed, the file is what memory is.                             *)
THEOREM StoreIsSavedWhenQuiet ==
    ASSUME OneCaller
    PROVE  SpecStore => []SavedWhenQuiet
<1>1. OneInv => SavedWhenQuiet
    BY DEF OneInv, SavedIsMemory, SavedWhenQuiet, OneCaller
<1> QED
    BY <1>1, OneInit, OneStep, PTL DEF SpecStore
=============================================================================
