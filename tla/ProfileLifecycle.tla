-------------------------- MODULE ProfileLifecycle --------------------------
(***************************************************************************)
(* A profile from the form that makes it to its deletion: the server list, *)
(* the form, the delete confirmation and the bookmarks of app.go, over the *)
(* profile store, the trust store and the keychain. All of it runs on the  *)
(* UI thread; what makes it hard are the copies. The server list shows the *)
(* profiles of when it was opened, the form edits one of those, and        *)
(* App.profile is the profile of when its connection was adopted.          *)
(*                                                                         *)
(* A store's file is written whole or not at all (ConfigStore). A dial is  *)
(* one step here: what it can cross with is Session's subject.             *)
(***************************************************************************)
EXTENDS FiniteSets

CONSTANTS ProfileId, \* profile ids
          Server,   \* what a form can change: host, bind, base...
          Dn,       \* entries to bookmark
          Fallible  \* which calls can fail: "save", "pin", "forget"

ProfileRecord   == [server : Server, bookmarks : SUBSET Dn]
NoRecord == [server |-> "none", bookmarks |-> {}]
NoId     == "none"

ASSUME LifecycleAssumption ==
    /\ NoId \notin ProfileId /\ NoRecord \notin ProfileRecord
    /\ Fallible \subseteq {"save", "pin", "forget"}

VARIABLES
    screen,     \* the dialog that has the keyboard, or "main"
    listed,     \* the profiles the server list was built from
    form,       \* the id of the profile being edited or deleted, NoId for a new one
    profiles,   \* Store.profiles
    onDisk,     \* profiles.yaml
    pins,       \* TrustStore.pins: the ids that have one
    pinsOnDisk, \* and in trust.yaml
    keychain,   \* ids with a password in the keychain
    inherited,  \* ids whose pin was there before their profile was added
    current,    \* the id of App.profile, NoId when not connected
    profile,    \* App.profile
    troubled    \* a file was not written or a password not dropped

pinVars  == <<pins, pinsOnDisk>>
keptVars == <<profiles, onDisk, pinVars, keychain, inherited, troubled>>
openVars == <<current, profile>>
lifeVars == <<screen, listed, form, keptVars, openVars>>

Screen == {"main", "list", "form", "confirm", "bookmarks"}

InitLife ==
    /\ screen = "list" /\ form = NoId
    /\ profiles = [i \in ProfileId |-> NoRecord]
    /\ listed = profiles /\ onDisk = profiles
    /\ pins = {} /\ pinsOnDisk = {} /\ keychain = {} /\ inherited = {}
    /\ current = NoId /\ profile = NoRecord
    /\ troubled = FALSE

Known(i) == profiles[i] # NoRecord

-----------------------------------------------------------------------------
(* Put and Delete: memory changes, and then the file if it can be written. *)
Put(i, p)    == profiles' = [profiles EXCEPT ![i] = p]
Saved        == onDisk' = profiles' /\ UNCHANGED troubled
SaveFailed   == "save" \in Fallible /\ onDisk' = onDisk /\ troubled' = TRUE

(* openProfiles: the list is a snapshot.                                   *)
ShowList(ps) == screen' = "list" /\ listed' = ps /\ form' = NoId

OpenProfiles ==
    /\ screen = "main"
    /\ ShowList(profiles)
    /\ UNCHANGED <<keptVars, openVars>>

(* e, and d, on a row of the list; a.                                      *)
OpenForm(i) ==
    /\ screen = "list" /\ listed[i] # NoRecord
    /\ screen' \in {"form", "confirm"} /\ form' = i
    /\ UNCHANGED <<listed, keptVars, openVars>>

OpenNewForm ==
    /\ screen = "list"
    /\ screen' = "form" /\ form' = NoId
    /\ UNCHANGED <<listed, keptVars, openVars>>

(* Esc: back to the list, or out of it.                                    *)
Dismiss ==
    /\ screen # "main"
    /\ screen' = IF screen \in {"form", "confirm"} THEN "list" ELSE "main"
    /\ form' = NoId
    /\ UNCHANGED <<listed, keptVars, openVars>>

(* A slip: the form fills in a new profile.                                *)
EditedAfresh(i, s) == [server |-> s, bookmarks |-> {}]

(* The form changes the profile it was opened on.                          *)
Edited(i, s) == [server |-> s, bookmarks |-> listed[i].bookmarks]

(* Save in the form of profile i. It edits the profile as listed; when the *)
(* file cannot be written the form stays, and the list under it is as old  *)
(* as it was.                                                              *)
SaveEdit(i, s) ==
    /\ screen = "form" /\ form = i
    /\ Put(i, Edited(i, s))
    /\ \/ Saved /\ ShowList(profiles')
       \/ SaveFailed /\ UNCHANGED <<screen, listed, form>>
    /\ UNCHANGED <<pinVars, keychain, inherited, openVars>>

(* Save in the form of a new profile, under any id typed into it, one that *)
(* is taken too.                                                           *)
SaveNew(i, s) ==
    /\ screen = "form" /\ form = NoId
    /\ Put(i, [server |-> s, bookmarks |-> {}])
    /\ \/ Saved /\ ShowList(profiles')
       \/ SaveFailed /\ UNCHANGED <<screen, listed, form>>
    /\ inherited' = IF Known(i) THEN inherited ELSE inherited \cup ({i} \cap pins)
    /\ UNCHANGED <<pinVars, keychain, openVars>>

(* Whether a call goes well; a pin or password that is not dropped is only *)
(* a warning to the operator.                                              *)
Outcomes(call) == IF call \in Fallible THEN BOOLEAN ELSE {TRUE}

(* TrustStore.Set and Delete: memory changes, and then the file.           *)
PutPins(ids, well) == pins' = ids /\ pinsOnDisk' = IF well THEN ids ELSE pinsOnDisk

ForgetPin(i, well)      == PutPins(pins \ {i}, well)
ForgetPassword(i, well) == keychain' = IF well THEN keychain \ {i} ELSE keychain

(* Slips of Delete: the pin stays; the pin goes before the file is saved.   *)
DeleteKeepingPin(i) ==
    /\ screen = "confirm" /\ form = i
    /\ Put(i, NoRecord)
    /\ \/ /\ onDisk' = profiles' /\ ShowList(profiles')
          /\ UNCHANGED pinVars
          /\ \E forgotten \in Outcomes("forget") :
                /\ ForgetPassword(i, forgotten)
                /\ troubled' = (troubled \/ ~forgotten)
       \/ /\ SaveFailed
          /\ screen' = "list" /\ form' = NoId
          /\ UNCHANGED <<listed, pinVars, keychain>>
    /\ inherited' = inherited \cap pins'
    /\ UNCHANGED openVars

DeletePinFirst(i) ==
    /\ screen = "confirm" /\ form = i
    /\ Put(i, NoRecord)
    /\ \E unpinned \in Outcomes("pin"), forgotten \in Outcomes("forget") :
          /\ ForgetPin(i, unpinned)
          /\ \/ /\ onDisk' = profiles' /\ ShowList(profiles')
                /\ ForgetPassword(i, forgotten)
                /\ troubled' = (troubled \/ ~unpinned \/ ~forgotten)
             \/ /\ SaveFailed
                /\ screen' = "list" /\ form' = NoId
                /\ UNCHANGED <<listed, keychain>>
    /\ inherited' = inherited \cap pins'
    /\ UNCHANGED openVars

(* confirmDelete: profile, pin, password, in this order; a failure to save *)
(* ends it.                                                                *)
Delete(i) ==
    /\ screen = "confirm" /\ form = i
    /\ Put(i, NoRecord)
    /\ \/ /\ onDisk' = profiles' /\ ShowList(profiles')
          /\ \E unpinned \in Outcomes("pin"),
                forgotten \in Outcomes("forget") :
                /\ ForgetPin(i, unpinned) /\ ForgetPassword(i, forgotten)
                /\ troubled' = (troubled \/ ~unpinned \/ ~forgotten)
       \/ /\ SaveFailed
          /\ screen' = "list" /\ form' = NoId
          /\ UNCHANGED <<listed, pinVars, keychain>>
    /\ inherited' = inherited \cap pins'
    /\ UNCHANGED openVars

-----------------------------------------------------------------------------
(* Enter in the list: a connection to the profile as listed. On the way    *)
(* the operator may pin a certificate and save a password.                 *)
Connect(i) ==
    /\ screen = "list" /\ listed[i] # NoRecord
    /\ screen' = "main"
    /\ current' = i /\ profile' = listed[i]
    /\ \/ UNCHANGED <<pinVars, inherited>>
       \/ PutPins(pins \cup {i}, TRUE) /\ inherited' = inherited \ {i}
    /\ keychain' \in {keychain, keychain \cup {i}}
    /\ UNCHANGED <<listed, form, profiles, onDisk, troubled>>

(* The accepted pin could not be written, and PADL does not dial again.    *)
PinNotSaved(i) ==
    /\ screen = "list" /\ listed[i] # NoRecord /\ "pin" \in Fallible
    /\ screen' = "main" /\ troubled' = TRUE
    /\ PutPins(pins \cup {i}, FALSE) /\ inherited' = inherited \ {i}
    /\ UNCHANGED <<listed, form, profiles, onDisk, keychain, openVars>>

CloseConnection ==
    /\ screen = "main" /\ current # NoId
    /\ current' = NoId
    /\ UNCHANGED <<screen, listed, form, profile, keptVars>>

Toggled(p, d) ==
    [p EXCEPT !.bookmarks = IF d \in @ THEN @ \ {d} ELSE @ \cup {d}]

(* Put of App.profile with d toggled, and App.profile follows if it went   *)
(* well.                                                                   *)
PutCurrent(d) ==
    /\ Put(current, Toggled(profile, d))
    /\ \/ Saved /\ profile' = Toggled(profile, d)
       \/ SaveFailed /\ UNCHANGED profile

(* b on an entry.                                                          *)
ToggleBookmark(d) ==
    /\ screen = "main" /\ current # NoId
    /\ PutCurrent(d)
    /\ UNCHANGED <<screen, listed, form, pinVars, keychain, inherited, current>>

OpenBookmarks ==
    /\ screen = "main" /\ current # NoId
    /\ screen' = "bookmarks"
    /\ UNCHANGED <<listed, form, keptVars, openVars>>

(* d in the list of bookmarks, which is then opened again.                 *)
DeleteBookmark(d) ==
    /\ screen = "bookmarks" /\ d \in profile.bookmarks
    /\ PutCurrent(d)
    /\ UNCHANGED <<screen, listed, form, pinVars, keychain, inherited, current>>

(* The program ends and is started again, with the pins of trust.yaml: one *)
(* that was dropped from memory only comes back.                           *)
Restart ==
    /\ profiles' = onDisk
    /\ ShowList(onDisk)
    /\ current' = NoId /\ profile' = NoRecord
    /\ pins' = pinsOnDisk
    /\ inherited' = (inherited \cap pinsOnDisk)
                    \cup {i \in pinsOnDisk \ pins : onDisk[i] # NoRecord}
    /\ UNCHANGED <<onDisk, pinsOnDisk, keychain, troubled>>

NextLife ==
    \/ OpenProfiles \/ OpenNewForm \/ Dismiss \/ CloseConnection \/ OpenBookmarks
    \/ Restart
    \/ \E i \in ProfileId : \/ OpenForm(i) \/ Delete(i) \/ Connect(i) \/ PinNotSaved(i)
                     \/ \E s \in Server : SaveEdit(i, s) \/ SaveNew(i, s)
    \/ \E d \in Dn : ToggleBookmark(d) \/ DeleteBookmark(d)

SpecLife == InitLife /\ [][NextLife]_lifeVars

-----------------------------------------------------------------------------
TypeOKLife ==
    /\ screen \in Screen
    /\ {listed, profiles, onDisk} \subseteq [ProfileId -> ProfileRecord \cup {NoRecord}]
    /\ form \in ProfileId \cup {NoId} /\ current \in ProfileId \cup {NoId}
    /\ profile \in ProfileRecord \cup {NoRecord}
    /\ troubled \in BOOLEAN
    /\ pins \cup pinsOnDisk \cup keychain \subseteq ProfileId /\ inherited \subseteq pins

(* "Its pinned certificate and saved password go with it" (confirmDelete): *)
(* while no call fails, nothing is on file for a profile that is not, over *)
(* any sequence of edits, connections, bookmarks and restarts.             *)
NothingOutlivesItsProfile ==
    TypeOKLife /\ (~troubled => \A i \in pins \cup pinsOnDisk \cup keychain : Known(i))

(* The form was filled when it was opened, the bookmarks live elsewhere:   *)
(* saving an edited profile loses none and brings none back, until a save  *)
(* has failed: then the list under the form is not built again.            *)
EditsKeepBookmarks ==
    [][\A i \in ProfileId, s \in Server : ~troubled /\ SaveEdit(i, s) /\ Known(i)
            => profiles'[i].bookmarks = profiles[i].bookmarks]_lifeVars

(* "toggleBookmark saves or unsaves the selected DN on the current         *)
(* profile": that, and nothing else about any profile.                     *)
BookmarksChangeOnlyThemselves ==
    [][\A d \in Dn : ToggleBookmark(d)
            => profiles' = [profiles EXCEPT ![current] = Toggled(@, d)]]_lifeVars

(* A deletion that could not be saved, which a restart will undo, has not  *)
(* taken the pin or the password along.                                    *)
FailedDeleteTakesNothing ==
    [][\A i \in ProfileId : Delete(i) /\ onDisk'[i] # NoRecord
            => UNCHANGED <<pinVars, keychain>>]_lifeVars

(* "leaving them behind would silently attach to a later profile that      *)
(* happens to reuse the name" (confirmDelete): no profile that is added    *)
(* finds the pin of one that was deleted.                                  *)
NoInheritedPin == inherited = {}
=============================================================================
