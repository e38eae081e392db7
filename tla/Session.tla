------------------------------ MODULE Session ------------------------------
(***************************************************************************)
(* Connecting and disconnecting: internal/ui/app.go's connect, dial,       *)
(* promptTrust, adopt, disconnect and the dialogs that lead there, with    *)
(* the trust decision of internal/ldapx/tls.go.                            *)
(*                                                                         *)
(* It composes with AsyncWork, the abstract pool of background work: a     *)
(* dial and a directory read are pieces of work, begun by the UI thread    *)
(* and delivered to it later. Goroutines read App.dir without a lock, so   *)
(* adopt and an answer whose callback reads on take the UI thread several  *)
(* steps here (busy), and so does disconnect (closing): it closes the      *)
(* connection App.dir is on before it resets App.dir.                      *)
(***************************************************************************)
EXTENDS AsyncWork, Sequences, FiniteSets

CONSTANTS Profile,      \* profile ids
          Cert,         \* certificates a server may present
          Roots,        \* those that verify against the system roots
          NoProfile,    \* the zero Profile
          NoPin         \* no pin on file

ASSUME SessionAssumption ==
    /\ MaxTasks \in Nat
    /\ Roots \subseteq Cert
    /\ NoPin \notin Cert
    /\ NoProfile \notin Profile

NoDir           == 0    \* App.dir is nil; a Directory is named by its dial
MaxTrustRetries == 2

Op      == {"none", "read", "dial"}
Answer  == {"none", "called", "open", "untrusted", "failed", "done"}
Dialogs == {"profiles", "confirm", "password", "trust", "error"}
Focus   == {"pane", "dialog"}

(* What a dial carries along, from prompt to retry.                        *)
Request == [profile : Profile \cup {NoProfile}, pin : Cert \cup {NoPin},
            save : BOOLEAN, attempt : 0 .. MaxTrustRetries]
NoRequest == [profile |-> NoProfile, pin |-> NoPin, save |-> FALSE, attempt |-> 0]

(* One entry of App.modals: what it asks, about which request and which    *)
(* certificate, and whether closing it returns to a pane or a dialog.      *)
Dialog == [what : Dialogs, req : Request, cert : Cert \cup {NoPin}, restore : Focus]

VARIABLES
    op,          \* op[w]: what work w is
    req,         \* req[w]: the arguments of a dial
    home,        \* home[w]: App.dir when w was begun
    called,      \* called[w]: App.dir as w's goroutine read it, for a read
    answer,      \* answer[w]: what the work has come back with
    peer,        \* peer[w]: the certificate the dial was shown
    open,        \* Directories whose connection is open
    dir,         \* App.dir
    profile,     \* App.profile, its id
    busy,        \* the connection the UI thread is adopting, or acting on an
                 \* answer from; NoDir between events
    closing,     \* disconnect has closed App.dir and not reset it yet
    modals,      \* App.modals, the top dialog last
    focus,       \* does the top dialog or one of the panes have the keyboard
    listed,      \* the profiles the server list was opened with
    profiles,    \* ids in the profile store
    pins,        \* pins[p]: the trust store's pin for p
    keychain,    \* profiles with a saved password
    accepted,    \* accepted[p]: certificates the operator accepted for p
    crashed      \* a goroutine called a method of the nil Directory

workVars == <<op, req, home, called, answer, peer>>
connVars == <<open, dir, profile, busy, closing>>
uiVars   == <<modals, focus, listed>>
diskVars == <<profiles, pins, keychain, accepted>>
sessionVars == <<vars, workVars, connVars, uiVars, diskVars, crashed>>

InitSession ==
    /\ Init
    /\ op = [w \in Work |-> "none"]
    /\ req = [w \in Work |-> NoRequest]
    /\ home = [w \in Work |-> NoDir]
    /\ called = [w \in Work |-> NoDir]
    /\ answer = [w \in Work |-> "none"]
    /\ peer = [w \in Work |-> NoPin]
    /\ open = {}
    /\ dir = NoDir
    /\ profile = NoProfile
    /\ busy = NoDir
    /\ closing = FALSE
    /\ modals = <<>>
    /\ focus = "pane"
    /\ listed = {}
    /\ profiles = Profile
    /\ pins = [p \in Profile |-> NoPin]
    /\ keychain = {}
    /\ accepted = [p \in Profile |-> {}]
    /\ crashed = FALSE

-----------------------------------------------------------------------------
(* Dialogs.                                                                *)

(* The UI thread is between events, or in the middle of one.               *)
UIFree   == ~crashed /\ ~closing /\ busy = NoDir
UIBusy   == ~crashed /\ ~closing /\ busy # NoDir
PaneKey  == UIFree /\ focus = "pane"     \* a key reaches the panes
AppKey   == PaneKey /\ modals = <<>>     \* and globalKeys does not stand down
Top      == modals[Len(modals)]
(* A key reaches the top dialog, which asks about what.                    *)
DialogKey(what) ==
    UIFree /\ focus = "dialog" /\ modals # <<>> /\ Top.what = what

Below == SubSeq(modals, 1, Len(modals) - 1)

(* openModal on the stack s with the keyboard at f.                        *)
Opened(s, f, what, r, c) ==
    Append(s, [what |-> what, req |-> r, cert |-> c, restore |-> f])

Open(what, r, c) ==
    /\ modals' = Opened(modals, focus, what, r, c)
    /\ focus' = "dialog"

(* closeModal of the top dialog, then openModal of another.                *)
Close == modals' = Below /\ focus' = Top.restore
Replace(what, r, c) ==
    /\ modals' = Opened(Below, Top.restore, what, r, c)
    /\ focus' = "dialog"

(* p, or c with nothing connected: the server list.                        *)
OpenProfiles ==
    /\ AppKey
    /\ Open("profiles", NoRequest, NoPin)
    /\ listed' = profiles
    /\ UNCHANGED <<vars, workVars, connVars, diskVars, crashed>>

(* d in the server list. (a and e, the profile form, change no pin and no  *)
(* connection and are left out.)                                           *)
OpenConfirm ==
    /\ DialogKey("profiles")
    /\ \E p \in listed :
          Open("confirm", [NoRequest EXCEPT !.profile = p], NoPin)
    /\ UNCHANGED <<vars, workVars, connVars, listed, diskVars, crashed>>

(* Esc, cancel or reject in any dialog, or the only button of an error.    *)
Dismiss ==
    /\ \E what \in Dialogs : DialogKey(what)
    /\ Close
    /\ UNCHANGED <<vars, workVars, connVars, listed, diskVars, crashed>>

(* confirmDelete, confirmed: the profile, its pin and its password go, and *)
(* the list below is opened afresh, which leaves the stack as it was. When *)
(* the file cannot be written the profile is gone from memory all the same *)
(* (Store.Delete), and the rest is not attempted.                          *)
DeleteProfile ==
    /\ DialogKey("confirm")
    /\ profiles' = profiles \ {Top.req.profile}
    /\ \/ /\ pins' = [pins EXCEPT ![Top.req.profile] = NoPin]
          /\ keychain' \in {keychain, keychain \ {Top.req.profile}}
          /\ listed' = profiles'
          /\ Close
       \/ /\ Replace("error", NoRequest, NoPin)
          /\ UNCHANGED <<pins, keychain, listed>>
    /\ UNCHANGED <<vars, workVars, connVars, accepted, crashed>>

-----------------------------------------------------------------------------
(* Work.                                                                   *)

(* App.task on the UI thread: work w, an o with the arguments r, begins.   *)
(* Ids are handed out in order.                                            *)
BeginWork(w, o, r) ==
    /\ \A v \in Work : v < w => status[v] # "idle"
    /\ Begin(w, "none", {})
    /\ op' = [op EXCEPT ![w] = o]
    /\ req' = [req EXCEPT ![w] = r]
    /\ home' = [home EXCEPT ![w] = dir]
    /\ UNCHANGED <<called, answer, peer>>

(* dial: the pin is looked up now and used when the server is reached.     *)
Dial(p, save, attempt) ==
    \E w \in Work :
        BeginWork(w, "dial", [profile |-> p, pin |-> pins[p],
                              save |-> save, attempt |-> attempt])

(* Enter in the server list. Secrets.Lookup finds a password, asks for one *)
(* or fails.                                                               *)
Connect ==
    /\ DialogKey("profiles")
    /\ \E p \in listed :
          \/ Dial(p, FALSE, 0) /\ Close
          \/ /\ Replace("password", [NoRequest EXCEPT !.profile = p], NoPin)
             /\ UNCHANGED <<vars, workVars>>
          \/ /\ Replace("error", NoRequest, NoPin)
             /\ UNCHANGED <<vars, workVars>>
    /\ UNCHANGED <<connVars, listed, diskVars, crashed>>

SubmitPassword ==
    /\ DialogKey("password")
    /\ \E save \in BOOLEAN : Dial(Top.req.profile, save, 0)
    /\ Close
    /\ UNCHANGED <<connVars, listed, diskVars, crashed>>

(* promptTrust, accepted: pin the certificate and dial again; when the     *)
(* trust store cannot be written, the pin is in force but no dial follows. *)
AcceptCert ==
    /\ DialogKey("trust")
    /\ LET r == Top.req
           pinned == [pins EXCEPT ![r.profile] = Top.cert]
       IN  /\ pins' = pinned
           /\ accepted' = [accepted EXCEPT ![r.profile] = @ \cup {Top.cert}]
           /\ \/ /\ \E w \in Work :
                       BeginWork(w, "dial", [r EXCEPT !.pin = pinned[r.profile],
                                                      !.attempt = @ + 1])
                 /\ Close
              \/ /\ Replace("error", NoRequest, NoPin)
                 /\ UNCHANGED <<vars, workVars>>
    /\ UNCHANGED <<connVars, listed, profiles, keychain, crashed>>

(* Any directory call: expand, cursor move, search, export, root DSE.      *)
StartRead ==
    /\ PaneKey
    /\ dir # NoDir
    /\ \E w \in Work : BeginWork(w, "read", NoRequest)
    /\ UNCHANGED <<connVars, uiVars, diskVars, crashed>>

(* Work that has landed, or whose connection is closed, is garbage.        *)
Forget(w) ==
    /\ op' = [op EXCEPT ![w] = "none"]
    /\ req' = [req EXCEPT ![w] = NoRequest]
    /\ home' = [home EXCEPT ![w] = NoDir]
    /\ called' = [called EXCEPT ![w] = NoDir]
    /\ answer' = [answer EXCEPT ![w] = "none"]
    /\ peer' = [peer EXCEPT ![w] = NoPin]

(* The goroutine of a read evaluates a.dir; on nil the call panics.        *)
CallDir(w) ==
    /\ ~crashed
    /\ op[w] = "read" /\ status[w] = "running" /\ answer[w] = "none"
    /\ called' = [called EXCEPT ![w] = dir]
    /\ answer' = [answer EXCEPT ![w] = "called"]
    /\ crashed' = (dir = NoDir)
    /\ UNCHANGED <<vars, op, req, home, peer, connVars, uiVars, diskVars>>

ReadReturns(w) ==
    /\ ~crashed
    /\ answer[w] = "called"
    /\ answer' = [answer EXCEPT ![w] = "done"]
    /\ UNCHANGED <<vars, op, req, home, called, peer, connVars, uiVars, diskVars,
                   crashed>>

(* A slip: any pin on file lets the connection through.                    *)
VerifiesWithAnyPin(c, pin) == c \in Roots \/ pin # NoPin

(* verifyPeer: the system roots, or else exactly the pinned certificate.   *)
Verifies(c, pin) == c \in Roots \/ c = pin

(* The goroutine of a dial: Connect succeeds, stops at the certificate, or *)
(* fails (a cancelled one too, without a dialog: "done").                  *)
DialReturns(w) ==
    /\ ~crashed
    /\ op[w] = "dial" /\ status[w] = "running" /\ answer[w] = "none"
    /\ \/ \E c \in Cert :
             /\ peer' = [peer EXCEPT ![w] = c]
             /\ IF Verifies(c, req[w].pin)
                THEN /\ answer' = [answer EXCEPT ![w] = "open"]
                     /\ open' = open \cup {w}
                ELSE /\ answer' = [answer EXCEPT ![w] = "untrusted"]
                     /\ UNCHANGED open
       \/ /\ \E a \in {"failed", "done"} : answer' = [answer EXCEPT ![w] = a]
          /\ UNCHANGED <<peer, open>>
    /\ UNCHANGED <<vars, op, req, home, called, dir, profile, busy, closing,
                   uiVars, diskVars, crashed>>

-----------------------------------------------------------------------------
(* Landing.                                                                *)

Returned(w) == UIFree /\ answer[w] \notin {"none", "called"}

(* An update of an older generation: nothing of it is used.                *)
LandStale(w) ==
    /\ Returned(w)
    /\ born[w] # era
    /\ Discard(w)
    /\ Forget(w)
    /\ UNCHANGED <<connVars, uiVars, diskVars, crashed>>

(* A dial that was cancelled: a word in the status bar.                    *)
LandDone(w) ==
    /\ Returned(w)
    /\ op[w] = "dial" /\ answer[w] = "done"
    /\ Deliver(w)
    /\ Forget(w)
    /\ UNCHANGED <<connVars, uiVars, diskVars, crashed>>

(* A read's answer. Its callback may give the keyboard to a pane (search   *)
(* results, the end of a jump), and may read on (the root DSE, the steps of*)
(* a jump); a search that failed shows an error.                           *)
LandRead(w) ==
    /\ Returned(w)
    /\ op[w] = "read"
    /\ Deliver(w)
    /\ Forget(w)
    /\ \/ /\ focus' \in {focus, "pane"}
          /\ busy' \in {NoDir, dir}
          /\ UNCHANGED modals
       \/ /\ Open("error", NoRequest, NoPin)
          /\ UNCHANGED busy
    /\ UNCHANGED <<open, dir, profile, closing, listed, diskVars, crashed>>

(* A dial that failed shows an error; one that was shown an unknown        *)
(* certificate asks about it, unless it has asked often enough.            *)
LandRefused(w) ==
    /\ Returned(w)
    /\ Deliver(w)
    /\ \/ answer[w] = "failed" /\ Open("error", NoRequest, NoPin)
       \/ /\ answer[w] = "untrusted"
          /\ IF req[w].attempt >= MaxTrustRetries
             THEN UNCHANGED <<modals, focus>>
             ELSE Open("trust", [req[w] EXCEPT !.pin = NoPin], peer[w])
    /\ Forget(w)
    /\ UNCHANGED <<connVars, listed, diskVars, crashed>>

(* A dial that succeeded: adopt begins.                                    *)
LandOpen(w) ==
    /\ Returned(w)
    /\ answer[w] = "open"
    /\ Deliver(w)
    /\ busy' = w
    /\ UNCHANGED <<workVars, open, dir, profile, closing, uiVars, diskVars, crashed>>

(* A slip of disconnect: the generation is not retired.                    *)
CloseDirSameEra ==
    /\ dir # NoDir
    /\ open' = open \ {dir}
    /\ closing' = TRUE
    /\ UNCHANGED <<vars, workVars, dir>>

(* disconnect, with a connection: retire the generation, then close it.    *)
CloseDir ==
    /\ dir # NoDir
    /\ NewEra
    /\ open' = open \ {dir}
    /\ closing' = TRUE
    /\ UNCHANGED <<workVars, dir>>

(* A slip: App.dir is kept.                                                *)
ForgetDirKeepingIt ==
    /\ ~crashed /\ closing
    /\ closing' = FALSE
    /\ Forget(dir)
    /\ dir' \in {dir, NoDir}
    /\ UNCHANGED <<vars, open, profile, busy, uiVars, diskVars, crashed>>

(* disconnect, the last of it: App.dir is nil. Until then a goroutine that *)
(* evaluates a.dir calls a connection that is closed.                      *)
ForgetDir ==
    /\ ~crashed /\ closing
    /\ closing' = FALSE
    /\ Forget(dir)
    /\ dir' = NoDir
    /\ UNCHANGED <<vars, open, profile, busy, uiVars, diskVars, crashed>>

(* adopt, first half: disconnect.                                          *)
AdoptDisconnects ==
    /\ UIBusy /\ dir # busy
    /\ CloseDir
    /\ UNCHANGED <<profile, busy, uiVars, diskVars, crashed>>

(* adopt, second half: a new generation on the new connection, the password*)
(* goes to the keychain if that was asked for (it may refuse) and the      *)
(* keyboard to the tree, whatever has it (no event sees when, within adopt).*)
AdoptTakes ==
    /\ UIBusy /\ dir = NoDir
    /\ NewEra
    /\ dir' = busy
    /\ profile' = req[busy].profile
    /\ keychain' \in {keychain} \cup (IF req[busy].save
                                      THEN {keychain \cup {profile'}} ELSE {})
    /\ focus' = "pane"
    /\ UNCHANGED <<workVars, open, busy, closing, modals, listed, profiles, pins,
                   accepted, crashed>>

(* adopt's loadBases, and the callback of a read that reads on: one more   *)
(* read begins, or none (a server with nothing to list).                   *)
ReadOn ==
    /\ UIBusy /\ dir = busy
    /\ \/ \E w \in Work : BeginWork(w, "read", NoRequest)
       \/ UNCHANGED <<vars, workVars>>
    /\ busy' = NoDir
    /\ UNCHANGED <<open, dir, profile, closing, uiVars, diskVars, crashed>>

(* c while connected: toggleConnection.                                    *)
Disconnect ==
    /\ AppKey
    /\ CloseDir
    /\ UNCHANGED <<profile, busy, uiVars, diskVars, crashed>>

-----------------------------------------------------------------------------
UserStep ==
    \/ OpenProfiles \/ OpenConfirm \/ Dismiss \/ DeleteProfile
    \/ Connect \/ SubmitPassword \/ AcceptCert \/ StartRead \/ Disconnect

WorkStep(w) == CallDir(w) \/ ReadReturns(w) \/ DialReturns(w)

LandStep(w) ==
    LandStale(w) \/ LandDone(w) \/ LandRead(w) \/ LandRefused(w) \/ LandOpen(w)

BusyStep == AdoptDisconnects \/ AdoptTakes \/ ReadOn \/ ForgetDir

NextSession ==
    \/ UserStep
    \/ \E w \in Work : WorkStep(w) \/ LandStep(w)
    \/ BusyStep

SpecSession == InitSession /\ [][NextSession]_sessionVars

-----------------------------------------------------------------------------
(* Types; at most MaxTrustRetries certificate prompts per connect (req).   *)
TypeOKSession ==
    /\ status \in [Work -> Status] /\ kind \in [Work -> Kind]
    /\ born \in [Work -> Nat] /\ era \in Nat
    /\ op \in [Work -> Op] /\ req \in [Work -> Request]
    /\ home \in [Work -> Work \cup {NoDir}]
    /\ called \in [Work -> Work \cup {NoDir}]
    /\ answer \in [Work -> Answer] /\ peer \in [Work -> Cert \cup {NoPin}]
    /\ open \subseteq Work
    /\ dir \in Work \cup {NoDir} /\ busy \in Work \cup {NoDir}
    /\ profile \in Profile \cup {NoProfile}
    /\ modals \in Seq(Dialog) /\ focus \in Focus /\ listed \subseteq Profile
    /\ profiles \subseteq Profile /\ keychain \subseteq Profile
    /\ pins \in [Profile -> Cert \cup {NoPin}]
    /\ accepted \in [Profile -> SUBSET Cert]
    /\ closing \in BOOLEAN /\ crashed \in BOOLEAN

(* "Work started against one connection must not land on the next"         *)
(* (app.go:81-83). The code compares generations, not connections: work of *)
(* the current generation was begun on the current connection, at every    *)
(* moment of a disconnect or an adopt, so what passes the check is at home.*)
CurrentWorkIsAtHome ==
    \A w \in Work :
        op[w] = "read" /\ status[w] = "running" /\ born[w] = era => home[w] = dir

(* App.dir is a connection nobody has closed, except between the last two  *)
(* lines of a disconnect (app.go:655-656): what adopt takes over is open   *)
(* and stays so while it is dir. A goroutine may well call it in between,  *)
(* but its failure is "irrelevant now" (app.go:295-296): what called a     *)
(* connection closed since, or just before, is of a retired generation.    *)
DirIsOpen ==
    /\ dir # NoDir /\ ~closing => dir \in open
    /\ \A w \in Work : op[w] = "read" /\ status[w] = "running" /\ born[w] = era
                         => called[w] \in open \cup {NoDir}

(* Whoever PADL is connected to was verified by the system roots, or the   *)
(* operator accepted that very certificate for that very profile: across   *)
(* prompts, retries, dials in flight together and deleted profiles.        *)
ConnectedPeerIsTrusted ==
    dir # NoDir => peer[dir] \in Roots \cup accepted[profile]

(* "adopt takes ownership of a fresh connection" (app.go:753): a connection*)
(* a dial has opened is on its way to adopt, or is the one PADL is on. What*)
(* the generation check drops is not "irrelevant now" (app.go:295-296) when*)
(* the answer is an open connection.                                       *)
OpenConnectionsAreOwned ==
    \A w \in open : w \in {dir, busy} \/ status[w] = "running"

(* Work calls the connection it was begun against, or none (app.go:81-83). *)
WorkCallsItsConnection ==
    \A w \in Work : answer[w] = "called" => called[w] = home[w]

(* "While it is non-empty the global keys stand down so the dialog owns the*)
(* keyboard" (app.go:66-67): a dialog that is up has the keyboard.         *)
DialogOwnsKeyboard == UIFree /\ modals # <<>> => focus = "dialog"

(* The pin and the keychain entry are keyed by profile ID, so leaving them *)
(* behind "would silently attach to a later profile" (app.go:1051-1053):   *)
(* neither is ever written for a profile that is not in the store.         *)
NothingSavedForDeletedProfile ==
    [][\A p \in Profile :
          \/ pins'[p] \notin {NoPin, pins[p]}
          \/ p \in keychain' \ keychain
          => p \in profiles]_sessionVars
=============================================================================
