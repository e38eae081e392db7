---------------------------- MODULE SessionProofs ----------------------------
(***************************************************************************)
(* Proofs about Session: what PADL is connected to is open and trusted, and*)
(* work of the current generation is at home, for every number of profiles,*)
(* certificates and pieces of work.                                        *)
(***************************************************************************)
EXTENDS Session, SequenceTheorems, TLAPS

(* Dialogs as the program opens them: about a profile where they need one, *)
(* and a certificate prompt about a certificate, with a retry left.        *)
Asked == {d \in Dialog :
    /\ d.what \in {"confirm", "password", "trust"} => d.req.profile \in Profile
    /\ d.what = "trust" => d.cert \in Cert /\ d.req.attempt < MaxTrustRetries}

WorkTypes ==
    /\ status \in [Work -> Status] /\ kind \in [Work -> Kind]
    /\ born \in [Work -> Nat] /\ era \in Nat
    /\ op \in [Work -> Op] /\ req \in [Work -> Request]
    /\ home \in [Work -> Work \cup {NoDir}]
    /\ called \in [Work -> Work \cup {NoDir}]
    /\ answer \in [Work -> Answer] /\ peer \in [Work -> Cert \cup {NoPin}]
    /\ open \subseteq Work
    /\ dir \in Work \cup {NoDir} /\ busy \in Work \cup {NoDir}
    /\ profile \in Profile \cup {NoProfile} /\ closing \in BOOLEAN

DialogTypes ==
    /\ modals \in Seq(Asked) /\ focus \in Focus /\ listed \subseteq Profile
    /\ profiles \subseteq Profile /\ keychain \subseteq Profile
    /\ crashed \in BOOLEAN

(* A pin on file was accepted for its profile.                             *)
PinsAccepted ==
    /\ pins \in [Profile -> Cert \cup {NoPin}]
    /\ accepted \in [Profile -> SUBSET Cert]
    /\ \A p \in Profile : pins[p] # NoPin => pins[p] \in accepted[p]

(* So was the pin a dial was given.                                        *)
DialsCarryAcceptedPins ==
    \A w \in Work :
        op[w] = "dial" => /\ req[w].profile \in Profile
                          /\ \/ req[w].pin = NoPin
                             \/ req[w].pin \in accepted[req[w].profile]

(* Work begins with no answer, and only dials are asked to trust.          *)
AnswersFit ==
    \A w \in Work :
        /\ status[w] = "idle" => op[w] = "none"
        /\ op[w] = "none" => answer[w] = "none" /\ called[w] = NoDir
        /\ answer[w] \in {"open", "untrusted", "failed"} => op[w] = "dial"
        /\ answer[w] = "untrusted" => peer[w] \in Cert

(* A dial that came back with a connection keeps it open until disconnect  *)
(* closes it, which then forgets it, and its peer was verified.            *)
OpenIsTrusted ==
    \A w \in Work :
        answer[w] = "open" => /\ w \in open \/ (closing /\ w = dir)
                              /\ peer[w] \in Roots \cup accepted[req[w].profile]

(* What was adopted, or is being adopted, is a delivered dial with a       *)
(* connection: no landing can forget it.                                   *)
DirIsADial ==
    /\ \A d \in {dir, busy} \ {NoDir} :
          status[d] = "delivered" /\ answer[d] = "open"
    /\ dir # NoDir => profile = req[dir].profile

ErasInOrder == \A w \in Work : born[w] <= era

(* A read that will pass the generation check when it lands.               *)
Current(w) == op[w] = "read" /\ status[w] = "running" /\ born[w] = era

(* disconnect closes a connection that is not about to be adopted, and by  *)
(* then has retired every read that could find it closed.                  *)
ClosesBehindTheEra ==
    closing => /\ dir # NoDir /\ busy # dir
               /\ \A w \in Work : ~Current(w)

(* The second half of DirIsOpen.                                           *)
CurrentReadsCallOpen ==
    \A w \in Work : Current(w) => called[w] \in open \cup {NoDir}

(* The inductive invariant, the part without dialogs and then the whole.   *)
ConnInv ==
    /\ WorkTypes
    /\ PinsAccepted
    /\ DialsCarryAcceptedPins
    /\ AnswersFit
    /\ OpenIsTrusted
    /\ DirIsADial
    /\ ErasInOrder
    /\ CurrentWorkIsAtHome
    /\ ClosesBehindTheEra
    /\ CurrentReadsCallOpen

SInv == ConnInv /\ DialogTypes

-----------------------------------------------------------------------------
(* closeModal of the top dialog leaves dialogs as asked.                   *)
LEMMA TopAndBelow ==
    ASSUME modals \in Seq(Asked), modals # <<>>
    PROVE  Top \in Asked /\ Below \in Seq(Asked)
<1>1. Len(modals) \in Nat /\ Len(modals) # 0
  OBVIOUS
<1>2. \A i \in 1 .. Len(modals) : modals[i] \in Asked
  OBVIOUS
<1>3. Top \in Asked
  BY <1>1, <1>2 DEF Top
<1>4. Below \in Seq(Asked)
  <2>1. \A i \in 1 .. Len(modals) - 1 : modals[i] \in Asked
    BY <1>1, <1>2
  <2> QED
    BY <1>1, <2>1, SubSeqProperties DEF Below
<1> QED
  BY <1>3, <1>4

(* openModal keeps the stack one of dialogs as asked.                      *)
LEMMA OpenedIsAsked ==
    ASSUME NEW s \in Seq(Asked), NEW f \in Focus, NEW what \in Dialogs,
           NEW r \in Request, NEW c \in Cert \cup {NoPin},
           what \in {"confirm", "password", "trust"} => r.profile \in Profile,
           what = "trust" => c \in Cert /\ r.attempt < MaxTrustRetries
    PROVE  Opened(s, f, what, r, c) \in Seq(Asked)
<1>1. [what |-> what, req |-> r, cert |-> c, restore |-> f] \in Asked
  BY DEF Asked, Dialog
<1> QED
  BY <1>1 DEF Opened

(* The arguments of dialogs that ask about no dial.                        *)
LEMMA NoRequestIsRequest ==
    /\ NoRequest \in Request
    /\ \A p \in Profile : [NoRequest EXCEPT !.profile = p] \in Request
    /\ \A p \in Profile : [NoRequest EXCEPT !.profile = p].profile = p
<1>1. NoRequest \in Request
  BY DEF NoRequest, Request, MaxTrustRetries
<1>2. \A p \in Profile : [NoRequest EXCEPT !.profile = p] \in Request
  BY <1>1 DEF Request
<1>3. \A p \in Profile : [NoRequest EXCEPT !.profile = p].profile = p
  BY DEF NoRequest
<1> QED
  BY <1>1, <1>2, <1>3

-----------------------------------------------------------------------------
(* Beginning work.                                                         *)
LEMMA BeginKeepsConnInv ==
    ASSUME ConnInv, NEW w \in Work, NEW o \in {"read", "dial"}, NEW r \in Request,
           BeginWork(w, o, r),
           UNCHANGED <<open, dir, profile, closing>>, busy' \in {busy, NoDir}, ~closing,
           PinsAccepted', \A p \in Profile : accepted[p] \subseteq accepted'[p],
           o = "dial" => /\ r.profile \in Profile
                         /\ r.pin = NoPin \/ r.pin \in accepted'[r.profile]
    PROVE  ConnInv'
<1> USE DEF ConnInv, WorkTypes
<1>1. /\ status[w] = "idle" /\ op[w] = "none" /\ answer[w] = "none"
      /\ status' = [status EXCEPT ![w] = "running"]
      /\ kind' = [kind EXCEPT ![w] = "none"]
      /\ born' = [born EXCEPT ![w] = era]
      /\ op' = [op EXCEPT ![w] = o] /\ req' = [req EXCEPT ![w] = r]
      /\ home' = [home EXCEPT ![w] = dir]
      /\ UNCHANGED <<era, called, answer, peer>>
  BY DEF BeginWork, Begin, AnswersFit
<1>2. WorkTypes'
  BY <1>1 DEF Status, Kind, Op
<1>3. DialsCarryAcceptedPins'
  BY <1>1 DEF DialsCarryAcceptedPins, PinsAccepted
<1>4. AnswersFit'
  BY <1>1 DEF AnswersFit
<1>5. OpenIsTrusted'
  BY <1>1 DEF OpenIsTrusted, DialsCarryAcceptedPins, AnswersFit
<1>6. DirIsADial'
  BY <1>1 DEF DirIsADial
<1>7. ErasInOrder' /\ CurrentWorkIsAtHome'
  BY <1>1 DEF ErasInOrder, CurrentWorkIsAtHome
<1>8. called[w] = NoDir
  BY <1>1 DEF AnswersFit
<1>9. ClosesBehindTheEra' /\ CurrentReadsCallOpen'
  BY <1>1, <1>8 DEF ClosesBehindTheEra, CurrentReadsCallOpen, Current
<1> QED
  BY <1>2, <1>3, <1>4, <1>5, <1>6, <1>7, <1>9

(* Pins come and go without any work: an accepted one whose dial could not *)
(* follow, or those of a deleted profile.                                  *)
LEMMA PinsKeepConnInv ==
    ASSUME ConnInv, UNCHANGED <<vars, workVars, connVars>>, PinsAccepted',
           \A p \in Profile : accepted[p] \subseteq accepted'[p]
    PROVE  ConnInv'
<1> USE DEF ConnInv, vars, workVars, connVars
<1>1. WorkTypes' /\ AnswersFit' /\ DirIsADial' /\ ErasInOrder' /\ CurrentWorkIsAtHome'
  BY DEF WorkTypes, AnswersFit, DirIsADial, ErasInOrder, CurrentWorkIsAtHome
<1>2. DialsCarryAcceptedPins'
  BY DEF DialsCarryAcceptedPins
<1>3. OpenIsTrusted'
  BY DEF OpenIsTrusted, DialsCarryAcceptedPins, AnswersFit
<1>4. ClosesBehindTheEra' /\ CurrentReadsCallOpen'
  BY DEF ClosesBehindTheEra, CurrentReadsCallOpen, Current
<1> QED
  BY <1>1, <1>2, <1>3, <1>4

(* The goroutines.                                                         *)
LEMMA WorkKeepsConnInv ==
    ASSUME ConnInv, SessionAssumption, NEW w \in Work, WorkStep(w)
    PROVE  ConnInv'
<1> USE DEF ConnInv, WorkTypes
<1>1. UNCHANGED <<vars, op, req, home, dir, profile, busy, closing, pins, accepted>>
  BY DEF WorkStep, CallDir, ReadReturns, DialReturns, connVars, diskVars
<1>2. /\ PinsAccepted' /\ DialsCarryAcceptedPins' /\ ErasInOrder'
      /\ CurrentWorkIsAtHome' /\ ClosesBehindTheEra'
  BY <1>1 DEF PinsAccepted, DialsCarryAcceptedPins, ErasInOrder,
              CurrentWorkIsAtHome, ClosesBehindTheEra, Current, vars
<1>3. CASE CallDir(w) \/ ReadReturns(w)
  <2>1. /\ UNCHANGED <<peer, open>>
        /\ answer' \in {[answer EXCEPT ![w] = "called"], [answer EXCEPT ![w] = "done"]}
        /\ called' \in {called, [called EXCEPT ![w] = dir]}
        /\ answer[w] # "open" /\ op[w] # "none"
    BY <1>3 DEF CallDir, ReadReturns, connVars, AnswersFit
  <2>2. WorkTypes'
    BY <1>1, <2>1 DEF Answer, vars
  <2>3. AnswersFit' /\ OpenIsTrusted' /\ DirIsADial'
    BY <1>1, <2>1 DEF AnswersFit, OpenIsTrusted, DirIsADial, vars
  <2>4. Current(w) => dir \in open \cup {NoDir}
    BY DEF ClosesBehindTheEra, DirIsADial, OpenIsTrusted
  <2>5. CurrentReadsCallOpen'
    BY <1>1, <2>1, <2>4 DEF CurrentReadsCallOpen, Current, vars
  <2> QED
    BY <1>2, <2>2, <2>3, <2>5
<1>4. CASE DialReturns(w)
  <2>1. op[w] = "dial" /\ answer[w] = "none" /\ UNCHANGED called
    BY <1>4 DEF DialReturns
  <2>4. open \subseteq open'
    BY <1>4 DEF DialReturns
  <2>5. CurrentReadsCallOpen'
    BY <1>1, <2>1, <2>4 DEF CurrentReadsCallOpen, Current, vars
  <2>2. CASE \E c \in Cert :
                /\ peer' = [peer EXCEPT ![w] = c]
                /\ IF Verifies(c, req[w].pin)
                   THEN /\ answer' = [answer EXCEPT ![w] = "open"]
                        /\ open' = open \cup {w}
                   ELSE /\ answer' = [answer EXCEPT ![w] = "untrusted"]
                        /\ UNCHANGED open
    <3>1. PICK c \in Cert :
                /\ peer' = [peer EXCEPT ![w] = c]
                /\ IF Verifies(c, req[w].pin)
                   THEN /\ answer' = [answer EXCEPT ![w] = "open"]
                        /\ open' = open \cup {w}
                   ELSE /\ answer' = [answer EXCEPT ![w] = "untrusted"]
                        /\ UNCHANGED open
      BY <2>2
    <3>2. WorkTypes'
      BY <1>1, <2>1, <3>1 DEF Answer, vars
    <3>3. AnswersFit' /\ DirIsADial'
      BY <1>1, <2>1, <3>1 DEF AnswersFit, DirIsADial, vars
    <3>4. Verifies(c, req[w].pin) => c \in Roots \cup accepted[req[w].profile]
      BY <2>1, <3>1, SessionAssumption
         DEF Verifies, DialsCarryAcceptedPins, SessionAssumption
    <3>5. OpenIsTrusted'
      <4>1. CASE Verifies(c, req[w].pin)
        BY <1>1, <2>1, <3>1, <3>4, <4>1 DEF OpenIsTrusted, vars
      <4>2. CASE ~Verifies(c, req[w].pin)
        BY <1>1, <2>1, <3>1, <4>2 DEF OpenIsTrusted, vars
      <4> QED
        BY <4>1, <4>2
    <3> QED
      BY <1>2, <2>5, <3>2, <3>3, <3>5
  <2>3. CASE /\ \E a \in {"failed", "done"} : answer' = [answer EXCEPT ![w] = a]
             /\ UNCHANGED <<peer, open>>
    <3>1. PICK a \in {"failed", "done"} : answer' = [answer EXCEPT ![w] = a]
      BY <2>3
    <3>2. WorkTypes'
      BY <1>1, <2>1, <2>3, <3>1 DEF Answer, vars
    <3>3. AnswersFit' /\ OpenIsTrusted' /\ DirIsADial'
      BY <1>1, <2>1, <2>3, <3>1 DEF AnswersFit, OpenIsTrusted, DirIsADial, vars
    <3> QED
      BY <1>2, <2>5, <3>2, <3>3
  <2> QED
    BY <1>4, <2>2, <2>3 DEF DialReturns
<1> QED
  BY <1>3, <1>4 DEF WorkStep

(* Landings that leave nothing behind: the work that lands is not what was *)
(* adopted, as that was delivered before.                                  *)
LEMMA ForgetKeepsConnInv ==
    ASSUME ConnInv, NEW w \in Work, Deliver(w) \/ Discard(w), Forget(w),
           UNCHANGED <<open, dir, profile, closing, pins, accepted>>, ~closing,
           busy = NoDir, busy' \in {NoDir, dir}
    PROVE  ConnInv'
<1> USE DEF ConnInv, WorkTypes
<1>1. /\ status[w] \in {"running", "abandoned"}
      /\ status' \in {[status EXCEPT ![w] = "delivered"],
                      [status EXCEPT ![w] = "discarded"]}
      /\ UNCHANGED <<kind, born, era>>
  BY DEF Deliver, Discard
<1>2. WorkTypes'
  <2>1. NoRequest \in Request
    BY NoRequestIsRequest
  <2> QED
    BY <1>1, <2>1 DEF Forget, Status, Op, Answer
<1>3. PinsAccepted' /\ DialsCarryAcceptedPins'
  BY DEF PinsAccepted, DialsCarryAcceptedPins, Forget
<1>4. AnswersFit'
  BY <1>1 DEF AnswersFit, Forget
<1>5. OpenIsTrusted'
  BY DEF OpenIsTrusted, Forget
<1>6. DirIsADial'
  BY <1>1 DEF DirIsADial, Forget
<1>7. ErasInOrder' /\ CurrentWorkIsAtHome'
  BY <1>1 DEF ErasInOrder, CurrentWorkIsAtHome, Forget
<1>8. ClosesBehindTheEra' /\ CurrentReadsCallOpen'
  BY <1>1 DEF ClosesBehindTheEra, CurrentReadsCallOpen, Current, Forget
<1> QED
  BY <1>2, <1>3, <1>4, <1>5, <1>6, <1>7, <1>8

(* adopt begins with a delivered dial that has its connection.             *)
LEMMA LandOpenKeepsConnInv ==
    ASSUME ConnInv, NEW w \in Work, LandOpen(w)
    PROVE  ConnInv'
<1> USE DEF ConnInv, WorkTypes, LandOpen, workVars, uiVars, diskVars
<1>1. /\ status' = [status EXCEPT ![w] = "delivered"] /\ status[w] = "running"
      /\ busy' = w /\ answer[w] = "open" /\ ~closing
      /\ UNCHANGED <<kind, born, era>>
  BY DEF Deliver, Returned, UIFree
<1>2. WorkTypes'
  BY <1>1 DEF Status
<1>3. PinsAccepted' /\ DialsCarryAcceptedPins' /\ OpenIsTrusted'
  BY DEF PinsAccepted, DialsCarryAcceptedPins, OpenIsTrusted
<1>4. AnswersFit'
  BY <1>1 DEF AnswersFit
<1>5. DirIsADial'
  BY <1>1 DEF DirIsADial
<1>6. ErasInOrder' /\ CurrentWorkIsAtHome'
  BY <1>1 DEF ErasInOrder, CurrentWorkIsAtHome
<1>7. ClosesBehindTheEra' /\ CurrentReadsCallOpen'
  BY <1>1 DEF ClosesBehindTheEra, CurrentReadsCallOpen, Current
<1> QED
  BY <1>2, <1>3, <1>4, <1>5, <1>6, <1>7

(* disconnect: the era it retires leaves no current work behind, and what  *)
(* is being adopted is another connection.                                 *)
LEMMA CloseDirKeepsConnInv ==
    ASSUME ConnInv, CloseDir, ~closing, busy # dir,
           UNCHANGED <<profile, busy, pins, accepted>>
    PROVE  ConnInv'
<1> USE DEF ConnInv, WorkTypes, CloseDir, workVars
<1>1. /\ dir \in Work /\ dir' = dir /\ open' = open \ {dir} /\ closing'
      /\ era' = era + 1 /\ UNCHANGED <<status, kind, born>>
  BY DEF NewEra
<1>2. WorkTypes'
  BY <1>1
<1>3. PinsAccepted' /\ DialsCarryAcceptedPins' /\ AnswersFit' /\ DirIsADial'
  BY <1>1 DEF PinsAccepted, DialsCarryAcceptedPins, AnswersFit, DirIsADial
<1>4. OpenIsTrusted'
  BY <1>1 DEF OpenIsTrusted
<1>5. ErasInOrder' /\ CurrentWorkIsAtHome'
  BY <1>1 DEF ErasInOrder, CurrentWorkIsAtHome
<1>6. ClosesBehindTheEra' /\ CurrentReadsCallOpen'
  BY <1>1 DEF ErasInOrder, ClosesBehindTheEra, CurrentReadsCallOpen, Current
<1> QED
  BY <1>2, <1>3, <1>4, <1>5, <1>6

(* The end of it: what is forgotten is closed already.                     *)
LEMMA ForgetDirKeepsConnInv ==
    ASSUME ConnInv, ForgetDir
    PROVE  ConnInv'
<1> USE DEF ConnInv, WorkTypes, ForgetDir, diskVars
<1>1. /\ dir \in Work /\ dir' = NoDir /\ ~closing' /\ busy # dir
      /\ UNCHANGED <<status, kind, born, era>>
      /\ \A w \in Work : ~Current(w)
  BY DEF ClosesBehindTheEra, vars
<1>2. WorkTypes'
  <2>1. NoRequest \in Request
    BY NoRequestIsRequest
  <2> QED
    BY <1>1, <2>1 DEF Forget, Op, Answer
<1>3. PinsAccepted' /\ DialsCarryAcceptedPins'
  BY DEF PinsAccepted, DialsCarryAcceptedPins, Forget
<1>4. AnswersFit' /\ OpenIsTrusted'
  BY <1>1 DEF AnswersFit, OpenIsTrusted, Forget
<1>5. DirIsADial'
  BY <1>1 DEF DirIsADial, Forget
<1>6. \A w \in Work : ~Current(w)'
  BY <1>1 DEF Current, Forget
<1>7. /\ ErasInOrder' /\ CurrentWorkIsAtHome'
      /\ ClosesBehindTheEra' /\ CurrentReadsCallOpen'
  BY <1>1, <1>6 DEF ErasInOrder, CurrentWorkIsAtHome, ClosesBehindTheEra,
                    CurrentReadsCallOpen, Current
<1> QED
  BY <1>2, <1>3, <1>4, <1>5, <1>7

(* The new era, and the profile of the dial that is adopted.               *)
LEMMA AdoptTakesKeepsConnInv ==
    ASSUME ConnInv, AdoptTakes
    PROVE  ConnInv'
<1> USE DEF ConnInv, WorkTypes, AdoptTakes, workVars
<1>1. /\ busy \in Work /\ dir = NoDir /\ dir' = busy /\ ~closing /\ ~closing'
      /\ profile' = req[busy].profile
      /\ era' = era + 1 /\ UNCHANGED <<status, kind, born>>
  BY DEF NewEra, UIBusy
<1>2. WorkTypes'
  BY <1>1 DEF Request
<1>3. PinsAccepted' /\ DialsCarryAcceptedPins'
  BY DEF PinsAccepted, DialsCarryAcceptedPins
<1>4. AnswersFit' /\ OpenIsTrusted'
  <2>1. \A w \in Work : answer[w] = "open" => w \in open
    BY <1>1 DEF OpenIsTrusted
  <2>2. UNCHANGED <<open, answer, peer, req, accepted, op, called>>
    OBVIOUS
  <2> QED
    BY <1>1, <2>1, <2>2 DEF AnswersFit, OpenIsTrusted
<1>5. DirIsADial'
  BY <1>1 DEF DirIsADial
<1>6. ErasInOrder' /\ CurrentWorkIsAtHome'
  BY <1>1 DEF ErasInOrder, CurrentWorkIsAtHome
<1>7. ClosesBehindTheEra' /\ CurrentReadsCallOpen'
  BY <1>1 DEF ErasInOrder, ClosesBehindTheEra, CurrentReadsCallOpen, Current
<1> QED
  BY <1>2, <1>3, <1>4, <1>5, <1>6, <1>7

-----------------------------------------------------------------------------
(* The keys of a dialog. Each asks about what the dialog was opened with.  *)
LEMMA DialogKeyFacts ==
    ASSUME SInv, NEW what, DialogKey(what)
    PROVE  /\ busy = NoDir /\ ~crashed /\ ~closing
           /\ Top \in Asked /\ Top.what = what /\ Below \in Seq(Asked)
           /\ Top.req \in Request /\ Top.cert \in Cert \cup {NoPin}
           /\ Top.restore \in Focus
           /\ what \in {"confirm", "password", "trust"} => Top.req.profile \in Profile
           /\ what = "trust" => /\ Top.cert \in Cert
                               /\ Top.req.attempt < MaxTrustRetries
<1>1. modals \in Seq(Asked) /\ modals # <<>>
  BY DEF SInv, DialogTypes, DialogKey
<1>2. Top \in Asked /\ Below \in Seq(Asked)
  BY <1>1, TopAndBelow
<1> QED
  BY <1>2 DEF DialogKey, UIFree, Asked, Dialog

(* Steps that touch nothing but dialogs.                                   *)
LEMMA DialogStepKeepsSInv ==
    ASSUME SInv, OpenProfiles \/ OpenConfirm \/ Dismiss
    PROVE  SInv'
<1>1. ConnInv'
  <2>1. UNCHANGED <<vars, workVars, connVars, diskVars>>
    BY DEF OpenProfiles, OpenConfirm, Dismiss
  <2> QED
    BY <2>1, PinsKeepConnInv DEF SInv, ConnInv, PinsAccepted, diskVars
<1>2. CASE OpenProfiles
  <2>1. modals' \in Seq(Asked)
    BY <1>2, OpenedIsAsked, NoRequestIsRequest
       DEF OpenProfiles, Open, SInv, DialogTypes, Dialogs
  <2> QED
    BY <1>1, <1>2, <2>1 DEF OpenProfiles, Open, SInv, DialogTypes, Focus, diskVars
<1>3. CASE OpenConfirm
  <2>1. PICK p \in listed : Open("confirm", [NoRequest EXCEPT !.profile = p], NoPin)
    BY <1>3 DEF OpenConfirm
  <2>2. p \in Profile
    BY DEF SInv, DialogTypes
  <2>3. modals' \in Seq(Asked)
    BY <2>1, <2>2, OpenedIsAsked, NoRequestIsRequest DEF Open, SInv, DialogTypes, Dialogs
  <2> QED
    BY <1>1, <1>3, <2>1, <2>3 DEF OpenConfirm, Open, SInv, DialogTypes, Focus, diskVars
<1>4. CASE Dismiss
  <2>1. PICK what \in Dialogs : DialogKey(what)
    BY <1>4 DEF Dismiss
  <2>2. Below \in Seq(Asked) /\ Top.restore \in Focus
    BY <2>1, DialogKeyFacts
  <2> QED
    BY <1>1, <1>4, <2>2 DEF Dismiss, Close, SInv, DialogTypes, diskVars
<1> QED
  BY <1>2, <1>3, <1>4

(* Deleting a profile only takes pins away.                                *)
LEMMA DeleteProfileKeepsSInv ==
    ASSUME SInv, DeleteProfile
    PROVE  SInv'
<1> DEFINE p == Top.req.profile
<1>1. DialogKey("confirm")
  BY DEF DeleteProfile
<1>2. p \in Profile /\ Below \in Seq(Asked) /\ Top.restore \in Focus
  BY <1>1, DialogKeyFacts
<1>3. ConnInv'
  <2>1. /\ UNCHANGED <<vars, workVars, connVars, accepted>>
        /\ pins' \in {pins, [pins EXCEPT ![p] = NoPin]}
    BY DEF DeleteProfile
  <2>2. PinsAccepted'
    BY <1>2, <2>1 DEF SInv, ConnInv, PinsAccepted
  <2> QED
    BY <2>1, <2>2, PinsKeepConnInv DEF SInv
<1>4. /\ profiles' = profiles \ {p} /\ UNCHANGED crashed
      /\ \/ /\ keychain' \in {keychain, keychain \ {p}}
            /\ listed' = profiles' /\ Close
         \/ Replace("error", NoRequest, NoPin) /\ UNCHANGED <<keychain, listed>>
  BY DEF DeleteProfile
<1>5. modals' \in Seq(Asked) /\ focus' \in Focus
  <2>1. CASE Close
    BY <1>2, <2>1 DEF Close
  <2>2. CASE Replace("error", NoRequest, NoPin)
    BY <1>2, <2>2, OpenedIsAsked, NoRequestIsRequest DEF Replace, Dialogs, Focus
  <2> QED
    BY <1>4, <2>1, <2>2
<1>6. profiles' \subseteq Profile /\ keychain' \subseteq Profile /\ listed' \subseteq Profile
  BY <1>4 DEF SInv, DialogTypes
<1> QED
  BY <1>3, <1>4, <1>5, <1>6 DEF SInv, DialogTypes

(* A dial from a dialog: the pin it takes along was accepted for p.        *)
LEMMA DialKeepsConnInv ==
    ASSUME SInv, NEW p \in Profile, NEW save \in BOOLEAN, Dial(p, save, 0),
           UNCHANGED <<connVars, diskVars>>, ~closing
    PROVE  ConnInv'
<1> DEFINE r == [profile |-> p, pin |-> pins[p], save |-> save, attempt |-> 0]
<1>1. PICK w \in Work : BeginWork(w, "dial", r)
  BY DEF Dial
<1>2. PinsAccepted /\ PinsAccepted'
  BY DEF SInv, ConnInv, PinsAccepted, diskVars
<1>3. r \in Request /\ r.profile \in Profile
      /\ (r.pin = NoPin \/ r.pin \in accepted'[r.profile])
  BY <1>2 DEF Request, MaxTrustRetries, PinsAccepted, diskVars
<1> HIDE DEF r
<1> QED
  BY <1>1, <1>2, <1>3, BeginKeepsConnInv DEF SInv, connVars, diskVars

(* Enter in the server list: a dial, a password prompt or an error.        *)
LEMMA ConnectKeepsSInv ==
    ASSUME SInv, Connect
    PROVE  SInv'
<1>1. DialogKey("profiles")
  BY DEF Connect
<1>2. Below \in Seq(Asked) /\ Top.restore \in Focus /\ ~closing
  BY <1>1, DialogKeyFacts
<1>3. PICK p \in listed :
          \/ Dial(p, FALSE, 0) /\ Close
          \/ /\ Replace("password", [NoRequest EXCEPT !.profile = p], NoPin)
             /\ UNCHANGED <<vars, workVars>>
          \/ /\ Replace("error", NoRequest, NoPin)
             /\ UNCHANGED <<vars, workVars>>
  BY DEF Connect
<1>4. p \in Profile
  BY DEF SInv, DialogTypes
<1>5. UNCHANGED <<connVars, listed, diskVars, crashed>>
  BY DEF Connect
<1>6. CASE Dial(p, FALSE, 0) /\ Close
  <2>1. ConnInv'
    BY <1>2, <1>4, <1>5, <1>6, DialKeepsConnInv
  <2> QED
    BY <1>2, <1>5, <1>6, <2>1 DEF Close, SInv, DialogTypes, diskVars
<1>7. CASE /\ \/ Replace("password", [NoRequest EXCEPT !.profile = p], NoPin)
              \/ Replace("error", NoRequest, NoPin)
           /\ UNCHANGED <<vars, workVars>>
  <2>1. ConnInv'
    BY <1>5, <1>7, PinsKeepConnInv DEF SInv, ConnInv, PinsAccepted, diskVars
  <2> DEFINE r == [NoRequest EXCEPT !.profile = p]
  <2>2. r \in Request /\ r.profile \in Profile
    BY <1>4, NoRequestIsRequest
  <2> HIDE DEF r
  <2>3. Opened(Below, Top.restore, "password", r, NoPin) \in Seq(Asked)
    BY <1>2, <2>2, OpenedIsAsked DEF Dialogs
  <2>4. Opened(Below, Top.restore, "error", NoRequest, NoPin) \in Seq(Asked)
    BY <1>2, OpenedIsAsked, NoRequestIsRequest DEF Dialogs
  <2>5. modals' \in Seq(Asked) /\ focus' \in Focus
    BY <1>7, <2>3, <2>4 DEF Replace, Focus, r
  <2> QED
    BY <1>5, <2>1, <2>5 DEF SInv, DialogTypes, diskVars
<1> QED
  BY <1>3, <1>6, <1>7

(* The password prompt dials for the profile it was opened for.            *)
LEMMA SubmitPasswordKeepsSInv ==
    ASSUME SInv, SubmitPassword
    PROVE  SInv'
<1>1. DialogKey("password") /\ Close /\ UNCHANGED <<connVars, listed, diskVars, crashed>>
  BY DEF SubmitPassword
<1>2. /\ Top.req.profile \in Profile /\ ~closing
      /\ Below \in Seq(Asked) /\ Top.restore \in Focus
  BY <1>1, DialogKeyFacts
<1>3. PICK save \in BOOLEAN : Dial(Top.req.profile, save, 0)
  BY DEF SubmitPassword
<1>4. ConnInv'
  BY <1>1, <1>2, <1>3, DialKeepsConnInv
<1> QED
  BY <1>1, <1>2, <1>4 DEF Close, SInv, DialogTypes, diskVars

(* The operator's answer is recorded before the pin that follows from it is*)
(* used.                                                                   *)
LEMMA AcceptCertKeepsSInv ==
    ASSUME SInv, AcceptCert
    PROVE  SInv'
<1> DEFINE old == Top.req
           p   == old.profile
           pinned == [pins EXCEPT ![p] = Top.cert]
           new == [old EXCEPT !.pin = pinned[p], !.attempt = @ + 1]
<1>1. DialogKey("trust")
  BY DEF AcceptCert
<1>2. /\ old \in Request /\ p \in Profile /\ Top.cert \in Cert
      /\ old.attempt < MaxTrustRetries
      /\ Below \in Seq(Asked) /\ Top.restore \in Focus /\ ~closing
  BY <1>1, DialogKeyFacts
<1>3. /\ pins' = pinned
      /\ accepted' = [accepted EXCEPT ![p] = @ \cup {Top.cert}]
      /\ UNCHANGED <<connVars, listed, profiles, keychain, crashed>>
      /\ \/ (\E w \in Work : BeginWork(w, "dial", new)) /\ Close
         \/ /\ Replace("error", NoRequest, NoPin)
            /\ UNCHANGED <<vars, workVars>>
  BY DEF AcceptCert
<1>4. PinsAccepted' /\ \A q \in Profile : accepted[q] \subseteq accepted'[q]
  BY <1>2, <1>3 DEF SInv, ConnInv, PinsAccepted
<1>5. new \in Request /\ new.profile = p /\ new.pin = Top.cert
  <2>1. pinned[p] = Top.cert
    BY <1>2 DEF SInv, ConnInv, PinsAccepted
  <2>2. old.attempt + 1 \in 0 .. MaxTrustRetries
    BY <1>2 DEF Request, MaxTrustRetries
  <2> HIDE DEF old, pinned
  <2> QED
    BY <1>2, <2>1, <2>2 DEF Request
<1>6. Top.cert \in accepted'[p]
  BY <1>2, <1>3 DEF SInv, ConnInv, PinsAccepted
<1>7. CASE (\E w \in Work : BeginWork(w, "dial", new)) /\ Close
  <2>1. PICK w \in Work : BeginWork(w, "dial", new)
    BY <1>7
  <2> HIDE DEF new, p
  <2>2. ConnInv'
    BY <1>2, <1>3, <1>4, <1>5, <1>6, <2>1, BeginKeepsConnInv DEF SInv, connVars
  <2> QED
    BY <1>2, <1>3, <1>7, <2>2 DEF Close, SInv, DialogTypes
<1>8. CASE Replace("error", NoRequest, NoPin) /\ UNCHANGED <<vars, workVars>>
  <2>1. ConnInv'
    BY <1>3, <1>4, <1>8, PinsKeepConnInv DEF SInv
  <2>2. modals' \in Seq(Asked) /\ focus' \in Focus
    BY <1>2, <1>8, OpenedIsAsked, NoRequestIsRequest DEF Replace, Dialogs, Focus
  <2> QED
    BY <1>3, <2>1, <2>2 DEF SInv, DialogTypes
<1> QED
  BY <1>3, <1>7, <1>8

(* A read begins, by a key or by the UI thread's own doing.                *)
LEMMA ReadKeepsSInv ==
    ASSUME SInv, StartRead \/ ReadOn
    PROVE  SInv'
<1>1. /\ UNCHANGED <<open, dir, profile, closing, uiVars, diskVars, crashed>>
      /\ busy' \in {busy, NoDir} /\ ~closing
      /\ \/ \E w \in Work : BeginWork(w, "read", NoRequest)
         \/ UNCHANGED <<vars, workVars>>
  BY DEF StartRead, ReadOn, PaneKey, UIFree, UIBusy, connVars
<1>2. PinsAccepted'
  BY <1>1 DEF SInv, ConnInv, PinsAccepted, diskVars
<1>3. ConnInv'
  <2>1. CASE \E w \in Work : BeginWork(w, "read", NoRequest)
    <3>1. PICK w \in Work : BeginWork(w, "read", NoRequest)
      BY <2>1
    <3>2. NoRequest \in Request
      BY NoRequestIsRequest
    <3> QED
      BY <1>1, <1>2, <3>1, <3>2, BeginKeepsConnInv DEF SInv, diskVars
  <2>2. CASE UNCHANGED <<vars, workVars>>
    BY <1>1, <2>2 DEF SInv, ConnInv, WorkTypes, PinsAccepted, DialsCarryAcceptedPins,
                      AnswersFit, OpenIsTrusted, DirIsADial, ErasInOrder,
                      CurrentWorkIsAtHome, ClosesBehindTheEra, CurrentReadsCallOpen,
                      Current, vars, workVars, diskVars
  <2> QED
    BY <1>1, <2>1, <2>2
<1> QED
  BY <1>1, <1>3 DEF SInv, DialogTypes, uiVars, diskVars

(* c, and the first half of adopt.                                         *)
LEMMA DisconnectKeepsSInv ==
    ASSUME SInv, Disconnect \/ AdoptDisconnects
    PROVE  SInv'
<1>1. /\ CloseDir /\ busy # dir /\ ~closing
      /\ UNCHANGED <<profile, busy, uiVars, diskVars, crashed>>
  BY DEF Disconnect, AdoptDisconnects, CloseDir, AppKey, PaneKey, UIFree, UIBusy
<1>2. ConnInv'
  BY <1>1, CloseDirKeepsConnInv DEF SInv, diskVars
<1> QED
  BY <1>1, <1>2 DEF SInv, DialogTypes, uiVars, diskVars

LEMMA ForgetDirKeepsSInv ==
    ASSUME SInv, ForgetDir
    PROVE  SInv'
  BY ForgetDirKeepsConnInv DEF SInv, DialogTypes, ForgetDir, uiVars, diskVars

(* The keychain entry adopt may write is one of a profile.                 *)
LEMMA AdoptTakesKeepsSInv ==
    ASSUME SInv, AdoptTakes
    PROVE  SInv'
<1>1. ConnInv'
  BY AdoptTakesKeepsConnInv DEF SInv
<1>2. busy \in Work /\ answer[busy] = "open"
  BY DEF AdoptTakes, UIBusy, SInv, ConnInv, WorkTypes, DirIsADial
<1>3. req[busy].profile \in Profile
  BY <1>2 DEF SInv, ConnInv, AnswersFit, DialsCarryAcceptedPins
<1>4. keychain' \subseteq Profile
  BY <1>3 DEF AdoptTakes, SInv, DialogTypes
<1> QED
  BY <1>1, <1>4 DEF AdoptTakes, SInv, DialogTypes, Focus

(* Goroutines touch no dialog and no store.                                *)
LEMMA WorkStepKeepsSInv ==
    ASSUME SInv, NEW w \in Work, WorkStep(w)
    PROVE  SInv'
<1>1. ConnInv'
  BY WorkKeepsConnInv, SessionAssumption DEF SInv
<1> QED
  BY <1>1 DEF WorkStep, CallDir, ReadReturns, DialReturns, SInv, DialogTypes,
              uiVars, diskVars

(* Landings: a prompt is opened only while a retry is left.                *)
LEMMA LandStepKeepsSInv ==
    ASSUME SInv, NEW w \in Work, LandStep(w)
    PROVE  SInv'
<1>1. CASE LandOpen(w)
  <2>1. ConnInv'
    BY <1>1, LandOpenKeepsConnInv DEF SInv
  <2> QED
    BY <1>1, <2>1 DEF LandOpen, SInv, DialogTypes, uiVars, diskVars
<1>2. CASE LandStale(w) \/ LandDone(w) \/ LandRead(w) \/ LandRefused(w)
  <2>1. /\ Deliver(w) \/ Discard(w)
        /\ Forget(w) /\ busy = NoDir /\ busy' \in {NoDir, dir} /\ ~closing
        /\ UNCHANGED <<open, dir, profile, closing, listed, diskVars, crashed>>
    BY <1>2 DEF LandStale, LandDone, LandRead, LandRefused, Returned, UIFree,
                connVars, uiVars
  <2>2. ConnInv'
    BY <2>1, ForgetKeepsConnInv DEF SInv, diskVars
  <2>3. CASE LandStale(w) \/ LandDone(w)
    BY <2>1, <2>2, <2>3 DEF LandStale, LandDone, SInv, DialogTypes, uiVars, diskVars
  <2>4. CASE LandRead(w)
    <3>1. \/ focus' \in {focus, "pane"} /\ UNCHANGED modals
          \/ Open("error", NoRequest, NoPin)
      BY <2>4 DEF LandRead
    <3>2. modals' \in Seq(Asked) /\ focus' \in Focus
      BY <3>1, OpenedIsAsked, NoRequestIsRequest
         DEF Open, SInv, DialogTypes, Dialogs, Focus
    <3> QED
      BY <2>1, <2>2, <3>2 DEF SInv, DialogTypes, diskVars
  <2>5. CASE LandRefused(w)
    <3> DEFINE r == [req[w] EXCEPT !.pin = NoPin]
    <3>1. \/ Open("error", NoRequest, NoPin)
          \/ UNCHANGED <<modals, focus>>
          \/ /\ answer[w] = "untrusted" /\ ~(req[w].attempt >= MaxTrustRetries)
             /\ Open("trust", r, peer[w])
      BY <2>5 DEF LandRefused
    <3>2. CASE Open("error", NoRequest, NoPin)
      BY <2>1, <2>2, <3>2, OpenedIsAsked, NoRequestIsRequest
         DEF Open, SInv, DialogTypes, Dialogs, Focus, diskVars
    <3>3. CASE UNCHANGED <<modals, focus>>
      BY <2>1, <2>2, <3>3 DEF SInv, DialogTypes, diskVars
    <3>4. CASE /\ answer[w] = "untrusted" /\ ~(req[w].attempt >= MaxTrustRetries)
               /\ Open("trust", r, peer[w])
      <4>1. req[w] \in Request /\ req[w].profile \in Profile /\ peer[w] \in Cert
        BY <3>4 DEF SInv, ConnInv, WorkTypes, AnswersFit, DialsCarryAcceptedPins
      <4>2. /\ r \in Request /\ r.profile = req[w].profile
            /\ r.attempt = req[w].attempt /\ r.attempt < MaxTrustRetries
        BY <3>4, <4>1 DEF Request, MaxTrustRetries
      <4> HIDE DEF r
      <4>3. modals' \in Seq(Asked) /\ focus' \in Focus
        BY <3>4, <4>1, <4>2, OpenedIsAsked
           DEF Open, SInv, DialogTypes, Dialogs, Focus
      <4> QED
        BY <2>1, <2>2, <4>3 DEF SInv, DialogTypes, diskVars
    <3> QED
      BY <3>1, <3>2, <3>3, <3>4
  <2> QED
    BY <1>2, <2>3, <2>4, <2>5
<1> QED
  BY <1>1, <1>2 DEF LandStep

-----------------------------------------------------------------------------
(* Nothing connected, nothing begun, no dialog, no pin.                    *)
LEMMA InitGivesSInv == InitSession => SInv
<1> SUFFICES ASSUME InitSession PROVE SInv
  OBVIOUS
<1> USE DEF InitSession, Init
<1>1. WorkTypes
  <2>1. NoRequest \in Request
    BY NoRequestIsRequest
  <2> QED
    BY <2>1 DEF WorkTypes, Status, Kind, Op, Answer
<1>2. DialogTypes
  <2>1. modals \in Seq(Asked)
    OBVIOUS
  <2> QED
    BY <2>1 DEF DialogTypes, Focus
<1>3. PinsAccepted
  BY DEF PinsAccepted
<1>4. DialsCarryAcceptedPins /\ AnswersFit /\ OpenIsTrusted /\ DirIsADial
  BY DEF DialsCarryAcceptedPins, AnswersFit, OpenIsTrusted, DirIsADial
<1>5. /\ ErasInOrder /\ CurrentWorkIsAtHome
      /\ ClosesBehindTheEra /\ CurrentReadsCallOpen
  BY DEF ErasInOrder, CurrentWorkIsAtHome, ClosesBehindTheEra, CurrentReadsCallOpen,
         Current
<1> QED
  BY <1>1, <1>2, <1>3, <1>4, <1>5 DEF SInv, ConnInv

(* Stuttering.                                                             *)
LEMMA StutterKeepsSInv == SInv /\ UNCHANGED sessionVars => SInv'
BY DEF SInv, ConnInv, WorkTypes, DialogTypes, PinsAccepted, DialsCarryAcceptedPins,
       AnswersFit, OpenIsTrusted, DirIsADial, ErasInOrder, CurrentWorkIsAtHome,
       ClosesBehindTheEra, CurrentReadsCallOpen, Current, sessionVars, vars,
       workVars, connVars, uiVars, diskVars

(* Every step keeps the inductive invariant.                               *)
LEMMA NextKeepsSInv == SInv /\ [NextSession]_sessionVars => SInv'
<1> SUFFICES ASSUME SInv, [NextSession]_sessionVars PROVE SInv'
  OBVIOUS
<1>1. CASE UserStep
  BY <1>1, DialogStepKeepsSInv, DeleteProfileKeepsSInv, ConnectKeepsSInv,
     SubmitPasswordKeepsSInv, AcceptCertKeepsSInv, ReadKeepsSInv,
     DisconnectKeepsSInv DEF UserStep
<1>2. CASE \E w \in Work : WorkStep(w) \/ LandStep(w)
  BY <1>2, WorkStepKeepsSInv, LandStepKeepsSInv
<1>3. CASE BusyStep
  BY <1>3, DisconnectKeepsSInv, ForgetDirKeepsSInv, AdoptTakesKeepsSInv,
     ReadKeepsSInv DEF BusyStep
<1>4. CASE UNCHANGED sessionVars
  BY <1>4, StutterKeepsSInv
<1> QED
  BY <1>1, <1>2, <1>3, <1>4 DEF NextSession

(* The inductive invariant holds throughout.                               *)
THEOREM SessionInvariant == SpecSession => []SInv
<1>1. SpecSession => InitSession /\ [][NextSession]_sessionVars
  BY DEF SpecSession
<1> QED
  BY <1>1, InitGivesSInv, NextKeepsSInv, PTL

(* Types, and with them at most MaxTrustRetries prompts per connect.       *)
THEOREM SessionTypeCorrect == SpecSession => []TypeOKSession
<1>1. SInv => TypeOKSession
  <2> SUFFICES ASSUME SInv PROVE TypeOKSession
    OBVIOUS
  <2>1. Asked \subseteq Dialog
    BY DEF Asked
  <2>2. modals \in Seq(Dialog)
    BY <2>1, SeqMonotonic DEF SInv, DialogTypes
  <2> QED
    BY <2>2 DEF SInv, ConnInv, WorkTypes, DialogTypes, PinsAccepted, TypeOKSession
<1> QED
  BY <1>1, SessionInvariant, PTL

(* App.generation does what app.go:81-83 wants of it: a read that passes   *)
(* the generation check was begun on the connection that is adopted now.   *)
THEOREM WorkLandsAtHome == SpecSession => []CurrentWorkIsAtHome
<1>1. SInv => CurrentWorkIsAtHome
  BY DEF SInv, ConnInv
<1> QED
  BY <1>1, SessionInvariant, PTL

(* disconnect and adopt leave App.dir at a closed connection only between  *)
(* two lines of disconnect, and a read that finds one closed is one whose  *)
(* failure the generation check keeps off the screen.                      *)
THEOREM AdoptedIsOpen == SpecSession => []DirIsOpen
<1>1. SInv => DirIsOpen
  BY DEF SInv, ConnInv, WorkTypes, DirIsADial, OpenIsTrusted, CurrentReadsCallOpen,
         Current, DirIsOpen
<1> QED
  BY <1>1, SessionInvariant, PTL

(* PADL is only ever connected to a peer that the roots verify or that the *)
(* operator accepted for the connected profile (tls.go, app.go:701-782).   *)
THEOREM OnlyTrustedPeers == SpecSession => []ConnectedPeerIsTrusted
<1>1. SInv => ConnectedPeerIsTrusted
  BY DEF SInv, ConnInv, WorkTypes, DirIsADial, OpenIsTrusted, ConnectedPeerIsTrusted
<1> QED
  BY <1>1, SessionInvariant, PTL

(* Session uses background work only as AsyncWork lets it, which TaskPool  *)
(* implements.                                                             *)
THEOREM SessionRespectsAsyncWork == SpecSession => Spec
<1>1. InitSession => Init
  BY DEF InitSession
<1>2. [NextSession]_sessionVars => [Next]_vars
  <2> SUFFICES ASSUME [NextSession]_sessionVars PROVE Next \/ UNCHANGED vars
    OBVIOUS
  <2>1. ASSUME NEW w \in Work, NEW o, NEW r, BeginWork(w, o, r) PROVE Next
    <3>1. Begin(w, "none", {}) /\ "none" \in Kind /\ {} \in SUBSET Work
      BY <2>1 DEF BeginWork, Kind
    <3> QED
      BY <3>1 DEF Next
  <2>2. CASE UserStep
    <3>1. CASE CloseDir
      BY <3>1 DEF CloseDir, Next
    <3>2. CASE OpenProfiles \/ OpenConfirm \/ Dismiss \/ DeleteProfile
      BY <3>2 DEF OpenProfiles, OpenConfirm, Dismiss, DeleteProfile
    <3>3. CASE Connect
      BY <2>1, <3>3 DEF Connect, Dial
    <3>4. CASE SubmitPassword
      BY <2>1, <3>4 DEF SubmitPassword, Dial
    <3>5. CASE AcceptCert
      BY <2>1, <3>5 DEF AcceptCert
    <3>6. CASE StartRead
      BY <2>1, <3>6 DEF StartRead
    <3>7. CASE Disconnect
      BY <3>1, <3>7 DEF Disconnect
    <3> QED
      BY <2>2, <3>2, <3>3, <3>4, <3>5, <3>6, <3>7 DEF UserStep
  <2>3. CASE \E w \in Work : WorkStep(w) \/ LandStep(w)
    BY <2>3 DEF WorkStep, LandStep, CallDir, ReadReturns, DialReturns, LandStale,
                LandDone, LandRead, LandRefused, LandOpen, Next
  <2>4. CASE BusyStep
    BY <2>1, <2>4 DEF BusyStep, AdoptDisconnects, AdoptTakes, ReadOn, ForgetDir,
                      CloseDir, Next
  <2>5. CASE UNCHANGED sessionVars
    BY <2>5 DEF sessionVars
  <2> QED
    BY <2>2, <2>3, <2>4, <2>5 DEF NextSession
<1> QED
  BY <1>1, <1>2, PTL DEF SpecSession, Spec
=============================================================================
