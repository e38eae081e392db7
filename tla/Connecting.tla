----------------------------- MODULE Connecting -----------------------------
(***************************************************************************)
(* One call of Connect after another (ldapx/client.go: Connect, bind,      *)
(* trustOrDialError; ldapx/tls.go: tlsConfigFor, verifyPeer), with the     *)
(* question a certificate raises in between: what goes out on the          *)
(* connection, over what, before which decision, and which of the steps a  *)
(* silent server or an impatient operator can end.                         *)
(***************************************************************************)
CONSTANTS Cert,     \* certificates a server may present
          Valid,    \* those that verify against the system roots and the host
          None      \* no certificate: no pin, no TLS

ASSUME ConnectAssumption == Valid \subseteq Cert /\ None \notin Cert

Stages == {"dial", "upgrade", "bind", "bound", "root", "returned"}

VARIABLES
    security,   \* the profile's: "plain", "ldaps" or "starttls"
    simple,     \* it binds with a password
    baseDN,     \* it names a base DN
    pin,        \* the certificate pinned for it
    stage,      \* how far Connect has got
    conn,       \* its connection: "none", "open" or "closed"
    channel,    \* what that runs over: the peer's certificate, or None
    timed,      \* SetTimeout was called
    cancelled,  \* ctx is
    sent,       \* the channels the password went over in this call
    capture,    \* the certificate the verifier would not decide about
    outcome,    \* what it returned: "none", "client", "question", "error"
    root,       \* the client's root DSE: "none", "read" or "empty"
    refused     \* the server refused it, or never gave it

profile     == <<security, simple, baseDN>>
wire        == <<conn, channel, timed, sent>>
connectVars == <<profile, pin, stage, wire, cancelled, capture, outcome, root,
                 refused>>

Start ==
    /\ stage = "dial" /\ conn = "none" /\ channel = None /\ timed = FALSE
    /\ cancelled = FALSE /\ sent = {} /\ capture = None
    /\ outcome = "none" /\ root = "none" /\ refused = FALSE

InitConnect ==
    /\ security \in {"plain", "ldaps", "starttls"}
    /\ simple \in BOOLEAN /\ baseDN \in BOOLEAN
    /\ pin \in Cert \cup {None}
    /\ Start

-----------------------------------------------------------------------------
(* verifyPeer: an ordinary certificate, or exactly the pinned one.         *)
VerifyPeer(c) == c \in Valid \/ c = pin

(* A slip: nobody closes the connection.                                   *)
FailedOpen(what) ==
    /\ stage' = "returned" /\ outcome' = what
    /\ UNCHANGED conn

(* Connect returns without a client: the deferred Close.                   *)
Failed(what) ==
    /\ stage' = "returned" /\ outcome' = what
    /\ conn' = IF conn = "open" THEN "closed" ELSE conn

(* A slip: no time limit is set.                                           *)
HandshakeUntimed(c) ==
    \/ /\ VerifyPeer(c)
       /\ conn' = "open" /\ channel' = c /\ stage' = "bind"
       /\ UNCHANGED <<timed, capture, outcome>>
    \/ /\ ~VerifyPeer(c)
       /\ capture' = c
       /\ Failed("question")
       /\ UNCHANGED <<channel, timed>>

(* The TLS handshake with a peer that presents c.                          *)
Handshake(c) ==
    \/ /\ VerifyPeer(c)
       /\ conn' = "open" /\ channel' = c /\ stage' = "bind" /\ timed' = TRUE
       /\ UNCHANGED <<capture, outcome>>
    \/ /\ ~VerifyPeer(c)
       /\ capture' = c
       /\ Failed("question")
       /\ UNCHANGED <<channel, timed>>

(* DialURL; go-ldap closes what it cannot finish. The dialer's timeout     *)
(* covers the handshake of ldaps, and ctx is not given to it.              *)
Dial ==
    /\ stage = "dial"
    /\ \/ /\ security = "ldaps"
          /\ \E c \in Cert : Handshake(c)
       \/ /\ security # "ldaps"
          /\ conn' = "open"
          /\ stage' = IF security = "starttls" THEN "upgrade" ELSE "bind"
          /\ timed' = (security = "plain")
          /\ UNCHANGED <<channel, capture, outcome>>
    /\ UNCHANGED <<profile, pin, cancelled, sent, root, refused>>

DialFails ==
    /\ stage = "dial"
    /\ Failed("error")
    /\ UNCHANGED <<profile, pin, channel, timed, cancelled, sent, capture, root,
                   refused>>

(* A slip: a server that will not upgrade is bound to all the same.        *)
UpgradeOrNot ==
    /\ stage = "upgrade"
    /\ stage' = "bind" /\ timed' = TRUE
    /\ UNCHANGED <<profile, pin, conn, channel, cancelled, sent, capture, outcome,
                   root, refused>>

(* StartTLS, for as long as the server takes: SetTimeout comes after it.   *)
Upgrade ==
    /\ stage = "upgrade"
    /\ \E c \in Cert : Handshake(c)
    /\ UNCHANGED <<profile, pin, cancelled, sent, root, refused>>

UpgradeFails ==
    /\ stage = "upgrade"
    /\ Failed("error")
    /\ UNCHANGED <<profile, pin, channel, timed, cancelled, sent, capture, root,
                   refused>>

(* bind: the request goes out.                                             *)
Bind ==
    /\ stage = "bind"
    /\ sent' = IF simple THEN sent \cup {channel} ELSE sent
    /\ stage' = "bound"
    /\ UNCHANGED <<profile, pin, conn, channel, timed, cancelled, capture, outcome,
                   root, refused>>

Bound ==
    /\ stage = "bound"
    /\ stage' = "root"
    /\ UNCHANGED <<profile, pin, wire, cancelled, capture, outcome, root, refused>>

BindFails ==
    /\ stage = "bound"
    /\ Failed("error")
    /\ UNCHANGED <<profile, pin, channel, timed, cancelled, sent, capture, root,
                   refused>>

Succeed(dse) ==
    /\ stage' = "returned" /\ outcome' = "client" /\ root' = dse
    /\ UNCHANGED conn

(* RootDSE read.                                                           *)
RootRead ==
    /\ stage = "root"
    /\ Succeed("read")
    /\ UNCHANGED <<profile, pin, channel, timed, cancelled, sent, capture, refused>>

(* It was not: a base DN makes up for it.                                  *)
RootUnread(byServer) ==
    /\ stage = "root"
    /\ refused' = byServer
    /\ IF baseDN THEN Succeed("empty") ELSE Failed("error") /\ UNCHANGED root
    /\ UNCHANGED <<profile, pin, channel, timed, cancelled, sent, capture>>

RootRefused   == RootUnread(TRUE)
RootCancelled == cancelled /\ RootUnread(FALSE)

(* go-ldap gives up a request after the time set, if one was.              *)
TimeOut ==
    /\ timed
    /\ BindFails \/ RootUnread(TRUE)

-----------------------------------------------------------------------------
(* Esc, with Connect under way.                                            *)
Cancel ==
    /\ stage # "returned"
    /\ cancelled' = TRUE
    /\ UNCHANGED <<profile, pin, stage, wire, capture, outcome, root, refused>>

Again == /\ stage' = "dial" /\ conn' = "none" /\ channel' = None /\ timed' = FALSE
         /\ cancelled' = FALSE /\ sent' = {} /\ capture' = None
         /\ outcome' = "none" /\ root' = "none" /\ refused' = FALSE

(* promptTrust: the certificate is pinned and Connect called again.        *)
Accept ==
    /\ stage = "returned" /\ outcome = "question"
    /\ pin' = capture
    /\ Again
    /\ UNCHANGED profile

(* The operator connects to the profile once more.                         *)
Reconnect ==
    /\ stage = "returned"
    /\ Again
    /\ UNCHANGED <<profile, pin>>

Server == Dial \/ Upgrade \/ UpgradeFails \/ Bound \/ RootRead \/ RootRefused
Client == Bind \/ RootCancelled \/ TimeOut

NextConnect ==
    \/ Server \/ DialFails \/ BindFails \/ Client
    \/ Cancel \/ Accept \/ Reconnect

SpecConnect == InitConnect /\ [][NextConnect]_connectVars

(* Dialling ends at the dialer's timeout, requests at the one that was     *)
(* set; a server may be silent for ever.                                   *)
FairConnect == /\ SpecConnect
               /\ WF_connectVars(Client)
               /\ WF_connectVars(DialFails)

-----------------------------------------------------------------------------
TypeOKConnect ==
    /\ security \in {"plain", "ldaps", "starttls"}
    /\ simple \in BOOLEAN /\ baseDN \in BOOLEAN
    /\ pin \in Cert \cup {None} /\ stage \in Stages
    /\ conn \in {"none", "open", "closed"} /\ channel \in Cert \cup {None}
    /\ timed \in BOOLEAN /\ cancelled \in BOOLEAN
    /\ sent \subseteq Cert \cup {None} /\ capture \in Cert \cup {None}
    /\ outcome \in {"none", "client", "question", "error"}
    /\ root \in {"none", "read", "empty"} /\ refused \in BOOLEAN
    /\ stage = "returned" <=> outcome # "none"
    /\ outcome = "question" <=> capture # None

(* The password only ever goes to a peer the system roots or the operator  *)
(* vouch for, StartTLS included, unless the profile asks for no TLS.       *)
PasswordOnlyToTheTrusted ==
    security # "plain" => \A c \in sent : c # None /\ c \in Valid \cup {pin}

(* "On a certificate the operator has to judge, Connect returns a          *)
(* *CertTrustError and nothing else happens": no password went out, and    *)
(* like any call that returns no client it leaves no connection open.      *)
NothingElseHappens ==
    /\ outcome = "question" => sent = {}
    /\ outcome \in {"question", "error"} => conn # "open"

(* A bind and a root DSE read end, whatever the server does.               *)
RequestsEnd == stage \in {"bind", "bound", "root"} ~> stage = "returned"

(* config/profiles.go: the timeout "bounds a single LDAP operation", and   *)
(* the upgrade is one.                                                     *)
UpgradeEnds == stage = "upgrade" ~> stage # "upgrade"

(* client.go: an empty root DSE is for "a server that refuses the root     *)
(* DSE", not for an operator who pressed Esc.                              *)
EmptyRootMeansRefused == root = "empty" => refused
=============================================================================
