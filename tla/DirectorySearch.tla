--------------------------- MODULE DirectorySearch ---------------------------
(***************************************************************************)
(* One connection's searches (ldapx/client.go: Search, run, runPaged,      *)
(* Entry, pickEntry, live, Close): the messages of an answer are consumed  *)
(* one by one while the caller may cancel, another goroutine may close the *)
(* connection and the network may fail. go-ldap reports a search that was  *)
(* cancelled as a success that ended early.                                *)
(***************************************************************************)
EXTENDS Naturals, Sequences, SequencesExt

CONSTANTS Total,    \* entries that match the search
          PageSize, \* PageRequest.Size
          Wanted    \* which of the entries of an answer Entry asks for

ASSUME DirectoryAssumption ==
    /\ Total \in Nat /\ PageSize \in Nat \ {0}
    /\ Wanted \in 1 .. Total

NoCookie == 0           \* no cookie; cookie k continues with entry k

VARIABLES
    paging,      \* Client.SupportsPaging
    link,        \* the connection: "up", "lost" or "closed" (Client.conn nil)
    call,        \* the call under way: "none", "search" or "entry"
    ctxDone,     \* its context is
    from,        \* the cookie it was made with, or 1
    entries,     \* run's
    truncated,   \* run's
    control,     \* runPaged's: the cookie of the last message, if any
    stream,      \* the answer: "open", "ended", "broken"
    listed, more, cookie, cut,  \* pages the caller has been given so far
    entryRead    \* what Entry last returned: "none", "found", "failed"

callVars   == <<call, ctxDone, from, entries, truncated, control, stream>>
pageVars   == <<listed, more, cookie, cut>>
searchVars == <<paging, link, callVars, pageVars, entryRead>>

InitSearch ==
    /\ paging \in BOOLEAN
    /\ link = "up"
    /\ call = "none" /\ ctxDone = FALSE /\ from = 1
    /\ entries = <<>> /\ truncated = FALSE /\ control = NoCookie /\ stream = "ended"
    /\ listed = <<>> /\ more = TRUE /\ cookie = NoCookie /\ cut = FALSE
    /\ entryRead = "none"

-----------------------------------------------------------------------------
Idle == call = "none" /\ link # "closed"   \* live: otherwise it fails at once

Begin(what, first) ==
    /\ call' = what
    /\ ctxDone' = FALSE
    /\ from' = first
    /\ entries' = <<>> /\ truncated' = FALSE /\ control' = NoCookie
    /\ stream' = IF link = "up" THEN "open" ELSE "broken"

Search ==
    /\ Idle /\ more
    /\ Begin("search", IF cookie = NoCookie THEN 1 ELSE cookie)
    /\ UNCHANGED <<paging, link, pageVars, entryRead>>

StartOver ==
    /\ call = "none"
    /\ listed' = <<>> /\ more' = TRUE /\ cookie' = NoCookie /\ cut' = FALSE
    /\ UNCHANGED <<paging, link, callVars, entryRead>>

EntryCall ==
    /\ Idle
    /\ Begin("entry", 1)
    /\ entryRead' = "none"
    /\ UNCHANGED <<paging, link, pageVars>>

Paged == call = "search" /\ paging
Cap   == IF call = "entry" THEN 1 ELSE PageSize

NextEntry == from + Len(entries)    \* what the server sends next

(* The loop of run and of runPaged: a message with an entry. Without       *)
(* paging, one beyond the limit ends the search from this side.            *)
ReceiveEntry ==
    /\ stream = "open" /\ NextEntry <= Total
    /\ Paged => Len(entries) < PageSize
    /\ IF ~Paged /\ Len(entries) >= Cap
       THEN truncated' = TRUE /\ stream' = "ended" /\ UNCHANGED entries
       ELSE entries' = Append(entries, NextEntry) /\ UNCHANGED <<truncated, stream>>
    /\ UNCHANGED <<paging, link, call, ctxDone, from, control, pageVars, entryRead>>

(* searchResDone. A page may be shorter than asked for, and a server that  *)
(* has nothing left may find that out only on the page that follows.       *)
ReceiveDone ==
    /\ stream = "open"
    /\ IF Paged
       THEN /\ NextEntry <= Total => entries # <<>>
            /\ control' \in IF NextEntry <= Total THEN {NextEntry}
                            ELSE {NoCookie} \cup (IF entries = <<>> THEN {} ELSE {NextEntry})
       ELSE NextEntry > Total /\ UNCHANGED control
    /\ stream' = "ended"
    /\ UNCHANGED <<paging, link, call, ctxDone, from, entries, truncated, pageVars, entryRead>>

(* SearchAsync notices that its context is cancelled.                    *)
StopEarly ==
    /\ stream = "open" /\ ctxDone
    /\ stream' = "ended"
    /\ UNCHANGED <<paging, link, call, ctxDone, from, entries, truncated,
                   control, pageVars, entryRead>>

Broken == ctxDone \/ stream = "broken"
Kept   == UNCHANGED <<ctxDone, from, entries, truncated, control, stream>>

(* pickEntry, on what run has collected.                                   *)
PickEntry == IF Contains(entries, Wanted) THEN "found" ELSE "failed"

(* A slip: the last cookie is kept when there is none.                     *)
ReturnKeepingCookie ==
    /\ call # "none" /\ stream # "open"
    /\ call' = "none"
    /\ IF call = "entry" \/ Broken
       THEN /\ entryRead' = IF call = "search" THEN entryRead
                       ELSE IF Broken THEN "failed" ELSE PickEntry
            /\ UNCHANGED pageVars
       ELSE /\ listed' = listed \o entries
            /\ cut' = truncated
            /\ cookie' = (IF control = NoCookie THEN cookie ELSE control)
            /\ more' = (cookie' # NoCookie)
            /\ UNCHANGED entryRead
    /\ Kept /\ UNCHANGED <<paging, link>>

(* After the loop: the context first, then the error of the answer.        *)
Return ==
    /\ call # "none" /\ stream # "open"
    /\ call' = "none"
    /\ IF call = "entry" \/ Broken
       THEN /\ entryRead' = IF call = "search" THEN entryRead
                       ELSE IF Broken THEN "failed" ELSE PickEntry
            /\ UNCHANGED pageVars
       ELSE /\ listed' = listed \o entries
            /\ cut' = truncated
            /\ cookie' = control /\ more' = (control # NoCookie)
            /\ UNCHANGED entryRead
    /\ Kept /\ UNCHANGED <<paging, link>>

-----------------------------------------------------------------------------
CancelCall ==
    /\ call # "none" /\ ~ctxDone
    /\ ctxDone' = TRUE
    /\ UNCHANGED <<paging, link, call, from, entries, truncated, control,
                   stream, pageVars, entryRead>>

(* Client.Close, from the UI thread, or the network; closing twice is      *)
(* harmless.                                                               *)
Drop(how) ==
    /\ link' = IF link = "closed" THEN link ELSE how
    /\ stream' = IF stream = "open" THEN "broken" ELSE stream
    /\ UNCHANGED <<paging, call, ctxDone, from, entries, truncated, control,
                   pageVars, entryRead>>

NextSearch ==
    \/ Search \/ StartOver \/ EntryCall
    \/ ReceiveEntry \/ ReceiveDone \/ StopEarly \/ Return
    \/ CancelCall \/ Drop("lost") \/ Drop("closed")

SpecSearch == InitSearch /\ [][NextSearch]_searchVars

-----------------------------------------------------------------------------
TypeOKSearch ==
    /\ link \in {"up", "lost", "closed"} /\ call \in {"none", "search", "entry"}
    /\ stream \in {"open", "ended", "broken"}
    /\ from \in 1 .. Total + 1 /\ control \in 0 .. Total + 1 /\ cookie \in 0 .. Total + 1
    /\ entries \in Seq(1 .. Total) /\ Len(entries) <= PageSize
    /\ listed \in Seq(1 .. Total)
    /\ entryRead \in {"none", "found", "failed"}

(* Search implements Listing: whatever is cancelled, lost or closed while*)
(* an answer is read, pages neither skip nor repeat an entry, and a page   *)
(* that does not say so is not short.                                      *)
InOrder == listed = [k \in 1 .. Len(listed) |-> k]
Promise == INSTANCE Listing WITH listed <- Len(listed)
ImplementsListing == Promise!SpecListing /\ [](TypeOKSearch /\ InOrder)

(* client.go, pickEntry: it "finds the requested DN among what a           *)
(* base-scope search returned", which may be a whole subtree.              *)
EntryIsPicked ==
    [][call = "entry" /\ call' = "none" /\ entryRead' = "failed"
         => ctxDone \/ stream = "broken"]_searchVars
=============================================================================
