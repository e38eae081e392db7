------------------------------ MODULE Listing ------------------------------
(***************************************************************************)
(* What a caller of Directory.Search may rely on (ldapx/page.go), one page *)
(* after another: each page continues the one before it, with no gap and   *)
(* nothing twice; when no page is to follow, the listing is whole, unless  *)
(* it says that it is cut short; and what fails leaves nothing behind.     *)
(***************************************************************************)
EXTENDS Naturals

CONSTANT Total     \* entries that match

VARIABLES listed,  \* how many of them the caller has been given, in order
          more,    \* Page.More of the last page
          cut      \* Page.Truncated of the last page

listingVars == <<listed, more, cut>>

InitListing == listed = 0 /\ more = TRUE /\ cut = FALSE

(* The next page; an empty one can only be the last.                       *)
NextPage ==
    /\ more
    /\ listed' \in listed .. Total
    /\ more' \in BOOLEAN /\ cut' \in BOOLEAN
    /\ more' => listed' > listed /\ ~cut'
    /\ ~more' /\ ~cut' => listed' = Total
    /\ cut' => listed' < Total

(* The caller starts over.                                                 *)
StartOver == listed' = 0 /\ more' = TRUE /\ cut' = FALSE

SpecListing == InitListing /\ [][NextPage \/ StartOver]_listingVars
=============================================================================
