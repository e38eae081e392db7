----------------------------- MODULE AsyncWork -----------------------------
(***************************************************************************)
(* What the background-work machinery of internal/ui/app.go promises the   *)
(* rest of the program, with no goroutine, lock, map or queue in sight:    *)
(*                                                                         *)
(*   - work is begun once, in the era (connection generation) of the day;  *)
(*   - beginning an entry read may abandon running entry reads, and        *)
(*     nothing else is ever abandoned;                                     *)
(*   - abandoned work never delivers;                                      *)
(*   - work delivers at most once, and only in the era it was begun in;    *)
(*   - whatever does not deliver is discarded, once.                       *)
(*                                                                         *)
(* TaskPool implements this module (see ImplementsAsyncWork there).        *)
(***************************************************************************)
EXTENDS Naturals

CONSTANT MaxTasks    \* how many pieces of work are ever begun

Work   == 1 .. MaxTasks
Kind   == {"none", "entry"}
Status == {"idle", "running", "abandoned", "delivered", "discarded"}

VARIABLES status,    \* status[w]: where work w stands
          kind,      \* kind[w]: "entry" for an entry read, "none" otherwise
          born,      \* born[w]: the era w was begun in
          era        \* the current era

vars == <<status, kind, born, era>>

Init ==
    /\ status = [w \in Work |-> "idle"]
    /\ kind   = [w \in Work |-> "none"]
    /\ born   = [w \in Work |-> 0]
    /\ era    = 0

(* Work w of kind k begins and the works in S are abandoned for it.        *)
Begin(w, k, S) ==
    /\ status[w] = "idle"
    /\ \A u \in S : k = "entry" /\ kind[u] = "entry" /\ status[u] = "running"
    /\ status' = [u \in Work |-> IF u = w THEN "running"
                                 ELSE IF u \in S THEN "abandoned"
                                 ELSE status[u]]
    /\ kind'   = [kind EXCEPT ![w] = k]
    /\ born'   = [born EXCEPT ![w] = era]
    /\ UNCHANGED era

Deliver(w) ==
    /\ status[w] = "running"
    /\ born[w] = era
    /\ status' = [status EXCEPT ![w] = "delivered"]
    /\ UNCHANGED <<kind, born, era>>

Discard(w) ==
    /\ status[w] \in {"running", "abandoned"}
    /\ status' = [status EXCEPT ![w] = "discarded"]
    /\ UNCHANGED <<kind, born, era>>

NewEra ==
    /\ era' = era + 1
    /\ UNCHANGED <<status, kind, born>>

Next ==
    \/ \E w \in Work, k \in Kind, S \in SUBSET Work : Begin(w, k, S)
    \/ \E w \in Work : Deliver(w) \/ Discard(w)
    \/ NewEra

Spec == Init /\ [][Next]_vars
=============================================================================
