------------------------------ MODULE TaskPool ------------------------------
(***************************************************************************)
(* The background work of internal/ui/app.go: App.task, App.cancelPending  *)
(* and the generation check, without the spinner (TaskRunner adds it).     *)
(*                                                                         *)
(* Two kinds of actor share App.mu and tview's update queue:               *)
(*   - the UI thread starts tasks, cancels them, retires the connection's  *)
(*     generation and runs queued updates, one at a time;                  *)
(*   - one goroutine per task runs its work, leaves the pending map, posts *)
(*     its update and blocks until the UI thread has run it.               *)
(* Each critical section, and each stretch of UI-thread code that no       *)
(* goroutine can observe half done, is one action.                         *)
(***************************************************************************)
EXTENDS Naturals, Sequences, FiniteSets

CONSTANTS MaxTasks,         \* bound: tasks started in one behaviour
          MaxGeneration     \* bound: how far App.generation counts

ASSUME BoundsAssumption == MaxTasks \in Nat /\ MaxGeneration \in Nat

TaskId == 1 .. MaxTasks     \* App.nextID counts from 0; NoTask takes the 0 here
NoTask == 0
Group  == {"none", "entry"} \* groupNone, groupEntry
Phase  == {"unborn",        \* not started
           "work",          \* in work(ctx)
           "returned",      \* work returned, App.mu not yet taken
           "ours",          \* left the map, was still in it: will post
           "superseded",    \* found itself removed from the map: will drop
           "posted",        \* update queued, blocked in QueueUpdate
           "settled"}       \* goroutine gone

VARIABLES
    nextID,      \* App.nextID
    pending,     \* keys of App.pending
    group,       \* group[t]: the group t was started in
    gen,         \* gen[t]: the generation captured when t was started
    cancelled,   \* tasks whose context was cancelled from the UI thread
    phase,       \* phase[t]: where t's goroutine is
    answer,      \* answer[t]: work returned a non-nil apply
    updates,     \* tview's update queue, the task updates in it
    generation,  \* App.generation
    landed,      \* tasks whose apply has run
    pane         \* the entry read the object pane shows, NoTask at first

vars == <<nextID, pending, group, gen, cancelled, phase, answer, updates,
          generation, landed, pane>>

Init ==
    /\ nextID = 1
    /\ pending = {}
    /\ group = [t \in TaskId |-> "none"]
    /\ gen = [t \in TaskId |-> 0]
    /\ cancelled = {}
    /\ phase = [t \in TaskId |-> "unborn"]
    /\ answer = [t \in TaskId |-> FALSE]
    /\ updates = <<>>
    /\ generation = 0
    /\ landed = {}
    /\ pane = NoTask

-----------------------------------------------------------------------------
(* The UI thread.                                                          *)

(* The tasks that starting one in group g displaces.                       *)
Displaced(g) == {t \in pending : g # "none" /\ group[t] = g}

(* Slips of Start: the displaced tasks stay in the map; they leave it but   *)
(* their contexts are forgotten; every pending task counts as displaced.   *)
StartKeepingDisplaced(g) ==
    /\ nextID \in TaskId
    /\ pending' = pending \cup {nextID}
    /\ cancelled' = cancelled \cup Displaced(g)
    /\ group' = [group EXCEPT ![nextID] = g]
    /\ gen' = [gen EXCEPT ![nextID] = generation]
    /\ phase' = [phase EXCEPT ![nextID] = "work"]
    /\ nextID' = nextID + 1
    /\ UNCHANGED <<answer, updates, generation, landed, pane>>

StartWithoutCancel(g) ==
    /\ nextID \in TaskId
    /\ pending' = (pending \ Displaced(g)) \cup {nextID}
    /\ group' = [group EXCEPT ![nextID] = g]
    /\ gen' = [gen EXCEPT ![nextID] = generation]
    /\ phase' = [phase EXCEPT ![nextID] = "work"]
    /\ nextID' = nextID + 1
    /\ UNCHANGED <<cancelled, answer, updates, generation, landed, pane>>

StartDisplacingAll(g) ==
    /\ nextID \in TaskId
    /\ pending' = {nextID}
    /\ cancelled' = cancelled \cup pending
    /\ group' = [group EXCEPT ![nextID] = g]
    /\ gen' = [gen EXCEPT ![nextID] = generation]
    /\ phase' = [phase EXCEPT ![nextID] = "work"]
    /\ nextID' = nextID + 1
    /\ UNCHANGED <<answer, updates, generation, landed, pane>>

(* App.task up to the go statement. The displaced tasks are cancelled after *)
(* the lock is released; until then their goroutines can only leave a map  *)
(* they are no longer in, so the two moments are one step.                 *)
Start(g) ==
    /\ nextID \in TaskId
    /\ pending' = (pending \ Displaced(g)) \cup {nextID}
    /\ cancelled' = cancelled \cup Displaced(g)
    /\ group' = [group EXCEPT ![nextID] = g]
    /\ gen' = [gen EXCEPT ![nextID] = generation]
    /\ phase' = [phase EXCEPT ![nextID] = "work"]
    /\ nextID' = nextID + 1
    /\ UNCHANGED <<answer, updates, generation, landed, pane>>

(* cancelPending: what Esc does. The map keeps its entries; each goroutine *)
(* takes its own out when its work returns.                                *)
CancelPending ==
    /\ pending # {}
    /\ cancelled' = cancelled \cup pending
    /\ UNCHANGED <<nextID, pending, group, gen, phase, answer, updates,
                   generation, landed, pane>>

(* The part of disconnect that concerns the pool.                          *)
Disconnect ==
    /\ generation < MaxGeneration
    /\ cancelled' = cancelled \cup pending
    /\ generation' = generation + 1
    /\ UNCHANGED <<nextID, pending, group, gen, phase, answer, updates,
                   landed, pane>>

(* The part of adopt that concerns the pool: when nothing was connected,   *)
(* its disconnect returns early, so the generation moves and nothing in    *)
(* flight is cancelled.                                                    *)
Adopt ==
    /\ generation < MaxGeneration
    /\ generation' = generation + 1
    /\ UNCHANGED <<nextID, pending, group, gen, cancelled, phase, answer,
                   updates, landed, pane>>

(* The UI thread takes the oldest update off the queue and t's goroutine,  *)
(* which was waiting for that, ends.                                       *)
TakeUpdate(t) ==
    /\ updates # <<>>
    /\ t = Head(updates)
    /\ updates' = Tail(updates)
    /\ phase' = [phase EXCEPT ![t] = "settled"]
    /\ UNCHANGED <<nextID, pending, group, gen, cancelled, answer, generation>>

(* The update of a task of this generation: its apply runs, if it has one. *)
Land(t) ==
    /\ TakeUpdate(t)
    /\ gen[t] = generation
    /\ landed' = IF answer[t] THEN landed \cup {t} ELSE landed
    /\ pane' = IF answer[t] /\ group[t] = "entry" THEN t ELSE pane

(* The update of a task whose connection is gone: nothing is applied.      *)
LandStale(t) ==
    /\ TakeUpdate(t)
    /\ gen[t] # generation
    /\ UNCHANGED <<landed, pane>>

-----------------------------------------------------------------------------
(* The goroutine of task t.                                                *)

(* A slip: work that does not look at its context until it is done.        *)
WorkIgnoresCancel(t) ==
    /\ phase[t] = "work"
    /\ t \notin cancelled
    /\ phase' = [phase EXCEPT ![t] = "returned"]
    /\ \E b \in BOOLEAN : answer' = [answer EXCEPT ![t] = b]
    /\ UNCHANGED <<nextID, pending, group, gen, cancelled, updates,
                   generation, landed, pane>>

(* work returns: with an apply or without, cancelled or not (the answer    *)
(* may have been on its way already when the context was cancelled).       *)
WorkReturns(t) ==
    /\ phase[t] = "work"
    /\ phase' = [phase EXCEPT ![t] = "returned"]
    /\ \E b \in BOOLEAN : answer' = [answer EXCEPT ![t] = b]
    /\ UNCHANGED <<nextID, pending, group, gen, cancelled, updates,
                   generation, landed, pane>>

(* A slip of LeaveMap: every task takes itself for a current one.          *)
LeaveMapAlwaysOurs(t) ==
    /\ phase[t] = "returned"
    /\ phase' = [phase EXCEPT ![t] = "ours"]
    /\ pending' = pending \ {t}
    /\ UNCHANGED <<nextID, group, gen, cancelled, answer, updates,
                   generation, landed, pane>>

(* The critical section after work: leave the map if still in it.          *)
LeaveMap(t) ==
    /\ phase[t] = "returned"
    /\ phase' = [phase EXCEPT ![t] = IF t \in pending THEN "ours"
                                                      ELSE "superseded"]
    /\ pending' = pending \ {t}
    /\ UNCHANGED <<nextID, group, gen, cancelled, answer, updates,
                   generation, landed, pane>>

(* QueueUpdateDraw. tview's channel holds 100 updates and each goroutine   *)
(* has at most one in it, so sending does not block at this size.          *)
Post(t) ==
    /\ phase[t] = "ours"
    /\ updates' = Append(updates, t)
    /\ phase' = [phase EXCEPT ![t] = "posted"]
    /\ UNCHANGED <<nextID, pending, group, gen, cancelled, answer,
                   generation, landed, pane>>

(* !stillOurs: the result is dropped silently.                             *)
Drop(t) ==
    /\ phase[t] = "superseded"
    /\ phase' = [phase EXCEPT ![t] = "settled"]
    /\ UNCHANGED <<nextID, pending, group, gen, cancelled, answer, updates,
                   generation, landed, pane>>

(* The bound on tasks is used up and every goroutine is gone.              *)
AtRest ==
    /\ nextID \notin TaskId
    /\ \A t \in TaskId : phase[t] = "settled"
    /\ UNCHANGED vars

-----------------------------------------------------------------------------
UIThread ==
    \/ \E g \in Group : Start(g)
    \/ CancelPending
    \/ Disconnect
    \/ Adopt
    \/ \E t \in TaskId : Land(t) \/ LandStale(t)

Goroutine(t) == WorkReturns(t) \/ LeaveMap(t) \/ Post(t) \/ Drop(t)

Next == UIThread \/ (\E t \in TaskId : Goroutine(t)) \/ AtRest

Spec == Init /\ [][Next]_vars

(* Goroutines keep running, the event loop keeps draining its queue, and   *)
(* work whose context is cancelled returns (client.go's run checks it).    *)
(* Nothing says the server answers, or that the user does anything.        *)
Fairness ==
    /\ \A t \in TaskId :
          /\ WF_vars(t \in cancelled /\ WorkReturns(t))
          /\ WF_vars(LeaveMap(t) \/ Post(t) \/ Drop(t))
    /\ WF_vars(\E t \in TaskId : Land(t) \/ LandStale(t))

FairSpec == Spec /\ Fairness

-----------------------------------------------------------------------------
(* Types; ids are handed out in order and never again; what is in the map  *)
(* is in flight; a queued update belongs to a goroutine that waits for it. *)
TypeOK ==
    /\ nextID \in 1 .. MaxTasks + 1
    /\ pending \subseteq TaskId
    /\ group \in [TaskId -> Group]
    /\ gen \in [TaskId -> 0 .. MaxGeneration]
    /\ cancelled \subseteq TaskId
    /\ phase \in [TaskId -> Phase]
    /\ answer \in [TaskId -> BOOLEAN]
    /\ updates \in Seq(TaskId)
    /\ generation \in 0 .. MaxGeneration
    /\ landed \subseteq TaskId
    /\ pane \in TaskId \cup {NoTask}
    /\ \A t \in TaskId : phase[t] = "unborn" <=> t >= nextID
    /\ \A t \in pending : phase[t] \in {"work", "returned"}

(* Starting an entry read displaces the one before it, so at no moment are *)
(* two of them in the pending map (app.go, App.task and groupEntry).       *)
OneEntryReadPending ==
    \A t, u \in pending : group[t] = "entry" /\ group[u] = "entry" => t = u

(* Whatever is still working can be abandoned: Esc reaches it through the  *)
(* pending map, or it was cancelled when it was displaced. No work is ever *)
(* out of reach of cancelPending (app.go: "abandons everything in flight").*)
InFlightIsCancellable ==
    \A t \in TaskId : phase[t] = "work" => t \in pending \cup cancelled

(* groupNone work "must not be displaced by anything else": no such task   *)
(* ever finds itself superseded.                                           *)
UndisplacedWorkIsKept ==
    \A t \in TaskId : phase[t] = "superseded" => group[t] = "entry"

(* Cancelled work, whether by Esc, by a disconnect or by a newer read, ends*)
(* and its goroutine with it, whatever the server does.                    *)
CancelledWorkSettles ==
    \A t \in TaskId : t \in cancelled ~> phase[t] = "settled"

(* An answer to groupNone work reaches the screen, unless the connection   *)
(* it was asked of is gone by then.                                        *)
UndisplacedAnswersLand ==
    \A t \in TaskId :
        phase[t] = "returned" /\ group[t] = "none" /\ answer[t]
            ~> t \in landed \/ gen[t] # generation

(* "Starting a task in a group abandons the one already running in it: ... *)
(* only the newest entry read survives" (app.go:213-215). The pane never   *)
(* goes back from a newer entry read to an older one.                      *)
NewestEntryReadSurvives == [][pane' >= pane]_vars

-----------------------------------------------------------------------------
(* The pool implements AsyncWork: a task runs while it is in the map or is *)
(* on its way to the UI thread, and is abandoned once it was displaced.    *)
StatusOf(t) ==
    IF phase[t] = "unborn" THEN "idle"
    ELSE IF phase[t] = "settled"
         THEN IF t \in landed THEN "delivered" ELSE "discarded"
    ELSE IF t \in pending \/ phase[t] \in {"ours", "posted"}
         THEN "running" ELSE "abandoned"

WorkStatus == [t \in TaskId |-> StatusOf(t)]

AW == INSTANCE AsyncWork WITH status <- WorkStatus, kind <- group,
                              born <- gen, era <- generation

(* Every behaviour of the pool is one the rest of the program was promised:*)
(* displaced work never delivers, nothing but an older entry read is ever  *)
(* displaced, and nothing lands outside the generation it was started in.  *)
ImplementsAsyncWork == AW!Spec
=============================================================================
