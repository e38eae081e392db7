----------------------------- MODULE TaskProofs -----------------------------
(***************************************************************************)
(* Background tasks (TaskPool) and their spinner (TaskRunner), which is    *)
(* the pool with a spinner added, for any number of tasks and generations. *)
(***************************************************************************)
EXTENDS TaskRunner, TLAPS

-----------------------------------------------------------------------------
(* TaskPool.                                                               *)

(* The update queue holds each waiting task once.                          *)
QueueOK ==
    /\ \A i \in 1 .. Len(updates) : phase[updates[i]] = "posted"
    /\ \A i, j \in 1 .. Len(updates) : updates[i] = updates[j] => i = j

(* groupNone work stays in the map until its own goroutine takes it out.   *)
NoneStaysPending ==
    \A t \in TaskId :
        phase[t] \in {"work", "returned"} /\ group[t] = "none" => t \in pending

(* What has landed is over.                                                *)
LandedIsSettled == \A t \in landed : phase[t] = "settled"

(* The inductive invariant. OneEntryReadPending and InFlightIsCancellable  *)
(* are each inductive on top of the types; UndisplacedWorkIsKept needs     *)
(* NoneStaysPending, and the types need QueueOK: running an update ends    *)
(* the goroutine that waits for it, which must not be one still in the map.*)
IInv ==
    /\ TypeOK
    /\ QueueOK
    /\ NoneStaysPending
    /\ LandedIsSettled
    /\ OneEntryReadPending
    /\ InFlightIsCancellable
    /\ UndisplacedWorkIsKept

-----------------------------------------------------------------------------
(* A task that starts joins the map as its only entry read, if it is one;  *)
(* what it displaces is cancelled.                                         *)
LEMMA StartKeepsIInv ==
    ASSUME IInv, NEW g \in Group, Start(g)
    PROVE  IInv'
<1> USE DEF TaskId, NoTask
<1>1. TypeOK'
  <2>1. nextID \in TaskId /\ nextID' \in 1 .. MaxTasks + 1
    BY BoundsAssumption DEF IInv, TypeOK, Start
  <2>2. pending' \subseteq TaskId /\ cancelled' \subseteq TaskId
    BY <2>1 DEF IInv, TypeOK, Start, Displaced
  <2>3. group' \in [TaskId -> Group] /\ gen' \in [TaskId -> 0 .. MaxGeneration]
    BY <2>1 DEF IInv, TypeOK, Start
  <2>4. phase' \in [TaskId -> Phase]
    BY <2>1 DEF IInv, TypeOK, Start, Phase
  <2>5. \A t \in TaskId : phase'[t] = "unborn" <=> t >= nextID'
    BY <2>1 DEF IInv, TypeOK, Start
  <2>6. \A t \in pending' : phase'[t] \in {"work", "returned"}
    BY <2>1 DEF IInv, TypeOK, Start
  <2> QED
    BY <2>1, <2>2, <2>3, <2>4, <2>5, <2>6 DEF IInv, TypeOK, Start
<1>2. QueueOK'
  BY DEF IInv, TypeOK, QueueOK, Start
<1>3. NoneStaysPending'
  BY DEF IInv, TypeOK, NoneStaysPending, Start, Displaced, Group
<1>4. LandedIsSettled'
  BY DEF IInv, TypeOK, LandedIsSettled, Start
<1>5. OneEntryReadPending'
  BY DEF IInv, TypeOK, OneEntryReadPending, Start, Displaced, Group
<1>6. InFlightIsCancellable'
  BY DEF IInv, TypeOK, InFlightIsCancellable, Start, Displaced
<1>7. UndisplacedWorkIsKept'
  BY DEF IInv, TypeOK, UndisplacedWorkIsKept, Start
<1> QED
  BY <1>1, <1>2, <1>3, <1>4, <1>5, <1>6, <1>7 DEF IInv

(* Esc, a disconnect and an adoption only add to the cancelled tasks or    *)
(* move the generation.                                                    *)
LEMMA CancelOrRetireKeepsIInv ==
    ASSUME IInv, CancelPending \/ Disconnect \/ Adopt
    PROVE  IInv'
<1>1. generation' \in 0 .. MaxGeneration
  BY BoundsAssumption DEF IInv, TypeOK, CancelPending, Disconnect, Adopt
<1>2. cancelled' \subseteq TaskId
  BY DEF IInv, TypeOK, CancelPending, Disconnect, Adopt
<1>3. TypeOK'
  BY <1>1, <1>2 DEF IInv, TypeOK, CancelPending, Disconnect, Adopt
<1>4. QueueOK' /\ NoneStaysPending' /\ LandedIsSettled'
  BY DEF IInv, QueueOK, NoneStaysPending, LandedIsSettled,
         CancelPending, Disconnect, Adopt
<1>5. OneEntryReadPending' /\ InFlightIsCancellable' /\ UndisplacedWorkIsKept'
  BY DEF IInv, OneEntryReadPending, InFlightIsCancellable, UndisplacedWorkIsKept,
         CancelPending, Disconnect, Adopt
<1> QED
  BY <1>3, <1>4, <1>5 DEF IInv

(* Running an update ends the goroutine that waits for it and no other.    *)
LEMMA UpdateKeepsIInv ==
    ASSUME IInv, NEW t \in TaskId, Land(t) \/ LandStale(t)
    PROVE  IInv'
<1>1. /\ TakeUpdate(t)
      /\ landed' \in {landed, landed \cup {t}}
      /\ pane' \in {pane, t}
  BY DEF Land, LandStale
<1>2. phase[t] = "posted" /\ updates # <<>> /\ updates \in Seq(TaskId)
  BY <1>1 DEF IInv, TypeOK, QueueOK, TakeUpdate
<1>3. /\ updates' \in Seq(TaskId)
      /\ Len(updates') = Len(updates) - 1
      /\ \A i \in 1 .. Len(updates') : updates'[i] = updates[i + 1]
  BY <1>1, <1>2 DEF TakeUpdate
<1>4. TypeOK'
  BY <1>1, <1>2, <1>3 DEF IInv, TypeOK, TakeUpdate, Phase, TaskId
<1>5. QueueOK'
  <2>1. \A i \in 1 .. Len(updates') : updates'[i] # t
    BY <1>1, <1>2, <1>3 DEF IInv, QueueOK, TakeUpdate
  <2>2. \A i \in 1 .. Len(updates') : phase'[updates'[i]] = "posted"
    BY <1>1, <1>2, <1>3, <2>1 DEF IInv, TypeOK, QueueOK, TakeUpdate
  <2>3. \A i, j \in 1 .. Len(updates') : updates'[i] = updates'[j] => i = j
    BY <1>2, <1>3 DEF IInv, QueueOK
  <2> QED
    BY <2>2, <2>3 DEF QueueOK
<1>6. NoneStaysPending' /\ LandedIsSettled'
  BY <1>1, <1>2 DEF IInv, TypeOK, NoneStaysPending, LandedIsSettled, TakeUpdate
<1>7. OneEntryReadPending' /\ InFlightIsCancellable' /\ UndisplacedWorkIsKept'
  BY <1>1, <1>2 DEF IInv, TypeOK, OneEntryReadPending, InFlightIsCancellable,
                    UndisplacedWorkIsKept, TakeUpdate
<1> QED
  BY <1>4, <1>5, <1>6, <1>7 DEF IInv

LEMMA WorkReturnsKeepsIInv ==
    ASSUME IInv, NEW t \in TaskId, WorkReturns(t)
    PROVE  IInv'
<1>1. TypeOK'
  BY DEF IInv, TypeOK, WorkReturns, Phase
<1>2. QueueOK' /\ NoneStaysPending' /\ LandedIsSettled'
  BY DEF IInv, TypeOK, QueueOK, NoneStaysPending, LandedIsSettled, WorkReturns
<1>3. OneEntryReadPending' /\ InFlightIsCancellable' /\ UndisplacedWorkIsKept'
  BY DEF IInv, TypeOK, OneEntryReadPending, InFlightIsCancellable,
         UndisplacedWorkIsKept, WorkReturns
<1> QED
  BY <1>1, <1>2, <1>3 DEF IInv

(* A goroutine that finds itself gone from the map is an entry read's:     *)
(* NoneStaysPending.                                                       *)
LEMMA LeaveMapKeepsIInv ==
    ASSUME IInv, NEW t \in TaskId, LeaveMap(t)
    PROVE  IInv'
<1>1. TypeOK'
  BY DEF IInv, TypeOK, LeaveMap, Phase
<1>2. QueueOK' /\ NoneStaysPending' /\ LandedIsSettled'
  BY DEF IInv, TypeOK, QueueOK, NoneStaysPending, LandedIsSettled, LeaveMap
<1>3. OneEntryReadPending' /\ InFlightIsCancellable'
  BY DEF IInv, TypeOK, OneEntryReadPending, InFlightIsCancellable, LeaveMap
<1>4. UndisplacedWorkIsKept'
  BY DEF IInv, TypeOK, NoneStaysPending, UndisplacedWorkIsKept, LeaveMap, Group
<1> QED
  BY <1>1, <1>2, <1>3, <1>4 DEF IInv

(* A goroutine posts once: it was not waiting in the queue before.         *)
LEMMA PostKeepsIInv ==
    ASSUME IInv, NEW t \in TaskId, Post(t)
    PROVE  IInv'
<1>1. /\ updates \in Seq(TaskId)
      /\ updates' \in Seq(TaskId)
      /\ Len(updates') = Len(updates) + 1
      /\ updates'[Len(updates) + 1] = t
      /\ \A i \in 1 .. Len(updates) : updates'[i] = updates[i]
  BY DEF IInv, TypeOK, Post
<1>2. TypeOK'
  BY <1>1 DEF IInv, TypeOK, Post, Phase
<1>3. \A i \in 1 .. Len(updates) : updates[i] # t
  BY DEF IInv, QueueOK, Post
<1>4. QueueOK'
  <2>1. \A i \in 1 .. Len(updates') : phase'[updates'[i]] = "posted"
    BY <1>1 DEF IInv, TypeOK, QueueOK, Post
  <2>2. \A i, j \in 1 .. Len(updates') : updates'[i] = updates'[j] => i = j
    BY <1>1, <1>3 DEF IInv, QueueOK
  <2> QED
    BY <2>1, <2>2 DEF QueueOK
<1>5. NoneStaysPending' /\ LandedIsSettled'
  BY DEF IInv, TypeOK, NoneStaysPending, LandedIsSettled, Post
<1>6. OneEntryReadPending' /\ InFlightIsCancellable' /\ UndisplacedWorkIsKept'
  BY DEF IInv, TypeOK, OneEntryReadPending, InFlightIsCancellable,
         UndisplacedWorkIsKept, Post
<1> QED
  BY <1>2, <1>4, <1>5, <1>6 DEF IInv

LEMMA DropKeepsIInv ==
    ASSUME IInv, NEW t \in TaskId, Drop(t)
    PROVE  IInv'
<1>1. TypeOK'
  BY DEF IInv, TypeOK, Drop, Phase
<1>2. QueueOK' /\ NoneStaysPending' /\ LandedIsSettled'
  BY DEF IInv, TypeOK, QueueOK, NoneStaysPending, LandedIsSettled, Drop
<1>3. OneEntryReadPending' /\ InFlightIsCancellable' /\ UndisplacedWorkIsKept'
  BY DEF IInv, TypeOK, OneEntryReadPending, InFlightIsCancellable,
         UndisplacedWorkIsKept, Drop
<1> QED
  BY <1>1, <1>2, <1>3 DEF IInv

-----------------------------------------------------------------------------
LEMMA InitIInv == Init => IInv
<1> SUFFICES ASSUME Init PROVE IInv
  OBVIOUS
<1>1. TypeOK
  BY BoundsAssumption DEF Init, TypeOK, TaskId, Group, Phase, NoTask
<1>2. QueueOK /\ NoneStaysPending /\ LandedIsSettled
  BY DEF Init, QueueOK, NoneStaysPending, LandedIsSettled
<1>3. OneEntryReadPending /\ InFlightIsCancellable /\ UndisplacedWorkIsKept
  BY DEF Init, OneEntryReadPending, InFlightIsCancellable, UndisplacedWorkIsKept
<1> QED
  BY <1>1, <1>2, <1>3 DEF IInv

LEMMA NextKeepsIInv == IInv /\ [Next]_vars => IInv'
<1> SUFFICES ASSUME IInv, [Next]_vars PROVE IInv'
  OBVIOUS
<1>1. ASSUME NEW g \in Group, Start(g) PROVE IInv'
  BY <1>1, StartKeepsIInv
<1>2. CASE CancelPending \/ Disconnect \/ Adopt
  BY <1>2, CancelOrRetireKeepsIInv
<1>3. ASSUME NEW t \in TaskId, Land(t) \/ LandStale(t) PROVE IInv'
  BY <1>3, UpdateKeepsIInv
<1>4. ASSUME NEW t \in TaskId, Goroutine(t) PROVE IInv'
  BY <1>4, WorkReturnsKeepsIInv, LeaveMapKeepsIInv, PostKeepsIInv, DropKeepsIInv
     DEF Goroutine
<1>5. CASE UNCHANGED vars
  BY <1>5 DEF vars, IInv, TypeOK, QueueOK, NoneStaysPending, LandedIsSettled,
              OneEntryReadPending, InFlightIsCancellable, UndisplacedWorkIsKept
<1> QED
  BY <1>1, <1>2, <1>3, <1>4, <1>5 DEF Next, UIThread, AtRest

(* The inductive invariant holds throughout.                               *)
THEOREM PoolInvariant == Spec => []IInv
<1>1. Init => IInv
  BY InitIInv
<1>2. IInv /\ [Next]_vars => IInv'
  BY NextKeepsIInv
<1> QED
  BY <1>1, <1>2, PTL DEF Spec

(* Types, fresh ids, and a map that holds only what is in flight: App.task *)
(* never leaves an entry behind in App.pending, however the goroutines and *)
(* the UI thread interleave.                                               *)
THEOREM TypeCorrect == Spec => []TypeOK
<1>1. IInv => TypeOK
  BY DEF IInv
<1> QED
  BY <1>1, PoolInvariant, PTL

(* Two entry reads are never pending at once (App.task, groupEntry).       *)
THEOREM AtMostOneEntryRead == Spec => []OneEntryReadPending
<1>1. IInv => OneEntryReadPending
  BY DEF IInv
<1> QED
  BY <1>1, PoolInvariant, PTL

(* Esc reaches all work that was not cancelled already (cancelPending).    *)
THEOREM WorkStaysCancellable == Spec => []InFlightIsCancellable
<1>1. IInv => InFlightIsCancellable
  BY DEF IInv
<1> QED
  BY <1>1, PoolInvariant, PTL

(* groupNone work is never displaced (the comment on groupNone).           *)
THEOREM NoneIsNeverDisplaced == Spec => []UndisplacedWorkIsKept
<1>1. IInv => UndisplacedWorkIsKept
  BY DEF IInv
<1> QED
  BY <1>1, PoolInvariant, PTL

-----------------------------------------------------------------------------
(* The refinement of AsyncWork. Each step of the pool begins, delivers or  *)
(* discards one piece of abstract work, starts a new era, or stutters.     *)

LEMMA StartBegins ==
    ASSUME IInv, NEW g \in Group, NEW n \in TaskId, n = nextID, Start(g)
    PROVE  AW!Begin(n, g, Displaced(g))
<1> DEFINE S == Displaced(g)
<1>1. phase[n] = "unborn"
  BY DEF IInv, TypeOK, Start
<1>2. \A u \in S : u \in TaskId /\ u \in pending /\ phase[u] \in {"work", "returned"}
  BY DEF IInv, TypeOK, Displaced
<1>3. \A u \in S : g = "entry" /\ group[u] = "entry" /\ StatusOf(u) = "running"
  BY <1>2 DEF Displaced, Group, StatusOf
<1>4. StatusOf(n) = "idle" /\ StatusOf(n)' = "running"
  BY <1>1 DEF IInv, TypeOK, StatusOf, Start
<1>5. ASSUME NEW u \in TaskId, u # n
      PROVE  StatusOf(u)' = IF u \in S THEN "abandoned" ELSE StatusOf(u)
  <2>1. phase'[u] = phase[u] /\ landed' = landed
    BY <1>5 DEF IInv, TypeOK, Start
  <2>2. u \in pending' <=> u \in pending /\ u \notin S
    BY <1>5 DEF Start
  <2>3. CASE u \in S
    BY <2>1, <2>2, <2>3, <1>2 DEF StatusOf
  <2>4. CASE u \notin S
    BY <2>1, <2>2, <2>4 DEF StatusOf
  <2> QED
    BY <2>3, <2>4
<1>6. WorkStatus' = [u \in TaskId |-> IF u = n THEN "running"
                                      ELSE IF u \in S THEN "abandoned"
                                      ELSE WorkStatus[u]]
  BY <1>4, <1>5 DEF WorkStatus
<1> QED
  BY <1>1, <1>3, <1>4, <1>6, <1>2
     DEF Start, WorkStatus, AW!Begin, AW!Work, TaskId

(* Steps of t's goroutine: work that returns, leaves the map or is posted  *)
(* stays what it was; dropping it discards it.                             *)
LEMMA GoroutineDiscards ==
    ASSUME IInv, NEW t \in TaskId, Goroutine(t)
    PROVE  AW!Discard(t) \/ UNCHANGED AW!vars
<1>1. ASSUME NEW u \in TaskId, u # t PROVE StatusOf(u)' = StatusOf(u)
  BY <1>1 DEF IInv, TypeOK, Goroutine, WorkReturns, LeaveMap, Post, Drop, StatusOf
<1>2. CASE Drop(t)
  <2>1. t \notin pending /\ t \notin landed
    BY <1>2 DEF IInv, TypeOK, LandedIsSettled, Drop
  <2>2. StatusOf(t) = "abandoned" /\ StatusOf(t)' = "discarded"
    BY <1>2, <2>1 DEF IInv, TypeOK, Drop, StatusOf
  <2>3. WorkStatus' = [WorkStatus EXCEPT ![t] = "discarded"]
    BY <2>2, <1>1 DEF WorkStatus
  <2> QED
    BY <1>2, <2>2, <2>3 DEF Drop, WorkStatus, AW!Discard
<1>3. CASE WorkReturns(t) \/ LeaveMap(t) \/ Post(t)
  <2>1. StatusOf(t)' = StatusOf(t)
    BY <1>3 DEF IInv, TypeOK, WorkReturns, LeaveMap, Post, StatusOf
  <2>2. WorkStatus' = WorkStatus
    BY <2>1, <1>1 DEF WorkStatus
  <2> QED
    BY <1>3, <2>2 DEF WorkReturns, LeaveMap, Post, AW!vars
<1> QED
  BY <1>2, <1>3 DEF Goroutine

(* Running an update delivers its task, in its own era, or discards it.    *)
LEMMA UpdateDelivers ==
    ASSUME IInv, NEW t \in TaskId, Land(t) \/ LandStale(t)
    PROVE  AW!Deliver(t) \/ AW!Discard(t)
<1>1. TakeUpdate(t) /\ landed' \in {landed, landed \cup {t}}
  BY DEF Land, LandStale
<1>2. phase[t] = "posted" /\ t \notin landed
  BY <1>1 DEF IInv, TypeOK, QueueOK, LandedIsSettled, TakeUpdate
<1>3. ASSUME NEW u \in TaskId, u # t PROVE StatusOf(u)' = StatusOf(u)
  BY <1>1, <1>3 DEF IInv, TypeOK, TakeUpdate, StatusOf
<1>4. StatusOf(t) = "running"
  BY <1>2 DEF StatusOf
<1>5. CASE t \in landed'
  <2>1. gen[t] = generation
    BY <1>2, <1>5 DEF Land, LandStale
  <2>2. StatusOf(t)' = "delivered"
    BY <1>1, <1>5 DEF IInv, TypeOK, TakeUpdate, StatusOf
  <2>3. WorkStatus' = [WorkStatus EXCEPT ![t] = "delivered"]
    BY <2>2, <1>3 DEF WorkStatus
  <2> QED
    BY <2>1, <2>3, <1>1, <1>4 DEF TakeUpdate, WorkStatus, AW!Deliver
<1>6. CASE t \notin landed'
  <2>1. StatusOf(t)' = "discarded"
    BY <1>1, <1>6 DEF IInv, TypeOK, TakeUpdate, StatusOf
  <2>2. WorkStatus' = [WorkStatus EXCEPT ![t] = "discarded"]
    BY <2>1, <1>3 DEF WorkStatus
  <2> QED
    BY <2>2, <1>1, <1>4 DEF TakeUpdate, WorkStatus, AW!Discard
<1> QED
  BY <1>5, <1>6

LEMMA InitImplements == Init => AW!Init
<1> SUFFICES ASSUME Init PROVE AW!Init
  OBVIOUS
<1>1. WorkStatus = [w \in TaskId |-> "idle"]
  BY DEF Init, WorkStatus, StatusOf
<1> QED
  BY <1>1 DEF Init, AW!Init, AW!Work, TaskId

LEMMA NextImplements == IInv /\ [Next]_vars => [AW!Next]_AW!vars
<1> SUFFICES ASSUME IInv, [Next]_vars PROVE [AW!Next]_AW!vars
  OBVIOUS
<1>1. ASSUME NEW g \in Group, Start(g) PROVE AW!Next
  <2>1. PICK n \in TaskId : n = nextID
    BY <1>1 DEF Start
  <2>2. /\ n \in AW!Work
        /\ g \in AW!Kind
        /\ Displaced(g) \in SUBSET AW!Work
    BY DEF IInv, TypeOK, Displaced, Group, TaskId, AW!Work, AW!Kind
  <2>3. AW!Begin(n, g, Displaced(g))
    BY <1>1, <2>1, StartBegins
  <2> QED
    BY <2>2, <2>3 DEF AW!Next
<1>2. CASE CancelPending
  <2>1. WorkStatus' = WorkStatus
    BY <1>2 DEF CancelPending, WorkStatus, StatusOf
  <2> QED
    BY <1>2, <2>1 DEF CancelPending, AW!vars
<1>3. CASE Disconnect \/ Adopt
  <2>1. WorkStatus' = WorkStatus
    BY <1>3 DEF Disconnect, Adopt, WorkStatus, StatusOf
  <2> QED
    BY <1>3, <2>1 DEF Disconnect, Adopt, AW!NewEra, AW!Next
<1>4. ASSUME NEW t \in TaskId, Land(t) \/ LandStale(t) PROVE AW!Next
  BY <1>4, UpdateDelivers DEF AW!Next, AW!Work, TaskId
<1>5. ASSUME NEW t \in TaskId, Goroutine(t) PROVE [AW!Next]_AW!vars
  BY <1>5, GoroutineDiscards DEF AW!Next, AW!Work, TaskId
<1>6. CASE UNCHANGED vars
  <2>1. WorkStatus' = WorkStatus
    BY <1>6 DEF vars, WorkStatus, StatusOf
  <2> QED
    BY <1>6, <2>1 DEF vars, AW!vars
<1> QED
  BY <1>1, <1>2, <1>3, <1>4, <1>5, <1>6 DEF Next, UIThread, AtRest

(* App.task, with its locks, map and queue, does what AsyncWork says and   *)
(* nothing else: displaced work never delivers, only entry reads are ever  *)
(* displaced, and work delivers at most once and in its own generation.    *)
THEOREM PoolImplementsAsyncWork == Spec => ImplementsAsyncWork
<1>1. Init => AW!Init
  BY InitImplements
<1>2. IInv /\ [Next]_vars => [AW!Next]_AW!vars
  BY NextImplements
<1> QED
  BY <1>1, <1>2, PoolInvariant, PTL DEF Spec, ImplementsAsyncWork, AW!Spec

-----------------------------------------------------------------------------
(* TaskRunner.                                                             *)


(* Every step of the runner is a step of the pool or leaves it alone.      *)
LEMMA RunnerStepIsPoolStep == [NextRunner]_allVars => [Next]_vars
<1> SUFFICES ASSUME [NextRunner]_allVars PROVE [Next]_vars
  OBVIOUS
<1>1. ASSUME NEW g \in Group, StartTask(g) PROVE Next
  BY <1>1 DEF StartTask, Next, UIThread
<1>2. CASE PoolStep
  BY <1>2 DEF PoolStep, Next, UIThread, Goroutine
<1>3. ASSUME NEW t \in TaskId, Runner(t) PROVE [Next]_vars
  BY <1>3 DEF Runner, FinishTask, TakeSpinner, CloseSpinner, PostOrDrop,
              Next, Goroutine
<1>4. ASSUME NEW t \in TaskId, Spinner(t) \/ Tick(t) PROVE UNCHANGED vars
  BY <1>4 DEF Spinner, SelectTick, SelectStop, Tick
<1>5. CASE DrawIndicator \/ RunnerAtRest \/ UNCHANGED allVars
  BY <1>5 DEF DrawIndicator, RunnerAtRest, AtRest, allVars
<1> QED
  BY <1>1, <1>2, <1>3, <1>4, <1>5 DEF NextRunner

(* So what is proved of the pool holds with the spinner running as well.   *)
THEOREM RunnerImplementsPool == SpecRunner => Spec
<1>1. InitRunner => Init
  BY DEF InitRunner
<1> QED
  BY <1>1, RunnerStepIsPoolStep, PTL DEF SpecRunner, Spec

-----------------------------------------------------------------------------
(* Each spinner goroutine waits for at most one queued indicator update.   *)
FramesOK ==
    /\ \A i \in 1 .. Len(frames) : spin[frames[i].by] = frames[i].kind
    /\ \A i, j \in 1 .. Len(frames) : frames[i].by = frames[j].by => i = j

(* A spinner is not there before the task that starts it.                  *)
SpinnersComeWithTasks ==
    \A s \in SpinnerId : s >= nextID =>
        /\ spin[s] = "unborn"
        /\ s # spinner /\ s \notin stopped
        /\ \A t \in TaskId : taken[t] # s

(* stopSpinner works on what it took and nothing else: App.spinner is open,*)
(* and a goroutine on its way there holds nothing yet.                     *)
SpinnerIsOpen ==
    /\ spinner \notin stopped
    /\ \A t \in stopper : taken[t] = NoSpinner

(* The inductive invariant of the spinner, on top of the pool's. The last  *)
(* two are what matters; drawing an update moves the goroutine that waits  *)
(* for it, which FramesOK identifies, and a new spinner is in no queue and *)
(* in nobody's hands yet by SpinnersComeWithTasks.                         *)
RInv ==
    /\ TypeOKRunner
    /\ FramesOK
    /\ SpinnersComeWithTasks
    /\ SpinnerIsOpen
    /\ SpinnerHasAReason
    /\ NoLostTicker

-----------------------------------------------------------------------------
LEMMA FrameTypes ==
    ASSUME RInv, NEW i \in 1 .. Len(frames)
    PROVE  frames[i].by \in SpinnerId /\ frames[i].kind \in FrameKind
<1>1. ASSUME NEW R, frames \in Seq(R) PROVE frames[i] \in R
  BY <1>1
<1>2. frames[i] \in [by : SpinnerId, kind : FrameKind]
  BY <1>1 DEF RInv, TypeOKRunner
<1> QED
  BY <1>2

LEMMA StartTaskKeepsRInv ==
    ASSUME IInv, RInv, TypeOK', NEW g \in Group, NEW n \in TaskId, n = nextID,
           StartTask(g)
    PROVE  RInv'
<1>1. /\ nextID' = n + 1 /\ n \in pending'
      /\ phase' = [phase EXCEPT ![n] = "work"] /\ phase[n] = "unborn"
      /\ UNCHANGED <<stopper, taken, stopped, tick, frames, indicator>>
      /\ spin[n] = "unborn" /\ n # spinner /\ n \notin stopped
      /\ \A t \in TaskId : taken[t] # n
  BY DEF RInv, SpinnersComeWithTasks, SpinnerId, IInv, TypeOK, StartTask, Start, TaskId
<1>2. \/ UNCHANGED <<spinner, spin>>
      \/ /\ spinner = NoSpinner
         /\ spinner' = n
         /\ spin' = [spin EXCEPT ![n] = "select"]
  BY DEF StartTask, StartSpinner
<1>3. TypeOKRunner'
  <2>1. spinner' \in SpinnerId \cup {NoSpinner} /\ spin' \in [SpinnerId -> SpinPhase]
    BY <1>2 DEF RInv, TypeOKRunner, SpinnerId, SpinPhase
  <2>2. \A t \in TaskId : t \in stopper \/ taken[t] # NoSpinner
                            => phase'[t] \in {"ours", "superseded"}
    <3> SUFFICES ASSUME NEW t \in TaskId, t \in stopper \/ taken[t] # NoSpinner
                 PROVE  phase'[t] \in {"ours", "superseded"}
      OBVIOUS
    <3>1. phase[t] \in {"ours", "superseded"}
      BY DEF RInv, TypeOKRunner
    <3> QED
      BY <3>1, <1>1 DEF IInv, TypeOK
  <2> QED
    BY <1>1, <2>1, <2>2 DEF RInv, TypeOKRunner
<1>4. /\ \A s \in SpinnerId : s # n => spin'[s] = spin[s]
      /\ spin'[n] # "unborn" => spin'[n] = "select" /\ spinner' = n
      /\ spinner # NoSpinner => spinner' = spinner
  BY <1>1, <1>2 DEF RInv, TypeOKRunner, SpinnerId
<1>5. FramesOK'
  <2>1. \A i \in 1 .. Len(frames) : frames[i].by \in SpinnerId /\ frames[i].by # n
    BY <1>1, FrameTypes DEF RInv, FramesOK, FrameKind
  <2> QED
    BY <2>1, <1>1, <1>4 DEF RInv, FramesOK
<1>6. SpinnersComeWithTasks' /\ SpinnerIsOpen'
  <2>1. spinner' \in {spinner, n}
    BY <1>2
  <2> QED
    BY <1>1, <1>4, <2>1 DEF RInv, SpinnersComeWithTasks, SpinnerIsOpen, SpinnerId, TaskId
<1>7. SpinnerHasAReason'
  BY <1>1 DEF SpinnerHasAReason
<1>8. NoLostTicker'
  <2>1. ASSUME NEW s \in SpinnerId,
               spin'[s] \in {"select", "frame"}, s \notin stopped'
        PROVE  s = spinner' \/ \E t \in TaskId : taken'[t] = s
    <3>1. CASE s = n
      BY <2>1, <3>1, <1>4
    <3>2. CASE s # n
      <4>1. s = spinner \/ \E t \in TaskId : taken[t] = s
        BY <2>1, <3>2, <1>1, <1>4 DEF RInv, NoLostTicker
      <4>2. s # NoSpinner
        BY DEF SpinnerId, TaskId, NoSpinner
      <4> QED
        BY <4>1, <4>2, <1>1, <1>4
    <3> QED
      BY <3>1, <3>2
  <2>2. \A t \in TaskId : taken[t] # spinner' \/ taken[t] = NoSpinner
    BY <1>1, <1>2 DEF RInv, NoLostTicker
  <2> QED
    BY <2>1, <2>2, <1>1 DEF RInv, NoLostTicker
<1> QED
  BY <1>3, <1>5, <1>6, <1>7, <1>8 DEF RInv

LEMMA PoolStepKeepsRInv ==
    ASSUME IInv, RInv, TypeOK', PoolStep
    PROVE  RInv'
<1>1. UNCHANGED spinVars /\ UNCHANGED <<nextID, pending>>
  BY DEF PoolStep, CancelPending, Disconnect, Adopt, Land, LandStale,
         TakeUpdate, WorkReturns
<1> DEFINE Stopping == {t \in TaskId : t \in stopper \/ taken[t] # NoSpinner}
<1>2. \A t \in Stopping : phase'[t] = phase[t]
  <2>1. CASE CancelPending \/ Disconnect \/ Adopt
    BY <2>1 DEF CancelPending, Disconnect, Adopt
  <2>2. ASSUME NEW u \in TaskId, Land(u) \/ LandStale(u) \/ WorkReturns(u)
        PROVE  \A t \in Stopping : phase'[t] = phase[t]
    <3>1. phase[u] \in {"posted", "work"}
      BY <2>2 DEF IInv, QueueOK, TypeOK, Land, LandStale, TakeUpdate, WorkReturns
    <3>2. u \notin Stopping
      BY <3>1 DEF RInv, TypeOKRunner
    <3> QED
      BY <2>2, <3>2 DEF IInv, TypeOK, RInv, TypeOKRunner, Land, LandStale,
                        TakeUpdate, WorkReturns
  <2> QED
    BY <2>1, <2>2 DEF PoolStep
<1>3. TypeOKRunner'
  BY <1>1, <1>2 DEF RInv, TypeOKRunner, spinVars
<1>4. /\ FramesOK' /\ SpinnersComeWithTasks' /\ SpinnerIsOpen'
      /\ SpinnerHasAReason' /\ NoLostTicker'
  BY <1>1 DEF RInv, FramesOK, SpinnersComeWithTasks, SpinnerIsOpen,
              SpinnerHasAReason, NoLostTicker, spinVars
<1> QED
  BY <1>3, <1>4 DEF RInv

(* A goroutine that empties the map becomes a stopper in the same critical *)
(* section. What it takes is App.spinner, open by SpinnerIsOpen and held by*)
(* nobody else; it alone holds it until it has closed it.                  *)
LEMMA RunnerKeepsRInv ==
    ASSUME IInv, RInv, TypeOK', NEW t \in TaskId, Runner(t)
    PROVE  RInv'
<1>1. CASE FinishTask(t)
  <2>1. /\ phase[t] = "returned" /\ taken[t] = NoSpinner
        /\ stopper' \subseteq stopper \cup {t}
        /\ nextID' = nextID
    BY <1>1 DEF IInv, TypeOK, RInv, TypeOKRunner, FinishTask, LeaveMap
  <2>2. TypeOKRunner'
    BY <1>1, <2>1 DEF IInv, TypeOK, RInv, TypeOKRunner, FinishTask, LeaveMap
  <2>3. FramesOK' /\ SpinnersComeWithTasks' /\ SpinnerIsOpen' /\ NoLostTicker'
    BY <1>1, <2>1 DEF RInv, FramesOK, SpinnersComeWithTasks, SpinnerIsOpen,
                      NoLostTicker, FinishTask
  <2>4. SpinnerHasAReason'
    BY <1>1 DEF RInv, SpinnerHasAReason, FinishTask
  <2> QED
    BY <2>2, <2>3, <2>4 DEF RInv
<1>2. CASE TakeSpinner(t)
  <2>1. /\ taken[t] = NoSpinner /\ taken' = [taken EXCEPT ![t] = spinner]
        /\ spinner' = NoSpinner /\ stopper' = stopper \ {t} /\ t \in stopper
        /\ UNCHANGED <<vars, stopped, tick, spin, frames, indicator>>
    BY <1>2 DEF TakeSpinner, RInv, SpinnerIsOpen
  <2>2. /\ taken'[t] = spinner
        /\ \A u \in TaskId : u # t => taken'[u] = taken[u]
    BY <2>1 DEF RInv, TypeOKRunner
  <2>3. NoSpinner \notin SpinnerId
    BY DEF NoSpinner, SpinnerId, TaskId
  <2>4. TypeOKRunner'
    BY <2>1, <2>2 DEF RInv, TypeOKRunner, vars
  <2>5. FramesOK' /\ SpinnersComeWithTasks' /\ SpinnerIsOpen' /\ SpinnerHasAReason'
    BY <2>1, <2>2, <2>3 DEF RInv, TypeOKRunner, FramesOK, SpinnersComeWithTasks,
                       SpinnerIsOpen, SpinnerHasAReason, vars
  <2>6. NoLostTicker'
    <3>1. ASSUME NEW s \in SpinnerId,
                 spin'[s] \in {"select", "frame"}, s \notin stopped'
          PROVE  \E u \in TaskId : taken'[u] = s
      <4>1. s = spinner \/ \E u \in TaskId : taken[u] = s
        BY <2>1, <3>1 DEF RInv, NoLostTicker
      <4> QED
        BY <4>1, <2>1, <2>2, <2>3
    <3>2. ASSUME NEW u \in TaskId, taken'[u] # NoSpinner
          PROVE  /\ taken'[u] \notin stopped
                 /\ \A v \in TaskId : taken'[v] = taken'[u] => v = u
      BY <3>2, <2>1, <2>2 DEF RInv, NoLostTicker, SpinnerIsOpen
    <3> QED
      BY <3>1, <3>2, <2>1 DEF NoLostTicker
  <2> QED
    BY <2>4, <2>5, <2>6 DEF RInv
<1>3. CASE CloseSpinner(t)
  <2>1. /\ taken[t] # NoSpinner /\ taken' = [taken EXCEPT ![t] = NoSpinner]
        /\ stopped' = stopped \cup {taken[t]} /\ taken[t] \in SpinnerId
        /\ UNCHANGED <<vars, stopper, spinner, tick, spin, frames, indicator>>
    BY <1>3 DEF CloseSpinner, RInv, TypeOKRunner
  <2>2. /\ taken'[t] = NoSpinner
        /\ \A u \in TaskId : u # t => taken'[u] = taken[u]
    BY <2>1 DEF RInv, TypeOKRunner
  <2>3. NoSpinner \notin SpinnerId
    BY DEF NoSpinner, SpinnerId, TaskId
  <2>4. TypeOKRunner'
    BY <2>1, <2>2 DEF RInv, TypeOKRunner, vars
  <2>5. FramesOK' /\ SpinnersComeWithTasks' /\ SpinnerIsOpen' /\ SpinnerHasAReason'
    BY <2>1, <2>2, <2>3 DEF RInv, FramesOK, SpinnersComeWithTasks, SpinnerIsOpen,
                       SpinnerHasAReason, NoLostTicker, TypeOKRunner, vars
  <2>6. NoLostTicker'
    BY <2>1, <2>2 DEF RInv, NoLostTicker
  <2> QED
    BY <2>4, <2>5, <2>6 DEF RInv
<1>4. CASE PostOrDrop(t)
  <2>1. TypeOKRunner'
    BY <1>4 DEF IInv, TypeOK, RInv, TypeOKRunner, PostOrDrop, Post, Drop, spinVars
  <2>2. /\ FramesOK' /\ SpinnersComeWithTasks' /\ SpinnerIsOpen'
        /\ SpinnerHasAReason' /\ NoLostTicker'
    BY <1>4 DEF RInv, FramesOK, SpinnersComeWithTasks, SpinnerIsOpen,
                SpinnerHasAReason, NoLostTicker, PostOrDrop, Post, Drop, spinVars
  <2> QED
    BY <2>1, <2>2 DEF RInv
<1> QED
  BY <1>1, <1>2, <1>3, <1>4 DEF Runner

(* The select of a spinner goroutine queues its one update.                *)
LEMMA SelectKeepsRInv ==
    ASSUME RInv, TypeOK', NEW s \in SpinnerId, Spinner(s)
    PROVE  RInv'
<1>1. PICK k \in FrameKind :
         /\ frames' = Append(frames, [by |-> s, kind |-> k])
         /\ spin' = [spin EXCEPT ![s] = k]
         /\ k = "clear" => s \in stopped
  BY DEF Spinner, SelectTick, SelectStop, FrameKind
<1>2. /\ spin[s] = "select"
      /\ tick' \subseteq tick
      /\ UNCHANGED <<vars, stopper, taken, spinner, stopped, indicator>>
  BY DEF Spinner, SelectTick, SelectStop
<1>3. /\ frames \in Seq([by : SpinnerId, kind : FrameKind])
      /\ frames' \in Seq([by : SpinnerId, kind : FrameKind])
      /\ Len(frames') = Len(frames) + 1
      /\ frames'[Len(frames) + 1] = [by |-> s, kind |-> k]
      /\ \A i \in 1 .. Len(frames) : frames'[i] = frames[i]
  BY <1>1 DEF RInv, TypeOKRunner
<1>4. TypeOKRunner'
  BY <1>1, <1>2, <1>3 DEF RInv, TypeOKRunner, vars, SpinPhase, FrameKind
<1>5. \A i \in 1 .. Len(frames) : frames[i].by # s
  BY <1>2, FrameTypes DEF RInv, FramesOK, FrameKind
<1>6. FramesOK'
  <2>1. \A i \in 1 .. Len(frames') : spin'[frames'[i].by] = frames'[i].kind
    BY <1>1, <1>3, <1>5 DEF RInv, FramesOK, TypeOKRunner
  <2>2. \A i, j \in 1 .. Len(frames') : frames'[i].by = frames'[j].by => i = j
    BY <1>3, <1>5 DEF RInv, FramesOK
  <2> QED
    BY <2>1, <2>2 DEF FramesOK
<1>7. SpinnersComeWithTasks'
  BY <1>1, <1>2 DEF RInv, SpinnersComeWithTasks, TypeOKRunner, vars
<1>8. SpinnerIsOpen' /\ SpinnerHasAReason' /\ NoLostTicker'
  BY <1>1, <1>2 DEF RInv, SpinnerIsOpen, SpinnerHasAReason, NoLostTicker,
                    TypeOKRunner, vars
<1> QED
  BY <1>4, <1>6, <1>7, <1>8 DEF RInv

LEMMA TickKeepsRInv ==
    ASSUME RInv, TypeOK', NEW s \in SpinnerId, Tick(s)
    PROVE  RInv'
  BY DEF RInv, TypeOKRunner, FramesOK, SpinnersComeWithTasks, SpinnerIsOpen,
         SpinnerHasAReason, NoLostTicker, Tick, vars

(* Drawing an update lets the goroutine that queued it, and no other, go   *)
(* on; it goes back to its select only if it was drawing a frame.          *)
LEMMA DrawKeepsRInv ==
    ASSUME RInv, TypeOK', DrawIndicator
    PROVE  RInv'
<1> DEFINE u == Head(frames)
<1>1. /\ frames # <<>> /\ frames \in Seq([by : SpinnerId, kind : FrameKind])
      /\ frames' = Tail(frames)
      /\ spin' = [spin EXCEPT ![u.by] = IF u.kind = "frame" THEN "select" ELSE "gone"]
      /\ indicator' = (u.kind = "frame")
      /\ UNCHANGED <<vars, stopper, taken, spinner, stopped, tick>>
  BY DEF DrawIndicator, RInv, TypeOKRunner
<1>2. 1 \in 1 .. Len(frames) /\ u = frames[1]
  BY <1>1
<1>3. u.by \in SpinnerId /\ u.kind \in FrameKind /\ spin[u.by] = u.kind
  BY <1>2, FrameTypes DEF RInv, FramesOK
<1>4. /\ frames' \in Seq([by : SpinnerId, kind : FrameKind])
      /\ Len(frames') = Len(frames) - 1
      /\ \A i \in 1 .. Len(frames') : frames'[i] = frames[i + 1]
  BY <1>1
<1>5. TypeOKRunner'
  BY <1>1, <1>3, <1>4 DEF RInv, TypeOKRunner, vars, SpinPhase
<1>6. \A i \in 1 .. Len(frames') : frames'[i].by # u.by
  BY <1>1, <1>2, <1>4 DEF RInv, FramesOK
<1>7. FramesOK'
  <2>1. \A i \in 1 .. Len(frames') : spin'[frames'[i].by] = frames'[i].kind
    BY <1>1, <1>4, <1>6 DEF RInv, FramesOK, TypeOKRunner
  <2>2. \A i, j \in 1 .. Len(frames') : frames'[i].by = frames'[j].by => i = j
    BY <1>1, <1>4 DEF RInv, FramesOK
  <2> QED
    BY <2>1, <2>2 DEF FramesOK
<1>8. SpinnersComeWithTasks'
  BY <1>1, <1>2, <1>3 DEF RInv, SpinnersComeWithTasks, TypeOKRunner, vars, FrameKind
<1>9. SpinnerIsOpen' /\ SpinnerHasAReason' /\ NoLostTicker'
  BY <1>1, <1>3 DEF RInv, SpinnerIsOpen, SpinnerHasAReason, NoLostTicker,
                    TypeOKRunner, vars
<1> QED
  BY <1>5, <1>7, <1>8, <1>9 DEF RInv

-----------------------------------------------------------------------------
LEMMA InitRInv == InitRunner => RInv
<1> SUFFICES ASSUME InitRunner PROVE RInv
  OBVIOUS
<1>1. TypeOK
  BY InitIInv DEF InitRunner, IInv
<1>2. <<>> \in Seq([by : SpinnerId, kind : FrameKind])
  OBVIOUS
<1>3. TypeOKRunner
  BY <1>1, <1>2 DEF InitRunner, TypeOKRunner, SpinPhase
<1> QED
  BY <1>3 DEF InitRunner, RInv, FramesOK, SpinnersComeWithTasks, SpinnerIsOpen,
              SpinnerHasAReason, NoLostTicker, NoSpinner, SpinnerId, TaskId, Init

LEMMA NextKeepsRInv == IInv /\ IInv' /\ RInv /\ [NextRunner]_allVars => RInv'
<1> SUFFICES ASSUME IInv, IInv', RInv, [NextRunner]_allVars PROVE RInv'
  OBVIOUS
<1>1. TypeOK'
  BY DEF IInv
<1>2. ASSUME NEW g \in Group, StartTask(g) PROVE RInv'
  <2>1. PICK n \in TaskId : n = nextID
    BY <1>2 DEF StartTask, Start
  <2> QED
    BY <1>1, <1>2, <2>1, StartTaskKeepsRInv
<1>3. CASE PoolStep
  BY <1>1, <1>3, PoolStepKeepsRInv
<1>4. ASSUME NEW t \in TaskId, Runner(t) PROVE RInv'
  BY <1>1, <1>4, RunnerKeepsRInv
<1>5. ASSUME NEW t \in TaskId, Spinner(t) PROVE RInv'
  BY <1>1, <1>5, SelectKeepsRInv DEF SpinnerId
<1>6. ASSUME NEW t \in TaskId, Tick(t) PROVE RInv'
  BY <1>1, <1>6, TickKeepsRInv DEF SpinnerId
<1>7. CASE DrawIndicator
  BY <1>1, <1>7, DrawKeepsRInv
<1>8. CASE RunnerAtRest \/ UNCHANGED allVars
  <2>1. UNCHANGED spinVars /\ UNCHANGED vars
    BY <1>8 DEF RunnerAtRest, AtRest, allVars
  <2> QED
    BY <2>1 DEF RInv, TypeOKRunner, TypeOK, FramesOK, SpinnersComeWithTasks,
                SpinnerIsOpen, SpinnerHasAReason, NoLostTicker, spinVars, vars
<1> QED
  BY <1>2, <1>3, <1>4, <1>5, <1>6, <1>7, <1>8 DEF NextRunner

THEOREM RunnerInvariant == SpecRunner => []RInv
<1>1. InitRunner => RInv
  BY InitRInv
<1>2. IInv /\ IInv' /\ RInv /\ [NextRunner]_allVars => RInv'
  BY NextKeepsRInv
<1> QED
  BY <1>1, <1>2, RunnerImplementsPool, PoolInvariant, PTL DEF SpecRunner

(* A spinner that is set is going to be stopped: while it turns, something *)
(* is pending or a goroutine is on its way to stopSpinner.                 *)
THEOREM SpinnerAlwaysHasAReason == SpecRunner => []SpinnerHasAReason
<1>1. RInv => SpinnerHasAReason
  BY DEF RInv
<1> QED
  BY <1>1, RunnerInvariant, PTL

(* No ticker is ever lost track of, whatever starts and stops race.        *)
THEOREM NoTickerIsLost == SpecRunner => []NoLostTicker
<1>1. RInv => NoLostTicker
  BY DEF RInv
<1> QED
  BY <1>1, RunnerInvariant, PTL
=============================================================================
