----------------------------- MODULE TaskRunner -----------------------------
(***************************************************************************)
(* TaskPool with the activity indicator: App.startSpinner and stopSpinner, *)
(* the spinner goroutine and its ticker, and the cell of the status bar    *)
(* they write to. App.task decides under the lock whether it made the map  *)
(* non-empty (count == 1) or empty (remaining == 0), and starts or stops   *)
(* the spinner after releasing it: that gap is what this module is about.  *)
(***************************************************************************)
EXTENDS TaskPool

NoSpinner == 0
SpinnerId == TaskId      \* a spinner is named after the task that started it

VARIABLES
    stopper,     \* goroutines that read remaining == 0, stopSpinner to come
    taken,       \* taken[t]: the spinner t took from App.spinner, not closed yet
    spinner,     \* App.spinner with App.stopSpin; NoSpinner when nil
    stopped,     \* spinners whose stop channel is closed
    tick,        \* spinners with a tick in their ticker's channel
    spin,        \* spin[s]: where the goroutine of spinner s is
    frames,      \* tview's update queue, the indicator updates in it
    indicator    \* statusBar.spinner is not ""

SpinPhase == {"unborn", "select", "frame", "clear", "gone"}
FrameKind == {"frame", "clear"}

spinVars == <<stopper, taken, spinner, stopped, tick, spin, frames, indicator>>
allVars  == <<vars, spinVars>>

InitRunner ==
    /\ Init
    /\ stopper = {}
    /\ taken = [t \in TaskId |-> NoSpinner]
    /\ spinner = NoSpinner
    /\ stopped = {}
    /\ tick = {}
    /\ spin = [s \in SpinnerId |-> "unborn"]
    /\ frames = <<>>
    /\ indicator = FALSE

-----------------------------------------------------------------------------
(* A slip: startSpinner without its nil check.                             *)
StartSpinnerUnchecked(t) ==
    /\ spinner' = t
    /\ spin' = [spin EXCEPT ![t] = "select"]

(* startSpinner for task t: nothing to do while a spinner is set.          *)
StartSpinner(t) ==
    IF spinner # NoSpinner
    THEN UNCHANGED <<spinner, spin>>
    ELSE /\ spinner' = t
         /\ spin' = [spin EXCEPT ![t] = "select"]

(* App.task: the spinner starts when the new task is alone in the map. No  *)
(* goroutine can make the map empty before startSpinner is through, as the *)
(* new task's own goroutine is not running yet; and one that takes the old *)
(* spinner off between the two might as well have done so before both.     *)
StartTask(g) ==
    /\ Start(g)
    /\ IF pending' = {nextID} THEN StartSpinner(nextID)
                              ELSE UNCHANGED <<spinner, spin>>
    /\ UNCHANGED <<stopper, taken, stopped, tick, frames, indicator>>

(* A slip: remaining is read before the task leaves the map.               *)
FinishTaskCountingItself(t) ==
    /\ LeaveMap(t)
    /\ stopper' = IF pending = {} THEN stopper \cup {t} ELSE stopper
    /\ UNCHANGED <<taken, spinner, stopped, tick, spin, frames, indicator>>

(* The critical section after work, which also reads remaining.            *)
FinishTask(t) ==
    /\ LeaveMap(t)
    /\ stopper' = IF pending' = {} THEN stopper \cup {t} ELSE stopper
    /\ UNCHANGED <<taken, spinner, stopped, tick, spin, frames, indicator>>

(* stopSpinner, under the lock: takes the ticker and its channel, if any,  *)
(* and leaves App.spinner nil. From here on a new task starts a spinner of *)
(* its own, while this one still turns.                                    *)
TakeSpinner(t) ==
    /\ t \in stopper
    /\ stopper' = stopper \ {t}
    /\ taken' = [taken EXCEPT ![t] = spinner]
    /\ spinner' = NoSpinner
    /\ UNCHANGED <<vars, stopped, tick, spin, frames, indicator>>

(* A slip: the ticker is stopped but its channel is not closed.            *)
CloseSpinnerNever(t) ==
    /\ taken[t] # NoSpinner
    /\ taken' = [taken EXCEPT ![t] = NoSpinner]
    /\ UNCHANGED <<vars, stopper, spinner, stopped, tick, spin, frames, indicator>>

(* A slip: stopSpinner goes by App.spinner again after the unlock.         *)
CloseSpinnerOnShow(t) ==
    /\ taken[t] # NoSpinner
    /\ stopped' = IF spinner # NoSpinner THEN stopped \cup {spinner} ELSE stopped
    /\ taken' = [taken EXCEPT ![t] = NoSpinner]
    /\ UNCHANGED <<vars, stopper, spinner, tick, spin, frames, indicator>>

(* stopSpinner, after the unlock: stops the ticker, closes the channel.    *)
CloseSpinner(t) ==
    /\ taken[t] # NoSpinner
    /\ stopped' = stopped \cup {taken[t]}
    /\ taken' = [taken EXCEPT ![t] = NoSpinner]
    /\ UNCHANGED <<vars, stopper, spinner, tick, spin, frames, indicator>>

(* Only then does the goroutine post its update, or drop its result.       *)
PostOrDrop(t) ==
    /\ t \notin stopper /\ taken[t] = NoSpinner
    /\ Post(t) \/ Drop(t)
    /\ UNCHANGED spinVars

(* The rest of the pool does not touch the spinner.                        *)
PoolStep ==
    /\ \/ CancelPending
       \/ Disconnect
       \/ Adopt
       \/ \E t \in TaskId : Land(t) \/ LandStale(t) \/ WorkReturns(t)
    /\ UNCHANGED spinVars

-----------------------------------------------------------------------------
(* The spinner's goroutine and its ticker (a channel of one tick).         *)

Tick(s) ==
    /\ spin[s] \in {"select", "frame"}
    /\ s \notin stopped
    /\ s \notin tick
    /\ tick' = tick \cup {s}
    /\ UNCHANGED <<vars, stopper, taken, spinner, stopped, spin, frames, indicator>>

(* The select takes the tick: queue a frame and wait until it is drawn. A  *)
(* tick left in the channel can still be taken after the stop.             *)
SelectTick(s) ==
    /\ spin[s] = "select"
    /\ s \in tick
    /\ tick' = tick \ {s}
    /\ spin' = [spin EXCEPT ![s] = "frame"]
    /\ frames' = Append(frames, [by |-> s, kind |-> "frame"])
    /\ UNCHANGED <<vars, stopper, taken, spinner, stopped, indicator>>

(* A slip: the goroutine returns on stop and leaves the last frame up.     *)
SelectStopWithoutClear(s) ==
    /\ spin[s] = "select"
    /\ s \in stopped
    /\ spin' = [spin EXCEPT ![s] = "gone"]
    /\ UNCHANGED <<vars, stopper, taken, spinner, stopped, tick, frames, indicator>>

(* The select takes the stop: queue the clearing of the indicator.         *)
SelectStop(s) ==
    /\ spin[s] = "select"
    /\ s \in stopped
    /\ spin' = [spin EXCEPT ![s] = "clear"]
    /\ frames' = Append(frames, [by |-> s, kind |-> "clear"])
    /\ UNCHANGED <<vars, stopper, taken, spinner, stopped, tick, indicator>>

(* The UI thread runs the oldest indicator update. Tasks' updates share    *)
(* the channel but write other cells, so their order with these is free.   *)
DrawIndicator ==
    /\ frames # <<>>
    /\ LET u == Head(frames)
       IN  /\ indicator' = (u.kind = "frame")
           /\ spin' = [spin EXCEPT ![u.by] = IF u.kind = "frame" THEN "select"
                                                                ELSE "gone"]
    /\ frames' = Tail(frames)
    /\ UNCHANGED <<vars, stopper, taken, spinner, stopped, tick>>

(* AtRest, and every spinner goroutine has drawn its last update.          *)
RunnerAtRest ==
    /\ AtRest
    /\ stopper = {}
    /\ \A t \in TaskId : taken[t] = NoSpinner
    /\ \A s \in SpinnerId : spin[s] \in {"unborn", "gone"}
    /\ UNCHANGED spinVars

-----------------------------------------------------------------------------
Runner(t) == FinishTask(t) \/ TakeSpinner(t) \/ CloseSpinner(t) \/ PostOrDrop(t)

Spinner(s) == SelectTick(s) \/ SelectStop(s)

NextRunner ==
    \/ \E g \in Group : StartTask(g)
    \/ PoolStep
    \/ \E t \in TaskId : Runner(t) \/ Spinner(t) \/ Tick(t)
    \/ DrawIndicator
    \/ RunnerAtRest

SpecRunner == InitRunner /\ [][NextRunner]_allVars

(* As for the pool; besides, the spinner's goroutine runs and its updates  *)
(* are drawn. Again nothing says that work returns unless cancelled.       *)
FairnessRunner ==
    /\ \A t \in TaskId :
          /\ WF_allVars(t \in cancelled /\ PoolStep /\ phase'[t] = "returned")
          /\ WF_allVars(Runner(t))
          /\ WF_allVars(Spinner(t))
    /\ WF_allVars(DrawIndicator)
    /\ WF_allVars(PoolStep /\ updates' # updates)

FairSpecRunner == SpecRunner /\ FairnessRunner

-----------------------------------------------------------------------------
(* Types; a goroutine stops the spinner between leaving the map and posting.*)
TypeOKRunner ==
    /\ TypeOK
    /\ stopper \subseteq TaskId
    /\ taken \in [TaskId -> SpinnerId \cup {NoSpinner}]
    /\ spinner \in SpinnerId \cup {NoSpinner}
    /\ stopped \subseteq SpinnerId
    /\ tick \subseteq SpinnerId
    /\ spin \in [SpinnerId -> SpinPhase]
    /\ frames \in Seq([by : SpinnerId, kind : FrameKind])
    /\ indicator \in BOOLEAN
    /\ \A t \in TaskId : t \in stopper \/ taken[t] # NoSpinner
                          => phase[t] \in {"ours", "superseded"}

(* A spinner that is set will be stopped: while nothing is pending, some   *)
(* goroutine that emptied the map is still on its way to stopSpinner. An   *)
(* indicator that turns for ever with nothing to wait for would need this  *)
(* to fail (app.go, App.task lines 256-265 against 273-286).               *)
SpinnerHasAReason ==
    spinner # NoSpinner => pending # {} \/ stopper # {}

(* A spinner that turns and has not been told to stop is App.spinner, or   *)
(* is held by a goroutine that is about to stop it (app.go:359-367): a     *)
(* second start, or a start between a stop's unlock and its close, loses   *)
(* no ticker. And no stop channel is closed twice, which would panic: what *)
(* a goroutine holds is open, nobody else's, and not App.spinner any more. *)
NoLostTicker ==
    /\ \A s \in SpinnerId :
          spin[s] \in {"select", "frame"} /\ s \notin stopped
             => s = spinner \/ \E t \in TaskId : taken[t] = s
    /\ \A t \in TaskId : taken[t] # NoSpinner
          => /\ taken[t] # spinner /\ taken[t] \notin stopped
             /\ \A u \in TaskId : taken[u] = taken[t] => u = t

(* Esc with nothing started since: the indicator goes out, or new work has *)
(* begun. Holds whatever the server does.                                  *)
EscStopsTheIndicator ==
    (pending \subseteq cancelled)
        ~> (~indicator \/ ~(pending \subseteq cancelled))

(* Once the last started task is cancelled or done, the indicator goes out *)
(* and stays out: no frame of an older spinner is drawn after the clearing.*)
IndicatorGoesOutForGood ==
    ([](nextID \notin TaskId /\ pending \subseteq cancelled)) ~> [](~indicator)

(* status.go:58 calls it "the in-flight indicator" and app.go starts it    *)
(* with the first pending task and stops it with the last: while something *)
(* is in flight, the spinner is set.                                       *)
SpinnerWhilePending == pending # {} => spinner # NoSpinner
=============================================================================
