# A TLA+ model of PADL

PADL is a terminal LDAP browser written in Go: a tview interface
(`internal/ui`), a directory client on top of go-ldap (`internal/ldapx`), an
LDIF writer (`internal/ldif`) and three stores for profiles, pinned
certificates and passwords (`internal/config`). This directory holds TLA+
modules for the parts of it where order matters, TLC configurations that check
them on small instances, and proofs, checked by TLAPS, that the central
properties hold for every value of the constants. Line numbers refer to
`src/`; `app.go` is `internal/ui/app.go`, other files are named by their last part.

Who runs concurrently: one UI thread (tview's event loop: key handlers and
queued updates, one at a time), one goroutine per background task, and one per
spinner. They share `App.pending`, `App.spinner` and `App.stopSpin` under
`App.mu`, tview's update queue, and, without any lock, `App.dir`.

## Inventory

| Component | State | Operations | Interacts with | Hard | Correct when |
|---|---|---|---|---|---|
| Background tasks, `app.go:211-328` | `pending`, `nextID`, `generation`, one context per task | `task`, its goroutine and its queued update, `cancelPending` | everything that calls the server | interleaving of starts, cancels, leaving the map, posting, landing | at most one entry read pending; all work cancellable; displaced work never delivers; nothing lands in another generation |
| Activity indicator, `app.go:330-368`, `status.go:58-73` | `spinner`, `stopSpin`, the status cell | `startSpinner`, `stopSpinner`, the ticker's goroutine | task start and finish | decided under the lock, done after it; ticks left in the channel | stops when nothing is pending, and stays out |
| Connection session, `app.go:636-829` | `dir`, `profile`, `root`, `vendor` | `connect`, `dial`, `promptTrust`, `adopt`, `disconnect`, `loadBases` | tasks, dialogs, stores, client | several dials in flight, prompts that outlive what they ask about, goroutines that read `dir` | work lands on its own connection; only trusted peers; nothing leaks; nothing is saved for a deleted profile |
| Dialogs and focus, `app.go:370-634`, `modals.go`, `profiles.go` | `modals`, `modalSeq`, tview's focus, `searching` | `openModal`, `closeModal`, key routing | session, search, jumps, export | results land while a dialog is up | the top dialog has the keyboard |
| Trust, `tls.go`, `config/trust.go` | `pins` and `trust.yaml` | `verifyPeer`, `Get`, `Set`, `Delete` | dial, prompt, profile deletion | pin looked up early and used late | the certificate is verified or was accepted for that profile |
| Passwords, `config/secrets.go` | OS keychain (external) | `Lookup`, `Store`, `Forget` | connect, adopt, deletion | keychain may refuse | no entry without a profile |
| Profile store, `config/profiles.go` | list in memory, `profiles.yaml` | `Put`, `Delete`, `Save`, `List` | dialogs, bookmarks | memory changed and file not; two writers; crash | file is old or new; memory and file agree |
| Tree, `tree.go`, `app.go:860-932` | per node `loaded`, `loading`, `cookie`, `truncated`, `childCount` | expand, load more, reload, fail | tasks, walks | a reload or a walk while a fetch is in flight | one fetch per node, no page twice |
| Search, `search.go`, `app.go:1235-1332` | `searching`, history, `entries`, `query`, `cookie`, `loading` | run, load more, close | tasks, focus | pages of two queries in flight | the list is of one query |
| Jumps and history, `app.go:1066-1436` | `back`, `forward`, a `walk` | `navigateTo`, `walkTo`, `pageTowards`, `recordJump`, `goBack`, `goForward` | tree | the tree changes under the walk | walks end; the trail is bounded |
| Object pane, `object.go` | `entry`, `operational`, rows | `setBusy`, `show`, `clear` | entry reads | late answers | shows what the cursor is on |
| Bookmarks, `app.go:1437-1489` | in the profile | toggle, open, delete | profile store | stale copy of the profile | edits are kept |
| Export, `app.go:1491-1634`, `ldif.go` | file | walk a subtree, write | tasks, client | cancel and failure midway | complete or reported |
| Directory client, `client.go`, `page.go` | connection | `Connect`, `Children`, `Search`, `Entry`, `run`, `runPaged` | goroutines of tasks | limits, cookies, cancellation | no entry lost or invented |
| LDIF writer, `ldif.go` | none | `WriteEntry`, `writeAttr`, `fold`, `Comment` | export, clipboard | encoding and folding at their limits | what is read back is what was written, or the file says what is missing |
| Connecting and trust decision, `client.go:30-110`, `tls.go` | one connection attempt | `Connect`, `bind`, `verifyPeer`, `RootDSE` | session, trust store | the decision is made inside a handshake that StartTLS does late; silent servers; Esc | the password goes to trusted peers only; attempts end |
| DN, root DSE, vendor, quick search, `entry.go`, `rootdse.go`, `vendor.go`, `quick.go` | none | pure functions | tree, walk, search, bar | boundaries | agree with their definition |
| Attribute decoding, `attr*.go` | none | flag words, intervals, associations, ... | object pane | width, sign, shape | what is shown is what is stored, or is shown raw |
| Layout, theme, `main.go`, packaging, lab tools | none | wording, flags, build | - | - | not modelled (below) |

The hazards, each at its line with the properties that watch it, are in
`PROJECT.json`.

## Plan

In order of importance, as it was followed. An abstract specification stands
before the module that implements it.

1. `AsyncWork`, `TaskPool`; `TaskRunner`: background work, with `TaskProofs`.
2. `Session`, `SessionProofs`, composed with `AsyncWork`.
3. `ChildListing`; `Jump`, and `Walk`, which extends `ChildListing`, with
   `WalkProofs`; `History`, which extends `Jump`.
4. `SavedConfig`, `ConfigStore`; `ProfileLifecycle`. What PADL remembers, these
   and `History`, is proved about in `RememberedProofs`.
5. `FilterBar`; `SearchResults`; with `SearchingProofs`.
6. `Listing`, `DirectorySearch`; `Connecting`; `ObjectPane`; `Export`; with
   `RequestsProofs`.
7. `Splitting`; `Ldif`; `Rendering`; with `TextProofs`.
8. `Names`, and `Browse`, which extends it, with `BrowseProofs`.

What would come next, should the model grow: ACLs, times and GUIDs of the
attribute decoding, and folding rows away.

## The modules

### AsyncWork

The machinery seen from outside: work is idle, running, abandoned, delivered or
discarded. An entry read may abandon running entry reads; abandoned work never
delivers; work delivers at most once and only in the era it was begun in.
`Session` composes with this module instead of the pool, which keeps its state
space small; `ImplementsAsyncWork` is what makes that sound: each of its
behaviours is promised by `AsyncWork`, so what holds with `AsyncWork` holds
with the pool. `SessionRespectsAsyncWork` is the other half: the session does
nothing with work that `AsyncWork` does not offer. Its reads are all of kind
"none": a displaced entry read is one whose answer changes nothing.

### TaskPool

`App.task` without the spinner. `pending`, `group`, `gen` and `cancelled` stand
for the map, each task's group, the generation it captured and its context;
`phase` is where its goroutine is; `updates` is tview's queue.

| Action | Code |
|---|---|
| `Start(g)` | `task` up to the go statement (237-268) |
| `WorkReturns(t)` | the goroutine's `work(ctx)` (271), with or without an answer |
| `LeaveMap(t)` | its critical section (273-281) |
| `Post(t)`, `Drop(t)` | `QueueUpdateDraw` (293), or the return of a superseded task (287-291) |
| `Land(t)`, `LandStale(t)` | the queued update, generation equal or not (294-312) |
| `CancelPending` | 317-328 |
| `Disconnect`, `Adopt` | what 647-658 and 754-756 do to the pool |

The cancel functions of displaced tasks run after the lock is released; their
goroutines can by then only find themselves gone from the map, so `Start` is one
step. `pane` stands for the object pane: the entry read it shows.

### TaskRunner

Adds `startSpinner`, `stopSpinner`, the ticker and its goroutine. A goroutine
that read `remaining == 0` sits in `stopper` until it runs `stopSpinner`, which
takes two steps: `TakeSpinner` clears `App.spinner` under the lock (359-363) and
leaves the ticker in the goroutine's hands (`taken[t]`), `CloseSpinner` stops it
and closes its channel after the unlock (364-367). In between a new task may
start a spinner of its own while the old one still turns. Only then does the
goroutine post. `StartTask`, `FinishTask`, `PostOrDrop` conjoin the
pool's actions with that; `PoolStep` is the rest of the pool. A tick can be left
in the channel after the stop, and Go's select may still take it. The
indicator's updates have a queue of their own: they write a cell no task writes.

### Session

`connect`, `dial`, `promptTrust`, `adopt`, `disconnect` and the dialogs on the
way: server list, delete confirmation, password, certificate, error. A
`Directory` is named by the dial that opened it. Three stretches of UI-thread
code take several steps because goroutines may look at `App.dir` meanwhile:
`disconnect` (`CloseDir`, 647-655, which retires the generation and closes the
connection; `ForgetDir`, 656-657, which makes `App.dir` nil; `closing` between
them), `adopt` (`AdoptDisconnects`, `ForgetDir`, `AdoptTakes`, `ReadOn`) and an
answer whose callback reads on (`LandRead`, `ReadOn`); `busy` is whose turn the
last two are. `DialReturns` is `ldapx.Connect` seen from the
dial: an open connection if `verifyPeer` accepts the certificate the server
showed, the question for the operator if not, or a failure.

Left out of it: the profile form (changes no pin and no connection), help,
bookmark and value dialogs, the filter bar, the search results and history that
`adopt` resets. Profiles are taken to use TLS; one with security `none` shows no
certificate, and there is nothing to trust. A connection chosen on the command
line is the first entry of a server list that is opened at once.

### ChildListing, Jump, Walk, History

`ChildListing` is the tree: `ref[n]` is what hangs off a row (`node` in
`tree.go`) with the pages listed beneath it, an entry being abstracted to the
number of its page; `fetch[s]` is a call of `Children` in flight. Rows that are
replaced while a fetch for them is in flight are `detached`: the code then
changes a row nobody sees.

| Action | Code |
|---|---|
| `Expand`, `Reload`, `LoadMore` | `toggle`/`expandNode`, `reloadCurrentNode`, `loadMoreChildren`, each with `fetchChildren` and `markLoading` |
| `Adopt`, `ToggleAllContexts`, `Disconnect` | `loadBases` for a new connection or other contexts; `setDisconnected` |
| `LandPage`, `LandFailure`, `LandStale` | the callbacks of `fetchChildren` with `setChildren` and `failLoad`; the generation check |

`Walk` adds `navigateTo`, `walkTo`, `pageTowards` and `jumpMissed`. A walk that
has to load hands itself to the fetch as its `then`; `running` says whose
`walkTo` the UI thread is in, so a run of it over loaded rows takes several
steps with nothing in between. It does not implement `ChildListing`: a walk pages
a container that shows no "more" row and opens one that is loading, which no
key does. That is why the tree's invariants are checked over `Walk`, whose
actions include the tree's own.

`Jump` is what a walk promises: the cursor ends on the target or is not touched,
and the jump ends. `ImplementsJump` checks it for `Walk`; `History` is built on
`Jump` alone. `before` and `undone` in `History` are there to state
`ForwardUndoesBack`, `foreign` to state `TrailIsOfThisConnection`.

### SavedConfig, ConfigStore, ProfileLifecycle

`ConfigStore` takes `Put`, `Delete` and `Save` apart into the steps of
`writeFilePrivate` (create, write, close, rename, deferred remove), each of which
can fail, for any number of callers, with a kill between any two. `SavedConfig`
is what it promises: the file is always something memory was, whole. Two
favourable readings: `Store.Save` encodes the profiles after giving the lock
back, which with two callers is a data race on top of what is shown here, and
a rename is durable at once (the code does not sync; a power failure is outside
the model). `trust.yaml` is written by the same function in the same order.

`ProfileLifecycle` is the UI's use of it, one step per handler: server list,
form, delete confirmation, bookmarks and connecting, over the profile store, the
pins and the keychain. Profiles and pins are kept twice, in memory and as their
file has them (`onDisk`, `pinsOnDisk`), so that a restart finds what was saved and
not what was meant. `Fallible` says which writes may fail: `profiles.yaml`
("save"), `trust.yaml` ("pin"), the keychain ("forget"); `troubled` remembers
that one has. What makes it hard are the copies: the list's snapshot, the record
in the form, and `App.profile`.

### SearchResults, FilterBar, ObjectPane

`SearchResults` is the list (`resultsPane`), the searches in flight, the dialogs
by what each gives the keyboard back to, and `focus`. Pages stand for their hits.
`Land` is `fetchResults`' callback with `show`; `Leave` is what disconnecting and
adopting do to all of it. `FilterBar` is the bar itself: its text, scope, history
with `pos` and draft, `preview`, and what `QuickFilter` and `IsRawFilter` make of
the text; a text is a sequence of terms, attribute lists are constants.

`ObjectPane` is the pane as `setBusy`, `show` and `clear` leave it. Rows are
abstracted to the naming contexts their links were made with (`links`) and to
whether operational attributes are among them (`complete`). They come with a
second read, which may fail, and the entry is then shown without them
(`client.go:387-397`): `lost`. Landing and
displacement of reads are `AsyncWork`'s; `asked`, `copied` and `marked` are
there to state properties. The tree tells of a changed selection when it is next
drawn, which with the results in front is later: `Arrive` has both outcomes.

### Connecting, DirectorySearch, Export, Ldif

`Connecting` is `ldapx.Connect` step by step, one attempt after another, with the
operator's answer and the reconnect in between. `channel` is whose certificate
the bytes travel under; `timed` is whether `SetTimeout` has been reached.
`DirectorySearch` is `run` and `runPaged`, message by message, for `Search` and
`Entry`, while the context is cancelled or the connection lost or closed;
`Listing` is what `page.go` promises its callers. `Export` is `collectSubtree`
and the write, a call of the directory at a time, with faults in between. `Ldif`
writes documents value by value and reads them back by the rules of RFC 2849; a
base64 text is represented by what it encodes and its length, `LineWidth` is
a constant. A document may begin as an export does (`WriteHeader`): with a
comment that has the DN exported in it as it is, and the version. `Comment` is
of any text, which it splits at its line breaks; the name of a dropped attribute
is put in one with `%q` (`Quoted`), the DN with `%s`. A character is a letter, a
blank, a line break, a control character (`^`) or one beyond ASCII (`~`), and
the characters LDIF looks at.

### Splitting, Names, Browse, Rendering

`Splitting` is `SplitDN`'s loop over characters. `Names` has everything else of
`entry.go`, `Bases` and `directChildren` on DNs that are split already; a name has
a case variant, so folding is not the identity, and names are ordered, contexts
being sorted (`SortContexts`, stable, with the default context first). A text
that does not parse as a DN is one without components (`IsDN`). `Browse` uses them as the UI
does: contexts, expanding, jumping (the four servers it is checked on are in
`MCContent`). What a selection keeps of a sequence is `Selected`, by places rather
than by a fold, so that it can be proved about. `Rendering` holds the decoders in which
numbers overflow or fields are guessed; each state is one value and its
rendering. Its words are `Width` bits wide and its integers up to `WordMax`,
wrapped as Go wraps them.

## What the runs check

Runs that pass:

| Run | Instance | Shows |
|---|---|---|
| `pool` | 3 tasks, 1 change of generation, fairness | one entry read pending (`OneEntryReadPending`), in-flight work cancellable (`InFlightIsCancellable`), and the refinement `ImplementsAsyncWork`; cancelled work settles; answers to groupNone work land unless the connection is gone |
| `runner` | 2 tasks, 1 change of generation, fairness | a set spinner has a pending task or a stop on its way; no ticker is lost: one that turns is `App.spinner` or in the hands of a goroutine about to stop it, and no channel is closed twice (`NoLostTicker`); after Esc the indicator goes out, and for good once nothing new starts |
| `session` | 2 profiles, 3 certificates (one verified by the roots), 3 pieces of work | current work is at home; `App.dir` is open but for the instant between the last lines of a disconnect, and work that called a connection closed since is of a retired generation (`DirIsOpen`); whoever PADL is connected to was accepted for that very profile |
| `walk` | `MCWalk`: 4 nested containers, one of 3 pages, one cut off for want of paging; 2 walks, 2 fetches, `jumpMaxPages` 1 | a walk is resumed exactly once (`WalksAreAttended`), no row waits for nothing (`RowsAreAttended`: `LoadingHasFetch` and `PlaceholderIsReplaced`), the cookie continues the rows on show |
| `walk_live` | a smaller tree, the same walks and fetches, fairness | `Walk` implements `Jump`, its liveness included; whatever loads settles, once no new contexts are asked for |
| `remembered` | profiles: 2 of them, 1 server, 1 bookmark, any write may fail; trails: 3 entries, 2 jumps, limit 2; file: 2 keys, 2 values, 1 caller | no pin or password outlives its profile, and editing keeps bookmarks, until a write has failed (`~troubled`); a deletion that failed has taken nothing; both trails together stay within the limit, and of this connection (`TrailIsSound`); `ConfigStore` implements `SavedConfig` |
| `requests` | connecting: 3 certificates, every security mode, fairness; a search: 4 entries in pages of 2, with and without paging; the pane: 2 entries; an export: 6 entries, one unreadable, pages of 2 | the password goes to trusted peers only, nothing else happens while the operator is asked, requests end; `DirectorySearch` implements `Listing` and its pages are in order (`ImplementsListing`); the pane never loads for nothing and its links point into the tree on show; an undisturbed export holds all it can reach, parents first (`ExportIsUsable`) |
| `content` | the bar: 3 terms, 2 vendors; the list: 2 queries, 2 searches, 3 pages each, 2 dialogs; every DN of up to 5 characters; 4 servers, with and without a base DN on the profile; documents of 2 lines at width 4, with and without the header of an export; words of 4 bits, integers up to 127 | no repeats in the history, and the draft survives walking it (`BarOK`); the preview is the search that would run (`PreviewIsTrue`); hits on show are of this connection (`ShownHitsAreOfThisConnection`), the "more" row continues them and does not stay dead (`MoreRowIsSound`); `SplitDN` agrees with a definition by unescaped commas (`SplitOK`); children, contexts and partitions agree with definitions that do not go through `directChildren` (`TreeIsTrue`), and what is listed can be jumped to (`ListedEntriesAreReached`); what is written reads back or the drop is noted (`DocumentIsSound`), in lines that are short, but for comments, which the code does not fold, and with no control character in them, but for the header's comments (`LinesAreFit`; `content_header` shows that exception); every bit is named or shown (`EveryBitIsShown`), intervals are exact and associations are read in both orders (`WordsAreTrue`) |

`MCRemembered`, `MCRequests` and `MCContent` each instantiate several modules
that share no state. Their variable `subject` says, from the initial state on,
which of them a behaviour is about; the others stay where they begin. The
reachable states are the sum of those of the modules, not their product, and a
property of one of them is checked on exactly the states it would have alone.

Bounds: three tasks are one that has left the map, one that displaces and one
in the queue; a generation is only ever compared with the present one, so one
change makes work as stale as it gets; the spinner's races need one task that empties the map and one
started before the stop. In `Session` three pieces of work are a dial with both
retries, or two dials in flight and a read on the first connection; two profiles
let one's pin or prompt meet the other's dial. Two fetches
of the tree are a reload that meets a page of the same container. Two walks,
jumps or searches are the least that
can cross. A history limit of 2 is full after two jumps, and three entries tell a
trimmed trail from a whole one. Pages of 2 with 3 children or 4 entries make a
last page that is short, full or empty. Folding at 4 columns happens up to three
times in 8 characters. `MaxPages`, `MaxDialogs`, `MaxAttrs`, `MaxLen` and the slots
bound what the code leaves unbounded; nothing is proved from them but that they
are natural numbers.

Symmetry is used in `session` (self-signed certificates, profiles), `walk`
(fetches, walks) and `remembered` (profiles), where nothing distinguishes
the values, and in no run with a liveness property.

`CHECK_DEADLOCK FALSE` stands where the system really stops or the bound does:
`Session` ends when a goroutine panics on a nil `Directory` and when the bound
on work is used up with every dialog out of reach of the keyboard; in `requests`
an export is over; in `content` a string has been split, a document has
`MaxAttrs` lines, and the list has had its `MaxPages`. The
pool and the runner end in `AtRest`, which is an action, so that a deadlock
there, and in every module not named here, is an error.

Runs that fail, one property each, a statement of the code's own comments that
the code does not keep (`findings` in `PROJECT.json` has the quotations):

| Run | Counterexample |
|---|---|
| `pool_newest` | an older entry read has left the map but not posted; a newer one starts, finishes and lands first; the older lands last and stays on screen |
| `session_orphan` | a profile is deleted while its dial is in flight or while it is still listed; accepting the certificate then stores a pin for it |
| `lifecycle_bookmarks` | a profile is edited while connected; a bookmark writes the old one back |
| `content_header` | an entry whose DN has a control character in it is exported: the dn line would be base64, and the header's comment has the character as it is |

### Refuted

The modules state more that the code's comments or names say of it and that is
not so. No run is kept for these: each is a definition in its module, preceded
by what it quotes, and TLC refutes it when it is added to the run named here (as
an INVARIANT, or as a PROPERTY where the table says so; to `content` with the
other invariants left out, if time matters).

| Statement | Add to | Counterexample |
|---|---|---|
| `TaskRunner!SpinnerWhilePending` | `runner` | T1 leaves an empty map; T2 starts and finds the spinner set; T1 stops it: T2 is in flight and nothing turns |
| `Session!OpenConnectionsAreOwned` | `session` | two dials in flight; the first is adopted; the second's success is dropped with its open connection |
| `Session!WorkCallsItsConnection` | `session` | a read starts, the user disconnects, its goroutine then evaluates `a.dir` and calls nil (or, after a reconnect, the next server) |
| `Session!DialogOwnsKeyboard` | `session` | a connection is adopted while the server list is open again: the tree has the keyboard, the dialog is up, and the global keys stand down |
| `ChildListing!PagesInOrder` | `walk` | a page is in flight, the container is reloaded, the reload lands first and the page beneath it |
| `Walk!AbsentMeansAbsent` | `walk` | a walk opens a container that is loading, meets it loading again when its own page lands, and says the entry does not exist |
| `History!ForwardUndoesBack` | `remembered` | back, and forward before its jump has arrived: forward files the entry back was pressed on |
| `ConfigStore!SavedWhenQuiet` | `remembered`, with a second caller | two callers encode in one order and rename in the other |
| `ProfileLifecycle!NoInheritedPin` | `remembered` | deleting fails to save; a new profile takes the name and finds the pin |
| `SearchResults!ListsNothingTwice` | `content` | a page is on its way, another search for the same query lands and clears the guard, its page 2 is fetched twice |
| `SearchResults!FilterBarHasKeyboard` | `content` | the bar is opened while a search is in flight; it lands and takes the keyboard, and the global keys still stand down |
| `Splitting!PathsEndAtTheEntry` | `content` | a component ending in an escaped blank |
| `Browse!HiddenEntriesAreRefused` | `content` | a jump into the configuration partition while it is hidden: its DN lies under the domain's |
| `Rendering!NoIntervalIsALie` | `content` | an interval whose product with the tick passes the largest integer |
| `Rendering!NothingReportedUntold` | `content` | an unknown state, and a key that is a small number |
| `ObjectPane!AbandonedReadsStayAway` | `requests` | a read is in flight, the cursor goes on to a "more" row, the read lands over the cleared pane (nothing displaces it, as no read is started) |
| `ObjectPane!CopiesTheEntryUnderTheCursor` | `requests`, PROPERTY | L while the next entry loads copies the one before |
| `ObjectPane!BookmarksTheEntryShown` | `requests` | b with a search result in the pane bookmarks the tree's entry |
| `Connecting!UpgradeEnds` | `requests`, PROPERTY | a server accepts the connection and does not answer StartTLS |
| `Connecting!EmptyRootMeansRefused` | `requests` | Esc during the root DSE read of a profile with a base DN |
| `DirectorySearch!EntryIsPicked` | `requests`, PROPERTY | a base-scope read answered with a whole subtree, another entry first |
| `Export!ExportsFullyWithoutPaging` | `requests`, with `Paging = FALSE` | no paging, three children, a limit of two |
| `Export!SkipsOnlyTheUnreadable` | `requests` | the connection is lost before an entry is read, the queue is empty after it: success |

## Fairness

`TaskPool`: a goroutine that can run does (`LeaveMap`, `Post`, `Drop`), and the
event loop keeps taking updates: the Go scheduler and tview's loop, which never
blocks on anything a goroutine holds. Work whose context is cancelled returns:
`run` and `runPaged` (`client.go:452-527`) pass the context to go-ldap's
asynchronous search and check it. Nothing says that a server answers or that the
user does anything. `TaskRunner` adds the spinner's goroutine and its updates;
the ticker itself is under no obligation.

`Walk`: every call on the directory ends, well or not, because go-ldap gives up
after the profile's time limit (`SetTimeout`, `client.go:71`), and the event loop
runs what the goroutine posts. That a fetch lands or fails is strong fairness
(`FairWalk`): a walk on the UI thread disables it again and again, and the select
of tview's loop starves neither keys nor queued updates. The walk's own step is
weakly fair: a function on the UI thread returns. `Connecting` assumes less, for
it is about those very limits (`FairConnect`, stated for the run in
`FairRequests`): the client's own steps and the dialer's timeout happen, a
request that was given a time limit times out, and a server may be silent for
ever. No fairness is assumed of the operator or of success: `LoadingSettles` has
the premise that new contexts are not asked for without end. The remaining
modules promise safety only.

One step does not honour its context: a dial's TCP, TLS and bind phases have a
timeout, but StartTLS (`client.go:66`) runs before one is set. A StartTLS dial
to a silent server is work to which `CancelledWorkSettles` does not apply
(`UpgradeEnds` under "Refuted").

## What is proved

Eight modules hold the proofs. A theorem about a module's behaviours holds for
every value of its constants that its assumption admits; TLC evaluates the
assumptions on the instances above. Nearly every checked invariant had to be
strengthened before it was inductive; what was added is named here, because it
says why the code is right. Every safety invariant of the passing runs is proved.

`TaskProofs`, for every number of tasks and changes of generation
(`BoundsAssumption`: both are natural numbers):

- `PoolInvariant`, `Spec => []IInv`. `IInv` adds `QueueOK` (the queue holds each
  waiting task once: running an update ends a goroutine, which must not be one
  still in the map), `NoneStaysPending` (groupNone work stays in the map until
  its own goroutine takes it out) and `LandedIsSettled`. From it follow
  `TypeCorrect`, `AtMostOneEntryRead`, `WorkStaysCancellable` and
  `NoneIsNeverDisplaced`.
- `PoolImplementsAsyncWork`: initial states map to initial states, and with
  `IInv` each action maps to `Begin`, `Deliver`, `Discard`, `NewEra` or a
  stutter.
- `RunnerImplementsPool`: `SpecRunner => Spec`, so the pool's theorems hold with
  the spinner; `RunnerInvariant` on top of it gives `SpinnerAlwaysHasAReason`
  and `NoTickerIsLost`, in the instant between a stop's unlock and its close too:
  tickers held are open, of different goroutines, and none is `App.spinner`.

`SessionProofs`, for every set of profiles and certificates and every bound on
work (`SessionAssumption`: the roots verify some of the certificates, and "no
pin" and "no profile" are neither a certificate nor a profile):

- `SessionInvariant`, `SpecSession => []SInv`. `SInv` adds: a pin on file was
  accepted for its profile (`PinsAccepted`), and so was the pin a dial took with
  it, however old (`DialsCarryAcceptedPins`: the set of accepted certificates
  only grows); a dial that came back open keeps its connection open and its
  peer was verified (`OpenIsTrusted`); the adopted dial has been delivered, so
  no later landing forgets it (`DirIsADial`); while a disconnect is between
  closing and forgetting, no read in flight is of the present generation
  (`ClosesBehindTheEra`), and what is calls an open connection or none
  (`CurrentReadsCallOpen`); no work is born in a later era
  (`ErasInOrder`); and each dialog on the stack asks about a profile, with a
  retry left if it asks about a certificate (`Asked`). From it follow
  `SessionTypeCorrect`, `WorkLandsAtHome`, `AdoptedIsOpen` and
  `OnlyTrustedPeers`.
- `SessionRespectsAsyncWork`: `SpecSession => Spec` of `AsyncWork`; the session
  uses background work only in ways the pool provides.

`WalkProofs`, for every tree, any number of fetches and walks
(`ListingAssumption`: each node has a page it is listed on and at least one page;
`WalkAssumption`: nodes are non-empty paths and every path above a node is one):

- `TreeInvariant` for the tree alone: `TreeInv` adds to `LoadingHasFetch`,
  `PlaceholderIsReplaced` and `CookieContinuesListing` that every fetch is of a
  page. The proof follows one row and one slot through each callback
  (`RowChanged`, `RowReplaced`, `SlotGivenBack`), the rest of the tree being as it
  was.
- `WalkInvariant`, with walks: `IInvWalk` adds that a walk keeps to its target's
  path, that the one the UI thread is in is under way, that whatever waits in a
  slot waits for a fetch, and that a walk which is not running waits in exactly
  one slot (`WaitsInOne`). It gives `NoRowIsStuck` (`RowsAreAttended`),
  `ListingsContinue` (`CookieContinuesListing`) and `WalksResumeOnce`
  (`WalksAreAttended`).
- `WalkIsAJump`, `SpecWalk => J!SafeJump`: every step of a walk is a step of
  `Jump` or a stutter. It is the safety half of `ImplementsJump`.

`RequestsProofs`:

- `Connecting`, for every set of certificates (`ConnectAssumption`):
  `ConnectTyped`, `PasswordIsKept` and `NothingHappensBeforeTheAnswer`; the
  invariant says, stage by stage, what the connection runs over: from the bind
  on, with TLS asked for, a peer that verified.
- `DirectorySearch`, for every number of entries, page size and limit
  (`DirectoryAssumption`): `SearchIsAListing` proves `ImplementsListing`.
  `IInvSearch` adds that the answer so far is a row of consecutive entries
  (`EntriesInARow`), what the caller's cookie means (`Continued`), and what
  truncation and the control in the answer say of the rest (`Answered`).
- `ObjectPane`, for every set of entries (`PaneAssumption`): `PaneTyped`,
  `PaneWaitsForItsRead`, `PaneLinksIntoTheTree` and `PaneShowsWhatWasChosen`:
  operational attributes are shown only when they are wanted, and are missing
  then only if the server refused the second read.
- `Export`, for every graph of entries in which nothing lists the root
  (`ExportAssumption`), cyclic or not, readable or not: `ExportsAreUsable`.
  `Exportable`, what an export can reach, is the least set closed under readable
  children, and leastness is used as it is defined: what has been written is such
  a set when the queue is empty. `IInvExport` adds that everything listed so far
  is visited, queued or beyond the page read last (`NothingForgotten`), that each
  entry is visited once, and that nothing is queued that was not listed.

`RememberedProofs`:

- `ProfileLifecycle`, for every set of profiles, servers and bookmarks and any
  writes failing (`LifecycleAssumption`): `DeletedForGood`
  (`NothingOutlivesItsProfile`), and the action properties `FormsKeepBookmarks`
  and `NothingGoesBeforeTheProfile`. `IInvLife` adds that the copies agree until a
  write has failed (`CopiesAgree`: memory and file, the list on screen and the
  store) and what the dialogs are about.
- `History` (`HistoryAssumption`): `HistoryTyped` and `TrailKeepsToItsBounds`; the
  sum of the trails is inductive as it stands, for forward moves from one to the
  other.
- `ConfigStore`, for every set of keys and values, any step failing, any kill and
  any number of callers (`ConfigAssumption`, `StoreAssumption`): `StoreTyped`,
  `FileStaysWhole` and `NoLitterButAfterAKill`. With one caller at a time
  (`OneCaller`, an assumption of those two theorems and true of the program,
  whose writers are all on the UI thread) `StoreImplementsSavedConfig` and
  `StoreIsSavedWhenQuiet`; that the assumption is needed is shown under
  "Refuted".

`SearchingProofs`:

- `FilterBar`, for every set of words and vendors (`FilterAssumption`: a word is
  not empty, and each vendor has an attribute searched by part):
  `BarKeepsWhatWasTyped` and `PreviewDescribes`. `IInvBar` adds that above the
  bottom of the history the draft is what was typed there. `Remember` takes the
  term out of the history wherever it was, and that none is left rests on there
  having been one at most.
- `SearchResults`, for every set of queries, slots and bounds
  (`SearchAssumption`): `ResultsTyped`, `HitsKeepToTheirConnection` and
  `MoreRowContinues` (`MoreRowIsSound`). `IInvResults` adds that a "more" row has a
  list above it, that dialogs stand over a pane, that what is in flight was asked
  of this connection, and that the keyboard is in the results, or is given back
  to them by the dialogs on top, only while they are of it.

`TextProofs`:

- `SplitsWell`: for DNs of every length the loop computes the split by unescaped
  commas. The grammar `Escaped` is given by the run of backslashes before a place,
  and the proof relates it to its neighbour's instead of recursing; the n-th
  piece is the one with n - 1 ends before it.
- Folds over data of any length are taken as loops. A recursive function is equal,
  step by step, to what its body says of the step before, and where that is not
  so for some step there is a first one (`LeastOf`), which its neighbour
  contradicts (`LoopRuns`, `LoopsAgree`). This is how two loops that read the same
  lines are shown to be in the same state, and takes the place of the library's
  induction, which the provers at hand cannot instantiate.
- `DocumentReadsBack` (`DocumentIsSound`): for every width from 2, every value and
  name, and whatever the DN in the header, a reader of RFC 2849 finds the entries
  that were exported and one comment for each line of the header and each
  attribute dropped. `IInvLdif` is `Says(doc, given, header + dropped)`, with lines
  that are fit: unfolded they are lines of text, which mean `given`, and
  `header + dropped` of them are comments. Each write leaves lines that start on their own, so what was
  unfolded before is not touched by what comes after, and the pieces `FoldLine`
  cut are joined to the line they were cut from, one by one. That an attribute is
  not taken for a dn rests on no attribute being named "dn" (`LdifAssumption`): directory
  schemas define none of that name, which LDIF uses for itself, and the code does
  not look for one.
- `LinesStayFit`, from the same invariant: no line but a comment passes `LineWidth`,
  no line has a line break in it, characters beyond ASCII are only in comments,
  and control characters only in the comments of the header, where the code does
  put them (`content_header`). Folding, base64, marks, `%q` and the splitting of a
  comment each return such lines.
- `NoBitIsLost` (`EveryBitIsShown`): for words of every width and every table, the
  names and the number shown are together the bits that are set. The number is a
  sum of bits by their places; the proof carries that the sum of the first k is
  below the k-th power of two and has just those bits. Powers are a recursion
  (`Power2`), the provers having no theory of `^`.
- `RenderingIsTrue` (`WordsAreTrue`): intervals below the largest integer are shown
  exactly, in the largest unit that fits, for every width of integer; and the
  three fields of an association are told apart in either order.

`BrowseProofs`, for all servers, DNs and spellings. `BrowseAssumption` is what a
directory is: contexts have names; the partitions an Active Directory sets apart
are among the contexts it publishes, and contexts inside of them are such
partitions too, which the default one is not. A profile's base DN may be
anything.

- Sequences that are put together by rank, as a stable sort and a selection are,
  have the elements they should, in their order (`SelectedElements`,
  `RanksAreTaken`): ranks in a strict order of a finite set are a numbering of it.
  Both comparisons the code sorts by, of entries and of contexts, arrange their
  places so (`SortedStably`, `SortedContexts`).
- On DNs, `Above(a, b)` (a is b or an ancestor, whatever the spelling) is
  transitive, total along one DN, and what `DepthUnder`, `AncestorUnder`,
  `BestBase` and `PathFrom` are about. From there: an answer's rows are its entries
  one level down and an ancestor for each deeper one, none twice
  (`DirectChildren`), and contexts are shown once each.
- `TheTreeIsTrue` and `ListedIsReached`. `IInvBrowse` adds `OnItsPath`: a jump under
  way is on the path from the nearest context on show to its goal, and an opened
  row stands for each step behind it. A step that finds no row then means that
  neither the entry of that name nor, where answers are whole subtrees, any below
  it was in the answer; and the answers were those of the goal's own context
  unless a context lies between, which without a base DN is a hidden partition
  (`HiddenAreSetApart`).

Some of these invariants are proved and in no run of their own, because a run
that finds nothing new in a minute is better spent on what is not proved: the
type invariants of the proved modules, `UndisplacedWorkIsKept`, `FileIsWhole`,
`OnlyKillsLeaveLitter`, `SavedWhenQuiet`, `CompleteAsChosen`, and the bound of two
certificate prompts for a connect, which is in `TypeOKSession`.

Only model-checked:

- every liveness property: `CancelledWorkSettles`, `UndisplacedAnswersLand`,
  `EscStopsTheIndicator`, `IndicatorGoesOutForGood`, `LoadingSettles`,
  `RequestsEnd`, and the fairness in `ImplementsJump`. Fairness and ENABLED are
  beyond the backends of the proof system used here.

## Not modelled, and why

Of attribute decoding: GUIDs, SIDs, times, enumerations, ACLs, password
synchronisation status, and the tables that pick a decoder by attribute name.
They are formatting of one value each. Vendor detection is a chain of string
tests on the root DSE. The value inspector, help, colours, wording, layout, the
command line, packaging, CI and the lab tools are input, output and build, with
nothing a property about order or state could tell apart. Of the tree: folding a
row (`tree.go:329`), which hides what is beneath it and starts nothing. Of the
client: the attribute lists of requests, and of the second read for operational
attributes all but whether it fails; of quick search: the escaping and the
vendors' attribute lists; of the password sources: where a lookup finds one. The
LDAP protocol, TLS handshakes, the keychain, the file system and tview are
external; they appear as the outcomes the code distinguishes.
