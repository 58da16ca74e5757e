# qbit-ops in TLA+

A verification development for `qbit-ops`, a command-line and terminal
administration tool for qBittorrent (Python; `src/qbit_core` is the library,
`src/qbit_ops` the CLI, the TUI and the MCP server). The modules model the
parts of the program where order matters; TLC checks them on small instances and
TLAPS proves the central claims for every instance. `PROJECT.json` lists every
component, run, property, mutant, hazard and theorem, and maps each definition
to the lines it stands for.

Paths below are relative to the repository.

## 1. Inventory

| Component | State it keeps | Operations | Interacts through | What is hard | What makes it correct |
|---|---|---|---|---|---|
| **TUI session** `qbit_ops/tui/{app,state}.py`, `modals/` | UI flags, screen stack, open Preview, last outcome; published snapshot; `_client`, `_refresh_cache`; six kinds of worker | timers, key actions, worker bodies, `StateChanged` handlers | `_remote_lock`, `_client_lock`, Textual's message queue, `os.environ` | worker results that arrive late, out of order, after quit, or across a reconfigure | a mutation is sent once, answered, truthfully reported, read back; no Apply on doubtful data |
| **Connection form and configuration** `tui/modals/setup.py`, `config.py`, `connection_setup.py` | user env file, `os.environ`, pending form | `load_qbit_config`, `try_connection`, `write_connection_env_file`, `_complete_setup` | environment, file system, session reset | reconfigure under work in flight | the client follows the form |
| **Focus, details, Explain** `tui/state.py` 1093-1319, `tui/app.py` 982-1112, 1289-1367 | focused hash, request id, tracker details, pending Explain | focus changes, manual refresh, superseded fetches | detail workers, refreshes that remove rows | A, B, C answered in any order | only the newest request publishes; nothing loads for ever |
| **Selection, search, filters in the TUI** `tui/state.py` 880-1000, 1323-1361 | selected hashes, visible rows, debounce timer | toggle, select visible, reconcile | refresh, mutation outcome | a row leaves while it is selected | what an action names is what is shown |
| **Rate history** `tui/state.py` 345-470 | ring of slots per second | `open_slot`, `settle`, `record_trackers` | sampler worker | an answer that outlives its second | a sample lands in its own second or nowhere |
| **Bulk actions** `features/torrents.py`, `cli/commands/torrents.py`, `_shared.py`, `execution.py` | a frozen plan | read, plan, confirm, apply | qBittorrent, operator, TUI snapshot | several requests, one failing; the prompt's pause | nothing before consent; exit 0 means done |
| **Tracker edits** `features/trackers.py`, `cli/commands/trackers.py` | a plan per torrent | add, remove, replace, replace-passkey | qBittorrent | a loop of requests that stops half-way | no torrent loses its tracker |
| **Backup** `features/backup.py`, `cli/commands/backup.py` | restore plan, result | export, diff, plan, apply | qBittorrent, other clients | two readings in one export; requests that fail one by one | additive only; an unchanged library differs in nothing |
| **Torrent import** `features/torrent_import.py`, `bencode.py` | candidates, batches | discover, classify, add | file system, qBittorrent | duplicates, failed batches | each entry ready, present, a duplicate or invalid |
| **Completion cache** `cli/completion_{cache,live}.py` | one JSON file | read, merge, mark failed, probe | concurrent processes, rename | unlocked read-modify-write; probe budget | names are never invented; Tab comes back |
| **Status, watch** `features/status.py`, `cli/commands/status.py` | `_WatchClient` | collect, emit, sleep | qBittorrent | outages and lost sessions between cycles | degrades and recovers |
| **MCP server** `mcp/{server,tools}.py` | `_cached_client` and its lock | tools, `_call` with one retry, pages | qBittorrent, one thread per call | concurrent calls that share and drop one client | a dead session costs nobody an answer |
| **Selection, search, inspection** `shared/{selection,search,inspection,sorting,parsers,torrent_states}.py` | none | filters, hash prefixes, tiers, tracker lookups | every command | unknown values; a library that changes between two requests | neither too wide nor too narrow |
| **Tracker status, explain, doctor, stats** `features/` | none | aggregation, findings, exit codes | selection, status | each classifies on its own | none contradicts another |
| **Error boundary, exit codes** `cli/{error_boundary,exit_codes,app}.py` | none | map each end to a code | every command | which failures are tolerated by whom | 0 means everything was read |
| **Transfer settings** `features/transfer.py` | none | a library API nothing here calls | - | - | not modelled |
| **Rendering, widgets, theme** | none of its own | text | - | - | not modelled |

The hazards of this code, each at its line, are listed in `PROJECT.json`
under `hazards` with the property that covers it, or the reason none does yet.
Known and not listed there, each reachable by a short sequence of keys or
messages: on a first run, the screens that can be opened before the form is
complete; `_complete_setup` popping Help off the form it lies over; the result of
a connection test matched with a later form's values (`_setup_config`);
`RowHighlighted` of a torrent already gone; a tracker's sparkline series
dropped while it is still shown.

## 2. Plan

The modules, in the order they were written; each is described below.

| | Module | Stands for | State |
|---|---|---|---|
| 1 | **TuiSession**, **ApplyOnce** | the concurrent core of the TUI, and what it promises | done, proved |
| 2 | **TuiFocus** | focus, request ids, Explain, selection and search | done, proved, but for the workspace switch and the selection policy after a mutation |
| 3 | **RateHistory** | the window of columns and its sampler | done, proved, but for the per-tracker sparklines |
| 4 | **MutationPlan**, **MutationRun** | every command that changes torrents: bulk actions, tracker edits, restore, import | done, proved |
| 5 | **CompletionCache** | processes interleaving on one file | done, proved |
| 6 | **ClientSessions** | the MCP server's and the watch's clients | done, safety proved |
| 7 | **Selection**, **Diagnosis**, **ReadCommands** | every command that only reads, composed with 6 | done, safety proved |

Modules 2 and 3 refine parts of the session that TuiSession abstracts and share
its vocabulary (a message queue the UI thread empties); MutationRun refines the
single request TuiSession's `CallMutation` stands for (the TUI's plans are its
`FromTui`); ReadCommands EXTENDS ClientSessions, and `SessionsAreKept` shows that
the composition implements ClientSessions' own specification. Selection and
Diagnosis have no variables: they are the pure operators ReadCommands answers with.

Left to write: the sparklines, the workspace switch and the selection policy in
TuiFocus; import discovery and its limits, bencode; the order and limit of search
results, the totals of stats.

Nothing that can be proved here is left to prove: every safety invariant, action
property and refinement of a passing run is a theorem; liveness stays with TLC.

## 3. TuiSession

`TuiSession.tla` is the session: one UI thread, the worker threads it starts,
the lock they share, the queue their results come back through, the Preview/Apply
cycle, and the connection form.

### State

| Variables | Code |
|---|---|
| `running`, `started`, `needsSetup`, `modal`, `help` | `App.is_running`, `_refreshing_started`, `needs_setup`, the screen stack: at most one screen over the main one, and `HelpScreen` over that |
| `preview`, `lastOp`, `active`, `outcome` | the `PreviewScreen` on the stack, `_last_operation_id`, `_preview_screen`/`_active_mutation_plan`, `_last_mutation_result` |
| `connection`, `stale`, `refreshing`, `raw`, `haveStatus`, `listed`, `latch`, `fatal` | `TuiState` and `_raw_torrents`, `_instance_lists_requested`, the "Internal error" banner |
| `client`, `cache`, `host` | `TuiController._client`, `_refresh_cache`, `_host` |
| `waiting`, `remote`, `job` | threads blocked on `_remote_lock`, the one inside `_remote_operation`, what the mutation's closure captured |
| `returning`, `inbox` | what threads that are off the lock bring back while their workers are unfinished; the queue of `Worker.StateChanged` messages |
| `confirming`, `setupCfg`, `setupTest`, `fileExists`, `fileHost`, `source`, `environ`, `creds` | the form and its test worker, the user env file, and what `load_qbit_config` sees |
| `server`, `sends`, `acked` | qBittorrent's applied mutations, what each operation sent, what was reported |
| `overtaken` | history: the last report found an older refresh still in `returning`, and no refresh has started since |

A listing is the number of mutations the server had applied when it was read; a
plan is what Apply does with it (`plain`; `widen` also re-reads the
instance's lists; `empty` sends nothing); a client is the identity of its login,
and the constant `HostOf` says to which instance.
The value modals (category, tags, throttle) collect input and lead to the same
Preview; they are part of the `actions` screen. Details, Explain, Filters and Sort
are one `overlay`: to the session each is a screen that covers the table.

### Actions

Timers are `PeriodicTick` (`_start_periodic_refresh`) and `SampleTick`; the
operator's are `OpenScreen`, `Reconfigure`, `ToggleHelp`, `Dismiss`, `Quit`,
`OpenPreview`, `ApplyPlan`, `SubmitSetup`. A remote operation is
`Acquire` (take the lock, read `_client`), `ReadConfig` and `Login` when there is no
client (`_ensure_client`), `Begin` (arguments read; `should_proceed`), then its
call: `CallRefresh`, `CallReader`, `CallMutation`. It comes back in two steps.
`Finish` is part of the step that ends the operation: the lock is given back
(state.py 658) and the result is on its way. `Land` is the event loop's: the worker
is finished (`is_finished`) and its message posted. Between the two another thread
may take the lock, be answered and even land first, so the order of answers is
not the order of messages; each kind has at most one thread at a time except
`lists`, which starts again when asked again, and two equal list results count as one.
Only a refresh's handler tells one error from another (`Told`). Handlers are `DeliverRefresh`,
`DeliverRefreshFailure`, `DeliverLists`, `DeliverMutation`, `DeliverSetup`;
`DropResult` is every handler's early return once the app has stopped. Operator
actions may overtake queued results, which the real queue only sometimes lets
them do: an over-approximation that hides nothing.

What may go wrong outside: a login is rejected or unreachable; a call fails in a
recognised way or not (`internal`); a mutation's answer is lost whether or not it
was carried out; the env file cannot be written; the app quits at any point.

### ApplyOnce

`ApplyOnce.tla` says what Preview and Apply promise without threads, locks, queues
or screens: a Preview is offered or stale, may expire, never recovers, may be
applied only while not stale, cannot be closed until answered, and is sent at most
once between its Apply and its answer; the app may quit at any point, after which no
call begins, though one that has begun goes on. `ImplementsApplyOnce` is that
specification with `stage` and `calling` computed from the session's state
(`StageOf`, `Calling`), `alive` read as `running` and `sends` taken as it is. Without
`should_proceed` an Apply that queued for the lock would begin its call after the
quit: that is the slip its mutant makes.

### Properties

| Property | Why it could fail |
|---|---|
| `ApplyingIffOutstanding` | a Preview frozen with nothing outstanding can never be closed; one thawed too early can be applied twice |
| `OutcomeIsTruthful` | the outcome is assembled from a result, a plan and an id kept in three places |
| `LivePreviewIsFresh`, `StalenessIsSticky` | failures reach a Preview under other screens, and recoveries must not revive it |
| `AppliedIsReread` | the refresh after a mutation is coalesced with one that read the listing before it; see below |
| `ApplyInv`, `ImplementsApplyOnce` | the interleavings of Apply, Escape, Help, the lock and quit |
| `ReconfigureExcludesMutation` | the form opens and completes around everything else |
| `ApplyIsAnswered`, `RefreshingSettles` | a lock shared with a sampler that never stops; a flag only a message clears |

`AppliedIsReread` has an exception, and the code has it too. A refresh gives the lock
back, and before the event loop finishes its worker a mutation takes the lock, is
sent, answered and reported. `_start_periodic_refresh` (app.py 462) still sees the
old refresh unfinished and drops the re-read, although the listing that refresh
brings predates the mutation. `overtaken` names that window: it is set by a report
that meets such a refresh and cleared by the next refresh to start, so what
the property says is that this is the only way to lose a re-read, and that the
next tick repairs it. The docstring at app.py 457-461 promises the explicit refresh
without the exception; dropping `~overtaken` from the property shows the trace, which
is not a run of its own, the limit of twelve going to the disagreements below.

Two statements the repository makes do not hold of the code and are runs that
expect a violation (`findings`): `ClientFollowsHost` (a reconfigure does not move
the session; the client is tagged with its instance, so a login in flight across
the reconfigure, which puts a client of the old one back, breaks it as well) and `CacheIsOfThisConnection` (a refresh in flight restores the old
connection's cache). A third disagreement shows in the same model and has no run:
the periodic timer starts a refresh in `AUTH_FAILED` and `CONFIG_FAILED`, which
`refresh()` calls terminal.

### Runs and bounds

| Run | Specification and bounds | Shows |
|---|---|---|
| `apply` | configured session, 1 host, 3 client identities, 1 Preview, inbox 2, no sampler; `ApplyBound`: of the plans, `widen` and `empty`; no overlay, Help only over the Preview | the whole Preview/Apply cycle against refreshes and failures |
| `setup` | first run or configured, 1 host, 3 client identities, 1 completed form, 1 Preview, inbox 1, no sampler; `SetupBound` stops at quit, at an applied mutation and at `widen` plans | what is excluded around the form |
| `live` | configured, sampler on, 1 client identity, inbox 1, `LiveBound`: the app runs, no overlay, Help only over the Preview, `plain` plans, the Preview is not cancelled | answers and settled refreshes under fairness |
| `host`, `cache` | two hosts with two client identities each, no Preview | the two violations |

Why that is enough. One Preview suffices for its claims, since a second can open only
when the first is closed or spent and the claims quantify over one operation;
the proofs below hold for any number. Two results in the inbox is what two
orders need: a refresh before or after a mutation. Three client identities keep a
dead session (in a cache, in a result) apart from the live ones; identities that
nothing refers to are used again. A `widen` plan does all a `plain` one does and
re-reads the lists besides; an overlay and Help over the table only cover it, and
`setup`, which checks what is excluded around the form, opens both. The sampler takes the lock like a list read and
publishes nothing the safety claims mention, so it is left out there and kept where
it matters, in `live`. Clients of one host are symmetric and are declared so in
`apply` and `setup`; the runs with two hosts and `live` use no symmetry. Deadlock is not checked: a session that
has quit stops.

### Fairness

`FairSpec` assumes that a thread that runs goes on running and its call returns
(weak fairness of each step, the landing of its result included: the code sets no request timeout in the TUI, so a
frozen instance is outside the claim), that the UI thread empties its queue, and
strong fairness of `Acquire`: a thread blocked on a `threading.Lock` gets it though
others take it in between. Timers and operators are not fair: nothing is
claimed of work nobody asks for.

## 4. TuiFocus

`TuiFocus.tla` is the torrent table and what hangs on its cursor: rows, selection,
focus, the tracker details worker threads fetch for it, the Details, Explain and
Filters screens, and the debounced search box. It refines the `overlay` screens and
the published listing of TuiSession, which it meets only in `Refresh`: a
listing and its order, at any time.

### State

| Variables | Code |
|---|---|
| `raw`, `filters`, `search`, `rank` | `_raw_torrents`, `state.filters`, `state.search`, `state.sort`; a filter or a text is the set of torrents it matches, an order is a ranking |
| `selected`, `focused` | `selected_hashes`, `focused_hash` |
| `details`, `failed`, `requestId` | `focused_tracker_details`, `focused_tracker_fetch_failed`, `_detail_request_id`; a reading is the number of tracker changes it had seen |
| `fetches`, `lastFetch` | the detail workers whose result is not handled, `_last_detail_worker` |
| `pending`, `explain`, `stack`, `retry` | `_pending_explain_request_id`, the Explain screen's title and report, the screen stack, the Details screen's one-shot timer |
| `cursor`, `events` | the DataTable's cursor row and its `RowHighlighted` messages not yet handled |
| `box`, `typed`, `debounce` | the search input, its text, `_pending_search_text` while its timer runs |
| `version` | changes of the trackers on the server |

### Actions

`Refresh`, `ApplyFilters`, `ApplySort`, `ResetView`, `DebounceFires` and `CloseSearch`
change what is visible; each does what the code's handler does before it returns:
reconcile the focus, reconcile the selection where it calls that, render the
table. `ResetView` empties the selection instead. `MoveCursor`, `RowHighlighted`,
`ToggleSelection` and `SelectAll` are the table's keys and message. `PressRefresh`,
`OpenDetails` and `RetryDetails` start a fetch (`RefreshDetails`), `FetchReturns` is
the worker's call ending, `DetailResult` is `_on_detail_worker_state_changed`:
publish, then resolve a pending Explain. `OpenExplain` has three outcomes, a report
at once, a wait for the fetch in flight, a fetch of its own. Moving the focus starts
no fetch: it only makes the ones in flight stale.

The DataTable is Textual's and external. It is modelled by what the code and its
tests show of it: a table filled again queues a highlight for its first row, then for
the row the cursor is put back on, both handled after `_rebuilding_table` is cleared
(`tests/test_tui_app.py` 1243-1290); an emptied table may queue one with no row.

A keystroke and the `Input.Changed` it posts are one step, and so are pushing the
Details screen and its `on_mount`: nothing else touches what they touch between the
two. An Explain whose torrent has left the listing closes when its fetch ends.

### Properties

| Property | Why it could fail |
|---|---|
| `DetailsAreOfFocus` | the guard compares request ids, never hashes |
| `LatestReadingWins` | an automatic fetch slower than the `r` after it |
| `ExplainNamesItsTorrent` | a title fixed at opening, a report built when the fetch ends |
| `FocusFollowsCursor` | three things move the cursor, and what `space`, `e` and `r` act on follows through a queue |
| `HiddenRowsAreDropped` | a refresh, a filter and a search each hide rows |
| `NoKeystrokeIsLost` | the input is removed with its timer running |
| `RequestInv` | the claims about requests, that a failure is never said of a newer request among them, made inductive (section 9) |

`ExplainAwaitsAFetch` is expected to be violated (`findings`): Explain may wait for
a request id no worker carries.

Three things seen while modelling that no property states, since no document of the
repository promises otherwise: with messages still queued, `space` acts on the
previous row; a highlight queued before the last row left may focus a torrent that is
gone, and `space` then selects it; and a Details screen whose focus moves under it
after its one retry goes on saying that it loads.

### Runs and bounds

| Run | Bounds | Shows |
|---|---|---|
| `details` | 2 torrents, one filter and one text that each hide one of them; 4 requests, 2 fetches, 2 queued highlights, 1 change of the trackers | all the above, in 1.2 million states |
| `explain` | the same | the violation |

The `Scene` constraint of both runs splits the space in two: the rows, selection and
search are explored while nothing has been fetched, details and Explain while nothing
is filtered, searched or selected. The two halves touch through `focused` and
`requestId` only, and `Refresh` can move rows in both. Two torrents suffice for
every claim, as each is about the focused torrent and another; four requests are an
A, B, A and a refresh; the theorems hold for any number of each. No symmetry is
declared, since the filter and the text tell the torrents apart. Deadlock is not
checked: the bounds stop everything in the end.

## 5. RateHistory

`RateHistory.tla` is the transfer-rate graph's window and the sampler that fills it.

| Variables | Code |
|---|---|
| `ticks`, `window` | `RateHistory._ticks` and its two deques, as one map from the ticks they hold to a column: the second it stands for, and the reading in it |
| `sampleTick`, `sampler`, `inbox` | `_sample_tick`, `_sample_worker`, `StateChanged` messages of workers that succeeded |
| `now`, `instance`, `blocked`, `running` | seconds since launch, connections so far, a terminal connection state, `App.is_running` |

A reading is the second it was asked in and the connection that answered, which the
code does not record: that is what the properties compare. `Tick` is
`_start_rate_sample` whole (a blocked connection opens no column, a running sampler
leaves the column unmeasured); `Call`, `Return` and `Fail` are the worker at the
remote lock and after; `Deliver` is its handler; `ResetConnection` replaces the window
and nothing else. The deque's index arithmetic is membership of a tick in what
the window holds. A client asked for after a reset is the new instance's: when it is
not is TuiSession's `ClientFollowsHost`.

`TimersOvertake` says whether a timer's callback may run before a message posted
earlier, which is Textual's doing and not this repository's. Run `rate` lets it, since
that is the weaker assumption. What no property claims, because it does not hold: after
a reset, an answer of the old instance may land in a column of the new window.

| Property | Why it could fail |
|---|---|
| `ReadingsKeepOrder` | one `_sample_tick` for every sample, late answers, a reset with a sample in flight |
| `NothingFromLater` | a tick left behind by a sample that failed |
| `MeasuredStays` | a tick settled a second time |
| `RateInv` | the first two made inductive |

| Run | Bounds | Shows |
|---|---|---|
| `rate` | 3 columns, 6 seconds, 1 reset, 2 results queued (`InboxBound`) | all of these: columns scroll away, samples outlive both seconds and the window |

Three columns let one scroll away while two are compared; one reset is what two
windows need; the proofs hold for any number. Deadlock is not checked: the
seconds run out.

## 6. MutationPlan and MutationRun

`MutationRun.tla` is one command that changes torrents, from its options to its exit
code, with other clients of the same qBittorrent at work. `MutationPlan.tla` is what
it decides to send: pure operators from a reading of the server to a sequence of
requests, and what the server makes of each.

### State

| Variables | Code |
|---|---|
| `srv` | qBittorrent: which torrents are present and stopped, their category, tags, limits and announce URLs, the categories known |
| `cmd` | the operation, its selection, its argument, and the mode it is given in: dry run or not, `--yes`, a terminal or none, CLI, TUI or library |
| `pc`, `reads`, `unread`, `view` | how far the command is; the reads it still has to make; the torrents whose trackers it has still to ask for; what it has read |
| `plan`, `sent`, `failed` | the frozen plan as a sequence of requests, how many were answered, which raised |
| `said`, `exit` | the status `run_mutation` handed out last, the exit code |
| `before`, `touched`, `foreign` | ghosts: the server when the command was given, the torrents others changed since, how often |

An announce URL is its host and its passkey; `--source` and a `{passkey}` template
match the URLs of host `src`.

### Actions

There is one action per command: `Pause` to `Throttle` for the bulk actions,
`AddIfPresent`, `Replace`, `ReplacePasskey`, `RemoveTracker`, `Restore`, `Import`;
`FromTui` for the nine actions the TUI plans by hash from its snapshot, `PauseByHash`
and `ResumeByHash` for the library's undoable pause, `Refuse` for options rejected before
anything is read. Then `ReadCategories`, `ReadTorrents`, `ReadTrackers` and `ReadFails`
read the server piece by piece; `Decide` plans, refuses an ambiguous source, and
follows `ExecutionPolicy.decide`; `Confirm` and `Decline` are the prompt; `Send` makes one
request, which succeeds, fails, or takes effect and loses its answer; `Finish` reports;
`Interrupt` is Ctrl-C anywhere; `Foreign` is another client. Restore and import go on
past a failed request, the others stop at it, as the code does.

The orders in which the server lists torrents and URLs are a choice of `Decide`. A
loop over them is a `FlattenSeq` of what each torrent or entry contributes. `PlanAssumption` and `RunAssumption` say
what the constants are: finitely many torrents, categories and passkeys, exports that
are records of what a backup file holds (`Backup`), sources that are sequences of
infohashes and invalid entries.

### Properties

| Property | Why it could fail |
|---|---|
| `NothingBeforeConsent` | sixteen operations, four modes, a table of risks and a prompt decide together whether anything is sent |
| `SuccessConverges` | skip reasons, two-request operations, categories that must exist first, batches, requests whose failure is recorded and passed over |
| `TrackerSurvives` | an edit may stop between any two requests of any torrent |
| `RestoreOnlyAdds` | a plan made on one reading, applied after others have worked |
| `PauseIsUndone` | undoing with what was found paused, not with what this call paused |

They speak of torrents no other client has touched while the command ran: there is
no conditional request, and the repository promises nothing against one.
`TrackerSurvives` leaves out `TargetLikeSource`, a replacement by another URL of the
same host matched without its query; there the code takes the source for the target
and only removes it, which is the run `survives`, expected to be violated (`findings`).

### Runs and bounds

| Run | Bounds | Shows |
|---|---|---|
| `mutate` | 2 torrents, 2 categories, 2 tags, limits 0 and 1, 2 passkeys, batches of one, 1 change by another client; 2.5 million states | all the above |
| `survives` | the same | the violation |

`Worlds` are servers that differ from a plain one in one kind of field, and `Relevant`
gives each operation those that differ in what it reads or writes: the plan of an
operation is a function of those fields alone. Two torrents are what a partial
failure and an ambiguous source need; one foreign change is enough to separate any two
steps. A command is one at a time and the next needs nothing of the last but
`ResumeByHash`, which follows its pause. Deadlock is not checked: a command ends.

## 7. CompletionCache

`CompletionCache.tla` is the JSON file shell completion reads its names from. Each
process is a command that has just read an instance, or a completion.

| Variables | Code |
|---|---|
| `file` | what the path holds: per host the names of each vocabulary and the cold-start witness, or something that cannot be read |
| `proc` | each process: its stage, host, vocabulary, what it found, the document it has read, what it offers |
| `tasks`, `damage` | bounds: processes started, times something else ruined the file |
| `learned`, `alone` | ghosts: what completed updates wrote, whether none was overtaken by another |

`FillFromTorrents` and `FillFromReport` are the commands that feed the file,
`Complete` a completion, which answers from the file or probes; `ProbeAnswers` and
`BudgetExpires` are the probe's thread and `join(timeout)`. An update is
`ReadDocument`, `WriteTemporary` and `Rename`, each its own step since nothing is
locked; `WriteFails`, `Killed` (at any point) and `Damage` are the faults.

| Property | Why it could fail |
|---|---|
| `NothingLostAlone` | a filtered command, a failed probe, a kill between read and rename; overlapping updates do lose names, which is why it speaks of those that do not |
| `NamesAreReal` | entries of several instances in one document, rewritten whole |
| `CompletionReturns` | a probe that never answers |

Run `completion`: 2 processes, 2 instances with different vocabularies, 2 names,
3 tasks, 1 damage. Two processes make every lost update; the third task meets what
the first two left. `FairSpec` assumes that a process runs and that its clock ticks
(weak fairness of `Step` and `BudgetExpires`), and nothing of the network. Deadlock is
not checked: the tasks run out. `completion_live.py` 22-24 says an instance is probed
"at most once"; one with no categories leaves an empty entry and is probed at every
Tab, in the model as in the code.

## 8. ReadCommands, Selection, Diagnosis, ClientSessions

`ReadCommands.tla` is the commands that only read, from options to exit code, while
the library changes and qBittorrent comes and goes. It EXTENDS `ClientSessions.tla`,
the two surfaces that keep a client beyond one answer: the MCP server, whose calls
run on threads of their own and share `_cached_client`, and `status --watch`.
`Selection.tla` is what options select (state groups, every criterion, the
half decided on the listing and the half that needs trackers, hash prefixes, search
tiers); `Diagnosis.tla` is the verdicts (alerts, health, findings, doctor's checks, what
an export and a page hold, exit codes).

### State

| Variables | Code |
|---|---|
| `up`, `session`, `losses` | qBittorrent: reachable, the session a login gets now, troubles so far |
| `cached`, `phase`, `client` | `_cached_client`; how far each MCP call is in `_call`; the client it works with |
| `watching`, `watcher`, `shown` | the watch loop, `_WatchClient`, its last snapshot |
| `lib`, `release` | the torrents qBittorrent holds, its versions |
| `cmd`, `pc`, `mine`, `requests`, `lookups` | the command, how far it is, its session, the requests and tracker lookups still to make |
| `got`, `reading`, `answer`, `exit` | what requests brought, the trackers read (`Unknown` where the lookup failed), what is reported, the exit code |
| `troubled`, `seen`, `changes` | ghosts: calls that met an outage, libraries there were while the command ran, how many changes |

A client is the session it logged in to; one of a lost session gets only
failures. A timeout that passes is an outage that comes back.

### Actions

One per command (`List` to `BackupExport`, and `Refuse`), each a `Command` (an operation,
what it selects by, a tracker, a query); `RequestsOf` is what it has to ask for,
the login first. Then its requests one at a time: `Login`, `ReadListing`, `ReadInBulk`, `LookUp` (one torrent's trackers),
`ReadAgain` (an export reads the library twice), `ReadValue`; `RequestFails` and
`LookUpFails`, whose effect depends on who asked (`Tolerates`, `ToleratesLookup`): doctor
goes on, a report records the failure, a selection must stop; `Finish` answers.
`Change` is another client editing one torrent between two requests. An MCP call is
`Get`, then `Answered` or `Fails`, then `Drop` and `GetAgain`, in which any other call may
step in between, since the lock covers only the client's creation and its dropping;
the watch is `WatchConnects` and `WatchCollects`.

### Properties

| Property | Why it could fail |
|---|---|
| `SelectionIsSound` | fields absent or at a sentinel, missing states, a torrent edited or deleted between the listing and its lookup |
| `CleanExitMeansRead` | each command tolerates other failures; a health computed from what was left over |
| `VerdictsAgree` | status, explain, doctor, trackers status, filters, search modes and pages each classify in a module of their own |
| `RetryIsEnough` | calls that share one client drop each other's fresh login |
| `WatchRecovers` | the client kept between cycles is the dead one |

`VerdictsAgree` sets the pure operators against each other over every library of the
run, in four parts: `StatesAgree` (status, counts, selections by state, doctor),
`TrackersAgree` (`trackers status` and `explain tracker`, whichever lookups fail),
`SearchesAgree` (the modes are a ladder of widening matches) and `PagesAgree` (the
pages a client follows partition the selection).

`ReadAssumption` says what the constants are: an unknown reading is told from every
value, a filter has the fields of the empty one and asks for nothing that stands for
the lack of a value, a query's mode is a rung of `Ladder`, names are
sequences and torrents finitely many.

### Runs, bounds and fairness

Run `answers`: 2 torrents whose infohashes share a prefix; 13 libraries from torrents
that are healthy, stalled, failing, paused, of an unknown state or with fields absent; 10
filters, each of one or two criteria; queries of every mode; 3 releases; one change
of the library and one outage per command; 2 MCP calls and 2 outages or lost
sessions for the sessions. `MCNext` explores the surfaces one at a time, since a
command and the sessions share nothing but qBittorrent being up (theorem
`SessionsAreKept` is about the full composition). `Relevant` varies releases with status
and doctor only, the ones that read them. Two MCP calls are what dropping another's
client needs; the theorem holds for any number.

`SessionsFairness`: the watch loop runs until it is interrupted (weak fairness of
`WatchConnects`, `WatchCollects`), and a call once made goes on (`Tool`). `WatchRecovers`
assumes, in its own statement, that qBittorrent is back for good. Deadlock is not
checked: a command ends.

Simplifications. Every request that fails on qBittorrent's side counts as what
`classify_recoverable_qbit_failure` recognises, and is retried; a tool that rejects its
arguments is `refused` and is not. `search --tracker`'s refusal comes after the login in the code, before
it here. Left out: Ctrl-C while reading, sort keys but the name, the order and limit
of search results, the totals of `stats`.

Seen while modelling, and stated by no property: `torrents delete --format json
--no-dry-run` confirmed on a terminal reports the status "preview" (`_shared.py` 95-97
against 108-121); `validate_torrent_filter` says only provably empty combinations are
refused (`selection.py` 444) but refuses some a torrent could satisfy; pages fetched
across a change of the library may skip a torrent or repeat it.

## 9. Proofs

`tlapm` checks every obligation of eight modules, from the assumptions the
models state about their constants (`SessionAssumption` of TuiSession and of
ClientSessions, `FocusAssumption`, `RateAssumption`, `CacheAssumption`,
`PlanAssumption`, `RunAssumption`, `ReadAssumption`) and nothing else. Each is of
the form `Init => Inv`, `Inv /\ [Next]_vars => Inv'`, with `Inv` as below.

- **TuiSessionProofs**: `TypeCorrect`, type correctness, one lemma per group of
  actions.
- **TuiApplyProofs**, four invariants and a refinement.
  `ApplyInvariant`, from which `FrozenExactlyWhileOutstanding` and
  `FormExcludesMutation` follow: `ApplyingIffOutstanding` is not inductive, since that a
  result belongs to the open Preview needs that results carry their own
  operation (`MutationIsOwned`), that at most one is queued, in flight, returning or reported
  (`OneMutation`), that the Preview on the stack is the latest operation
  (`PreviewIsShown`) and that what was sent cannot be applied again
  (`SentAtMostOnce`). `ApplyInv` is their conjunction. Steps that touch none of its
  variables, and the finish, landing or removal of other kinds of result, are "quiet" and
  handled once; those that are not (open, apply, dismiss, take the lock, call or
  abandon, land, deliver or drop) have a lemma each.
  `SessionKeepsPromise`, `Spec => ImplementsApplyOnce`: the initial states map to
  initial states and each step to `Offer`, `Expire`, `Apply`, `Begin`,
  `Call`, `Answer`, `Cancel`, `Quit` or a stutter.
  `OfferedPreviewIsFresh` and the action property `StaleStaysStale`, from `FreshInv`:
  only an open Preview is marked stale, so a new one starts fresh, and every failure
  that spoils the snapshot marks the open one.
  `OutcomeTellsWhatWasSent`, from `OutcomeInv`: an outcome names an operation that is
  over, and a queued answer says of the open Preview's operation what was sent
  (`SentFor`); without the second nothing ties the answer to the request it answers.
  `AppliedGetsReread`, from `RereadInv`: every refresh on its way back saw what was
  last reported, and behind every outdated listing in the queue (`Outdated`) there is
  a result that settles it (`Settles`, `Followed`), or a refresh is still at work, or
  `overtaken` holds. The last is there because the code needs it: a report that meets an
  older refresh in `returning` is the one case in which coalescing two
  refreshes loses the re-read, and the invariant shows that it is the only one and that
  the next refresh ends it.
- **TuiFocusProofs**: `FocusTypeCorrect`, then `RequestInvariant`. That details belong
  to the focused torrent is not inductive, since the guard that publishes them compares
  ids: it needs that ids are unique and none is ahead of the counter
  (`RequestsAreOrdered`), that the newest request is about the focused torrent
  (`NewestIsOfFocus`), that what it brings is no older than what is shown
  (`ReadingsAreOrdered`) and that an Explain that awaits it was opened for that torrent
  (`AwaitedIsOfFocus`). A step gives up the focus (`NewFocus`), starts a fetch
  (`NewFetch`), moves one along (`ReturnRequests`, `ResultRequests`), or is quiet.
  `DetailsBelongToFocus`, `ReportsBelongToTitles` and the action property
  `ReadingsNeverGoBack` follow. `FocusEndsOnCursor` rests on `CursorInv`: the cursor is
  on a row, and the last highlight queued, or else the focus, points at it
  (`Pointed`). `KeystrokesAreKept` rests on `SearchInv`, what a running debounce timer
  holds. `HiddenRowsGo` is an action property
  that each step has by itself.
- **RateProofs**: `RateTypeCorrect`, `TraceKeepsOrder` and `MeasuredIsKept`. The order of
  the trace rests on samples being asked one at a time and queued in that order
  (`SamplesAreOrdered`), on every answer still to come being newer than those shown
  (`AnswersAreNewer`), and on nothing having been measured from the awaited tick on
  (`AwaitedIsUnmeasured`), which survives a reset because a fresh window has measured
  nothing at all. `TraceRunsForward` and `NothingShownEarly` are the two claims about what
  is drawn, taken from that invariant.
- **MutationPlanProofs**: `PlanSound`, for every operation on every reading, in every
  order of listing: the requests of a plan are about matched torrents, in the forms
  the operation may send (`Fitting`), and no tracker is taken away before its
  successor has been asked for (`Ordered`), and together they bring about what the
  operation is for (`Covers`). A plan is folded from what each torrent
  contributes, so this is an induction. The library's induction theorems take an
  operator as parameter, which no installed prover instantiates; `Induction` states it
  of a set of naturals instead, and is proved by counting: were k the
  exception, the exceptions up to k would map one to one into one place fewer, each
  lowered by one.
- **MutationRunProofs**: `TypeCorrect`, `ConsentComesFirst`, `RestoreAdds`,
  `TrackersSurvive`, `SuccessIsReal` and `ResumeUndoesPause`. `Base` (types, the legal
  command and its sound plan, what has been decided) is inductive alone; `Seen`, what has
  been read of a torrent nobody else touches, is so given `Base`; `Consented`,
  `Restoring`, `Replacing`, `Converging` and `ByHashKept` are each so given both.
  None of the five claims is inductive: each needs to know of the requests not sent
  yet. `Converging` says it for success, where whatever a torrent still lacks is due
  from a request of the plan that has not been answered (`Due`), so that once all
  were answered and none failed nothing is lacking; `Replacing` for
  trackers, where what was replaced is in place before what it replaces goes.
- **ReadProofs**: `OneRetryIsEnough`. That only a troubled call raises is not
  inductive: it needs that an ongoing call untroubled finds qBittorrent up
  (`UntroubledIsServed`), that between its drop and its second `_client` nothing but a
  login of the current session can be cached, whoever cached it
  (`NothingOldIsCached`), and that its retry therefore works with a live client
  (`RetryHasALiveClient`). `SessionsAreKept` is a refinement: `ReadCommands!Spec`
  implements `SessionsSpec`, fairness included, since no command touches the sessions;
  `RetryIsEnoughBesideCommands` carries the first result over.
  `ReadTypeCorrect` is proved together with `ReadInv`: the queue of requests is one
  the command can be left with, so what it no longer asks for it has got (`InOrder`);
  every reading is of a library there was while it ran, and what was to be looked up is
  read or still to be (`Covered`); an export of a library that stood still has
  it whole, twice (`Exported`). What is reported is decided in `Finish`, and
  `SelectionStaysSound` and `CleanExitIsRead` follow from `ReadInv` at that step; no
  later step changes a report, and a later change of the library is not among
  those the command saw. `SurfacesAgree` proves `VerdictsAgree`, which is about operators
  only, for any library and failed lookups, a lemma for each part. The one on pages
  rests on a listing sorted by name having each torrent once (`SortedListing`: names
  are strictly ordered by their first difference, and in a strict order of a finite set
  no place is shared or empty, `PlacesAreTaken`), and on the pages reached being
  those that start within it (`PagesReached`, by a least counterexample).
- **CompletionProofs**: `CacheTypeCorrect`, `NothingIsInvented` and `NothingIsLostAlone`,
  from `CacheInv`: everything a process carries is real (`Honest`), so is the file
  (`FileIsReal`), and as long as no update overlaps another, whoever has read the file
  has read what it is about to replace (`SeenIsCurrent`). Steps that leave the file
  alone are "quiet"; `Rename` and `Damage` have a lemma each.

Only model-checked: the liveness properties `ApplyIsAnswered`, `RefreshingSettles`,
`CompletionReturns` and `WatchRecovers` (fairness is out of the prover's reach). The four
violated statements are TLC's findings alone.

## 10. Not modelled

- **Rendering, formatting, widgets, theme**: text, layout, colours and bindings, with
  no state of their own beyond what they show; masking and wording of messages.
- **Transfer settings** (`features/transfer.py`): a library API no command, screen or
  tool here calls, so nothing in the repository says what it runs beside.
- **Configuration**: `.env` precedence between the working directory and the user file
  (a session starts from what `load_qbit_config` left), the encoding of the env file.
- **Torrent import**: file discovery with its limits, bencode and infohashes; the input
  is a sequence of infohashes and invalid entries.
- **TUI**: the workspace switch, resizing, Help over Details, the draft inside the filter
  form and the value modals, the selection policy after a mutation, the per-tracker
  sparklines.
- **CLI**: option parsing, text normalisation (case, accents), output formats, the file
  permissions and validation of backups, exit 70 of an internal error.
