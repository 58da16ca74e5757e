------------------------------- MODULE TuiFocus -------------------------------
(***************************************************************************)
(* The torrent table of the interactive TUI and what hangs on its cursor:  *)
(* the rows left by filters and search, the selection, the focused         *)
(* torrent, its tracker details fetched by worker threads, the Details and *)
(* Explain screens that show them, and the debounced search box.           *)
(*                                                                         *)
(*   state     qbit_ops.tui.state.TuiController / TuiState                 *)
(*   handlers  qbit_ops.tui.app.QbitOpsTuiApp                              *)
(*   screens   qbit_ops.tui.modals.details, .explain, .filters             *)
(*   table     textual.widgets.DataTable (external)                        *)
(*                                                                         *)
(* A filter or a search text is the set of torrents it matches; a sort     *)
(* order is a ranking of the torrents; a tracker payload is the number of  *)
(* times the trackers had changed when it was read.                        *)
(***************************************************************************)
EXTENDS Naturals, Sequences, FiniteSets

CONSTANTS
    Hash,         \* torrents that may be in a listing
    NoHash,       \* None: nothing is focused
    Filter,       \* filters the operator may commit, as sets of torrents
    Text,         \* search texts, as sets of torrents
    NoText,       \* None: no search text waits for the debounce timer
    MaxRequests,  \* bound: detail-request generations
    MaxFetches,   \* bound: detail workers not yet reported
    MaxEvents,    \* bound: RowHighlighted messages not yet handled
    MaxVersion    \* bound: changes of the trackers on the server

ASSUME FocusAssumption ==
    /\ IsFiniteSet(Hash) /\ NoHash \notin Hash
    /\ Filter \subseteq SUBSET Hash /\ Hash \in Filter
    /\ Text \subseteq SUBSET Hash /\ Hash \in Text
    /\ NoText \notin Text
    /\ MaxRequests \in Nat /\ MaxFetches \in Nat
    /\ MaxEvents \in Nat /\ MaxVersion \in Nat

Focus == Hash \cup {NoHash}
Screen == {"details", "explain", "filters"}
Stacks == {<< >>, <<"details">>, <<"explain">>, <<"details", "explain">>,
           <<"filters">>}
Outcome == {"running", "ok", "failed", "internal"}

VARIABLES
    raw,        \* _raw_torrents: hashes of the last listing
    filters, search,
    rank,       \* the place of every torrent under state.sort
    selected,   \* selected_hashes
    focused,    \* focused_hash
    details,    \* focused_tracker_details: whose, and how recent
    failed,     \* focused_tracker_fetch_failed
    requestId,  \* _detail_request_id
    fetches,    \* detail workers whose result is not handled
    lastFetch,  \* _last_detail_worker: its request
    pending,    \* _pending_explain_request_id; 0 is None
    explain,    \* _explain_screen: its title and its report
    stack,      \* the screens above the main one
    retry,      \* DetailsScreen's one-shot timer is armed
    cursor,     \* the row under the DataTable's cursor
    events,     \* RowHighlighted messages, oldest first
    box,        \* the search input: closed, focused or mounted
    typed,      \* its text
    debounce,   \* _pending_search_text while the timer runs
    version     \* changes of the trackers on the server

viewVars   == <<raw, filters, search, rank>>
detailVars == <<focused, details, failed, requestId>>
fetchVars  == <<fetches, lastFetch>>
screenVars == <<pending, explain, stack, retry>>
tableVars  == <<cursor, events>>
boxVars    == <<box, typed, debounce>>
vars == <<viewVars, selected, detailVars, fetchVars, screenVars, tableVars,
          boxVars, version>>

NoDetails == [hash |-> NoHash, seen |-> 0]
NoReport == [hash |-> NoHash, seen |-> 0]
NoExplain == [title |-> NoHash, report |-> NoReport]

Ranks == {r \in [Hash -> 1..Cardinality(Hash)] :
             \A g, h \in Hash : r[g] = r[h] => g = h}

Init ==
    /\ raw = {} /\ filters = Hash /\ search = Hash /\ rank \in Ranks
    /\ selected = {}
    /\ focused = NoHash /\ details = NoDetails /\ failed = FALSE
    /\ requestId = 0
    /\ fetches = {} /\ lastFetch = 0
    /\ pending = 0 /\ explain = NoExplain /\ stack = << >> /\ retry = FALSE
    /\ cursor = NoHash /\ events = << >>
    /\ box = "closed" /\ typed = Hash /\ debounce = NoText
    /\ version = 0

-----------------------------------------------------------------------------
(* The rows of the table: state.visible.matched, which every handler that  *)
(* changes it renders before it returns, as the pairs of rows in order.    *)

Visible == raw \cap filters \cap search
Rows == {p \in Visible \X Visible : rank[p[1]] <= rank[p[2]]}
Top == {h \in Visible : \A g \in Visible : rank[h] <= rank[g]}

\* Slip: nothing is fetched again, so the request id is left as it is.
ClearFocusOnly ==
    /\ focused' = NoHash
    /\ details' = NoDetails
    /\ failed' = FALSE
    /\ UNCHANGED requestId

ClearFocus ==
    /\ requestId < MaxRequests
    /\ focused' = NoHash
    /\ details' = NoDetails
    /\ failed' = FALSE
    /\ requestId' = requestId + 1

\* _reconcile_focus, against the rows the step leaves
ReconcileFocus ==
    IF focused = NoHash \/ focused \in Visible'
    THEN UNCHANGED detailVars
    ELSE ClearFocus

\* reconcile_selection
ReconcileSelection == selected' = selected \cap Visible'

\* Slip: the highlight of the restored row is swallowed with the others.
PostedFirst(h) == <<h>>

\* The highlights of a table filled again, whose first row is now h
Posted(h) ==
    IF focused' \in Visible' \ {h} THEN <<h, focused'>> ELSE <<h>>

(***************************************************************************)
(* A DataTable emptied and filled again highlights its first row, then the *)
(* row _render_table moves the cursor back to.  The messages are queued,   *)
(* so they are handled after _rebuilding_table is cleared.  An empty table *)
(* may report a highlight without a row.                                   *)
(***************************************************************************)
Rebuild ==
    \/ /\ Visible' = {}
       /\ cursor' = NoHash
       /\ \/ UNCHANGED events
          \/ Len(events) < MaxEvents /\ events' = Append(events, NoHash)
    \/ \E h \in Top' :
           /\ cursor' = IF focused' \in Visible' THEN focused' ELSE h
           /\ events' = events \o Posted(h)
           /\ Len(events') <= MaxEvents

\* _render_table: the rows are rebuilt only when their order changed
Render == IF Rows' = Rows THEN UNCHANGED tableVars ELSE Rebuild

\* apply_refresh_success, and the rendering after it
Refresh ==
    /\ raw' \in SUBSET Hash
    /\ rank' \in Ranks
    /\ UNCHANGED <<filters, search>>
    /\ ReconcileFocus /\ ReconcileSelection /\ Render
    /\ UNCHANGED <<fetchVars, screenVars, boxVars, version>>

\* Slip: filters are committed without dropping what they hide.
ApplyFiltersOnly ==
    /\ stack = <<"filters">>
    /\ filters' \in Filter
    /\ UNCHANGED <<raw, search, rank, selected>>
    /\ ReconcileFocus /\ Render
    /\ UNCHANGED <<fetchVars, screenVars, boxVars, version>>

\* FiltersScreen.apply_draft: the form stays open
ApplyFilters ==
    /\ stack = <<"filters">>
    /\ filters' \in Filter
    /\ UNCHANGED <<raw, search, rank>>
    /\ ReconcileFocus /\ ReconcileSelection /\ Render
    /\ UNCHANGED <<fetchVars, screenVars, boxVars, version>>

\* Keys of the main screen, while the search input has not the focus.
OnTable == stack = << >> /\ box # "focused"

\* apply_sort: another order is another table signature
ApplySort ==
    /\ OnTable
    /\ rank' \in Ranks
    /\ UNCHANGED <<raw, filters, search, selected, detailVars>>
    /\ Rebuild
    /\ UNCHANGED <<fetchVars, screenVars, boxVars, version>>

\* action_reset_view
ResetView ==
    /\ OnTable
    /\ filters' = Hash /\ selected' = {}
    /\ rank' \in Ranks
    /\ UNCHANGED <<raw, search>>
    /\ ReconcileFocus
    /\ (rank' = rank /\ Render) \/ Rebuild
    /\ UNCHANGED <<fetchVars, screenVars, boxVars, version>>

-----------------------------------------------------------------------------
(* The cursor and the focus. *)

\* The operator moves the cursor; DataTable posts the row it reached.
MoveCursor ==
    /\ OnTable
    /\ Len(events) < MaxEvents
    /\ \E h \in Visible \ {cursor} :
           cursor' = h /\ events' = Append(events, h)
    /\ UNCHANGED <<viewVars, selected, detailVars, fetchVars, screenVars,
                   boxVars, version>>

\* begin_focus_change
FocusOn(h) ==
    IF h = focused THEN UNCHANGED detailVars
    ELSE /\ requestId < MaxRequests
         /\ focused' = h
         /\ details' = NoDetails
         /\ failed' = FALSE
         /\ requestId' = requestId + 1

\* on_data_table_row_highlighted
RowHighlighted ==
    /\ events # << >>
    /\ IF Head(events) = NoHash THEN ClearFocus ELSE FocusOn(Head(events))
    /\ events' = Tail(events)
    /\ UNCHANGED <<viewVars, selected, fetchVars, screenVars, cursor, boxVars,
                   version>>

\* action_toggle_selection
ToggleSelection ==
    /\ OnTable
    /\ focused # NoHash
    /\ selected' = IF focused \in selected THEN selected \ {focused}
                   ELSE selected \cup {focused}
    /\ UNCHANGED <<viewVars, detailVars, fetchVars, screenVars, tableVars,
                   boxVars, version>>

\* action_select_all_visible, action_deselect_all
SelectAll ==
    /\ OnTable
    /\ selected' \in {Visible, {}}
    /\ UNCHANGED <<viewVars, detailVars, fetchVars, screenVars, tableVars,
                   boxVars, version>>

-----------------------------------------------------------------------------
(* Tracker details, fetched by worker threads. *)

\* Slip: a refresh of the same torrent shares its request id.
BeginShared ==
    /\ requestId' = requestId
    /\ failed' = FALSE
    /\ UNCHANGED <<focused, details>>

\* begin_manual_detail_refresh
BeginManual ==
    /\ requestId < MaxRequests
    /\ requestId' = requestId + 1
    /\ failed' = FALSE
    /\ UNCHANGED <<focused, details>>

\* _start_detail_fetch, for the request the step has allocated
StartFetch ==
    /\ Cardinality(fetches) < MaxFetches
    /\ fetches' = fetches \cup {[id |-> requestId', hash |-> focused,
                                 outcome |-> "running", seen |-> 0]}
    /\ lastFetch' = requestId'

\* Slip: details are fetched although nothing is focused.
RefreshAnything == BeginManual /\ StartFetch

\* action_refresh_details, when something is focused
RefreshDetails == focused # NoHash /\ BeginManual /\ StartFetch

\* `r`, on the main screen or on the Details screen
PressRefresh ==
    /\ OnTable \/ stack = <<"details">>
    /\ RefreshDetails
    /\ UNCHANGED <<viewVars, selected, screenVars, tableVars, boxVars, version>>

\* action_activate, DetailsScreen.on_mount
OpenDetails ==
    /\ OnTable
    /\ stack' = <<"details">>
    /\ retry' = TRUE
    /\ \/ RefreshDetails
       \/ focused = NoHash /\ UNCHANGED <<detailVars, fetchVars>>
    /\ UNCHANGED <<viewVars, selected, pending, explain, tableVars, boxVars,
                   version>>

\* DetailsScreen._retry_if_still_loading
RetryDetails ==
    /\ retry
    /\ retry' = FALSE
    /\ \/ details = NoDetails /\ ~failed /\ RefreshDetails
       \/ /\ details # NoDetails \/ failed \/ focused = NoHash
          /\ UNCHANGED <<detailVars, fetchVars>>
    /\ UNCHANGED <<viewVars, selected, pending, explain, stack, tableVars,
                   boxVars, version>>

\* The worker's torrents_trackers call returns or raises.
FetchReturns ==
    \E f \in fetches, o \in Outcome \ {"running"} :
        /\ f.outcome = "running"
        /\ fetches' = (fetches \ {f}) \cup
               {[f EXCEPT !.outcome = o,
                          !.seen = IF o = "ok" THEN version ELSE 0]}
        /\ UNCHANGED <<viewVars, selected, detailVars, lastFetch, screenVars,
                       tableVars, boxVars, version>>

\* Slip: a result is stale once a newer fetch was started, not a newer focus.
IsLastFetch(f) == f.id = lastFetch

\* The stale-result guard of apply_tracker_details_success/_failure
IsCurrent(f) == f.id = requestId

Publish(f) ==
    /\ details' = IF f.outcome = "ok" /\ IsCurrent(f)
                  THEN [hash |-> f.hash, seen |-> f.seen] ELSE details
    /\ failed' = IF IsCurrent(f) THEN f.outcome = "failed" ELSE failed
    /\ UNCHANGED <<focused, requestId>>

\* build_explanation, from the details the step leaves
Report == [hash |-> focused, seen |-> details'.seen]

\* Slip: whatever is focused when the fetch ends is explained.
AwaitedByAnyone(f) == TRUE

\* _maybe_resolve_pending_explain's last two guards
Awaited(f) == focused = f.hash /\ requestId = f.id

IsOpen(s) == \E i \in DOMAIN stack : stack[i] = s
CloseTop == SubSeq(stack, 1, Len(stack) - 1)

ResolveExplain(f) ==
    IF pending # f.id THEN UNCHANGED screenVars
    ELSE /\ pending' = 0
         /\ LET shown == IsOpen("explain") /\ Awaited(f) IN
            /\ explain' = IF shown /\ focused \in raw
                          THEN [explain EXCEPT !.report = Report] ELSE explain
            /\ stack' = IF shown /\ focused \notin raw THEN CloseTop ELSE stack
         /\ UNCHANGED retry

(***************************************************************************)
(* _on_detail_worker_state_changed.  Results are handled in whatever order *)
(* the threads end; an unclassified error of the current request is shown  *)
(* as fatal and resolves nothing.                                          *)
(***************************************************************************)
DetailResult ==
    \E f \in fetches :
        /\ f.outcome # "running"
        /\ fetches' = fetches \ {f}
        /\ \/ /\ f.outcome = "internal" /\ IsCurrent(f)
              /\ UNCHANGED <<detailVars, screenVars>>
           \/ /\ f.outcome # "internal" \/ ~IsCurrent(f)
              /\ Publish(f) /\ ResolveExplain(f)
        /\ UNCHANGED <<viewVars, selected, lastFetch, tableVars, boxVars,
                       version>>

\* _last_detail_worker is not finished
FetchInFlight ==
    \E f \in fetches : f.id = lastFetch /\ f.outcome = "running"

\* action_explain
OpenExplain ==
    /\ OnTable \/ stack = <<"details">>
    /\ focused # NoHash
    /\ stack' = Append(stack, "explain")
    /\ \/ /\ details # NoDetails /\ focused \in raw
          /\ explain' = [title |-> focused,
                         report |-> [hash |-> focused, seen |-> details.seen]]
          /\ UNCHANGED <<pending, detailVars, fetchVars>>
       \/ /\ details = NoDetails
          /\ explain' = [title |-> focused, report |-> NoReport]
          /\ \/ /\ FetchInFlight
                /\ pending' = requestId
                /\ UNCHANGED <<detailVars, fetchVars>>
             \/ /\ ~FetchInFlight
                /\ BeginManual /\ StartFetch
                /\ pending' = requestId'
    /\ UNCHANGED <<viewVars, selected, retry, tableVars, boxVars, version>>

\* action_open_filters
OpenFilters ==
    /\ OnTable
    /\ stack' = <<"filters">>
    /\ UNCHANGED <<viewVars, selected, detailVars, fetchVars, pending, explain,
                   retry, tableVars, boxVars, version>>

\* action_dismiss_overlay over a screen; a screen's timer goes with it
DismissScreen ==
    /\ stack # << >>
    /\ stack' = CloseTop
    /\ retry' = (retry /\ Len(stack) > 1)
    /\ UNCHANGED <<viewVars, selected, detailVars, fetchVars, pending, explain,
                   tableVars, boxVars, version>>

-----------------------------------------------------------------------------
(* Search. *)

\* set_search, with the rendering of _apply_search
SetSearch(text) ==
    /\ search' = text
    /\ UNCHANGED <<raw, filters, rank>>
    /\ ReconcileFocus /\ ReconcileSelection
    \* the text is part of no table signature: rows are compared as ever
    /\ Render

\* Slip: the input is torn down with its timer, its text is not applied.
Discard == UNCHANGED <<viewVars, selected, detailVars, tableVars>>

\* _flush_pending_search
Flush ==
    IF debounce = NoText
    THEN UNCHANGED <<viewVars, selected, detailVars, tableVars>>
    ELSE SetSearch(debounce)

\* action_focus_search, mount_search_input
OpenSearch ==
    /\ OnTable
    /\ box' = "focused"
    /\ typed' = IF box = "closed" THEN search ELSE typed
    /\ UNCHANGED <<viewVars, selected, detailVars, fetchVars, screenVars,
                   tableVars, debounce, version>>

\* A keystroke: Input.Changed restarts the debounce timer.
TypeText ==
    /\ stack = << >> /\ box = "focused"
    /\ \E text \in Text \ {typed} : typed' = text /\ debounce' = text
    /\ UNCHANGED <<viewVars, selected, detailVars, fetchVars, screenVars,
                   tableVars, box, version>>

DebounceFires ==
    /\ debounce # NoText
    /\ Flush
    /\ debounce' = NoText
    /\ UNCHANGED <<fetchVars, screenVars, box, typed, version>>

\* action_activate in the input: the table takes the focus
LeaveInput ==
    /\ stack = << >> /\ box = "focused"
    /\ box' = "mounted"
    /\ UNCHANGED <<viewVars, selected, detailVars, fetchVars, screenVars,
                   tableVars, typed, debounce, version>>

\* action_dismiss_overlay, _switch_workspace: the input is removed
CloseSearch ==
    /\ stack = << >> /\ box # "closed"
    /\ Flush
    /\ debounce' = NoText
    /\ box' = "closed"
    /\ UNCHANGED <<fetchVars, screenVars, typed, version>>

-----------------------------------------------------------------------------
TrackersChange ==
    /\ version < MaxVersion
    /\ version' = version + 1
    /\ UNCHANGED <<viewVars, selected, detailVars, fetchVars, screenVars,
                   tableVars, boxVars>>

Next ==
    \/ Refresh \/ ApplyFilters \/ ApplySort \/ ResetView
    \/ MoveCursor \/ RowHighlighted \/ ToggleSelection \/ SelectAll
    \/ PressRefresh \/ OpenDetails \/ RetryDetails \/ FetchReturns
    \/ DetailResult \/ OpenExplain \/ OpenFilters \/ DismissScreen
    \/ OpenSearch \/ TypeText \/ DebounceFires \/ LeaveInput \/ CloseSearch
    \/ TrackersChange

Spec == Init /\ [][Next]_vars

-----------------------------------------------------------------------------
(* Properties. *)

Details == [hash : Focus, seen : Nat]
Fetch == [id : Nat, hash : Hash, outcome : Outcome, seen : Nat]

\* Every variable holds a value of its type (TuiState's annotations).
TypeOK ==
    /\ raw \in SUBSET Hash /\ filters \in SUBSET Hash /\ search \in SUBSET Hash
    /\ rank \in [Hash -> 1..Cardinality(Hash)]
    /\ selected \in SUBSET Hash
    /\ focused \in Focus /\ details \in Details /\ failed \in BOOLEAN
    /\ requestId \in Nat
    /\ fetches \in SUBSET Fetch /\ lastFetch \in Nat
    /\ pending \in Nat
    /\ explain \in [title : Focus, report : Details]
    /\ stack \in Stacks /\ retry \in BOOLEAN
    /\ cursor \in Focus /\ events \in Seq(Focus)
    /\ box \in {"closed", "focused", "mounted"}
    /\ typed \in SUBSET Hash /\ debounce \in (SUBSET Hash) \cup {NoText}
    /\ version \in Nat

\* Whatever the order in which fetches end and the focus moves, the tracker
\* details on display are those of the focused torrent (state.py:1225-1227,
\* "only C's result ever applies").
DetailsAreOfFocus == details # NoDetails => details.hash = focused

\* A torrent's details are never replaced by an older reading of its
\* trackers: a slower fetch cannot overwrite an explicit `r`
\* (begin_manual_detail_refresh).
LatestReadingWins ==
    [][details.hash = details'.hash => details'.seen >= details.seen]_vars

\* An Explain screen shows a report of the torrent its title names, although
\* the focus may have moved while the fetch it waits for was in flight.
ExplainNamesItsTorrent ==
    IsOpen("explain") /\ explain.report # NoReport =>
        explain.report.hash = explain.title

\* "Failed" is said of the newest request only, never of one still in flight
\* (state.py:1268-1269, "a terminal outcome for this request").
FailureIsFinal == failed => \A f \in fetches : f.id # requestId

(***************************************************************************)
(* What the request ids rest on: ids are never reused, the newest request  *)
(* is always for the focused torrent, whatever it brings is no older than  *)
(* what is shown, and an Explain that awaits it was opened for that        *)
(* torrent.                                                                *)
(***************************************************************************)
RequestsAreOrdered ==
    /\ \A f \in fetches : f.id > 0 /\ f.id <= requestId
    /\ \A f, g \in fetches : f.id = g.id => f = g
    /\ pending <= requestId

NewestIsOfFocus == \A f \in fetches : f.id = requestId => f.hash = focused

ReadingsAreOrdered ==
    /\ details.hash = NoHash => details = NoDetails
    /\ details.seen <= version
    /\ \A f \in fetches : f.id = requestId /\ f.outcome = "ok" =>
                              details.seen <= f.seen
    /\ \A f \in fetches : f.seen <= version

AwaitedIsOfFocus ==
    IsOpen("explain") /\ pending = requestId => explain.title = focused

RequestInv ==
    /\ RequestsAreOrdered /\ NewestIsOfFocus /\ ReadingsAreOrdered
    /\ AwaitedIsOfFocus /\ DetailsAreOfFocus /\ FailureIsFinal
    /\ ExplainNamesItsTorrent

\* Once its messages are handled, the torrent that space, e and r act on is
\* the one under the cursor, through every rebuild of the table.
FocusFollowsCursor == events = << >> /\ Visible # {} => focused = cursor

\* A step that takes rows away leaves neither a hidden selection nor a hidden
\* focus behind (state.py:975).
HiddenRowsAreDropped ==
    [][~(Visible \subseteq Visible') =>
           selected' \subseteq Visible' /\ focused' \in Visible' \cup {NoHash}]_vars

\* The text in the search input is the text searched for, or the debounce
\* timer still holds it: closing the input loses no keystroke.
NoKeystrokeIsLost == typed \in {search, debounce}

\* An Explain screen that waits for a fetch waits for one that will end
\* (app.py:1082, "once its awaited detail fetch completes").
ExplainAwaitsAFetch ==
    [][pending' \notin {pending, 0} =>
           \E f \in fetches' : f.id = pending']_vars
=============================================================================
