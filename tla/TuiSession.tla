------------------------------ MODULE TuiSession ------------------------------
(***************************************************************************)
(* The session of the interactive TUI: one UI thread that owns the state,  *)
(* the worker threads it starts, the remote lock those threads share, the  *)
(* message queue through which their results come back, the Preview/Apply  *)
(* cycle of a bulk mutation, and the connection form that points a running *)
(* session at another instance.                                            *)
(*                                                                         *)
(*   UI thread       qbit_ops.tui.app.QbitOpsTuiApp                        *)
(*   state           qbit_ops.tui.state.TuiController / TuiState           *)
(*   configuration   qbit_ops.config, qbit_core.features.connection_setup  *)
(*                                                                         *)
(* A torrent listing is abstracted to the number of mutations the server   *)
(* had applied when it was read (its "version"); a plan to what Apply does *)
(* with it; a logged-in client to the identity of its session.             *)
(***************************************************************************)
EXTENDS Naturals, Sequences, FiniteSets

CONSTANTS
    Host,        \* the instances an operator may name in the form
    NoHost,      \* QBIT_HOST unset, or no env file
    Session,     \* identities of logged-in clients
    NoSession,   \* None: no client, an empty TuiRefreshCache
    HostOf,      \* the instance each of those clients is logged in to
    MaxOps,      \* bound: Previews opened in a behaviour
    MaxSetups,   \* bound: connection forms completed in a behaviour
    MaxInbox,    \* bound: worker results waiting for the UI thread
    Sampling     \* bound: whether the rate sampler's thread is modelled

ASSUME SessionAssumption ==
    /\ NoHost \notin Host
    /\ NoSession \notin Session
    /\ HostOf \in [Session -> Host]
    /\ MaxOps \in Nat
    /\ MaxSetups \in Nat
    /\ MaxInbox \in Nat \ {0}
    /\ Sampling \in BOOLEAN

Ops == 1..MaxOps
Kind == {"refresh", "mutation", "lists", "sample"}
Plan == {"plain", "widen", "empty"}
Error == {"auth", "unavailable", "config", "internal"}
Connection == {"connecting", "connected", "reconnecting",
               "auth_failed", "config_failed"}
Modal == {"none", "setup", "actions", "preview", "result", "overlay"}
Source == {"user_file", "shell", "other_file"}
Status == {"none", "applied", "no_changes", "cancelled", "error"}

VARIABLES
    (* the UI thread: QbitOpsTuiApp *)
    running,      \* App.is_running
    started,      \* _refreshing_started: both timers exist
    needsSetup,   \* the first-run form has not been answered
    modal,        \* the screen above the main one
    help,         \* HelpScreen is open above that screen
    preview,      \* the PreviewScreen's fields
    lastOp,       \* _last_operation_id
    active,       \* _preview_screen / _active_mutation_plan: its operation
    outcome,      \* _last_mutation_result
    latch,        \* _instance_lists_requested
    (* the state a refresh publishes: TuiController, TuiState *)
    connection, stale, refreshing,
    raw,          \* _raw_torrents: the version it was read at
    haveStatus,   \* state.status is not None
    listed,       \* categories_available / tags_available were read
    fatal,        \* the banner reads "Internal error"
    client,       \* _client
    cache,        \* _refresh_cache: the session it was filled from
    (* worker threads *)
    waiting,      \* threads of each kind queued for _remote_lock
    remote,       \* the operation that holds _remote_lock
    job,          \* what the mutation worker's closure captured
    returning,    \* results of threads off the lock, their workers unfinished
    inbox,        \* Worker.StateChanged messages, oldest first
    (* connection setup and configuration *)
    confirming,   \* SetupScreen._confirming
    setupCfg,     \* _setup_config
    setupTest,    \* _setup_worker
    fileExists,   \* the user env file exists
    fileHost,     \* the host the form wrote into it
    source,       \* what supplies the connection variables at launch
    environ,      \* os.environ[QBIT_HOST]
    creds,        \* os.environ holds QBIT_USER and QBIT_PASSWORD
    host,         \* TuiController._host
    setups,       \* forms completed so far (bounds the model)
    (* qBittorrent, and what was sent to it *)
    server,       \* mutations it has applied
    sends,        \* how often each operation was sent
    acked,        \* the version after the last mutation reported applied
    overtaken     \* that report found an older refresh still returning, and
                  \* no refresh has started since

uiVars      == <<running, started, needsSetup, modal, help>>
applyVars   == <<preview, lastOp, active, outcome>>
stateVars   == <<connection, stale, refreshing, raw, haveStatus, listed, latch,
                 fatal>>
setupVars   == <<confirming, setupCfg, setupTest>>
configVars  == <<fileExists, fileHost, source, environ, creds>>
serverVars  == <<server, sends, acked, overtaken>>
workerVars  == <<waiting, remote, job, returning, inbox>>
vars == <<uiVars, applyVars, stateVars, setupVars, configVars, serverVars,
          workerVars, client, cache, host, setups>>

NoPreview == [op |-> 0, plan |-> "empty", stale |-> FALSE, applying |-> FALSE]
NoRemote == [kind |-> "none", step |-> "free",
             client |-> NoSession, cache |-> NoSession]
NoJob == [op |-> 0, plan |-> "empty"]
NoOutcome == [op |-> 0, status |-> "none"]

-----------------------------------------------------------------------------
(* Predicates of the UI thread. *)

\* A thread of this kind waits for the lock or holds it.
AtLock(k) == waiting[k] > 0 \/ remote.kind = k

\* Worker.is_finished of the last worker of a kind.
Finished(k) == ~AtLock(k) /\ \A m \in returning : m.kind # k

\* _snapshot_is_fresh
Fresh(c, s) == c = "connected" /\ ~s

\* Slip: Apply checks only that it was not pressed already.
CanApplyStale == ~preview.applying

\* PreviewScreen.can_apply
CanApply == ~preview.stale /\ ~preview.applying

\* Slip: only the screen on top is told that the snapshot is stale.
MarkTop(p) == IF p.op # 0 /\ ~p.applying /\ ~help
              THEN [p EXCEPT !.stale = TRUE] ELSE p

\* Slip: a preview's staleness is recomputed from the flags at each failure.
MarkFromFlags(p) == IF p.op # 0 /\ ~p.applying
                    THEN [p EXCEPT !.stale = ~Fresh(connection, stale)] ELSE p

\* PreviewScreen.mark_stale, on the preview there may be
MarkStale(p) == IF p.op # 0 /\ ~p.applying THEN [p EXCEPT !.stale = TRUE] ELSE p

\* The screen on top of the stack.
Top(m) == modal = m /\ ~help

\* Slip: no refresh starts while a screen covers the table.
CanStartUncovered ==
    Finished("refresh") /\ Finished("mutation") /\ modal = "none"

\* _start_periodic_refresh: coalesced with a refresh or a mutation in flight.
CanStartRefresh == Finished("refresh") /\ Finished("mutation")
StartRefresh(w) == IF CanStartRefresh THEN [w EXCEPT !["refresh"] = 1] ELSE w
RefreshFlag == refreshing \/ CanStartRefresh

\* _start_rate_sample: the second's slot aside, one sample in flight at most.
CanStartSample ==
    /\ Sampling
    /\ connection \notin {"auth_failed", "config_failed"}
    /\ Finished("sample")

(***************************************************************************)
(* The states the program starts in.  Configured: cli/commands/tui.py has  *)
(* already run load_qbit_config, which leaves the three variables in       *)
(* os.environ, and on_mount has started the timers.  First run: the form   *)
(* is open and os.environ holds at most a part of a configuration.         *)
(***************************************************************************)
InitConfigured ==
    /\ needsSetup = FALSE /\ started = TRUE /\ modal = "none"
    /\ environ \in Host /\ host = environ /\ creds = TRUE
    /\ fileExists \in BOOLEAN
    /\ source = "user_file" => fileExists
    /\ waiting = [k \in Kind |->
                     IF k = "refresh" \/ (k = "sample" /\ Sampling) THEN 1 ELSE 0]
    /\ refreshing = TRUE

InitFirstRun ==
    /\ needsSetup = TRUE /\ started = FALSE /\ modal = "setup"
    /\ environ \in Host \cup {NoHost} /\ creds \in BOOLEAN /\ host = NoHost
    /\ environ = NoHost \/ ~creds
    /\ fileExists \in BOOLEAN
    /\ (source = "user_file" /\ ~fileExists) => (environ = NoHost /\ ~creds)
    /\ waiting = [k \in Kind |-> 0]
    /\ refreshing = FALSE

Init ==
    /\ source \in Source
    /\ InitConfigured \/ InitFirstRun
    /\ running = TRUE /\ help = FALSE
    /\ preview = NoPreview /\ lastOp = 0 /\ active = 0 /\ outcome = NoOutcome
    /\ connection = "connecting" /\ stale = FALSE /\ raw = 0
    /\ haveStatus = FALSE /\ listed = FALSE /\ latch = FALSE /\ fatal = FALSE
    /\ client = NoSession /\ cache = NoSession
    /\ remote = NoRemote /\ job = NoJob
    /\ returning = {} /\ inbox = << >>
    /\ confirming = FALSE /\ setupCfg = NoHost /\ setupTest = "idle"
    /\ fileHost = NoHost /\ setups = 0
    /\ server = 0 /\ sends = [o \in Ops |-> 0] /\ acked = 0
    /\ overtaken = FALSE

-----------------------------------------------------------------------------
(* Timers. *)

PeriodicTick ==
    /\ running /\ started /\ CanStartRefresh
    /\ waiting' = StartRefresh(waiting)
    /\ refreshing' = TRUE /\ overtaken' = FALSE
    /\ UNCHANGED <<uiVars, applyVars, connection, stale, raw, haveStatus,
                   listed, latch, fatal, setupVars, configVars, server, sends,
                   acked, remote, job, returning, inbox, client, cache, host,
                   setups>>

SampleTick ==
    /\ running /\ started /\ CanStartSample
    /\ waiting' = [waiting EXCEPT !["sample"] = 1]
    /\ UNCHANGED <<uiVars, applyVars, stateVars, setupVars, configVars,
                   serverVars, remote, job, returning, inbox, client, cache,
                   host, setups>>

-----------------------------------------------------------------------------
(* Screens. *)

\* Open a screen that shows only on an empty stack: Actions (which needs a
\* selection, so a listing), or one of Details, Explain, Filters and Sort.
OpenScreen(m) ==
    /\ running /\ Top("none")
    /\ m = "actions" => haveStatus
    /\ modal' = m
    /\ UNCHANGED <<running, started, needsSetup, help, applyVars, stateVars,
                   setupVars, configVars, serverVars, workerVars,
                   client, cache, host, setups>>

\* action_reconfigure: a fresh SetupScreen.
Reconfigure ==
    /\ running /\ Top("none") /\ setups < MaxSetups
    /\ modal' = "setup" /\ confirming' = FALSE
    /\ UNCHANGED <<running, started, needsSetup, help, applyVars, stateVars,
                   setupCfg, setupTest, configVars, serverVars, workerVars,
                   client, cache, host, setups>>

\* action_toggle_help and HelpScreen's own bindings: Help opens over anything.
ToggleHelp ==
    /\ running
    /\ help' = ~help
    /\ UNCHANGED <<running, started, needsSetup, modal, applyVars, stateVars,
                   setupVars, configVars, serverVars, workerVars,
                   client, cache, host, setups>>

\* Slip: Escape closes a Preview whatever it is doing.
MayDismissPreview == ~(modal = "setup" /\ needsSetup)

\* action_dismiss_overlay on a screen under no Help: neither an applying
\* Preview nor the first-run form lets itself be closed.
MayDismiss ==
    /\ ~(modal = "preview" /\ preview.applying)
    /\ ~(modal = "setup" /\ needsSetup)

Dismiss ==
    /\ running /\ ~help /\ modal # "none"
    /\ MayDismiss
    /\ setupCfg' = IF modal = "setup" THEN NoHost ELSE setupCfg
    /\ preview' = NoPreview
    /\ modal' = "none"
    /\ UNCHANGED <<running, started, needsSetup, help, lastOp, active, outcome,
                   stateVars, confirming, setupTest, configVars, serverVars,
                   workerVars, client, cache, host, setups>>

Quit ==
    /\ running
    /\ running' = FALSE
    /\ UNCHANGED <<started, needsSetup, modal, help, applyVars, stateVars,
                   setupVars, configVars, serverVars, workerVars,
                   client, cache, host, setups>>

-----------------------------------------------------------------------------
(* Preview and Apply. *)

\* _open_preview_for_action: the plan is frozen here, the preview is stale
\* from birth over a snapshot known not to be current.
OpenPreview(p) ==
    /\ running /\ Top("actions") /\ lastOp < MaxOps
    /\ lastOp' = lastOp + 1
    /\ preview' = [op |-> lastOp + 1, plan |-> p,
                   stale |-> ~Fresh(connection, stale), applying |-> FALSE]
    /\ modal' = "preview"
    /\ UNCHANGED <<running, started, needsSetup, help, active, outcome,
                   stateVars, setupVars, configVars, serverVars, workerVars,
                   client, cache, host, setups>>

\* action_apply_plan
ApplyPlan ==
    /\ running /\ Top("preview")
    /\ Finished("mutation")
    /\ CanApply
    /\ preview' = [preview EXCEPT !.applying = TRUE]
    /\ active' = preview.op
    /\ job' = [op |-> preview.op, plan |-> preview.plan]
    /\ waiting' = [waiting EXCEPT !["mutation"] = 1]
    /\ UNCHANGED <<uiVars, lastOp, outcome, stateVars, setupVars, configVars,
                   serverVars, remote, returning, inbox, client, cache, host,
                   setups>>

-----------------------------------------------------------------------------
(***************************************************************************)
(* Worker threads.  Every remote operation runs inside _remote_operation:  *)
(* take _remote_lock, reuse the client or log in, call qBittorrent, give   *)
(* the lock back.  The thread then returns; the event loop finishes its    *)
(* worker and queues the result for the UI thread in a later step, and     *)
(* another thread may hold the lock in between.                            *)
(***************************************************************************)
LiveSessions ==
    {client, cache, remote.client, remote.cache}
        \cup {m.cache : m \in returning}
        \cup {inbox[i].cache : i \in 1..Len(inbox)}

\* Only a refresh's handler tells one error from another; nothing tells how
\* a sample ended.
Told(k, e) ==
    IF k = "sample" THEN "none"
    ELSE IF k \in {"lists", "mutation"} /\ e # "none" THEN "unavailable" ELSE e

Message(k, e, v, c, d) ==
    [kind |-> k, error |-> Told(k, e), version |-> v, cache |-> c,
     dispatched |-> d,
     op |-> IF k = "mutation" THEN job.op ELSE 0]

\* The lock is given back.  Two equal results of list reads count as one:
\* handling them twice sets the same flag twice.
Finish(k, e, v, c, d) ==
    /\ remote' = NoRemote
    /\ returning' = returning \cup {Message(k, e, v, c, d)}

Fail(k, e) == Finish(k, e, 0, NoSession, FALSE)

\* with self._remote_lock: ... client = self._client
Acquire(k) ==
    /\ waiting[k] > 0 /\ remote.kind = "none"
    /\ waiting' = [waiting EXCEPT ![k] = @ - 1]
    /\ remote' = [kind |-> k, client |-> client, cache |-> NoSession,
                  step |-> IF client = NoSession THEN "config" ELSE "ready"]
    /\ UNCHANGED <<uiVars, applyVars, stateVars, setupVars, configVars,
                   serverVars, job, returning, inbox, client, cache, host,
                   setups>>

\* load_qbit_config: the user env file supplies what os.environ lacks and
\* never replaces what it holds (os.environ.setdefault).
FileLoads == fileHost # NoHost /\ source # "other_file"
LoadedHost == IF environ = NoHost /\ FileLoads THEN fileHost ELSE environ
LoadedCreds == creds \/ FileLoads

ReadConfig(k) ==
    /\ remote.kind = k /\ remote.step = "config"
    /\ environ' = LoadedHost /\ creds' = LoadedCreds
    /\ IF LoadedHost # NoHost /\ LoadedCreds
       THEN remote' = [remote EXCEPT !.step = "login"] /\ UNCHANGED returning
       ELSE Fail(k, "config")
    /\ UNCHANGED <<uiVars, applyVars, stateVars, setupVars, fileExists,
                   fileHost, source, serverVars, waiting, job, inbox,
                   client, cache, host, setups>>

\* create_qbit_client: log in, then self._client = client.
Login(k) ==
    /\ remote.kind = k /\ remote.step = "login"
    /\ \/ \E s \in Session \ LiveSessions :
            /\ HostOf[s] = environ
            /\ client' = s
            /\ remote' = [remote EXCEPT !.step = "ready", !.client = s]
            /\ UNCHANGED returning
       \/ \E e \in {"auth", "unavailable"} : Fail(k, e) /\ UNCHANGED client
    /\ UNCHANGED <<uiVars, applyVars, stateVars, setupVars, configVars,
                   serverVars, waiting, job, inbox, cache, host, setups>>

\* Slip: whether the app still runs is checked before the lock, not under it.
ProceedsAlways(k) == TRUE

\* should_proceed: an Apply whose app ended while it queued is abandoned.
MayProceed(k) == k = "mutation" => running

\* The arguments of the call are read, or the call is abandoned.
Begin(k) ==
    /\ remote.kind = k /\ remote.step = "ready"
    /\ IF MayProceed(k)
       THEN /\ remote' = [remote EXCEPT !.step = "call",
                    !.cache = IF k = "refresh" THEN cache ELSE NoSession]
            /\ UNCHANGED returning
       ELSE Finish(k, "none", 0, NoSession, FALSE)
    /\ UNCHANGED <<uiVars, applyVars, stateVars, setupVars, configVars,
                   serverVars, waiting, job, inbox, client, cache, host,
                   setups>>

CallFailures == {"unavailable", "internal"}

\* collect_tui_refresh: versions found in the cache are carried on verbatim,
\* so its result belongs to the session the cache was first filled from.
CallRefresh ==
    /\ remote.kind = "refresh" /\ remote.step = "call"
    /\ \/ Finish("refresh", "none", server,
                 IF remote.cache = NoSession THEN remote.client
                                             ELSE remote.cache, FALSE)
       \/ \E e \in CallFailures : Fail("refresh", e)
    /\ UNCHANGED <<uiVars, applyVars, stateVars, setupVars, configVars,
                   serverVars, waiting, job, inbox, client, cache, host,
                   setups>>

\* collect_instance_lists, collect_transfer_rates
CallReader(k) ==
    /\ k \in {"lists", "sample"}
    /\ remote.kind = k /\ remote.step = "call"
    /\ \/ Finish(k, "none", 0, NoSession, FALSE)
       \/ \E e \in CallFailures : Fail(k, e)
    /\ UNCHANGED <<uiVars, applyVars, stateVars, setupVars, configVars,
                   serverVars, waiting, job, inbox, client, cache, host,
                   setups>>

\* apply_bulk_torrent_action: nothing is sent for an empty plan; a request
\* whose answer is lost may still have been carried out.
CallMutation ==
    /\ remote.kind = "mutation" /\ remote.step = "call"
    /\ IF job.plan = "empty"
       THEN /\ Finish("mutation", "none", server, NoSession, TRUE)
            /\ UNCHANGED <<server, sends>>
       ELSE /\ sends' = [sends EXCEPT ![job.op] = @ + 1]
            /\ \/ /\ server' = server + 1
                  /\ Finish("mutation", "none", server + 1, NoSession, TRUE)
               \/ /\ server' \in {server, server + 1}
                  /\ \E e \in CallFailures : Fail("mutation", e)
    /\ UNCHANGED <<uiVars, applyVars, stateVars, setupVars, configVars,
                   acked, overtaken, waiting, job, inbox, client, cache, host,
                   setups>>

\* Slip: the refresh body lets its exception out, so the worker ends in ERROR.
PostsUnlessRaised(m) ==
    m.kind # "sample" /\ (m.kind \in {"lists", "refresh"} => m.error = "none")

\* Whether a handler acts on the worker's end: a failed sample or list read
\* ends in WorkerState.ERROR, and a sample that succeeds settles a slot of
\* the rate graph and nothing else.
Posts(m) == m.kind # "sample" /\ (m.kind = "lists" => m.error = "none")

\* The event loop takes a thread's result: the worker is finished and its
\* StateChanged message posted in one step.
Land(k) ==
    \E m \in returning :
        /\ m.kind = k
        /\ returning' = returning \ {m}
        /\ IF Posts(m)
           THEN Len(inbox) < MaxInbox /\ inbox' = Append(inbox, m)
           ELSE UNCHANGED inbox
        /\ job' = IF k = "mutation" THEN NoJob ELSE job
        /\ UNCHANGED <<uiVars, applyVars, stateVars, setupVars, configVars,
                       serverVars, waiting, remote, client, cache, host,
                       setups>>

-----------------------------------------------------------------------------
(* The UI thread takes the oldest result.  Once the app no longer runs the *)
(* handlers return at once.                                                *)
Deliver(k) ==
    /\ inbox # << >> /\ Head(inbox).kind = k
    /\ inbox' = Tail(inbox)

DropResult ==
    /\ ~running
    /\ \E k \in Kind \cup {"setup"} : Deliver(k)
    /\ UNCHANGED <<uiVars, applyVars, stateVars, setupVars, configVars,
                   serverVars, waiting, remote, job, returning, client, cache,
                   host, setups>>

\* apply_refresh_success, then the one-shot read of the instance's lists.
DeliverRefresh ==
    /\ running /\ Deliver("refresh") /\ Head(inbox).error = "none"
    /\ raw' = Head(inbox).version
    /\ cache' = Head(inbox).cache
    /\ haveStatus' = TRUE /\ refreshing' = FALSE
    /\ connection' = "connected" /\ stale' = FALSE /\ fatal' = FALSE
    /\ latch' = TRUE
    /\ waiting' = IF latch THEN waiting ELSE [waiting EXCEPT !["lists"] = @ + 1]
    /\ UNCHANGED <<uiVars, applyVars, listed, setupVars, configVars, serverVars,
                   remote, job, returning, client, host, setups>>

\* apply_refresh_failure; whatever the error, no open preview survives it.
DeliverRefreshFailure ==
    /\ running /\ Deliver("refresh") /\ Head(inbox).error # "none"
    /\ refreshing' = FALSE
    /\ fatal' = (Head(inbox).error = "internal")
    /\ preview' = MarkStale(preview)
    /\ CASE Head(inbox).error = "config" ->
                /\ connection' = "config_failed"
                /\ UNCHANGED <<stale, client, cache>>
         [] Head(inbox).error = "internal" ->
                UNCHANGED <<connection, stale, client, cache>>
         [] OTHER ->
                /\ connection' = IF Head(inbox).error = "auth"
                                 THEN "auth_failed" ELSE "reconnecting"
                /\ stale' = haveStatus
                /\ client' = NoSession /\ cache' = NoSession
    /\ UNCHANGED <<uiVars, lastOp, active, outcome, raw, haveStatus, listed,
                   latch, setupVars, configVars, serverVars, waiting, remote,
                   job, returning, host, setups>>

DeliverLists ==
    /\ running /\ Deliver("lists")
    /\ listed' = TRUE
    /\ UNCHANGED <<uiVars, applyVars, connection, stale, refreshing, raw,
                   haveStatus, latch, fatal, setupVars, configVars, serverVars,
                   waiting, remote, job, returning, client, cache, host, setups>>

\* Slips: PREVIEW is not turned into APPLIED; the error is not looked at.
StatusUnmapped(m) ==
    IF m.error # "none" THEN "error"
    ELSE IF ~m.dispatched THEN "cancelled"
    ELSE IF preview.plan = "empty" THEN "no_changes" ELSE "preview"

StatusOfPlan(m) == IF preview.plan = "empty" THEN "no_changes" ELSE "applied"

\* _classify_mutation_outcome
StatusOf(m) ==
    IF m.error # "none" THEN "error"
    ELSE IF ~m.dispatched THEN "cancelled"
    ELSE IF preview.plan = "empty" THEN "no_changes" ELSE "applied"

\* Slip: a preview hidden behind Help is not handed back.
ThawedOnTopOnly(p) == IF Top("preview") THEN NoPreview ELSE p

\* The preview handed back: popped if it is on top, else thawed and spent.
Thawed(p) == IF Top("preview") THEN NoPreview
             ELSE [p EXCEPT !.applying = FALSE, !.stale = TRUE]

\* A refresh that read before this mutation is still on its way back.
Outrun(v) ==
    \E r \in returning : r.kind = "refresh" /\ r.error = "none" /\ r.version < v

\* The mutation worker's result: report it, hand back the preview that owns
\* it, re-read what an applied mutation may have changed.
DeliverMutation ==
    LET m == Head(inbox)
        status == StatusOf(m)
        more == IF status = "applied" /\ preview.plan = "widen" THEN 1 ELSE 0
    IN  /\ running /\ Deliver("mutation")
        /\ active' = 0
        /\ IF active = 0 \/ m.op # active
           THEN UNCHANGED <<preview, outcome, modal, acked, overtaken, waiting,
                            refreshing>>
           ELSE /\ outcome' = [op |-> lastOp, status |-> status]
                /\ preview' = Thawed(preview)
                /\ modal' = IF Top("preview") THEN "result" ELSE modal
                /\ IF status = "applied"
                   THEN /\ acked' = m.version /\ overtaken' = Outrun(m.version)
                        /\ waiting' = [StartRefresh(waiting)
                                          EXCEPT !["lists"] = @ + more]
                        /\ refreshing' = RefreshFlag
                   ELSE UNCHANGED <<acked, overtaken, waiting, refreshing>>
        /\ UNCHANGED <<running, started, needsSetup, help, lastOp, connection,
                       stale, raw, haveStatus, listed, latch, fatal, setupVars,
                       configVars, server, sends, remote, job, returning,
                       client, cache, host, setups>>

-----------------------------------------------------------------------------
(* The connection form. *)

\* _complete_setup once the file is written: reset_connection, pop the top
\* screen, start refreshing (or refresh at once if the timers exist).
SetupDone(h) ==
    /\ fileExists' = TRUE /\ fileHost' = h /\ host' = h
    /\ client' = NoSession /\ cache' = NoSession /\ latch' = FALSE
    /\ needsSetup' = FALSE /\ started' = TRUE
    /\ help' = FALSE
    /\ modal' = IF help THEN modal ELSE "none"
    /\ waiting' = IF ~started /\ CanStartSample
                  THEN [StartRefresh(waiting) EXCEPT !["sample"] = 1]
                  ELSE StartRefresh(waiting)
    /\ refreshing' = RefreshFlag
    /\ overtaken' = (overtaken /\ ~CanStartRefresh)
    /\ setups' = setups + 1
    /\ UNCHANGED confirming

\* _complete_setup when the file cannot be written: a message on the form.
SetupUnwritten ==
    /\ confirming' = FALSE
    /\ UNCHANGED <<fileExists, fileHost, host, client, cache, latch, needsSetup,
                   started, help, modal, waiting, refreshing, overtaken, setups>>

\* submit_setup: a confirmed form writes at once, another is tested first.
SubmitSetup(h) ==
    /\ running /\ Top("setup") /\ setups < MaxSetups
    /\ \/ /\ confirming
          /\ SetupDone(h) \/ SetupUnwritten
          /\ UNCHANGED <<setupCfg, setupTest>>
       \/ /\ ~confirming /\ setupTest = "idle"
          /\ setupCfg' = h /\ setupTest' = "started"
          /\ UNCHANGED <<confirming, fileExists, fileHost, host, client, cache,
                         latch, needsSetup, started, help, modal, waiting,
                         refreshing, overtaken, setups>>
    /\ UNCHANGED <<running, applyVars, connection, stale, raw, haveStatus,
                   listed, fatal, source, environ, creds, server, sends, acked,
                   remote, job, returning, inbox>>

\* _setup_worker_body: the thread reads _setup_config when it starts, and ends
\* in WorkerState.ERROR if Escape cleared it first; else it tries one login.
SetupThread ==
    /\ \/ /\ setupTest = "started"
          /\ setupTest' = IF setupCfg = NoHost THEN "idle" ELSE "testing"
          /\ UNCHANGED inbox
       \/ /\ setupTest = "testing" /\ Len(inbox) < MaxInbox
          /\ setupTest' = "idle"
          /\ \E e \in {"none", "unavailable"} :
                inbox' = Append(inbox,
                                Message("setup", e, 0, NoSession, FALSE))
    /\ UNCHANGED <<uiVars, applyVars, stateVars, confirming, setupCfg,
                   configVars, serverVars, waiting, remote, job, returning,
                   client, cache, host, setups>>

DeliverSetup ==
    /\ running /\ Deliver("setup")
    /\ IF modal = "setup" /\ setupCfg # NoHost
       THEN IF Head(inbox).error # "none" \/ fileExists
            THEN /\ confirming' = TRUE
                 /\ UNCHANGED <<fileExists, fileHost, host, client, cache,
                                latch, needsSetup, started, help, modal,
                                waiting, refreshing, overtaken, setups>>
            ELSE SetupDone(setupCfg) \/ SetupUnwritten
       ELSE UNCHANGED <<confirming, fileExists, fileHost, host, client, cache,
                        latch, needsSetup, started, help, modal, waiting,
                        refreshing, overtaken, setups>>
    /\ UNCHANGED <<running, applyVars, connection, stale, raw, haveStatus,
                   listed, fatal, setupCfg, setupTest, source, environ, creds,
                   server, sends, acked, remote, job, returning>>

-----------------------------------------------------------------------------
Operator ==
    \/ \E m \in {"actions", "overlay"} : OpenScreen(m)
    \/ Reconfigure \/ ToggleHelp \/ Dismiss \/ Quit
    \/ \E p \in Plan : OpenPreview(p)
    \/ ApplyPlan
    \/ \E h \in Host : SubmitSetup(h)

Remote(k) ==
    Acquire(k) \/ ReadConfig(k) \/ Login(k) \/ Begin(k) \/ CallReader(k)

Worker ==
    \/ \E k \in Kind : Remote(k) \/ Land(k)
    \/ CallRefresh \/ CallMutation \/ SetupThread

Handler ==
    \/ DropResult \/ DeliverRefresh \/ DeliverRefreshFailure \/ DeliverLists
    \/ DeliverMutation \/ DeliverSetup

Next == Operator \/ PeriodicTick \/ SampleTick \/ Worker \/ Handler

Spec == Init /\ [][Next]_vars

\* Threads run, calls return, the event loop finishes the workers, the UI
\* thread empties its queue, and a thread that queues for the lock gets it
\* although samples keep taking it.
Fairness ==
    /\ \A k \in Kind : /\ SF_vars(Acquire(k))
                       /\ WF_vars(ReadConfig(k) \/ Login(k) \/ Begin(k)
                                                \/ CallReader(k) \/ Land(k))
    /\ WF_vars(CallRefresh) /\ WF_vars(CallMutation)
    /\ WF_vars(Handler)

FairSpec == Spec /\ Fairness

-----------------------------------------------------------------------------
(* What is claimed of the session. *)

Sessions == Session \cup {NoSession}
Messages == [kind: Kind \cup {"setup"}, error: Error \cup {"none"},
             version: Nat, cache: Sessions, dispatched: BOOLEAN, op: Nat]
Previews == [op: Nat, plan: Plan, stale: BOOLEAN, applying: BOOLEAN]
Remotes == [kind: Kind \cup {"none"}, client: Sessions, cache: Sessions,
            step: {"free", "config", "login", "ready", "call"}]
Jobs == [op: Nat, plan: Plan]

\* The type invariant: what each field of the app and the controller may hold.
TypeOK ==
    /\ running \in BOOLEAN /\ started \in BOOLEAN /\ needsSetup \in BOOLEAN
    /\ modal \in Modal /\ help \in BOOLEAN
    /\ preview \in Previews
    /\ lastOp \in 0..MaxOps /\ active \in Nat
    /\ outcome \in [op: Nat, status: Status]
    /\ connection \in Connection /\ stale \in BOOLEAN /\ refreshing \in BOOLEAN
    /\ raw \in Nat /\ haveStatus \in BOOLEAN /\ listed \in BOOLEAN
    /\ latch \in BOOLEAN /\ fatal \in BOOLEAN
    /\ client \in Sessions /\ cache \in Sessions
    /\ waiting \in [Kind -> Nat]
    /\ remote \in Remotes /\ job \in Jobs
    /\ returning \in SUBSET Messages /\ inbox \in Seq(Messages)
    /\ confirming \in BOOLEAN /\ setupCfg \in Host \cup {NoHost}
    /\ setupTest \in {"idle", "started", "testing"}
    /\ fileExists \in BOOLEAN /\ fileHost \in Host \cup {NoHost}
    /\ source \in Source
    /\ environ \in Host \cup {NoHost} /\ creds \in BOOLEAN
    /\ host \in Host \cup {NoHost} /\ setups \in Nat
    /\ server \in Nat /\ sends \in [Ops -> Nat] /\ acked \in Nat
    /\ overtaken \in BOOLEAN

\* The mutation worker has not finished, or its result is not yet handled.
Reported == \A i \in 1..Len(inbox) : inbox[i].kind # "mutation"
Outstanding == ~Finished("mutation") \/ ~Reported

(***************************************************************************)
(* While the app runs, the Preview is frozen ("applying") exactly while a  *)
(* mutation is outstanding, and that mutation is its own.  Were it frozen  *)
(* with nothing outstanding, neither Escape nor Cancel would ever close it *)
(* again; were it thawed with one outstanding, Apply could run twice.      *)
(***************************************************************************)
ApplyingIffOutstanding ==
    running => /\ Outstanding <=> preview.applying
               /\ Outstanding => /\ modal = "preview"
                                 /\ active = preview.op /\ active = lastOp
               /\ ~Finished("mutation") =>
                     job = [op |-> active, plan |-> preview.plan]

(***************************************************************************)
(* The connection form never opens, and a reconfigure never completes,     *)
(* while a mutation is queued, in flight or unreported (action_reconfigure:*)
(* "it can never race a mutation applying from PreviewScreen").            *)
(***************************************************************************)
ReconfigureExcludesMutation == modal = "setup" => ~Outstanding

(***************************************************************************)
(* What the operator is told an operation did is what it did: "applied"    *)
(* was sent exactly once, "cancelled" and "no changes" were never sent.    *)
(***************************************************************************)
OutcomeIsTruthful ==
    /\ outcome.status = "applied" => sends[outcome.op] = 1
    /\ outcome.status \in {"cancelled", "no_changes"} => sends[outcome.op] = 0

(***************************************************************************)
(* A Preview that still offers Apply is over a live connection and a       *)
(* listing no failed refresh has put in doubt: every recognised failure    *)
(* reaches it even behind another screen (_refresh_preview_freshness).     *)
(***************************************************************************)
LivePreviewIsFresh ==
    (running /\ modal = "preview" /\ CanApply)
        => Fresh(connection, stale)

(***************************************************************************)
(* A mutation reported applied is read back: while the screen looks        *)
(* healthy and its listing predates that mutation, a refresh that will see *)
(* it is queued, in flight or delivered but not handled.  The exception is *)
(* a report that outruns an older refresh on its way back from its thread: *)
(* _start_periodic_refresh takes it for a refresh in flight and drops the  *)
(* re-read (app.py 462), and only the next tick's refresh repairs that.    *)
(***************************************************************************)
AppliedIsReread ==
    (running /\ Fresh(connection, stale) /\ ~fatal /\ raw < acked /\ ~overtaken)
        => \/ ~Finished("refresh")
           \/ \E i \in 1..Len(inbox) :
                 /\ inbox[i].kind = "refresh"
                 /\ inbox[i].error # "none" \/ inbox[i].version >= acked

(***************************************************************************)
(* PreviewScreen: "Staleness is sticky ... Recovery never re-enables it".  *)
(***************************************************************************)
StalenessIsSticky ==
    [][(preview.stale /\ preview'.op = preview.op) => preview'.stale]_vars

(***************************************************************************)
(* The inductive strengthening of the claims about Apply.  The Preview on  *)
(* the stack is the last operation; one mutation is queued, in flight or   *)
(* reported at a time; it is the one the frozen Preview waits for; and it  *)
(* has not been sent before.                                               *)
(***************************************************************************)
PreviewIsShown ==
    /\ modal = "preview" <=> preview.op # 0
    /\ preview.op # 0 => preview.op = lastOp
    /\ preview.op = 0 => ~preview.applying

OneMutation ==
    /\ waiting["mutation"] \in {0, 1}
    /\ waiting["mutation"] = 1 => remote.kind # "mutation"
    /\ AtLock("mutation") => \A m \in returning : m.kind # "mutation"
    /\ \A m, n \in returning :
          (m.kind = "mutation" /\ n.kind = "mutation") => m = n
    /\ ~Finished("mutation") => Reported
    /\ \A i, j \in 1..Len(inbox) :
          (inbox[i].kind = "mutation" /\ inbox[j].kind = "mutation") => i = j

MutationIsOwned ==
    /\ Outstanding => preview.applying /\ active = lastOp
    /\ ~Finished("mutation") => job = [op |-> preview.op, plan |-> preview.plan]
    /\ \A m \in returning : m.kind = "mutation" => m.op = active
    /\ \A i \in 1..Len(inbox) : inbox[i].kind = "mutation" => inbox[i].op = active
    /\ (running /\ preview.applying) => Outstanding

SentAtMostOnce ==
    /\ \A o \in Ops :
          /\ sends[o] \in {0, 1}
          /\ sends[o] = 1 => o <= lastOp
          /\ (sends[o] = 1 /\ o = preview.op) => preview.applying \/ preview.stale
    /\ AtLock("mutation") => sends[job.op] = 0

ApplyInv == PreviewIsShown /\ OneMutation /\ MutationIsOwned /\ SentAtMostOnce

(***************************************************************************)
(* Seen through the open Preview, the call in hand and what was sent, the  *)
(* session implements ApplyOnce: however screens, refreshes, the lock and  *)
(* the app's end interleave, an operation is sent at most once, only after *)
(* its own Apply and before its answer, and no call begins once the app    *)
(* has quit, however long the mutation queued.                             *)
(***************************************************************************)
StageOf(o) ==
    IF o > lastOp THEN "unborn"
    ELSE IF o # preview.op THEN "closed"
    ELSE IF preview.applying THEN "applying"
    ELSE IF preview.stale THEN "stale" ELSE "offered"

\* The operation whose call to qBittorrent has begun, if any.
Calling == IF remote.kind = "mutation" /\ remote.step = "call" THEN job.op ELSE 0

Promise == INSTANCE ApplyOnce WITH
    stage <- [o \in Ops |-> StageOf(o)], calling <- Calling, alive <- running

ImplementsApplyOnce == Promise!Spec

(***************************************************************************)
(* An Apply is always answered unless the app stops: the Preview thaws,    *)
(* whatever queues before the mutation at the remote lock.                 *)
(***************************************************************************)
ApplyIsAnswered == preview.applying ~> (~preview.applying \/ ~running)

(***************************************************************************)
(* The "refreshing" mark never sticks: each refresh ends it.               *)
(***************************************************************************)
RefreshingSettles == refreshing ~> (~refreshing \/ ~running)

-----------------------------------------------------------------------------
(* What the source says of the session and the code does not keep. *)

(***************************************************************************)
(* test_reconfiguring_a_running_tui_talks_to_the_new_instance: the client  *)
(* in hand is logged in to the host the session was last pointed at, with  *)
(* no source outranking the user env file.                                 *)
(***************************************************************************)
ClientFollowsHost ==
    (client # NoSession /\ source = "user_file") => HostOf[client] = host

(***************************************************************************)
(* TuiRefreshCache: "A caller must throw this away -- not reuse it --      *)
(* across a reconnection": a refresh about to run carries versions and a   *)
(* delta cursor of its own connection, or none.                            *)
(***************************************************************************)
CacheIsOfThisConnection ==
    remote.cache # NoSession => remote.cache = remote.client
=============================================================================
