--------------------------- MODULE ClientSessions ---------------------------
(***************************************************************************)
(* The two surfaces that keep a qBittorrent client beyond one answer: the  *)
(* MCP server (qbit_ops.mcp.server), whose tools run on threads of their   *)
(* own and share one client, and status --watch (commands/status.py).      *)
(*                                                                         *)
(* A client is the server's session it logged in to.  qBittorrent goes     *)
(* down and up, and loses its sessions (an idle timeout, a restart); a     *)
(* client of a lost session gets only failures.                            *)
(***************************************************************************)
EXTENDS Naturals

CONSTANTS
    Calls,      \* MCP tool calls
    None,       \* no client
    MaxLosses   \* bound: outages and lost sessions

ASSUME SessionAssumption == MaxLosses \in Nat /\ None \notin Nat

VARIABLES
    up,         \* qBittorrent answers
    session,    \* the session clients log in to now
    losses,     \* outages and lost sessions so far
    cached,     \* _cached_client
    phase,      \* of each call: idle, getting, running, failing, regetting,
                \*   rerunning, answered, refused, raised
    client,     \* the client each call works with
    troubled,   \* the calls that met an outage or a loss while they ran
    watching,   \* the watch loop runs
    watcher,    \* _WatchClient's client
    shown       \* the watch's last snapshot: none, connected, unavailable

instance == <<up, session, losses>>
served == <<cached, phase, client, troubled>>
watch == <<watching, watcher, shown>>
sessions == <<instance, served, watch>>

SessionsInit ==
    /\ up \in BOOLEAN /\ session = 0 /\ losses = 0
    /\ cached = None /\ phase = [c \in Calls |-> "idle"]
    /\ client = [c \in Calls |-> None] /\ troubled = {}
    /\ watching = FALSE /\ watcher = None /\ shown = "none"

Works(c) == up /\ c = session

\* Calls between their first request and their answer
Ongoing == {c \in Calls : phase[c] \in
               {"getting", "running", "failing", "regetting", "rerunning"}}

-----------------------------------------------------------------------------
(* qBittorrent. *)

Trouble(isUp, current) ==
    /\ losses < MaxLosses /\ losses' = losses + 1
    /\ up' = isUp /\ session' = current
    /\ troubled' = troubled \cup Ongoing
    /\ UNCHANGED <<cached, phase, client, watch>>

\* An outage takes the sessions with it.
GoDown == up /\ Trouble(FALSE, session + 1)
LoseSessions == up /\ Trouble(TRUE, session + 1)
ComeBack == ~up /\ up' = TRUE /\ UNCHANGED <<session, losses, served, watch>>

-----------------------------------------------------------------------------
(* _call.  A login, like any request, may find qBittorrent down. *)

Goes(c, to) == phase' = [phase EXCEPT ![c] = to]

Call(c) ==
    /\ phase[c] = "idle"
    /\ Goes(c, "getting")
    /\ troubled' = IF up THEN troubled ELSE troubled \cup {c}
    /\ UNCHANGED <<instance, cached, client, watch>>

\* _client, under the lock: the cached client, or a login that is cached.
GetAs(c, from, to, otherwise) ==
    /\ phase[c] = from
    /\ \/ /\ cached # None
          /\ client' = [client EXCEPT ![c] = cached] /\ Goes(c, to)
          /\ UNCHANGED cached
       \/ /\ cached = None /\ up
          /\ cached' = session /\ client' = [client EXCEPT ![c] = session]
          /\ Goes(c, to)
       \/ /\ cached = None /\ ~up
          /\ Goes(c, otherwise) /\ UNCHANGED <<cached, client>>
    /\ UNCHANGED <<instance, troubled, watch>>

Get(c) == GetAs(c, "getting", "running", "failing")
GetAgain(c) == GetAs(c, "regetting", "rerunning", "raised")

\* The tool answers, or refuses its arguments.
Answered(c) ==
    /\ phase[c] \in {"running", "rerunning"}
    /\ \/ Works(client[c]) /\ Goes(c, "answered")
       \/ Goes(c, "refused")
    /\ UNCHANGED <<instance, cached, client, troubled, watch>>

\* One of its requests fails.
Fails(c) ==
    /\ \/ phase[c] = "running" /\ Goes(c, "failing")
       \/ phase[c] = "rerunning" /\ Goes(c, "raised")
    /\ ~Works(client[c])
    /\ UNCHANGED <<instance, cached, client, troubled, watch>>

\* Slip: the retry finds the client that has just failed.
KeepClient(c) ==
    /\ phase[c] = "failing" /\ Goes(c, "regetting")
    /\ UNCHANGED <<instance, cached, client, troubled, watch>>

\* _drop_client, whoever's client is cached by now
Drop(c) ==
    /\ phase[c] = "failing" /\ Goes(c, "regetting")
    /\ cached' = None
    /\ UNCHANGED <<instance, client, troubled, watch>>

Forget(c) ==
    /\ phase[c] \in {"answered", "refused", "raised"}
    /\ Goes(c, "idle")
    /\ client' = [client EXCEPT ![c] = None] /\ troubled' = troubled \ {c}
    /\ UNCHANGED <<instance, cached, watch>>

Tool(c) == Get(c) \/ GetAgain(c) \/ Answered(c) \/ Fails(c) \/ Drop(c)

-----------------------------------------------------------------------------
(* status --watch *)

WatchStarts ==
    /\ ~watching /\ shown = "none" /\ watching' = TRUE
    /\ UNCHANGED <<instance, served, watcher, shown>>

\* _WatchClient.get
WatchConnects ==
    /\ watching /\ watcher = None
    /\ IF up THEN watcher' = session /\ UNCHANGED shown
       ELSE shown' = "unavailable" /\ UNCHANGED watcher
    /\ UNCHANGED <<instance, served, watching>>

\* Slip: a client that fails is kept.
WatchKeeps ==
    /\ watching /\ watcher # None
    /\ shown' = IF Works(watcher) THEN "connected" ELSE "unavailable"
    /\ UNCHANGED <<instance, served, watching, watcher>>

\* One cycle's requests: a snapshot, or unavailable and the client dropped
WatchCollects ==
    /\ watching /\ watcher # None
    /\ IF Works(watcher)
       THEN shown' = "connected" /\ UNCHANGED watcher
       ELSE shown' = "unavailable" /\ watcher' = None
    /\ UNCHANGED <<instance, served, watching>>

\* Ctrl-C
WatchStops ==
    /\ watching /\ watching' = FALSE
    /\ UNCHANGED <<instance, served, watcher, shown>>

-----------------------------------------------------------------------------
Instance == GoDown \/ LoseSessions \/ ComeBack
Served == \E c \in Calls : Call(c) \/ Tool(c) \/ Forget(c)
Watched == WatchStarts \/ WatchConnects \/ WatchCollects \/ WatchStops

SessionsNext == Instance \/ Served \/ Watched

\* The watch loop runs on until it is interrupted; so does a call once made.
SessionsFairness ==
    /\ WF_sessions(WatchConnects) /\ WF_sessions(WatchCollects)
    /\ \A c \in Calls : WF_sessions(Tool(c))

SessionsSpec == SessionsInit /\ [][SessionsNext]_sessions /\ SessionsFairness

SessionsTypeOK ==
    /\ up \in BOOLEAN /\ session \in Nat /\ losses \in 0..MaxLosses
    /\ cached \in Nat \cup {None}
    /\ phase \in [Calls -> {"idle", "getting", "running", "failing",
                            "regetting", "rerunning", "answered", "refused",
                            "raised"}]
    /\ client \in [Calls -> Nat \cup {None}] /\ troubled \subseteq Calls
    /\ watching \in BOOLEAN /\ watcher \in Nat \cup {None}
    /\ shown \in {"none", "connected", "unavailable"}

(***************************************************************************)
(* A call fails only on what happened while it ran: one whose client had   *)
(* died before it, the whole idle night before, is answered by its retry,  *)
(* whatever the other calls make of the client they share.                 *)
(***************************************************************************)
RetryIsEnough == \A c \in Calls : phase[c] = "raised" => c \in troubled

\* Once qBittorrent is back for good, a watch left running shows it
\* connected: a dead client is never what the next cycle works with.
WatchRecovers == <>[](up /\ watching) => <>[](shown = "connected")
=============================================================================
