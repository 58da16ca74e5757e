---------------------------- MODULE ReadCommands ----------------------------
(***************************************************************************)
(* The commands that only read, from their options to their exit code,     *)
(* while the library changes and qBittorrent comes and goes; and, beside   *)
(* them, the MCP server and status --watch (ClientSessions).               *)
(*                                                                         *)
(*   commands   qbit_ops.cli.commands.torrents, .trackers, .status,        *)
(*              .doctor, .explain, .backup                                 *)
(*   reads      qbit_core.features.*, qbit_core.shared.inspection          *)
(*                                                                         *)
(* A command logs in, makes its requests one at a time and answers from    *)
(* what it got.  What a failed request does depends on who made it.        *)
(***************************************************************************)
EXTENDS Diagnosis, ClientSessions

CONSTANTS
    NoCmd,
    Libraries,    \* the libraries an instance may hold
    Filters,      \* the filters options may build
    HashPrefixes,     \* what --hash may be given
    Queries,      \* what search may be given, and its mode
    Hosts,        \* what --tracker may be given
    Configs,      \* how the host may be configured
    Versions,     \* <<qBittorrent, Web API>> an instance may report
    MaxChanges    \* bound: changes of the library during a behaviour

Operations ==
    {"list", "stats", "search", "inspect_filtered", "inspect_hash", "categories",
     "status", "doctor", "trackers_list", "trackers_status", "trackers_inspect",
     "trackers_export", "explain_torrent", "explain_tracker", "backup"}

\* What may be asked for
Command ==
    [op : Operations,
     request : [hash : HashPrefixes \cup {NoHash}, all : BOOLEAN,
                filters : Filters \cup {EmptyFilter} \cup {Only(h) : h \in Hosts}],
     tracker : Hosts \cup {NoHost}, host : Configs \cup {"plain"},
     query : Queries \cup {Unset}]

\* A listed torrent has a name and a set of trackers; a filter has the fields of
\* the empty one, and asks for no value that stands for the lack of one.
ASSUME ReadAssumption ==
    /\ MaxChanges \in Nat /\ NoCmd \notin Command
    /\ Unknown # Unset /\ Unknown # "ok" /\ Unknown \notin BOOLEAN
    /\ Unset \notin BOOLEAN /\ Unset \notin Nat /\ IsFiniteSet(Torrents)
    /\ \A q \in Queries : q.mode \in DOMAIN Ladder
    /\ Unknown \notin Libraries
    /\ \A l \in Libraries : /\ DOMAIN l \subseteq Torrents
                            /\ \A t \in DOMAIN l : /\ l[t].trackers # Unknown
                                                  /\ l[t].name \in Seq(Nat)
    /\ \A f \in Filters :
           /\ f = [c \in DOMAIN EmptyFilter |-> f[c]]
           /\ f.private \in BOOLEAN \cup {Unset}
           /\ f.tracker_health \subseteq
                  {"healthy", "warning", "critical", "disabled", "unknown"}

VARIABLES
    lib,       \* what qBittorrent holds: torrents to their records
    release,   \* <<version, api>> of qBittorrent
    cmd,       \* the command and its options
    pc,        \* idle, reading, done
    mine,      \* the session the command logged in to
    requests,  \* the requests still to make, in order
    lookups,   \* the torrents whose trackers are still to be asked for
    got,       \* what requests brought: login, version, api, transfer, listing
    reading,   \* the trackers read, Unknown where the lookup failed
    answer,    \* the torrents reported
    exit,
    seen,      \* the libraries there were while the command ran
    changes    \* how many times the library changed

command == <<cmd, pc, mine, requests, lookups, got, reading, answer, exit>>
world == <<lib, release, seen, changes>>
vars == <<sessions, command, world>>

Nothing == [login |-> Unknown, version |-> Unknown, api |-> Unknown,
            transfer |-> Unknown, listing |-> Unknown, counters |-> Unknown,
            exported |-> Unknown]

\* A command may be given on any library.
InitOn ==
    /\ SessionsInit
    /\ cmd = NoCmd /\ pc = "idle" /\ mine = None
    /\ requests = << >> /\ lookups = {} /\ got = Nothing
    /\ reading = << >> /\ answer = {} /\ exit = 0
    /\ seen = {} /\ changes = 0

Init == lib \in Libraries /\ release \in Versions /\ InitOn

Error == 1
NoMatch == 2
InvalidUsage == 4

-----------------------------------------------------------------------------
(* The commands. *)

Cmd(op) == [op |-> op, request |-> Request(NoHash, FALSE, EmptyFilter),
            tracker |-> NoHost, host |-> "plain", query |-> Unset]

ByFilter(op, f) == [Cmd(op) EXCEPT !.request.filters = f]
ByHash(op, prefix) == [Cmd(op) EXCEPT !.request.hash = prefix]
OnTracker(op, host) ==
    [Cmd(op) EXCEPT !.tracker = host, !.request.filters = Only(host)]

\* The requests a command makes, but for the trackers that it looks up torrent
\* by torrent after a listing
RequestsOf(c) ==
    CASE c.op = "status" -> <<"login", "version", "api", "transfer", "listing">>
      [] c.op = "doctor" -> <<"login", "version", "api", "listing", "transfer">>
      [] c.op = "stats" /\ ~HasSelector(c.request) -> <<"login", "counters", "listing">>
      [] c.op = "backup" -> <<"login", "version", "api", "listing", "listing_again">>
      [] OTHER -> <<"login", "listing">>

Submit(c) ==
    /\ pc = "idle" /\ cmd' = c
    /\ pc' = "reading" /\ requests' = RequestsOf(c)
    /\ seen' = {lib}
    /\ UNCHANGED <<sessions, mine, lookups, got, reading, answer, exit,
                   lib, release, changes>>

List == \E f \in Filters : ~Rejected(f) /\ Submit(ByFilter("list", f))
Stats ==
    \/ \E f \in Filters : ~Rejected(f) /\ Submit(ByFilter("stats", f))
    \/ \E p \in HashPrefixes : Submit(ByHash("stats", p))
    \/ Submit([Cmd("stats") EXCEPT !.request.all = TRUE])
Search ==
    \E f \in Filters, q \in Queries :
        /\ ~Rejected(f) /\ ~NeedsInspection(f)
        /\ Submit([ByFilter("search", f) EXCEPT !.query = q])
InspectFiltered ==
    \E f \in Filters :
        ~Rejected(f) /\ f # EmptyFilter /\ Submit(ByFilter("inspect_filtered", f))
InspectHash == \E p \in HashPrefixes : Submit(ByHash("inspect_hash", p))
CategoryUsage == Submit(Cmd("categories"))
Status == Submit(Cmd("status"))
Doctor == \E h \in Configs : Submit([Cmd("doctor") EXCEPT !.host = h])
TrackersList ==
    \E f \in Filters : ~Rejected(f) /\ f.trackers_excluded = {}
                       /\ Submit(ByFilter("trackers_list", f))
TrackersStatus ==
    \E f \in Filters : ~Rejected(f) /\ f.trackers_excluded = {}
                       /\ f.tracker_health = {}
                       /\ Submit(ByFilter("trackers_status", f))
TrackersInspect == \E h \in Hosts : Submit(OnTracker("trackers_inspect", h))
TrackersExport == Submit(Cmd("trackers_export"))
ExplainTorrent == \E p \in HashPrefixes : Submit(ByHash("explain_torrent", p))
ExplainTracker == \E h \in Hosts : Submit(OnTracker("explain_tracker", h))
BackupExport == Submit(Cmd("backup"))

\* Options refused before a request is made, but for a login
Refuse ==
    /\ pc = "idle"
    /\ \/ \E f \in Filters, op \in {"list", "stats", "trackers_status"} :
              Rejected(f) /\ cmd' = ByFilter(op, f)
       \/ \E f \in Filters : NeedsInspection(f) /\ cmd' = ByFilter("search", f)
       \/ cmd' = Cmd("inspect_filtered")
       \/ \E f \in Filters, p \in HashPrefixes :
              /\ Unsafe(Request(p, FALSE, f))
              /\ cmd' = [Cmd("stats") EXCEPT !.request = Request(p, FALSE, f)]
    /\ pc' = "done"
    /\ exit' = IF cmd'.op = "trackers_status" THEN InvalidUsage ELSE Error
    /\ UNCHANGED <<sessions, mine, requests, lookups, got, reading, answer, world>>

-----------------------------------------------------------------------------
(* Requests. *)

Pending(request) == requests # << >> /\ Head(requests) = request
Leave(code) == pc' = "done" /\ exit' = code

Reaches == up /\ mine = session

Filter == cmd.request.filters
Selected == IF cmd.request.hash # NoHash
            THEN Resolve(got.listing, cmd.request.hash)
            ELSE Candidates(got.listing, Filter)

\* The operations that look at trackers, and how: in the listing itself, by
\* one bulk request for what was selected, or torrent by torrent only
InListing == {"trackers_inspect", "trackers_export"}
InBulk(c) ==
    \/ c.op \in {"trackers_list", "trackers_status", "explain_tracker"}
    \/ c.op \in {"list", "stats"} /\ NeedsInspection(c.request.filters)
OneByOne == {"inspect_filtered", "inspect_hash", "explain_torrent", "backup"}

\* The torrents whose trackers are asked for; a hash that is ambiguous or
\* names nothing ends the command before.
ToLookUp(c, listing) ==
    IF c.request.hash # NoHash
    THEN IF c.op = "stats" \/ Ambiguous(listing, c.request.hash) THEN {}
         ELSE Resolve(listing, c.request.hash)
    ELSE IF InBulk(c) \/ c.op \in OneByOne \cup InListing
         THEN Candidates(listing, IF c.op \in InListing THEN EmptyFilter
                                  ELSE Cheap(c.request.filters))
    ELSE {}

\* Trackers that come with a listing, or not: an older qBittorrent ignores
\* the parameter.
MayEmbed(wanted) ==
    \/ lookups' = wanted /\ UNCHANGED reading
    \/ /\ lookups' = wanted \ DOMAIN lib
       /\ reading' = [t \in wanted \cap DOMAIN lib |-> lib[t].trackers]

Login ==
    /\ pc = "reading" /\ Pending("login")
    /\ up /\ cmd.host \notin {"none", "malformed"}
    /\ mine' = session /\ got' = [got EXCEPT !.login = "ok"]
    /\ requests' = Tail(requests)
    /\ UNCHANGED <<sessions, cmd, pc, lookups, reading, answer, exit, world>>

ReadListing ==
    /\ pc = "reading" /\ Pending("listing")
    /\ Reaches
    /\ got' = [got EXCEPT !.listing = lib]
    /\ LET wanted == ToLookUp(cmd, lib) IN
       IF cmd.op \in InListing THEN MayEmbed(wanted)
       ELSE lookups' = wanted /\ UNCHANGED reading
    /\ requests' = IF InBulk(cmd) /\ lookups' # {}
                   THEN <<"bulk">> \o Tail(requests) ELSE Tail(requests)
    /\ UNCHANGED <<sessions, cmd, pc, mine, answer, exit, world>>

\* _fetch_trackers_in_bulk
ReadInBulk ==
    /\ pc = "reading" /\ Pending("bulk")
    /\ Reaches /\ MayEmbed(lookups)
    /\ requests' = Tail(requests)
    /\ UNCHANGED <<sessions, cmd, pc, mine, got, answer, exit, world>>

\* The reading with what one more lookup brought
Recorded(t, trackers) ==
    [u \in DOMAIN reading \cup {t} |-> IF u = t THEN trackers ELSE reading[u]]

LookUp ==
    /\ pc = "reading" /\ Reaches
    /\ ~Pending("bulk")
    /\ \E t \in lookups \cap DOMAIN lib :
           /\ reading' = Recorded(t, lib[t].trackers)
           /\ lookups' = lookups \ {t}
    /\ UNCHANGED <<sessions, cmd, pc, mine, requests, got, answer, exit, world>>

\* backup export has its torrents; its tracker_usage is a reading of its own.
ReadAgain ==
    /\ pc = "reading" /\ lookups = {}
    /\ Pending("listing_again")
    /\ Reaches
    /\ got' = [got EXCEPT !.exported = Normalized(reading)]
    /\ \/ lookups' = DOMAIN lib /\ reading' = << >>
       \/ lookups' = {} /\ reading' = [t \in DOMAIN lib |-> lib[t].trackers]
    /\ requests' = Tail(requests)
    /\ UNCHANGED <<sessions, cmd, pc, mine, answer, exit, world>>

ReadValue ==
    /\ pc = "reading" /\ requests # << >>
    /\ Head(requests) \in {"version", "api", "transfer", "counters"}
    /\ Reaches
    /\ got' = [got EXCEPT ![Head(requests)] =
           CASE Head(requests) = "version" -> release[1]
             [] Head(requests) = "api" -> release[2] [] OTHER -> "ok"]
    /\ requests' = Tail(requests)
    /\ UNCHANGED <<sessions, cmd, pc, mine, lookups, reading, answer, exit, world>>

\* What a command survives: doctor everything, status and backup the versions,
\* and every command its bulk request
Tolerates(c, request) ==
    \/ c.op = "doctor" \/ request = "bulk"
    \/ c.op \in {"status", "backup"} /\ request \in {"version", "api"}

\* A request fails: a connection error, a refused login, a bad configuration.
\* doctor makes no more once its login has failed; status says unavailable.
RequestFails ==
    /\ pc = "reading" /\ requests # << >>
    /\ lookups = {} \/ Head(requests) = "bulk"
    /\ Head(requests) = "login" \/ ~Reaches
    /\ IF Tolerates(cmd, Head(requests))
       THEN /\ requests' = IF Head(requests) = "login" THEN << >>
                           ELSE Tail(requests)
            /\ IF Head(requests) = "login"
               THEN got' \in {[got EXCEPT !.login = o] : o \in
                       IF up /\ cmd.host \notin {"none", "malformed"}
                       THEN {"refused"} ELSE {"unreachable"}}
               ELSE UNCHANGED got
            /\ UNCHANGED <<pc, exit>>
       ELSE /\ Leave(IF cmd.op = "status" THEN HealthExit("unavailable") ELSE Error)
            /\ UNCHANGED <<requests, got>>
    /\ UNCHANGED <<sessions, cmd, mine, lookups, reading, answer, world>>

\* A report says which lookups failed; a selection must not guess.
ToleratesLookup(c) ==
    c.op \in {"trackers_list", "trackers_status", "explain_tracker", "explain_torrent"}

\* torrents_trackers raises, as it does for a torrent that is gone.
LookUpFails ==
    /\ pc = "reading"
    /\ ~Pending("bulk")
    /\ \E t \in lookups :
           /\ ~Reaches \/ t \notin DOMAIN lib
           /\ IF ToleratesLookup(cmd)
              THEN /\ reading' = Recorded(t, Unknown)
                   /\ lookups' = lookups \ {t} /\ UNCHANGED <<pc, exit>>
              ELSE Leave(Error) /\ UNCHANGED <<reading, lookups>>
    /\ UNCHANGED <<sessions, cmd, mine, requests, got, answer, world>>

-----------------------------------------------------------------------------
(* Answers. *)

\* What the trackers read leave of a selection
Narrowed(f) ==
    {t \in DOMAIN reading : MatchesHosts(f, reading[t]) /\ MatchesHealth(f, reading[t])}

\* A search asks for more than its filters do.
Asked(t, item) == cmd.op = "search" => TierOf(cmd.query, t, item.name) > 0

Found ==
    CASE cmd.op \in {"status", "doctor"} -> {}
      [] cmd.op = "search" -> {t \in Selected : Asked(t, got.listing[t])}
      [] cmd.op \in {"trackers_list", "trackers_status", "explain_tracker"} ->
             Retained(Filter, reading)
      [] cmd.op = "trackers_inspect" ->
             {t \in DOMAIN reading : cmd.tracker \in Identities(reading[t])}
      [] cmd.op = "inspect_filtered" -> Narrowed(Filter)
      [] cmd.op \in {"list", "stats"} /\ NeedsInspection(Filter) -> Narrowed(Filter)
      [] OTHER -> Selected

\* exit_if_no_targeted_matches
Targeted(found) == IF found = {} THEN NoMatch ELSE 0

DoctorStatus == OverallStatus({Check(cmd.host, got.login, got, c) : c \in Checks})

ExitOf(found) ==
    CASE cmd.op = "status" -> HealthExit(InstanceHealth(got.listing))
      [] cmd.op = "doctor" -> StatusExit(DoctorStatus)
      [] cmd.op = "trackers_status" -> HealthExit(OverallHealth(Filter, reading))
      [] cmd.op = "explain_tracker" -> ExplainTrackerExit(reading, cmd.tracker)
      [] cmd.op = "explain_torrent" ->
             IF found = {} THEN 3
             ELSE SeverityExit(Worst({TorrentSeverity(got.listing[t]) : t \in found}))
      [] cmd.op \in {"search", "inspect_filtered", "inspect_hash", "trackers_inspect"} ->
             Targeted(found)
      [] cmd.op = "list" /\ Filter # EmptyFilter -> Targeted(found)
      [] OTHER -> 0

Finish ==
    /\ pc = "reading" /\ requests = << >> /\ lookups = {}
    /\ IF cmd.request.hash # NoHash /\ Ambiguous(got.listing, cmd.request.hash)
       THEN Leave(Error) /\ UNCHANGED answer
       ELSE answer' = Found /\ Leave(ExitOf(Found))
    /\ UNCHANGED <<sessions, cmd, mine, requests, lookups, got, reading, world>>

-----------------------------------------------------------------------------
(* The instance. *)

\* Other clients add, remove and edit torrents meanwhile, one at a time.
Change ==
    /\ pc = "reading" /\ changes < MaxChanges
    /\ \E t \in Torrents :
           lib' \in {l \in Libraries \ {lib} :
               \A u \in (DOMAIN l \cup DOMAIN lib) \ {t} :
                   u \in DOMAIN l \cap DOMAIN lib /\ l[u] = lib[u]}
    /\ seen' = seen \cup {lib'} /\ changes' = changes + 1
    /\ UNCHANGED <<sessions, command, release>>

Commands ==
    \/ List \/ Stats \/ Search \/ InspectFiltered \/ InspectHash \/ CategoryUsage
    \/ Status \/ Doctor \/ TrackersList \/ TrackersStatus \/ TrackersInspect
    \/ TrackersExport \/ ExplainTorrent \/ ExplainTracker \/ BackupExport
    \/ Refuse

Reads ==
    \/ Login \/ ReadListing \/ ReadInBulk \/ LookUp \/ ReadAgain \/ ReadValue
    \/ RequestFails \/ LookUpFails \/ Finish

Next ==
    \/ Commands
    \/ Reads
    \/ Change
    \/ Instance /\ UNCHANGED <<command, world>>
    \/ (Served \/ Watched) /\ UNCHANGED <<command, world>>

Spec == Init /\ [][Next]_vars /\ SessionsFairness

-----------------------------------------------------------------------------
(* Properties. *)

TypeOK ==
    /\ SessionsTypeOK
    /\ lib \in Libraries /\ release \in Versions /\ changes \in 0..MaxChanges
    /\ seen \subseteq Libraries /\ pc \in {"idle", "reading", "done"}
    /\ exit \in 0..InvalidUsage /\ (exit = InvalidUsage => Rejected(cmd.request.filters))
    /\ mine \in Nat \cup {None}
    /\ answer \subseteq Torrents /\ lookups \subseteq Torrents
    /\ DOMAIN reading \subseteq Torrents
    /\ cmd \in Command \cup {NoCmd}
    /\ (pc = "idle") <=> (cmd = NoCmd)
    /\ pc = "reading" => lib \in seen
    /\ lookups # {} => (pc # "idle" /\ got.listing # Unknown)

\* Every criterion posed was decided on a value that was reported.
Grounded(f, item, trackers) ==
    /\ (f.states # {} \/ {f.active, f.stalled, f.errored} # {Unset})
           => item.state # Blank
    /\ f.completed # Unset => item.measure["progress"] # Unknown
    /\ f.private # Unset => item.private # Unknown
    /\ f.has_trackers # Unset => item.trackers_count # Unknown
    /\ \A m \in Measures : f.range[m] # NoRange => item.measure[m] # Unknown
    /\ NeedsInspection(f) => trackers # Unknown
    /\ f.tracker_health # {} => \E e \in trackers : e.host # Pseudo
    /\ f.trackers # {} => \E e \in trackers : e.host \in f.trackers /\ e.status # 0

Wanted(f, item) ==
    /\ MatchesCheap(f, item)
    /\ MatchesHosts(f, item.trackers) /\ MatchesHealth(f, item.trackers)

(***************************************************************************)
(* A selection that is reported at all is neither too narrow nor too wide, *)
(* whatever happened to the library between its listing and its lookups:   *)
(* it has every torrent that matched throughout, none that never matched,  *)
(* and none of which the deciding field was unknown.                       *)
(***************************************************************************)
SelectionIsSound ==
    LET f == Filter
        trackers(t) == IF t \in DOMAIN reading THEN reading[t] ELSE Unknown
        held(t) == {l \in seen : t \in DOMAIN l}
        throughout(t) == held(t) = seen
                         /\ \A l \in seen : Wanted(f, l[t]) /\ Asked(t, l[t])
    IN (/\ pc = "done" /\ exit \in {0, NoMatch} /\ cmd.request.hash = NoHash
        /\ cmd.op \in {"list", "stats", "search", "inspect_filtered"})
       => /\ \A t \in Torrents : throughout(t) => t \in answer
          /\ \A t \in answer :
                  /\ \E l \in held(t) : MatchesCheap(f, l[t]) /\ Asked(t, l[t])
                  /\ \E l \in held(t) : MatchesHosts(f, l[t].trackers)
                  /\ \E l \in held(t) : MatchesHealth(f, l[t].trackers)
                  /\ Grounded(f, got.listing[t], trackers(t))

\* The export of a library in one piece
ExportOf(l) ==
    LET normalized == Normalized([t \in DOMAIN l |-> l[t].trackers])
    IN Export(normalized, Usage(normalized))

(***************************************************************************)
(* What a script reads in an exit code.  0 is never the answer of a        *)
(* command that could not read what it judges: not for a lookup that       *)
(* failed, a check that was skipped or an outage half-way; a diagnosis     *)
(* says unavailable exactly when it has nothing to judge; and an export of *)
(* a library that stood still, although it is read twice, shows no         *)
(* difference to the next one.                                             *)
(***************************************************************************)
CleanExitMeansRead ==
    LET complete == requests = << >> /\ lookups = {}
        failing == cmd.op \notin {"explain_torrent", "trackers_list"}
                   /\ Failures(reading) # {}
        unread == \E field \in DOMAIN got \ {"counters", "exported"} :
                      got[field] = Unknown
        export == Export(got.exported, Usage(Normalized(reading)))
        judged == UNION {{e \in Real(reading[t]) : Filter.trackers \in {{}, {e.host}}} :
                            t \in DOMAIN reading \ Failures(reading)}
        nothing == DOMAIN reading # {} /\ \A t \in DOMAIN reading : reading[t] = Unknown
    IN pc = "done" =>
        /\ exit = 0 => complete /\ got.login = "ok" /\ got.listing # Unknown /\ ~failing
        /\ cmd.op = "doctor" /\ exit = 0 => ~unread
        /\ cmd.op = "backup" /\ exit = 0 /\ seen = {lib} => Identical(export, ExportOf(lib))
        /\ cmd.op = "status" => ((exit = 3) <=> (got.listing = Unknown))
        /\ cmd.op = "trackers_status" => ((exit = 3) <=> (complete /\ nothing))
        /\ cmd.op = "trackers_status" /\ exit = 0 =>
               \A e \in judged : EndpointHealth(e.status) \in {"healthy", "disabled"}

-----------------------------------------------------------------------------
(* Pages of a selection, from the first as long as there is a next. *)

PagesOf(sorted, bound) ==
    LET page[n \in 0..Len(sorted)] ==
            IF n = 0 THEN Page(sorted, 0, bound)
            ELSE IF page[n - 1].next = Unset THEN page[n - 1]
            ELSE Page(sorted, page[n - 1].next, bound)
    IN {page[n] : n \in 0..Len(sorted)}

Pageable(sorted, bound) ==
    LET pages == PagesOf(sorted, bound)
        with(t) == {p \in pages : t \in ToSet(p.torrents)}
    IN /\ \A t \in ToSet(sorted) : Cardinality(with(t)) = 1
       /\ \E p \in pages : p.next = Unset

\* status, the counts, the selections, explain and doctor, on torrents' states
StatesAgree(listing) ==
    LET severities == {TorrentSeverity(listing[t]) : t \in DOMAIN listing}
        by(g) == Candidates(listing, [EmptyFilter EXCEPT !.states = {g}])
        named(g) == {t \in InGroup(listing, g) : listing[t].state # Blank}
    IN /\ (InstanceHealth(listing) = "critical") <=> ("critical" \in severities)
       /\ (InstanceHealth(listing) = "healthy") <=> (severities \subseteq {"info"})
       /\ \A g \in Groups : by(g) = named(g)
       /\ Candidates(listing, [EmptyFilter EXCEPT !.completed = TRUE])
             = Completed(listing)
       /\ Check("plain", "ok", [Nothing EXCEPT !.listing = listing], "RUNTIME003") =
             IF named("unknown") # {} THEN "warning" ELSE "pass"

\* trackers status and explain tracker, whichever lookups fail
TrackersAgree(listing) ==
    \A bad \in SUBSET DOMAIN listing, h \in Hosts :
        LET r == [t \in DOMAIN listing |-> IF t \in bad THEN Unknown
                                           ELSE listing[t].trackers]
            exclusive(g) == Aggregate(EmptyFilter, r, g).exclusive
        IN /\ h \in Reported(Only(h), r) =>
                 ExplainTrackerExit(r, h) = HealthExit(OverallHealth(Only(h), r))
           /\ \A g \in Hosts \ {h} : exclusive(g) \cap exclusive(h) = {}

\* search in each of its modes, and the filter on names
SearchesAgree(listing) ==
    \A t \in DOMAIN listing, q \in Queries :
        LET tier(w) == TierOf(w, t, listing[t].name)
        IN /\ Mentions(listing[t].name, q.text) /\ Ladder[q.mode] > 2 => tier(q) > 0
           /\ \A w \in Queries : w.text = q.text /\ Ladder[q.mode] <= Ladder[w.mode]
                                 => tier(q) \in {0, tier(w)}

\* the pages of a selection
PagesAgree(listing) ==
    \A g \in Groups, bound \in 1..2 :
        Pageable(ByName(SetToSeq(DOMAIN listing), listing,
                        Candidates(listing, [EmptyFilter EXCEPT !.states = {g}])), bound)

(***************************************************************************)
(* Two surfaces asked about the same library never contradict each other:  *)
(* each decides for itself, in a module of its own.                        *)
(***************************************************************************)
VerdictsAgree ==
    pc = "idle" =>
        StatesAgree(lib) /\ TrackersAgree(lib) /\ SearchesAgree(lib) /\ PagesAgree(lib)
=============================================================================
