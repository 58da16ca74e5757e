------------------------------ MODULE Diagnosis ------------------------------
(***************************************************************************)
(* What qbit-ops says of an instance from what it has read of it.          *)
(*                                                                         *)
(*   status           qbit_core.features.status                            *)
(*   trackers status  qbit_core.features.tracker_status                    *)
(*   explain          qbit_core.features.explain                           *)
(*   doctor           qbit_core.features.doctor                            *)
(*   backup diff      qbit_core.features.backup                            *)
(*   MCP pages        qbit_ops.mcp.tools                                   *)
(*                                                                         *)
(* A listing maps the torrents listed to their records; a reading maps     *)
(* those whose trackers were asked for to their endpoints, or to Unknown   *)
(* when the lookup failed.                                                 *)
(***************************************************************************)
EXTENDS Selection

CONSTANTS
    TestedVersions,   \* of qBittorrent, in the packaged compatibility evidence
    TestedApi,        \* the Web API version each was tested with
    ApiFloor,         \* the least Web API version qbit-ops relies on
    Odd               \* a version no pattern recognises

ASSUME DiagnosisAssumption ==
    /\ TestedVersions \subseteq Nat /\ IsFiniteSet(TestedVersions)
    /\ TestedVersions # {}
    /\ TestedApi \in [TestedVersions -> Nat] /\ ApiFloor \in Nat

-----------------------------------------------------------------------------
(* status *)

InGroup(listing, g) == {t \in DOMAIN listing : Group(listing[t].state) = g}
Completed(listing) == {t \in DOMAIN listing : IsCompleted(listing[t])}

\* Slip: a torrent complete from local data is reported as stalled.
EveryStalled(listing) == InGroup(listing, "stalled")

UnexplainedStalled(listing) ==
    {t \in InGroup(listing, "stalled") : ~FromLocalData(listing[t])}

Alerts(listing) ==
    {a \in {"errored", "stalled", "unknown"} :
        CASE a = "errored" -> InGroup(listing, "errored") # {}
          [] a = "stalled" -> UnexplainedStalled(listing) # {}
          [] a = "unknown" -> InGroup(listing, "unknown") # {}}

InstanceHealth(listing) ==
    IF InGroup(listing, "errored") # {} THEN "critical"
    ELSE IF UnexplainedStalled(listing) \cup InGroup(listing, "unknown") # {}
         THEN "warning"
    ELSE "healthy"

\* Slip: an instance that is unavailable exits like a wrong option.
UsageExit(health) ==
    CASE health = "healthy" -> 0 [] health = "warning" -> 1
      [] health = "critical" -> 2 [] health = "unavailable" -> 4

HealthExit(health) ==
    CASE health = "healthy" -> 0 [] health = "warning" -> 1
      [] health = "critical" -> 2 [] health = "unavailable" -> 3

-----------------------------------------------------------------------------
(* trackers status *)

Failures(reading) == {t \in DOMAIN reading : reading[t] = Unknown}

\* The torrents --tracker-health retains, and of them those that were read
Retained(f, reading) ==
    {t \in DOMAIN reading : MatchesHealth(f, reading[t])}
Observed(f, reading) == Retained(f, reading) \ Failures(reading)

\* A tracker is its host; URLs that name none are one tracker.
Identities(trackers) == {e.host : e \in Real(trackers)}

Aggregate(f, reading, host) ==
    LET on == {t \in Observed(f, reading) : host \in Identities(reading[t])}
    IN [torrents |-> on,
        exclusive |-> {t \in on : Identities(reading[t]) = {host}},
        health |-> AggregateHealth(
            UNION {{EndpointHealth(e.status) :
                       e \in {x \in Real(reading[t]) : x.host = host}} :
                   t \in on})]

\* --tracker restricts the report, not what is read for it.
Reported(f, reading) ==
    LET all == UNION {Identities(reading[t]) : t \in Observed(f, reading)}
    IN IF f.trackers = {} THEN all ELSE all \cap f.trackers

TrackerHealths(f, reading) ==
    {Aggregate(f, reading, h).health : h \in Reported(f, reading)}

\* Slip: the lookups that failed are left out of the verdict.
OverallOfWhatWasRead(f, reading) ==
    LET healths == TrackerHealths(f, reading) IN
    IF "critical" \in healths THEN "critical"
    ELSE IF healths \cap {"warning", "unknown"} # {} THEN "warning"
    ELSE "healthy"

OverallHealth(f, reading) ==
    LET healths == TrackerHealths(f, reading) IN
    IF DOMAIN reading # {} /\ Failures(reading) = DOMAIN reading
    THEN "unavailable"
    ELSE IF "critical" \in healths THEN "critical"
    ELSE IF Failures(reading) # {} \/ healths \cap {"warning", "unknown"} # {}
         THEN "warning"
    ELSE "healthy"

-----------------------------------------------------------------------------
(* explain *)

\* _build_torrent_finding: a torrent's trackers are evidence, its state is
\* what decides.
TorrentSeverity(item) ==
    CASE Group(item.state) = "errored" -> "critical"
      [] Group(item.state) = "stalled" ->
             IF FromLocalData(item) THEN "info" ELSE "warning"
      [] Group(item.state) = "unknown" -> "unknown"
      [] OTHER -> "info"

\* The finding on the tracker's health, and one more for a partial reading
TrackerFindings(f, reading, host) ==
    LET health == Aggregate(f, reading, host).health
    IN {CASE health = "critical" -> "critical" [] health = "warning" -> "warning"
          [] health = "unknown" -> "unknown" [] OTHER -> "info"}
       \cup (IF Failures(reading) = {} THEN {} ELSE {"warning"})

Worst(severities) ==
    IF "critical" \in severities THEN "critical"
    ELSE IF "warning" \in severities THEN "warning"
    ELSE IF "unknown" \in severities THEN "unknown"
    ELSE "info"

SeverityExit(severity) ==
    CASE severity = "info" -> 0 [] severity = "critical" -> 2 [] OTHER -> 1

Only(host) == [EmptyFilter EXCEPT !.trackers = {host}]

\* 3 is TARGET_UNAVAILABLE: nothing was observed of it.
ExplainTrackerExit(reading, host) ==
    IF host \notin Reported(Only(host), reading) THEN 3
    ELSE SeverityExit(Worst(TrackerFindings(Only(host), reading, host)))

-----------------------------------------------------------------------------
(* doctor.  Each answer is what the request returned, or Unknown when it    *)
(* failed or was never made.  TUI001, always skipped, is left out.          *)

Checks == {"CFG001", "CFG002", "CFG003", "CONN001", "CONN002", "CONN003", "CONN004", 
           "COMPAT001", "COMPAT002", "COMPAT003",
           "RUNTIME001", "RUNTIME002", "RUNTIME003"}

\* The newest and oldest tested release bound what is known to be compatible.
VersionEvidence(version, api) ==
    IF version \in TestedVersions
    THEN IF api = TestedApi[version] THEN "pass" ELSE "warning"
    ELSE IF \A v \in TestedVersions : version > v THEN "warning"
    ELSE IF \A v \in TestedVersions : version < v THEN "warning"
    ELSE "pass"

\* The host configured is "none", "plain", "malformed" or one that carries
\* "credentials"; the login is "ok", "refused" or "unreachable".
Check(host, login, got, code) ==
    LET Runs(x) == IF login # "ok" THEN "skipped"
                   ELSE IF x = Unknown THEN "fail" ELSE "pass"
    IN CASE code = "CFG001" -> IF host = "none" THEN "fail" ELSE "pass"
         [] code = "CFG002" ->
                CASE host = "none" -> "skipped" [] host = "malformed" -> "fail"
                  [] OTHER -> "pass"
         [] code = "CFG003" ->
                CASE host = "none" -> "skipped"
                  [] host = "credentials" -> "warning" [] OTHER -> "pass"
         [] code = "CONN001" ->
                IF host = "none" THEN "skipped"
                ELSE IF login = "unreachable" THEN "fail" ELSE "pass"
         [] code = "CONN002" ->
                CASE host = "none" \/ login = "unreachable" -> "skipped"
                  [] login = "refused" -> "fail" [] OTHER -> "pass"
         [] code = "CONN003" -> Runs(got.version)
         [] code = "CONN004" -> Runs(got.api)
         [] code = "COMPAT001" ->
                CASE got.version = Unknown -> "skipped"
                  [] got.version = Odd -> "warning" [] OTHER -> "pass"
         [] code = "COMPAT002" ->
                IF got.version \in {Unknown, Odd} THEN "skipped"
                ELSE VersionEvidence(got.version, got.api)
         [] code = "COMPAT003" ->
                CASE got.api = Unknown -> "skipped" [] got.api = Odd -> "warning"
                  [] OTHER -> IF got.api < ApiFloor THEN "warning" ELSE "pass"
         [] code = "RUNTIME001" -> Runs(got.listing)
         [] code = "RUNTIME002" -> Runs(got.transfer)
         [] code = "RUNTIME003" ->
                IF got.listing = Unknown THEN "skipped"
                ELSE IF \E t \in InGroup(got.listing, "unknown") :
                            got.listing[t].state # Blank
                     THEN "warning" ELSE "pass"

OverallStatus(results) ==
    IF "fail" \in results THEN "fail"
    ELSE IF "warning" \in results THEN "warning" ELSE "pass"

StatusExit(status) ==
    CASE status = "pass" -> 0 [] status = "warning" -> 1 [] status = "fail" -> 2

-----------------------------------------------------------------------------
(* backup export and diff *)

\* normalized_trackers of an export, and its tracker_usage
Normalized(reading) ==
    [t \in DOMAIN reading |-> {e.host : e \in Active(reading[t])}]

Usage(normalized) ==
    [h \in UNION {normalized[t] : t \in DOMAIN normalized} |->
        Cardinality({t \in DOMAIN normalized : h \in normalized[t]})]

Export(normalized, usage) == [torrents |-> normalized, tracker_usage |-> usage]

\* What two maps do not have in common
Changed(a, b) == {k \in DOMAIN a \cap DOMAIN b : a[k] # b[k]}
Differences(a, b) ==
    (DOMAIN a \ DOMAIN b) \cup (DOMAIN b \ DOMAIN a) \cup Changed(a, b)

Identical(a, b) ==
    /\ Differences(a.torrents, b.torrents) = {}
    /\ Differences(a.tracker_usage, b.tracker_usage) = {}

-----------------------------------------------------------------------------
(* find_torrents *)

\* The asked-for page size within the server's own bounds; limit = Unset asks
\* for the default.
Bounded(limit, default, most) ==
    IF limit = Unset THEN default
    ELSE IF limit < 1 THEN 1 ELSE IF limit > most THEN most ELSE limit

\* next is Unset when there is no more.
Page(sorted, offset, bound) ==
    LET last == IF offset + bound < Len(sorted) THEN offset + bound
                ELSE Len(sorted)
        next == IF offset < last THEN last ELSE offset
    IN [torrents |-> SubSeq(sorted, offset + 1, last),
        next |-> IF next < Len(sorted) THEN next ELSE Unset]
=============================================================================
