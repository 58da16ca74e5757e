------------------------------ MODULE Selection ------------------------------
(***************************************************************************)
(* Which torrents a command's options select.                              *)
(*                                                                         *)
(*   state groups  qbit_core.shared.torrent_states                         *)
(*   filters       qbit_core.shared.selection                              *)
(*   trackers      qbit_core.features.torrents, .trackers                  *)
(*                                                                         *)
(* A listed torrent is a record of the fields below.  A name is a sequence *)
(* of letters, 0 standing for whatever separates its words; a path is a    *)
(* sequence of directories, an infohash one of digits.  Case and accents   *)
(* are left out.                                                           *)
(***************************************************************************)
EXTENDS Naturals, Sequences, FiniteSets, SequencesExt

CONSTANTS
    Torrents,
    Hex,         \* the infohash of each, as digits
    Unknown,     \* a field absent, null or at its "unset" sentinel
    Unset,       \* a criterion that was not asked for
    Similar,     \* the <<query token, name token>> pairs near enough for search
    HashMin,     \* the least length of a query that may be an infohash
    Blank,       \* an absent or blank category or state
    Pseudo,      \* the host of DHT, PeX and LSD entries
    NoHost       \* the host of an announce URL that names none

ASSUME SelectionAssumption ==
    /\ Hex \in [Torrents -> Seq(Nat)]
    /\ \A t, u \in Torrents : t # u => ~IsPrefix(Hex[t], Hex[u])

\* The measures a torrent is listed with, a moment being its time.  The code
\* reads "progress" once as a measure and once as "is it complete".
Measures == {"ratio", "size", "progress", "uploaded", "seeding_time",
             "added", "completed_at", "last_activity"}

OrZero(v) == IF v = Unknown THEN 0 ELSE v

-----------------------------------------------------------------------------
(* States. *)

IsStopped(state) == state \in {"pausedDL", "pausedUP", "stoppedDL", "stoppedUP"}

Group(state) ==
    CASE state \in {"error", "missingFiles"} -> "errored"
      [] state \in {"checkingDL", "checkingUP", "checkingResumeData",
                    "allocating", "moving"} -> "checking"
      [] state \in {"stalledDL", "stalledUP"} -> "stalled"
      [] state \in {"uploading", "forcedUP", "queuedUP",
                    "pausedUP", "stoppedUP"} -> "seeding"
      [] state \in {"downloading", "metaDL", "forcedDL", "queuedDL",
                    "pausedDL", "stoppedDL"} -> "downloading"
      [] OTHER -> "unknown"

Groups == {"downloading", "seeding", "stalled", "checking", "errored", "unknown"}

\* 1 stands for every complete torrent.
IsCompleted(item) == OrZero(item.measure["progress"]) >= 1

\* Complete with nothing downloaded: the data was there before the torrent.
FromLocalData(item) ==
    item.state = "stalledUP" /\ OrZero(item.downloaded) = 0 /\ IsCompleted(item)

-----------------------------------------------------------------------------
(* Criteria a listing decides. *)

NoRange == [min |-> Unset, max |-> Unset]

Impossible(range) ==
    range.min # Unset /\ range.max # Unset /\ range.min > range.max

\* An unknown value satisfies no bound that was posed.
InRange(range, v) ==
    \/ range = NoRange
    \/ /\ v # Unknown
       /\ range.min = Unset \/ v >= range.min
       /\ range.max = Unset \/ v <= range.max

EmptyFilter ==
    [categories |-> {}, categories_excluded |-> {},
     any_of |-> {}, all_of |-> {}, none_of |-> {},
     save_paths |-> {}, save_paths_excluded |-> {},
     name_contains |-> {}, name_excluded |-> {}, name_regex |-> Unset,
     states |-> {}, states_excluded |-> {},
     completed |-> Unset, active |-> Unset, stalled |-> Unset,
     errored |-> Unset, private |-> Unset,
     range |-> [m \in Measures |-> NoRange],
     trackers |-> {}, trackers_excluded |-> {}, has_trackers |-> Unset,
     tracker_health |-> {}]

NeedsInspection(f) ==
    f.trackers # {} \/ f.trackers_excluded # {} \/ f.tracker_health # {}

Cheap(f) ==
    [f EXCEPT !.trackers = {}, !.trackers_excluded = {}, !.tracker_health = {}]

\* "/" names no subtree.
IsUnder(path, prefix) == prefix # << >> /\ IsPrefix(prefix, path)

Mentions(name, needle) ==
    \E i \in 0..Len(name) : IsPrefix(needle, SubSeq(name, i + 1, Len(name)))

\* "uncategorized" is the category Blank.  A regular expression is the set of
\* names it finds itself in.
MatchesOrganisation(f, item) ==
    /\ f.categories = {} \/ item.category \in f.categories
    /\ item.category \notin f.categories_excluded
    /\ f.any_of = {} \/ f.any_of \cap item.tags # {}
    /\ f.all_of \subseteq item.tags
    /\ f.none_of \cap item.tags = {}
    /\ f.save_paths = {} \/ \E p \in f.save_paths : IsUnder(item.path, p)
    /\ ~\E p \in f.save_paths_excluded : IsUnder(item.path, p)

MatchesName(f, item) ==
    /\ f.name_contains = {} \/ \E n \in f.name_contains : Mentions(item.name, n)
    /\ ~\E n \in f.name_excluded : Mentions(item.name, n)
    /\ f.name_regex = Unset \/ item.name \in f.name_regex

\* Slip: a state that was not reported is as good as any other.
StateAsListed(f, item) ==
    /\ f.states = {} \/ Group(item.state) \in f.states
    /\ f.active = Unset \/ IsStopped(item.state) # f.active

\* An alias posed holds only of a state that was reported; an exclusion of
\* states excludes only a torrent whose state was.
MatchesState(f, item) ==
    LET known == item.state # Blank
        group == Group(item.state)
    IN /\ f.states = {} \/ (known /\ group \in f.states)
       /\ ~(known /\ group \in f.states_excluded)
       /\ \/ f.completed = Unset
          \/ /\ item.measure["progress"] # Unknown
             /\ IsCompleted(item) = f.completed
       /\ f.active = Unset \/ (known /\ IsStopped(item.state) # f.active)
       /\ f.stalled = Unset \/ (known /\ (group = "stalled") = f.stalled)
       /\ f.errored = Unset \/ (known /\ (group = "errored") = f.errored)
       /\ f.private \in {Unset, item.private}

\* qBittorrent counts the real trackers itself, the disabled ones included.
MatchesMeasures(f, item) ==
    /\ \A m \in Measures : InRange(f.range[m], item.measure[m])
    /\ \/ f.has_trackers = Unset
       \/ /\ item.trackers_count # Unknown
          /\ (item.trackers_count > 0) = f.has_trackers

MatchesCheap(f, item) ==
    /\ MatchesOrganisation(f, item) /\ MatchesName(f, item)
    /\ MatchesState(f, item) /\ MatchesMeasures(f, item)

-----------------------------------------------------------------------------
(* Criteria only a torrent's trackers decide.  Its trackers are a set of    *)
(* endpoints; Unknown stands for a lookup that failed.                      *)

EndpointHealth(status) ==
    CASE status = 0 -> "disabled"
      [] status = 1 -> "warning"
      [] status \in {2, 3} -> "healthy"
      [] status \in {4, 5, 6} -> "critical"
      [] OTHER -> "unknown"

Real(trackers) == {e \in trackers : e.host # Pseudo}
Active(trackers) == {e \in Real(trackers) : e.status # 0}

\* Of the healths observed; counts matter only as all, some and none.
AggregateHealth(healths) ==
    LET enabled == healths \ {"disabled"} IN
    IF enabled = {} THEN "disabled"
    ELSE IF \E h \in {"critical", "healthy", "unknown"} : enabled = {h}
         THEN CHOOSE h \in enabled : TRUE
    ELSE "warning"

NoVerdict == "no verdict"

\* compute_torrent_tracker_health.  No endpoint observed, no verdict.
TorrentHealth(trackers) ==
    IF trackers = Unknown THEN NoVerdict
    ELSE IF Real(trackers) = {} THEN NoVerdict
    ELSE AggregateHealth({EndpointHealth(e.status) : e \in Real(trackers)})

MatchesHealth(f, trackers) ==
    f.tracker_health = {} \/ TorrentHealth(trackers) \in f.tracker_health

\* A URL that names no host is on none that was asked for.
MatchesHosts(f, trackers) ==
    LET hosts == {e.host : e \in Active(trackers)} \ {NoHost}
    IN /\ f.trackers = {} \/ hosts \cap f.trackers # {}
       /\ hosts \cap f.trackers_excluded = {}

-----------------------------------------------------------------------------
(* Requests. *)

\* validate_torrent_filter, but for a regular expression that does not compile.
Rejected(f) ==
    \/ \E m \in Measures : Impossible(f.range[m])
    \/ f.categories \cap f.categories_excluded # {}
    \/ f.states \cap f.states_excluded # {}
    \/ f.save_paths \cap f.save_paths_excluded # {}
    \/ f.name_contains \cap f.name_excluded # {}
    \/ (f.any_of \cup f.all_of) \cap f.none_of # {}
    \/ f.trackers \cap f.trackers_excluded # {}
    \/ f.has_trackers = FALSE /\ NeedsInspection(f)

NoHash == << >>
Request(hash, all, f) == [hash |-> hash, all |-> all, filters |-> f]

HasSelector(r) == r.hash # NoHash \/ r.all \/ r.filters # EmptyFilter

\* validate_selection_request for a report, which may carry no selector.
Unsafe(r) ==
    \/ r.hash # NoHash /\ (r.all \/ r.filters # EmptyFilter)
    \/ r.all /\ r.filters # EmptyFilter

\* A listing is a function from the torrents listed to their records.
Resolve(listing, prefix) ==
    {t \in DOMAIN listing : IsPrefix(prefix, Hex[t])}

Ambiguous(listing, prefix) == Cardinality(Resolve(listing, prefix)) > 1

Candidates(listing, f) == {t \in DOMAIN listing : MatchesCheap(f, listing[t])}

-----------------------------------------------------------------------------
(* Search: seven ways for a name to match a query, the best one counts.     *)

Tokens(text) ==
    {SubSeq(text, w[1], w[2]) : w \in {p \in (1..Len(text)) \X (1..Len(text)) :
        /\ p[1] <= p[2] /\ \A k \in p[1]..p[2] : text[k] # 0
        /\ p[1] = 1 \/ text[p[1] - 1] = 0
        /\ p[2] = Len(text) \/ text[p[2] + 1] = 0}}

Tiers == <<"hash", "exact", "prefix", "substring", "all_tokens",
           "token_prefix", "fuzzy">>

\* How many of them each mode goes down to
Ladder == [exact |-> 2, contains |-> 4, tokens |-> 6, fuzzy |-> 7]

Fits(tier, text, t, name) ==
    CASE tier = "hash" -> Len(text) >= HashMin /\ IsPrefix(text, Hex[t])
      [] tier = "exact" -> name = text
      [] tier = "prefix" -> IsPrefix(text, name)
      [] tier = "substring" -> Mentions(name, text)
      [] tier = "all_tokens" -> Tokens(text) \subseteq Tokens(name)
      [] tier = "token_prefix" ->
             \A q \in Tokens(text) : \E n \in Tokens(name) : IsPrefix(q, n)
      [] tier = "fuzzy" ->
             \A q \in Tokens(text) : \E n \in Tokens(name) : <<q, n>> \in Similar

\* The tier a torrent is found at, 0 when it is not
TierOf(query, t, name) ==
    LET fitting == {i \in 1..Ladder[query.mode] : Fits(Tiers[i], query.text, t, name)}
    IN IF fitting = {} THEN 0 ELSE CHOOSE i \in fitting : \A j \in fitting : i <= j

-----------------------------------------------------------------------------
(* Order. *)

NameBefore(a, b) ==
    \E i \in 1..Len(b) :
        /\ i <= Len(a) + 1 /\ SubSeq(a, 1, i - 1) = SubSeq(b, 1, i - 1)
        /\ i > Len(a) \/ a[i] < b[i]

\* By name; listed is the order qBittorrent gave, kept among equal names.  A
\* torrent's place is told by how many come before it.
ByName(listed, listing, S) ==
    LET at(t) == CHOOSE i \in 1..Len(listed) : listed[i] = t
        Before(t, u) ==
            \/ NameBefore(listing[t].name, listing[u].name)
            \/ listing[t].name = listing[u].name /\ at(t) < at(u)
    IN [i \in 1..Cardinality(S) |->
           CHOOSE t \in S : Cardinality({u \in S : Before(u, t)}) = i - 1]
=============================================================================
