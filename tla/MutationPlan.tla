---------------------------- MODULE MutationPlan ----------------------------
(***************************************************************************)
(* What a mutating qbit-ops command decides to send, from what it has read *)
(* of the server, and what the server does with each request.              *)
(*                                                                         *)
(*   bulk actions    qbit_core.features.torrents                           *)
(*   tracker edits   qbit_core.features.trackers                           *)
(*   restore         qbit_core.features.backup                             *)
(*   import          qbit_core.features.torrent_import                     *)
(*                                                                         *)
(* A server, and what a command has read of it, is a record of the fields  *)
(* below.  An announce URL is its host and its passkey: --source, or a     *)
(* {passkey} template, matches the URLs of host "src" whatever their key.  *)
(***************************************************************************)
EXTENDS Naturals, Sequences, FiniteSets, SequencesExt

CONSTANTS
    Torrents,     \* infohashes
    Categories,   \* category names
    NoCategory,   \* the empty category
    Tags,
    Limits,       \* rate limits, 0 being unlimited
    Untouched,    \* a direction throttle was not asked about
    Keys,         \* passkeys, in the order their URLs sort
    Invalid,      \* an import entry that is no torrent
    BatchSize     \* IMPORT_BATCH_SIZE

ASSUME PlanAssumption ==
    /\ NoCategory \notin Categories
    /\ Keys \subseteq Nat /\ BatchSize \in Nat \ {0}
    /\ IsFiniteSet(Torrents) /\ IsFiniteSet(Categories) /\ IsFiniteSet(Keys)
    /\ Untouched \notin Limits /\ Invalid \notin Torrents

Url == [host : {"src", "dst"}, key : Keys]

Server == [present : SUBSET Torrents,
           stopped : SUBSET Torrents,
           category : [Torrents -> Categories \cup {NoCategory}],
           tags : [Torrents -> SUBSET Tags],
           down : [Torrents -> Limits], up : [Torrents -> Limits],
           urls : [Torrents -> SUBSET Url],
           known : SUBSET Categories]

-----------------------------------------------------------------------------
(* Requests, and what the server makes of them. *)

\* On a set of torrents; edit_tracker's arg is [old, new].
Request(kind, on, arg) == [kind |-> kind, on |-> on, arg |-> arg]

\* f with g(x) in place of f[x], for every x in S
Mapped(f, S, g(_)) == [x \in DOMAIN f |-> IF x \in S THEN g(f[x]) ELSE f[x]]

\* What the server cannot do.  Bulk requests ignore an unknown hash, those
\* about the trackers of one torrent do not.
Impossible(s, r) ==
    \/ r.kind = "create_category" /\ r.arg \in s.known
    \/ r.kind = "set_category" /\ r.arg \notin s.known \cup {NoCategory}
    \/ /\ r.kind \in {"add_trackers", "edit_tracker", "remove_trackers"}
       /\ ~(r.on \subseteq s.present)
    \/ /\ r.kind = "edit_tracker"
       /\ \E t \in r.on : r.arg.old \notin s.urls[t] \/ r.arg.new \in s.urls[t]

Done(s, r) ==
    LET on == r.on \cap s.present IN
    CASE r.kind = "stop"   -> [s EXCEPT !.stopped = @ \cup on]
      [] r.kind = "start"  -> [s EXCEPT !.stopped = @ \ on]
      [] r.kind = "reannounce" -> s
      [] r.kind = "delete" -> [s EXCEPT !.present = @ \ on]
      [] r.kind = "create_category" -> [s EXCEPT !.known = @ \cup {r.arg}]
      [] r.kind = "set_category" ->
             [s EXCEPT !.category = Mapped(@, on, LAMBDA c : r.arg)]
      [] r.kind = "add_tags" ->
             [s EXCEPT !.tags = Mapped(@, on, LAMBDA g : g \cup r.arg)]
      [] r.kind = "remove_tags" ->
             [s EXCEPT !.tags = Mapped(@, on, LAMBDA g : g \ r.arg)]
      [] r.kind = "set_down" ->
             [s EXCEPT !.down = Mapped(@, on, LAMBDA l : r.arg)]
      [] r.kind = "set_up" ->
             [s EXCEPT !.up = Mapped(@, on, LAMBDA l : r.arg)]
      [] r.kind = "add_trackers" ->
             [s EXCEPT !.urls = Mapped(@, on, LAMBDA u : u \cup r.arg)]
      [] r.kind = "remove_trackers" ->
             [s EXCEPT !.urls = Mapped(@, on, LAMBDA u : u \ r.arg)]
      [] r.kind = "edit_tracker" ->
             [s EXCEPT !.urls = Mapped(@, on,
                  LAMBDA u : (u \ {r.arg.old}) \cup {r.arg.new})]
      [] r.kind = "add" -> [s EXCEPT !.present = @ \cup r.on]

-----------------------------------------------------------------------------
(* Bulk actions. *)

\* Slip: one direction already at its limit is enough.
ThrottledOneWay(c, v, t) == c.arg.down = v.down[t] \/ c.arg.up = v.up[t]

\* Both limits, as far as they were asked for, are in force.
Throttled(c, v, t) ==
    /\ c.arg.down \in {Untouched, v.down[t]}
    /\ c.arg.up \in {Untouched, v.up[t]}

\* _bulk_action_skip_reason: the action would change nothing for t.
Skipped(c, v, t) ==
    \/ c.op \in {"pause", "pause_by_hash"} /\ t \in v.stopped
    \/ c.op \in {"resume", "start", "resume_by_hash"} /\ t \notin v.stopped
    \/ c.op = "category_set" /\ v.category[t] = c.arg.category
    \/ c.op = "category_clear" /\ v.category[t] = NoCategory
    \/ c.op = "tag_add" /\ c.arg \subseteq v.tags[t]
    \/ c.op = "tag_remove" /\ c.arg \cap v.tags[t] = {}
    \/ c.op = "throttle" /\ Throttled(c, v, t)

\* apply_bulk_torrent_action's calls for the torrents of one plan
BulkRequests(c, v, changes) ==
    LET One(kind, arg) == <<Request(kind, changes, arg)>>
        Side(kind, limit) ==
            IF limit = Untouched THEN << >> ELSE One(kind, limit)
    IN CASE c.op \in {"pause", "pause_by_hash"} -> One("stop", {})
         [] c.op \in {"resume", "start", "resume_by_hash"} -> One("start", {})
         [] c.op = "reannounce" -> One("reannounce", {})
         [] c.op = "delete" -> One("delete", {})
         [] c.op = "category_set" ->
                (IF c.arg.category \in v.known THEN << >>
                 ELSE <<Request("create_category", {}, c.arg.category)>>)
                \o One("set_category", c.arg.category)
         [] c.op = "category_clear" -> One("set_category", NoCategory)
         [] c.op = "tag_add" -> One("add_tags", c.arg)
         [] c.op = "tag_remove" -> One("remove_tags", c.arg)
         [] c.op = "throttle" ->
                Side("set_down", c.arg.down) \o Side("set_up", c.arg.up)

-----------------------------------------------------------------------------
(* Tracker edits. *)

\* _distinct_source_identities: the URLs the source matches over the torrents
\* T, the one most of them have first.
Candidates(v, T) ==
    LET Count(u) == Cardinality({t \in T : u \in v.urls[t]})
    IN SetToSortSeq({u \in UNION {v.urls[t] : t \in T} : u.host = "src"},
                    LAMBDA a, b : \/ Count(a) > Count(b)
                                  \/ Count(a) = Count(b) /\ a.key < b.key)

\* Adding and replacing are about one source; removing and new passkeys are not.
OneSource(c) == c.op \in {"add_if_present", "replace"}

\* _resolve_disambiguated_source_matcher, which refuses to guess
Ambiguous(c, v, T) ==
    /\ OneSource(c)
    /\ Len(Candidates(v, T)) > 1
    /\ c.arg.index \notin 1..Len(Candidates(v, T))

IsSource(c, v, T, u) ==
    /\ u.host = "src"
    /\ OneSource(c) /\ Len(Candidates(v, T)) > 1 =>
           u = Candidates(v, T)[c.arg.index]

\* _ensure_distinct_tracker_identity
SameIdentity(c, v, T) == c.op = "replace" /\ IsSource(c, v, T, c.arg.target)

\* has_tracker, exact or without the query the passkey is in
HasTarget(c, urls) ==
    \E u \in urls : \/ u = c.arg.target
                    \/ ~c.arg.exact /\ u.host = c.arg.target.host

\* The URLs in the order the server lists them, which starts with `lead`.
Listed(urls, lead) ==
    IF lead \in urls THEN <<lead>> \o SetToSeq(urls \ {lead}) ELSE SetToSeq(urls)

\* Slip: the source is gone before the target has taken its place.
RemoveThenEdit(t, first, rest, target) ==
    (IF rest = {} THEN << >> ELSE <<Request("remove_trackers", {t}, rest)>>)
    \o <<Request("remove_trackers", {t}, {first}),
         Request("add_trackers", {t}, {target})>>

\* apply_tracker_replacement's calls for one torrent: the first match becomes
\* the target, and only then do the others go.
EditThenRemove(t, first, rest, target) ==
    <<Request("edit_tracker", {t}, [old |-> first, new |-> target])>>
    \o (IF rest = {} THEN << >> ELSE <<Request("remove_trackers", {t}, rest)>>)

\* plan_tracker_replacement, per torrent
ReplaceRequests(c, urls, source, t, lead) ==
    LET first == Head(Listed(source, lead))
    IN IF HasTarget(c, urls) THEN <<Request("remove_trackers", {t}, source)>>
       ELSE EditThenRemove(t, first, source \ {first}, c.arg.target)

\* plan_tracker_passkey_replacement: the stale URLs, one edit each
PasskeyRequests(source, key, t, lead) ==
    LET stale == {u \in source : u.key # key}
    IN [i \in 1..Cardinality(stale) |->
            Request("edit_tracker", {t},
                    [old |-> Listed(stale, lead)[i],
                     new |-> [Listed(stale, lead)[i] EXCEPT !.key = key]])]

\* What a tracker command sends about t, of the URLs its source matches there
TrackerRequests(c, urls, source, t, lead) ==
    CASE c.op = "add_if_present" ->
             IF HasTarget(c, urls) THEN << >>
             ELSE <<Request("add_trackers", {t}, {c.arg.target})>>
      [] c.op = "remove" -> <<Request("remove_trackers", {t}, source)>>
      [] c.op = "replace" -> ReplaceRequests(c, urls, source, t, lead)
      [] c.op = "replace_passkey" -> PasskeyRequests(source, c.arg.key, t, lead)

-----------------------------------------------------------------------------
(* Restore and import. *)

\* Slip: what the export says replaces what is there.
CategoryRestoredAlways(v, e, t) ==
    e[t].category \notin {NoCategory, v.category[t]}

\* plan_backup_restore: a category is only given to a torrent without one.
CategoryRestored(v, e, t) ==
    e[t].category # NoCategory /\ v.category[t] = NoCategory

MissingTags(v, e, t) == e[t].tags \ v.tags[t]
MissingUrls(v, e, t) == e[t].urls \ v.urls[t]

\* apply_backup_restore's calls: categories made, categories set, tags, trackers
RestoreRequests(v, e, order) ==
    LET Each(Calls(_)) == FlattenSeq([i \in 1..Len(order) |-> Calls(order[i])])
        \* the call about t, where one is wanted
        Call(wanted, kind, t, arg) ==
            IF wanted THEN <<Request(kind, {t}, arg)>> ELSE << >>
        created == SetToSeq({e[t].category : t \in
                       {t \in ToSet(order) : CategoryRestored(v, e, t)}} \ v.known)
    IN [i \in 1..Len(created) |-> Request("create_category", {}, created[i])]
       \o Each(LAMBDA t : Call(CategoryRestored(v, e, t),
                               "set_category", t, e[t].category))
       \o Each(LAMBDA t : Call(MissingTags(v, e, t) # {},
                               "add_tags", t, MissingTags(v, e, t)))
       \o Each(LAMBDA t : Call(MissingUrls(v, e, t) # {},
                               "add_trackers", t, MissingUrls(v, e, t)))

\* Slip: an entry that does not decode is sent like the rest.
ReadyUndecoded(v, entries) ==
    SelectSeq(entries, LAMBDA h : h \notin v.present)

\* plan_torrent_import: what is neither there nor met before, in entry order
Ready(v, entries) ==
    FlattenSeq([i \in 1..Len(entries) |->
        IF entries[i] \in v.present \cup {entries[j] : j \in 1..(i - 1)} \cup {Invalid}
        THEN << >> ELSE <<entries[i]>>])

\* apply_torrent_import's batches
ImportRequests(ready) ==
    [i \in 1..((Len(ready) + BatchSize - 1) \div BatchSize) |->
        LET first == (i - 1) * BatchSize + 1
            last == IF i * BatchSize < Len(ready) THEN i * BatchSize
                    ELSE Len(ready)
        IN Request("add", {ready[j] : j \in first..last}, {})]
=============================================================================
