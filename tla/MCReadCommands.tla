--------------------------- MODULE MCReadCommands ---------------------------
(* Two torrents, and libraries and filters that tell the commands apart.     *)
EXTENDS ReadCommands

CONSTANTS t1, t2, x, y, k1, k2

MCTorrents == {t1, t2}
MCHex == (t1 :> <<9, 1>>) @@ (t2 :> <<9, 2>>)
MCPrefixes == {<<9>>, <<9, 1>>, <<3>>}
MCSimilar == {<<<<3>>, <<1>>>>, <<<<1>>, <<1>>>>, <<<<2>>, <<2>>>>}
MCQueries ==
    {[mode |-> m, text |-> q] : m \in DOMAIN Ladder,
                                 q \in {<<1>>, <<2, 0, 1>>, <<3>>, <<9, 1>>}}
MCVersions == {<<5, 2>>, <<6, 3>>, <<Odd, 1>>}
MCTestedApi == (5 :> 2)

At(host, status) == [host |-> host, status |-> status]

Plain ==
    [state |-> "uploading", category |-> k1, tags |-> {}, path |-> <<1>>,
     name |-> <<1, 0, 2>>, private |-> FALSE, downloaded |-> 1, trackers_count |-> 1,
     measure |-> [m \in Measures |-> 1], trackers |-> {At(x, 2)}]

Local == [Plain EXCEPT !.state = "stalledUP", !.downloaded = 0, !.name = <<2, 4, 0, 1>>,
                       !.trackers = {At(x, 0), At(y, 4)}]
Stuck == [Plain EXCEPT !.state = "stalledDL", !.measure["progress"] = 0,
                       !.category = k2, !.trackers = {At(x, 4)}]
Absent == [Plain EXCEPT !.state = Blank, !.measure["ratio"] = Unknown,
                        !.measure["progress"] = Unknown, !.trackers_count = Unknown,
                        !.trackers = {At(Pseudo, 2)}]
Broken == [Plain EXCEPT !.state = "error", !.measure["ratio"] = 3,
                        !.trackers = {At(x, 1), At(y, 2)}]
Strange == [Plain EXCEPT !.state = "strange", !.private = Unknown,
                         !.trackers_count = 0, !.trackers = {At(NoHost, 7)}]

Pair(a, b) == [t \in MCTorrents |-> IF t = t1 THEN a ELSE b]

MCLibraries ==
    {Pair(a, b) : a \in {Plain, Stuck, Absent}, b \in {Plain, Local, Broken}}
    \cup {Pair(Plain, Strange)} \cup [{t1} -> {Plain, Absent}] \cup {<< >>}

MCFilters ==
    {EmptyFilter,
     [EmptyFilter EXCEPT !.states = {"stalled"}],
     [EmptyFilter EXCEPT !.states = {"stalled"}, !.states_excluded = {"stalled"}],
     [EmptyFilter EXCEPT !.states_excluded = {"stalled", "errored"}, !.active = TRUE],
     [EmptyFilter EXCEPT !.completed = FALSE, !.categories_excluded = {k1}],
     [EmptyFilter EXCEPT !.range["ratio"].max = 1],
     [EmptyFilter EXCEPT !.has_trackers = FALSE, !.private = FALSE],
     [EmptyFilter EXCEPT !.name_contains = {<<1>>}, !.trackers = {x}],
     [EmptyFilter EXCEPT !.trackers_excluded = {x}],
     [EmptyFilter EXCEPT !.tracker_health = {"critical", "warning"}]}

\* Only doctor and status depend on the release; a search's query and its
\* filters are varied one at a time.  A command, that logs in once, meets one
\* outage; the calls and the watch meet MaxLosses.
Relevant ==
    /\ \/ cmd = NoCmd
       \/ cmd.query \in {Unset, [mode |-> "fuzzy", text |-> <<1>>]}
       \/ cmd.request.filters = EmptyFilter /\ cmd.query.mode # "tokens"
    /\ cmd # NoCmd => losses < 2
    /\ \/ release = <<5, 2>>
       \/ /\ lib \in {<< >>, [t \in {t1} |-> Plain]}
          /\ cmd = NoCmd \/ cmd.op \in {"doctor", "status"}

\* The surfaces are explored one at a time: they share the instance alone.
Alone ==
    /\ cached = None /\ phase = [c \in Calls |-> "idle"]
    /\ ~watching /\ shown = "none"

MCNext ==
    \/ Alone /\ Commands
    \/ Reads
    \/ Change
    \/ Instance /\ UNCHANGED <<command, world>>
    \/ /\ pc = "idle" /\ lib = << >> /\ release = <<5, 2>>
       /\ (Served \/ Watched) /\ UNCHANGED <<command, world>>

MCSpec == Init /\ [][MCNext]_vars /\ SessionsFairness
=============================================================================
