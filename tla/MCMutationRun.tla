---------------------------- MODULE MCMutationRun ----------------------------
(* Model values and small worlds for TLC: each operation is given servers    *)
(* that differ only in what it is about.                                     *)
EXTENDS MutationRun, TLC

CONSTANTS t1, t2, k1, k2, g1, g2

MCTorrents == {t1, t2}
MCCategories == {k1, k2}
MCTags == {g1, g2}
MCSelections == {{t1}, {t1, t2}}
MCTargets == {[host |-> "dst", key |-> 1], [host |-> "src", key |-> 2]}
Entry(k, g, us) == [category |-> k, tags |-> g, urls |-> us]
MCExports ==
    {[t \in {t1} |-> Entry(k1, {g1}, {[host |-> "src", key |-> 1]})],
     [t \in {t1, t2} |-> Entry(k1, {}, {})],
     [t \in {t1, t2} |->
         IF t = t1 THEN Entry(NoCategory, {g1}, {}) ELSE Entry(k2, {}, {})]}
MCSources == {<<t1, t2>>, <<t2, t1, t2>>, <<t1, Invalid>>}

Plain ==
    [present |-> MCTorrents, stopped |-> {},
     category |-> [t \in MCTorrents |-> NoCategory],
     tags |-> [t \in MCTorrents |-> {}],
     down |-> [t \in MCTorrents |-> 0], up |-> [t \in MCTorrents |-> 0],
     urls |-> [t \in MCTorrents |-> {}], known |-> {k1}]

\* The fields an operation reads or writes
About(op) ==
    CASE op \in {"category_set", "category_clear"} -> {"category", "known"}
      [] op \in {"tag_add", "tag_remove"} -> {"tags"}
      [] op = "throttle" -> {"down", "up"}
      [] op \in TrackerOps -> {"urls"}
      [] op = "restore" -> {"category", "tags", "urls", "known"}
      [] OTHER -> {"present", "stopped"}

Differ == {f \in DOMAIN Plain : srv[f] # Plain[f]}

Src(k) == [host |-> "src", key |-> k]
Dst(k) == [host |-> "dst", key |-> k]
SomeUrls == SUBSET {Src(1), Src(2), Dst(1)} \cup {{Src(1), Dst(2)}}

\* Servers that differ from the plain one in one way
Worlds ==
    {[Plain EXCEPT !.stopped = s, !.present = p] :
        s \in SUBSET MCTorrents, p \in SUBSET MCTorrents}
    \cup {[Plain EXCEPT !.category = f, !.known = k] :
        f \in [MCTorrents -> {NoCategory, k1}], k \in {{k1}, {k1, k2}}}
    \cup {[Plain EXCEPT !.tags = f] : f \in [MCTorrents -> SUBSET MCTags]}
    \cup {[Plain EXCEPT !.down = f] : f \in [MCTorrents -> Limits]}
    \cup {[Plain EXCEPT !.up[t1] = 1, !.down[t2] = 1]}
    \cup {[Plain EXCEPT !.urls[t1] = a, !.urls[t2] = b] :
               a \in SomeUrls, b \in {{}, {Src(1), Src(2)}}}

MCInit == srv \in Worlds /\ InitOn

MCSpec == MCInit /\ [][Next]_vars

Relevant == cmd = NoCmd \/ cmd.op = "refused" \/ Differ \subseteq About(cmd.op) \cup {"present"}
=============================================================================
