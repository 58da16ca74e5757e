--------------------------- MODULE CompletionCache ---------------------------
(***************************************************************************)
(* The cache of names that shell completion offers: one JSON file, read    *)
(* and rewritten by commands and completions running at the same time.     *)
(*                                                                         *)
(*   storage      qbit_ops.cli.completion_cache                            *)
(*   completion   qbit_ops.cli.completion_live                             *)
(*   fillers      commands.torrents._fill_completion_cache_from_torrents,  *)
(*                commands.trackers._fill_completion_cache_from_report     *)
(*                                                                         *)
(* A process is a command that has just read an instance, or a completion. *)
(* An update is a read, a merge and a rename, with no lock: what another   *)
(* process renames in between is overwritten.                              *)
(***************************************************************************)
EXTENDS Naturals

CONSTANTS
    Processes,
    Hosts,          \* instances whose entries share the file
    Names,          \* of categories, tags or trackers
    Damaged,        \* a file that is missing, truncated or no JSON
    Nothing,        \* no host
    Live,           \* the names each instance has
    MaxTasks,       \* bound: commands and completions run
    MaxDamage       \* bound: times something else ruins the file

Vocabularies == {"categories", "tags", "tracker_hosts"}
Known == [Vocabularies -> SUBSET Names]

NoNames == [v \in Vocabularies |-> {}]

\* InstanceVocabulary: the names and the cold-start witness
Entry == [names : Known, failed : BOOLEAN]
NoEntry == [names |-> NoNames, failed |-> FALSE]
Document == [Hosts -> Entry]
NoDocument == [h \in Hosts |-> NoEntry]

ASSUME CacheAssumption ==
    /\ Nothing \notin Hosts /\ MaxTasks \in Nat /\ MaxDamage \in Nat
    /\ Damaged \notin Document
    /\ Live \in [Hosts -> Known]

VARIABLES
    file,      \* what the path holds
    proc,      \* each process: what it does and how far it is
    tasks,     \* how many have been started
    damage,    \* how often the file was ruined by something else
    learned,   \* what completed updates have written
    alone      \* no update has yet been overtaken by another

vars == <<file, proc, tasks, damage, learned, alone>>

Idle == [stage |-> "idle", host |-> Nothing, vocabulary |-> "categories",
         found |-> NoNames, failed |-> FALSE, seen |-> NoDocument,
         answer |-> {}]

Init ==
    /\ file = Damaged
    /\ proc = [p \in Processes |-> Idle]
    /\ tasks = 0 /\ damage = 0
    /\ learned = [h \in Hosts |-> NoNames]
    /\ alone = TRUE

-----------------------------------------------------------------------------
(* Storage. *)

\* _read_cache_document: whatever cannot be read is an empty cache.
Read == IF file = Damaged THEN NoDocument ELSE file

\* Slip: an entry is whatever instance the file happens to know.
AnyEntry(doc, host) ==
    IF doc[host] # NoEntry THEN doc[host]
    ELSE IF \E h \in Hosts : doc[h] # NoEntry
         THEN doc[CHOOSE h \in Hosts : doc[h] # NoEntry]
         ELSE NoEntry

\* read_instance_vocabulary
EntryOf(doc, host) == doc[host]

Union(old, new) == [v \in Vocabularies |-> old[v] \cup new[v]]

\* Slip: what this run saw replaces what others had learned.
MergedOver(old, new) ==
    [v \in Vocabularies |-> IF new[v] # {} THEN new[v] ELSE old[v]]

\* _merged
Merged(old, new) == Union(old, new)

\* _update_entry: the document p is about to write
Updated(p) ==
    [proc[p].seen EXCEPT
        ![proc[p].host] =
            [names |-> Merged(@.names, proc[p].found), failed |-> proc[p].failed]]

\* The rest of an update, from the names found and the new witness on
Update(p, found, failed, answer) ==
    proc' = [proc EXCEPT ![p].stage = "updating", ![p].found = found,
                         ![p].failed = failed, ![p].answer = answer]

ReadDocument(p) ==
    /\ proc[p].stage = "updating"
    /\ proc' = [proc EXCEPT ![p].stage = "writing", ![p].seen = Read]
    /\ UNCHANGED <<file, tasks, damage, learned, alone>>

\* Slip: the file itself is opened for writing.
WriteInPlace(p) ==
    /\ proc[p].stage = "writing"
    /\ file' = Damaged
    /\ proc' = [proc EXCEPT ![p].stage = "renaming"]
    /\ UNCHANGED <<tasks, damage, learned, alone>>

\* mkstemp and json.dump, in the same directory
WriteTemporary(p) ==
    /\ proc[p].stage = "writing"
    /\ proc' = [proc EXCEPT ![p].stage = "renaming"]
    /\ UNCHANGED <<file, tasks, damage, learned, alone>>

\* Others who have read the document p is about to replace
Overtaken(p) == \E q \in Processes \ {p} : proc[q].stage \in {"writing", "renaming"}

\* The update is over, done or not.
Answered(p) ==
    proc' = [proc EXCEPT ![p] = [Idle EXCEPT !.stage = "answered",
                 !.host = proc[p].host, !.vocabulary = proc[p].vocabulary,
                 !.answer = proc[p].answer]]

\* os.replace
Rename(p) ==
    /\ proc[p].stage = "renaming"
    /\ file' = Updated(p)
    /\ Answered(p)
    /\ learned' = [learned EXCEPT ![proc[p].host] = Union(@, proc[p].found)]
    /\ alone' = (alone /\ ~Overtaken(p))
    /\ UNCHANGED <<tasks, damage>>

\* A full disk or a read-only directory: swallowed.
WriteFails(p) ==
    /\ proc[p].stage \in {"writing", "renaming"}
    /\ Answered(p)
    /\ UNCHANGED <<file, tasks, damage, learned, alone>>

-----------------------------------------------------------------------------
(* Commands and completions. *)

Begin(p, h) ==
    /\ proc[p].stage = "idle"
    /\ tasks < MaxTasks
    /\ tasks' = tasks + 1
    /\ UNCHANGED <<file, damage, learned, alone>>

\* torrents list: the categories and tags of the torrents it selected.
FillFromTorrents(p) ==
    \E h \in Hosts, cs, ts \in SUBSET Names :
        /\ Begin(p, h)
        /\ cs \subseteq Live[h]["categories"] /\ ts \subseteq Live[h]["tags"]
        /\ proc' = [proc EXCEPT ![p] = [Idle EXCEPT
               !.stage = "updating", !.host = h,
               !.found = [NoNames EXCEPT !["categories"] = cs, !["tags"] = ts]]]

\* Slip: the hosts come without the vocabularies that were not read.
FoundAlone(ns) == [v \in {"tracker_hosts"} |-> ns]

FoundInReport(ns) == [NoNames EXCEPT !["tracker_hosts"] = ns]

\* trackers list, trackers status: the tracker hosts of the report.
FillFromReport(p) ==
    \E h \in Hosts, ns \in SUBSET Names :
        /\ Begin(p, h)
        /\ ns \subseteq Live[h]["tracker_hosts"]
        /\ proc' = [proc EXCEPT ![p] = [Idle EXCEPT
               !.stage = "updating", !.host = h,
               !.found = FoundInReport(ns)]]

\* _values_for: a hit answers; a miss probes, for what is ever probed and
\* unless a probe has failed.
Complete(p) ==
    \E h \in Hosts, v \in Vocabularies :
        /\ Begin(p, h)
        /\ LET entry == EntryOf(Read, h)
               probes == /\ entry.names[v] = {}
                         /\ v # "tracker_hosts" /\ ~entry.failed
           IN proc' = [proc EXCEPT ![p] = [Idle EXCEPT
                  !.stage = IF probes THEN "probing" ELSE "answered",
                  !.host = h, !.vocabulary = v, !.answer = entry.names[v]]]

\* The probe's thread answers within the budget: with every category and tag,
\* or with an error.
ProbeAnswers(p) ==
    /\ proc[p].stage = "probing"
    /\ \/ LET found == [Live[proc[p].host] EXCEPT !["tracker_hosts"] = {}]
          IN Update(p, found, FALSE, found[proc[p].vocabulary])
       \/ Update(p, NoNames, TRUE, {})
    /\ UNCHANGED <<file, tasks, damage, learned, alone>>

\* Slip: join() without a timeout waits for the network.
NoBudget(p) == FALSE /\ UNCHANGED vars

\* join(timeout): the thread is abandoned and its answer never read.
BudgetExpires(p) ==
    /\ proc[p].stage = "probing"
    /\ Update(p, NoNames, TRUE, {})
    /\ UNCHANGED <<file, tasks, damage, learned, alone>>

\* The process ends and another may start.
Exit(p) ==
    /\ proc[p].stage = "answered"
    /\ proc' = [proc EXCEPT ![p] = Idle]
    /\ UNCHANGED <<file, tasks, damage, learned, alone>>

\* Ctrl-C, or the shell giving up on a completion, at any point
Killed(p) ==
    /\ proc[p].stage \notin {"idle", "answered"}
    /\ proc' = [proc EXCEPT ![p] = Idle]
    /\ UNCHANGED <<file, tasks, damage, learned, alone>>

\* Something else truncates or removes the file.
Damage ==
    /\ damage < MaxDamage
    /\ file' = Damaged
    /\ damage' = damage + 1
    /\ UNCHANGED <<proc, tasks, learned, alone>>

Step(p) ==
    \/ ReadDocument(p) \/ WriteTemporary(p) \/ Rename(p) \/ WriteFails(p)
    \/ Exit(p)

Next ==
    \/ \E p \in Processes :
           \/ FillFromTorrents(p) \/ FillFromReport(p) \/ Complete(p)
           \/ ProbeAnswers(p) \/ BudgetExpires(p) \/ Step(p) \/ Killed(p)
    \/ Damage

Spec == Init /\ [][Next]_vars

\* A process runs and its clock ticks; nothing is assumed of the network.
Fairness ==
    \A p \in Processes : WF_vars(Step(p)) /\ WF_vars(BudgetExpires(p))

FairSpec == Spec /\ Fairness

-----------------------------------------------------------------------------
(* Properties. *)

TypeOK ==
    /\ file \in Document \cup {Damaged}
    /\ proc \in [Processes ->
           [stage : {"idle", "probing", "updating", "writing", "renaming",
                     "answered"},
            host : Hosts \cup {Nothing}, vocabulary : Vocabularies,
            found : Known, failed : BOOLEAN, seen : Document,
            answer : SUBSET Names]]
    /\ learned \in [Hosts -> Known]
    /\ tasks \in 0..MaxTasks /\ damage \in 0..MaxDamage /\ alone \in BOOLEAN

\* "a command that only saw a filtered subset of the library must never erase
\* names a broader run already learned", and a failed probe regresses nothing:
\* as long as no two updates overlap, whatever is killed or fails to write in
\* them.  The file is then never seen half written.
NothingLostAlone ==
    alone /\ damage = 0 =>
        \A h \in Hosts, v \in Vocabularies :
            learned[h][v] # {} =>
                file # Damaged /\ learned[h][v] \subseteq file[h].names[v]

\* Overlapping updates may lose names but invent none: a completion never
\* offers, and the file never holds, a name its instance does not have.
NamesAreReal ==
    /\ \A p \in Processes : proc[p].stage = "answered" =>
           proc[p].answer \subseteq Live[proc[p].host][proc[p].vocabulary]
    /\ file # Damaged =>
           \A h \in Hosts, v \in Vocabularies :
               file[h].names[v] \subseteq Live[h][v]

\* Tab always comes back, however long the instance hangs.
CompletionReturns ==
    \A p \in Processes : proc[p].stage = "probing" ~> proc[p].stage = "idle"
=============================================================================
