----------------------------- MODULE MutationRun -----------------------------
(***************************************************************************)
(* One command that changes torrents, from its options to its exit code,   *)
(* while other clients of the same qBittorrent go on working.              *)
(*                                                                         *)
(*   commands     qbit_ops.cli.commands.torrents, .trackers, .backup       *)
(*   run_mutation qbit_ops.cli.commands._shared                            *)
(*   policy       qbit_core.shared.execution                               *)
(*   reads        qbit_core.shared.inspection, qbit_core.features.*        *)
(*                                                                         *)
(* A command reads the server piece by piece, plans on what it read, asks  *)
(* when its risk calls for it, and sends its requests one at a time.  Each *)
(* may fail, or take effect and lose its answer.                           *)
(***************************************************************************)
EXTENDS MutationPlan

CONSTANTS
    NoCmd,
    Selections,    \* the torrents a command's options may select
    Targets,       \* the URLs --target names
    Exports,       \* what backup files hold: per torrent category, tags, urls
    Sources,       \* what import is given: sequences of hashes and Invalid
    MaxForeign     \* bound: changes by other clients during one command

\* What a backup file holds about a torrent
Backup == [category : Categories \cup {NoCategory}, tags : SUBSET Tags,
           urls : SUBSET Url]

ASSUME RunAssumption ==
    /\ Selections \subseteq SUBSET Torrents
    /\ Targets \subseteq Url /\ MaxForeign \in Nat
    /\ Exports \subseteq UNION {[S -> Backup] : S \in SUBSET Torrents}
    /\ Sources \subseteq Seq(Torrents \cup {Invalid})

VARIABLES
    srv,       \* the server
    cmd,       \* the command and its options
    pc,        \* idle, reading, planning, prompting, applying, done
    reads,     \* the reads still to make
    unread,    \* the torrents whose trackers are still to be read
    view,      \* what has been read
    plan,      \* [matched, reqs, source]
    sent,      \* how many requests have been answered
    failed,    \* which of them raised
    said,      \* the status run_mutation handed out last
    exit,      \* the exit code
    before,    \* the server when the command was given
    touched,   \* torrents other clients have changed since
    foreign    \* how many times they did

progress == <<reads, unread, view, plan, sent, failed>>
report == <<said, exit>>
others == <<before, touched, foreign>>
vars == <<srv, cmd, pc, progress, report, others>>

NoPlan == [matched |-> 0, reqs |-> << >>, source |-> {}]
Error == 1
NoMatch == 2

\* A command may be given on any server.
InitOn ==
    /\ before = srv
    /\ cmd = NoCmd /\ pc = "idle"
    /\ reads = << >> /\ unread = {} /\ view = srv
    /\ plan = NoPlan /\ sent = 0 /\ failed = {}
    /\ said = "none" /\ exit = 0
    /\ touched = {} /\ foreign = 0

Init == srv \in Server /\ InitOn

-----------------------------------------------------------------------------
(* The commands.  A CLI command is a dry run unless told otherwise, may say *)
(* --yes, and finds stderr a terminal or not; the TUI selects by hash from  *)
(* its snapshot and always asks; the library functions never do.            *)

Dry == [from |-> "cli", dry |-> TRUE, yes |-> FALSE, tty |-> TRUE]
Yes == [Dry EXCEPT !.dry = FALSE, !.yes = TRUE]
Asking == [Dry EXCEPT !.dry = FALSE]
Unattended == [Asking EXCEPT !.tty = FALSE]
Tui == [Asking EXCEPT !.from = "tui"]
Library == [Yes EXCEPT !.from = "library"]

TrackerOps == {"add_if_present", "remove", "replace", "replace_passkey"}

\* The reads an operation plans from, in order
ReadsOf(op) ==
    IF op = "category_set" THEN <<"known", "torrents">>
    ELSE IF op = "restore" THEN <<"torrents", "known", "trackers">>
    ELSE IF op \in TrackerOps THEN <<"torrents", "trackers">>
    ELSE <<"torrents">>

Started(op, sel, arg, mode) ==
    /\ cmd' = [op |-> op, sel |-> sel, arg |-> arg, mode |-> mode]
    /\ pc' = "reading" /\ reads' = ReadsOf(op)
    /\ unread' = {} /\ view' = srv
    /\ plan' = NoPlan /\ sent' = 0 /\ failed' = {}
    /\ said' = "none" /\ exit' = 0
    /\ UNCHANGED srv

SubmitOn(sels, op, arg) ==
    /\ pc = "idle"
    /\ \E sel \in sels, mode \in {Dry, Yes, Asking, Unattended} :
           Started(op, sel, arg, mode)
    /\ before' = srv /\ UNCHANGED <<touched, foreign>>

Submit(op, arg) == SubmitOn(Selections, op, arg)

Pause == Submit("pause", {})
Resume == Submit("resume", {})
Start == Submit("start", {})
Reannounce == Submit("reannounce", {})
Delete == Submit("delete", {})
CategorySet ==
    \E k \in Categories, create \in BOOLEAN :
        Submit("category_set", [category |-> k, create |-> create])
CategoryClear == Submit("category_clear", {})
TagAdd == \E g \in SUBSET Tags \ {{}} : Submit("tag_add", g)
TagRemove == \E g \in SUBSET Tags \ {{}} : Submit("tag_remove", g)

\* What throttle is asked: a limit for one direction at least
Limitings ==
    {a \in [down : Limits \cup {Untouched}, up : Limits \cup {Untouched}] :
        a.down # Untouched \/ a.up # Untouched}
Throttle == \E a \in Limitings : Submit("throttle", a)

\* --source-index, 0 when it is not given
Indexes == 0..Cardinality(Keys)

AddIfPresent ==
    \E u \in Targets, exact \in BOOLEAN, i \in Indexes :
        Submit("add_if_present", [target |-> u, exact |-> exact, index |-> i])
Replace ==
    \E u \in Targets, exact \in BOOLEAN, i \in Indexes :
        Submit("replace", [target |-> u, exact |-> exact, index |-> i])
ReplacePasskey == \E k \in Keys : Submit("replace_passkey", [key |-> k])
RemoveTracker == Submit("remove", {})
Restore == \E e \in Exports : SubmitOn({DOMAIN e}, "restore", e)
Import == \E s \in Sources : SubmitOn({ToSet(s) \ {Invalid}}, "import", s)

\* The TUI's Actions screen: the operator's marked torrents, some of which may
\* be gone from the snapshot, or from the server since.  It never deletes.
FromTui ==
    /\ pc = "idle"
    /\ \E sel \in Selections :
           \/ \E op \in {"pause", "resume", "start", "reannounce", "category_clear"} :
                  Started(op, sel, {}, Tui)
           \/ \E k \in Categories, create \in BOOLEAN :
                  Started("category_set", sel, [category |-> k, create |-> create], Tui)
           \/ \E op \in {"tag_add", "tag_remove"}, g \in SUBSET Tags \ {{}} :
                  Started(op, sel, g, Tui)
           \/ \E a \in Limitings : Started("throttle", sel, a, Tui)
    /\ before' = srv /\ UNCHANGED <<touched, foreign>>

\* pause_torrents_by_hash
PauseByHash ==
    /\ pc = "idle"
    /\ \E sel \in Selections : Started("pause_by_hash", sel, {}, Library)
    /\ before' = srv /\ UNCHANGED <<touched, foreign>>

\* Slip: what was found paused counts as paused by this call.
ChangedOrUnchanged == cmd.sel \cap view.present

\* changed_hashes of the pause that has just returned
ChangedHashes ==
    IF failed = {} THEN UNION {plan.reqs[i].on : i \in 1..Len(plan.reqs)}
    ELSE {}

\* resume_torrents_by_hash, with what the pause changed
ResumeByHash ==
    /\ pc = "done" /\ cmd.op = "pause_by_hash" /\ failed = {}
    /\ Started("resume_by_hash", ChangedHashes, {}, Library)
    /\ UNCHANGED others

\* Options refused before anything is read: an unsafe or contradictory
\* selector, an unsupported format, a secret and a confirmation that would
\* read the same stdin.
Refuse ==
    /\ pc = "idle"
    /\ cmd' = [op |-> "refused", sel |-> {}, arg |-> {}, mode |-> Yes]
    /\ pc' = "done" /\ exit' = Error
    /\ before' = srv
    /\ UNCHANGED <<srv, progress, said, touched, foreign>>

-----------------------------------------------------------------------------
(* Reading. *)

Leave(code) == pc' = "done" /\ exit' = code
ReadOn == pc' = IF Tail(reads) = << >> THEN "planning" ELSE "reading"

\* torrents_categories.  An unknown category is refused unless --create.
ReadCategories ==
    /\ pc = "reading" /\ Head(reads) = "known"
    /\ view' = [view EXCEPT !.known = srv.known]
    /\ reads' = Tail(reads)
    /\ \/ /\ cmd.op = "category_set" /\ ~cmd.arg.create
          /\ cmd.arg.category \notin srv.known
          /\ Leave(Error)
       \/ /\ ~(/\ cmd.op = "category_set" /\ ~cmd.arg.create
               /\ cmd.arg.category \notin srv.known)
          /\ ReadOn /\ UNCHANGED exit
    /\ UNCHANGED <<srv, cmd, unread, plan, sent, failed, said, others>>

\* torrents_info, which may embed the trackers of every torrent it lists.
ReadTorrents ==
    /\ pc = "reading" /\ Head(reads) = "torrents"
    /\ view' = [srv EXCEPT !.known = view.known]
    /\ \/ /\ cmd.op \in TrackerOps
          /\ reads' = << >> /\ pc' = "planning" /\ unread' = {}
       \/ /\ reads' = Tail(reads) /\ ReadOn
          /\ unread' = IF cmd.op \in TrackerOps \cup {"restore"}
                       THEN cmd.sel \cap srv.present ELSE {}
    /\ UNCHANGED <<srv, cmd, plan, sent, failed, report, others>>

\* torrents_trackers, one torrent at a time
ReadTrackers ==
    /\ pc = "reading" /\ Head(reads) = "trackers"
    /\ \/ /\ unread = {}
          /\ pc' = "planning" /\ reads' = << >>
          /\ UNCHANGED <<view, unread>>
       \/ \E t \in unread \cap srv.present :
              /\ view' = [view EXCEPT !.urls[t] = srv.urls[t]]
              /\ unread' = unread \ {t}
              /\ UNCHANGED <<pc, reads>>
    /\ UNCHANGED <<srv, cmd, plan, sent, failed, report, others>>

\* A read raises, which it does for a torrent deleted since the listing.
ReadFails ==
    /\ pc = "reading"
    /\ Leave(Error)
    /\ UNCHANGED <<srv, cmd, progress, said, others>>

-----------------------------------------------------------------------------
(* Planning and deciding. *)

Listing == cmd.sel \cap view.present

\* The URLs of t that the command's source matches
SourceOf(t) == {u \in view.urls[t] : IsSource(cmd, view, Listing, u)}

ByHash == cmd.mode.from # "cli"

BulkPlan ==
    LET changes == {t \in Listing : ~Skipped(cmd, view, t)}
    IN [matched |-> Cardinality(IF ByHash THEN cmd.sel ELSE Listing),
        reqs |-> IF changes = {} THEN << >>
                 ELSE BulkRequests(cmd, view, changes),
        source |-> {}]

TrackerPlan(order, lead) ==
    LET found == {t \in Listing : SourceOf(t) # {}}
        Calls(t) == IF t \in found
                    THEN TrackerRequests(cmd, view.urls[t], SourceOf(t), t, lead)
                    ELSE << >>
    IN [matched |-> Cardinality(found),
        reqs |-> FlattenSeq([i \in 1..Len(order) |-> Calls(order[i])]),
        source |-> UNION {SourceOf(t) : t \in found}]

RestorePlan(order) ==
    [matched |-> Len(order), source |-> {},
     reqs |-> RestoreRequests(view, cmd.arg, order)]

ImportPlan ==
    [matched |-> Len(Ready(view, cmd.arg)), source |-> {},
     reqs |-> ImportRequests(Ready(view, cmd.arg))]

\* The plan of a command, given the orders the server lists torrents and
\* trackers in.
PlanIn(order, lead) ==
    IF cmd.op \in TrackerOps THEN TrackerPlan(order, lead)
    ELSE IF cmd.op = "restore" THEN RestorePlan(order)
    ELSE IF cmd.op = "import" THEN ImportPlan
    ELSE BulkPlan

\* Slip: the command that adds a tracker is classified with the harmless ones.
LowRiskToo == {"pause", "resume", "start", "reannounce", "category_set",
               "category_clear", "tag_add", "tag_remove", "throttle",
               "add_if_present"}

\* MUTATION_RISK: everything else is of medium or high risk.
LowRisk == {"pause", "resume", "start", "reannounce", "category_set",
            "category_clear", "tag_add", "tag_remove", "throttle"}

\* ExecutionPolicy.decide; the TUI asks whatever the risk, the library never.
Decision ==
    LET m == cmd.mode IN
    IF m.dry THEN "preview"
    ELSE IF m.from = "library" THEN "apply"
    ELSE IF m.from = "tui" THEN "prompt"
    ELSE IF cmd.op \in LowRisk \/ m.yes THEN "apply"
    ELSE IF m.tty THEN "prompt" ELSE "refuse"

\* What the command exits with once run_mutation is through
ExitCode(p, bad) ==
    IF p.matched = 0 THEN NoMatch
    ELSE IF bad \/ (cmd.op = "import" /\ Contains(cmd.arg, Invalid)) THEN Error
    ELSE 0

\* A plan is refused, found to be empty, shown, or gone through with.
Decide ==
    /\ pc = "planning"
    /\ IF /\ cmd.op \in TrackerOps
          /\ \/ Ambiguous(cmd, view, Listing)
             \/ SameIdentity(cmd, view, Listing)
       THEN Leave(Error) /\ UNCHANGED <<plan, said>>
       ELSE \E order \in SetToSeqs(Listing), lead \in Url :
            LET p == PlanIn(order, lead) IN
            /\ plan' = p
            /\ \/ /\ p.matched = 0
                  /\ said' = "no_match" /\ Leave(ExitCode(p, FALSE))
               \/ /\ p.matched > 0 /\ p.reqs = << >>
                  /\ said' = "no_changes" /\ Leave(ExitCode(p, FALSE))
               \/ /\ p.matched > 0 /\ p.reqs # << >>
                  /\ \/ /\ Decision = "refuse"
                        /\ Leave(Error) /\ UNCHANGED said
                     \/ /\ Decision = "preview"
                        /\ said' = "preview" /\ Leave(ExitCode(p, FALSE))
                     \/ /\ Decision = "prompt"
                        /\ said' = "preview"
                        /\ pc' = "prompting" /\ UNCHANGED exit
                     \/ /\ Decision = "apply"
                        /\ pc' = "applying" /\ UNCHANGED <<said, exit>>
    /\ UNCHANGED <<srv, cmd, reads, unread, view, sent, failed, others>>

Confirm ==
    /\ pc = "prompting"
    /\ pc' = "applying"
    /\ UNCHANGED <<srv, cmd, progress, report, others>>

Decline ==
    /\ pc = "prompting"
    /\ Leave(0)
    /\ UNCHANGED <<srv, cmd, progress, said, others>>

-----------------------------------------------------------------------------
(* Applying. *)

\* Restore and import record a failure and go on; the others stop at it.
GoesOn == cmd.op \in {"restore", "import"}

\* The next request succeeds; fails and does nothing; or does what it was sent
\* to do and its answer is lost.
Send ==
    /\ pc = "applying" /\ sent < Len(plan.reqs)
    /\ LET r == plan.reqs[sent + 1] IN
       /\ sent' = sent + 1
       /\ \/ /\ ~Impossible(srv, r)
             /\ srv' = Done(srv, r)
             /\ UNCHANGED <<failed, pc, exit>>
          \/ /\ \/ srv' = srv
                \/ ~Impossible(srv, r) /\ srv' = Done(srv, r)
             /\ failed' = failed \cup {sent + 1}
             /\ IF GoesOn THEN UNCHANGED <<pc, exit>> ELSE Leave(Error)
    /\ UNCHANGED <<cmd, reads, unread, view, plan, said, others>>

\* apply_fn has returned.  Only a command that did not ask says APPLIED.
Finish ==
    /\ pc = "applying" /\ sent = Len(plan.reqs)
    /\ said' = IF Decision = "apply" THEN "applied" ELSE said
    /\ Leave(ExitCode(plan, failed # {}))
    /\ UNCHANGED <<srv, cmd, progress, others>>

\* Ctrl-C: KeyboardInterrupt passes every handler, wherever the command is.
Interrupt ==
    /\ pc \in {"reading", "planning", "prompting", "applying"}
    /\ Leave(130)
    /\ UNCHANGED <<srv, cmd, progress, said, others>>

-----------------------------------------------------------------------------
(* Other clients of the server. *)

ForeignEdits(t) ==
    {[srv EXCEPT !.present = @ \ {t}], [srv EXCEPT !.present = @ \cup {t}],
     [srv EXCEPT !.stopped = @ \ {t}], [srv EXCEPT !.stopped = @ \cup {t}]}
    \cup {[srv EXCEPT !.category[t] = k] : k \in srv.known \cup {NoCategory}}
    \cup {[srv EXCEPT !.tags[t] = SymDiff(@, {g})] : g \in Tags}
    \cup {[srv EXCEPT !.down[t] = l] : l \in Limits}
    \cup {[srv EXCEPT !.urls[t] = SymDiff(@, {u})] : u \in Url}

Foreign ==
    /\ pc \in {"reading", "planning", "prompting", "applying"}
    /\ foreign < MaxForeign
    /\ \/ \E t \in Torrents :
              /\ srv' \in ForeignEdits(t) \ {srv}
              /\ touched' = touched \cup {t}
       \/ \E k \in Categories :
              /\ srv' = [srv EXCEPT !.known = SymDiff(@, {k})]
              /\ \A t \in Torrents : srv.category[t] # k
              /\ UNCHANGED touched
    /\ foreign' = foreign + 1
    /\ UNCHANGED <<cmd, pc, progress, report, before>>

Commands ==
    \/ Pause \/ Resume \/ Start \/ Reannounce \/ Delete \/ CategorySet
    \/ CategoryClear \/ TagAdd \/ TagRemove \/ Throttle \/ AddIfPresent
    \/ Replace \/ ReplacePasskey \/ RemoveTracker \/ Restore \/ Import
    \/ FromTui \/ PauseByHash \/ ResumeByHash \/ Refuse

Next ==
    \/ Commands
    \/ ReadCategories \/ ReadTorrents \/ ReadTrackers \/ ReadFails
    \/ Decide \/ Confirm \/ Decline \/ Send \/ Finish \/ Interrupt
    \/ Foreign

Spec == Init /\ [][Next]_vars

-----------------------------------------------------------------------------
(* Properties.  They speak of the torrents no other client has touched: what *)
(* the others did is theirs to answer for.                                   *)

Untouchables == Torrents \ touched

TypeOK ==
    /\ srv \in Server /\ view \in Server /\ before \in Server
    /\ pc \in {"idle", "reading", "planning", "prompting", "applying", "done"}
    /\ unread \subseteq Torrents /\ touched \subseteq Torrents
    /\ plan.matched \in Nat /\ plan.source \subseteq Url
    /\ sent \in 0..Len(plan.reqs) /\ failed \subseteq 1..sent
    /\ said \in {"none", "no_match", "no_changes", "preview", "applied"}
    /\ exit \in {0, Error, NoMatch, 130}
    /\ foreign \in 0..MaxForeign

Changed(t) ==
    \/ (t \in srv.present) # (t \in before.present)
    \/ (t \in srv.stopped) # (t \in before.stopped)
    \/ srv.category[t] # before.category[t] \/ srv.tags[t] # before.tags[t]
    \/ srv.down[t] # before.down[t] \/ srv.up[t] # before.up[t]
    \/ srv.urls[t] # before.urls[t]

\* Docs and options: what cannot be taken back with another command of the
\* same kind is not done unasked.
Reversible == {"pause", "resume", "start", "category_set", "category_clear",
               "tag_add", "tag_remove", "throttle", "pause_by_hash",
               "resume_by_hash"}

\* No step of any command, of a dry run least of all, changes a torrent before
\* the operator has said yes, by an option or to a preview.
NothingBeforeConsent ==
    \A t \in Untouchables : Changed(t) =>
        /\ ~cmd.mode.dry
        /\ \/ cmd.op \in Reversible /\ cmd.mode.from # "tui"
           \/ cmd.mode.yes
           \/ said = "preview"

\* What each operation is for, of one torrent of its selection
Reached(t) ==
    LET c == cmd.arg IN
    CASE cmd.op \in {"pause", "pause_by_hash"} -> t \in srv.stopped
      [] cmd.op \in {"resume", "start", "resume_by_hash"} -> t \notin srv.stopped
      [] cmd.op = "reannounce" -> TRUE
      [] cmd.op = "delete" -> t \notin srv.present
      [] cmd.op = "category_set" -> srv.category[t] = c.category
      [] cmd.op = "category_clear" -> srv.category[t] = NoCategory
      [] cmd.op = "tag_add" -> c \subseteq srv.tags[t]
      [] cmd.op = "tag_remove" -> c \cap srv.tags[t] = {}
      [] cmd.op = "throttle" -> /\ c.down \in {Untouched, srv.down[t]}
                                /\ c.up \in {Untouched, srv.up[t]}
      [] cmd.op = "add_if_present" ->
             plan.source \cap srv.urls[t] # {} => HasTarget(cmd, srv.urls[t])
      [] cmd.op = "remove" -> \A u \in srv.urls[t] : u.host # "src"
      [] cmd.op = "replace" -> srv.urls[t] \cap plan.source = {}
      [] cmd.op = "replace_passkey" ->
             \A u \in srv.urls[t] : u.host = "src" => u.key = c.key
      [] cmd.op = "restore" -> /\ c[t].category # NoCategory =>
                                      srv.category[t] # NoCategory
                               /\ c[t].tags \subseteq srv.tags[t]
                               /\ c[t].urls \subseteq srv.urls[t]
      [] cmd.op = "import" -> t \in srv.present

\* A command that exits 0 having gone through with its plan, or having found
\* nothing to change, leaves every torrent it selected as it was asked to.
SuccessConverges ==
    pc = "done" /\ exit = 0 /\ sent = Len(plan.reqs) =>
        \A t \in (cmd.sel \ touched) \cap
                 (IF cmd.op = "import" THEN Torrents ELSE before.present) :
            Reached(t)

\* t has lost neither the tracker the command is about, which it has or has a
\* successor of, nor any other.
KeepsTrackers(t) ==
    LET had == before.urls[t]
        has == srv.urls[t]
    IN /\ {u \in had : u.host # "src"} \subseteq has
       /\ (\E u \in had : u.host = "src") =>
              \/ \E u \in has : u.host = "src"
              \/ cmd.op = "replace" /\ HasTarget(cmd, has)

\* The new URL is another one of the tracker itself, and counts as present
\* wherever the old one is.
TargetLikeSource ==
    cmd.op = "replace" /\ ~cmd.arg.exact /\ cmd.arg.target.host = "src"

\* Wherever a replacement stops, half done, refused by the server or
\* interrupted, no torrent is left without the tracker and its successor.
TrackerSurvives ==
    cmd # NoCmd /\ cmd.op \in {"replace", "replace_passkey"} =>
        TargetLikeSource \/ \A t \in Untouchables : KeepsTrackers(t)

\* "Target tracker to keep after replacement" (commands/trackers.py:778): the
\* same of every replacement.
ReplacementKeepsTracker ==
    cmd # NoCmd /\ cmd.op = "replace" =>
        \A t \in Untouchables : KeepsTrackers(t)

\* A restore takes nothing away and overwrites no category, whichever of its
\* requests fail.
RestoreOnlyAdds ==
    cmd # NoCmd /\ cmd.op = "restore" =>
        \A t \in Untouchables :
            /\ before.category[t] \in {NoCategory, srv.category[t]}
            /\ before.tags[t] \subseteq srv.tags[t]
            /\ before.urls[t] \subseteq srv.urls[t]
            /\ t \in before.present => t \in srv.present

\* Pausing by hash and resuming what that call changed is undoing it: torrents
\* already paused stay paused ("never successful_hashes").
PauseIsUndone ==
    pc = "done" /\ cmd.op = "resume_by_hash" /\ exit = 0 =>
        \A t \in Untouchables : ~Changed(t)
=============================================================================
