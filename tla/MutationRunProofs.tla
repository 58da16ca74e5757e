--------------------------- MODULE MutationRunProofs ---------------------------
(***************************************************************************)
(* What a command that changes torrents may be relied on for, whatever its *)
(* options, the server it is given on, the requests that fail and the      *)
(* changes other clients make meanwhile.                                   *)
(*                                                                         *)
(*   Base        types, the command, its plan and what has been decided    *)
(*   Seen        what was read of a torrent nobody else touches            *)
(*   Consented   no change without a yes                                   *)
(*   Restoring   what a restore has left as it was                         *)
(*   Replacing   what a replacement has put in place                       *)
(*   Converging  what the requests still to be sent will bring about       *)
(*   ByHashKept  what a pause by hash leaves for its resume to undo        *)
(*                                                                         *)
(* Base is inductive by itself, Seen given Base, and each of the others    *)
(* given these two.                                                        *)
(***************************************************************************)
EXTENDS MutationPlanProofs

-----------------------------------------------------------------------------
(* The course of a command. *)

\* t is the same on a and b, but for having been stopped or started.
Alike(t, a, b) ==
    /\ t \in a.present <=> t \in b.present
    /\ a.category[t] = b.category[t] /\ a.tags[t] = b.tags[t]
    /\ a.down[t] = b.down[t] /\ a.up[t] = b.up[t] /\ a.urls[t] = b.urls[t]

Same(t, a, b) == Alike(t, a, b) /\ (t \in a.stopped <=> t \in b.stopped)

\* No plan yet
Unplanned == plan = NoPlan /\ sent = 0 /\ failed = {}

\* No command yet; one whose options were refused; or one that may be given.
CommandOK ==
    \/ pc = "idle" /\ view = srv /\ before = srv /\ Unplanned
    \/ pc = "done" /\ cmd.op = "refused" /\ exit = Error /\ before = srv
    \/ /\ pc # "idle" /\ Legal(cmd)
       /\ pc \in {"reading", "planning"} => Unplanned
       /\ plan.reqs \in Seq(Fitting(cmd, view)) /\ Ordered(cmd, view, plan.reqs)
       /\ \A u \in plan.source : Matched(cmd, view, u)
       /\ cmd.op \in {"pause_by_hash", "resume_by_hash"} => cmd.mode = Library

\* What has been said and decided by the time requests are sent, and after
DecisionOK ==
    /\ pc = "prompting" => /\ Decision = "prompt" /\ said = "preview"
                           /\ sent = 0 /\ failed = {}
    /\ pc = "applying" => \/ Decision = "apply"
                          \/ Decision = "prompt" /\ said = "preview"
    /\ pc = "applying" /\ failed # {} => GoesOn
    /\ pc = "done" /\ exit = 0 =>
           /\ failed = {}
           /\ sent = Len(plan.reqs) \/ Decision \in {"preview", "prompt"}

Base == TypeOK /\ CommandOK /\ DecisionOK

\* A command on its way, and what it has read
Given == pc # "idle" /\ cmd.op # "refused"

SeenOf(t) ==
    Given =>
        /\ Alike(t, view, before)
        /\ cmd.op # "resume_by_hash" => Same(t, view, before)
        /\ pc \in {"reading", "planning", "prompting"} => Same(t, view, srv)
        /\ cmd.op \notin {"delete", "import"} =>
               (t \in srv.present <=> t \in view.present)
        /\ cmd.op = "reannounce" => Same(t, view, srv)
        /\ cmd.op \in {"pause_by_hash", "resume_by_hash"} => Alike(t, view, srv)

Seen == pc = "idle" \/ \A t \in Untouchables : SeenOf(t)

\* Replacing: what has been put in place is in place.
HasSuccessor(t) ==
    /\ KeepsTrackers(t)
    /\ cmd.op = "replace" =>
           /\ HasTarget(cmd, view.urls[t]) => HasTarget(cmd, srv.urls[t])
           /\ failed = {} =>
                  \A j \in 1..sent :
                      plan.reqs[j].kind = "edit_tracker" /\ t \in plan.reqs[j].on
                          => HasTarget(cmd, srv.urls[t])

Replacing ==
    pc # "idle" /\ cmd.op \in {"replace", "replace_passkey"} =>
        TargetLikeSource \/ \A t \in Untouchables : HasSuccessor(t)

-----------------------------------------------------------------------------
(* Beginning. *)

\* A command has been given, and nothing has been read, sent or changed.
Begun ==
    /\ pc = "idle" /\ Legal(cmd') /\ pc' = "reading"
    /\ srv' = srv /\ before' = srv /\ view' = srv
    /\ plan' = NoPlan /\ sent' = 0 /\ failed' = {}
    /\ said' = "none" /\ exit' = 0 /\ unread' = {}
    /\ touched' = touched /\ foreign' = foreign
    /\ cmd'.op \notin {"refused", "resume_by_hash"}
    /\ cmd'.op = "pause_by_hash" => cmd'.mode = Library

\* A legal command that has been started has begun.
LEMMA StartedBegins ==
    ASSUME pc = "idle", NEW op, NEW sel, NEW arg, NEW mode,
           Started(op, sel, arg, mode), before' = srv,
           UNCHANGED <<touched, foreign>>,
           Legal([op |-> op, sel |-> sel, arg |-> arg, mode |-> mode]),
           op \notin {"refused", "resume_by_hash"},
           op = "pause_by_hash" => mode = Library
    PROVE  Begun
BY DEF Started, Begun

LEMMA SubmitBegins ==
    ASSUME NEW sels, sels \subseteq SUBSET Torrents, NEW op, NEW arg,
           SubmitOn(sels, op, arg),
           \A sel \in sels, mode \in Modes :
               Legal([op |-> op, sel |-> sel, arg |-> arg, mode |-> mode]),
           op \notin {"refused", "resume_by_hash", "pause_by_hash"}
    PROVE  Begun
<1>1. PICK sel \in sels, mode \in {Dry, Yes, Asking, Unattended} :
          Started(op, sel, arg, mode)
  BY DEF SubmitOn
<1>2. mode \in Modes
  BY DEF Modes
<1>3. Legal([op |-> op, sel |-> sel, arg |-> arg, mode |-> mode])
  BY <1>2
<1>4. pc = "idle" /\ before' = srv /\ UNCHANGED <<touched, foreign>>
  BY DEF SubmitOn
<1> QED
  BY <1>1, <1>3, <1>4, StartedBegins

\* ResumeByHash, after a pause of which no request has failed
Resumed ==
    /\ pc = "done" /\ cmd.op = "pause_by_hash" /\ failed = {}
    /\ cmd' = [op |-> "resume_by_hash", sel |-> ChangedHashes, arg |-> {},
               mode |-> Library]
    /\ pc' = "reading"
    /\ srv' = srv /\ before' = before /\ view' = srv
    /\ plan' = NoPlan /\ sent' = 0 /\ failed' = {}
    /\ said' = "none" /\ exit' = 0 /\ unread' = {}
    /\ touched' = touched /\ foreign' = foreign

Refused ==
    /\ pc = "idle" /\ pc' = "done" /\ exit' = Error
    /\ cmd'.op = "refused" /\ before' = srv
    /\ UNCHANGED <<srv, progress, said, touched, foreign>>

\* Every command a user, a screen or a caller may give is one of three things.
LEMMA CommandsBegin ==
    Commands => Begun \/ Resumed \/ Refused
<1> SUFFICES ASSUME Commands PROVE Begun \/ Resumed \/ Refused
  OBVIOUS
<1> USE RunAssumption
<1>1. ASSUME NEW op \in Bare \ {"pause_by_hash", "resume_by_hash"},
             Submit(op, {})
      PROVE  Begun
  <2>1. \A sel \in Selections, mode \in Modes :
            Legal([op |-> op, sel |-> sel, arg |-> {}, mode |-> mode])
    BY DEF Legal
  <2> QED
    BY <1>1, <2>1, SubmitBegins DEF Submit, Bare
<1>2. ASSUME NEW k \in Categories, NEW create \in BOOLEAN,
             Submit("category_set", [category |-> k, create |-> create])
      PROVE  Begun
  <2>1. \A sel \in Selections, mode \in Modes :
            Legal([op |-> "category_set", sel |-> sel,
                   arg |-> [category |-> k, create |-> create], mode |-> mode])
    BY DEF Legal
  <2> QED
    BY <1>2, <2>1, SubmitBegins DEF Submit
<1>3. ASSUME NEW op \in {"tag_add", "tag_remove"}, NEW g \in SUBSET Tags, Submit(op, g)
      PROVE  Begun
  <2>1. \A sel \in Selections, mode \in Modes :
            Legal([op |-> op, sel |-> sel, arg |-> g, mode |-> mode])
    BY DEF Legal
  <2> QED
    BY <1>3, <2>1, SubmitBegins DEF Submit
<1>4. ASSUME NEW a \in Limitings, Submit("throttle", a)
      PROVE  Begun
  <2>1. \A sel \in Selections, mode \in Modes :
            Legal([op |-> "throttle", sel |-> sel, arg |-> a, mode |-> mode])
    BY DEF Legal
  <2> QED
    BY <1>4, <2>1, SubmitBegins DEF Submit
<1>5. ASSUME NEW op \in {"add_if_present", "replace"}, NEW u \in Targets,
             NEW exact \in BOOLEAN, NEW i \in Indexes,
             Submit(op, [target |-> u, exact |-> exact, index |-> i])
      PROVE  Begun
  <2>1. \A sel \in Selections, mode \in Modes :
            Legal([op |-> op, sel |-> sel,
                   arg |-> [target |-> u, exact |-> exact, index |-> i],
                   mode |-> mode])
    BY DEF Legal
  <2> QED
    BY <1>5, <2>1, SubmitBegins DEF Submit
<1>6. ASSUME NEW k \in Keys, Submit("replace_passkey", [key |-> k])
      PROVE  Begun
  <2>1. \A sel \in Selections, mode \in Modes :
            Legal([op |-> "replace_passkey", sel |-> sel, arg |-> [key |-> k],
                   mode |-> mode])
    BY DEF Legal
  <2> QED
    BY <1>6, <2>1, SubmitBegins DEF Submit
<1>7. ASSUME NEW e \in Exports, SubmitOn({DOMAIN e}, "restore", e)
      PROVE  Begun
  <2>1. e \in [DOMAIN e -> Backup] /\ DOMAIN e \subseteq Torrents
    <3>1. PICK S \in SUBSET Torrents : e \in [S -> Backup]
      OBVIOUS
    <3> QED
      BY <3>1
  <2>2. \A sel \in {DOMAIN e}, mode \in Modes :
            Legal([op |-> "restore", sel |-> sel, arg |-> e, mode |-> mode])
    BY <2>1 DEF Legal
  <2> QED
    BY <1>7, <2>1, <2>2, SubmitBegins
<1>8. ASSUME NEW s \in Sources, SubmitOn({ToSet(s) \ {Invalid}}, "import", s)
      PROVE  Begun
  <2>1. ToSet(s) \ {Invalid} \subseteq Torrents
    BY DEF ToSet
  <2>2. \A sel \in {ToSet(s) \ {Invalid}}, mode \in Modes :
            Legal([op |-> "import", sel |-> sel, arg |-> s, mode |-> mode])
    BY <2>1 DEF Legal
  <2> QED
    BY <1>8, <2>1, <2>2, SubmitBegins
<1>9. CASE FromTui
  <2>1. PICK sel \in Selections :
           \/ \E op \in {"pause", "resume", "start", "reannounce", "category_clear"} :
                  Started(op, sel, {}, Tui)
           \/ \E k \in Categories, create \in BOOLEAN :
                  Started("category_set", sel, [category |-> k, create |-> create], Tui)
           \/ \E op \in {"tag_add", "tag_remove"}, g \in SUBSET Tags \ {{}} :
                  Started(op, sel, g, Tui)
           \/ \E a \in Limitings : Started("throttle", sel, a, Tui)
    BY <1>9 DEF FromTui
  <2>2. sel \subseteq Torrents /\ Tui \in Modes
    BY DEF Modes
  <2>3. pc = "idle" /\ before' = srv /\ UNCHANGED <<touched, foreign>>
    BY <1>9 DEF FromTui
  <2>4. ASSUME NEW op \in {"pause", "resume", "start", "reannounce", "category_clear"},
               Started(op, sel, {}, Tui)
        PROVE  Begun
    <3>1. Legal([op |-> op, sel |-> sel, arg |-> {}, mode |-> Tui])
      BY <2>2 DEF Legal, Bare
    <3> QED
      BY <2>3, <2>4, <3>1, StartedBegins
  <2>5. ASSUME NEW k \in Categories, NEW create \in BOOLEAN,
               Started("category_set", sel, [category |-> k, create |-> create], Tui)
        PROVE  Begun
    <3>1. Legal([op |-> "category_set", sel |-> sel,
                 arg |-> [category |-> k, create |-> create], mode |-> Tui])
      BY <2>2 DEF Legal
    <3> QED
      BY <2>3, <2>5, <3>1, StartedBegins
  <2>6. ASSUME NEW op \in {"tag_add", "tag_remove"}, NEW g \in SUBSET Tags,
               Started(op, sel, g, Tui)
        PROVE  Begun
    <3>1. Legal([op |-> op, sel |-> sel, arg |-> g, mode |-> Tui])
      BY <2>2 DEF Legal
    <3> QED
      BY <2>3, <2>6, <3>1, StartedBegins
  <2>7. ASSUME NEW a \in Limitings, Started("throttle", sel, a, Tui)
        PROVE  Begun
    <3>1. Legal([op |-> "throttle", sel |-> sel, arg |-> a, mode |-> Tui])
      BY <2>2 DEF Legal
    <3> QED
      BY <2>3, <2>7, <3>1, StartedBegins
  <2> QED
    BY <2>1, <2>4, <2>5, <2>6, <2>7
<1>10. CASE PauseByHash
  <2>1. PICK sel \in Selections : Started("pause_by_hash", sel, {}, Library)
    BY <1>10 DEF PauseByHash
  <2>2. Legal([op |-> "pause_by_hash", sel |-> sel, arg |-> {}, mode |-> Library])
    BY DEF Legal, Bare, Modes
  <2> QED
    BY <1>10, <2>1, <2>2, StartedBegins DEF PauseByHash
<1>11. CASE ResumeByHash
  BY <1>11 DEF ResumeByHash, Started, Resumed, others
<1>12. CASE Refuse
  BY <1>12 DEF Refuse, Leave, Refused
<1>13. ASSUME \/ Pause \/ Resume \/ Start \/ Reannounce \/ Delete
              \/ CategoryClear \/ RemoveTracker
       PROVE  Begun
  BY <1>1, <1>13 DEF Pause, Resume, Start, Reannounce, Delete, CategoryClear,
                     RemoveTracker, Bare
<1>14. ASSUME \/ CategorySet \/ TagAdd \/ TagRemove \/ Throttle
       PROVE  Begun
  BY <1>2, <1>3, <1>4, <1>14 DEF CategorySet, TagAdd, TagRemove, Throttle
<1>15. ASSUME AddIfPresent \/ Replace \/ ReplacePasskey \/ Restore \/ Import
       PROVE  Begun
  BY <1>5, <1>6, <1>7, <1>8, <1>15 DEF AddIfPresent, Replace, ReplacePasskey,
                                       Restore, Import
<1> QED
  BY <1>9, <1>10, <1>11, <1>12, <1>13, <1>14, <1>15 DEF Commands

-----------------------------------------------------------------------------
(* Types, and what each stage has decided. *)

\* The invariant of types and decisions, action by action
LEMMA BaseInit == Init => Base
<1> SUFFICES ASSUME Init PROVE Base
  OBVIOUS
<1> USE DEF Init, InitOn
<1>1. TypeOK
  BY RunAssumption DEF TypeOK, NoPlan
<1>2. CommandOK
  BY DEF CommandOK, Unplanned
<1>3. DecisionOK
  BY DEF DecisionOK
<1> QED
  BY <1>1, <1>2, <1>3 DEF Base

LEMMA BeginBase == Base /\ Commands => Base'
<1> SUFFICES ASSUME Base, Commands PROVE Base'
  OBVIOUS
<1>1. TypeOK /\ CommandOK
  BY DEF Base
<1>2. CASE Begun
  <2>1. TypeOK'
    BY <1>1, <1>2 DEF TypeOK, Begun, NoPlan
  <2>2. CommandOK'
    BY <1>2 DEF Begun, CommandOK, Unplanned, NoPlan, Ordered
  <2>3. DecisionOK'
    BY <1>2 DEF Begun, DecisionOK
  <2> QED
    BY <2>1, <2>2, <2>3 DEF Base
<1>3. CASE Resumed
  <2>1. TypeOK'
    BY <1>1, <1>3 DEF TypeOK, Resumed, NoPlan
  <2>2. plan.reqs \in Seq(Fitting(cmd, view))
    BY <1>1, <1>3 DEF CommandOK, Resumed
  <2>3. ChangedHashes \subseteq Torrents
    <3>1. \A i \in 1..Len(plan.reqs) : plan.reqs[i].on \subseteq Torrents
      BY <2>2 DEF Fitting, Requests
    <3> QED
      BY <3>1 DEF ChangedHashes
  <2>4. Legal(cmd')
    BY <1>3, <2>3 DEF Resumed, Legal, Bare, Modes
  <2>5. CommandOK'
    BY <1>3, <2>4 DEF Resumed, CommandOK, Unplanned, NoPlan, Ordered
  <2>6. DecisionOK'
    BY <1>3 DEF Resumed, DecisionOK
  <2> QED
    BY <2>1, <2>5, <2>6 DEF Base
<1>4. CASE Refused
  <2>1. TypeOK'
    BY <1>1, <1>4 DEF TypeOK, Refused, progress
  <2>2. CommandOK'
    BY <1>4 DEF Refused, CommandOK
  <2>3. DecisionOK'
    BY <1>4 DEF Refused, DecisionOK, Error
  <2> QED
    BY <2>1, <2>2, <2>3 DEF Base
<1> QED
  BY <1>2, <1>3, <1>4, CommandsBegin

\* The reads
Reading == ReadCategories \/ ReadTorrents \/ ReadTrackers \/ ReadFails

\* What a read leaves as it was, and what it knows afterwards
LEMMA ReadingReads ==
    ASSUME Base, Reading
    PROVE  /\ pc = "reading" /\ pc' \in {"reading", "planning", "done"}
           /\ pc' = "done" => exit' = Error
           /\ pc' # "done" => exit' = exit
           /\ UNCHANGED <<srv, cmd, plan, sent, failed, said, others>>
           /\ view' \in Server /\ unread' \subseteq Torrents
           /\ \A t \in Torrents : Same(t, view, srv) => Same(t, view', srv)
<1>1. view \in Server /\ srv \in Server /\ unread \subseteq Torrents
  BY DEF Base, TypeOK
<1>2. CASE ReadCategories
  <2>1. view' \in Server
    BY <1>1, <1>2 DEF ReadCategories, Server
  <2>2. \A t \in Torrents : Same(t, view, srv) => Same(t, view', srv)
    BY <1>1, <1>2 DEF ReadCategories, Server, Same, Alike
  <2> QED
    BY <1>1, <1>2, <2>1, <2>2 DEF ReadCategories, ReadOn, Leave
<1>3. CASE ReadTorrents
  <2>1. view' \in Server
    BY <1>1, <1>3 DEF ReadTorrents, Server
  <2>2. \A t \in Torrents : Same(t, view', srv)
    BY <1>1, <1>3 DEF ReadTorrents, Server, Same, Alike
  <2>3. unread' \subseteq Torrents
    BY <1>1, <1>3 DEF ReadTorrents, Server
  <2> QED
    BY <1>3, <2>1, <2>2, <2>3 DEF ReadTorrents, ReadOn, report
<1>4. CASE ReadTrackers
  <2>1. CASE unread = {} /\ pc' = "planning" /\ UNCHANGED <<view, unread>>
    BY <1>1, <1>4, <2>1 DEF ReadTrackers, report
  <2>2. ASSUME NEW t \in unread \cap srv.present,
               view' = [view EXCEPT !.urls[t] = srv.urls[t]],
               unread' = unread \ {t}, UNCHANGED pc
        PROVE  /\ view' \in Server /\ unread' \subseteq Torrents
               /\ \A u \in Torrents : Same(u, view, srv) => Same(u, view', srv)
    <3>1. view' \in Server
      BY <1>1, <2>2 DEF Server
    <3>2. \A u \in Torrents : Same(u, view, srv) => Same(u, view', srv)
      BY <1>1, <2>2 DEF Server, Same, Alike
    <3> QED
      BY <1>1, <2>2, <3>1, <3>2
  <2> QED
    BY <1>4, <2>1, <2>2 DEF ReadTrackers, report
<1>5. CASE ReadFails
  BY <1>1, <1>5 DEF ReadFails, Leave, progress
<1> QED
  BY <1>2, <1>3, <1>4, <1>5 DEF Reading

\* A command on its way is one that may be given.
LEMMA GivenLegal ==
    ASSUME Base, Given
    PROVE  /\ Legal(cmd)
           /\ pc \in {"reading", "planning"} => Unplanned
           /\ plan.reqs \in Seq(Fitting(cmd, view)) /\ Ordered(cmd, view, plan.reqs)
           /\ \A u \in plan.source : Matched(cmd, view, u)
           /\ cmd.op \in {"pause_by_hash", "resume_by_hash"} => cmd.mode = Library
BY DEF Base, CommandOK, Given

LEMMA Underway ==
    Base /\ pc \in {"reading", "planning", "prompting", "applying"} => Given
BY DEF Base, CommandOK, Given, Legal, Bare

LEMMA ReadingBase == Base /\ Reading => Base'
<1> SUFFICES ASSUME Base, Reading PROVE Base'
  OBVIOUS
<1>1. /\ pc = "reading" /\ pc' \in {"reading", "planning", "done"}
      /\ pc' = "done" => exit' = Error
      /\ pc' # "done" => exit' = exit
      /\ UNCHANGED <<srv, cmd, plan, sent, failed, said, others>>
      /\ view' \in Server /\ unread' \subseteq Torrents
  BY ReadingReads
<1>2. Legal(cmd) /\ Unplanned
      /\ (cmd.op \in {"pause_by_hash", "resume_by_hash"} => cmd.mode = Library)
  BY <1>1, Underway, GivenLegal
<1>3. TypeOK'
  BY <1>1 DEF Base, TypeOK, others
<1>4. CommandOK'
  BY <1>1, <1>2 DEF CommandOK, Unplanned, NoPlan, Ordered
<1>5. DecisionOK'
  BY <1>1 DEF DecisionOK, Error
<1> QED
  BY <1>3, <1>4, <1>5 DEF Base

\* A plan that has been made, and what came of it
Planned(p) ==
    /\ plan' = p /\ p.matched \in Nat /\ p.source \subseteq Url
    /\ \A u \in p.source : Matched(cmd, view, u)
    /\ Sound(cmd, view, p.reqs)
    /\ \/ /\ pc' = "done" /\ exit' = NoMatch /\ said' = "no_match"
       \/ /\ pc' = "done" /\ exit' \in {0, Error} /\ said' = "no_changes" /\ p.reqs = << >>
       \/ /\ pc' = "done" /\ exit' = Error /\ said' = said
       \/ /\ pc' = "done" /\ exit' \in {0, Error} /\ said' = "preview"
          /\ Decision = "preview"
       \/ /\ pc' = "prompting" /\ exit' = exit /\ said' = "preview"
          /\ Decision = "prompt"
       \/ /\ pc' = "applying" /\ exit' = exit /\ said' = said /\ Decision = "apply"

LEMMA DecideDecides ==
    ASSUME Base, Decide
    PROVE  /\ pc = "planning"
           /\ UNCHANGED <<srv, cmd, unread, view, sent, failed, others>>
           /\ \/ pc' = "done" /\ exit' = Error /\ UNCHANGED <<plan, said>>
              \/ \E p : Planned(p)
<1>1. pc = "planning" /\ UNCHANGED <<srv, cmd, unread, view, sent, failed, others>>
  BY DEF Decide
<1>2. Legal(cmd) /\ view \in Server
  BY <1>1, Underway, GivenLegal DEF Base, TypeOK
<1>3. CASE /\ cmd.op \in TrackerOps
           /\ \/ Ambiguous(cmd, view, Listing)
              \/ SameIdentity(cmd, view, Listing)
  BY <1>1, <1>3 DEF Decide, Leave
<1>4. CASE ~(/\ cmd.op \in TrackerOps
             /\ \/ Ambiguous(cmd, view, Listing)
                \/ SameIdentity(cmd, view, Listing))
  <2>1. PICK order \in SetToSeqs(Listing), lead \in Url :
            LET p == PlanIn(order, lead) IN
            /\ plan' = p
            /\ \/ /\ p.matched = 0
                  /\ said' = "no_match" /\ Leave(ExitCode(p, FALSE))
               \/ /\ p.matched > 0 /\ p.reqs = << >>
                  /\ said' = "no_changes" /\ Leave(ExitCode(p, FALSE))
               \/ /\ p.matched > 0 /\ p.reqs # << >>
                  /\ \/ /\ Decision = "refuse"
                        /\ Leave(Error) /\ UNCHANGED said
                     \/ /\ Decision = "preview"
                        /\ said' = "preview" /\ Leave(ExitCode(p, FALSE))
                     \/ /\ Decision = "prompt"
                        /\ said' = "preview"
                        /\ pc' = "prompting" /\ UNCHANGED exit
                     \/ /\ Decision = "apply"
                        /\ pc' = "applying" /\ UNCHANGED <<said, exit>>
    <3> HIDE DEF PlanIn, Leave, ExitCode, Decision
    <3> QED
      BY <1>4 DEF Decide
  <2> DEFINE p == PlanIn(order, lead)
  <2>2. /\ Sound(cmd, view, p.reqs)
        /\ p.matched \in Nat
        /\ p.source \subseteq Url
        /\ \A u \in p.source : Matched(cmd, view, u)
    BY <1>2, <1>4, PlanSound
  <2>3. plan' = p
        /\ \/ /\ p.matched = 0
              /\ said' = "no_match" /\ Leave(ExitCode(p, FALSE))
           \/ /\ p.matched > 0 /\ p.reqs = << >>
              /\ said' = "no_changes" /\ Leave(ExitCode(p, FALSE))
           \/ /\ p.matched > 0 /\ p.reqs # << >>
              /\ \/ /\ Decision = "refuse"
                    /\ Leave(Error) /\ UNCHANGED said
                 \/ /\ Decision = "preview"
                    /\ said' = "preview" /\ Leave(ExitCode(p, FALSE))
                 \/ /\ Decision = "prompt"
                    /\ said' = "preview"
                    /\ pc' = "prompting" /\ UNCHANGED exit
                 \/ /\ Decision = "apply"
                    /\ pc' = "applying" /\ UNCHANGED <<said, exit>>
    BY <2>1
  <2> HIDE DEF p
  <2>4. /\ p.matched = 0 => ExitCode(p, FALSE) = NoMatch
        /\ p.matched > 0 => ExitCode(p, FALSE) \in {0, Error}
    BY DEF ExitCode
  <2>5. Planned(p)
    BY <2>2, <2>3, <2>4 DEF Planned, Leave
  <2> QED
    BY <1>1, <2>5
<1> QED
  BY <1>3, <1>4

LEMMA DecideBase == Base /\ Decide => Base'
<1> SUFFICES ASSUME Base, Decide PROVE Base'
  OBVIOUS
<1>1. /\ pc = "planning"
      /\ UNCHANGED <<srv, cmd, unread, view, sent, failed, others>>
      /\ \/ pc' = "done" /\ exit' = Error /\ UNCHANGED <<plan, said>>
         \/ \E p : Planned(p)
  BY DecideDecides
<1>2. /\ Legal(cmd) /\ Unplanned
      /\ cmd.op \in {"pause_by_hash", "resume_by_hash"} => cmd.mode = Library
  BY <1>1, Underway, GivenLegal
<1>3. CASE pc' = "done" /\ exit' = Error /\ UNCHANGED <<plan, said>>
  <2>1. TypeOK'
    BY <1>1, <1>3 DEF Base, TypeOK, others
  <2>2. CommandOK'
    BY <1>1, <1>2, <1>3 DEF CommandOK, Unplanned, NoPlan, Ordered
  <2>3. DecisionOK'
    BY <1>3 DEF DecisionOK, Error
  <2> QED
    BY <2>1, <2>2, <2>3 DEF Base
<1>4. ASSUME NEW p, Planned(p) PROVE Base'
  <2>0. /\ p.reqs \in Seq(Fitting(cmd, view)) /\ Ordered(cmd, view, p.reqs)
        /\ Len(p.reqs) \in Nat /\ plan' = p
        /\ \A u \in p.source : Matched(cmd, view, u)
    BY <1>4 DEF Planned, Sound
  <2>1. TypeOK'
    <3>1. /\ sent' = 0 /\ failed' = {} /\ UNCHANGED <<srv, view, unread, others>>
      BY <1>1, <1>2 DEF Unplanned
    <3>2. sent' \in 0..Len(p.reqs) /\ failed' \subseteq 1..sent'
      BY <2>0, <3>1
    <3> QED
      BY <1>4, <2>0, <3>1, <3>2 DEF Base, TypeOK, others, Planned
  <2>2. CommandOK'
    <3>1. pc' \notin {"idle", "reading", "planning"}
      BY <1>4 DEF Planned
    <3>2. cmd' = cmd /\ view' = view
      BY <1>1
    <3> QED
      BY <1>2, <2>0, <3>1, <3>2 DEF CommandOK
  <2>3. DecisionOK'
    <3>1. sent' = 0 /\ failed' = {} /\ cmd' = cmd
      BY <1>1, <1>2 DEF Unplanned
    <3>2. Decision' = Decision
      BY <3>1 DEF Decision
    <3>3. p.reqs = << >> => Len(p.reqs) = 0
      OBVIOUS
    <3> QED
      BY <1>4, <2>0, <3>1, <3>2, <3>3 DEF DecisionOK, Planned, NoMatch, Error
  <2> QED
    BY <2>1, <2>2, <2>3 DEF Base
<1> QED
  BY <1>1, <1>3, <1>4

\* What the next request may do to the server
LEMMA SendSends ==
    ASSUME Base, Send
    PROVE  /\ pc = "applying" /\ Given /\ sent + 1 \in 1..Len(plan.reqs)
           /\ sent' = sent + 1
           /\ plan.reqs[sent + 1] \in Fitting(cmd, view)
           /\ \/ srv' = srv /\ failed' = failed \cup {sent + 1}
              \/ /\ Makes(srv, plan.reqs[sent + 1], srv')
                 /\ ~Impossible(srv, plan.reqs[sent + 1])
                 /\ failed' \in {failed, failed \cup {sent + 1}}
           /\ srv' \in Server
           /\ \/ UNCHANGED <<pc, exit>>
              \/ pc' = "done" /\ exit' = Error
           /\ failed' = failed \/ GoesOn \/ pc' = "done"
           /\ UNCHANGED <<cmd, unread, view, plan, said, others>>
<1> DEFINE r == plan.reqs[sent + 1]
<1>1. pc = "applying" /\ sent < Len(plan.reqs) /\ sent' = sent + 1
      /\ UNCHANGED <<cmd, unread, view, plan, said, others>>
  BY DEF Send
<1>2. Given /\ plan.reqs \in Seq(Fitting(cmd, view))
  BY <1>1, Underway, GivenLegal
<1>3. sent \in 0..Len(plan.reqs) /\ srv \in Server
  BY DEF Base, TypeOK
<1>4. sent + 1 \in 1..Len(plan.reqs) /\ r \in Fitting(cmd, view)
  BY <1>1, <1>2, <1>3
<1>5. r \in Requests
  BY <1>4 DEF Fitting
<1> HIDE DEF r
<1>6. Makes(srv, r, Done(srv, r))
  BY <1>3, <1>5, DoneMakes
<1>7. Done(srv, r) \in Server
  BY <1>6 DEF Makes
<1>8. \/ /\ ~Impossible(srv, r)
         /\ srv' = Done(srv, r)
         /\ UNCHANGED <<failed, pc, exit>>
      \/ /\ \/ srv' = srv
            \/ ~Impossible(srv, r) /\ srv' = Done(srv, r)
         /\ failed' = failed \cup {sent + 1}
         /\ IF GoesOn THEN UNCHANGED <<pc, exit>> ELSE Leave(Error)
  BY DEF Send, r
<1>9. /\ \/ srv' = srv /\ failed' = failed \cup {sent + 1}
         \/ /\ Makes(srv, r, srv') /\ ~Impossible(srv, r)
            /\ failed' \in {failed, failed \cup {sent + 1}}
      /\ srv' \in Server
  BY <1>3, <1>6, <1>7, <1>8
<1>10. /\ \/ UNCHANGED <<pc, exit>>
          \/ pc' = "done" /\ exit' = Error
       /\ failed' = failed \/ GoesOn \/ pc' = "done"
  BY <1>8 DEF Leave
<1> QED
  BY <1>1, <1>2, <1>4, <1>9, <1>10 DEF r

LEMMA SendBase == Base /\ Send => Base'
<1> SUFFICES ASSUME Base, Send PROVE Base'
  OBVIOUS
<1>1. /\ pc = "applying" /\ Given /\ sent + 1 \in 1..Len(plan.reqs)
      /\ sent' = sent + 1 /\ failed' \in {failed, failed \cup {sent + 1}}
      /\ srv' \in Server
      /\ \/ UNCHANGED <<pc, exit>>
         \/ pc' = "done" /\ exit' = Error
      /\ failed' = failed \/ GoesOn \/ pc' = "done"
      /\ UNCHANGED <<cmd, unread, view, plan, said, others>>
  BY SendSends
<1>2. TypeOK'
  <2>1. sent' \in 0..Len(plan.reqs) /\ failed' \subseteq 1..sent'
    BY <1>1 DEF Base, TypeOK
  <2> QED
    BY <1>1, <2>1 DEF Base, TypeOK, others
<1>3. CommandOK'
  BY <1>1, GivenLegal DEF CommandOK, Given
<1>4. DecisionOK'
  <2>1. Decision' = Decision /\ (GoesOn' <=> GoesOn)
    BY <1>1 DEF Decision, GoesOn
  <2> QED
    BY <1>1, <2>1 DEF Base, DecisionOK, Error
<1> QED
  BY <1>2, <1>3, <1>4 DEF Base

\* Confirm, Decline, Finish, Interrupt: the server and the plan stay.
Closing == Confirm \/ Decline \/ Finish \/ Interrupt

LEMMA ClosingCloses ==
    ASSUME Base, Closing
    PROVE  /\ Given /\ pc \in {"reading", "planning", "prompting", "applying"}
           /\ UNCHANGED <<srv, cmd, progress, others>>
           /\ \/ /\ pc = "prompting" /\ pc' = "applying" /\ UNCHANGED <<said, exit>>
              \/ /\ pc = "prompting" /\ pc' = "done" /\ exit' = 0 /\ said' = said
              \/ /\ pc = "applying" /\ pc' = "done" /\ sent = Len(plan.reqs)
                 /\ exit' \in {NoMatch, Error, 0}
                 /\ exit' = 0 => failed = {}
                 /\ said' = IF Decision = "apply" THEN "applied" ELSE said
              \/ pc' = "done" /\ exit' = 130 /\ said' = said
<1>1. CASE Confirm
  BY <1>1, Underway DEF Confirm, report
<1>2. CASE Decline
  BY <1>2, Underway DEF Decline, Leave
<1>3. CASE Finish
  BY <1>3, Underway DEF Finish, Leave, ExitCode, NoMatch, Error
<1>4. CASE Interrupt
  BY <1>4, Underway DEF Interrupt, Leave
<1> QED
  BY <1>1, <1>2, <1>3, <1>4 DEF Closing

LEMMA ClosingBase == Base /\ Closing => Base'
<1> SUFFICES ASSUME Base, Closing PROVE Base'
  OBVIOUS
<1>1. /\ Given /\ pc \in {"reading", "planning", "prompting", "applying"}
      /\ UNCHANGED <<srv, cmd, progress, others>>
      /\ \/ /\ pc = "prompting" /\ pc' = "applying" /\ UNCHANGED <<said, exit>>
         \/ /\ pc = "prompting" /\ pc' = "done" /\ exit' = 0 /\ said' = said
         \/ /\ pc = "applying" /\ pc' = "done" /\ sent = Len(plan.reqs)
            /\ exit' \in {NoMatch, Error, 0}
            /\ exit' = 0 => failed = {}
            /\ said' = IF Decision = "apply" THEN "applied" ELSE said
         \/ pc' = "done" /\ exit' = 130 /\ said' = said
  BY ClosingCloses
<1>2. TypeOK'
  BY <1>1 DEF Base, TypeOK, others, progress
<1>3. CommandOK'
  BY <1>1, GivenLegal DEF CommandOK, Given, progress
<1>4. DecisionOK'
  <2>1. Decision' = Decision /\ (GoesOn' <=> GoesOn)
    BY <1>1 DEF Decision, GoesOn
  <2>2. pc = "prompting" => failed = {}
    BY DEF Base, DecisionOK
  <2> QED
    BY <1>1, <2>1, <2>2 DEF Base, DecisionOK, Error, NoMatch, progress
<1> QED
  BY <1>2, <1>3, <1>4 DEF Base

\* A change by another client leaves every torrent but the one it touches.
LEMMA ForeignTouches ==
    ASSUME Base, Foreign
    PROVE  /\ Given /\ pc \in {"reading", "planning", "prompting", "applying"}
           /\ srv' \in Server /\ touched \subseteq touched' /\ touched' \subseteq Torrents
           /\ \A t \in Torrents \ touched' : Same(t, srv', srv)
           /\ foreign' \in 0..MaxForeign
           /\ UNCHANGED <<cmd, pc, progress, report, before>>
<1>1. srv \in Server /\ touched \subseteq Torrents /\ foreign \in 0..MaxForeign
  BY DEF Base, TypeOK
<1>2. MaxForeign \in Nat
  BY RunAssumption
<1>3. ASSUME NEW t \in Torrents, NEW s \in ForeignEdits(t)
      PROVE  s \in Server /\ \A u \in Torrents \ {t} : Same(u, s, srv)
  <2>1. s \in Server
    BY <1>1, <1>3 DEF ForeignEdits, Server, SymDiff
  <2>2. CASE s \in {[srv EXCEPT !.present = @ \ {t}],
                     [srv EXCEPT !.present = @ \cup {t}],
                     [srv EXCEPT !.stopped = @ \ {t}],
                     [srv EXCEPT !.stopped = @ \cup {t}]}
    BY <1>1, <2>2 DEF Server, Same, Alike
  <2>3. CASE s \in {[srv EXCEPT !.category[t] = k] : k \in srv.known \cup {NoCategory}}
    BY <1>1, <2>3 DEF Server, Same, Alike
  <2>4. CASE s \in {[srv EXCEPT !.tags[t] = SymDiff(@, {g})] : g \in Tags}
    BY <1>1, <2>1, <2>4 DEF Server, Same, Alike
  <2>5. CASE s \in {[srv EXCEPT !.down[t] = l] : l \in Limits}
    BY <1>1, <2>5 DEF Server, Same, Alike
  <2>6. CASE s \in {[srv EXCEPT !.urls[t] = SymDiff(@, {u})] : u \in Url}
    BY <1>1, <2>1, <2>6 DEF Server, Same, Alike
  <2> QED
    BY <1>3, <2>1, <2>2, <2>3, <2>4, <2>5, <2>6 DEF ForeignEdits
<1>4. /\ pc \in {"reading", "planning", "prompting", "applying"}
      /\ foreign < MaxForeign /\ foreign' = foreign + 1
      /\ UNCHANGED <<cmd, pc, progress, report, before>>
  BY DEF Foreign
<1>5. CASE \E t \in Torrents : srv' \in ForeignEdits(t) \ {srv} /\ touched' = touched \cup {t}
  BY <1>1, <1>2, <1>3, <1>4, <1>5, Underway
<1>6. CASE \E k \in Categories :
              /\ srv' = [srv EXCEPT !.known = SymDiff(@, {k})] /\ UNCHANGED touched
  <2>1. srv' \in Server
    BY <1>1, <1>6 DEF Server, SymDiff
  <2>2. \A t \in Torrents : Same(t, srv', srv)
    BY <1>1, <1>6 DEF Server, Same, Alike
  <2> QED
    BY <1>1, <1>2, <1>4, <1>6, <2>1, <2>2, Underway
<1> QED
  BY <1>5, <1>6 DEF Foreign

LEMMA ForeignBase == Base /\ Foreign => Base'
<1> SUFFICES ASSUME Base, Foreign PROVE Base'
  OBVIOUS
<1>1. /\ Given /\ pc \in {"reading", "planning", "prompting", "applying"}
      /\ srv' \in Server /\ touched' \subseteq Torrents
      /\ foreign' \in 0..MaxForeign
      /\ UNCHANGED <<cmd, pc, progress, report, before>>
  BY ForeignTouches
<1>2. TypeOK'
  BY <1>1 DEF Base, TypeOK, progress, report
<1>3. CommandOK'
  BY <1>1, GivenLegal DEF CommandOK, Given, progress, Unplanned
<1>4. DecisionOK'
  <2>1. Decision' = Decision /\ (GoesOn' <=> GoesOn)
    BY <1>1 DEF Decision, GoesOn
  <2> QED
    BY <1>1, <2>1 DEF Base, DecisionOK, progress, report
<1> QED
  BY <1>2, <1>3, <1>4 DEF Base

\* The kinds of steps
LEMMA NextSplits ==
    [Next]_vars => \/ Commands \/ Reading \/ Decide \/ Send \/ Closing \/ Foreign
                   \/ UNCHANGED vars
BY DEF Next, Reading, Closing

LEMMA BaseStep == Base /\ [Next]_vars => Base'
<1>1. Base /\ UNCHANGED vars => Base'
  <2> SUFFICES ASSUME Base, UNCHANGED vars PROVE Base'
    OBVIOUS
  <2> USE DEF vars, progress, report, others
  <2>1. TypeOK'
    BY DEF Base, TypeOK
  <2>2. CommandOK'
    BY DEF Base, CommandOK, Unplanned
  <2>3. DecisionOK'
    BY DEF Base, DecisionOK, Decision, GoesOn
  <2> QED
    BY <2>1, <2>2, <2>3 DEF Base
<1> QED
  BY <1>1, BeginBase, ReadingBase, DecideBase, SendBase, ClosingBase, ForeignBase,
     NextSplits

\* Types, plans and decisions are as run_mutation has them, in every state.
THEOREM AlwaysBase == Spec => []Base
BY BaseInit, BaseStep, PTL DEF Spec

\* Whatever a command is given and read, and whatever other clients do meanwhile,
\* its plan, its progress and its exit code are of the kinds the CLI knows
\* (run_mutation, ExecutionPolicy).
THEOREM TypeCorrect == Spec => []TypeOK
BY AlwaysBase, PTL DEF Base
-----------------------------------------------------------------------------
(* What a command has seen of a torrent no other client has touched. *)

\* What a request of the plan leaves of a torrent
LEMMA RequestLeaves ==
    ASSUME NEW r \in Fitting(cmd, view), NEW s, Makes(srv, r, s), NEW t \in Torrents,
           Legal(cmd)
    PROVE  /\ cmd.op \notin {"delete", "import"} =>
                  (t \in s.present <=> t \in srv.present)
           /\ cmd.op = "reannounce" => Same(t, srv, s)
           /\ cmd.op \in {"pause_by_hash", "resume_by_hash"} => Alike(t, srv, s)
<1>1. Fits(cmd, view, r)
  BY DEF Fitting
<1>2. cmd.op \notin {"delete", "import"} => r.kind \notin {"delete", "add"}
  BY <1>1 DEF Fits, Legal, Bare
<1>3. cmd.op = "reannounce" => r.kind = "reannounce"
  BY <1>1 DEF Fits
<1>4. cmd.op \in {"pause_by_hash", "resume_by_hash"} => r.kind \in {"stop", "start"}
  BY <1>1 DEF Fits
<1> QED
  BY <1>2, <1>3, <1>4 DEF Makes, Same, Alike

\* Being alike and being the same are equivalences.
LEMMA SameAgain ==
    ASSUME NEW t, NEW a, NEW b, NEW c
    PROVE  /\ Alike(t, a, b) /\ Alike(t, b, c) => Alike(t, a, c)
           /\ Same(t, a, b) /\ Same(t, b, c) => Same(t, a, c)
           /\ Same(t, a, b) => Alike(t, a, b) /\ Same(t, b, a)
           /\ Alike(t, a, b) => Alike(t, b, a)
           /\ Same(t, a, a)
BY DEF Alike, Same

LEMMA SeenInit == Init => Seen
BY DEF Init, InitOn, Seen

LEMMA BeginSeen == Base /\ Seen /\ Commands => Seen'
<1> SUFFICES ASSUME Base, Seen, Commands PROVE Seen'
  OBVIOUS
<1>1. CASE Begun
  BY <1>1, SameAgain DEF Begun, Seen, SeenOf
<1>2. CASE Resumed
  <2> SUFFICES ASSUME NEW t \in Torrents, t \notin touched' PROVE SeenOf(t)'
    BY DEF Seen, Untouchables
  <2>1. SeenOf(t) /\ Given
    BY <1>2 DEF Resumed, Seen, Untouchables, Given
  <2>2. Alike(t, view, before) /\ Alike(t, view, srv)
    BY <1>2, <2>1 DEF SeenOf, Resumed
  <2>3. /\ view' = srv /\ srv' = srv /\ before' = before
        /\ cmd'.op = "resume_by_hash" /\ pc' = "reading"
    BY <1>2 DEF Resumed
  <2>4. Alike(t, srv, before) /\ Same(t, srv, srv) /\ Alike(t, srv, srv)
    BY <2>2, SameAgain
  <2> QED
    BY <2>3, <2>4 DEF SeenOf, Same, Alike
<1>3. CASE Refused
  BY <1>3 DEF Refused, Seen, SeenOf, Given
<1> QED
  BY <1>1, <1>2, <1>3, CommandsBegin

LEMMA ReadingSeen == Base /\ Seen /\ Reading => Seen'
<1> SUFFICES ASSUME Base, Seen, Reading, NEW t \in Torrents, t \notin touched'
             PROVE  SeenOf(t)'
  BY DEF Seen, Untouchables
<1>1. /\ pc = "reading" /\ pc' \in {"reading", "planning", "done"}
      /\ UNCHANGED <<srv, cmd, before, touched>>
      /\ Same(t, view, srv) => Same(t, view', srv)
  BY ReadingReads DEF others
<1>2. SeenOf(t) /\ Given
  BY <1>1, Underway DEF Seen, Untouchables
<1>3. Same(t, view', srv) /\ Same(t, view', view)
  BY <1>1, <1>2, SameAgain DEF SeenOf
<1>4. /\ Alike(t, view', before)
      /\ cmd.op # "resume_by_hash" => Same(t, view', before)
  BY <1>2, <1>3, SameAgain DEF SeenOf
<1>5. (t \in srv.present <=> t \in view'.present) /\ Alike(t, view', srv)
  BY <1>3 DEF Same, Alike
<1> QED
  BY <1>1, <1>3, <1>4, <1>5 DEF SeenOf

LEMMA DecideSeen == Base /\ Seen /\ Decide => Seen'
<1> SUFFICES ASSUME Base, Seen, Decide, NEW t \in Torrents, t \notin touched'
             PROVE  SeenOf(t)'
  BY DEF Seen, Untouchables
<1>1. pc = "planning" /\ UNCHANGED <<srv, cmd, view, before, touched>>
  BY DecideDecides DEF others
<1>2. SeenOf(t) /\ Given
  BY <1>1, Underway DEF Seen, Untouchables
<1> QED
  BY <1>1, <1>2 DEF SeenOf

LEMMA SendSeen == Base /\ Seen /\ Send => Seen'
<1> SUFFICES ASSUME Base, Seen, Send, NEW t \in Torrents, t \notin touched'
             PROVE  SeenOf(t)'
  BY DEF Seen, Untouchables
<1> DEFINE r == plan.reqs[sent + 1]
<1>1. /\ pc = "applying" /\ pc' \in {"applying", "done"} /\ Given
      /\ r \in Fitting(cmd, view)
      /\ srv' = srv \/ Makes(srv, r, srv')
      /\ UNCHANGED <<cmd, view, before, touched>>
  BY SendSends DEF others
<1>2. SeenOf(t) /\ Legal(cmd)
  BY <1>1, GivenLegal DEF Seen, Untouchables, Given
<1> HIDE DEF r
<1>3. /\ cmd.op \notin {"delete", "import"} =>
             (t \in srv'.present <=> t \in srv.present)
      /\ cmd.op = "reannounce" => Same(t, srv, srv')
      /\ cmd.op \in {"pause_by_hash", "resume_by_hash"} => Alike(t, srv, srv')
  BY <1>1, <1>2, RequestLeaves, SameAgain
<1>4. /\ cmd.op = "reannounce" => Same(t, view, srv')
      /\ cmd.op \in {"pause_by_hash", "resume_by_hash"} => Alike(t, view, srv')
  BY <1>1, <1>2, <1>3, SameAgain DEF SeenOf
<1> QED
  BY <1>1, <1>2, <1>3, <1>4 DEF SeenOf

LEMMA ClosingSeen == Base /\ Seen /\ Closing => Seen'
<1> SUFFICES ASSUME Base, Seen, Closing, NEW t \in Torrents, t \notin touched'
             PROVE  SeenOf(t)'
  BY DEF Seen, Untouchables
<1>1. /\ Given /\ pc' \in {"applying", "done"}
      /\ UNCHANGED <<srv, cmd, view, before, touched>>
  BY ClosingCloses DEF others, progress
<1>2. SeenOf(t)
  BY <1>1 DEF Seen, Untouchables, Given
<1> QED
  BY <1>1, <1>2 DEF SeenOf

LEMMA ForeignSeen == Base /\ Seen /\ Foreign => Seen'
<1> SUFFICES ASSUME Base, Seen, Foreign, NEW t \in Torrents, t \notin touched'
             PROVE  SeenOf(t)'
  BY DEF Seen, Untouchables
<1>1. /\ Given /\ Same(t, srv', srv) /\ t \notin touched
      /\ UNCHANGED <<cmd, pc, view, before>>
  BY ForeignTouches DEF progress
<1>2. SeenOf(t)
  BY <1>1 DEF Seen, Untouchables, Given
<1>3. /\ Same(t, view, srv) => Same(t, view, srv')
      /\ Alike(t, view, srv) => Alike(t, view, srv')
      /\ t \in srv'.present <=> t \in srv.present
  BY <1>1 DEF Same, Alike
<1> QED
  BY <1>1, <1>2, <1>3 DEF SeenOf

LEMMA SeenStep == Base /\ Seen /\ [Next]_vars => Seen'
<1>1. Seen /\ UNCHANGED vars => Seen'
  BY DEF Seen, SeenOf, Given, Untouchables, vars, progress, report, others
<1> QED
  BY <1>1, BeginSeen, ReadingSeen, DecideSeen, SendSeen, ClosingSeen, ForeignSeen,
     NextSplits

LEMMA AlwaysSeen == Spec => []Seen
BY AlwaysBase, SeenInit, SeenStep, PTL DEF Spec

-----------------------------------------------------------------------------
(* Consent. *)

\* A changed torrent is one that is not the same as before.
LEMMA ChangedIsDifferent ==
    \A t : Changed(t) <=> ~Same(t, srv, before)
BY DEF Changed, Same, Alike

\* The operator's yes, by an option or to a preview
Consent ==
    /\ ~cmd.mode.dry
    /\ \/ cmd.op \in Reversible /\ cmd.mode.from # "tui"
       \/ cmd.mode.yes
       \/ said = "preview"

Consented ==
    pc # "idle" =>
        /\ cmd.op = "resume_by_hash" => Consent
        /\ \A t \in Untouchables : Changed(t) => Consent

\* The options a command can have been given
LEMMA ModesAre ==
    ASSUME NEW m \in Modes
    PROVE  /\ m.dry \in BOOLEAN /\ m.yes \in BOOLEAN
           /\ m.from \in {"cli", "tui", "library"}
           /\ m.from = "library" => m.yes
<1>1. /\ Dry.dry = TRUE /\ Dry.yes = FALSE /\ Dry.from = "cli"
      /\ Yes.dry = FALSE /\ Yes.yes = TRUE /\ Yes.from = "cli"
      /\ Asking.dry = FALSE /\ Asking.yes = FALSE /\ Asking.from = "cli"
  BY DEF Dry, Yes, Asking
<1>2. /\ Unattended.dry = FALSE /\ Unattended.yes = FALSE /\ Unattended.from = "cli"
      /\ Tui.dry = FALSE /\ Tui.yes = FALSE /\ Tui.from = "tui"
      /\ Library.dry = FALSE /\ Library.yes = TRUE /\ Library.from = "library"
  BY DEF Dry, Yes, Asking, Unattended, Tui, Library
<1> QED
  BY <1>1, <1>2 DEF Modes

\* What is applied without asking is harmless, or has been agreed to.
LEMMA ApplyConsents ==
    ASSUME Legal(cmd), Decision = "apply", cmd.op # "reannounce"
    PROVE  /\ ~cmd.mode.dry
           /\ (cmd.op \in Reversible /\ cmd.mode.from # "tui") \/ cmd.mode.yes
<1> DEFINE m == cmd.mode
<1>1. m \in Modes
  BY DEF Legal
<1>2. /\ m.dry \in BOOLEAN /\ m.yes \in BOOLEAN
      /\ m.from \in {"cli", "tui", "library"}
      /\ m.from = "library" => m.yes
  BY <1>1, ModesAre
<1> QED
  BY <1>2 DEF Decision, LowRisk, Reversible

\* A decision to apply or to ask, and the yes it takes to go on from there
LEMMA DecisionConsents ==
    ASSUME Base, Given, pc = "applying"
    PROVE  Consent \/ cmd.op = "reannounce"
<1>1. \/ Decision = "apply"
      \/ Decision = "prompt" /\ said = "preview"
  BY DEF Base, DecisionOK
<1>2. CASE Decision = "prompt" /\ said = "preview"
  BY <1>2 DEF Decision, Consent
<1>3. CASE Decision = "apply"
  BY <1>3, GivenLegal, ApplyConsents DEF Consent
<1> QED
  BY <1>1, <1>2, <1>3

\* No step changes a torrent without consent.
LEMMA ConsentedStep == Base /\ Seen /\ Seen' /\ Consented /\ [Next]_vars => Consented'
<1> SUFFICES ASSUME Base, Seen, Seen', Consented, [Next]_vars PROVE Consented'
  OBVIOUS
<1>1. CASE Commands
  <2>1. CASE Begun
    BY <2>1, ChangedIsDifferent, SameAgain DEF Begun, Consented, Changed
  <2>2. CASE Resumed
    BY <2>2 DEF Resumed, Consented, Consent, Library, Yes, Dry
  <2>3. CASE Refused
    BY <2>3 DEF Refused, Consented, Changed
  <2> QED
    BY <1>1, <2>1, <2>2, <2>3, CommandsBegin
<1>2. ASSUME Given, pc \in {"reading", "planning"}, Given', 
             UNCHANGED <<srv, cmd, before, touched>>
      PROVE  Consented'
  <2>1. CASE cmd.op = "resume_by_hash"
    BY <1>2, <2>1, GivenLegal DEF Consented, Consent, Library, Yes, Dry
  <2>2. CASE cmd.op # "resume_by_hash"
    <3>1. \A t \in Untouchables : Same(t, view, before) /\ Same(t, view, srv)
      BY <1>2, <2>2 DEF Seen, SeenOf
    <3>2. \A t \in Untouchables : Same(t, srv, before)
      BY <3>1, SameAgain
    <3>3. \A t \in Untouchables' : ~Changed(t)'
      BY <1>2, <3>2, ChangedIsDifferent DEF Untouchables, Changed
    <3> QED
      BY <1>2, <2>2, <3>3 DEF Consented
  <2> QED
    BY <2>1, <2>2
<1>3. CASE Reading
  <2>1. Given /\ pc = "reading" /\ pc' # "idle" /\ UNCHANGED <<srv, cmd, before, touched>>
    BY <1>3, ReadingReads, Underway DEF others
  <2> QED
    BY <1>2, <2>1 DEF Given
<1>4. CASE Decide
  <2>1. Given /\ pc = "planning" /\ pc' # "idle" /\ UNCHANGED <<srv, cmd, before, touched>>
    BY <1>4, DecideDecides, Underway DEF others, Planned
  <2> QED
    BY <1>2, <2>1 DEF Given
<1>5. CASE Send
  <2>1. /\ pc = "applying" /\ Given /\ pc' # "idle"
        /\ UNCHANGED <<cmd, said, view, before, touched>>
    BY <1>5, SendSends DEF others
  <2>2. Consent' <=> Consent
    BY <2>1 DEF Consent
  <2>3. CASE Consent
    BY <2>1, <2>2, <2>3 DEF Consented
  <2>4. CASE cmd.op = "reannounce"
    <3>1. \A t \in Untouchables' : Same(t, view', srv')
      BY <2>1, <2>4 DEF Seen, SeenOf, Given
    <3>2. \A t \in Untouchables' : Same(t, view', before')
      BY <2>1, <2>4 DEF Seen, SeenOf, Given
    <3>3. \A t \in Untouchables' : Same(t, srv', before')
      BY <3>1, <3>2, SameAgain
    <3>4. \A t \in Untouchables' : ~Changed(t)'
      BY <3>3 DEF Changed, Same, Alike
    <3> QED
      BY <2>1, <2>4, <3>4 DEF Consented
  <2> QED
    BY <2>1, <2>3, <2>4, DecisionConsents
<1>6. CASE Closing
  <2>1. /\ Given /\ UNCHANGED <<srv, cmd, before, touched>> /\ pc # "idle"
        /\ \/ said' = said
           \/ said' = "applied" /\ Decision = "apply"
    BY <1>6, ClosingCloses DEF others
  <2>2. \A t : Changed(t)' <=> Changed(t)
    BY <2>1 DEF Changed
  <2>3. CASE cmd.op = "reannounce"
    <3>1. \A t \in Untouchables : Same(t, view, srv) /\ Same(t, view, before)
      BY <2>1, <2>3 DEF Seen, SeenOf
    <3>2. \A t \in Untouchables : ~Changed(t)
      BY <3>1, ChangedIsDifferent, SameAgain
    <3> QED
      BY <2>1, <2>2, <2>3, <3>2 DEF Consented, Untouchables
  <2>4. CASE cmd.op # "reannounce"
    <3>1. Consent => Consent'
      BY <2>1, <2>4, GivenLegal, ApplyConsents DEF Consent
    <3> QED
      BY <2>1, <2>2, <3>1 DEF Consented, Untouchables
  <2> QED
    BY <2>3, <2>4
<1>7. CASE Foreign
  <2>1. /\ Given /\ touched \subseteq touched' /\ UNCHANGED <<cmd, pc, said, before>>
        /\ \A t \in Torrents \ touched' : Same(t, srv', srv)
    BY <1>7, ForeignTouches DEF report
  <2>2. \A t \in Untouchables' : t \in Untouchables /\ (Changed(t)' => Changed(t))
    BY <2>1 DEF Untouchables, Changed, Same, Alike
  <2>3. Consent' <=> Consent
    BY <2>1 DEF Consent
  <2> QED
    BY <2>1, <2>2, <2>3 DEF Consented, Given
<1>8. CASE UNCHANGED vars
  BY <1>8 DEF Consented, Consent, Untouchables, Changed, vars, report, others
<1> QED
  BY <1>1, <1>3, <1>4, <1>5, <1>6, <1>7, <1>8, NextSplits

\* No command changes a torrent before the operator has agreed to it: not a dry
\* run, not a TUI action before its preview, not a delete without --yes
\* (ExecutionPolicy.decide, run_mutation); whatever other clients do, and
\* wherever the command fails or is interrupted.
THEOREM ConsentComesFirst == Spec => []NothingBeforeConsent
<1>1. Init => Consented
  BY DEF Init, InitOn, Consented
<1>2. Init => \A t : ~Changed(t)
  BY DEF Init, InitOn, Changed
<1>3. Base /\ Consented => NothingBeforeConsent
  <2>1. CommandOK => (pc = "idle" => before = srv)
    BY DEF CommandOK
  <2>2. before = srv => \A t : ~Changed(t)
    BY DEF Changed
  <2> QED
    BY <2>1, <2>2 DEF Base, Consented, Consent, NothingBeforeConsent
<1> QED
  BY <1>1, <1>3, AlwaysBase, AlwaysSeen, ConsentedStep, PTL DEF Spec
-----------------------------------------------------------------------------
(* Restoring and replacing, request by request. *)

\* Neither the server nor what the command is about changes.
Quiet ==
    /\ UNCHANGED <<srv, cmd, before, touched>>
    /\ pc' = "idle" <=> pc = "idle"

LEMMA StepKinds ==
    Base /\ [Next]_vars =>
        Begun \/ Resumed \/ Refused \/ Quiet \/ Send \/ Foreign
<1> SUFFICES ASSUME Base, [Next]_vars
             PROVE  Begun \/ Resumed \/ Refused \/ Quiet \/ Send \/ Foreign
  OBVIOUS
<1>1. CASE Reading
  BY <1>1, ReadingReads DEF Quiet, others
<1>2. CASE Decide
  BY <1>2, DecideDecides DEF Quiet, Planned, others
<1>3. CASE Closing
  BY <1>3, ClosingCloses DEF Quiet, others
<1>4. CASE UNCHANGED vars
  BY <1>4 DEF Quiet, vars, others
<1> QED
  BY <1>1, <1>2, <1>3, <1>4, CommandsBegin, NextSplits

\* A restore has taken nothing from t.
OnlyAdded(t) ==
    /\ before.category[t] \in {NoCategory, srv.category[t]}
    /\ before.tags[t] \subseteq srv.tags[t]
    /\ before.urls[t] \subseteq srv.urls[t]
    /\ t \in before.present => t \in srv.present

Restoring ==
    pc # "idle" /\ cmd.op = "restore" => \A t \in Untouchables : OnlyAdded(t)

\* No step of a restore takes anything from a torrent.
LEMMA RestoringStep == Base /\ Seen /\ Restoring /\ [Next]_vars => Restoring'
<1> SUFFICES ASSUME Base, Seen, Restoring, [Next]_vars,
                    pc' # "idle", cmd'.op = "restore",
                    NEW t \in Torrents, t \notin touched'
             PROVE  OnlyAdded(t)'
  BY DEF Restoring, Untouchables
<1>1. CASE Begun \/ Resumed \/ Refused
  BY <1>1 DEF Begun, Resumed, Refused, OnlyAdded
<1>2. CASE Quiet
  BY <1>2 DEF Quiet, Restoring, Untouchables, OnlyAdded
<1>3. CASE Send
  <2> DEFINE r == plan.reqs[sent + 1]
  <2>1. /\ Given /\ r \in Fitting(cmd, view)
        /\ srv' = srv \/ Makes(srv, r, srv')
        /\ UNCHANGED <<cmd, before, touched>>
    BY <1>3, SendSends DEF others
  <2> HIDE DEF r
  <2>2. OnlyAdded(t) /\ Same(t, view, before)
    BY <2>1 DEF Given, Restoring, Untouchables, Seen, SeenOf
  <2>3. /\ r.kind \in {"create_category", "set_category", "add_tags", "add_trackers"}
        /\ r.kind = "set_category" => \A u \in r.on : view.category[u] = NoCategory
    BY <2>1 DEF Fitting, Fits
  <2>4. CASE Makes(srv, r, srv')
    BY <2>1, <2>2, <2>3, <2>4 DEF Makes, OnlyAdded, Same, Alike
  <2> QED
    BY <2>1, <2>2, <2>4 DEF OnlyAdded
<1>4. CASE Foreign
  <2>1. /\ Given /\ Same(t, srv', srv) /\ t \notin touched
        /\ UNCHANGED <<cmd, before>>
    BY <1>4, ForeignTouches
  <2> QED
    BY <2>1 DEF Given, Restoring, Untouchables, OnlyAdded, Same, Alike
<1> QED
  BY <1>1, <1>2, <1>3, <1>4, StepKinds

\* A restore adds what the backup holds and the server lacks, and takes nothing
\* away, whichever of its requests fail (apply_backup_restore).
THEOREM RestoreAdds == Spec => []RestoreOnlyAdds
<1>1. Init => Restoring
  BY DEF Init, InitOn, Restoring
<1>2. Base /\ Restoring => RestoreOnlyAdds
  <2> SUFFICES ASSUME Base, Restoring PROVE RestoreOnlyAdds
    OBVIOUS
  <2>1. CASE pc = "idle"
    <3>1. before = srv
      BY <2>1 DEF Base, CommandOK
    <3> QED
      BY <3>1 DEF RestoreOnlyAdds
  <2>2. CASE pc # "idle"
    BY <2>2 DEF Restoring, RestoreOnlyAdds, OnlyAdded
  <2> QED
    BY <2>1, <2>2
<1> QED
  BY <1>1, <1>2, AlwaysBase, AlwaysSeen, RestoringStep, PTL DEF Spec

\* The new tracker, once there, outlives every request of its replacement.
LEMMA TargetStays ==
    ASSUME NEW r \in Fitting(cmd, view), NEW s, Makes(srv, r, s), NEW t \in Torrents,
           cmd.op = "replace", cmd.arg.exact \in BOOLEAN, ~TargetLikeSource,
           HasTarget(cmd, srv.urls[t])
    PROVE  HasTarget(cmd, s.urls[t])
<1>1. /\ ~Matched(cmd, view, cmd.arg.target)
      /\ \/ /\ r.kind = "edit_tracker" /\ r.arg.new = cmd.arg.target
            /\ Matched(cmd, view, r.arg.old)
         \/ /\ r.kind = "remove_trackers"
            /\ \A u \in r.arg : Matched(cmd, view, u)
  BY DEF Fitting, Fits
<1>2. PICK w \in srv.urls[t] : \/ w = cmd.arg.target
                               \/ ~cmd.arg.exact /\ w.host = cmd.arg.target.host
  BY DEF HasTarget
<1>3. ~Matched(cmd, view, w)
  BY <1>1, <1>2, MatchedSource DEF TargetLikeSource
<1>4. w \in s.urls[t]
  BY <1>1, <1>2, <1>3 DEF Makes
<1> QED
  BY <1>2, <1>4 DEF HasTarget

\* Every step of a replacement leaves a torrent with what it had or its successor.
LEMMA ReplacingStep == Base /\ Seen /\ Replacing /\ [Next]_vars => Replacing'
<1> SUFFICES ASSUME Base, Seen, Replacing, [Next]_vars,
                    pc' # "idle", cmd'.op \in {"replace", "replace_passkey"},
                    ~TargetLikeSource', NEW t \in Torrents, t \notin touched'
             PROVE  HasSuccessor(t)'
  BY DEF Replacing, Untouchables
<1>1. CASE Begun \/ Resumed \/ Refused
  <2>1. Begun
    BY <1>1 DEF Resumed, Refused
  <2> QED
    BY <2>1 DEF Begun, HasSuccessor, KeepsTrackers
<1>2. CASE Reading
  <2>1. /\ pc = "reading" /\ UNCHANGED <<srv, cmd, before, touched, plan, sent, failed>>
        /\ Same(t, view, srv) => Same(t, view', srv)
    BY <1>2, ReadingReads DEF others
  <2>2. Given /\ HasSuccessor(t) /\ Same(t, view, srv) /\ sent = 0
    BY <2>1, Underway, GivenLegal
    DEF Replacing, Untouchables, TargetLikeSource, Seen, SeenOf, Unplanned
  <2>3. view'.urls[t] = view.urls[t]
    BY <2>1, <2>2 DEF Same, Alike
  <2> QED
    BY <2>1, <2>2, <2>3 DEF HasSuccessor, KeepsTrackers
<1>3. CASE Decide
  <2>1. /\ pc = "planning" /\ UNCHANGED <<srv, cmd, view, before, touched, sent, failed>>
    BY <1>3, DecideDecides DEF others
  <2>2. Given /\ HasSuccessor(t) /\ sent = 0
    BY <2>1, Underway, GivenLegal
    DEF Replacing, Untouchables, TargetLikeSource, Unplanned
  <2> QED
    BY <2>1, <2>2 DEF HasSuccessor, KeepsTrackers
<1>4. CASE Closing \/ UNCHANGED vars
  <2>1. /\ UNCHANGED <<srv, cmd, view, before, touched, plan, sent, failed>>
        /\ pc # "idle"
    BY <1>4, ClosingCloses DEF Given, others, progress, vars
  <2>2. HasSuccessor(t)
    BY <2>1 DEF Replacing, Untouchables, TargetLikeSource
  <2> QED
    BY <2>1, <2>2 DEF HasSuccessor, KeepsTrackers
<1>5. CASE Foreign
  <2>1. /\ Given /\ Same(t, srv', srv) /\ t \notin touched
        /\ UNCHANGED <<cmd, before, view, plan, sent, failed>>
    BY <1>5, ForeignTouches DEF progress
  <2>2. HasSuccessor(t)
    BY <2>1 DEF Replacing, Untouchables, TargetLikeSource, Given
  <2>3. srv'.urls[t] = srv.urls[t]
    BY <2>1 DEF Same, Alike
  <2> QED
    BY <2>1, <2>2, <2>3 DEF HasSuccessor, KeepsTrackers
<1>6. CASE Send
  <2> DEFINE r == plan.reqs[sent + 1]
  <2>1. /\ Given /\ pc = "applying" /\ r \in Fitting(cmd, view)
        /\ sent + 1 \in 1..Len(plan.reqs) /\ sent' = sent + 1
        /\ \/ srv' = srv /\ failed' = failed \cup {sent + 1}
           \/ /\ Makes(srv, r, srv') /\ ~Impossible(srv, r)
              /\ failed' \in {failed, failed \cup {sent + 1}}
        /\ UNCHANGED <<cmd, before, touched, plan, view>>
    BY <1>6, SendSends DEF others
  <2>2. sent \in Nat /\ Legal(cmd) /\ Ordered(cmd, view, plan.reqs)
    BY <2>1, GivenLegal DEF Base, TypeOK
  <2>3. HasSuccessor(t) /\ Same(t, view, before) /\ failed = {}
    BY <2>1 DEF Replacing, Untouchables, TargetLikeSource, Given, Seen, SeenOf,
                Base, DecisionOK, GoesOn
  <2>4. CASE srv' = srv /\ failed' = failed \cup {sent + 1}
    BY <2>1, <2>3, <2>4 DEF HasSuccessor, KeepsTrackers
  <2>5. ASSUME Makes(srv, r, srv'), ~Impossible(srv, r) PROVE HasSuccessor(t)'
    <3>1. CASE cmd.op = "replace_passkey"
      <4>1. /\ r.kind = "edit_tracker" /\ r.arg.old.host = "src"
            /\ r.arg.new.host = "src"
        BY <2>1, <3>1 DEF Fitting, Fits
      <4> HIDE DEF r
      <4>2. KeepsTrackers(t)'
        BY <2>1, <2>3, <2>5, <3>1, <4>1 DEF HasSuccessor, KeepsTrackers, Makes
      <4> QED
        BY <2>1, <3>1, <4>2 DEF HasSuccessor
    <3>2. CASE cmd.op = "replace"
      <4>1. /\ ~Matched(cmd, view, cmd.arg.target)
            /\ \/ /\ r.kind = "edit_tracker" /\ r.arg.new = cmd.arg.target
                  /\ Matched(cmd, view, r.arg.old)
               \/ /\ r.kind = "remove_trackers"
                  /\ \A u \in r.arg : Matched(cmd, view, u)
        BY <2>1, <3>2 DEF Fitting, Fits
      <4>2. cmd.arg.exact \in BOOLEAN /\ ~TargetLikeSource
        BY <2>1, <2>2, <3>2 DEF Legal, Bare, TargetLikeSource
      <4>3. r.kind = "edit_tracker" /\ t \in r.on => HasTarget(cmd, srv'.urls[t])
        <5> SUFFICES ASSUME r.kind = "edit_tracker", t \in r.on
                     PROVE  HasTarget(cmd, srv'.urls[t])
          OBVIOUS
        <5>1. t \in srv.present
          BY <2>5 DEF Impossible
        <5> HIDE DEF r
        <5> QED
          BY <2>5, <4>1, <5>1 DEF Makes, HasTarget
      <4>4. HasTarget(cmd, srv.urls[t]) => HasTarget(cmd, srv'.urls[t])
        BY <2>1, <2>5, <3>2, <4>2, TargetStays
      <4>5. ASSUME r.kind = "remove_trackers", t \in r.on
            PROVE  HasTarget(cmd, srv.urls[t])
        <5>1. \/ HasTarget(cmd, view.urls[t])
              \/ \E j \in 1..((sent + 1) - 1) :
                     plan.reqs[j].kind = "edit_tracker" /\ t \in plan.reqs[j].on
          <6> HIDE DEF HasTarget
          <6> QED
            BY <2>1, <2>2, <3>2, <4>5 DEF Ordered
        <5>2. (sent + 1) - 1 = sent
          BY <2>2
        <5> QED
          BY <2>3, <3>2, <5>1, <5>2 DEF HasSuccessor
      <4>6. \A j \in 1..sent' : j \in 1..sent \/ j = sent + 1
        BY <2>1, <2>2
      <4>7. \A j \in 1..sent' :
                plan.reqs[j].kind = "edit_tracker" /\ t \in plan.reqs[j].on
                    => HasTarget(cmd, srv'.urls[t])
        BY <2>3, <3>2, <4>3, <4>4, <4>6 DEF HasSuccessor
      <4>8. KeepsTrackers(t)'
        <5> HIDE DEF r
        <5>1. {u \in before.urls[t] : u.host # "src"} \subseteq srv'.urls[t]
          BY <2>3, <2>5, <4>1, MatchedSource DEF HasSuccessor, KeepsTrackers, Makes
        <5>2. (\E u \in before.urls[t] : u.host = "src") =>
                  \/ \E u \in srv'.urls[t] : u.host = "src"
                  \/ HasTarget(cmd, srv'.urls[t])
          <6>1. CASE t \in r.on
            <7>1. CASE HasTarget(cmd, srv'.urls[t])
              BY <7>1
            <7>2. CASE ~HasTarget(cmd, srv'.urls[t])
              BY <4>1, <4>3, <4>4, <4>5, <6>1, <7>2
            <7> QED
              BY <7>1, <7>2
          <6>2. CASE t \notin r.on
            <7>1. srv'.urls[t] = srv.urls[t]
              BY <2>5, <6>2 DEF Makes
            <7> QED
              BY <2>3, <7>1 DEF HasSuccessor, KeepsTrackers
          <6> QED
            BY <6>1, <6>2
        <5> QED
          BY <2>1, <3>2, <5>1, <5>2 DEF KeepsTrackers
      <4>9. HasTarget(cmd, view.urls[t]) => HasTarget(cmd, srv'.urls[t])
        BY <2>3, <3>2, <4>4 DEF HasSuccessor
      <4> QED
        BY <2>1, <3>2, <4>7, <4>8, <4>9 DEF HasSuccessor
    <3> QED
      BY <2>1, <3>1, <3>2
  <2> QED
    BY <2>1, <2>4, <2>5
<1> QED
  BY <1>1, <1>2, <1>3, <1>4, <1>5, <1>6, CommandsBegin, NextSplits

\* However far a replacement gets, no torrent loses both the tracker and its
\* successor, nor any other tracker (apply_tracker_replacement edits before it
\* removes; apply_tracker_passkey_replacement edits in place).
THEOREM TrackersSurvive == Spec => []TrackerSurvives
<1>1. Init => Replacing
  BY DEF Init, InitOn, Replacing
<1>2. Base /\ Replacing => TrackerSurvives
  <2> SUFFICES ASSUME Base, Replacing PROVE TrackerSurvives
    OBVIOUS
  <2>1. CASE pc = "idle"
    <3>1. before = srv
      BY <2>1 DEF Base, CommandOK
    <3> QED
      BY <3>1 DEF TrackerSurvives, KeepsTrackers
  <2>2. CASE pc # "idle"
    BY <2>2 DEF Replacing, TrackerSurvives, HasSuccessor
  <2> QED
    BY <2>1, <2>2
<1> QED
  BY <1>1, <1>2, AlwaysBase, AlwaysSeen, ReplacingStep, PTL DEF Spec
-----------------------------------------------------------------------------
(* Success. *)

\* A command whose goals are settled: its plan is being gone through with, or
\* it has exited with success, and nothing it sent has failed.
Settled ==
    /\ Given /\ failed = {}
    /\ pc \in {"prompting", "applying"} \/ (pc = "done" /\ exit = 0)

\* The goal is reached on the server, or a request yet to be sent gives it.
Due(t, what, val) ==
    \/ Has(cmd, srv, t, what, val)
    \/ \E i \in 1..Len(plan.reqs) :
           i > sent /\ Gives(cmd, plan.reqs[i], t, what, val)

Converging ==
    Settled =>
        \A t \in Held(cmd, view) \ touched : \A what, val :
            Goal(cmd, view, t, what, val) => Due(t, what, val)

\* A torrent that is the same has what it had.
LEMMA HasOnSame ==
    ASSUME NEW c, NEW t, NEW what, NEW val, NEW a, NEW b, Same(t, a, b),
           Has(c, a, t, what, val)
    PROVE  Has(c, b, t, what, val)
BY DEF Same, Alike, Has, HasTarget

\* A command answers for torrents only.
LEMMA HeldTorrents ==
    ASSUME Legal(cmd)
    PROVE  Held(cmd, view) \subseteq Torrents
BY DEF Legal, Held

\* Every request leaves each goal reached, or due to a request after it.
LEMMA ConvergingStep == Base /\ Seen /\ Converging /\ [Next]_vars => Converging'
<1> SUFFICES ASSUME Base, Seen, Converging, [Next]_vars, Settled',
                    NEW t, t \in Held(cmd', view') \ touched', NEW what, NEW val,
                    Goal(cmd', view', t, what, val)
             PROVE  Due(t, what, val)'
  BY DEF Converging
<1>1. CASE Begun \/ Resumed \/ Refused
  BY <1>1 DEF Begun, Resumed, Refused, Settled, Error
<1>2. CASE Reading
  BY <1>2, ReadingReads DEF Settled, Error
<1>3. CASE Decide
  <2>1. /\ pc = "planning"
        /\ UNCHANGED <<srv, cmd, view, before, touched, sent, failed>>
        /\ \/ pc' = "done" /\ exit' = Error
           \/ \E p : Planned(p)
    BY <1>3, DecideDecides DEF others
  <2>2. Given /\ Legal(cmd) /\ sent = 0
    BY <2>1, Underway, GivenLegal DEF Unplanned
  <2>3. PICK p : Planned(p)
    BY <2>1 DEF Settled, Error
  <2>4. plan' = p /\ Covers(cmd, view, p.reqs)
    BY <2>3 DEF Planned, Sound
  <2>5. t \in Held(cmd, view) /\ t \in Torrents /\ t \notin touched
    BY <2>1, <2>2, HeldTorrents
  <2>6. \/ Has(cmd, view, t, what, val)
        \/ \E r : Contains(p.reqs, r) /\ Gives(cmd, r, t, what, val)
    BY <2>1, <2>4, <2>5 DEF Covers
  <2>7. Same(t, view, srv)
    BY <2>1, <2>2, <2>5 DEF Seen, SeenOf, Untouchables
  <2>8. CASE Has(cmd, view, t, what, val)
    BY <2>1, <2>7, <2>8, HasOnSame DEF Due
  <2>9. CASE \E r : Contains(p.reqs, r) /\ Gives(cmd, r, t, what, val)
    <3>1. PICK i \in 1..Len(p.reqs) : Gives(cmd, p.reqs[i], t, what, val)
      BY <2>9 DEF Contains
    <3> QED
      BY <2>1, <2>2, <2>4, <3>1 DEF Due
  <2> QED
    BY <2>6, <2>8, <2>9
<1>4. CASE Closing
  <2>1. /\ Given /\ UNCHANGED <<srv, cmd, view, touched, plan, sent, failed>>
        /\ pc \in {"prompting", "applying"} \/ exit' = 130
    BY <1>4, ClosingCloses DEF others, progress
  <2>2. Settled
    BY <2>1, <1>4, ClosingCloses DEF Settled
  <2>3. Due(t, what, val)
    BY <2>1, <2>2 DEF Converging
  <2> QED
    BY <2>1, <2>3 DEF Due
<1>5. CASE UNCHANGED vars
  BY <1>5 DEF Converging, Settled, Given, Due, vars, progress, report, others
<1>6. CASE Foreign
  <2>1. /\ Given /\ touched \subseteq touched' /\ UNCHANGED <<cmd, pc, exit, view, plan, sent, failed>>
        /\ \A u \in Torrents \ touched' : Same(u, srv', srv)
    BY <1>6, ForeignTouches DEF progress, report
  <2>2. t \in Torrents
    BY <2>1, GivenLegal, HeldTorrents
  <2>3. Settled
    BY <2>1 DEF Settled
  <2>4. Due(t, what, val)
    BY <2>1, <2>3 DEF Converging
  <2>5. Same(t, srv, srv')
    BY <2>1, <2>2, SameAgain
  <2>6. Has(cmd, srv, t, what, val) => Has(cmd, srv', t, what, val)
    BY <2>5, HasOnSame
  <2> QED
    BY <2>1, <2>4, <2>6 DEF Due
<1>7. CASE Send
  <2> DEFINE r == plan.reqs[sent + 1]
  <2>1. /\ Given /\ pc = "applying" /\ r \in Fitting(cmd, view)
        /\ sent + 1 \in 1..Len(plan.reqs) /\ sent' = sent + 1
        /\ \/ srv' = srv /\ failed' = failed \cup {sent + 1}
           \/ /\ Makes(srv, r, srv') /\ ~Impossible(srv, r)
              /\ failed' \in {failed, failed \cup {sent + 1}}
        /\ UNCHANGED <<cmd, touched, plan, view>>
    BY <1>7, SendSends DEF others
  <2>2. failed' = {} /\ failed = {} /\ Makes(srv, r, srv')
    BY <2>1 DEF Settled
  <2>3. Legal(cmd) /\ t \in Held(cmd, view) /\ t \in Torrents /\ t \notin touched
    BY <2>1, GivenLegal, HeldTorrents
  <2>4. Goal(cmd, view, t, what, val) /\ Due(t, what, val)
    BY <2>1, <2>2, <2>3 DEF Settled, Converging
  <2>5. sent \in Nat
    BY DEF Base, TypeOK
  <2> HIDE DEF r
  <2>6. CASE Has(cmd, srv, t, what, val)
    BY <2>1, <2>2, <2>3, <2>4, <2>6, GoalsStay DEF Due
  <2>7. ASSUME Gives(cmd, r, t, what, val), ~Has(cmd, srv, t, what, val)
        PROVE  Has(cmd, srv', t, what, val)
    <3>1. r \in Requests /\ Fits(cmd, view, r)
      BY <2>1 DEF Fitting
    <3>2. CASE cmd.op = "import"
      BY <2>2, <2>3, <2>7, <3>1, <3>2, GoalsGiven DEF Fits
    <3>3. CASE cmd.op = "delete"
      <4>1. t \in srv.present
        BY <2>4, <2>7, <3>3 DEF Goal, Has
      <4> QED
        BY <2>2, <2>3, <2>7, <3>1, <4>1, GoalsGiven
    <3>4. CASE cmd.op \notin {"import", "delete"}
      <4>1. t \in srv.present
        BY <2>1, <2>3, <3>4 DEF Held, Given, Seen, SeenOf, Untouchables
      <4> QED
        BY <2>2, <2>3, <2>7, <3>1, <4>1, GoalsGiven
    <3> QED
      BY <3>2, <3>3, <3>4
  <2>8. ASSUME NEW i \in 1..Len(plan.reqs), i > sent,
               Gives(cmd, plan.reqs[i], t, what, val), ~Has(cmd, srv, t, what, val)
        PROVE  Due(t, what, val)'
    <3>1. CASE i = sent + 1
      BY <2>1, <2>7, <2>8, <3>1 DEF Due, r
    <3>2. CASE i > sent + 1
      BY <2>1, <2>8, <3>2 DEF Due
    <3> QED
      BY <2>5, <2>8, <3>1, <3>2
  <2> QED
    BY <2>4, <2>6, <2>8 DEF Due
<1> QED
  BY <1>1, <1>2, <1>3, <1>4, <1>5, <1>6, <1>7, CommandsBegin, NextSplits

LEMMA AlwaysConverging == Spec => []Converging
<1>1. Init => Converging
  BY DEF Init, InitOn, Converging, Settled, Given
<1> QED
  BY <1>1, AlwaysBase, AlwaysSeen, ConvergingStep, PTL DEF Spec

\* A torrent whose goals have all been reached is as the command was to leave it.
LEMMA GoalsReach ==
    ASSUME Base, Given, NEW t \in Torrents,
           cmd.op # "import" => t \in view.present,
           \A what, val : Goal(cmd, view, t, what, val) => Has(cmd, srv, t, what, val)
    PROVE  Reached(t)
<1>1. Legal(cmd) /\ \A u \in plan.source : Matched(cmd, view, u)
  BY GivenLegal
<1>2. CASE cmd.op \in {"pause", "pause_by_hash"}
  <2>1. Goal(cmd, view, t, "stopped", 0)
    BY <1>2 DEF Goal
  <2> QED
    BY <1>2, <2>1 DEF Reached, Has
<1>3. CASE cmd.op \in {"resume", "start", "resume_by_hash"}
  <2>1. Goal(cmd, view, t, "started", 0)
    BY <1>3 DEF Goal
  <2> QED
    BY <1>3, <2>1 DEF Reached, Has
<1>4. CASE cmd.op = "reannounce"
  BY <1>4 DEF Reached
<1>5. CASE cmd.op = "delete"
  <2>1. Goal(cmd, view, t, "gone", 0)
    BY <1>5 DEF Goal
  <2> QED
    BY <1>5, <2>1 DEF Reached, Has
<1>6. CASE cmd.op = "category_set"
  <2>1. Goal(cmd, view, t, "category", cmd.arg.category)
    BY <1>6 DEF Goal
  <2> QED
    BY <1>6, <2>1 DEF Reached, Has
<1>7. CASE cmd.op = "category_clear"
  <2>1. Goal(cmd, view, t, "category", NoCategory)
    BY <1>7 DEF Goal
  <2> QED
    BY <1>7, <2>1 DEF Reached, Has
<1>8. CASE cmd.op = "tag_add"
  <2>1. \A g \in cmd.arg : Has(cmd, srv, t, "tag", g)
    BY <1>8 DEF Goal
  <2> QED
    BY <1>8, <2>1 DEF Reached, Has
<1>9. CASE cmd.op = "tag_remove"
  <2>1. \A g \in cmd.arg : Has(cmd, srv, t, "untag", g)
    BY <1>9 DEF Goal
  <2> QED
    BY <1>9, <2>1 DEF Reached, Has
<1>10. CASE cmd.op = "throttle"
  <2>1. /\ cmd.arg.down # Untouched => Has(cmd, srv, t, "down", cmd.arg.down)
        /\ cmd.arg.up # Untouched => Has(cmd, srv, t, "up", cmd.arg.up)
    BY <1>10 DEF Goal
  <2> QED
    BY <1>10, <2>1 DEF Reached, Has
<1>11. CASE cmd.op = "add_if_present"
  <2>1. CASE Found(cmd, view, t)
    <3>1. Goal(cmd, view, t, "target", 0)
      BY <1>11, <2>1 DEF Goal
    <3>2. HasTarget(cmd, srv.urls[t])
      BY <3>1 DEF Has
    <3> QED
      BY <1>11, <3>2 DEF Reached
  <2>2. CASE ~Found(cmd, view, t)
    <3>1. \A u \in plan.source : Goal(cmd, view, t, "untracker", u)
      BY <1>1, <1>11, <2>2 DEF Goal
    <3>2. plan.source \cap srv.urls[t] = {}
      BY <3>1 DEF Has
    <3> QED
      BY <1>11, <3>2 DEF Reached
  <2> QED
    BY <2>1, <2>2
<1>12. CASE cmd.op = "remove"
  <2>1. \A u : u.host = "src" => Has(cmd, srv, t, "untracker", u)
    BY <1>12 DEF Goal
  <2> QED
    BY <1>12, <2>1 DEF Reached, Has
<1>13. CASE cmd.op = "replace"
  <2>1. \A u \in plan.source : Goal(cmd, view, t, "untracker", u)
    BY <1>1, <1>13 DEF Goal
  <2>2. srv.urls[t] \cap plan.source = {}
    BY <2>1 DEF Has
  <2> QED
    BY <1>13, <2>2 DEF Reached
<1>14. CASE cmd.op = "replace_passkey"
  <2>1. \A u : u.host = "src" /\ u.key # cmd.arg.key => Has(cmd, srv, t, "untracker", u)
    BY <1>14 DEF Goal
  <2> QED
    BY <1>14, <2>1 DEF Reached, Has
<1>15. CASE cmd.op = "restore"
  <2>1. cmd.arg[t].category # NoCategory => Has(cmd, srv, t, "categorised", 0)
    BY <1>15 DEF Goal
  <2>2. \A g \in cmd.arg[t].tags : Has(cmd, srv, t, "tag", g)
    BY <1>15 DEF Goal
  <2>3. \A u \in cmd.arg[t].urls : Has(cmd, srv, t, "tracker", u)
    BY <1>15 DEF Goal
  <2> QED
    BY <1>15, <2>1, <2>2, <2>3 DEF Reached, Has
<1>16. CASE cmd.op = "import"
  <2>1. Goal(cmd, view, t, "there", 0)
    BY <1>16 DEF Goal
  <2> QED
    BY <1>16, <2>1 DEF Reached, Has
<1> QED
  BY <1>1, <1>2, <1>3, <1>4, <1>5, <1>6, <1>7, <1>8, <1>9, <1>10, <1>11, <1>12,
     <1>13, <1>14, <1>15, <1>16 DEF Legal, Bare

\* A command that has succeeded leaves no goal due.
LEMMA SuccessReaches ==
    ASSUME Base, Seen, Converging, pc = "done", exit = 0, sent = Len(plan.reqs),
           NEW t \in (cmd.sel \ touched) \cap
                     (IF cmd.op = "import" THEN Torrents ELSE before.present)
    PROVE  Reached(t)
<1>1. Given
  BY DEF Base, CommandOK, Given, Legal, Bare, Error
<1>2. failed = {}
  BY DEF Base, DecisionOK
<1>3. Settled
  BY <1>1, <1>2 DEF Settled
<1>4. Legal(cmd) /\ t \in Torrents /\ before \in Server
  BY <1>1, GivenLegal DEF Legal, Base, TypeOK
<1>5. cmd.op # "import" => t \in view.present
  BY <1>1, <1>4 DEF Seen, SeenOf, Untouchables, Given, Alike
<1>6. t \in Held(cmd, view) \ touched
  BY <1>5 DEF Held
<1>7. ASSUME NEW what, NEW val, Goal(cmd, view, t, what, val)
      PROVE  Has(cmd, srv, t, what, val)
  <2>1. Due(t, what, val)
    BY <1>3, <1>6, <1>7 DEF Converging
  <2>2. Len(plan.reqs) \in Nat
    BY <1>1, GivenLegal
  <2> QED
    BY <2>1, <2>2 DEF Due
<1> QED
  BY <1>1, <1>4, <1>5, <1>7, GoalsReach

\* Success means what the operator takes it to mean: a command that has exited
\* with 0, its plan gone through with or empty, leaves every torrent it selected
\* as it was asked to, whichever operation it is (the skip rules of every plan_*
\* function, run_mutation's exit code).
THEOREM SuccessIsReal == Spec => []SuccessConverges
<1>1. Base /\ Seen /\ Converging => SuccessConverges
  BY SuccessReaches DEF SuccessConverges
<1> QED
  BY <1>1, AlwaysBase, AlwaysSeen, AlwaysConverging, PTL

-----------------------------------------------------------------------------
(* Pausing by hash, and back. *)

Undoing(t) ==
    /\ cmd.op = "pause_by_hash" =>
           /\ t \in before.stopped => t \in srv.stopped
           /\ t \in srv.stopped =>
                  \/ t \in before.stopped
                  \/ \E i \in 1..Len(plan.reqs) : t \in plan.reqs[i].on
    /\ cmd.op = "resume_by_hash" =>
           /\ t \in cmd.sel => t \in before.present /\ t \notin before.stopped
           /\ t \notin cmd.sel => (t \in srv.stopped <=> t \in before.stopped)

ByHashKept == Given => \A t \in Untouchables : Undoing(t)

\* A pause by hash changes only what it reports, and its resume only that.
LEMMA ByHashKeptStep == Base /\ Seen /\ ByHashKept /\ [Next]_vars => ByHashKept'
<1> SUFFICES ASSUME Base, Seen, ByHashKept, [Next]_vars, Given',
                    NEW t \in Torrents, t \notin touched'
             PROVE  Undoing(t)'
  BY DEF ByHashKept, Untouchables
<1>1. CASE Begun
  BY <1>1 DEF Begun, Undoing
<1>2. CASE Refused
  BY <1>2 DEF Refused, Given
<1>3. CASE Resumed
  <2>1. /\ pc = "done" /\ cmd.op = "pause_by_hash" /\ failed = {}
        /\ srv' = srv /\ before' = before /\ touched' = touched
        /\ cmd'.op = "resume_by_hash" /\ cmd'.sel = ChangedHashes
    BY <1>3 DEF Resumed
  <2>2. Given /\ Undoing(t) /\ Same(t, view, before)
    BY <2>1 DEF Given, ByHashKept, Untouchables, Seen, SeenOf
  <2>3. plan.reqs \in Seq(Fitting(cmd, view))
    BY <2>2, GivenLegal
  <2>4. t \in ChangedHashes <=> \E i \in 1..Len(plan.reqs) : t \in plan.reqs[i].on
    BY <2>1 DEF ChangedHashes
  <2>5. t \in ChangedHashes => t \in view.present /\ t \notin view.stopped
    BY <2>1, <2>3, <2>4 DEF Fitting, Fits
  <2>6. t \in ChangedHashes => t \in before.present /\ t \notin before.stopped
    BY <2>2, <2>5 DEF Same, Alike
  <2>7. t \notin ChangedHashes => (t \in srv.stopped <=> t \in before.stopped)
    BY <2>1, <2>2, <2>4 DEF Undoing
  <2> QED
    BY <2>1, <2>6, <2>7 DEF Undoing
<1>4. CASE Reading \/ Closing \/ UNCHANGED vars
  <2>1. /\ Given /\ UNCHANGED <<srv, cmd, before, touched, plan>>
    BY <1>4, ReadingReads, ClosingCloses, Underway DEF others, progress, vars, Given
  <2>2. Undoing(t)
    BY <2>1 DEF ByHashKept, Untouchables
  <2> QED
    BY <2>1, <2>2 DEF Undoing
<1>5. CASE Decide
  <2>1. Given /\ pc = "planning" /\ UNCHANGED <<srv, cmd, before, touched>>
    BY <1>5, DecideDecides, Underway DEF others
  <2>2. Undoing(t) /\ plan.reqs = << >>
    BY <2>1, GivenLegal DEF ByHashKept, Untouchables, Unplanned, NoPlan
  <2> QED
    BY <2>1, <2>2 DEF Undoing
<1>6. CASE Send
  <2> DEFINE r == plan.reqs[sent + 1]
  <2>1. /\ Given /\ r \in Fitting(cmd, view) /\ sent + 1 \in 1..Len(plan.reqs)
        /\ srv' = srv \/ Makes(srv, r, srv')
        /\ UNCHANGED <<cmd, before, touched, plan>>
    BY <1>6, SendSends DEF others
  <2>2. Undoing(t)
    BY <2>1 DEF ByHashKept, Untouchables
  <2>3. /\ cmd.op = "pause_by_hash" => r.kind = "stop"
        /\ cmd.op = "resume_by_hash" => r.kind = "start" /\ r.on \subseteq cmd.sel
    BY <2>1 DEF Fitting, Fits
  <2>4. CASE Makes(srv, r, srv') /\ t \in r.on
    BY <2>1, <2>2, <2>3, <2>4 DEF Undoing, Makes
  <2>5. CASE Makes(srv, r, srv') /\ t \notin r.on
    <3> HIDE DEF r
    <3> QED
      BY <2>1, <2>2, <2>3, <2>5 DEF Undoing, Makes
  <2> QED
    BY <2>1, <2>2, <2>4, <2>5 DEF Undoing
<1>7. CASE Foreign
  <2>1. /\ Given /\ Same(t, srv', srv) /\ t \notin touched
        /\ UNCHANGED <<cmd, before, plan>>
    BY <1>7, ForeignTouches DEF progress
  <2>2. Undoing(t)
    BY <2>1 DEF ByHashKept, Untouchables
  <2> QED
    BY <2>1, <2>2 DEF Undoing, Same, Alike
<1> QED
  BY <1>1, <1>2, <1>3, <1>4, <1>5, <1>6, <1>7, CommandsBegin, NextSplits

\* Pausing by hash and resuming what that call reports as changed leaves every
\* torrent as it was, those already paused above all (pause_torrents_by_hash,
\* resume_torrents_by_hash, changed_hashes).
THEOREM ResumeUndoesPause == Spec => []PauseIsUndone
<1>1. Init => ByHashKept
  BY DEF Init, InitOn, ByHashKept, Given
<1>2. Base /\ Seen /\ Converging /\ ByHashKept => PauseIsUndone
  <2> SUFFICES ASSUME Base, Seen, Converging, ByHashKept, pc = "done",
                      cmd.op = "resume_by_hash", exit = 0, NEW t \in Untouchables
               PROVE  ~Changed(t)
    BY DEF PauseIsUndone
  <2>1. Given
    BY DEF Given
  <2>2. Undoing(t) /\ Alike(t, view, before) /\ Alike(t, view, srv)
    BY <2>1 DEF ByHashKept, Seen, SeenOf
  <2>3. sent = Len(plan.reqs)
    <3>1. Decision = "apply"
      BY <2>1, GivenLegal DEF Decision, Library, Yes, Dry
    <3> QED
      BY <3>1 DEF Base, DecisionOK
  <2>4. t \in srv.stopped <=> t \in before.stopped
    <3>1. CASE t \notin cmd.sel
      BY <2>2, <3>1 DEF Undoing
    <3>2. CASE t \in cmd.sel
      <4>1. t \in before.present /\ t \notin before.stopped
        BY <2>2, <3>2 DEF Undoing
      <4>2. Reached(t)
        BY <2>3, <3>2, <4>1, SuccessReaches DEF Untouchables
      <4>3. t \notin srv.stopped
        BY <4>2 DEF Reached
      <4> QED
        BY <4>1, <4>3
    <3> QED
      BY <3>1, <3>2
  <2>5. Same(t, srv, before)
    BY <2>2, <2>4, SameAgain DEF Same
  <2> QED
    BY <2>5, ChangedIsDifferent
<1> QED
  BY <1>1, <1>2, AlwaysBase, AlwaysSeen, AlwaysConverging, ByHashKeptStep, PTL DEF Spec
=============================================================================
