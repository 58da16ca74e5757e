---------------------------- MODULE TuiSessionProofs ----------------------------
(* What holds of the session for every value of its constants. *)
EXTENDS TuiSession, TLAPS

-----------------------------------------------------------------------------
(* The operators the actions are built from keep their types. *)

\* A worker's result is a message, and the queue with it a queue.
LEMMA MessageType ==
  ASSUME TypeOK, NEW k \in Kind, NEW e \in Error \cup {"none"}, NEW v \in Nat,
         NEW c \in Sessions, NEW d \in BOOLEAN
  PROVE  Message(k, e, v, c, d) \in Messages
BY DEF TypeOK, Message, Told, Messages, Jobs, Error

\* Giving the lock back keeps the worker variables typed.
LEMMA FinishType ==
  ASSUME TypeOK, NEW k \in Kind, NEW e \in Error \cup {"none"}, NEW v \in Nat,
         NEW c \in Sessions, NEW d \in BOOLEAN, Finish(k, e, v, c, d)
  PROVE  remote' \in Remotes /\ returning' \in SUBSET Messages
<1>1. Message(k, e, v, c, d) \in Messages
  BY MessageType
<1>2. NoRemote \in Remotes
  BY DEF NoRemote, Remotes, Sessions
<1>3. QED
  BY <1>1, <1>2 DEF TypeOK, Finish

\* The message a handler takes is a message, and what is left is a queue.
LEMMA DeliverType ==
  ASSUME TypeOK, NEW k, Deliver(k)
  PROVE  Head(inbox) \in Messages /\ inbox' \in Seq(Messages)
BY DEF TypeOK, Deliver

LEMMA StartRefreshType ==
  ASSUME NEW w \in [Kind -> Nat]
  PROVE  StartRefresh(w) \in [Kind -> Nat]
BY DEF StartRefresh, Kind

LEMMA InitType == ASSUME Init PROVE TypeOK
<1> USE SessionAssumption
<1>1. /\ preview \in Previews
      /\ outcome \in [op: Nat, status: Status]
      /\ job \in Jobs
  BY DEF Init, NoPreview, NoOutcome, NoJob, Previews, Jobs, Plan, Status
<1>2. remote \in Remotes
  BY DEF Init, NoRemote, Remotes, Sessions
<1>3. returning \in SUBSET Messages /\ inbox \in Seq(Messages)
  BY DEF Init
<1>4. waiting \in [Kind -> Nat]
  BY DEF Init, InitConfigured, InitFirstRun
<1>5. sends \in [Ops -> Nat]
  BY DEF Init
<1>6. lastOp \in 0..MaxOps
  BY DEF Init
<1>7. QED
  BY <1>1, <1>2, <1>3, <1>4, <1>5, <1>6
     DEF TypeOK, Init, InitConfigured, InitFirstRun, Modal, Connection, Sessions

-----------------------------------------------------------------------------
(* Every step keeps the types. *)

LEMMA TimerType ==
  ASSUME TypeOK, PeriodicTick \/ SampleTick
  PROVE  TypeOK'
<1>1. waiting' \in [Kind -> Nat]
  BY StartRefreshType DEF TypeOK, PeriodicTick, SampleTick, Kind
<1>2. CASE PeriodicTick
  <2>1. refreshing' \in BOOLEAN /\ overtaken' \in BOOLEAN
    BY <1>2 DEF PeriodicTick
  <2>2. UNCHANGED <<uiVars, applyVars, connection, stale, raw, haveStatus, listed,
                    latch, fatal, setupVars, configVars, server, sends, acked,
                    remote, job, returning, inbox, client, cache, host, setups>>
    BY <1>2 DEF PeriodicTick
  <2>3. QED
    BY <1>1, <2>1, <2>2 DEF TypeOK, uiVars, applyVars, setupVars, configVars
<1>3. CASE SampleTick
  BY <1>1, <1>3 DEF TypeOK, SampleTick, uiVars, applyVars, stateVars, setupVars,
     configVars, serverVars
<1>4. QED
  BY <1>2, <1>3

LEMMA ScreenType ==
  ASSUME TypeOK,
         \/ \E m \in {"actions", "overlay"} : OpenScreen(m)
         \/ Reconfigure \/ ToggleHelp \/ Dismiss \/ Quit
  PROVE  TypeOK'
<1> USE DEF TypeOK, uiVars, applyVars, stateVars, setupVars, configVars,
            serverVars, workerVars
<1>1. CASE \E m \in {"actions", "overlay"} : OpenScreen(m)
  BY <1>1 DEF OpenScreen, Modal
<1>2. CASE Reconfigure
  <2>1. modal' \in Modal /\ confirming' \in BOOLEAN
    BY <1>2 DEF Reconfigure, Modal
  <2>2. UNCHANGED <<running, started, needsSetup, help, applyVars, stateVars,
                    setupCfg, setupTest, configVars, serverVars, workerVars,
                    client, cache, host, setups>>
    BY <1>2 DEF Reconfigure
  <2>3. QED
    BY <2>1, <2>2
<1>3. CASE ToggleHelp
  BY <1>3 DEF ToggleHelp
<1>4. CASE Dismiss
  <2>1. NoPreview \in Previews
    BY DEF NoPreview, Previews, Plan
  <2>2. QED
    <3>1. /\ preview' \in Previews /\ modal' \in Modal
          /\ setupCfg' \in Host \cup {NoHost}
      BY <1>4, <2>1 DEF Dismiss, Modal
    <3>2. UNCHANGED <<running, started, needsSetup, help, lastOp, active,
                      outcome, stateVars, confirming, setupTest, configVars,
                      serverVars, workerVars, client, cache, host, setups>>
      BY <1>4 DEF Dismiss
    <3>3. QED
      BY <3>1, <3>2
<1>5. CASE Quit
  <2>1. running' \in BOOLEAN
    BY <1>5 DEF Quit
  <2>2. UNCHANGED <<started, needsSetup, modal, help, applyVars, stateVars,
                    setupVars, configVars, serverVars, workerVars, client,
                    cache, host, setups>>
    BY <1>5 DEF Quit
  <2>3. QED
    BY <2>1, <2>2
<1>6. QED
  BY <1>1, <1>2, <1>3, <1>4, <1>5

LEMMA ApplyType ==
  ASSUME TypeOK, ApplyPlan \/ \E p \in Plan : OpenPreview(p)
  PROVE  TypeOK'
<1> USE SessionAssumption
        DEF TypeOK, uiVars, applyVars, stateVars, setupVars, configVars,
            serverVars, workerVars
<1>1. CASE \E p \in Plan : OpenPreview(p)
  <2>1. preview' \in Previews /\ lastOp' \in 0..MaxOps /\ modal' \in Modal
    BY <1>1 DEF OpenPreview, Previews, Fresh, Modal
  <2>2. UNCHANGED <<running, started, needsSetup, help, active, outcome, stateVars,
                    setupVars, configVars, serverVars, workerVars, client, cache,
                    host, setups>>
    BY <1>1 DEF OpenPreview
  <2>3. QED
    BY <2>1, <2>2
<1>2. CASE ApplyPlan
  <2>1. preview' \in Previews /\ active' \in Nat /\ job' \in Jobs
    BY <1>2 DEF ApplyPlan, Previews, Jobs
  <2>2. waiting' \in [Kind -> Nat]
    BY <1>2 DEF ApplyPlan
  <2>3. QED
    BY <1>2, <2>1, <2>2 DEF ApplyPlan
<1>3. QED
  BY <1>1, <1>2

LEMMA RemoteType ==
  ASSUME TypeOK, NEW k \in Kind,
         Acquire(k) \/ ReadConfig(k) \/ Login(k) \/ Begin(k) \/ CallReader(k)
  PROVE  TypeOK'
<1> USE DEF uiVars, applyVars, stateVars, setupVars, configVars, serverVars
<1>1. NoSession \in Sessions /\ client \in Sessions /\ cache \in Sessions
  BY DEF TypeOK, Sessions
<1>2. CASE Acquire(k)
  <2>1. waiting' \in [Kind -> Nat]
    BY <1>2 DEF TypeOK, Acquire
  <2>2. remote' \in Remotes
    BY <1>1, <1>2 DEF Acquire, Remotes
  <2>3. QED
    BY <1>2, <2>1, <2>2 DEF TypeOK, Acquire
<1>3. CASE ReadConfig(k)
  <2>1. remote' \in Remotes /\ returning' \in SUBSET Messages
    <3>1. CASE Fail(k, "config")
      BY <1>1, <3>1, FinishType DEF Fail, Error
    <3>2. CASE remote' = [remote EXCEPT !.step = "login"] /\ UNCHANGED returning
      BY <3>2 DEF TypeOK, Remotes
    <3>3. QED
      BY <1>3, <3>1, <3>2 DEF ReadConfig
  <2>2. environ' \in Host \cup {NoHost} /\ creds' \in BOOLEAN
    BY <1>3 DEF TypeOK, ReadConfig, LoadedHost, LoadedCreds, FileLoads
  <2>3. QED
    BY <1>3, <2>1, <2>2 DEF TypeOK, ReadConfig
<1>4. CASE Login(k)
  <2>1. /\ remote' \in Remotes /\ returning' \in SUBSET Messages
        /\ client' \in Sessions
    <3>1. CASE \E e \in {"auth", "unavailable"} : Fail(k, e) /\ UNCHANGED client
      BY <1>1, <3>1, FinishType DEF Fail, Error
    <3>2. CASE \E s \in Session \ LiveSessions :
                  /\ HostOf[s] = environ
                  /\ client' = s
                  /\ remote' = [remote EXCEPT !.step = "ready", !.client = s]
                  /\ UNCHANGED returning
      BY <3>2 DEF TypeOK, Remotes, Sessions
    <3>3. QED
      BY <1>4, <3>1, <3>2 DEF Login
  <2>2. QED
    <3>1. UNCHANGED <<uiVars, applyVars, stateVars, setupVars, configVars,
                      serverVars, waiting, job, inbox, cache, host, setups>>
      BY <1>4 DEF Login
    <3>2. QED
      BY <2>1, <3>1 DEF TypeOK
<1>5. CASE Begin(k)
  <2>1. remote' \in Remotes /\ returning' \in SUBSET Messages
    <3>1. CASE Finish(k, "none", 0, NoSession, FALSE)
      BY <1>1, <3>1, FinishType
    <3>2. CASE /\ remote' = [remote EXCEPT !.step = "call",
                    !.cache = IF k = "refresh" THEN cache ELSE NoSession]
               /\ UNCHANGED returning
      BY <1>1, <3>2 DEF TypeOK, Remotes
    <3>3. QED
      BY <1>5, <3>1, <3>2 DEF Begin
  <2>2. QED
    BY <1>5, <2>1 DEF TypeOK, Begin
<1>6. CASE CallReader(k)
  <2>1. remote' \in Remotes /\ returning' \in SUBSET Messages
    BY <1>1, <1>6, FinishType DEF CallReader, CallFailures, Fail, Error
  <2>2. QED
    BY <1>6, <2>1 DEF TypeOK, CallReader
<1>7. QED
  BY <1>2, <1>3, <1>4, <1>5, <1>6

LEMMA CallType ==
  ASSUME TypeOK, CallRefresh \/ CallMutation
  PROVE  TypeOK'
<1> USE DEF uiVars, applyVars, stateVars, setupVars, configVars, serverVars
<1>1. NoSession \in Sessions /\ remote.client \in Sessions
        /\ remote.cache \in Sessions /\ server \in Nat
  BY DEF TypeOK, Sessions, Remotes
<1>2. "refresh" \in Kind /\ "mutation" \in Kind /\ CallFailures \subseteq Error
  BY DEF Kind, CallFailures, Error
<1>3. CASE CallRefresh
  <2>1. remote' \in Remotes /\ returning' \in SUBSET Messages
    BY <1>1, <1>2, <1>3, FinishType DEF CallRefresh, Fail
  <2>2. QED
    BY <1>3, <2>1 DEF TypeOK, CallRefresh
<1>4. CASE CallMutation
  <2>1. remote' \in Remotes /\ returning' \in SUBSET Messages
    <3>1. \/ Finish("mutation", "none", server, NoSession, TRUE)
          \/ Finish("mutation", "none", server + 1, NoSession, TRUE)
          \/ \E e \in CallFailures : Finish("mutation", e, 0, NoSession, FALSE)
      BY <1>4 DEF CallMutation, Fail
    <3>2. server + 1 \in Nat
      BY <1>1
    <3>3. QED
      BY <1>1, <1>2, <3>1, <3>2, FinishType
  <2>2. server' \in Nat /\ sends' \in [Ops -> Nat]
    <3>1. server' \in {server, server + 1}
      BY <1>4 DEF CallMutation
    <3>2. \/ sends' = sends
          \/ sends' = [sends EXCEPT ![job.op] = @ + 1]
      BY <1>4 DEF CallMutation
    <3>3. QED
      BY <1>1, <3>1, <3>2 DEF TypeOK
  <2>3. QED
    BY <1>4, <2>1, <2>2 DEF TypeOK, CallMutation
<1>5. QED
  BY <1>3, <1>4

\* The event loop finishes a worker and queues its result.
LEMMA LandType ==
  ASSUME TypeOK, NEW k \in Kind, Land(k)
  PROVE  TypeOK'
<1>1. PICK m \in returning :
        /\ returning' = returning \ {m}
        /\ inbox' = inbox \/ inbox' = Append(inbox, m)
        /\ job' = NoJob \/ job' = job
  BY DEF Land
<1>2. m \in Messages /\ inbox \in Seq(Messages)
  BY DEF TypeOK
<1>3. inbox' \in Seq(Messages) /\ returning' \in SUBSET Messages
  BY <1>1, <1>2 DEF TypeOK
<1>4. job' \in Jobs
  BY <1>1 DEF TypeOK, NoJob, Jobs, Plan
<1>5. UNCHANGED <<uiVars, applyVars, stateVars, setupVars, configVars, serverVars,
                  waiting, remote, client, cache, host, setups>>
  BY DEF Land
<1>6. QED
  BY <1>3, <1>4, <1>5 DEF TypeOK, uiVars, applyVars, stateVars, setupVars,
     configVars, serverVars

LEMMA RefreshResultType ==
  ASSUME TypeOK, DeliverRefresh \/ DeliverRefreshFailure
  PROVE  TypeOK'
<1> USE DEF uiVars, applyVars, stateVars, setupVars, configVars, serverVars
<1>1. Head(inbox) \in Messages /\ inbox' \in Seq(Messages)
  BY DeliverType DEF DeliverRefresh, DeliverRefreshFailure
<1>2. CASE DeliverRefresh
  <2>1. raw' \in Nat /\ cache' \in Sessions /\ connection' \in Connection
    BY <1>1, <1>2 DEF DeliverRefresh, Messages, Connection
  <2>2. waiting' \in [Kind -> Nat]
    <3>1. waiting \in [Kind -> Nat] /\ "lists" \in Kind
      BY DEF TypeOK, Kind
    <3>2. \/ waiting' = waiting
          \/ waiting' = [waiting EXCEPT !["lists"] = @ + 1]
      BY <1>2 DEF DeliverRefresh
    <3>3. QED
      BY <3>1, <3>2
  <2>3. /\ haveStatus' \in BOOLEAN /\ refreshing' \in BOOLEAN
        /\ stale' \in BOOLEAN /\ fatal' \in BOOLEAN /\ latch' \in BOOLEAN
    BY <1>2 DEF DeliverRefresh
  <2>4. UNCHANGED <<uiVars, applyVars, listed, setupVars, configVars,
                    serverVars, remote, job, returning, client, host, setups>>
    BY <1>2 DEF DeliverRefresh
  <2>5. QED
    BY <1>1, <2>1, <2>2, <2>3, <2>4 DEF TypeOK
<1>3. CASE DeliverRefreshFailure
  <2>1. preview' \in Previews
    BY <1>3 DEF TypeOK, DeliverRefreshFailure, MarkStale, Previews
  <2>2. /\ connection' \in Connection /\ stale' \in BOOLEAN
        /\ client' \in Sessions /\ cache' \in Sessions
    BY <1>3 DEF TypeOK, DeliverRefreshFailure, Connection, Sessions
  <2>3. refreshing' \in BOOLEAN /\ fatal' \in BOOLEAN
    BY <1>3 DEF DeliverRefreshFailure
  <2>4. UNCHANGED <<uiVars, lastOp, active, outcome, raw, haveStatus, listed,
                    latch, setupVars, configVars, serverVars, waiting, remote,
                    job, returning, host, setups>>
    BY <1>3 DEF DeliverRefreshFailure
  <2>5. QED
    BY <1>1, <2>1, <2>2, <2>3, <2>4 DEF TypeOK
<1>4. QED
  BY <1>2, <1>3

LEMMA MutationResultType ==
  ASSUME TypeOK, DeliverMutation
  PROVE  TypeOK'
<1> DEFINE m == Head(inbox)
<1>1. m \in Messages /\ inbox' \in Seq(Messages)
  BY DeliverType DEF DeliverMutation
<1>2. active' \in Nat /\ UNCHANGED <<running, started, needsSetup, help, lastOp,
         connection, stale, raw, haveStatus, listed, latch, fatal, setupVars,
         configVars, server, sends, remote, job, returning, client, cache, host,
         setups>>
  BY DEF DeliverMutation
<1>3. /\ preview' \in Previews /\ modal' \in Modal
      /\ outcome' \in [op: Nat, status: Status]
  <2>1. NoPreview \in Previews /\ Thawed(preview) \in Previews
    BY DEF TypeOK, Thawed, NoPreview, Previews, Plan
  <2>2. StatusOf(m) \in Status
    BY DEF StatusOf, Status
  <2>3. lastOp \in Nat
    BY SessionAssumption DEF TypeOK
  <2>4. QED
    BY <2>1, <2>2, <2>3 DEF TypeOK, DeliverMutation, Modal
<1>4. acked' \in Nat /\ overtaken' \in BOOLEAN /\ refreshing' \in BOOLEAN
  BY <1>1 DEF TypeOK, DeliverMutation, Messages, Outrun, RefreshFlag,
     CanStartRefresh, Finished
<1>5. waiting' \in [Kind -> Nat]
  <2>1. waiting \in [Kind -> Nat] /\ StartRefresh(waiting) \in [Kind -> Nat]
    BY StartRefreshType DEF TypeOK
  <2>2. \/ waiting' = waiting
        \/ \E n \in {0, 1} : waiting' = [StartRefresh(waiting)
                                             EXCEPT !["lists"] = @ + n]
    BY DEF DeliverMutation
  <2>3. QED
    BY <2>1, <2>2
<1>6. QED
  BY <1>1, <1>2, <1>3, <1>4, <1>5 DEF TypeOK, setupVars, configVars

\* Both ways a connection form completes.
LEMMA SetupDoneType ==
  ASSUME TypeOK, NEW h \in Host, SetupDone(h) \/ SetupUnwritten
  PROVE  /\ confirming' \in BOOLEAN /\ fileExists' \in BOOLEAN
         /\ fileHost' \in Host \cup {NoHost} /\ host' \in Host \cup {NoHost}
         /\ client' \in Sessions /\ cache' \in Sessions /\ latch' \in BOOLEAN
         /\ needsSetup' \in BOOLEAN /\ started' \in BOOLEAN
         /\ help' \in BOOLEAN /\ modal' \in Modal
         /\ waiting' \in [Kind -> Nat] /\ refreshing' \in BOOLEAN
         /\ overtaken' \in BOOLEAN /\ setups' \in Nat
<1>1. CASE SetupDone(h)
  <2>1. StartRefresh(waiting) \in [Kind -> Nat]
    BY StartRefreshType DEF TypeOK
  <2>2. waiting' \in [Kind -> Nat]
    BY <1>1, <2>1 DEF SetupDone
  <2>3. refreshing' \in BOOLEAN
    BY <1>1 DEF TypeOK, SetupDone, RefreshFlag, CanStartRefresh, Finished
  <2>4. client' \in Sessions /\ cache' \in Sessions /\ modal' \in Modal
    BY <1>1 DEF TypeOK, SetupDone, Modal, Sessions
  <2>5. setups' \in Nat /\ confirming' \in BOOLEAN /\ overtaken' \in BOOLEAN
    BY <1>1 DEF TypeOK, SetupDone
  <2>6. /\ fileExists' \in BOOLEAN /\ latch' \in BOOLEAN /\ help' \in BOOLEAN
        /\ needsSetup' \in BOOLEAN /\ started' \in BOOLEAN
        /\ fileHost' \in Host \cup {NoHost} /\ host' \in Host \cup {NoHost}
    BY <1>1 DEF SetupDone
  <2>7. QED
    BY <2>2, <2>3, <2>4, <2>5, <2>6
<1>2. CASE SetupUnwritten
  BY <1>2 DEF TypeOK, SetupUnwritten
<1>3. QED
  BY <1>1, <1>2

LEMMA SetupType ==
  ASSUME TypeOK, SetupThread \/ DeliverSetup \/ \E h \in Host : SubmitSetup(h)
  PROVE  TypeOK'
<1> USE DEF uiVars, applyVars, stateVars, configVars, serverVars
<1>1. CASE SetupThread
  <2>1. inbox' \in Seq(Messages)
    <3>1. \A e \in {"none", "unavailable"} :
             Message("setup", e, 0, NoSession, FALSE) \in Messages
      BY DEF Message, Told, Messages, Error, Sessions
    <3>2. inbox \in Seq(Messages)
      BY DEF TypeOK
    <3>3. CASE inbox' = inbox
      BY <3>2, <3>3
    <3>4. CASE \E e \in {"none", "unavailable"} : inbox' =
                  Append(inbox, Message("setup", e, 0, NoSession, FALSE))
      <4>1. \E m \in Messages : inbox' = Append(inbox, m)
        BY <3>1, <3>4, Zenon
      <4>2. QED
        BY <3>2, <4>1
    <3>5. QED
      BY <1>1, <3>3, <3>4 DEF SetupThread
  <2>2. setupTest' \in {"idle", "started", "testing"}
    BY <1>1 DEF SetupThread
  <2>3. QED
    BY <1>1, <2>1, <2>2 DEF TypeOK, SetupThread
<1>2. CASE \E h \in Host : SubmitSetup(h)
  <2>1. PICK h \in Host : SubmitSetup(h)
    BY <1>2
  <2>2. CASE SetupDone(h) \/ SetupUnwritten
    <3>1. /\ setupCfg' \in Host \cup {NoHost}
          /\ setupTest' \in {"idle", "started", "testing"}
      BY <2>1 DEF TypeOK, SubmitSetup
    <3>2. UNCHANGED <<running, applyVars, connection, stale, raw, haveStatus,
                      listed, fatal, source, environ, creds, server, sends,
                      acked, remote, job, returning, inbox>>
      BY <2>1 DEF SubmitSetup
    <3>3. QED
      BY <2>2, <3>1, <3>2, SetupDoneType DEF TypeOK
  <2>3. CASE setupCfg' = h /\ setupTest' = "started"
               /\ UNCHANGED <<confirming, fileExists, fileHost, host, client,
                     cache, latch, needsSetup, started, help, modal, waiting,
                     refreshing, overtaken, setups>>
    <3>1. UNCHANGED <<running, applyVars, connection, stale, raw, haveStatus,
                      listed, fatal, source, environ, creds, server, sends,
                      acked, remote, job, returning, inbox>>
      BY <2>1 DEF SubmitSetup
    <3>2. QED
      BY <2>3, <3>1 DEF TypeOK
  <2>4. QED
    BY <2>1, <2>2, <2>3 DEF SubmitSetup
<1>3. CASE DeliverSetup
  <2>1. inbox' \in Seq(Messages)
    BY <1>3, DeliverType DEF DeliverSetup
  <2>2. UNCHANGED <<running, applyVars, connection, stale, raw, haveStatus,
                    listed, fatal, setupCfg, setupTest, source, environ, creds,
                    server, sends, acked, remote, job, returning>>
    BY <1>3 DEF DeliverSetup
  <2>3. CASE setupCfg # NoHost /\ (SetupDone(setupCfg) \/ SetupUnwritten)
    <3>1. setupCfg \in Host
      BY <2>3 DEF TypeOK
    <3>2. QED
      BY <2>1, <2>2, <2>3, <3>1, SetupDoneType DEF TypeOK
  <2>4. CASE confirming' \in BOOLEAN
               /\ UNCHANGED <<fileExists, fileHost, host, client, cache, latch,
                     needsSetup, started, help, modal, waiting, refreshing,
                     overtaken, setups>>
    BY <2>1, <2>2, <2>4 DEF TypeOK
  <2>5. QED
    BY <1>3, <2>3, <2>4 DEF TypeOK, DeliverSetup
<1>4. QED
  BY <1>1, <1>2, <1>3

LEMMA QueueType ==
  ASSUME TypeOK, DropResult \/ DeliverLists
  PROVE  TypeOK'
<1> USE DEF uiVars, applyVars, stateVars, setupVars, configVars, serverVars
<1>1. inbox' \in Seq(Messages)
  BY DeliverType DEF DropResult, DeliverLists
<1>2. CASE DropResult
  BY <1>1, <1>2 DEF TypeOK, DropResult
<1>3. CASE DeliverLists
  BY <1>1, <1>3 DEF TypeOK, DeliverLists
<1>4. QED
  BY <1>2, <1>3

LEMMA StepType == ASSUME TypeOK, [Next]_vars PROVE TypeOK'
<1>1. CASE UNCHANGED vars
  BY <1>1 DEF TypeOK, vars, uiVars, applyVars, stateVars, setupVars, configVars,
     serverVars, workerVars
<1>2. CASE Operator
  BY <1>2, ScreenType, ApplyType, SetupType DEF Operator
<1>3. CASE PeriodicTick \/ SampleTick
  BY <1>3, TimerType
<1>4. CASE Worker
  BY <1>4, RemoteType, CallType, LandType, SetupType DEF Worker, Remote
<1>5. CASE Handler
  BY <1>5, QueueType, RefreshResultType, MutationResultType, SetupType
     DEF Handler
<1>6. QED
  BY <1>1, <1>2, <1>3, <1>4, <1>5 DEF Next

(***************************************************************************)
(* Whatever the number of operations, forms, sessions and queued results,  *)
(* every field of the app and of the controller keeps its type.            *)
(***************************************************************************)
THEOREM TypeCorrect == Spec => []TypeOK
<1>1. Init => TypeOK
  BY InitType
<1>2. TypeOK /\ [Next]_vars => TypeOK'
  BY StepType
<1>3. QED
  BY <1>1, <1>2, PTL DEF Spec
=============================================================================
