----------------------------- MODULE TuiApplyProofs -----------------------------
(* The Preview / Apply cycle is safe, implements ApplyOnce, reports what it *)
(* sent, offers Apply over fresh snapshots only, and reads back what it     *)
(* changed, for every value of the constants.                               *)
EXTENDS TuiSessionProofs

-----------------------------------------------------------------------------
(* Facts about the queue of worker results. *)

LEMMA AppendedMessage ==
  ASSUME NEW q \in Seq(Messages), NEW m \in Messages
  PROVE  /\ Len(Append(q, m)) = Len(q) + 1
         /\ \A i \in 1..Len(q) : Append(q, m)[i] = q[i]
         /\ Append(q, m)[Len(q) + 1] = m
OBVIOUS

LEMMA RemainingMessage ==
  ASSUME NEW q \in Seq(Messages), q # << >>
  PROVE  /\ Len(Tail(q)) = Len(q) - 1 /\ Len(q) \in Nat /\ Len(q) > 0
         /\ \A i \in 1..Len(Tail(q)) : Tail(q)[i] = q[i + 1]
         /\ Head(q) = q[1]
OBVIOUS

\* What queueing or taking the result of another worker does to the mutations.
Untouched(p, q) ==
  /\ \A i \in 1..Len(q) : q[i].kind = "mutation" =>
        \E j \in 1..Len(p) : p[j] = q[i]
  /\ \A i \in 1..Len(p) : p[i].kind = "mutation" =>
        \E j \in 1..Len(q) : q[j] = p[i]
  /\ (\A i, j \in 1..Len(p) :
         (p[i].kind = "mutation" /\ p[j].kind = "mutation") => i = j)
      => \A i, j \in 1..Len(q) :
         (q[i].kind = "mutation" /\ q[j].kind = "mutation") => i = j

LEMMA AppendUntouched ==
  ASSUME NEW q \in Seq(Messages), NEW m \in Messages, m.kind # "mutation"
  PROVE  Untouched(q, Append(q, m))
<1> DEFINE r == Append(q, m)
<1>1. /\ Len(r) = Len(q) + 1 /\ Len(q) \in Nat
      /\ \A i \in 1..Len(q) : r[i] = q[i]
      /\ r[Len(q) + 1] = m
  BY AppendedMessage
<1> HIDE DEF r
<1>2. \A i \in 1..Len(r) : r[i].kind = "mutation" => i \in 1..Len(q) /\ q[i] = r[i]
  BY <1>1
<1>3. \A i \in 1..Len(q) : i \in 1..Len(r)
  BY <1>1
<1>4. Untouched(q, r)
  BY <1>1, <1>2, <1>3 DEF Untouched
<1>5. QED
  BY <1>4 DEF r

LEMMA TailUntouched ==
  ASSUME NEW q \in Seq(Messages), q # << >>, Head(q).kind # "mutation"
  PROVE  Untouched(q, Tail(q))
<1> DEFINE r == Tail(q)
<1>1. /\ Len(r) = Len(q) - 1 /\ Len(q) \in Nat /\ Len(q) > 0
      /\ \A i \in 1..Len(r) : r[i] = q[i + 1]
      /\ q[1].kind # "mutation"
  BY RemainingMessage
<1> HIDE DEF r
<1>2. \A i \in 1..Len(r) : i + 1 \in 1..Len(q)
  BY <1>1
<1>3. \A i \in 1..Len(q) : q[i].kind = "mutation" =>
         i - 1 \in 1..Len(r) /\ r[i - 1] = q[i]
  BY <1>1
<1>4. Untouched(q, r)
  <2>1. \A i \in 1..Len(r) : r[i].kind = "mutation" =>
           \E j \in 1..Len(q) : q[j] = r[i]
    BY <1>1, <1>2
  <2>2. \A i \in 1..Len(q) : q[i].kind = "mutation" =>
           \E j \in 1..Len(r) : r[j] = q[i]
    BY <1>3
  <2>3. ASSUME \A i, j \in 1..Len(q) :
                  (q[i].kind = "mutation" /\ q[j].kind = "mutation") => i = j,
               NEW i \in 1..Len(r), NEW j \in 1..Len(r),
               r[i].kind = "mutation", r[j].kind = "mutation"
        PROVE  i = j
    <3>1. i + 1 = j + 1
      BY <1>1, <1>2, <2>3
    <3>2. QED
      BY <3>1
  <2>4. QED
    BY <2>1, <2>2, <2>3 DEF Untouched
<1>5. QED
  BY <1>4 DEF r

-----------------------------------------------------------------------------
(* Steps that no mutation takes part in. *)

\* The results of mutations on their way back from their threads.
Mutations(R) == {m \in R : m.kind = "mutation"}

\* What such a step leaves alone, up to a Preview going stale.
Quiet ==
  /\ running' => running
  /\ UNCHANGED <<lastOp, active, job, sends>>
  /\ waiting'["mutation"] = waiting["mutation"]
  /\ (remote'.kind = "mutation") <=> (remote.kind = "mutation")
  /\ Mutations(returning') = Mutations(returning)
  /\ Untouched(inbox, inbox')
  /\ preview' = preview \/ preview' = MarkStale(preview)
  /\ modal' = modal \/ (modal # "preview" /\ modal' # "preview")

LEMMA SameQueue == ASSUME inbox' = inbox PROVE Untouched(inbox, inbox')
BY DEF Untouched

LEMMA QuietStep ==
  ASSUME TypeOK, ApplyInv, Quiet
  PROVE  ApplyInv'
<1> USE DEF ApplyInv
<1>1. /\ preview'.op = preview.op /\ preview'.plan = preview.plan
      /\ preview'.applying = preview.applying
      /\ preview.stale => preview'.stale
  BY DEF TypeOK, Previews, Quiet, MarkStale
<1>2. \A m : m.kind = "mutation" => (m \in returning' <=> m \in returning)
  BY DEF Quiet, Mutations
<1>3. /\ AtLock("mutation")' <=> AtLock("mutation")
      /\ Finished("mutation")' <=> Finished("mutation")
  BY <1>2 DEF Quiet, AtLock, Finished
<1>4. Reported' <=> Reported
  BY DEF Quiet, Untouched, Reported
<1>5. Outstanding' <=> Outstanding
  BY <1>3, <1>4 DEF Outstanding
<1>6. PreviewIsShown'
  BY <1>1 DEF PreviewIsShown, Quiet
<1>7. OneMutation'
  <2>1. /\ AtLock("mutation")' => \A m \in returning' : m.kind # "mutation"
        /\ \A m, n \in returning' :
              (m.kind = "mutation" /\ n.kind = "mutation") => m = n
    BY <1>2, <1>3 DEF OneMutation
  <2>2. QED
    BY <1>3, <1>4, <2>1 DEF OneMutation, Quiet, Untouched
<1>8. MutationIsOwned'
  <2>1. \A i \in 1..Len(inbox') : inbox'[i].kind = "mutation"
           => inbox'[i].op = active'
    BY DEF MutationIsOwned, Quiet, Untouched
  <2>2. \A m \in returning' : m.kind = "mutation" => m.op = active'
    BY <1>2 DEF MutationIsOwned, Quiet
  <2>3. QED
    BY <1>1, <1>3, <1>5, <2>1, <2>2 DEF MutationIsOwned, Quiet
<1>9. SentAtMostOnce'
  BY <1>1, <1>3 DEF SentAtMostOnce, Quiet
<1>10. QED
  BY <1>6, <1>7, <1>8, <1>9

LEMMA QuietFinish ==
  ASSUME NEW k \in Kind \ {"mutation"}, NEW e, NEW v, NEW c, NEW d,
         Finish(k, e, v, c, d)
  PROVE  remote'.kind = "none" /\ Mutations(returning') = Mutations(returning)
<1>1. Message(k, e, v, c, d).kind # "mutation"
  BY DEF Message
<1>2. QED
  BY <1>1 DEF Finish, NoRemote, Mutations

LEMMA QuietDeliver ==
  ASSUME TypeOK, NEW k \in (Kind \cup {"setup"}) \ {"mutation"}, Deliver(k)
  PROVE  Untouched(inbox, inbox')
BY TailUntouched DEF TypeOK, Deliver

\* The call in hand.
LEMMA SameCall ==
  ASSUME \/ UNCHANGED <<remote, job>>
         \/ remote.kind # "mutation" /\ remote'.kind # "mutation"
  PROVE  UNCHANGED Calling
BY DEF Calling

\* Timers, screens other than Preview, and the end of the app.
LEMMA ScreenIsQuiet ==
  ASSUME TypeOK, ApplyInv,
         \/ PeriodicTick \/ SampleTick
         \/ \E m \in {"actions", "overlay"} : OpenScreen(m)
         \/ Reconfigure \/ ToggleHelp \/ Quit
  PROVE  Quiet /\ UNCHANGED Calling /\ (Quit \/ UNCHANGED running)
<1> USE SameQueue, SameCall
    DEF Quiet, uiVars, applyVars, serverVars, workerVars
<1>1. CASE PeriodicTick
  BY <1>1 DEF TypeOK, PeriodicTick, StartRefresh, Kind
<1>2. CASE SampleTick
  BY <1>2 DEF TypeOK, SampleTick, Kind
<1>3. CASE \E m \in {"actions", "overlay"} : OpenScreen(m)
  BY <1>3 DEF OpenScreen, Top
<1>4. CASE Reconfigure
  BY <1>4 DEF Reconfigure, Top
<1>5. CASE ToggleHelp
  BY <1>5 DEF ToggleHelp
<1>6. CASE Quit
  BY <1>6 DEF Quit
<1>7. QED
  BY <1>1, <1>2, <1>3, <1>4, <1>5, <1>6

\* The threads that read: refresh, lists, sample.
LEMMA ReaderIsQuiet ==
  ASSUME TypeOK, NEW k \in Kind \ {"mutation"}, Remote(k) \/ CallRefresh
  PROVE  Quiet /\ UNCHANGED <<Calling, running>>
<1>1. /\ UNCHANGED <<running, modal, preview, lastOp, active, sends, job, inbox>>
      /\ waiting'["mutation"] = waiting["mutation"]
  <2>1. CASE Acquire(k)
    BY <2>1 DEF TypeOK, Acquire, Kind, uiVars, applyVars, serverVars
  <2>2. CASE ReadConfig(k)
    BY <2>2 DEF ReadConfig, uiVars, applyVars, serverVars
  <2>3. CASE Login(k)
    BY <2>3 DEF Login, uiVars, applyVars, serverVars
  <2>4. CASE Begin(k)
    BY <2>4 DEF Begin, uiVars, applyVars, serverVars
  <2>5. CASE CallReader(k)
    BY <2>5 DEF CallReader, uiVars, applyVars, serverVars
  <2>6. CASE CallRefresh
    BY <2>6 DEF CallRefresh, uiVars, applyVars, serverVars
  <2>7. QED
    BY <2>1, <2>2, <2>3, <2>4, <2>5, <2>6 DEF Remote
<1>2. /\ remote.kind # "mutation" /\ remote'.kind # "mutation"
      /\ Mutations(returning') = Mutations(returning)
  <2> DEFINE Done == \E j \in Kind \ {"mutation"} : \E e, v, c, d :
                        Finish(j, e, v, c, d)
  <2>1. CASE Acquire(k)
    BY <2>1 DEF Acquire
  <2>2. CASE Remote(k) /\ ~Acquire(k)
    <3>1. remote.kind = k /\ remote \in Remotes
      BY <2>2 DEF TypeOK, Remote, ReadConfig, Login, Begin, CallReader
    <3>2. \/ Done
          \/ remote'.kind = remote.kind /\ UNCHANGED returning
      <4>1. CASE ReadConfig(k)
        BY <3>1, <4>1 DEF ReadConfig, Fail, Remotes
      <4>2. CASE Login(k)
        BY <3>1, <4>2 DEF Login, Fail, Remotes
      <4>3. CASE Begin(k)
        BY <3>1, <4>3 DEF Begin, Remotes
      <4>4. CASE CallReader(k)
        BY <4>4 DEF CallReader, Fail
      <4>5. QED
        BY <2>2, <4>1, <4>2, <4>3, <4>4 DEF Remote
    <3>3. QED
      BY <3>1, <3>2, QuietFinish
  <2>3. CASE CallRefresh
    <3>1. remote.kind = "refresh" /\ "refresh" \in Kind \ {"mutation"}
      BY <2>3 DEF CallRefresh, Kind
    <3>2. Done
      BY <2>3, <3>1 DEF CallRefresh, Fail
    <3>3. QED
      BY <3>1, <3>2, QuietFinish
  <2>4. QED
    BY <2>1, <2>2, <2>3
<1>3. QED
  BY <1>1, <1>2, SameQueue, SameCall DEF Quiet

\* Their results reach the queue, or are dropped there.
LEMMA LandIsQuiet ==
  ASSUME TypeOK, NEW k \in Kind \ {"mutation"}, Land(k)
  PROVE  Quiet /\ UNCHANGED <<Calling, running>>
<1>1. PICK m \in returning :
        /\ m.kind = k /\ returning' = returning \ {m}
        /\ inbox' = inbox \/ inbox' = Append(inbox, m)
  BY DEF Land
<1>2. m \in Messages /\ inbox \in Seq(Messages) /\ m.kind # "mutation"
  BY <1>1 DEF TypeOK
<1>3. Untouched(inbox, inbox')
  BY <1>1, <1>2, AppendUntouched, SameQueue
<1>4. Mutations(returning') = Mutations(returning)
  BY <1>1, <1>2 DEF Mutations
<1>5. UNCHANGED <<running, modal, preview, lastOp, active, job, sends, waiting,
                  remote>>
  BY DEF Land, uiVars, applyVars, serverVars
<1>6. QED
  BY <1>3, <1>4, <1>5, SameCall DEF Quiet

\* The connection form and the thread that tests it.
LEMMA SetupIsQuiet ==
  ASSUME TypeOK, SetupThread \/ DeliverSetup \/ \E h \in Host : SubmitSetup(h)
  PROVE  Quiet /\ UNCHANGED <<Calling, running>>
<1>1. UNCHANGED <<running, preview, lastOp, active, job, sends, remote, returning>>
  BY DEF SetupThread, DeliverSetup, SubmitSetup, uiVars, applyVars, serverVars
<1>2. Untouched(inbox, inbox')
  <2>1. CASE SetupThread
    <3>1. inbox \in Seq(Messages)
      BY DEF TypeOK
    <3>2. \/ inbox' = inbox
          \/ \E m \in Messages : m.kind # "mutation" /\ inbox' = Append(inbox, m)
      <4>1. \A e \in {"none", "unavailable"} :
               /\ Message("setup", e, 0, NoSession, FALSE) \in Messages
               /\ Message("setup", e, 0, NoSession, FALSE).kind # "mutation"
        BY DEF Message, Told, Messages, Error, Sessions
      <4>2. QED
        BY <2>1, <4>1, Zenon DEF SetupThread
    <3>3. QED
      BY <3>1, <3>2, AppendUntouched, SameQueue
  <2>2. CASE DeliverSetup
    BY <2>2, QuietDeliver DEF DeliverSetup
  <2>3. CASE \E h \in Host : SubmitSetup(h)
    BY <2>3, SameQueue DEF SubmitSetup
  <2>4. QED
    BY <2>1, <2>2, <2>3
<1>3. /\ waiting'["mutation"] = waiting["mutation"]
      /\ modal' = modal \/ (modal # "preview" /\ modal' # "preview")
  <2>1. CASE UNCHANGED <<waiting, modal>>
    BY <2>1
  <2>2. CASE \E h : SetupDone(h) /\ modal = "setup"
    BY <2>2 DEF TypeOK, SetupDone, StartRefresh, Kind
  <2>3. QED
    BY <2>1, <2>2 DEF SetupThread, DeliverSetup, SubmitSetup, SetupUnwritten,
       Top, uiVars
<1>4. QED
  BY <1>1, <1>2, <1>3, SameCall DEF Quiet

\* The results of refreshes and list reads.
LEMMA ResultIsQuiet ==
  ASSUME TypeOK,
         \/ DeliverRefresh \/ DeliverRefreshFailure \/ DeliverLists
         \/ DropResult /\ ~Deliver("mutation")
  PROVE  Quiet /\ UNCHANGED <<Calling, running>>
<1>1. Untouched(inbox, inbox')
  BY QuietDeliver
     DEF DeliverRefresh, DeliverRefreshFailure, DeliverLists, DropResult, Kind
<1>2. /\ UNCHANGED <<running, modal, lastOp, active, job, sends, remote, returning>>
      /\ preview' = preview \/ preview' = MarkStale(preview)
  BY DEF DeliverRefresh, DeliverRefreshFailure, DeliverLists, DropResult,
     uiVars, applyVars, serverVars
<1>3. waiting'["mutation"] = waiting["mutation"]
  BY DEF TypeOK, DeliverRefresh, DeliverRefreshFailure, DeliverLists, DropResult,
     Kind
<1>4. QED
  BY <1>1, <1>2, <1>3, SameCall DEF Quiet

-----------------------------------------------------------------------------
(* The steps of a Preview and of its mutation. *)

\* What is known while no mutation is queued, in flight or unreported.
LEMMA NoneOut ==
  ASSUME ~Outstanding
  PROVE  /\ ~AtLock("mutation") /\ Finished("mutation") /\ Reported
         /\ \A m \in returning : m.kind # "mutation"
BY DEF Outstanding, Finished

\* Steps that leave the threads and the queue alone keep it so.
LEMMA StillNoneOut ==
  ASSUME ~Outstanding, UNCHANGED <<waiting, remote, returning, inbox>>
  PROVE  ~Outstanding'
BY DEF Outstanding, Finished, AtLock, Reported

LEMMA InitApply == ASSUME Init PROVE ApplyInv
<1>1. waiting["mutation"] = 0 /\ remote.kind = "none" /\ Len(inbox) = 0
      /\ returning = {}
  BY DEF Init, InitConfigured, InitFirstRun, NoRemote, Kind
<1>2. modal # "preview" /\ preview = NoPreview
  BY DEF Init, InitConfigured, InitFirstRun
<1>3. ~Outstanding
  BY <1>1 DEF AtLock, Finished, Reported, Outstanding
<1>4. PreviewIsShown
  BY <1>2 DEF PreviewIsShown, NoPreview
<1>5. OneMutation
  BY <1>1, <1>3, NoneOut DEF OneMutation
<1>6. MutationIsOwned
  BY <1>1, <1>2, <1>3, NoneOut DEF MutationIsOwned, NoPreview
<1>7. SentAtMostOnce
  BY <1>3, NoneOut DEF SentAtMostOnce, Init
<1>8. QED
  BY <1>4, <1>5, <1>6, <1>7 DEF ApplyInv

LEMMA OpenPreviewStep ==
  ASSUME TypeOK, ApplyInv, NEW p \in Plan, OpenPreview(p)
  PROVE  ApplyInv'
<1> USE SessionAssumption
<1>1. preview.op = 0 /\ ~preview.applying /\ ~Outstanding
  BY DEF ApplyInv, PreviewIsShown, MutationIsOwned, OpenPreview, Top
<1>2. UNCHANGED <<running, active, waiting, remote, job, returning, inbox, sends>>
  BY DEF OpenPreview, serverVars, workerVars
<1>3. /\ lastOp' = lastOp + 1 /\ lastOp \in Nat /\ lastOp' \in Ops
      /\ preview'.op = lastOp' /\ ~preview'.applying /\ modal' = "preview"
  BY DEF TypeOK, OpenPreview, Ops
<1>4. ~Outstanding'
  BY <1>1, <1>2, StillNoneOut
<1>5. PreviewIsShown'
  BY <1>3 DEF PreviewIsShown
<1>6. OneMutation'
  BY <1>2 DEF ApplyInv, OneMutation, AtLock, Finished, Reported
<1>7. MutationIsOwned'
  <2>1. Finished("mutation")'
    BY <1>4 DEF Outstanding
  <2>2. QED
    BY <1>1, <1>2, <1>3, <1>4, <2>1, NoneOut DEF MutationIsOwned, Reported
<1>8. SentAtMostOnce'
  <2>1. \A o \in Ops : sends[o] = 1 => o < lastOp'
    BY <1>3 DEF ApplyInv, SentAtMostOnce, Ops
  <2>2. ~AtLock("mutation")'
    BY <1>4 DEF Outstanding, Finished
  <2>3. QED
    BY <1>2, <1>3, <2>1, <2>2 DEF ApplyInv, SentAtMostOnce, Ops
<1>9. QED
  BY <1>5, <1>6, <1>7, <1>8 DEF ApplyInv

LEMMA ApplyPlanStep ==
  ASSUME TypeOK, ApplyInv, ApplyPlan
  PROVE  ApplyInv'
<1> USE SessionAssumption
<1>1. ~preview.applying /\ ~preview.stale /\ modal = "preview" /\ running
  BY DEF ApplyPlan, CanApply, Top
<1>2. /\ ~Outstanding /\ ~AtLock("mutation") /\ Finished("mutation") /\ Reported
      /\ \A m \in returning : m.kind # "mutation"
  BY <1>1, NoneOut DEF ApplyInv, MutationIsOwned
<1>3. preview.op = lastOp /\ preview.op # 0 /\ preview.op \in Ops
  BY <1>1 DEF TypeOK, ApplyInv, PreviewIsShown, Ops
<1>4. /\ preview'.op = preview.op /\ preview'.plan = preview.plan
      /\ preview'.applying /\ active' = preview.op
      /\ job' = [op |-> preview.op, plan |-> preview.plan]
      /\ UNCHANGED <<running, modal, lastOp, remote, returning, inbox, sends>>
  BY DEF TypeOK, Previews, ApplyPlan, uiVars, serverVars
<1>5. waiting'["mutation"] = 1 /\ remote.kind # "mutation"
  BY <1>2 DEF TypeOK, ApplyPlan, Kind, AtLock
<1>6. ~Finished("mutation")' /\ Outstanding' /\ Reported'
  BY <1>2, <1>4, <1>5 DEF AtLock, Finished, Outstanding, Reported
<1>7. PreviewIsShown'
  BY <1>1, <1>3, <1>4 DEF PreviewIsShown
<1>8. OneMutation'
  BY <1>2, <1>4, <1>5, <1>6 DEF ApplyInv, OneMutation
<1>9. MutationIsOwned'
  BY <1>2, <1>3, <1>4, <1>6 DEF MutationIsOwned, Reported
<1>10. SentAtMostOnce'
  BY <1>1, <1>3, <1>4, <1>6 DEF ApplyInv, SentAtMostOnce
<1>11. QED
  BY <1>7, <1>8, <1>9, <1>10 DEF ApplyInv

LEMMA DismissStep ==
  ASSUME TypeOK, ApplyInv, Dismiss
  PROVE  ApplyInv'
<1>1. ~preview.applying /\ ~Outstanding
  BY DEF ApplyInv, PreviewIsShown, MutationIsOwned, Dismiss, MayDismiss
<1>2. preview' = NoPreview /\ modal' = "none"
      /\ UNCHANGED <<running, lastOp, active, waiting, remote, job, returning,
                     inbox, sends>>
  BY DEF Dismiss, serverVars, workerVars
<1>3. ~Outstanding'
  BY <1>1, <1>2, StillNoneOut
<1>4. ~AtLock("mutation")' /\ Finished("mutation")'
  BY <1>3 DEF Outstanding, Finished
<1>5. PreviewIsShown'
  BY <1>2 DEF PreviewIsShown, NoPreview
<1>6. OneMutation'
  BY <1>2 DEF ApplyInv, OneMutation, AtLock, Finished, Reported
<1>7. MutationIsOwned'
  BY <1>1, <1>2, <1>3, <1>4, NoneOut DEF MutationIsOwned, NoPreview, Reported
<1>8. SentAtMostOnce'
  <2>1. \A o \in Ops : o # 0
    BY DEF Ops
  <2>2. QED
    BY <1>2, <1>4, <2>1 DEF ApplyInv, SentAtMostOnce, NoPreview
<1>9. QED
  BY <1>5, <1>6, <1>7, <1>8 DEF ApplyInv

\* What is known while the mutation holds the lock.
LEMMA InFlight ==
  ASSUME TypeOK, ApplyInv, remote.kind = "mutation"
  PROVE  /\ waiting["mutation"] = 0 /\ ~Finished("mutation") /\ Outstanding
         /\ \A i \in 1..Len(inbox) : inbox[i].kind # "mutation"
         /\ \A m \in returning : m.kind # "mutation"
         /\ job = [op |-> preview.op, plan |-> preview.plan]
         /\ preview.applying /\ preview.op = lastOp /\ preview.op \in Ops
         /\ active = lastOp /\ sends[preview.op] = 0
<1> USE DEF ApplyInv
<1>1. /\ waiting["mutation"] = 0 /\ AtLock("mutation") /\ ~Finished("mutation")
      /\ Outstanding
  BY DEF OneMutation, AtLock, Finished, Outstanding
<1>2. Reported /\ \A m \in returning : m.kind # "mutation"
  BY <1>1 DEF OneMutation
<1>3. /\ job = [op |-> preview.op, plan |-> preview.plan]
      /\ preview.applying /\ active = lastOp
  BY <1>1 DEF MutationIsOwned
<1>4. preview.op = lastOp /\ preview.op \in Ops
  BY <1>3, SessionAssumption DEF TypeOK, PreviewIsShown, Ops
<1>5. sends[preview.op] = 0
  BY <1>1, <1>3 DEF SentAtMostOnce
<1>6. QED
  BY <1>1, <1>2, <1>3, <1>4, <1>5 DEF Reported

\* The thread gives the lock back: its result is on its way.
LEMMA FinishMutationStep ==
  ASSUME TypeOK, ApplyInv, remote.kind = "mutation",
         NEW e, NEW v, NEW c, NEW d, Finish("mutation", e, v, c, d),
         UNCHANGED <<running, modal, preview, lastOp, active, waiting, job, inbox>>,
         \/ sends' = sends
         \/ sends' = [sends EXCEPT ![job.op] = @ + 1]
  PROVE  ApplyInv'
<1> DEFINE m == Message("mutation", e, v, c, d)
<1>1. /\ waiting["mutation"] = 0
      /\ \A i \in 1..Len(inbox) : inbox[i].kind # "mutation"
      /\ \A n \in returning : n.kind # "mutation"
      /\ job = [op |-> preview.op, plan |-> preview.plan]
      /\ preview.applying /\ preview.op = lastOp /\ preview.op \in Ops
      /\ active = lastOp /\ sends[preview.op] = 0
  BY InFlight
<1>2. m.kind = "mutation" /\ m.op = active
  BY <1>1 DEF Message
<1>3. returning' = returning \cup {m} /\ remote'.kind = "none"
  BY DEF Finish, NoRemote
<1> HIDE DEF m
<1>4. \A n \in returning' : n.kind = "mutation" => n = m
  BY <1>1, <1>3
<1>5. ~AtLock("mutation")' /\ ~Finished("mutation")' /\ Outstanding' /\ Reported'
  <2>1. ~AtLock("mutation")'
    BY <1>1, <1>3 DEF AtLock
  <2>2. Reported'
    BY <1>1 DEF Reported
  <2>3. m \in returning'
    BY <1>3
  <2>4. ~Finished("mutation")'
    BY <1>2, <2>3 DEF Finished
  <2>5. QED
    BY <2>1, <2>2, <2>4 DEF Outstanding
<1>6. PreviewIsShown'
  BY DEF ApplyInv, PreviewIsShown
<1>7. OneMutation'
  BY <1>1, <1>3, <1>4, <1>5 DEF OneMutation
<1>8. MutationIsOwned'
  <2>1. \A n \in returning' : n.kind = "mutation" => n.op = active'
    BY <1>2, <1>4
  <2>2. QED
    BY <1>1, <1>5, <2>1 DEF MutationIsOwned
<1>9. SentAtMostOnce'
  <2>1. \A o \in Ops : o # preview.op => sends'[o] = sends[o]
    BY <1>1 DEF TypeOK
  <2>2. sends'[preview.op] \in {0, 1}
    BY <1>1 DEF TypeOK
  <2>3. preview.op <= lastOp
    BY <1>1, SessionAssumption DEF TypeOK
  <2>4. QED
    BY <1>1, <1>5, <2>1, <2>2, <2>3 DEF ApplyInv, SentAtMostOnce
<1>10. QED
  BY <1>6, <1>7, <1>8, <1>9 DEF ApplyInv

\* What is known while the mutation's result is on its way back.
LEMMA OnItsWay ==
  ASSUME TypeOK, ApplyInv, NEW m \in returning, m.kind = "mutation"
  PROVE  /\ ~AtLock("mutation") /\ ~Finished("mutation") /\ Reported
         /\ \A n \in returning : n.kind = "mutation" => n = m
         /\ m.op = active /\ preview.applying /\ active = lastOp
<1>1. ~AtLock("mutation") /\ ~Finished("mutation")
  BY DEF ApplyInv, OneMutation, Finished
<1>2. QED
  BY <1>1 DEF ApplyInv, OneMutation, MutationIsOwned, Outstanding

\* The event loop takes it: the result joins the queue.
LEMMA LandMutationStep ==
  ASSUME TypeOK, ApplyInv, Land("mutation")
  PROVE  ApplyInv'
<1>1. PICK m \in returning :
        /\ m.kind = "mutation" /\ returning' = returning \ {m}
        /\ inbox' = Append(inbox, m)
  BY DEF Land, Posts
<1>2. UNCHANGED <<running, modal, preview, lastOp, active, waiting, remote, sends>>
  BY DEF Land, uiVars, applyVars, serverVars
<1>3. /\ ~AtLock("mutation") /\ Reported
      /\ \A n \in returning : n.kind = "mutation" => n = m
      /\ m.op = active /\ preview.applying /\ active = lastOp
  BY <1>1, OnItsWay
<1>4. m \in Messages /\ inbox \in Seq(Messages)
  BY DEF TypeOK
<1>5. /\ Len(inbox') = Len(inbox) + 1 /\ Len(inbox) \in Nat
      /\ \A i \in 1..Len(inbox) : inbox'[i] = inbox[i]
      /\ inbox'[Len(inbox) + 1] = m
  BY <1>1, <1>4, AppendedMessage
<1>6. \A i \in 1..Len(inbox') : inbox'[i].kind = "mutation"
                                  => i = Len(inbox) + 1 /\ inbox'[i].op = active
  BY <1>3, <1>5 DEF Reported
<1>7. \A n \in returning' : n.kind # "mutation"
  BY <1>1, <1>3
<1>8. ~AtLock("mutation")' /\ Finished("mutation")' /\ Outstanding'
  <2>1. ~AtLock("mutation")'
    BY <1>2, <1>3 DEF AtLock
  <2>2. Finished("mutation")'
    BY <1>7, <2>1 DEF Finished
  <2>3. Len(inbox) + 1 \in 1..Len(inbox')
    BY <1>5
  <2>4. QED
    BY <1>1, <1>5, <2>1, <2>2, <2>3 DEF Outstanding, Reported
<1>9. PreviewIsShown'
  BY <1>2 DEF ApplyInv, PreviewIsShown
<1>10. OneMutation'
  BY <1>2, <1>6, <1>7, <1>8 DEF ApplyInv, OneMutation
<1>11. MutationIsOwned'
  BY <1>2, <1>3, <1>6, <1>7, <1>8 DEF MutationIsOwned
<1>12. SentAtMostOnce'
  BY <1>2, <1>8 DEF ApplyInv, SentAtMostOnce
<1>13. QED
  BY <1>9, <1>10, <1>11, <1>12 DEF ApplyInv

LEMMA AcquireMutationStep ==
  ASSUME TypeOK, ApplyInv, Acquire("mutation")
  PROVE  ApplyInv'
<1>1. /\ waiting["mutation"] = 1 /\ waiting'["mutation"] = 0
      /\ remote'.kind = "mutation"
      /\ UNCHANGED <<running, modal, preview, lastOp, active, job, returning,
                     inbox, sends>>
  BY DEF TypeOK, ApplyInv, OneMutation, Acquire, Kind, uiVars, applyVars,
     serverVars
<1>2. AtLock("mutation") /\ AtLock("mutation")'
  BY <1>1 DEF AtLock
<1>3. /\ ~Finished("mutation") /\ ~Finished("mutation")'
      /\ Outstanding /\ Outstanding' /\ Reported'
  BY <1>1, <1>2 DEF ApplyInv, OneMutation, Finished, Outstanding, Reported
<1>4. PreviewIsShown'
  BY <1>1 DEF ApplyInv, PreviewIsShown
<1>5. OneMutation'
  BY <1>1, <1>2, <1>3 DEF ApplyInv, OneMutation
<1>6. MutationIsOwned'
  BY <1>1, <1>3 DEF ApplyInv, MutationIsOwned
<1>7. SentAtMostOnce'
  BY <1>1, <1>2 DEF ApplyInv, SentAtMostOnce
<1>8. QED
  BY <1>4, <1>5, <1>6, <1>7 DEF ApplyInv

LEMMA MutationThreadStep ==
  ASSUME TypeOK, ApplyInv, Remote("mutation") \/ CallMutation
  PROVE  ApplyInv'
<1> USE DEF uiVars, applyVars, serverVars
<1>1. CASE Acquire("mutation")
  BY <1>1, AcquireMutationStep
<1>2. CASE (Remote("mutation") /\ ~Acquire("mutation")) \/ CallMutation
  <2> DEFINE Done == \E e, v, c, d : Finish("mutation", e, v, c, d)
  <2>1. remote.kind = "mutation" /\ remote \in Remotes
    BY <1>2 DEF TypeOK, Remote, ReadConfig, Login, Begin, CallReader, CallMutation
  <2>2. /\ UNCHANGED <<running, modal, preview, lastOp, active, waiting, job, inbox>>
        /\ \/ sends' = sends
           \/ sends' = [sends EXCEPT ![job.op] = @ + 1]
    BY <1>2 DEF Remote, ReadConfig, Login, Begin, CallReader, CallMutation
  <2>3. \/ Done
        \/ remote'.kind = remote.kind /\ UNCHANGED <<returning, sends>>
    <3>1. CASE ReadConfig("mutation")
      BY <2>1, <3>1 DEF ReadConfig, Fail, Remotes
    <3>2. CASE Login("mutation")
      BY <2>1, <3>2 DEF Login, Fail, Remotes
    <3>3. CASE Begin("mutation")
      BY <2>1, <3>3 DEF Begin, Remotes
    <3>4. CASE CallMutation
      BY <3>4 DEF CallMutation, Fail
    <3>5. ~CallReader("mutation")
      BY DEF CallReader
    <3>6. QED
      BY <1>2, <3>1, <3>2, <3>3, <3>4, <3>5 DEF Remote
  <2>4. CASE Done
    BY <2>1, <2>2, <2>4, FinishMutationStep
  <2>5. CASE remote'.kind = remote.kind /\ UNCHANGED <<returning, sends>>
    <3>1. Quiet
      BY <2>2, <2>5, SameQueue DEF Quiet
    <3>2. QED
      BY <3>1, QuietStep
  <2>6. QED
    BY <2>3, <2>4, <2>5
<1>3. QED
  BY <1>1, <1>2

\* What is known when the mutation's result is the oldest in the queue.
LEMMA ResultInHand ==
  ASSUME TypeOK, ApplyInv, Deliver("mutation")
  PROVE  /\ Outstanding /\ Finished("mutation")
         /\ \A i \in 1..Len(inbox') : inbox'[i].kind # "mutation"
         /\ preview.applying /\ modal = "preview" /\ preview.op = lastOp
         /\ active = lastOp /\ lastOp # 0 /\ Head(inbox).op = active
<1> USE DEF ApplyInv
<1>1. /\ inbox \in Seq(Messages) /\ inbox # << >> /\ inbox' = Tail(inbox)
      /\ Head(inbox).kind = "mutation"
  BY DEF TypeOK, Deliver
<1>2. /\ Len(inbox') = Len(inbox) - 1 /\ Len(inbox) \in Nat /\ Len(inbox) > 0
      /\ \A i \in 1..Len(inbox') : inbox'[i] = inbox[i + 1]
      /\ Head(inbox) = inbox[1]
  BY <1>1, RemainingMessage
<1>3. ~Reported /\ Outstanding /\ Finished("mutation")
  <2>1. 1 \in 1..Len(inbox) /\ inbox[1].kind = "mutation"
    BY <1>1, <1>2
  <2>2. QED
    BY <2>1 DEF Reported, Outstanding, OneMutation
<1>4. \A i \in 1..Len(inbox') : inbox'[i].kind # "mutation"
  <2>1. SUFFICES ASSUME NEW i \in 1..Len(inbox'), inbox'[i].kind = "mutation"
                 PROVE  FALSE
    OBVIOUS
  <2>2. 1 \in 1..Len(inbox) /\ i + 1 \in 1..Len(inbox) /\ 1 # i + 1
    BY <1>2
  <2>3. inbox[1].kind = "mutation" /\ inbox[i + 1].kind = "mutation"
    BY <1>1, <1>2, <2>1
  <2>4. QED
    BY <2>2, <2>3 DEF OneMutation
<1>5. preview.applying /\ active = lastOp
  BY <1>3 DEF MutationIsOwned
<1>6. modal = "preview" /\ preview.op = lastOp /\ lastOp # 0
  BY <1>5 DEF PreviewIsShown
<1>7. Head(inbox).op = active
  BY <1>1, <1>2 DEF MutationIsOwned
<1>8. QED
  BY <1>3, <1>4, <1>5, <1>6, <1>7

LEMMA DropMutationStep ==
  ASSUME TypeOK, ApplyInv, DropResult, Deliver("mutation")
  PROVE  ApplyInv'
<1>1. /\ Finished("mutation") /\ \A i \in 1..Len(inbox') : inbox'[i].kind # "mutation"
  BY ResultInHand
<1>2. /\ ~running
      /\ UNCHANGED <<running, modal, preview, lastOp, active, job, sends, waiting,
                     remote, returning>>
  BY DEF DropResult, uiVars, applyVars, serverVars
<1>3. /\ ~AtLock("mutation")' /\ Finished("mutation")' /\ Reported' /\ ~Outstanding'
      /\ \A m \in returning' : m.kind # "mutation"
  BY <1>1, <1>2 DEF AtLock, Finished, Reported, Outstanding
<1>4. PreviewIsShown'
  BY <1>2 DEF ApplyInv, PreviewIsShown
<1>5. OneMutation'
  BY <1>1, <1>2, <1>3 DEF ApplyInv, OneMutation
<1>6. MutationIsOwned'
  BY <1>1, <1>2, <1>3 DEF MutationIsOwned
<1>7. SentAtMostOnce'
  BY <1>2, <1>3 DEF ApplyInv, SentAtMostOnce
<1>8. QED
  BY <1>4, <1>5, <1>6, <1>7 DEF ApplyInv

\* The Preview that an answer hands back.
LEMMA HandedBack ==
  ASSUME TypeOK, ApplyInv, DeliverMutation
  PROVE  /\ ~preview'.applying
         /\ \/ preview' = NoPreview /\ modal' = "result"
            \/ /\ modal' = "preview" /\ preview'.op = preview.op
               /\ preview'.stale
<1>1. /\ active = lastOp /\ lastOp # 0 /\ Head(inbox).op = active
      /\ modal = "preview"
  BY ResultInHand DEF DeliverMutation
<1>2. /\ preview' = Thawed(preview)
      /\ modal' = IF Top("preview") THEN "result" ELSE modal
  BY <1>1 DEF DeliverMutation
<1>3. CASE Top("preview")
  BY <1>2, <1>3 DEF Thawed, NoPreview
<1>4. CASE ~Top("preview")
  <2>1. preview' = [preview EXCEPT !.applying = FALSE, !.stale = TRUE]
    BY <1>2, <1>4 DEF Thawed
  <2>2. preview'.op = preview.op /\ preview'.stale /\ ~preview'.applying
    BY <2>1 DEF TypeOK, Previews
  <2>3. QED
    BY <1>1, <1>2, <1>4, <2>2
<1>5. QED
  BY <1>3, <1>4

LEMMA DeliverMutationStep ==
  ASSUME TypeOK, ApplyInv, DeliverMutation
  PROVE  ApplyInv'
<1>1. /\ Finished("mutation") /\ \A i \in 1..Len(inbox') : inbox'[i].kind # "mutation"
      /\ preview.op = lastOp /\ lastOp # 0
  BY ResultInHand DEF DeliverMutation
<1>2. UNCHANGED <<running, lastOp, job, sends, remote, returning>>
  BY DEF DeliverMutation
<1>3. waiting'["mutation"] = waiting["mutation"]
  <2>1. \/ waiting' = waiting
        \/ \E n : waiting' = [StartRefresh(waiting) EXCEPT !["lists"] = n]
    BY DEF DeliverMutation
  <2>2. QED
    BY <2>1 DEF TypeOK, StartRefresh, Kind
<1>4. /\ ~AtLock("mutation")' /\ Finished("mutation")' /\ Reported' /\ ~Outstanding'
      /\ \A m \in returning' : m.kind # "mutation"
  BY <1>1, <1>2, <1>3 DEF AtLock, Finished, Reported, Outstanding
<1>5. /\ ~preview'.applying
      /\ \/ preview'.op = 0 /\ modal' = "result"
         \/ modal' = "preview" /\ preview'.op = preview.op /\ preview'.stale
  BY HandedBack DEF NoPreview
<1>6. PreviewIsShown'
  BY <1>1, <1>2, <1>5 DEF PreviewIsShown
<1>7. OneMutation'
  BY <1>1, <1>2, <1>3, <1>4 DEF ApplyInv, OneMutation
<1>8. MutationIsOwned'
  BY <1>1, <1>4, <1>5 DEF MutationIsOwned
<1>9. SentAtMostOnce'
  <2>1. \A o \in Ops : o # 0
    BY DEF Ops
  <2>2. QED
    BY <1>2, <1>4, <1>5, <2>1 DEF ApplyInv, SentAtMostOnce
<1>10. QED
  BY <1>6, <1>7, <1>8, <1>9 DEF ApplyInv

-----------------------------------------------------------------------------
LEMMA ApplyInvStep ==
  ASSUME TypeOK, ApplyInv, [Next]_vars
  PROVE  ApplyInv'
<1>1. CASE UNCHANGED vars
  <2>1. Quiet
    BY <1>1, SameQueue DEF Quiet, vars, uiVars, applyVars, serverVars, workerVars
  <2>2. QED
    BY <2>1, QuietStep
<1>2. CASE Operator
  BY <1>2, ScreenIsQuiet, SetupIsQuiet, QuietStep, OpenPreviewStep, ApplyPlanStep,
     DismissStep DEF Operator
<1>3. CASE PeriodicTick \/ SampleTick
  BY <1>3, ScreenIsQuiet, QuietStep
<1>4. CASE Worker
  <2>1. CASE \E k \in Kind : Remote(k)
    BY <2>1, ReaderIsQuiet, QuietStep, MutationThreadStep
  <2>2. CASE \E k \in Kind : Land(k)
    BY <2>2, LandIsQuiet, QuietStep, LandMutationStep
  <2>3. CASE CallRefresh
    <3>1. "refresh" \in Kind \ {"mutation"}
      BY DEF Kind
    <3>2. QED
      BY <2>3, <3>1, ReaderIsQuiet, QuietStep
  <2>4. CASE CallMutation \/ SetupThread
    BY <2>4, MutationThreadStep, SetupIsQuiet, QuietStep
  <2>5. QED
    BY <1>4, <2>1, <2>2, <2>3, <2>4 DEF Worker
<1>5. CASE Handler
  BY <1>5, ResultIsQuiet, SetupIsQuiet, QuietStep, DropMutationStep,
     DeliverMutationStep DEF Handler
<1>6. QED
  BY <1>1, <1>2, <1>3, <1>4, <1>5 DEF Next

(***************************************************************************)
(* However many operations, forms, sessions, ticks and queued results there *)
(* are, the state of the Preview and that of its mutation stay in step.    *)
(***************************************************************************)
THEOREM ApplyInvariant == Spec => []ApplyInv
<1>1. Init => TypeOK /\ ApplyInv
  BY InitType, InitApply
<1>2. TypeOK /\ ApplyInv /\ [Next]_vars => (TypeOK /\ ApplyInv)'
  BY StepType, ApplyInvStep
<1>3. QED
  BY <1>1, <1>2, PTL DEF Spec

(***************************************************************************)
(* action_apply_plan and _on_mutation: a running app's Preview is frozen   *)
(* exactly while its own mutation is queued, in flight or unreported.      *)
(***************************************************************************)
THEOREM FrozenExactlyWhileOutstanding == Spec => []ApplyingIffOutstanding
<1>1. TypeOK /\ ApplyInv => ApplyingIffOutstanding
  BY DEF TypeOK, ApplyInv, PreviewIsShown, MutationIsOwned, ApplyingIffOutstanding,
     Outstanding
<1>2. QED
  BY <1>1, TypeCorrect, ApplyInvariant, PTL

(***************************************************************************)
(* action_reconfigure: the connection form and a mutation exclude each     *)
(* other, though nothing but the stack of screens keeps them apart.        *)
(***************************************************************************)
THEOREM FormExcludesMutation == Spec => []ReconfigureExcludesMutation
<1>1. ApplyInv => ReconfigureExcludesMutation
  BY DEF ApplyInv, PreviewIsShown, MutationIsOwned, ReconfigureExcludesMutation
<1>2. QED
  BY <1>1, ApplyInvariant, PTL

-----------------------------------------------------------------------------
(* The session implements ApplyOnce for every value of the constants. *)

\* The abstract stages, as the session's state determines them.
stages == [o \in Ops |-> StageOf(o)]
AbstractStep == Promise!Next \/ UNCHANGED <<stages, sends, Calling, running>>

-----------------------------------------------------------------------------
LEMMA SameStages ==
  ASSUME UNCHANGED lastOp, preview'.op = preview.op,
         preview'.applying = preview.applying, preview'.stale = preview.stale
  PROVE  stages' = stages
BY DEF stages, StageOf

\* One operation's stage moves, the others keep theirs.
LEMMA MovedStage ==
  ASSUME NEW o \in Ops, NEW from, NEW to, NEW s \in to,
         \A p \in Ops : p # o => StageOf(p)' = StageOf(p),
         StageOf(o) \in from, StageOf(o)' = s, UNCHANGED <<sends, Calling, running>>
  PROVE  Promise!Move(o, from, to)
<1>1. stages' = [stages EXCEPT ![o] = s]
  BY DEF stages
<1>2. stages[o] \in from
  BY DEF stages
<1>3. QED
  BY <1>1, <1>2 DEF Promise!Move, stages

LEMMA AbstractInit == ASSUME Init PROVE Promise!Init
<1>1. lastOp = 0
  BY DEF Init
<1>2. \A o \in Ops : StageOf(o) = "unborn"
  BY <1>1, SessionAssumption DEF StageOf, Ops
<1>3. QED
  BY <1>2 DEF Init, NoRemote, Calling, Promise!Init, Promise!Op, Ops

-----------------------------------------------------------------------------
(* The steps of the session, each mapped to a step or a stutter. *)

\* A step no mutation takes part in lets the open Preview expire at most.
LEMMA QuietIsAbstract ==
  ASSUME TypeOK, ApplyInv, Quiet, UNCHANGED <<Calling, running>>
  PROVE  AbstractStep
<1>1. UNCHANGED <<lastOp, sends>>
  BY DEF Quiet
<1>2. CASE preview' = preview
  BY <1>1, <1>2, SameStages DEF AbstractStep
<1>3. CASE preview' = MarkStale(preview) /\ preview' # preview
  <2> DEFINE o == preview.op
  <2>1. /\ o # 0 /\ ~preview.applying
        /\ preview' = [preview EXCEPT !.stale = TRUE]
    BY <1>3 DEF MarkStale
  <2>2. /\ preview'.op = o /\ ~preview'.applying /\ preview'.stale
        /\ o = lastOp /\ o \in Ops
    BY <2>1, SessionAssumption DEF TypeOK, Previews, ApplyInv, PreviewIsShown, Ops
  <2>3. CASE preview.stale
    BY <1>1, <2>1, <2>2, <2>3, SameStages DEF AbstractStep
  <2>4. CASE ~preview.stale
    <3>1. StageOf(o) = "offered" /\ StageOf(o)' = "stale"
      BY <1>1, <2>1, <2>2, <2>4, SessionAssumption DEF StageOf, Ops
    <3>2. \A p \in Ops : p # o => StageOf(p)' = StageOf(p)
      BY <1>1, <2>2 DEF StageOf
    <3>3. Promise!Move(o, {"offered"}, {"stale"})
      BY <1>1, <2>2, <3>1, <3>2, MovedStage
    <3>4. Promise!Next
      BY <2>2, <3>3 DEF Promise!Next, Promise!Expire, Promise!Op, Ops
    <3>5. QED
      BY <3>4 DEF AbstractStep
  <2>5. QED
    BY <2>3, <2>4
<1>4. QED
  BY <1>2, <1>3 DEF Quiet

LEMMA QuitIsAbstract ==
  ASSUME Quit
  PROVE  AbstractStep
<1>1. /\ running' = FALSE
      /\ UNCHANGED <<lastOp, preview, sends, remote, job>>
  BY DEF Quit, applyVars, serverVars, workerVars
<1>2. Promise!Quit
  BY <1>1, SameStages, SameCall DEF Promise!Quit, stages
<1>3. QED
  BY <1>2 DEF AbstractStep, Promise!Next

LEMMA OpenIsAbstract ==
  ASSUME TypeOK, ApplyInv, NEW p \in Plan, OpenPreview(p)
  PROVE  AbstractStep
<1>1. preview.op = 0
  BY DEF ApplyInv, PreviewIsShown, OpenPreview, Top
<1>0. PICK o \in Ops : o = lastOp + 1
  BY SessionAssumption DEF TypeOK, OpenPreview, Ops
<1>2. /\ lastOp \in Nat /\ o \in Ops /\ lastOp' = o /\ preview'.op = o
      /\ ~preview'.applying /\ UNCHANGED <<sends, Calling, running>>
  BY <1>0, SessionAssumption, SameCall
     DEF TypeOK, OpenPreview, Ops, serverVars, workerVars
<1>3. \A q \in Ops : StageOf(q) = IF q < o THEN "closed" ELSE "unborn"
  BY <1>0, <1>1, <1>2, SessionAssumption DEF StageOf, Ops
<1>4. \A q \in Ops : q # o => StageOf(q)' = StageOf(q)
  BY <1>0, <1>1, <1>2, <1>3, SessionAssumption DEF StageOf, Ops
<1>5. StageOf(o) = "unborn"
  <2>1. ~(o < o)
    BY <1>0, <1>2
  <2>2. QED
    BY <1>3, <2>1
<1>6. Promise!Move(o, {"unborn"}, {"offered", "stale"})
  <2>1. StageOf(o)' = IF preview'.stale THEN "stale" ELSE "offered"
    BY <1>0, <1>2 DEF StageOf
  <2>2. PICK s \in {"offered", "stale"} : StageOf(o)' = s
    BY <2>1
  <2>3. StageOf(o) \in {"unborn"}
    BY <1>5
  <2>4. QED
    BY <1>2, <1>4, <2>2, <2>3, MovedStage
<1>7. \A q \in Ops : ~Promise!Open(q) /\ (q < o => stages[q] = "closed")
  BY <1>3 DEF stages, Promise!Open
<1>8. Promise!Offer(o)
  BY <1>6, <1>7 DEF Promise!Offer, Promise!Op, Ops, stages
<1>9. QED
  BY <1>2, <1>8 DEF AbstractStep, Promise!Next, Promise!Op, Ops

LEMMA ApplyIsAbstract ==
  ASSUME TypeOK, ApplyInv, ApplyPlan
  PROVE  AbstractStep
<1> DEFINE o == preview.op
<1>1. ~preview.applying /\ ~preview.stale /\ o = lastOp /\ o \in Ops
  BY SessionAssumption
     DEF TypeOK, ApplyInv, PreviewIsShown, ApplyPlan, CanApply, Top, Ops
<1>2. /\ preview'.op = o /\ preview'.applying
      /\ UNCHANGED <<lastOp, sends, Calling, running>>
  BY SameCall
     DEF TypeOK, Previews, ApplyPlan, Finished, AtLock, uiVars, serverVars
<1>3. StageOf(o) = "offered" /\ StageOf(o)' = "applying"
  BY <1>1, <1>2, SessionAssumption DEF StageOf, Ops
<1>4. \A p \in Ops : p # o => StageOf(p)' = StageOf(p)
  BY <1>2 DEF StageOf
<1>5. Promise!Move(o, {"offered"}, {"applying"})
  BY <1>1, <1>2, <1>3, <1>4, MovedStage
<1>6. QED
  BY <1>1, <1>5 DEF AbstractStep, Promise!Next, Promise!Apply, Promise!Op, Ops

LEMMA DismissIsAbstract ==
  ASSUME TypeOK, ApplyInv, Dismiss
  PROVE  AbstractStep
<1>1. /\ ~preview.applying /\ preview'.op = 0
      /\ UNCHANGED <<lastOp, sends, Calling, running>>
  BY SameCall DEF ApplyInv, PreviewIsShown, Dismiss, MayDismiss, NoPreview,
     serverVars, workerVars
<1>2. CASE preview.op = 0
  <2>1. \A p \in Ops : p # 0
    BY DEF Ops
  <2>2. stages' = stages
    BY <1>1, <1>2, <2>1 DEF stages, StageOf
  <2>3. QED
    BY <1>1, <2>2 DEF AbstractStep
<1>3. CASE preview.op # 0
  <2>1. PICK o \in Ops : o = lastOp /\ o = preview.op
    BY <1>3, SessionAssumption DEF TypeOK, ApplyInv, PreviewIsShown, Ops
  <2>2. StageOf(o) \in {"offered", "stale"} /\ StageOf(o)' = "closed"
    <3>1. ~(o > lastOp)
      BY <2>1, SessionAssumption DEF Ops
    <3>2. StageOf(o) = IF preview.stale THEN "stale" ELSE "offered"
      BY <1>1, <2>1, <3>1 DEF StageOf
    <3>3. StageOf(o)' = "closed"
      BY <1>1, <1>3, <2>1, <3>1 DEF StageOf
    <3>4. QED
      BY <3>2, <3>3
  <2>3. \A p \in Ops : p # o => StageOf(p)' = StageOf(p)
    <3>1. \A p \in Ops : p # 0
      BY DEF Ops
    <3>2. \A p \in Ops : p # o => p # preview.op /\ p # preview'.op
      BY <1>1, <2>1, <3>1
    <3>3. QED
      BY <1>1, <3>2 DEF StageOf
  <2>4. Promise!Move(o, {"offered", "stale"}, {"closed"})
    <3>1. "closed" \in {"closed"}
      OBVIOUS
    <3>2. QED
      BY <1>1, <2>1, <2>2, <2>3, <3>1, MovedStage
  <2>5. QED
    BY <2>1, <2>4 DEF AbstractStep, Promise!Next, Promise!Cancel, Promise!Op, Ops
<1>4. QED
  BY <1>2, <1>3

\* The thread of a mutation: its call begins and ends, the rest does not show.
LEMMA ThreadIsAbstract ==
  ASSUME TypeOK, ApplyInv, Remote("mutation") \/ CallMutation
  PROVE  AbstractStep
<1>1. UNCHANGED <<lastOp, preview, running, job>> /\ stages' = stages
  <2>1. UNCHANGED <<lastOp, preview, running, job>>
    BY DEF Remote, Acquire, ReadConfig, Login, Begin, CallReader, CallMutation,
       uiVars, applyVars
  <2>2. QED
    BY <2>1, SameStages
<1>2. remote \in Remotes
  BY DEF TypeOK
<1>3. CASE /\ Calling = 0 /\ remote'.step # "call" /\ UNCHANGED sends
  BY <1>1, <1>3 DEF AbstractStep, Calling
<1>4. ASSUME remote.kind = "mutation"
      PROVE  /\ job.op = preview.op /\ job.op \in Ops /\ job.op # 0
             /\ stages[job.op] = "applying" /\ sends[job.op] = 0
  <2>1. /\ job.op = preview.op /\ job.op \in Ops /\ preview.applying
        /\ job.op = lastOp /\ sends[job.op] = 0
    BY <1>4, InFlight
  <2>2. job.op # 0 /\ ~(job.op > lastOp)
    BY <2>1, SessionAssumption DEF Ops
  <2>3. QED
    BY <2>1, <2>2 DEF stages, StageOf
<1>5. CASE Begin("mutation")
  <2>1. remote.kind = "mutation" /\ Calling = 0 /\ UNCHANGED sends
    BY <1>5 DEF Begin, Calling, serverVars
  <2>2. CASE ~running
    <3>1. remote' = NoRemote
      BY <1>5, <2>2 DEF Begin, MayProceed, Finish
    <3>2. QED
      BY <1>3, <2>1, <3>1 DEF NoRemote
  <2>3. CASE running
    <3>1. remote'.kind = "mutation" /\ remote'.step = "call"
      BY <1>2, <1>5, <2>1, <2>3 DEF Begin, MayProceed, Remotes
    <3>2. Calling' = job.op
      BY <1>1, <3>1 DEF Calling
    <3>3. Promise!Begin(job.op)
      BY <1>1, <1>4, <2>1, <2>3, <3>2 DEF Promise!Begin, stages
    <3>4. QED
      BY <1>4, <2>1, <3>3 DEF AbstractStep, Promise!Next, Promise!Op, Ops
  <2>4. QED
    BY <2>2, <2>3
<1>6. CASE CallMutation
  <2>1. /\ remote.kind = "mutation" /\ remote.step = "call" /\ remote' = NoRemote
        /\ sends' \in {sends, [sends EXCEPT ![job.op] = @ + 1]}
    BY <1>6 DEF CallMutation, Fail, Finish
  <2>2. Calling = job.op /\ Calling' = 0
    BY <2>1 DEF Calling, NoRemote
  <2>3. Promise!Call(job.op)
    BY <1>1, <2>1, <2>2 DEF Promise!Call, stages
  <2>4. QED
    BY <1>4, <2>1, <2>3 DEF AbstractStep, Promise!Next, Promise!Op, Ops
<1>7. CASE Acquire("mutation")
  BY <1>3, <1>7 DEF Acquire, Calling, serverVars
<1>8. CASE ReadConfig("mutation") \/ Login("mutation")
  <2>1. Calling = 0 /\ UNCHANGED sends
    BY <1>8 DEF ReadConfig, Login, Calling, serverVars
  <2>2. remote' = NoRemote \/ remote'.step \in {"login", "ready"}
    BY <1>2, <1>8 DEF ReadConfig, Login, Fail, Finish, Remotes
  <2>3. QED
    BY <1>3, <2>1, <2>2 DEF NoRemote
<1>9. ~CallReader("mutation")
  BY DEF CallReader
<1>10. QED
  BY <1>5, <1>6, <1>7, <1>8, <1>9 DEF Remote

LEMMA LandIsAbstract ==
  ASSUME TypeOK, ApplyInv, Land("mutation")
  PROVE  AbstractStep
<1>1. UNCHANGED <<lastOp, preview, sends, remote, running>>
  BY DEF Land, uiVars, applyVars, serverVars
<1>2. ~AtLock("mutation")
  BY OnItsWay DEF Land
<1>3. UNCHANGED Calling
  BY <1>1, <1>2, SameCall DEF AtLock
<1>4. QED
  BY <1>1, <1>3, SameStages DEF AbstractStep

LEMMA AnswerIsAbstract ==
  ASSUME TypeOK, ApplyInv, DeliverMutation
  PROVE  AbstractStep
<1>0. /\ preview.applying /\ preview.op = lastOp /\ lastOp # 0
      /\ UNCHANGED <<lastOp, sends, Calling, running>> /\ Calling = 0
  BY ResultInHand, SameCall DEF DeliverMutation, Finished, AtLock, Calling
<1>1. PICK o \in Ops : preview.applying /\ o = lastOp /\ o = preview.op
  BY <1>0, SessionAssumption DEF TypeOK, Ops
<1>2. /\ ~preview'.applying /\ UNCHANGED <<lastOp, sends, Calling, running>>
      /\ preview'.op = 0 \/ (preview'.op = o /\ preview'.stale)
  BY <1>0, <1>1, HandedBack DEF NoPreview
<1>3. /\ StageOf(o) \in {"applying"}
      /\ \E s \in {"closed", "stale"} : StageOf(o)' = s
  <2>1. ~(o > lastOp) /\ o # 0
    BY <1>1, SessionAssumption DEF Ops
  <2>2. StageOf(o) = "applying"
    BY <1>1, <2>1 DEF StageOf
  <2>3. StageOf(o)' = "closed" \/ StageOf(o)' = "stale"
    BY <1>1, <1>2, <2>1 DEF StageOf
  <2>4. QED
    BY <2>2, <2>3
<1>4. \A p \in Ops : p # o => StageOf(p)' = StageOf(p)
  <2>1. \A p \in Ops : p # 0
    BY DEF Ops
  <2>2. \A p \in Ops : p # o => p # preview.op /\ p # preview'.op
    BY <1>1, <1>2, <2>1
  <2>3. QED
    BY <1>2, <2>2 DEF StageOf
<1>5. Promise!Move(o, {"applying"}, {"closed", "stale"})
  <2>1. PICK s \in {"closed", "stale"} : StageOf(o)' = s
    BY <1>3
  <2>2. QED
    BY <1>1, <1>2, <1>3, <1>4, <2>1, MovedStage
<1>6. Calling # o
  BY <1>0, SessionAssumption DEF Ops
<1>7. QED
  BY <1>1, <1>5, <1>6 DEF AbstractStep, Promise!Next, Promise!Answer, Promise!Op, Ops

LEMMA DropIsAbstract ==
  ASSUME DropResult
  PROVE  AbstractStep
<1>1. UNCHANGED <<lastOp, preview, sends, running, remote, job>>
  BY DEF DropResult, uiVars, applyVars, serverVars
<1>2. QED
  BY <1>1, SameStages, SameCall DEF AbstractStep

LEMMA StepIsAbstract ==
  ASSUME TypeOK, ApplyInv, [Next]_vars
  PROVE  AbstractStep
<1>1. CASE UNCHANGED vars
  <2>1. UNCHANGED <<lastOp, preview, sends, running, remote, job>>
    BY <1>1 DEF vars, uiVars, applyVars, serverVars, workerVars
  <2>2. QED
    BY <2>1, SameStages, SameCall DEF AbstractStep
<1>2. CASE Operator
  BY <1>2, ScreenIsQuiet, SetupIsQuiet, QuietIsAbstract, QuitIsAbstract,
     OpenIsAbstract, ApplyIsAbstract, DismissIsAbstract DEF Operator
<1>3. CASE PeriodicTick \/ SampleTick
  BY <1>3, ScreenIsQuiet, QuietIsAbstract, QuitIsAbstract
<1>4. CASE Worker
  <2>1. CASE \E k \in Kind : Remote(k)
    BY <2>1, ReaderIsQuiet, QuietIsAbstract, ThreadIsAbstract
  <2>2. CASE \E k \in Kind : Land(k)
    BY <2>2, LandIsQuiet, QuietIsAbstract, LandIsAbstract
  <2>3. CASE CallRefresh
    <3>1. "refresh" \in Kind \ {"mutation"}
      BY DEF Kind
    <3>2. QED
      BY <2>3, <3>1, ReaderIsQuiet, QuietIsAbstract
  <2>4. CASE CallMutation \/ SetupThread
    BY <2>4, ThreadIsAbstract, SetupIsQuiet, QuietIsAbstract
  <2>5. QED
    BY <1>4, <2>1, <2>2, <2>3, <2>4 DEF Worker
<1>5. CASE Handler
  BY <1>5, ResultIsQuiet, SetupIsQuiet, QuietIsAbstract, DropIsAbstract,
     AnswerIsAbstract DEF Handler
<1>6. QED
  BY <1>1, <1>2, <1>3, <1>4, <1>5 DEF Next

(***************************************************************************)
(* The code keeps the promise of ApplyOnce: an operation previewed in the  *)
(* TUI is sent to qBittorrent at most once, after its own Apply and before *)
(* its answer, a stale Preview is never applied, and no call begins once   *)
(* the operator has quit.                                                  *)
(***************************************************************************)
THEOREM SessionKeepsPromise == Spec => ImplementsApplyOnce
<1>1. Init => Promise!Init
  BY AbstractInit
<1>2. TypeOK /\ ApplyInv /\ [Next]_vars
        => [Promise!Next]_<<stages, sends, Calling, running>>
  BY StepIsAbstract DEF AbstractStep
<1>3. QED
  BY <1>1, <1>2, TypeCorrect, ApplyInvariant, PTL
     DEF Spec, ImplementsApplyOnce, Promise!Spec, stages

-----------------------------------------------------------------------------
(* Freshness of the open Preview. *)

\* A Preview that still offers Apply stands on a fresh snapshot, and only an
\* open one is marked stale.
FreshInv ==
  /\ LivePreviewIsFresh
  /\ preview.stale => preview.op # 0

\* Most steps touch neither the Preview nor what its freshness depends on.
LEMMA SameFreshness ==
  ASSUME FreshInv, UNCHANGED <<preview, connection, stale>>, running' => running,
         modal' = modal \/ modal' # "preview"
  PROVE  FreshInv'
BY DEF FreshInv, LivePreviewIsFresh, CanApply, Fresh

LEMMA FreshStep ==
  ASSUME TypeOK, ApplyInv, FreshInv, [Next]_vars
  PROVE  FreshInv'
<1> USE DEF uiVars, applyVars, stateVars
<1>1. CASE UNCHANGED vars
  BY <1>1, SameFreshness DEF vars
<1>2. CASE Operator
  <2>1. CASE \E m \in {"actions", "overlay"} : OpenScreen(m)
    BY <2>1, SameFreshness DEF OpenScreen
  <2>2. CASE Reconfigure \/ ToggleHelp \/ Quit
    BY <2>2, SameFreshness DEF Reconfigure, ToggleHelp, Quit
  <2>3. CASE Dismiss
    BY <2>3 DEF Dismiss, FreshInv, LivePreviewIsFresh, NoPreview
  <2>4. CASE \E p \in Plan : OpenPreview(p)
    <3>1. /\ UNCHANGED <<connection, stale>>
          /\ preview'.op = lastOp + 1 /\ preview'.stale = ~Fresh(connection, stale)
      BY <2>4 DEF OpenPreview
    <3>2. preview'.op # 0
      BY <3>1, SessionAssumption DEF TypeOK
    <3>3. Fresh(connection, stale)' <=> Fresh(connection, stale)
      BY <3>1 DEF Fresh
    <3>4. QED
      BY <3>1, <3>2, <3>3, Zenon DEF FreshInv, LivePreviewIsFresh, CanApply
  <2>5. CASE ApplyPlan
    BY <2>5 DEF TypeOK, Previews, ApplyPlan, CanApply, FreshInv, LivePreviewIsFresh
  <2>6. CASE \E h \in Host : SubmitSetup(h)
    <3>1. modal' = modal \/ modal' = "none"
      BY <2>6 DEF SubmitSetup, SetupDone, SetupUnwritten
    <3>2. QED
      BY <2>6, <3>1, SameFreshness DEF SubmitSetup
  <2>7. QED
    BY <1>2, <2>1, <2>2, <2>3, <2>4, <2>5, <2>6 DEF Operator
<1>3. CASE PeriodicTick \/ SampleTick
  BY <1>3, SameFreshness DEF PeriodicTick, SampleTick
<1>4. CASE Worker
  <2>1. UNCHANGED <<running, modal, preview, connection, stale>>
    BY <1>4 DEF Worker, Remote, Acquire, ReadConfig, Login, Begin, CallReader,
       Land, CallRefresh, CallMutation, SetupThread
  <2>2. QED
    BY <2>1, SameFreshness
<1>5. CASE Handler
  <2>1. CASE DropResult \/ DeliverLists
    BY <2>1, SameFreshness DEF DropResult, DeliverLists
  <2>2. CASE DeliverSetup
    <3>1. modal' = modal \/ modal' = "none"
      BY <2>2 DEF DeliverSetup, SetupDone, SetupUnwritten
    <3>2. QED
      BY <2>2, <3>1, SameFreshness DEF DeliverSetup
  <2>3. CASE DeliverRefresh
    BY <2>3 DEF DeliverRefresh, FreshInv, LivePreviewIsFresh, Fresh
  <2>4. CASE DeliverRefreshFailure
    <3>1. preview' = MarkStale(preview) /\ UNCHANGED modal
      BY <2>4 DEF DeliverRefreshFailure
    <3>2. /\ preview'.op = preview.op
          /\ preview.op # 0 => preview'.applying \/ preview'.stale
          /\ preview'.stale => preview'.op # 0
      BY <3>1 DEF TypeOK, Previews, FreshInv, MarkStale
    <3>3. modal' = "preview" => preview.op # 0
      BY <3>1 DEF ApplyInv, PreviewIsShown
    <3>4. QED
      BY <3>2, <3>3 DEF FreshInv, LivePreviewIsFresh, CanApply
  <2>5. CASE DeliverMutation
    <3>1. preview.op # 0
      BY <2>5, ResultInHand DEF DeliverMutation
    <3>2. QED
      BY <2>5, <3>1, HandedBack DEF FreshInv, LivePreviewIsFresh, CanApply, NoPreview
  <2>6. QED
    BY <1>5, <2>1, <2>2, <2>3, <2>4, <2>5 DEF Handler
<1>6. QED
  BY <1>1, <1>2, <1>3, <1>4, <1>5 DEF Next

LEMMA InitFresh == ASSUME Init PROVE FreshInv
BY DEF Init, InitConfigured, InitFirstRun, FreshInv, LivePreviewIsFresh, NoPreview

LEMMA FreshInvariant == Spec => []FreshInv
<1>1. TypeOK /\ ApplyInv /\ FreshInv /\ [Next]_vars => FreshInv'
  BY FreshStep
<1>2. QED
  BY <1>1, InitFresh, TypeCorrect, ApplyInvariant, PTL DEF Spec

(***************************************************************************)
(* _refresh_preview_freshness: whatever screens cover it and however       *)
(* refreshes fail meanwhile, a Preview whose Apply is still offered stands *)
(* over a live connection and a listing no failed refresh put in doubt.    *)
(***************************************************************************)
THEOREM OfferedPreviewIsFresh == Spec => []LivePreviewIsFresh
<1>1. FreshInv => LivePreviewIsFresh
  BY DEF FreshInv
<1>2. QED
  BY <1>1, FreshInvariant, PTL

LEMMA StaleStep ==
  ASSUME TypeOK, ApplyInv, FreshInv, [Next]_vars
  PROVE  (preview.stale /\ preview'.op = preview.op) => preview'.stale
<1> DEFINE Sticks == (preview.stale /\ preview'.op = preview.op) => preview'.stale
<1>1. ASSUME Quiet PROVE Sticks
  BY <1>1 DEF Quiet, MarkStale, TypeOK, Previews
<1>2. CASE UNCHANGED vars
  BY <1>2 DEF vars, applyVars
<1>3. CASE Operator
  <2>1. CASE Dismiss
    BY <2>1 DEF Dismiss, NoPreview, FreshInv
  <2>2. CASE \E p \in Plan : OpenPreview(p)
    BY <2>2 DEF OpenPreview, Top, ApplyInv, PreviewIsShown, FreshInv
  <2>3. CASE ApplyPlan
    BY <2>3 DEF ApplyPlan, CanApply
  <2>4. QED
    BY <1>1, <1>3, <2>1, <2>2, <2>3, ScreenIsQuiet, SetupIsQuiet DEF Operator
<1>4. CASE PeriodicTick \/ SampleTick
  BY <1>1, <1>4, ScreenIsQuiet
<1>5. CASE Worker
  BY <1>5 DEF Worker, Remote, Acquire, ReadConfig, Login, Begin, CallReader,
     Land, CallRefresh, CallMutation, SetupThread, applyVars
<1>6. CASE Handler
  <2>1. CASE DeliverMutation
    BY <2>1, HandedBack DEF NoPreview, FreshInv
  <2>2. CASE DropResult
    BY <2>2 DEF DropResult, applyVars
  <2>3. QED
    BY <1>1, <1>6, <2>1, <2>2, ResultIsQuiet, SetupIsQuiet DEF Handler
<1>7. QED
  BY <1>2, <1>3, <1>4, <1>5, <1>6 DEF Next

(***************************************************************************)
(* PreviewScreen.mark_stale: a Preview once marked stale stays so for as   *)
(* long as it is the open one; no later refresh gives Apply back.          *)
(***************************************************************************)
THEOREM StaleStaysStale == Spec => StalenessIsSticky
<1>1. TypeOK /\ ApplyInv /\ FreshInv /\ [Next]_vars
        => [(preview.stale /\ preview'.op = preview.op) => preview'.stale]_vars
  BY StaleStep
<1>2. QED
  BY <1>1, TypeCorrect, ApplyInvariant, FreshInvariant, PTL
     DEF Spec, StalenessIsSticky

-----------------------------------------------------------------------------
(* What the operator is told. *)

\* How often the open Preview's plan was sent, when m answers it with success.
SentFor(m) == IF m.dispatched /\ preview.plan # "empty" THEN 1 ELSE 0

\* The results of mutations that no handler has taken.
Answers ==
  {m \in returning \cup {inbox[i] : i \in 1..Len(inbox)} : m.kind = "mutation"}

\* An outcome is of an operation that is over, and a pending answer to the open
\* Preview says of that operation what was sent.
OutcomeInv ==
  /\ OutcomeIsTruthful
  /\ outcome.status # "none" => outcome.op # 0
  /\ outcome.op <= lastOp
  /\ (preview.op # 0 /\ preview.op = outcome.op)
        => (preview.stale /\ ~preview.applying)
  /\ \A m \in Answers : m.error = "none" => sends[preview.op] = SentFor(m)

\* Steps that answer nothing and send nothing.
LEMMA SameOutcome ==
  ASSUME OutcomeInv, UNCHANGED <<outcome, sends, lastOp>>,
         preview'.op = preview.op, preview'.plan = preview.plan,
         preview'.applying = preview.applying, preview.stale => preview'.stale,
         Answers' \subseteq Answers
  PROVE  OutcomeInv'
<1>1. OutcomeIsTruthful'
  BY DEF OutcomeInv, OutcomeIsTruthful
<1>2. \A m \in Answers' : m.error = "none" => sends'[preview'.op] =
            IF m.dispatched /\ preview'.plan # "empty" THEN 1 ELSE 0
  BY DEF OutcomeInv, SentFor
<1>3. QED
  BY <1>1, <1>2 DEF OutcomeInv, SentFor

LEMMA QuietOutcome ==
  ASSUME TypeOK, OutcomeInv, Quiet, UNCHANGED outcome
  PROVE  OutcomeInv'
<1>1. /\ preview'.op = preview.op /\ preview'.plan = preview.plan
      /\ preview'.applying = preview.applying
      /\ preview.stale => preview'.stale
      /\ UNCHANGED <<lastOp, sends>>
  BY DEF TypeOK, Previews, Quiet, MarkStale
<1>2. ASSUME NEW m \in Answers' PROVE m \in Answers
  <2>1. m.kind = "mutation"
    BY DEF Answers
  <2>2. CASE m \in returning'
    BY <2>1, <2>2 DEF Quiet, Mutations, Answers
  <2>3. CASE \E i \in 1..Len(inbox') : m = inbox'[i]
    <3>1. \E j \in 1..Len(inbox) : inbox[j] = m
      BY <2>1, <2>3 DEF Quiet, Untouched
    <3>2. QED
      BY <2>1, <3>1 DEF Answers
  <2>4. QED
    BY <2>2, <2>3 DEF Answers
<1>3. QED
  BY <1>1, <1>2, SameOutcome

\* Steps over which no answer is outstanding.
LEMMA UnansweredOutcome ==
  ASSUME TypeOK, OutcomeInv, UNCHANGED <<outcome, sends>>, lastOp <= lastOp',
         lastOp' \in Nat, Answers' = {},
         (preview'.op # 0 /\ preview'.op = outcome.op)
            => (preview'.stale /\ ~preview'.applying)
  PROVE  OutcomeInv'
<1>1. outcome.op <= lastOp'
  <2>1. outcome.op \in Nat /\ lastOp \in Nat
    BY SessionAssumption DEF TypeOK
  <2>2. QED
    BY <2>1 DEF OutcomeInv
<1>2. OutcomeIsTruthful'
  BY DEF OutcomeInv, OutcomeIsTruthful
<1>3. QED
  BY <1>1, <1>2 DEF OutcomeInv

LEMMA PreviewOutcome ==
  ASSUME TypeOK, ApplyInv, OutcomeInv,
         Dismiss \/ ApplyPlan \/ \E p \in Plan : OpenPreview(p)
  PROVE  OutcomeInv'
<1> USE SessionAssumption DEF serverVars, workerVars
<1>1. Answers' = {}
  <2>1. ~preview.applying
    BY DEF ApplyInv, PreviewIsShown, Dismiss, MayDismiss, ApplyPlan, CanApply,
       OpenPreview, Top
  <2>2. Reported /\ \A m \in returning : m.kind # "mutation"
    BY <2>1, NoneOut DEF ApplyInv, MutationIsOwned
  <2>3. UNCHANGED <<returning, inbox>>
    BY DEF Dismiss, ApplyPlan, OpenPreview
  <2>4. QED
    BY <2>2, <2>3 DEF Answers, Reported
<1>2. CASE Dismiss
  <2>1. preview'.op = 0 /\ UNCHANGED <<outcome, sends, lastOp>>
    BY <1>2 DEF Dismiss, NoPreview
  <2>2. lastOp \in Nat
    BY DEF TypeOK
  <2>3. QED
    BY <1>1, <2>1, <2>2, UnansweredOutcome
<1>3. CASE ApplyPlan
  <2>1. preview'.op = preview.op /\ ~preview.stale
        /\ UNCHANGED <<outcome, sends, lastOp>>
    BY <1>3 DEF TypeOK, Previews, ApplyPlan, CanApply
  <2>2. ~(preview.op # 0 /\ preview.op = outcome.op)
    BY <2>1 DEF OutcomeInv
  <2>3. lastOp \in Nat
    BY DEF TypeOK
  <2>4. QED
    BY <1>1, <2>1, <2>2, <2>3, UnansweredOutcome
<1>4. CASE \E p \in Plan : OpenPreview(p)
  <2>1. /\ preview'.op = lastOp + 1 /\ lastOp' = lastOp + 1
        /\ UNCHANGED <<outcome, sends>>
    BY <1>4 DEF OpenPreview
  <2>2. lastOp \in Nat /\ outcome.op \in Nat /\ outcome.op <= lastOp
    BY DEF TypeOK, OutcomeInv
  <2>3. lastOp' \in Nat /\ lastOp <= lastOp' /\ preview'.op # outcome.op
    BY <2>1, <2>2
  <2>4. QED
    BY <1>1, <2>1, <2>3, UnansweredOutcome
<1>5. QED
  BY <1>2, <1>3, <1>4

\* The mutation's thread ends: its answer agrees with what it sent.
LEMMA FinishOutcome ==
  ASSUME TypeOK, ApplyInv, OutcomeInv, remote.kind = "mutation",
         NEW e, NEW v, NEW c, NEW d, Finish("mutation", e, v, c, d),
         UNCHANGED <<preview, lastOp, outcome, inbox>>,
         \/ sends' = sends
         \/ sends' = [sends EXCEPT ![job.op] = @ + 1],
         e = "none" => sends'[preview.op]
                          = IF d /\ preview.plan # "empty" THEN 1 ELSE 0
  PROVE  OutcomeInv'
<1> DEFINE m == Message("mutation", e, v, c, d)
<1>1. /\ \A i \in 1..Len(inbox) : inbox[i].kind # "mutation"
      /\ \A n \in returning : n.kind # "mutation"
      /\ job.op = preview.op /\ preview.op # 0 /\ preview.applying
      /\ preview.op \in Ops
  BY InFlight DEF Ops
<1>2. returning' = returning \cup {m}
  BY DEF Finish
<1>3. (m.error = "none" <=> e = "none") /\ m.dispatched = d
  BY DEF Message, Told
<1> HIDE DEF m
<1>4. \A n \in Answers' : n = m
  BY <1>1, <1>2 DEF Answers
<1>5. outcome.op # preview.op
  BY <1>1 DEF OutcomeInv
<1>6. \A o : o # preview.op => sends'[o] = sends[o]
  <2>1. CASE sends' = sends
    BY <2>1
  <2>2. CASE sends' = [sends EXCEPT ![job.op] = @ + 1]
    BY <1>1, <2>2 DEF TypeOK
  <2>3. QED
    BY <2>1, <2>2
<1>7. OutcomeIsTruthful'
  BY <1>5, <1>6 DEF OutcomeInv, OutcomeIsTruthful
<1>8. \A n \in Answers' : n.error = "none" => sends'[preview'.op]
                 = IF n.dispatched /\ preview'.plan # "empty" THEN 1 ELSE 0
  BY <1>3, <1>4
<1>9. QED
  BY <1>5, <1>7, <1>8 DEF OutcomeInv, SentFor

\* A result that joins the queue stays an answer, and makes none.
LEMMA LandAnswers ==
  ASSUME TypeOK, NEW k \in Kind, Land(k)
  PROVE  Answers' \subseteq Answers
<1>1. PICK m \in returning :
        /\ returning' = returning \ {m}
        /\ inbox' = inbox \/ inbox' = Append(inbox, m)
  BY DEF Land
<1>2. m \in Messages /\ inbox \in Seq(Messages)
  BY DEF TypeOK
<1>3. ASSUME NEW n, NEW i \in 1..Len(inbox'), n = inbox'[i]
      PROVE  n = m \/ \E j \in 1..Len(inbox) : n = inbox[j]
  <2>1. CASE inbox' = inbox
    BY <1>3, <2>1
  <2>2. CASE inbox' = Append(inbox, m)
    <3>1. /\ Len(inbox') = Len(inbox) + 1 /\ Len(inbox) \in Nat
          /\ \A j \in 1..Len(inbox) : inbox'[j] = inbox[j]
          /\ inbox'[Len(inbox) + 1] = m
      BY <1>2, <2>2, AppendedMessage
    <3>2. QED
      BY <1>3, <3>1
  <2>3. QED
    BY <1>1, <2>1, <2>2
<1>4. QED
  BY <1>1, <1>3 DEF Answers

LEMMA TailAnswers ==
  ASSUME TypeOK, inbox # << >>, inbox' = Tail(inbox), UNCHANGED returning
  PROVE  Answers' \subseteq Answers
<1>1. inbox \in Seq(Messages)
  BY DEF TypeOK
<1>2. /\ Len(inbox') = Len(inbox) - 1 /\ Len(inbox) \in Nat
      /\ \A i \in 1..Len(inbox') : inbox'[i] = inbox[i + 1]
  BY <1>1, RemainingMessage
<1>3. \A i \in 1..Len(inbox') : i + 1 \in 1..Len(inbox)
  BY <1>2
<1>4. QED
  BY <1>2, <1>3 DEF Answers

\* The result of the mutation joins the queue.
LEMMA LandOutcome ==
  ASSUME TypeOK, OutcomeInv, Land("mutation")
  PROVE  OutcomeInv'
<1>1. Answers' \subseteq Answers
  BY LandAnswers DEF Kind
<1>2. UNCHANGED <<outcome, sends, lastOp, preview>>
  BY DEF Land, applyVars, serverVars
<1>3. QED
  BY <1>1, <1>2, SameOutcome

LEMMA ThreadOutcome ==
  ASSUME TypeOK, ApplyInv, OutcomeInv, Remote("mutation") \/ CallMutation
  PROVE  OutcomeInv'
<1>1. UNCHANGED <<preview, lastOp, outcome, inbox>>
  BY DEF Remote, Acquire, ReadConfig, Login, Begin, CallReader, CallMutation,
     applyVars
<1>2. CASE UNCHANGED <<returning, sends>>
  BY <1>1, <1>2, SameOutcome DEF Answers
<1>3. CASE remote.kind = "mutation" /\ UNCHANGED sends
           /\ \E e \in Error : Fail("mutation", e)
  BY <1>1, <1>3, FinishOutcome DEF Fail, Error
<1>4. CASE Begin("mutation") /\ ~running
  <2>1. /\ remote.kind = "mutation" /\ UNCHANGED sends
        /\ Finish("mutation", "none", 0, NoSession, FALSE)
    BY <1>4 DEF Begin, MayProceed, serverVars
  <2>2. sends'[preview.op] = IF FALSE /\ preview.plan # "empty" THEN 1 ELSE 0
    BY <2>1, InFlight
  <2>3. QED
    BY <1>1, <2>1, <2>2, FinishOutcome
<1>5. CASE CallMutation
  <2>1. /\ remote.kind = "mutation" /\ job.plan = preview.plan
        /\ job.op = preview.op /\ sends[preview.op] = 0 /\ preview.op \in Ops
    BY <1>5, InFlight DEF CallMutation
  <2>2. CASE job.plan = "empty"
    <3>1. /\ UNCHANGED sends
          /\ Finish("mutation", "none", server, NoSession, TRUE)
      BY <1>5, <2>2 DEF CallMutation
    <3>2. QED
      BY <1>1, <2>1, <2>2, <3>1, FinishOutcome
  <2>3. CASE job.plan # "empty"
    <3>1. sends' = [sends EXCEPT ![job.op] = @ + 1] /\ sends'[preview.op] = 1
      BY <1>5, <2>1, <2>3 DEF CallMutation, TypeOK
    <3>2. \/ Finish("mutation", "none", server + 1, NoSession, TRUE)
          \/ \E e \in Error : Fail("mutation", e)
      BY <1>5, <2>3 DEF CallMutation, CallFailures, Error
    <3>3. CASE Finish("mutation", "none", server + 1, NoSession, TRUE)
      BY <1>1, <2>1, <2>3, <3>1, <3>3, FinishOutcome
    <3>4. CASE \E e \in Error : Fail("mutation", e)
      BY <1>1, <2>1, <3>1, <3>4, FinishOutcome DEF Fail, Error
    <3>5. QED
      BY <3>2, <3>3, <3>4
  <2>4. QED
    BY <2>2, <2>3
<1>6. CASE Remote("mutation")
  <2>1. CASE Acquire("mutation")
    BY <1>2, <2>1 DEF Acquire, serverVars
  <2>2. CASE ReadConfig("mutation")
    BY <1>2, <1>3, <2>2 DEF ReadConfig, serverVars, Error
  <2>3. CASE Login("mutation")
    BY <1>2, <1>3, <2>3 DEF Login, serverVars, Error
  <2>4. CASE Begin("mutation") /\ running
    BY <1>2, <2>4 DEF Begin, MayProceed, serverVars
  <2>5. ~CallReader("mutation")
    BY DEF CallReader
  <2>6. QED
    BY <1>4, <1>6, <2>1, <2>2, <2>3, <2>4, <2>5 DEF Remote
<1>7. QED
  BY <1>5, <1>6

\* Once the answer in hand is taken, none is left.
LEMMA NoAnswerLeft ==
  ASSUME TypeOK, ApplyInv, Deliver("mutation"), UNCHANGED returning
  PROVE  Answers' = {}
BY ResultInHand DEF Answers, Finished

LEMMA AnswerOutcome ==
  ASSUME TypeOK, ApplyInv, OutcomeInv, DeliverMutation
  PROVE  OutcomeInv'
<1> DEFINE m == Head(inbox)
<1>1. /\ Answers' = {}
      /\ preview.op = lastOp /\ active = lastOp /\ lastOp # 0 /\ m.op = active
  BY ResultInHand, NoAnswerLeft DEF DeliverMutation
<1>2. /\ outcome' = [op |-> lastOp, status |-> StatusOf(m)]
      /\ UNCHANGED <<lastOp, sends>>
  BY <1>1 DEF DeliverMutation
<1>3. m.error = "none" => sends[lastOp] = SentFor(m)
  <2>1. inbox \in Seq(Messages) /\ inbox # << >> /\ m.kind = "mutation"
    BY DEF TypeOK, DeliverMutation, Deliver
  <2>2. 1 \in 1..Len(inbox) /\ m = inbox[1]
    BY <2>1, RemainingMessage
  <2>3. m \in Answers
    BY <2>1, <2>2 DEF Answers
  <2>4. QED
    BY <1>1, <2>3 DEF OutcomeInv
<1> HIDE DEF m
<1>4. OutcomeIsTruthful'
  BY <1>2, <1>3 DEF OutcomeIsTruthful, StatusOf, SentFor
<1>5. (preview'.op # 0 /\ preview'.op = outcome'.op)
         => (preview'.stale /\ ~preview'.applying)
  BY HandedBack DEF NoPreview
<1>6. outcome'.op # 0 /\ outcome'.op <= lastOp'
  BY <1>1, <1>2, SessionAssumption DEF TypeOK
<1>7. QED
  BY <1>1, <1>4, <1>5, <1>6 DEF OutcomeInv

LEMMA DropOutcome ==
  ASSUME TypeOK, ApplyInv, OutcomeInv, DropResult, Deliver("mutation")
  PROVE  OutcomeInv'
<1>1. Answers' = {}
  BY NoAnswerLeft DEF DropResult
<1>2. UNCHANGED <<preview, lastOp, outcome, sends>>
  BY DEF DropResult, applyVars, serverVars
<1>3. QED
  BY <1>1, <1>2 DEF OutcomeInv, OutcomeIsTruthful

LEMMA OutcomeStep ==
  ASSUME TypeOK, ApplyInv, OutcomeInv, [Next]_vars
  PROVE  OutcomeInv'
<1> USE DEF applyVars
<1>1. CASE UNCHANGED vars
  BY <1>1, SameOutcome DEF Answers, vars, serverVars, workerVars
<1>2. CASE Operator
  <2>1. CASE \/ \E m \in {"actions", "overlay"} : OpenScreen(m)
             \/ Reconfigure \/ ToggleHelp \/ Quit
    <3>1. UNCHANGED outcome
      BY <2>1 DEF OpenScreen, Reconfigure, ToggleHelp, Quit
    <3>2. QED
      BY <2>1, <3>1, ScreenIsQuiet, QuietOutcome
  <2>2. CASE \E h \in Host : SubmitSetup(h)
    <3>1. UNCHANGED outcome
      BY <2>2 DEF SubmitSetup
    <3>2. QED
      BY <2>2, <3>1, SetupIsQuiet, QuietOutcome
  <2>3. QED
    BY <1>2, <2>1, <2>2, PreviewOutcome DEF Operator
<1>3. CASE PeriodicTick \/ SampleTick
  BY <1>3, ScreenIsQuiet, QuietOutcome DEF PeriodicTick, SampleTick
<1>4. CASE Worker
  <2>1. CASE \E k \in Kind : Remote(k)
    <3>1. UNCHANGED outcome
      BY <2>1 DEF Remote, Acquire, ReadConfig, Login, Begin, CallReader
    <3>2. QED
      BY <2>1, <3>1, ReaderIsQuiet, QuietOutcome, ThreadOutcome
  <2>2. CASE CallRefresh
    <3>1. "refresh" \in Kind \ {"mutation"} /\ UNCHANGED outcome
      BY <2>2 DEF Kind, CallRefresh
    <3>2. QED
      BY <2>2, <3>1, ReaderIsQuiet, QuietOutcome
  <2>3. CASE SetupThread
    BY <2>3, SetupIsQuiet, QuietOutcome DEF SetupThread
  <2>4. CASE \E k \in Kind : Land(k)
    BY <2>4, LandIsQuiet, QuietOutcome, LandOutcome DEF Land
  <2>5. QED
    BY <1>4, <2>1, <2>2, <2>3, <2>4, ThreadOutcome DEF Worker
<1>5. CASE Handler
  <2>1. CASE DeliverRefresh \/ DeliverRefreshFailure \/ DeliverLists
             \/ (DropResult /\ ~Deliver("mutation"))
    <3>1. UNCHANGED outcome
      BY <2>1 DEF DeliverRefresh, DeliverRefreshFailure, DeliverLists, DropResult
    <3>2. QED
      BY <2>1, <3>1, ResultIsQuiet, QuietOutcome
  <2>2. CASE DeliverSetup
    BY <2>2, SetupIsQuiet, QuietOutcome DEF DeliverSetup
  <2>3. QED
    BY <1>5, <2>1, <2>2, AnswerOutcome, DropOutcome DEF Handler
<1>6. QED
  BY <1>1, <1>2, <1>3, <1>4, <1>5 DEF Next

LEMMA InitOutcome == ASSUME Init PROVE OutcomeInv
BY DEF Init, OutcomeInv, OutcomeIsTruthful, Answers, NoOutcome, NoPreview

LEMMA OutcomeInvariant == Spec => []OutcomeInv
<1>1. TypeOK /\ ApplyInv /\ OutcomeInv /\ [Next]_vars => OutcomeInv'
  BY OutcomeStep
<1>2. QED
  BY <1>1, InitOutcome, TypeCorrect, ApplyInvariant, PTL DEF Spec

(***************************************************************************)
(* _classify_mutation_outcome: whatever screens opened or went stale while *)
(* the answer travelled, an outcome reads "applied" only for an operation  *)
(* that was sent exactly once, and "cancelled" or "no changes" only for    *)
(* one that was never sent.                                                *)
(***************************************************************************)
THEOREM OutcomeTellsWhatWasSent == Spec => []OutcomeIsTruthful
<1>1. OutcomeInv => OutcomeIsTruthful
  BY DEF OutcomeInv
<1>2. QED
  BY <1>1, OutcomeInvariant, PTL

-----------------------------------------------------------------------------
(* An applied mutation is read back. *)

\* The result of a refresh that failed, or that saw version a.
Settles(m, a) ==
  m.kind = "refresh" /\ (m.error # "none" \/ m.version >= a)

\* The listing of a refresh that did not see version a.
Outdated(m, a) == m.kind = "refresh" /\ m.error = "none" /\ m.version < a

\* Behind place n of queue q there is a result that settles version a.
Awaited(q, n, a) == \E j \in 1..Len(q) : j > n /\ Settles(q[j], a)

\* Behind every outdated listing in q there is one.
Followed(q, a) ==
  \A i \in 1..Len(q) : Outdated(q[i], a) => Awaited(q, i, a)

\* Unless the last report outran an older refresh, every refresh on its way back
\* saw what it reported.
RereadInv ==
  /\ acked <= server
  /\ \A m \in Answers : m.version <= server
  /\ \A m \in returning :
        m.kind = "refresh" => overtaken \/ Settles(m, acked)
  /\ (running /\ Fresh(connection, stale) /\ ~fatal /\ raw < acked)
        => overtaken \/ ~Finished("refresh") \/ Awaited(inbox, 0, acked)
  /\ overtaken \/ ~Finished("refresh") \/ Followed(inbox, acked)

LEMMA AppendAwaits ==
  ASSUME NEW q \in Seq(Messages), NEW m \in Messages, NEW a \in Nat
  PROVE  /\ \A n \in 0..Len(q) : Awaited(q, n, a) => Awaited(Append(q, m), n, a)
         /\ (~Outdated(m, a) /\ Followed(q, a)) => Followed(Append(q, m), a)
         /\ Settles(m, a) => \A n \in 0..Len(q) : Awaited(Append(q, m), n, a)
         /\ Settles(m, a) => Followed(Append(q, m), a)
<1> DEFINE r == Append(q, m)
<1>1. /\ Len(r) = Len(q) + 1 /\ Len(q) \in Nat
      /\ \A i \in 1..Len(q) : r[i] = q[i]
      /\ r[Len(q) + 1] = m
  BY AppendedMessage
<1> HIDE DEF r
<1>2. \A n \in 0..Len(q) : Awaited(q, n, a) => Awaited(r, n, a)
  BY <1>1 DEF Awaited
<1>3. ASSUME Settles(m, a), NEW n \in 0..Len(q) PROVE Awaited(r, n, a)
  <2>1. Len(q) + 1 \in 1..Len(r) /\ Len(q) + 1 > n
    BY <1>1
  <2>2. QED
    BY <1>1, <1>3, <2>1 DEF Awaited
<1>4. ASSUME ~Outdated(m, a),
             \A i \in 1..Len(q) : Outdated(q[i], a) => Awaited(r, i, a)
      PROVE  Followed(r, a)
  <2>1. SUFFICES ASSUME NEW i \in 1..Len(r), Outdated(r[i], a)
                 PROVE  Awaited(r, i, a)
    BY DEF Followed
  <2>2. i # Len(q) + 1
    BY <1>1, <1>4, <2>1
  <2>3. i \in 1..Len(q) /\ r[i] = q[i]
    BY <1>1, <2>2
  <2>4. QED
    BY <1>4, <2>1, <2>3
<1>5. (~Outdated(m, a) /\ Followed(q, a)) => Followed(r, a)
  BY <1>1, <1>2, <1>4 DEF Followed
<1>6. Settles(m, a) => ~Outdated(m, a)
  BY DEF Settles, Outdated, Messages
<1>7. Settles(m, a) => Followed(r, a)
  BY <1>1, <1>3, <1>4, <1>6
<1>8. QED
  BY <1>2, <1>3, <1>5, <1>7 DEF r

LEMMA TailAwaits ==
  ASSUME NEW q \in Seq(Messages), q # << >>, NEW a \in Nat
  PROVE  /\ ~Settles(Head(q), a) /\ Awaited(q, 0, a) => Awaited(Tail(q), 0, a)
         /\ Followed(q, a) => Followed(Tail(q), a)
         /\ Followed(q, a) /\ Outdated(Head(q), a) => Awaited(Tail(q), 0, a)
<1> DEFINE r == Tail(q)
<1>1. /\ Len(r) = Len(q) - 1 /\ Len(q) \in Nat /\ Len(q) > 0
      /\ \A i \in 1..Len(r) : r[i] = q[i + 1]
      /\ Head(q) = q[1]
  BY RemainingMessage
<1> HIDE DEF r
<1>2. ASSUME NEW n \in Nat, Awaited(q, n + 1, a) PROVE Awaited(r, n, a)
  <2>1. PICK j \in 1..Len(q) : j > n + 1 /\ Settles(q[j], a)
    BY <1>2 DEF Awaited
  <2>2. j - 1 \in 1..Len(r) /\ j - 1 > n /\ r[j - 1] = q[j]
    <3>1. j - 1 \in 1..Len(r) /\ j - 1 > n /\ (j - 1) + 1 = j
      BY <1>1, <2>1
    <3>2. QED
      BY <1>1, <3>1
  <2>3. QED
    BY <2>1, <2>2 DEF Awaited
<1>3. ~Settles(Head(q), a) /\ Awaited(q, 0, a) => Awaited(r, 0, a)
  <2>1. SUFFICES ASSUME ~Settles(q[1], a), Awaited(q, 0, a)
                 PROVE  Awaited(r, 0, a)
    BY <1>1
  <2>2. PICK j \in 1..Len(q) : Settles(q[j], a)
    BY <2>1 DEF Awaited
  <2>3. j > 0 + 1
    BY <2>1, <2>2
  <2>4. Awaited(q, 0 + 1, a)
    BY <2>2, <2>3 DEF Awaited
  <2>5. QED
    BY <1>2, <2>4
<1>4. Followed(q, a) => Followed(r, a)
  <2>1. SUFFICES ASSUME Followed(q, a), NEW i \in 1..Len(r), Outdated(r[i], a)
                 PROVE  Awaited(r, i, a)
    BY DEF Followed
  <2>2. i + 1 \in 1..Len(q) /\ r[i] = q[i + 1] /\ i \in Nat
    BY <1>1
  <2>3. Awaited(q, i + 1, a)
    BY <2>1, <2>2 DEF Followed
  <2>4. QED
    BY <1>2, <2>2, <2>3
<1>5. Followed(q, a) /\ Outdated(Head(q), a) => Awaited(r, 0, a)
  <2>1. SUFFICES ASSUME Followed(q, a), Outdated(q[1], a)
                 PROVE  Awaited(r, 0, a)
    BY <1>1
  <2>2. 1 \in 1..Len(q) /\ 0 + 1 = 1
    BY <1>1
  <2>3. Awaited(q, 0 + 1, a)
    BY <2>1, <2>2 DEF Followed
  <2>4. QED
    BY <1>2, <2>3
<1>6. QED
  BY <1>3, <1>4, <1>5 DEF r

-----------------------------------------------------------------------------
(* Steps in which no refresh starts and no mutation is reported. *)

LEMMA AnswersType ==
  ASSUME TypeOK
  PROVE  \A m \in Answers : m \in Messages
BY DEF TypeOK, Answers

LEMMA KeepsAwaiting ==
  ASSUME TypeOK, RereadInv, TypeOK', running' => running,
         UNCHANGED <<connection, stale, fatal, raw, acked, overtaken>>,
         server <= server', ~Finished("refresh") => ~Finished("refresh")',
         \A m \in Answers' : m \in Answers \/ m.version <= server',
         \A m \in returning' :
            m.kind = "refresh" => m \in returning \/ Settles(m, acked),
         overtaken \/ (Followed(inbox, acked) => Followed(inbox', acked)),
         overtaken \/ ((running' /\ Awaited(inbox, 0, acked))
                          => Awaited(inbox', 0, acked))
  PROVE  RereadInv'
<1>1. acked' <= server'
  BY DEF TypeOK, RereadInv
<1>2. \A m \in Answers' : m.version <= server'
  <2>1. ASSUME NEW m \in Answers PROVE m.version <= server'
    <3>1. m.version \in Nat /\ server \in Nat /\ server' \in Nat
      BY AnswersType DEF TypeOK, Messages
    <3>2. QED
      BY <3>1 DEF RereadInv
  <2>2. QED
    BY <2>1
<1>3. \A m \in returning' :
         m.kind = "refresh" => overtaken' \/ Settles(m, acked)
  BY DEF RereadInv
<1>4. Fresh(connection, stale)' <=> Fresh(connection, stale)
  BY DEF Fresh
<1>5. (running /\ Fresh(connection, stale) /\ ~fatal /\ raw < acked)'
         => overtaken' \/ ~Finished("refresh")' \/ Awaited(inbox', 0, acked)
  BY <1>4 DEF RereadInv
<1>6. overtaken' \/ ~Finished("refresh")' \/ Followed(inbox', acked)
  BY DEF RereadInv
<1>7. QED
  BY <1>1, <1>2, <1>3, <1>5, <1>6 DEF RereadInv

LEMMA SameAwaiting ==
  ASSUME TypeOK, RereadInv, TypeOK', running' => running,
         UNCHANGED <<connection, stale, fatal, raw, acked, overtaken, server,
                     returning, inbox>>,
         ~Finished("refresh") => ~Finished("refresh")'
  PROVE  RereadInv'
<1>1. server <= server' /\ Answers' = Answers
  BY DEF TypeOK, Answers
<1>2. QED
  BY <1>1, KeepsAwaiting

\* Another kind of result joins the queue.
LEMMA JoinAwaiting ==
  ASSUME TypeOK, RereadInv, TypeOK', UNCHANGED running,
         UNCHANGED <<connection, stale, fatal, raw, acked, overtaken, server>>,
         ~Finished("refresh") => ~Finished("refresh")',
         NEW m \in Messages, m.kind # "refresh", inbox' = Append(inbox, m),
         Answers' \subseteq Answers, returning' \subseteq returning
  PROVE  RereadInv'
<1>1. inbox \in Seq(Messages) /\ acked \in Nat /\ server <= server'
  BY DEF TypeOK
<1>2. ~Outdated(m, acked) /\ 0 \in 0..Len(inbox)
  BY <1>1 DEF Outdated
<1>3. /\ Followed(inbox, acked) => Followed(inbox', acked)
      /\ Awaited(inbox, 0, acked) => Awaited(inbox', 0, acked)
  BY <1>1, <1>2, AppendAwaits
<1>4. QED
  BY <1>1, <1>3, KeepsAwaiting

\* The oldest result leaves the queue, and is not that of a refresh, or the
\* app is gone.
LEMMA LeaveAwaiting ==
  ASSUME TypeOK, RereadInv, TypeOK', UNCHANGED <<running, returning>>,
         UNCHANGED <<connection, stale, fatal, raw, acked, overtaken, server>>,
         ~Finished("refresh") => ~Finished("refresh")',
         inbox # << >>, inbox' = Tail(inbox),
         running => Head(inbox).kind # "refresh"
  PROVE  RereadInv'
<1>1. inbox \in Seq(Messages) /\ acked \in Nat /\ server <= server'
  BY DEF TypeOK
<1>2. running => ~Settles(Head(inbox), acked)
  BY DEF Settles
<1>3. /\ Followed(inbox, acked) => Followed(inbox', acked)
      /\ (running /\ Awaited(inbox, 0, acked)) => Awaited(inbox', 0, acked)
  BY <1>1, <1>2, TailAwaits
<1>4. QED
  BY <1>1, <1>3, TailAnswers, KeepsAwaiting

-----------------------------------------------------------------------------
(* The threads, and their results on the way to the queue. *)

\* A thread gives the lock back.  A refresh failed, or saw every mutation
\* reported so far; a mutation's answer knows what the server has applied.
LEMMA ThreadReturns ==
  ASSUME TypeOK, RereadInv, TypeOK',
         UNCHANGED <<running, connection, stale, fatal, raw, acked, overtaken,
                     waiting, inbox>>,
         server <= server', NEW k \in Kind, remote.kind = k,
         NEW e, NEW v, NEW c, NEW d, Finish(k, e, v, c, d),
         k = "mutation" => v <= server',
         k = "refresh" => e # "none" \/ v = server
  PROVE  RereadInv'
<1> DEFINE m == Message(k, e, v, c, d)
<1>1. m.kind = k /\ m.version = v /\ (k = "refresh" => m.error = e)
  BY DEF Message, Told
<1>2. returning' = returning \cup {m}
  BY DEF Finish
<1> HIDE DEF m
<1>3. ~Finished("refresh") => ~Finished("refresh")'
  <2>1. CASE k = "refresh"
    <3>1. m \in returning' /\ m.kind = "refresh"
      BY <1>1, <1>2, <2>1
    <3>2. QED
      BY <3>1 DEF Finished
  <2>2. CASE k # "refresh"
    BY <1>2, <2>2 DEF AtLock, Finished
  <2>3. QED
    BY <2>1, <2>2
<1>4. \A n \in Answers' : n \in Answers \/ n.version <= server'
  BY <1>1, <1>2 DEF Answers
<1>5. \A n \in returning' :
         n.kind = "refresh" => n \in returning \/ Settles(n, acked)
  BY <1>1, <1>2 DEF Settles, RereadInv, TypeOK
<1>6. QED
  BY <1>3, <1>4, <1>5, KeepsAwaiting

LEMMA ReaderRereads ==
  ASSUME TypeOK, RereadInv, TypeOK', NEW k \in Kind, Remote(k) \/ CallRefresh
  PROVE  RereadInv'
<1> USE DEF uiVars, stateVars, serverVars
<1>1. UNCHANGED <<running, connection, stale, fatal, raw, acked, overtaken, server,
                  inbox>>
  BY DEF Remote, Acquire, ReadConfig, Login, Begin, CallReader, CallRefresh
<1>2. server \in Nat /\ server <= server' /\ remote \in Remotes
  BY <1>1 DEF TypeOK
<1>3. CASE UNCHANGED <<returning, waiting>> /\ remote'.kind = remote.kind
  BY <1>1, <1>3, SameAwaiting DEF AtLock, Finished
<1>4. CASE Acquire(k)
  <2>1. UNCHANGED returning /\ remote.kind = "none" /\ remote'.kind = k
        /\ (k # "refresh" => waiting'["refresh"] = waiting["refresh"])
    BY <1>4 DEF TypeOK, Acquire, Kind
  <2>2. ~Finished("refresh") => ~Finished("refresh")'
    BY <2>1 DEF AtLock, Finished
  <2>3. QED
    BY <1>1, <2>1, <2>2, SameAwaiting
<1>5. CASE /\ UNCHANGED waiting /\ remote.kind = k
           /\ \/ \E e \in Error : Fail(k, e)
              \/ k # "refresh" /\ Finish(k, "none", 0, NoSession, FALSE)
  <2>1. PICK e : /\ Finish(k, e, 0, NoSession, FALSE)
                 /\ k = "refresh" => e # "none"
    BY <1>5 DEF Fail, Error
  <2>2. 0 <= server'
    BY <1>1, <1>2
  <2>3. QED
    BY <1>1, <1>2, <1>5, <2>1, <2>2, ThreadReturns
<1>6. CASE CallRefresh
  <2>1. /\ remote.kind = "refresh" /\ "refresh" \in Kind /\ UNCHANGED waiting
        /\ \E e, v, c : /\ Finish("refresh", e, v, c, FALSE)
                        /\ e # "none" \/ v = server
    BY <1>6 DEF CallRefresh, Fail, CallFailures, Kind
  <2>2. QED
    BY <1>1, <1>2, <2>1, ThreadReturns
<1>7. CASE ReadConfig(k)
  BY <1>2, <1>3, <1>5, <1>7 DEF ReadConfig, Error, Remotes
<1>8. CASE Login(k)
  BY <1>2, <1>3, <1>5, <1>8 DEF Login, Error, Remotes
<1>9. CASE Begin(k)
  BY <1>2, <1>3, <1>5, <1>9 DEF Begin, MayProceed, Error, Remotes
<1>10. CASE CallReader(k)
  BY <1>5, <1>10 DEF CallReader, CallFailures, Error
<1>11. QED
  BY <1>4, <1>6, <1>7, <1>8, <1>9, <1>10 DEF Remote

\* The mutation's thread, which alone moves the server on.
LEMMA MutationRereads ==
  ASSUME TypeOK, RereadInv, TypeOK', CallMutation
  PROVE  RereadInv'
<1>1. /\ UNCHANGED <<running, connection, stale, fatal, raw, acked, overtaken,
                     waiting, inbox>>
      /\ remote.kind = "mutation" /\ "mutation" \in Kind
  BY DEF CallMutation, uiVars, stateVars, Kind
<1>2. server \in Nat
  BY DEF TypeOK
<1>3. CASE job.plan = "empty"
  <2>1. UNCHANGED server /\ Finish("mutation", "none", server, NoSession, TRUE)
    BY <1>3 DEF CallMutation
  <2>2. server <= server'
    BY <1>2, <2>1
  <2>3. QED
    BY <1>1, <2>1, <2>2, ThreadReturns
<1>4. CASE /\ server' = server + 1
           /\ Finish("mutation", "none", server + 1, NoSession, TRUE)
  <2>1. server <= server' /\ server + 1 <= server'
    BY <1>2, <1>4
  <2>2. QED
    BY <1>1, <1>4, <2>1, ThreadReturns
<1>5. CASE server' \in {server, server + 1} /\ \E e \in Error : Fail("mutation", e)
  <2>1. PICK e \in Error : Finish("mutation", e, 0, NoSession, FALSE)
    BY <1>5 DEF Fail
  <2>2. server <= server' /\ 0 <= server'
    BY <1>2, <1>5
  <2>3. QED
    BY <1>1, <2>1, <2>2, ThreadReturns
<1>6. QED
  BY <1>3, <1>4, <1>5 DEF CallMutation, CallFailures, Error

\* A result joins the queue: a refresh's settles what was reported, unless a
\* later report outran it.
LEMMA LandRereads ==
  ASSUME TypeOK, RereadInv, TypeOK', NEW k \in Kind, Land(k)
  PROVE  RereadInv'
<1>1. PICK m \in returning :
        /\ m.kind = k /\ returning' = returning \ {m}
        /\ inbox' = inbox \/ inbox' = Append(inbox, m)
        /\ k = "refresh" => inbox' = Append(inbox, m)
  BY DEF Land, Posts
<1>2. UNCHANGED <<running, connection, stale, fatal, raw, acked, overtaken, server,
                  waiting, remote>>
  BY DEF Land, uiVars, stateVars, serverVars
<1>3. Answers' \subseteq Answers
  BY LandAnswers
<1>4. /\ m \in Messages /\ inbox \in Seq(Messages) /\ acked \in Nat
      /\ 0 \in 0..Len(inbox)
  BY DEF TypeOK
<1>5. CASE k # "refresh"
  <2>1. ~Finished("refresh") => ~Finished("refresh")'
    BY <1>1, <1>2, <1>5 DEF AtLock, Finished
  <2>2. CASE inbox' = inbox
    <3>1. server <= server'
      BY <1>2 DEF TypeOK
    <3>2. QED
      BY <1>1, <1>2, <1>3, <2>1, <2>2, <3>1, KeepsAwaiting
  <2>3. CASE inbox' = Append(inbox, m)
    BY <1>1, <1>2, <1>3, <1>4, <1>5, <2>1, <2>3, JoinAwaiting
  <2>4. QED
    BY <1>1, <2>2, <2>3
<1>6. CASE k = "refresh"
  <2>1. overtaken \/ Settles(m, acked)
    BY <1>1, <1>6 DEF RereadInv
  <2>2. overtaken \/ (Awaited(inbox', 0, acked) /\ Followed(inbox', acked))
    BY <1>1, <1>4, <1>6, <2>1, AppendAwaits
  <2>3. \A n \in Answers' : n.version <= server'
    BY <1>2, <1>3 DEF RereadInv
  <2>4. QED
    BY <1>1, <1>2, <2>2, <2>3 DEF RereadInv
<1>7. QED
  BY <1>5, <1>6

-----------------------------------------------------------------------------
(* The UI thread. *)

\* A refresh starts: it will see all that was reported.
LEMMA RefreshStarts ==
  ASSUME TypeOK, RereadInv, CanStartRefresh, waiting'["refresh"] = 1,
         UNCHANGED <<acked, server, returning>>, Answers' \subseteq Answers
  PROVE  RereadInv'
<1>1. ~Finished("refresh")'
  BY DEF AtLock, Finished
<1>2. \A m \in returning' : m.kind # "refresh"
  BY DEF CanStartRefresh, Finished
<1>3. QED
  BY <1>1, <1>2 DEF RereadInv

\* The head of the queue, once taken.
LEMMA Taken ==
  ASSUME TypeOK, NEW k, Deliver(k)
  PROVE  /\ inbox \in Seq(Messages) /\ inbox # << >> /\ inbox' = Tail(inbox)
         /\ Head(inbox) \in Messages /\ Head(inbox).kind = k
         /\ 1 \in 1..Len(inbox) /\ inbox[1] = Head(inbox)
<1>1. inbox \in Seq(Messages) /\ inbox # << >> /\ inbox' = Tail(inbox)
      /\ Head(inbox).kind = k
  BY DEF TypeOK, Deliver
<1>2. 1 \in 1..Len(inbox) /\ inbox[1] = Head(inbox)
  BY <1>1, RemainingMessage
<1>3. inbox[1] \in Messages
  BY <1>1, <1>2
<1>4. QED
  BY <1>1, <1>2, <1>3

\* The result of a refresh is handled.
LEMMA RefreshHandled ==
  ASSUME TypeOK, RereadInv, TypeOK', DeliverRefresh \/ DeliverRefreshFailure
  PROVE  RereadInv'
<1> USE DEF uiVars, serverVars
<1> DEFINE m == Head(inbox)
<1>1. /\ inbox \in Seq(Messages) /\ inbox # << >> /\ inbox' = Tail(inbox)
      /\ m \in Messages /\ m.kind = "refresh"
  BY Taken DEF DeliverRefresh, DeliverRefreshFailure
<1>2. UNCHANGED <<running, acked, overtaken, server, remote, returning>>
      /\ acked \in Nat /\ server \in Nat
  BY DEF TypeOK, DeliverRefresh, DeliverRefreshFailure
<1>3. \A n \in Answers' : n.version <= server'
  BY <1>1, <1>2, TailAnswers DEF RereadInv
<1>4. /\ Followed(inbox, acked) => Followed(inbox', acked)
      /\ Followed(inbox, acked) /\ Outdated(m, acked) => Awaited(inbox', 0, acked)
  BY <1>1, <1>2, TailAwaits
<1>5. ~Finished("refresh") => ~Finished("refresh")'
  <2>1. waiting'["refresh"] = waiting["refresh"]
    BY DEF TypeOK, DeliverRefresh, DeliverRefreshFailure, Kind
  <2>2. QED
    BY <1>2, <2>1 DEF AtLock, Finished
<1>6. overtaken' \/ ~Finished("refresh")' \/ Followed(inbox', acked)
  BY <1>2, <1>4, <1>5 DEF RereadInv
<1>7. \A n \in returning' : n.kind = "refresh" => overtaken' \/ Settles(n, acked)
  BY <1>2 DEF RereadInv
<1>8. CASE DeliverRefresh
  <2>1. raw' = m.version /\ m.error = "none" /\ m.version \in Nat
    BY <1>1, <1>8 DEF DeliverRefresh, Messages
  <2>2. raw' < acked => Outdated(m, acked)
    BY <1>1, <2>1 DEF Outdated
  <2>3. raw' < acked
          => overtaken' \/ ~Finished("refresh")' \/ Awaited(inbox', 0, acked)
    BY <1>2, <1>4, <1>5, <2>2 DEF RereadInv
  <2>4. QED
    BY <1>2, <1>3, <1>6, <1>7, <2>3 DEF RereadInv
<1>9. CASE DeliverRefreshFailure
  <2>1. fatal' \/ connection' # "connected"
    BY <1>9 DEF DeliverRefreshFailure
  <2>2. ~(Fresh(connection, stale)' /\ ~fatal')
    BY <2>1 DEF Fresh
  <2>3. QED
    BY <1>2, <1>3, <1>6, <1>7, <2>2 DEF RereadInv
<1>10. QED
  BY <1>8, <1>9

\* A mutation reported applied starts a refresh, unless one is under way: that
\* one will see it, unless it is on its way back and the mutation outran it.
LEMMA AnswerRereads ==
  ASSUME TypeOK, ApplyInv, RereadInv, TypeOK', DeliverMutation
  PROVE  RereadInv'
<1> DEFINE m == Head(inbox)
<1>1. /\ inbox \in Seq(Messages) /\ inbox # << >> /\ inbox' = Tail(inbox)
      /\ m \in Messages /\ m.kind = "mutation"
      /\ 1 \in 1..Len(inbox) /\ inbox[1] = m
  BY Taken DEF DeliverMutation
<1>2. UNCHANGED <<running, connection, stale, fatal, raw, server, remote, returning>>
      /\ Finished("mutation")
  BY ResultInHand DEF DeliverMutation
<1>3. m \in Answers
  BY <1>1 DEF Answers
<1>4. \A n \in Answers' : n.version <= server'
  BY <1>1, <1>2, TailAnswers DEF RereadInv
<1> HIDE DEF m
<1>5. CASE UNCHANGED <<acked, overtaken, waiting>>
  <2>1. running => Head(inbox).kind # "refresh"
    BY <1>1 DEF m
  <2>2. ~Finished("refresh") => ~Finished("refresh")'
    BY <1>2, <1>5 DEF AtLock, Finished
  <2>3. QED
    BY <1>1, <1>2, <1>5, <2>1, <2>2, LeaveAwaiting
<1>6. CASE /\ acked' = m.version /\ overtaken' = Outrun(m.version)
           /\ \E n : waiting' = [StartRefresh(waiting) EXCEPT !["lists"] = n]
  <2>1. acked' <= server'
    BY <1>2, <1>3, <1>6 DEF RereadInv
  <2>2. ~Finished("refresh")'
    <3>1. waiting'["refresh"] = IF CanStartRefresh THEN 1 ELSE waiting["refresh"]
      BY <1>6 DEF TypeOK, StartRefresh, Kind
    <3>2. QED
      BY <1>2, <3>1 DEF CanStartRefresh, AtLock, Finished
  <2>3. ASSUME NEW n \in returning', n.kind = "refresh"
        PROVE  overtaken' \/ Settles(n, acked')
    <3>1. n \in Messages /\ m.version \in Nat
      BY <1>1, <1>2, <2>3 DEF TypeOK, Messages
    <3>2. ~Outrun(m.version) => n.error # "none" \/ n.version >= m.version
      BY <1>2, <2>3, <3>1 DEF Outrun, Messages
    <3>3. QED
      BY <1>6, <2>3, <3>2 DEF Settles
  <2>4. QED
    BY <1>4, <2>1, <2>2, <2>3 DEF RereadInv
<1>7. QED
  BY <1>5, <1>6 DEF DeliverMutation, m

\* Timers.
LEMMA TickRereads ==
  ASSUME TypeOK, RereadInv, TypeOK', PeriodicTick \/ SampleTick
  PROVE  RereadInv'
<1>1. CASE PeriodicTick
  <2>1. CanStartRefresh /\ UNCHANGED <<acked, server, returning, inbox>>
    BY <1>1 DEF PeriodicTick
  <2>2. waiting'["refresh"] = 1
    BY <1>1 DEF TypeOK, PeriodicTick, StartRefresh, Kind
  <2>3. QED
    BY <2>1, <2>2, RefreshStarts DEF Answers
<1>2. CASE SampleTick
  <2>1. UNCHANGED <<running, connection, stale, fatal, raw, acked, overtaken, server,
                    remote, returning, inbox>>
    BY <1>2 DEF SampleTick, uiVars, stateVars, serverVars
  <2>2. waiting'["refresh"] = waiting["refresh"]
    BY <1>2 DEF TypeOK, SampleTick, Kind
  <2>3. ~Finished("refresh") => ~Finished("refresh")'
    BY <2>1, <2>2 DEF AtLock, Finished
  <2>4. QED
    BY <2>1, <2>3, SameAwaiting
<1>3. QED
  BY <1>1, <1>2

\* The connection form: once completed it starts a refresh, unless one is under
\* way.
LEMMA SetupRereads ==
  ASSUME TypeOK, RereadInv, TypeOK',
         SetupThread \/ DeliverSetup \/ \E h \in Host : SubmitSetup(h)
  PROVE  RereadInv'
<1> USE DEF uiVars, stateVars, serverVars
<1>1. UNCHANGED <<running, connection, stale, fatal, raw, acked, server, remote,
                  returning>>
  BY DEF SetupThread, DeliverSetup, SubmitSetup
<1>2. \/ UNCHANGED inbox
      \/ \E n \in Messages : n.kind = "setup" /\ inbox' = Append(inbox, n)
      \/ /\ inbox # << >> /\ inbox' = Tail(inbox) /\ Head(inbox).kind = "setup"
  <2>1. \A e \in {"none", "unavailable"} :
           /\ Message("setup", e, 0, NoSession, FALSE) \in Messages
           /\ Message("setup", e, 0, NoSession, FALSE).kind = "setup"
    BY DEF Message, Told, Messages, Error, Sessions
  <2>2. CASE SetupThread
    BY <2>1, <2>2, Zenon DEF SetupThread
  <2>3. CASE DeliverSetup
    BY <2>3 DEF DeliverSetup, Deliver
  <2>4. CASE \E h \in Host : SubmitSetup(h)
    BY <2>4 DEF SubmitSetup
  <2>5. QED
    BY <2>2, <2>3, <2>4
<1>3. Answers' \subseteq Answers
  <2>1. CASE UNCHANGED inbox
    BY <1>1, <2>1 DEF Answers
  <2>2. CASE \E n \in Messages : n.kind = "setup" /\ inbox' = Append(inbox, n)
    <3>1. PICK n \in Messages : n.kind = "setup" /\ inbox' = Append(inbox, n)
      BY <2>2
    <3>2. inbox \in Seq(Messages)
      BY DEF TypeOK
    <3>3. Untouched(inbox, inbox')
      BY <3>1, <3>2, AppendUntouched
    <3>4. QED
      BY <1>1, <3>3 DEF Untouched, Answers
  <2>3. CASE inbox # << >> /\ inbox' = Tail(inbox)
    BY <1>1, <2>3, TailAnswers
  <2>4. QED
    BY <1>2, <2>1, <2>2, <2>3
<1>4. CASE CanStartRefresh /\ \E h : SetupDone(h)
  <2>1. waiting'["refresh"] = 1
    BY <1>4 DEF TypeOK, SetupDone, StartRefresh, Kind
  <2>2. QED
    BY <1>1, <1>3, <1>4, <2>1, RefreshStarts
<1>5. CASE overtaken' = overtaken /\ waiting'["refresh"] = waiting["refresh"]
  <2>1. ~Finished("refresh") => ~Finished("refresh")'
    BY <1>1, <1>5 DEF AtLock, Finished
  <2>2. CASE UNCHANGED inbox
    BY <1>1, <1>5, <2>1, <2>2, SameAwaiting
  <2>3. CASE \E n \in Messages : n.kind = "setup" /\ inbox' = Append(inbox, n)
    BY <1>1, <1>3, <1>5, <2>1, <2>3, JoinAwaiting
  <2>4. CASE inbox # << >> /\ inbox' = Tail(inbox) /\ Head(inbox).kind = "setup"
    BY <1>1, <1>5, <2>1, <2>4, LeaveAwaiting
  <2>5. QED
    BY <1>2, <2>2, <2>3, <2>4
<1>6. \/ CanStartRefresh /\ \E h : SetupDone(h)
      \/ overtaken' = overtaken /\ waiting'["refresh"] = waiting["refresh"]
  <2>1. ASSUME NEW h, SetupDone(h), ~CanStartRefresh
        PROVE  overtaken' = overtaken /\ waiting'["refresh"] = waiting["refresh"]
    <3>1. overtaken' = overtaken
      BY <2>1 DEF TypeOK, SetupDone
    <3>2. waiting'["refresh"] = waiting["refresh"]
      BY <2>1 DEF TypeOK, SetupDone, StartRefresh, Kind
    <3>3. QED
      BY <3>1, <3>2
  <2>2. \/ \E h : SetupDone(h)
        \/ UNCHANGED <<overtaken, waiting>>
    BY DEF SetupThread, DeliverSetup, SubmitSetup, SetupUnwritten
  <2>3. QED
    BY <2>1, <2>2
<1>7. QED
  BY <1>4, <1>5, <1>6

\* Screens, and every result that is not a refresh's.
LEMMA OthersReread ==
  ASSUME TypeOK, RereadInv, TypeOK',
         \/ Operator /\ ~\E h \in Host : SubmitSetup(h)
         \/ UNCHANGED vars \/ DropResult \/ DeliverLists
  PROVE  RereadInv'
<1> USE DEF uiVars, stateVars, serverVars, workerVars
<1>1. /\ running' => running
      /\ UNCHANGED <<connection, stale, fatal, raw, acked, overtaken, server,
                     remote, returning>>
      /\ waiting'["refresh"] = waiting["refresh"]
  <2>1. CASE ApplyPlan
    BY <2>1 DEF TypeOK, ApplyPlan, Kind
  <2>2. CASE Operator /\ ~ApplyPlan /\ ~\E h \in Host : SubmitSetup(h)
    BY <2>2 DEF Operator, OpenScreen, Reconfigure, ToggleHelp, Dismiss, Quit,
       OpenPreview
  <2>3. CASE UNCHANGED vars
    BY <2>3 DEF vars
  <2>4. CASE DropResult \/ DeliverLists
    BY <2>4 DEF DropResult, DeliverLists
  <2>5. QED
    BY <2>1, <2>2, <2>3, <2>4
<1>2. ~Finished("refresh") => ~Finished("refresh")'
  BY <1>1 DEF AtLock, Finished
<1>3. CASE UNCHANGED inbox
  BY <1>1, <1>2, <1>3, SameAwaiting
<1>4. CASE DropResult \/ DeliverLists
  <2>1. /\ inbox # << >> /\ inbox' = Tail(inbox) /\ UNCHANGED running
        /\ running => Head(inbox).kind # "refresh"
    BY <1>4 DEF DropResult, DeliverLists, Deliver
  <2>2. QED
    BY <1>1, <1>2, <2>1, LeaveAwaiting
<1>5. QED
  BY <1>3, <1>4 DEF Operator, OpenScreen, Reconfigure, ToggleHelp, Dismiss, Quit,
     OpenPreview, ApplyPlan, vars

LEMMA RereadStep ==
  ASSUME TypeOK, ApplyInv, RereadInv, [Next]_vars
  PROVE  RereadInv'
<1>1. TypeOK'
  BY StepType
<1>2. "refresh" \in Kind
  BY DEF Kind
<1>3. CASE Operator \/ UNCHANGED vars
  BY <1>1, <1>3, SetupRereads, OthersReread DEF Operator
<1>4. CASE PeriodicTick \/ SampleTick
  BY <1>1, <1>4, TickRereads
<1>5. CASE Worker
  BY <1>1, <1>2, <1>5, ReaderRereads, MutationRereads, LandRereads, SetupRereads
     DEF Worker
<1>6. CASE Handler
  BY <1>1, <1>6, RefreshHandled, AnswerRereads, SetupRereads, OthersReread
     DEF Handler
<1>7. QED
  BY <1>3, <1>4, <1>5, <1>6 DEF Next

LEMMA InitReread == ASSUME Init PROVE RereadInv
BY DEF Init, RereadInv, Answers, Followed, Fresh

(***************************************************************************)
(* _on_mutation and _start_periodic_refresh: a mutation reported applied   *)
(* is read back.  While the screen looks healthy and its listing predates  *)
(* the mutation, a refresh that will show it is queued, in flight, on its  *)
(* way back or waiting for the UI thread, however results overtake ticks   *)
(* and failures.  Not so once a report has outrun an older refresh, one    *)
(* that had left the lock when the mutation took it and whose worker the   *)
(* event loop had not finished when the answer was handled: its listing is *)
(* what stays on the screen until the next refresh starts.                 *)
(***************************************************************************)
THEOREM AppliedGetsReread == Spec => []AppliedIsReread
<1>1. TypeOK /\ ApplyInv /\ RereadInv /\ [Next]_vars => RereadInv'
  BY RereadStep
<1>2. TypeOK /\ RereadInv => AppliedIsReread
  BY DEF RereadInv, AppliedIsReread, Awaited, Settles
<1>3. QED
  BY <1>1, <1>2, InitReread, TypeCorrect, ApplyInvariant, PTL DEF Spec
=============================================================================
