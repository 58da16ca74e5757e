---------------------------- MODULE CompletionProofs ----------------------------
(***************************************************************************)
(* What the completion cache promises for any number of processes,         *)
(* instances and names: nothing invented, and nothing lost by updates that *)
(* do not overlap.                                                         *)
(***************************************************************************)
EXTENDS CompletionCache, TLAPS

Stages == {"idle", "probing", "updating", "writing", "renaming", "answered"}

\* A process as TypeOK has it
Process == [stage : Stages, host : Hosts \cup {Nothing},
            vocabulary : Vocabularies, found : Known, failed : BOOLEAN,
            seen : Document, answer : SUBSET Names]

FileType == file \in Document \cup {Damaged}
ProcType == proc \in [Processes -> Process]
LearnedType == learned \in [Hosts -> Known] /\ alone \in BOOLEAN
BoundType == tasks \in 0..MaxTasks /\ damage \in 0..MaxDamage

Types == FileType /\ ProcType /\ LearnedType /\ BoundType

\* Only a process at rest is about no instance.
AtWork(q) == q.stage # "idle" => q.host \in Hosts

Real(known, h) == \A v \in Vocabularies : known[v] \subseteq Live[h][v]

\* All a process carries is real: what it found, what it read, what it answers.
Honest(q) ==
  /\ AtWork(q)
  /\ q.host \in Hosts => /\ Real(q.found, q.host)
                         /\ q.answer \subseteq Live[q.host][q.vocabulary]
  /\ \A h \in Hosts : Real(q.seen[h].names, h)

FileIsReal == file # Damaged => \A h \in Hosts : Real(file[h].names, h)

\* As long as updates do not overlap, one that has read the file has read what
\* it is about to replace.
SeenIsCurrent ==
  alone /\ damage = 0 =>
      \A p \in Processes : proc[p].stage \in {"writing", "renaming"} =>
          proc[p].seen = Read

CacheInv ==
  /\ Types /\ FileIsReal /\ \A p \in Processes : Honest(proc[p])
  /\ SeenIsCurrent /\ NothingLostAlone

-----------------------------------------------------------------------------
LEMMA NoneKnown ==
  /\ NoNames \in Known /\ NoEntry \in Entry /\ NoDocument \in Document
  /\ \A h \in Hosts : NoDocument[h].names = NoNames
  /\ \A v \in Vocabularies : NoNames[v] = {}
BY DEF NoNames, Known, NoEntry, Entry, NoDocument, Document

LEMMA ReadIsTyped ==
  ASSUME FileType
  PROVE  Read \in Document
BY NoneKnown DEF FileType, Read

LEMMA IdleIsTyped == Idle \in Process
BY NoneKnown DEF Idle, Process, Stages, Vocabularies

LEMMA UpdatedIsTyped ==
  ASSUME Types, NEW p \in Processes, proc[p].host \in Hosts
  PROVE  /\ Updated(p) \in Document
         /\ \A h \in Hosts, v \in Vocabularies :
              Updated(p)[h].names[v] =
                IF h = proc[p].host
                THEN proc[p].seen[h].names[v] \cup proc[p].found[v]
                ELSE proc[p].seen[h].names[v]
<1>1. /\ proc[p].seen \in [Hosts -> Entry] /\ proc[p].found \in Known
      /\ proc[p].failed \in BOOLEAN
  BY DEF Types, ProcType, Process, Document
<1>2. \A h \in Hosts : proc[p].seen[h].names \in Known
  BY <1>1 DEF Entry
<1>3. \A h \in Hosts :
        /\ Merged(proc[p].seen[h].names, proc[p].found) \in Known
        /\ \A v \in Vocabularies :
             Merged(proc[p].seen[h].names, proc[p].found)[v] =
               proc[p].seen[h].names[v] \cup proc[p].found[v]
  BY <1>1, <1>2 DEF Merged, Union, Known
<1>4. DEFINE h0 == proc[p].host
             e == [names |-> Merged(proc[p].seen[h0].names, proc[p].found),
                   failed |-> proc[p].failed]
<1>5. Updated(p) = [proc[p].seen EXCEPT ![h0] = e]
  BY DEF Updated
<1>6. e \in Entry /\ e.names = Merged(proc[p].seen[h0].names, proc[p].found)
  BY <1>1, <1>3 DEF Entry
<1>7. /\ Updated(p) \in [Hosts -> Entry]
      /\ \A h \in Hosts : Updated(p)[h] = IF h = h0 THEN e ELSE proc[p].seen[h]
  <2>1. proc[p].seen \in [Hosts -> Entry] /\ e \in Entry
    BY <1>1, <1>6
  <2>2. QED
    BY <1>5, <2>1
<1>8. Updated(p) \in Document
  BY <1>7 DEF Document
<1>9. \A h \in Hosts : Updated(p)[h].names =
         IF h = h0 THEN Merged(proc[p].seen[h].names, proc[p].found)
         ELSE proc[p].seen[h].names
  BY <1>6, <1>7
<1>10. QED
  BY <1>3, <1>8, <1>9

-----------------------------------------------------------------------------
LEMMA CacheInvAtFirst == Init => CacheInv
<1>1. SUFFICES ASSUME Init PROVE CacheInv
  OBVIOUS
<1>2. Types
  BY <1>1, IdleIsTyped, NoneKnown, CacheAssumption
  DEF Init, Types, FileType, ProcType, LearnedType, BoundType
<1>3. \A p \in Processes : proc[p] = Idle
  BY <1>1 DEF Init
<1>4. Idle.host = Nothing /\ Idle.stage = "idle" /\ Idle.seen = NoDocument
  BY DEF Idle
<1>5. \A p \in Processes : Honest(proc[p])
  BY <1>3, <1>4, NoneKnown, CacheAssumption DEF Honest, AtWork, Real
<1>6. FileIsReal /\ SeenIsCurrent
  BY <1>1, <1>3, <1>4 DEF Init, FileIsReal, SeenIsCurrent
<1>7. NothingLostAlone
  BY <1>1, NoneKnown DEF Init, NothingLostAlone
<1>8. QED
  BY <1>2, <1>5, <1>6, <1>7 DEF CacheInv

\* A step of one process that leaves the file alone: what the process carries
\* stays real, and a document it means to replace is the one it has read.
Quiet(p) ==
  /\ UNCHANGED <<file, damage, learned, alone>>
  /\ tasks' \in 0..MaxTasks
  /\ \E q \in Process :
       /\ proc' = [proc EXCEPT ![p] = q]
       /\ Honest(q)
       /\ q.stage \in {"writing", "renaming"} =>
            \/ q.seen = Read
            \/ proc[p].stage \in {"writing", "renaming"} /\ q.seen = proc[p].seen

LEMMA QuietKeeps ==
  ASSUME CacheInv, NEW p \in Processes, Quiet(p)
  PROVE  CacheInv'
<1>1. PICK q \in Process :
       /\ proc' = [proc EXCEPT ![p] = q]
       /\ Honest(q)
       /\ q.stage \in {"writing", "renaming"} =>
            \/ q.seen = Read
            \/ proc[p].stage \in {"writing", "renaming"} /\ q.seen = proc[p].seen
  BY DEF Quiet
<1>2. UNCHANGED <<file, damage, learned, alone>> /\ tasks' \in 0..MaxTasks
  BY DEF Quiet
<1>3. /\ proc' \in [Processes -> Process]
      /\ \A r \in Processes : proc'[r] = IF r = p THEN q ELSE proc[r]
  BY <1>1 DEF CacheInv, Types, ProcType
<1>4. Types'
  BY <1>2, <1>3 DEF CacheInv, Types, FileType, ProcType, LearnedType, BoundType
<1>5. \A r \in Processes : Honest(proc'[r])
  BY <1>1, <1>3 DEF CacheInv
<1>6. \A r \in Processes : Honest(proc[r])' <=> Honest(proc'[r])
  BY DEF Honest, AtWork, Real
<1>7. Read' = Read
  BY <1>2 DEF Read
<1>8. SeenIsCurrent'
  BY <1>1, <1>2, <1>3, <1>7 DEF CacheInv, SeenIsCurrent
<1>9. FileIsReal' /\ NothingLostAlone'
  BY <1>2 DEF CacheInv, FileIsReal, Real, NothingLostAlone
<1>10. QED
  BY <1>4, <1>5, <1>6, <1>8, <1>9 DEF CacheInv

-----------------------------------------------------------------------------
(* The quiet actions. *)

LEMMA ReadIsReal ==
  ASSUME CacheInv
  PROVE  Read \in Document /\ \A h \in Hosts : Real(Read[h].names, h)
<1>1. Read \in Document
  BY ReadIsTyped DEF CacheInv, Types
<1>2. CASE file = Damaged
  BY <1>1, <1>2, NoneKnown DEF Read, Real
<1>3. CASE file # Damaged
  BY <1>1, <1>3 DEF Read, FileIsReal, CacheInv
<1>4. QED
  BY <1>1, <1>2, <1>3

LEMMA BeginIsQuiet ==
  ASSUME CacheInv, NEW p \in Processes, NEW h \in Hosts, Begin(p, h)
  PROVE  UNCHANGED <<file, damage, learned, alone>> /\ tasks' \in 0..MaxTasks
BY CacheAssumption DEF Begin, CacheInv, Types, BoundType

LEMMA FillIsQuiet ==
  ASSUME CacheInv, NEW p \in Processes, FillFromTorrents(p) \/ FillFromReport(p)
  PROVE  Quiet(p)
<1>1. PICK h \in Hosts, f \in Known :
        /\ Real(f, h)
        /\ proc' = [proc EXCEPT ![p] =
               [Idle EXCEPT !.stage = "updating", !.host = h, !.found = f]]
  <2>1. CASE FillFromTorrents(p)
    <3>1. PICK h \in Hosts, cs \in SUBSET Names, ts \in SUBSET Names :
            /\ cs \subseteq Live[h]["categories"] /\ ts \subseteq Live[h]["tags"]
            /\ proc' = [proc EXCEPT ![p] = [Idle EXCEPT
                   !.stage = "updating", !.host = h,
                   !.found = [NoNames EXCEPT !["categories"] = cs, !["tags"] = ts]]]
      BY <2>1 DEF FillFromTorrents
    <3>2. [NoNames EXCEPT !["categories"] = cs, !["tags"] = ts] \in Known
      BY NoneKnown DEF Known
    <3>3. Real([NoNames EXCEPT !["categories"] = cs, !["tags"] = ts], h)
      BY <3>1, NoneKnown DEF Real, NoNames, Vocabularies
    <3>4. QED
      BY <3>1, <3>2, <3>3
  <2>2. CASE FillFromReport(p)
    <3>1. PICK h \in Hosts, ns \in SUBSET Names :
            /\ ns \subseteq Live[h]["tracker_hosts"]
            /\ proc' = [proc EXCEPT ![p] = [Idle EXCEPT
                   !.stage = "updating", !.host = h, !.found = FoundInReport(ns)]]
      BY <2>2 DEF FillFromReport
    <3>2. FoundInReport(ns) \in Known
      BY NoneKnown DEF Known, FoundInReport
    <3>3. Real(FoundInReport(ns), h)
      BY <3>1, NoneKnown DEF Real, NoNames, Vocabularies, FoundInReport
    <3>4. QED
      BY <3>1, <3>2, <3>3
  <2>3. QED
    BY <2>1, <2>2
<1>2. DEFINE q == [Idle EXCEPT !.stage = "updating", !.host = h, !.found = f]
<1>3. /\ q \in Process
      /\ q.stage = "updating" /\ q.host = h /\ q.vocabulary = "categories"
      /\ q.found = f /\ q.answer = {} /\ q.seen = NoDocument
  BY IdleIsTyped DEF Idle, Process, Stages
<1>4. Honest(q)
  BY <1>1, <1>3, NoneKnown DEF Honest, AtWork, Real
<1>5. UNCHANGED <<file, damage, learned, alone>> /\ tasks' \in 0..MaxTasks
  <2>1. \E g \in Hosts : Begin(p, g)
    BY DEF FillFromTorrents, FillFromReport
  <2>2. QED
    BY <2>1, BeginIsQuiet
<1>6. QED
  BY <1>1, <1>3, <1>4, <1>5 DEF Quiet

LEMMA CompleteIsQuiet ==
  ASSUME CacheInv, NEW p \in Processes, Complete(p)
  PROVE  Quiet(p)
<1>1. PICK h \in Hosts, v \in Vocabularies, st \in {"probing", "answered"} :
        proc' = [proc EXCEPT ![p] = [Idle EXCEPT !.stage = st,
                     !.host = h, !.vocabulary = v,
                     !.answer = EntryOf(Read, h).names[v]]]
  BY DEF Complete
<1>2. DEFINE a == EntryOf(Read, h).names[v]
             q == [Idle EXCEPT !.stage = st, !.host = h, !.vocabulary = v,
                               !.answer = a]
<1>3. a \in SUBSET Names /\ a \subseteq Live[h][v]
  BY ReadIsReal DEF EntryOf, Real, Document, Entry, Known
<1>4. /\ q \in Process
      /\ q.stage = st /\ q.host = h /\ q.vocabulary = v
      /\ q.found = NoNames /\ q.answer = a /\ q.seen = NoDocument
  BY <1>3, IdleIsTyped DEF Idle, Process, Stages
<1>5. Honest(q)
  BY <1>3, <1>4, NoneKnown DEF Honest, AtWork, Real
<1>6. UNCHANGED <<file, damage, learned, alone>> /\ tasks' \in 0..MaxTasks
  <2>1. \E g \in Hosts : Begin(p, g)
    BY DEF Complete
  <2>2. QED
    BY <2>1, BeginIsQuiet
<1>7. QED
  BY <1>1, <1>4, <1>5, <1>6 DEF Quiet

\* The probe found everything the instance has, or nothing.
LEMMA ProbeIsQuiet ==
  ASSUME CacheInv, NEW p \in Processes, ProbeAnswers(p) \/ BudgetExpires(p)
  PROVE  Quiet(p)
<1>1. proc[p] \in Process /\ Honest(proc[p]) /\ proc[p].host \in Hosts
  <2>1. proc[p].stage = "probing"
    BY DEF ProbeAnswers, BudgetExpires
  <2>2. QED
    BY <2>1 DEF CacheInv, Types, ProcType, Honest, AtWork
<1>2. DEFINE h == proc[p].host
             v == proc[p].vocabulary
             all == [Live[h] EXCEPT !["tracker_hosts"] = {}]
<1>3. Live[h] \in Known
  BY <1>1, CacheAssumption
<1>4. all \in Known /\ Real(all, h)
  BY <1>1, <1>3 DEF Known, Real
<1>5. PICK f \in {all, NoNames}, b \in BOOLEAN, a \in SUBSET Names :
        /\ a = f[v]
        /\ proc' = [proc EXCEPT ![p].stage = "updating", ![p].found = f,
                                ![p].failed = b, ![p].answer = a]
  BY <1>1, <1>4, NoneKnown DEF ProbeAnswers, BudgetExpires, Update, Known, Process
<1>6. f \in Known /\ Real(f, h)
  BY <1>4, NoneKnown DEF Real
<1>7. DEFINE q == [proc[p] EXCEPT !.stage = "updating", !.found = f,
                                  !.failed = b, !.answer = a]
<1>8. /\ q \in Process
      /\ q.stage = "updating" /\ q.host = h /\ q.vocabulary = v
      /\ q.found = f /\ q.answer = a /\ q.seen = proc[p].seen
  BY <1>1, <1>6 DEF Process, Stages
<1>9. Honest(q)
  BY <1>1, <1>5, <1>6, <1>8 DEF Honest, AtWork, Real, Process
<1>10. proc' = [proc EXCEPT ![p] = q]
  BY <1>5 DEF CacheInv, Types, ProcType
<1>11. UNCHANGED <<file, damage, learned, alone, tasks>>
  BY DEF ProbeAnswers, BudgetExpires
<1>12. QED
  BY <1>8, <1>9, <1>10, <1>11 DEF Quiet, CacheInv, Types, BoundType

\* An update that is over answers what it was to answer.
LEMMA AnsweredIsHonest ==
  ASSUME CacheInv, NEW p \in Processes, Answered(p),
         proc[p].stage \in {"writing", "renaming"}
  PROVE  \E q \in Process : /\ proc' = [proc EXCEPT ![p] = q]
                            /\ Honest(q) /\ q.stage = "answered"
<1>1. proc[p] \in Process /\ Honest(proc[p]) /\ proc[p].host \in Hosts
  BY DEF CacheInv, Types, ProcType, Honest, AtWork
<1>2. DEFINE q == [Idle EXCEPT !.stage = "answered", !.host = proc[p].host,
                     !.vocabulary = proc[p].vocabulary, !.answer = proc[p].answer]
<1>3. /\ q \in Process /\ q.stage = "answered" /\ q.host = proc[p].host
      /\ q.vocabulary = proc[p].vocabulary /\ q.answer = proc[p].answer
      /\ q.found = NoNames /\ q.seen = NoDocument
  BY <1>1, IdleIsTyped DEF Idle, Process, Stages
<1>4. Honest(q)
  BY <1>1, <1>3, NoneKnown DEF Honest, AtWork, Real
<1>5. QED
  BY <1>3, <1>4 DEF Answered

LEMMA StepIsQuiet ==
  ASSUME CacheInv, NEW p \in Processes,
         ReadDocument(p) \/ WriteTemporary(p) \/ WriteFails(p)
            \/ Exit(p) \/ Killed(p)
  PROVE  Quiet(p)
<1>1. proc[p] \in Process /\ Honest(proc[p]) /\ ProcType
  BY DEF CacheInv, Types, ProcType
<1>2. UNCHANGED <<file, damage, learned, alone, tasks>>
  BY DEF ReadDocument, WriteTemporary, WriteFails, Exit, Killed
<1>3. CASE ReadDocument(p)
  <2>1. DEFINE q == [proc[p] EXCEPT !.stage = "writing", !.seen = Read]
  <2>2. /\ q \in Process /\ q.stage = "writing" /\ q.seen = Read
        /\ q.host = proc[p].host /\ q.vocabulary = proc[p].vocabulary
        /\ q.found = proc[p].found /\ q.answer = proc[p].answer
    BY <1>1, ReadIsReal DEF Process, Stages
  <2>3. proc[p].host \in Hosts
    BY <1>1, <1>3 DEF ReadDocument, Honest, AtWork
  <2>4. Honest(q)
    BY <1>1, <2>2, <2>3, ReadIsReal DEF Honest, AtWork
  <2>5. proc' = [proc EXCEPT ![p] = q]
    BY <1>1, <1>3 DEF ReadDocument, ProcType
  <2>6. QED
    BY <1>2, <2>2, <2>4, <2>5 DEF Quiet, CacheInv, Types, BoundType
<1>4. CASE WriteTemporary(p)
  <2>1. DEFINE q == [proc[p] EXCEPT !.stage = "renaming"]
  <2>2. /\ q \in Process /\ q.stage = "renaming" /\ q.seen = proc[p].seen
        /\ q.host = proc[p].host /\ q.vocabulary = proc[p].vocabulary
        /\ q.found = proc[p].found /\ q.answer = proc[p].answer
    BY <1>1 DEF Process, Stages
  <2>3. proc[p].host \in Hosts /\ proc[p].stage = "writing"
    BY <1>1, <1>4 DEF WriteTemporary, Honest, AtWork
  <2>4. Honest(q)
    BY <1>1, <2>2, <2>3 DEF Honest, AtWork
  <2>5. proc' = [proc EXCEPT ![p] = q]
    BY <1>1, <1>4 DEF WriteTemporary, ProcType
  <2>6. QED
    BY <1>2, <2>2, <2>3, <2>4, <2>5 DEF Quiet, CacheInv, Types, BoundType
<1>5. CASE WriteFails(p)
  <2>1. \E q \in Process : /\ proc' = [proc EXCEPT ![p] = q]
                           /\ Honest(q) /\ q.stage = "answered"
    BY <1>5, AnsweredIsHonest DEF WriteFails
  <2>2. QED
    BY <1>2, <2>1 DEF Quiet, CacheInv, Types, BoundType
<1>6. CASE Exit(p) \/ Killed(p)
  <2>1. proc' = [proc EXCEPT ![p] = Idle]
    BY <1>6 DEF Exit, Killed
  <2>2. Honest(Idle) /\ Idle.stage = "idle"
    BY NoneKnown, CacheAssumption DEF Idle, Honest, AtWork, Real
  <2>3. QED
    BY <1>2, <2>1, <2>2, IdleIsTyped DEF Quiet, CacheInv, Types, BoundType
<1>7. QED
  BY <1>3, <1>4, <1>5, <1>6

-----------------------------------------------------------------------------
(* The two actions that change the file. *)

LEMMA RenameKeeps ==
  ASSUME CacheInv, NEW p \in Processes, Rename(p)
  PROVE  CacheInv'
<1>1. /\ proc[p] \in Process /\ Honest(proc[p]) /\ proc[p].host \in Hosts
      /\ proc[p].stage = "renaming"
  BY DEF CacheInv, Types, ProcType, Rename, Honest, AtWork
<1>2. /\ file' = Updated(p) /\ UNCHANGED <<tasks, damage>>
      /\ learned' = [learned EXCEPT ![proc[p].host] = Union(@, proc[p].found)]
      /\ alone' = (alone /\ ~Overtaken(p))
      /\ Answered(p)
  BY DEF Rename
<1>3. DEFINE h0 == proc[p].host
<1>4. /\ Updated(p) \in Document /\ Updated(p) # Damaged
      /\ \A h \in Hosts, v \in Vocabularies :
            Updated(p)[h].names[v] =
              IF h = h0 THEN proc[p].seen[h].names[v] \cup proc[p].found[v]
              ELSE proc[p].seen[h].names[v]
  BY <1>1, UpdatedIsTyped, CacheAssumption DEF CacheInv
<1>5. PICK q \in Process :
        /\ proc' = [proc EXCEPT ![p] = q]
        /\ Honest(q) /\ q.stage = "answered"
  BY <1>1, <1>2, AnsweredIsHonest
<1>6. /\ proc' \in [Processes -> Process]
      /\ \A r \in Processes : proc'[r] = IF r = p THEN q ELSE proc[r]
  BY <1>5 DEF CacheInv, Types, ProcType
<1>7. /\ learned' \in [Hosts -> Known]
      /\ \A h \in Hosts, v \in Vocabularies :
            learned'[h][v] = IF h = h0 THEN learned[h][v] \cup proc[p].found[v]
                             ELSE learned[h][v]
  <2>1. learned \in [Hosts -> Known] /\ proc[p].found \in Known
    BY <1>1 DEF CacheInv, Types, LearnedType, Process
  <2>2. /\ Union(learned[h0], proc[p].found) \in Known
        /\ \A v \in Vocabularies :
              Union(learned[h0], proc[p].found)[v] = learned[h0][v] \cup proc[p].found[v]
    BY <1>1, <2>1 DEF Union, Known
  <2>3. \A h \in Hosts : learned'[h] = IF h = h0 THEN Union(learned[h0], proc[p].found)
                                        ELSE learned[h]
    BY <1>1, <1>2, <2>1
  <2>4. QED
    BY <1>1, <1>2, <2>1, <2>2, <2>3
<1>8. Types'
  BY <1>2, <1>4, <1>6, <1>7
  DEF CacheInv, Types, FileType, ProcType, LearnedType, BoundType
<1>9. \A r \in Processes : Honest(proc[r])'
  BY <1>5, <1>6 DEF CacheInv, Honest, AtWork, Real
<1>10. FileIsReal'
  <2>1. \A h \in Hosts, v \in Vocabularies : Updated(p)[h].names[v] \subseteq Live[h][v]
    <3>1. \A h \in Hosts, v \in Vocabularies :
            proc[p].seen[h].names[v] \subseteq Live[h][v]
      BY <1>1 DEF Honest, Real
    <3>2. \A v \in Vocabularies : proc[p].found[v] \subseteq Live[h0][v]
      BY <1>1 DEF Honest, Real
    <3>3. SUFFICES ASSUME NEW h \in Hosts, NEW v \in Vocabularies
                   PROVE  Updated(p)[h].names[v] \subseteq Live[h][v]
      OBVIOUS
    <3>4. CASE h = h0
      <4>1. Updated(p)[h].names[v] = proc[p].seen[h].names[v] \cup proc[p].found[v]
        BY <1>4, <3>4
      <4>2. proc[p].found[v] \subseteq Live[h][v]
        BY <3>2, <3>4
      <4>3. QED
        BY <3>1, <4>1, <4>2
    <3>5. CASE h # h0
      BY <1>4, <3>1, <3>5
    <3>6. QED
      BY <3>4, <3>5
  <2>2. QED
    BY <1>2, <2>1 DEF FileIsReal, Real
<1>11. SeenIsCurrent'
  <2>1. SUFFICES ASSUME alone', NEW r \in Processes,
                        proc'[r].stage \in {"writing", "renaming"}
                 PROVE  FALSE
    BY DEF SeenIsCurrent
  <2>2. r # p /\ proc[r].stage \in {"writing", "renaming"}
    BY <1>5, <1>6, <2>1
  <2>3. QED
    BY <1>2, <2>1, <2>2 DEF Overtaken
<1>12. NothingLostAlone'
  <2>1. SUFFICES ASSUME alone', damage' = 0, NEW h \in Hosts, NEW v \in Vocabularies
                 PROVE  learned'[h][v] \subseteq file'[h].names[v]
    BY <1>2, <1>4 DEF NothingLostAlone
  <2>2. alone /\ damage = 0
    BY <1>2, <2>1
  <2>3. proc[p].seen = Read
    BY <1>1, <2>2 DEF CacheInv, SeenIsCurrent
  <2>4. learned[h][v] \subseteq Read[h].names[v]
    BY <2>2 DEF CacheInv, NothingLostAlone, Read
  <2>5. file'[h].names[v] = Updated(p)[h].names[v]
    BY <1>2
  <2>6. CASE h = h0
    <3>1. learned'[h][v] = learned[h][v] \cup proc[p].found[v]
      BY <1>7, <2>6
    <3>2. Updated(p)[h].names[v] = Read[h].names[v] \cup proc[p].found[v]
      BY <1>4, <2>3, <2>6
    <3>3. QED
      BY <2>4, <2>5, <3>1, <3>2
  <2>7. CASE h # h0
    <3>1. learned'[h][v] = learned[h][v]
      BY <1>7, <2>7
    <3>2. Updated(p)[h].names[v] = Read[h].names[v]
      BY <1>4, <2>3, <2>7
    <3>3. QED
      BY <2>4, <2>5, <3>1, <3>2
  <2>8. QED
    BY <2>6, <2>7
<1>13. QED
  BY <1>8, <1>9, <1>10, <1>11, <1>12 DEF CacheInv

LEMMA DamageKeeps ==
  ASSUME CacheInv, Damage
  PROVE  CacheInv'
<1>1. /\ file' = Damaged /\ damage' \in 0..MaxDamage /\ damage' # 0
      /\ UNCHANGED <<proc, tasks, learned, alone>>
  BY CacheAssumption DEF Damage, CacheInv, Types, BoundType
<1>2. Types'
  BY <1>1 DEF CacheInv, Types, FileType, ProcType, LearnedType, BoundType
<1>3. \A r \in Processes : Honest(proc[r])'
  BY <1>1 DEF CacheInv, Honest, AtWork, Real
<1>4. QED
  BY <1>1, <1>2, <1>3 DEF CacheInv, FileIsReal, SeenIsCurrent, NothingLostAlone

-----------------------------------------------------------------------------
LEMMA CacheInvariant == Spec => []CacheInv
<1>1. CacheInv /\ [Next]_vars => CacheInv'
  <2>1. SUFFICES ASSUME CacheInv, [Next]_vars
                 PROVE  CacheInv'
    OBVIOUS
  <2>2. CASE Damage
    BY <2>1, <2>2, DamageKeeps
  <2>3. CASE UNCHANGED vars
    BY <2>1, <2>3
    DEF vars, CacheInv, Types, FileType, ProcType, LearnedType, BoundType,
        FileIsReal, SeenIsCurrent, NothingLostAlone, Honest, AtWork, Real, Read
  <2>4. CASE \E p \in Processes :
               \/ FillFromTorrents(p) \/ FillFromReport(p) \/ Complete(p)
               \/ ProbeAnswers(p) \/ BudgetExpires(p) \/ Step(p) \/ Killed(p)
    BY <2>1, <2>4, QuietKeeps, FillIsQuiet, CompleteIsQuiet, ProbeIsQuiet,
       StepIsQuiet, RenameKeeps DEF Step
  <2>5. QED
    BY <2>1, <2>2, <2>3, <2>4 DEF Next
<1>2. QED
  BY <1>1, CacheInvAtFirst, PTL DEF Spec

\* What the cache file and every process hold is well typed, however updates
\* of it interleave.
THEOREM CacheTypeCorrect == Spec => []TypeOK
<1>1. CacheInv => TypeOK
  BY DEF CacheInv, Types, FileType, ProcType, LearnedType, BoundType, TypeOK,
         Process, Stages
<1>2. QED
  BY <1>1, CacheInvariant, PTL

\* Neither the file nor a completion ever holds a name its instance does not
\* have (completion_cache.py, completion_live.py).
THEOREM NothingIsInvented == Spec => []NamesAreReal
<1>1. CacheInv => NamesAreReal
  BY DEF CacheInv, NamesAreReal, Honest, AtWork, FileIsReal, Real
<1>2. QED
  BY <1>1, CacheInvariant, PTL

\* Updates that do not overlap lose nothing that was learned
\* (completion_cache.py, _merged and os.replace).
THEOREM NothingIsLostAlone == Spec => []NothingLostAlone
<1>1. CacheInv => NothingLostAlone
  BY DEF CacheInv
<1>2. QED
  BY <1>1, CacheInvariant, PTL
=============================================================================
