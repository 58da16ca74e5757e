------------------------------ MODULE ReadProofs ------------------------------
(***************************************************************************)
(* What a script or an MCP client may rely on, for any library, filters,   *)
(* changes of the library, outages and lost sessions.                      *)
(*                                                                         *)
(*   RetryInv   one retry is enough for the calls that share a client      *)
(*   InOrder    what a command has got, and what it has yet to ask for     *)
(*   Covered    what it has read is of libraries there were, and nothing   *)
(*              that it was to read is passed over                         *)
(*   Exported   both readings of a backup of a library that stood still    *)
(*   ReadInv    these three, for a command under way                       *)
(*                                                                         *)
(* ReadInv is inductive given the types, which need it in turn.  What is   *)
(* reported and the exit code are decided in Finish, from what ReadInv     *)
(* says of the state there.                                                *)
(***************************************************************************)
EXTENDS ReadCommands, FiniteSetTheorems, SequenceTheorems, WellFoundedInduction,
        TLAPS

-----------------------------------------------------------------------------
(* Calls that share a client. *)

Phases == {"idle", "getting", "running", "failing", "regetting", "rerunning",
           "answered", "refused", "raised"}

\* An outage troubles every call that meets it.
UntroubledIsServed == \A c \in Ongoing : c \in troubled \/ up

\* Once a call has dropped the client, whatever another call caches before it
\* gets one again is a login of the session there is.
NothingOldIsCached ==
  \A c \in Calls : phase[c] = "regetting" =>
      c \in troubled \/ cached \in {None, session}

RetryHasALiveClient ==
  \A c \in Calls : phase[c] = "rerunning" => c \in troubled \/ client[c] = session

SharedType ==
  /\ phase \in [Calls -> Phases] /\ client \in [Calls -> Nat \cup {None}]
  /\ session \in Nat /\ cached \in Nat \cup {None}

RetryInv ==
  /\ SharedType /\ UntroubledIsServed /\ NothingOldIsCached
  /\ RetryHasALiveClient /\ RetryIsEnough

LEMMA RetryHoldsAtFirst == SessionsInit => RetryInv
BY SessionAssumption
DEF SessionsInit, RetryInv, SharedType, Phases, UntroubledIsServed,
    NothingOldIsCached, RetryHasALiveClient, RetryIsEnough, Ongoing

\* What happens to qBittorrent troubles every call under way.
LEMMA TroubleKeepsRetry ==
  ASSUME RetryInv, Instance
  PROVE  RetryInv'
<1>1. CASE GoDown \/ LoseSessions
  <2>1. /\ UNCHANGED <<phase, client, cached>>
        /\ troubled' = troubled \cup Ongoing
        /\ session' = session + 1
    BY <1>1 DEF GoDown, LoseSessions, Trouble
  <2>2. Ongoing' = Ongoing
    BY <2>1 DEF Ongoing
  <2>3. SharedType'
    BY <2>1 DEF RetryInv, SharedType
  <2>4. \A c \in Ongoing : c \in troubled'
    BY <2>1
  <2>5. NothingOldIsCached' /\ RetryHasALiveClient'
    BY <2>1, <2>4 DEF NothingOldIsCached, RetryHasALiveClient, Ongoing
  <2>6. RetryIsEnough'
    BY <2>1 DEF RetryInv, RetryIsEnough
  <2>7. QED
    BY <2>2, <2>3, <2>4, <2>5, <2>6 DEF RetryInv, UntroubledIsServed
<1>2. CASE ComeBack
  <2>1. UNCHANGED <<phase, client, troubled, cached, session>> /\ up'
    BY <1>2 DEF ComeBack, served
  <2>2. QED
    BY <2>1 DEF RetryInv, SharedType, UntroubledIsServed, NothingOldIsCached,
                RetryHasALiveClient, RetryIsEnough
<1>3. QED
  BY <1>1, <1>2 DEF Instance

\* A call that begins while qBittorrent is down is troubled from the start.
LEMMA CallKeepsRetry ==
  ASSUME RetryInv, NEW c \in Calls, Call(c)
  PROVE  RetryInv'
<1>1. /\ UNCHANGED <<client, cached, session, up>>
      /\ phase' = [phase EXCEPT ![c] = "getting"]
      /\ troubled \subseteq troubled'
      /\ up \/ c \in troubled'
  BY DEF Call, Goes, instance
<1>2. SharedType'
  BY <1>1 DEF RetryInv, SharedType, Phases
<1>3. UntroubledIsServed'
  BY <1>1 DEF RetryInv, SharedType, UntroubledIsServed, Ongoing
<1>4. NothingOldIsCached' /\ RetryHasALiveClient' /\ RetryIsEnough'
  BY <1>1 DEF RetryInv, SharedType, NothingOldIsCached, RetryHasALiveClient,
              RetryIsEnough
<1>5. QED
  BY <1>2, <1>3, <1>4 DEF RetryInv

\* The client a call gets, first or again, is the cached one or a new login.
LEMMA GetKeepsRetry ==
  ASSUME RetryInv, NEW c \in Calls, Get(c) \/ GetAgain(c)
  PROVE  RetryInv'
<1>1. UNCHANGED <<session, up, troubled>>
  BY DEF Get, GetAgain, GetAs, instance
<1>2. \/ /\ cached # None /\ UNCHANGED cached
         /\ client' = [client EXCEPT ![c] = cached]
      \/ /\ cached = None /\ up /\ cached' = session
         /\ client' = [client EXCEPT ![c] = session]
      \/ /\ cached = None /\ ~up /\ UNCHANGED <<cached, client>>
  BY DEF Get, GetAgain, GetAs
<1>3. /\ client' \in [Calls -> Nat \cup {None}]
      /\ cached' \in Nat \cup {None}
      /\ \A d \in Calls \ {c} : client'[d] = client[d]
  BY <1>2 DEF RetryInv, SharedType
<1>4. cached' \in {cached, session}
  BY <1>2
<1>5. CASE Get(c)
  <2>1. PICK to \in {"running", "failing"} : phase' = [phase EXCEPT ![c] = to]
    BY <1>5 DEF Get, GetAs, Goes
  <2>2. phase[c] = "getting"
    BY <1>5 DEF Get, GetAs
  <2>3. UntroubledIsServed'
    BY <1>1, <2>1, <2>2 DEF RetryInv, SharedType, UntroubledIsServed, Ongoing
  <2>4. NothingOldIsCached'
    BY <1>1, <1>4, <2>1 DEF RetryInv, SharedType, NothingOldIsCached
  <2>5. RetryHasALiveClient' /\ RetryIsEnough'
    BY <1>1, <1>3, <2>1 DEF RetryInv, SharedType, RetryHasALiveClient, RetryIsEnough
  <2>6. phase' \in [Calls -> Phases]
    BY <2>1 DEF RetryInv, SharedType, Phases
  <2>7. QED
    BY <1>1, <1>3, <2>3, <2>4, <2>5, <2>6 DEF RetryInv, SharedType
<1>6. CASE GetAgain(c)
  <2>1. PICK to \in {"rerunning", "raised"} : phase' = [phase EXCEPT ![c] = to]
    BY <1>6 DEF GetAgain, GetAs, Goes
  <2>2. phase[c] = "regetting"
    BY <1>6 DEF GetAgain, GetAs
  <2>3. c \in troubled \/ (up /\ cached \in {None, session})
    BY <2>2 DEF RetryInv, UntroubledIsServed, NothingOldIsCached, Ongoing
  <2>4. phase'[c] = "raised" => ~up
    BY <1>6, <2>1 DEF GetAgain, GetAs, Goes, RetryInv, SharedType
  <2>5. UntroubledIsServed'
    BY <1>1, <2>1, <2>2 DEF RetryInv, SharedType, UntroubledIsServed, Ongoing
  <2>6. NothingOldIsCached'
    BY <1>1, <1>4, <2>1 DEF RetryInv, SharedType, NothingOldIsCached
  <2>7. RetryHasALiveClient'
    <3>1. c \in troubled \/ client'[c] = session
      BY <1>2, <2>3 DEF RetryInv, SharedType
    <3>2. QED
      BY <1>1, <1>3, <2>1, <3>1 DEF RetryInv, SharedType, RetryHasALiveClient
  <2>8. RetryIsEnough'
    BY <1>1, <2>1, <2>3, <2>4 DEF RetryInv, SharedType, RetryIsEnough
  <2>9. phase' \in [Calls -> Phases]
    BY <2>1 DEF RetryInv, SharedType, Phases
  <2>10. QED
    BY <1>1, <1>3, <2>5, <2>6, <2>7, <2>8, <2>9 DEF RetryInv, SharedType
<1>7. QED
  BY <1>5, <1>6

\* A request fails for want of qBittorrent or of the session: the retry's only
\* if it was troubled.
LEMMA AnswerKeepsRetry ==
  ASSUME RetryInv, NEW c \in Calls, Answered(c) \/ Fails(c)
  PROVE  RetryInv'
<1>1. UNCHANGED <<session, up, cached, client, troubled>>
  BY DEF Answered, Fails, instance
<1>2. PICK to \in {"answered", "refused", "failing", "raised"} :
         phase' = [phase EXCEPT ![c] = to]
  BY DEF Answered, Fails, Goes
<1>3. phase[c] \in {"running", "rerunning"}
  BY DEF Answered, Fails
<1>4. c \in troubled \/ phase'[c] # "raised"
  <2>1. SUFFICES ASSUME phase'[c] = "raised"
                 PROVE  c \in troubled
    OBVIOUS
  <2>2. phase[c] = "rerunning" /\ ~Works(client[c])
    BY <2>1, <1>2 DEF Answered, Fails, Goes, RetryInv, SharedType
  <2>3. QED
    BY <2>2 DEF RetryInv, UntroubledIsServed, RetryHasALiveClient, Ongoing, Works
<1>5. UntroubledIsServed'
  BY <1>1, <1>2, <1>3 DEF RetryInv, SharedType, UntroubledIsServed, Ongoing
<1>6. NothingOldIsCached' /\ RetryHasALiveClient'
  BY <1>1, <1>2 DEF RetryInv, SharedType, NothingOldIsCached, RetryHasALiveClient
<1>7. RetryIsEnough'
  BY <1>1, <1>2, <1>4 DEF RetryInv, SharedType, RetryIsEnough
<1>8. SharedType'
  BY <1>1, <1>2 DEF RetryInv, SharedType, Phases
<1>9. QED
  BY <1>5, <1>6, <1>7, <1>8 DEF RetryInv

\* What is dropped may be another call's fresh client: that costs a login.
LEMMA DropKeepsRetry ==
  ASSUME RetryInv, NEW c \in Calls, Drop(c)
  PROVE  RetryInv'
<1>1. /\ UNCHANGED <<session, up, client, troubled>>
      /\ phase[c] = "failing" /\ cached' = None
      /\ phase' = [phase EXCEPT ![c] = "regetting"]
  BY DEF Drop, Goes, instance
<1>2. UntroubledIsServed'
  BY <1>1 DEF RetryInv, SharedType, UntroubledIsServed, Ongoing
<1>3. NothingOldIsCached' /\ RetryHasALiveClient' /\ RetryIsEnough'
  BY <1>1 DEF RetryInv, SharedType, NothingOldIsCached, RetryHasALiveClient,
              RetryIsEnough
<1>4. SharedType'
  BY <1>1 DEF RetryInv, SharedType, Phases
<1>5. QED
  BY <1>2, <1>3, <1>4 DEF RetryInv

LEMMA ForgetKeepsRetry ==
  ASSUME RetryInv, NEW c \in Calls, Forget(c)
  PROVE  RetryInv'
<1>1. /\ UNCHANGED <<session, up, cached>>
      /\ phase' = [phase EXCEPT ![c] = "idle"]
      /\ client' = [client EXCEPT ![c] = None]
      /\ troubled' = troubled \ {c}
  BY DEF Forget, Goes, instance
<1>2. \A d \in Calls \ {c} :
        /\ phase'[d] = phase[d] /\ client'[d] = client[d]
        /\ (d \in troubled') <=> (d \in troubled)
  BY <1>1 DEF RetryInv, SharedType
<1>3. phase'[c] = "idle"
  BY <1>1 DEF RetryInv, SharedType
<1>4. UntroubledIsServed'
  BY <1>1, <1>2, <1>3 DEF RetryInv, UntroubledIsServed, Ongoing
<1>5. NothingOldIsCached' /\ RetryHasALiveClient' /\ RetryIsEnough'
  BY <1>1, <1>2, <1>3 DEF RetryInv, NothingOldIsCached, RetryHasALiveClient,
                          RetryIsEnough
<1>6. SharedType'
  BY <1>1 DEF RetryInv, SharedType, Phases
<1>7. QED
  BY <1>4, <1>5, <1>6 DEF RetryInv

\* The watch has a client of its own.
LEMMA WatchKeepsRetry ==
  ASSUME RetryInv, UNCHANGED <<instance, served>>
  PROVE  RetryInv'
BY DEF RetryInv, SharedType, UntroubledIsServed, NothingOldIsCached,
       RetryHasALiveClient, RetryIsEnough, Ongoing, instance, served

(***************************************************************************)
(* A call fails only on an outage or a lost session it met itself          *)
(* (mcp/server.py, _call): not on a client that died before it, nor on     *)
(* what other calls do to the client they share.                           *)
(***************************************************************************)
THEOREM OneRetryIsEnough == SessionsSpec => []RetryIsEnough
<1>1. SessionsInit => RetryInv
  BY RetryHoldsAtFirst
<1>2. RetryInv /\ [SessionsNext]_sessions => RetryInv'
  <2>1. SUFFICES ASSUME RetryInv, [SessionsNext]_sessions
                 PROVE  RetryInv'
    OBVIOUS
  <2>2. CASE Instance
    BY <2>1, <2>2, TroubleKeepsRetry
  <2>3. CASE Served
    <3>1. PICK c \in Calls : Call(c) \/ Tool(c) \/ Forget(c)
      BY <2>3 DEF Served
    <3>2. CASE Tool(c)
      BY <2>1, <3>2, GetKeepsRetry, AnswerKeepsRetry, DropKeepsRetry DEF Tool
    <3>3. QED
      BY <2>1, <3>1, <3>2, CallKeepsRetry, ForgetKeepsRetry
  <2>4. CASE Watched \/ UNCHANGED sessions
    <3>1. UNCHANGED <<instance, served>>
      BY <2>4 DEF Watched, WatchStarts, WatchConnects, WatchCollects, WatchStops,
                  sessions
    <3>2. QED
      BY <2>1, <3>1, WatchKeepsRetry
  <2>5. QED
    BY <2>1, <2>2, <2>3, <2>4 DEF SessionsNext
<1>3. RetryInv => RetryIsEnough
  BY DEF RetryInv
<1>4. QED
  BY <1>1, <1>2, <1>3, PTL DEF SessionsSpec

-----------------------------------------------------------------------------
\* The commands go about beside the calls and the watch.
LEMMA CommandsLeaveSessions ==
  ASSUME Commands \/ Reads \/ Change
  PROVE  UNCHANGED sessions
<1>1. CASE Commands
  BY <1>1 DEF Commands, Submit, List, Stats, Search, InspectFiltered, InspectHash,
     CategoryUsage, Status, Doctor, TrackersList, TrackersStatus, TrackersInspect,
     TrackersExport, ExplainTorrent, ExplainTracker, BackupExport, Refuse
<1>2. CASE Reads
  BY <1>2 DEF Reads, Login, ReadListing, ReadInBulk, LookUp, ReadAgain, ReadValue,
     RequestFails, LookUpFails, Finish
<1>3. CASE Change
  BY <1>3 DEF Change
<1>4. QED
  BY <1>1, <1>2, <1>3

\* Whatever commands run beside them, the surfaces that keep a client behave as
\* ClientSessions says.
THEOREM SessionsAreKept == Spec => SessionsSpec
<1>1. Init => SessionsInit
  BY DEF Init, InitOn
<1>2. [Next]_vars => [SessionsNext]_sessions
  <2>1. SUFFICES ASSUME [Next]_vars
                 PROVE  [SessionsNext]_sessions
    OBVIOUS
  <2>2. CASE Commands \/ Reads \/ Change
    BY <2>2, CommandsLeaveSessions
  <2>3. CASE Instance \/ Served \/ Watched
    BY <2>3 DEF SessionsNext
  <2>4. CASE UNCHANGED vars
    BY <2>4 DEF vars
  <2>5. QED
    BY <2>1, <2>2, <2>3, <2>4 DEF Next
<1>3. QED
  BY <1>1, <1>2, PTL DEF Spec, SessionsSpec

\* The same of the whole: no MCP call fails on a client that died before it.
THEOREM RetryIsEnoughBesideCommands == Spec => []RetryIsEnough
BY SessionsAreKept, OneRetryIsEnough, PTL

-----------------------------------------------------------------------------
(* The options of a command. *)

\* The options a command may be given
Given(c) ==
    /\ c.request.hash # NoHash => c.op \in {"stats", "inspect_hash", "explain_torrent"}
    /\ c.op = "search" => ~NeedsInspection(c.request.filters)
    /\ c.op = "trackers_status" => c.request.filters.tracker_health = {}
    /\ c.op \in {"doctor", "backup"} => c.request.filters = EmptyFilter

LEMMA CmdForms ==
  ASSUME NEW op \in Operations
  PROVE  /\ Cmd(op) \in Command /\ Cmd(op).op = op
         /\ Cmd(op).request.hash = NoHash /\ Cmd(op).request.filters = EmptyFilter
BY DEF Cmd, Command, Request, NoHash

LEMMA FilterForms ==
  ASSUME NEW op \in Operations, NEW f \in Filters
  PROVE  /\ ByFilter(op, f) \in Command /\ ByFilter(op, f).op = op
         /\ ByFilter(op, f).request.hash = NoHash
         /\ ByFilter(op, f).request.filters = f
BY DEF Cmd, Command, Request, NoHash, ByFilter

LEMMA HashForms ==
  ASSUME NEW op \in Operations, NEW p \in HashPrefixes
  PROVE  /\ ByHash(op, p) \in Command /\ ByHash(op, p).op = op
         /\ ByHash(op, p).request.filters = EmptyFilter
BY DEF Cmd, Command, Request, NoHash, ByHash

LEMMA TrackerForms ==
  ASSUME NEW op \in Operations, NEW h \in Hosts
  PROVE  /\ OnTracker(op, h) \in Command /\ OnTracker(op, h).op = op
         /\ OnTracker(op, h).request.hash = NoHash
BY DEF Cmd, Command, Request, NoHash, OnTracker

LEMMA CommandsGiven ==
  ASSUME Commands
  PROVE  Refuse \/ \E c \in Command : Given(c) /\ Submit(c)
<1> USE DEF Given, Operations
<1>1. CASE List \/ TrackersList \/ TrackersStatus \/ InspectFiltered
  BY <1>1, FilterForms DEF List, TrackersList, TrackersStatus, InspectFiltered
<1>2. CASE Search
  <2>1. PICK f \in Filters, q \in Queries :
           ~NeedsInspection(f) /\ Submit([ByFilter("search", f) EXCEPT !.query = q])
    BY <1>2 DEF Search
  <2>2. DEFINE c == [ByFilter("search", f) EXCEPT !.query = q]
  <2>3. /\ c \in Command /\ c.op = "search"
        /\ c.request.hash = NoHash /\ c.request.filters = f
    BY DEF Cmd, Command, Request, NoHash, ByFilter
  <2>4. QED
    BY <2>1, <2>3
<1>3. CASE Stats
  <2>1. CASE Submit([Cmd("stats") EXCEPT !.request.all = TRUE])
    <3>1. DEFINE c == [Cmd("stats") EXCEPT !.request.all = TRUE]
    <3>2. c \in Command /\ c.op = "stats"
      BY DEF Cmd, Command, Request, NoHash
    <3>3. QED
      BY <2>1, <3>2
  <2>2. QED
    BY <1>3, <2>1, FilterForms, HashForms DEF Stats
<1>4. CASE InspectHash \/ ExplainTorrent
  BY <1>4, HashForms DEF InspectHash, ExplainTorrent
<1>5. CASE TrackersInspect \/ ExplainTracker
  BY <1>5, TrackerForms DEF TrackersInspect, ExplainTracker
<1>6. CASE CategoryUsage \/ Status \/ TrackersExport \/ BackupExport
  BY <1>6, CmdForms DEF CategoryUsage, Status, TrackersExport, BackupExport
<1>7. CASE Doctor
  <2>1. PICK h \in Configs : Submit([Cmd("doctor") EXCEPT !.host = h])
    BY <1>7 DEF Doctor
  <2>2. DEFINE c == [Cmd("doctor") EXCEPT !.host = h]
  <2>3. /\ c \in Command /\ c.op = "doctor"
        /\ c.request.hash = NoHash /\ c.request.filters = EmptyFilter
    BY DEF Cmd, Command, Request, NoHash
  <2>4. QED
    BY <2>1, <2>3
<1>8. QED
  BY <1>1, <1>2, <1>3, <1>4, <1>5, <1>6, <1>7 DEF Commands

\* What is refused is a command, and exits with 1 or with the usage code.
LEMMA RefusedForms ==
  ASSUME Refuse
  PROVE  /\ pc = "idle" /\ pc' = "done" /\ cmd' \in Command
         /\ exit' \in {Error, InvalidUsage}
         /\ exit' = InvalidUsage => Rejected(cmd'.request.filters)
         /\ cmd'.op \notin {"doctor", "status", "backup"}
         /\ UNCHANGED <<sessions, mine, requests, lookups, got, reading, answer, world>>
<1>1. /\ cmd' \in Command
      /\ cmd'.op \in {"list", "stats", "trackers_status", "search", "inspect_filtered"}
      /\ (cmd'.op = "trackers_status" => Rejected(cmd'.request.filters))
  <2>1. CASE \E f \in Filters, op \in {"list", "stats", "trackers_status"} :
              Rejected(f) /\ cmd' = ByFilter(op, f)
    BY <2>1, FilterForms DEF Operations
  <2>2. CASE \E f \in Filters : NeedsInspection(f) /\ cmd' = ByFilter("search", f)
    BY <2>2, FilterForms DEF Operations
  <2>3. CASE cmd' = Cmd("inspect_filtered")
    BY <2>3, CmdForms DEF Operations
  <2>4. CASE \E f \in Filters, p \in HashPrefixes :
              cmd' = [Cmd("stats") EXCEPT !.request = Request(p, FALSE, f)]
    <3>1. PICK f \in Filters, p \in HashPrefixes :
             cmd' = [Cmd("stats") EXCEPT !.request = Request(p, FALSE, f)]
      BY <2>4
    <3>2. Cmd("stats") \in Command /\ Cmd("stats").op = "stats"
      BY CmdForms DEF Operations
    <3>3. Request(p, FALSE, f) \in
             [hash : HashPrefixes \cup {NoHash}, all : BOOLEAN,
              filters : Filters \cup {EmptyFilter} \cup {Only(h) : h \in Hosts}]
      BY DEF Request
    <3>4. cmd' \in Command /\ cmd'.op = "stats"
      BY <3>1, <3>2, <3>3 DEF Command
    <3>5. QED
      BY <3>4
  <2>5. QED
    BY <2>1, <2>2, <2>3, <2>4 DEF Refuse
<1>2. exit' = IF cmd'.op = "trackers_status" THEN InvalidUsage ELSE Error
  BY DEF Refuse
<1>3. QED
  BY <1>1, <1>2 DEF Refuse, Error, InvalidUsage

-----------------------------------------------------------------------------
(* The queue of requests. *)

Kinds == {"login", "version", "api", "transfer", "counters", "listing", "bulk",
          "listing_again"}

Asks(r, what) == \E i \in 1..Len(r) : r[i] = what

\* The order of requests: none is made twice, the listing comes last but for
\* doctor and backup, and the bulk request at once when there is one.
Queue(r, c) ==
    /\ r \in Seq(Kinds)
    /\ \A i, j \in 1..Len(r) : r[i] = r[j] => i = j
    /\ \A i \in 1..Len(r) :
         /\ r[i] = "login" => i = 1
         /\ r[i] = "bulk" => i = 1 /\ InBulk(c)
         /\ r[i] = "listing" => i = Len(r) \/ c.op \in {"doctor", "backup"}
         /\ r[i] = "listing_again" => c.op = "backup" /\ i = Len(r)
    /\ c.op = "status" => r = << >> \/ r[Len(r)] = "listing"

LEMMA NextIndex ==
  ASSUME NEW n \in Nat, NEW i \in Nat, i >= 1, i <= n - 1
  PROVE  i + 1 \in 1..n /\ 1 \in 1..n /\ i + 1 # 1 /\ (i + 1 = n => i = n - 1)
OBVIOUS

LEMMA QueueTail ==
  ASSUME NEW r, NEW c, Queue(r, c), r # << >>
  PROVE  /\ Queue(Tail(r), c) /\ Head(r) = r[1] /\ Head(r) \in Kinds
         /\ Asks(r, Head(r)) /\ ~Asks(Tail(r), Head(r))
         /\ ~Asks(Tail(r), "login") /\ ~Asks(Tail(r), "bulk")
         /\ \A x : Asks(Tail(r), x) => Asks(r, x)
         /\ \A x : Asks(r, x) => x = Head(r) \/ Asks(Tail(r), x)
<1>1. /\ r \in Seq(Kinds) /\ Len(r) \in Nat /\ Len(r) > 0 /\ Head(r) = r[1]
      /\ Tail(r) \in Seq(Kinds) /\ Len(Tail(r)) = Len(r) - 1
      /\ \A i \in 1..Len(Tail(r)) : Tail(r)[i] = r[i + 1]
  <2>1. r \in Seq(Kinds)
    BY DEF Queue
  <2>2. Len(r) \in Nat /\ Len(r) > 0 /\ Head(r) = r[1]
    BY <2>1, EmptySeq
  <2>3. QED
    BY <2>1, <2>2, HeadTailProperties
<1>2. \A i \in 1..Len(Tail(r)) : i + 1 \in 1..Len(r) /\ 1 \in 1..Len(r)
  BY <1>1
<1>3. \A i, j \in 1..Len(Tail(r)) : Tail(r)[i] = Tail(r)[j] => i = j
  <2>1. SUFFICES ASSUME NEW i \in 1..Len(Tail(r)), NEW j \in 1..Len(Tail(r)),
                        Tail(r)[i] = Tail(r)[j]
                 PROVE  i = j
    OBVIOUS
  <2>2. r[i + 1] = r[j + 1]
    BY <1>1, <2>1
  <2>3. i + 1 = j + 1
    BY <1>2, <2>2 DEF Queue
  <2>4. QED
    BY <2>3
<1>4. ASSUME NEW i \in 1..Len(Tail(r))
      PROVE  /\ Tail(r)[i] \notin {"login", "bulk"} /\ Tail(r)[i] # Head(r)
             /\ Tail(r)[i] = "listing" => i = Len(Tail(r)) \/ c.op \in {"doctor", "backup"}
             /\ Tail(r)[i] = "listing_again" => c.op = "backup" /\ i = Len(Tail(r))
  <2>1. /\ i + 1 \in 1..Len(r) /\ 1 \in 1..Len(r) /\ i + 1 # 1
        /\ Tail(r)[i] = r[i + 1] /\ (i + 1 = Len(r) => i = Len(Tail(r)))
    <3>1. i \in Nat /\ i >= 1 /\ i <= Len(r) - 1
      BY <1>1
    <3>2. Len(r) \in Nat /\ Len(Tail(r)) = Len(r) - 1
      BY <1>1
    <3>3. /\ i + 1 \in 1..Len(r) /\ 1 \in 1..Len(r) /\ i + 1 # 1
          /\ i + 1 = Len(r) => i = Len(r) - 1
      BY <3>1, <3>2, NextIndex
    <3>4. QED
      BY <1>1, <3>2, <3>3
  <2>2. r[i + 1] \notin {"login", "bulk"} /\ r[i + 1] # r[1]
    BY <2>1 DEF Queue
  <2>3. /\ r[i + 1] = "listing" => i + 1 = Len(r) \/ c.op \in {"doctor", "backup"}
        /\ r[i + 1] = "listing_again" => c.op = "backup" /\ i + 1 = Len(r)
    BY <2>1 DEF Queue
  <2>4. QED
    BY <1>1, <2>1, <2>2, <2>3
<1>5. c.op = "status" => Tail(r) = << >> \/ Tail(r)[Len(Tail(r))] = "listing"
  <2>1. SUFFICES ASSUME c.op = "status", Tail(r) # << >>
                 PROVE  Tail(r)[Len(Tail(r))] = "listing"
    OBVIOUS
  <2>2. Len(Tail(r)) \in Nat \ {0}
    BY <1>1, <2>1, EmptySeq
  <2>3. Tail(r)[Len(Tail(r))] = r[Len(Tail(r)) + 1] /\ Len(Tail(r)) + 1 = Len(r)
    BY <1>1, <2>2
  <2>4. r[Len(r)] = "listing"
    BY <2>1 DEF Queue
  <2>5. QED
    BY <2>3, <2>4
<1>6. Queue(Tail(r), c)
  BY <1>1, <1>3, <1>4, <1>5 DEF Queue
<1>7. ASSUME NEW x, Asks(Tail(r), x)
      PROVE  Asks(r, x)
  BY <1>1, <1>2, <1>7 DEF Asks
<1>8. ASSUME NEW x, Asks(r, x), x # Head(r)
      PROVE  Asks(Tail(r), x)
  <2>1. PICK i \in 1..Len(r) : r[i] = x
    BY <1>8 DEF Asks
  <2>2. i # 1 /\ i - 1 \in 1..Len(Tail(r))
    BY <1>1, <1>8, <2>1
  <2>3. Tail(r)[i - 1] = x
    <3>1. Tail(r)[i - 1] = r[(i - 1) + 1]
      BY <1>1, <2>2
    <3>2. (i - 1) + 1 = i
      OBVIOUS
    <3>3. QED
      BY <2>1, <3>1, <3>2
  <2>4. QED
    BY <2>2, <2>3 DEF Asks
<1>9. /\ Asks(r, Head(r)) /\ ~Asks(Tail(r), Head(r)) /\ Head(r) \in Kinds
      /\ ~Asks(Tail(r), "login") /\ ~Asks(Tail(r), "bulk")
  <2>1. /\ Asks(r, Head(r)) /\ ~Asks(Tail(r), Head(r))
        /\ ~Asks(Tail(r), "login") /\ ~Asks(Tail(r), "bulk")
    <3>1. Asks(r, Head(r))
      <4>1. 1 \in 1..Len(r)
        BY <1>1
      <4>2. QED
        BY <1>1, <4>1 DEF Asks
    <3>2. QED
      BY <3>1, <1>4 DEF Asks
  <2>2. QED
    BY <1>1, <2>1, HeadTailProperties, EmptySeq
<1>10. QED
  BY <1>1, <1>6, <1>7, <1>8, <1>9

LEMMA QueueStart ==
  ASSUME NEW c \in Command
  PROVE  LET r == RequestsOf(c)
         IN /\ Queue(r, c) /\ Asks(r, "login") /\ Asks(r, "listing") /\ ~Asks(r, "bulk")
            /\ c.op = "backup" => Asks(r, "listing_again")
<1> DEFINE r == RequestsOf(c)
<1>1. CASE c.op = "status"
  <2>1. r = <<"login", "version", "api", "transfer", "listing">>
    BY <1>1 DEF RequestsOf
  <2>2. r \in Seq(Kinds) /\ Len(r) = 5
    BY <2>1 DEF Kinds
  <2>3. /\ r[1] = "login" /\ r[2] = "version" /\ r[3] = "api" /\ r[4] = "transfer"
        /\ r[5] = "listing"
    BY <2>1
  <2> HIDE DEF r
  <2>4. Queue(r, c)
    BY <1>1, <2>2, <2>3 DEF Queue
  <2>5. Asks(r, "login") /\ Asks(r, "listing") /\ ~Asks(r, "bulk")
    BY <2>2, <2>3 DEF Asks
  <2>6. c.op = "backup" => Asks(r, "listing_again")
    BY <1>1, <2>2, <2>3 DEF Asks
  <2>7. QED
    BY <2>4, <2>5, <2>6 DEF r
<1>2. CASE c.op = "doctor"
  <2>1. r = <<"login", "version", "api", "listing", "transfer">>
    BY <1>2 DEF RequestsOf
  <2>2. r \in Seq(Kinds) /\ Len(r) = 5
    BY <2>1 DEF Kinds
  <2>3. /\ r[1] = "login" /\ r[2] = "version" /\ r[3] = "api" /\ r[4] = "listing"
        /\ r[5] = "transfer"
    BY <2>1
  <2> HIDE DEF r
  <2>4. Queue(r, c)
    BY <1>2, <2>2, <2>3 DEF Queue
  <2>5. Asks(r, "login") /\ Asks(r, "listing") /\ ~Asks(r, "bulk")
    BY <2>2, <2>3 DEF Asks
  <2>6. c.op = "backup" => Asks(r, "listing_again")
    BY <1>2, <2>2, <2>3 DEF Asks
  <2>7. QED
    BY <2>4, <2>5, <2>6 DEF r
<1>3. CASE c.op = "stats" /\ ~HasSelector(c.request)
  <2>1. r = <<"login", "counters", "listing">>
    BY <1>3 DEF RequestsOf
  <2>2. r \in Seq(Kinds) /\ Len(r) = 3
    BY <2>1 DEF Kinds
  <2>3. /\ r[1] = "login" /\ r[2] = "counters" /\ r[3] = "listing"
    BY <2>1
  <2> HIDE DEF r
  <2>4. Queue(r, c)
    BY <1>3, <2>2, <2>3 DEF Queue
  <2>5. Asks(r, "login") /\ Asks(r, "listing") /\ ~Asks(r, "bulk")
    BY <2>2, <2>3 DEF Asks
  <2>6. c.op = "backup" => Asks(r, "listing_again")
    BY <1>3, <2>2, <2>3 DEF Asks
  <2>7. QED
    BY <2>4, <2>5, <2>6 DEF r
<1>4. CASE c.op = "backup"
  <2>1. r = <<"login", "version", "api", "listing", "listing_again">>
    BY <1>4 DEF RequestsOf
  <2>2. r \in Seq(Kinds) /\ Len(r) = 5
    BY <2>1 DEF Kinds
  <2>3. /\ r[1] = "login" /\ r[2] = "version" /\ r[3] = "api" /\ r[4] = "listing"
        /\ r[5] = "listing_again"
    BY <2>1
  <2> HIDE DEF r
  <2>4. Queue(r, c)
    BY <1>4, <2>2, <2>3 DEF Queue
  <2>5. Asks(r, "login") /\ Asks(r, "listing") /\ ~Asks(r, "bulk")
    BY <2>2, <2>3 DEF Asks
  <2>6. c.op = "backup" => Asks(r, "listing_again")
    BY <1>4, <2>2, <2>3 DEF Asks
  <2>7. QED
    BY <2>4, <2>5, <2>6 DEF r
<1>5. CASE /\ c.op \notin {"status", "doctor", "backup"}
           /\ ~(c.op = "stats" /\ ~HasSelector(c.request))
  <2>1. r = <<"login", "listing">>
    BY <1>5 DEF RequestsOf
  <2>2. r \in Seq(Kinds) /\ Len(r) = 2
    BY <2>1 DEF Kinds
  <2>3. /\ r[1] = "login" /\ r[2] = "listing"
    BY <2>1
  <2> HIDE DEF r
  <2>4. Queue(r, c)
    BY <1>5, <2>2, <2>3 DEF Queue
  <2>5. Asks(r, "login") /\ Asks(r, "listing") /\ ~Asks(r, "bulk")
    BY <2>2, <2>3 DEF Asks
  <2>6. c.op = "backup" => Asks(r, "listing_again")
    BY <1>5, <2>2, <2>3 DEF Asks
  <2>7. QED
    BY <2>4, <2>5, <2>6 DEF r
<1>6. QED
  BY <1>1, <1>2, <1>3, <1>4, <1>5

LEMMA QueueBulk ==
  ASSUME NEW r, NEW c, Queue(r, c), r # << >>, Head(r) = "listing", InBulk(c)
  PROVE  /\ Queue(<<"bulk">> \o Tail(r), c)
         /\ \A x : Asks(<<"bulk">> \o Tail(r), x) <=> x = "bulk"
<1>1. c.op \notin {"doctor", "backup", "status"}
  BY DEF InBulk
<1>2. r \in Seq(Kinds) /\ Len(r) \in Nat /\ Len(r) > 0 /\ Head(r) = r[1]
  <2>1. r \in Seq(Kinds)
    BY DEF Queue
  <2>2. QED
    BY <2>1, EmptySeq
<1>3. Len(r) = 1
  <2>1. r[1] = "listing" /\ 1 \in 1..Len(r)
    BY <1>2
  <2>2. QED
    BY <1>1, <2>1 DEF Queue
<1>4. Tail(r) \in Seq(Kinds) /\ Len(Tail(r)) = 0
  BY <1>2, <1>3, HeadTailProperties
<1>5. Tail(r) = << >>
  BY <1>4, EmptySeq
<1>6. <<"bulk">> \o Tail(r) = <<"bulk">>
  <2>1. <<"bulk">> \in Seq(Kinds)
    BY DEF Kinds
  <2>2. QED
    BY <1>5, <2>1, ConcatEmptySeq
<1>7. Queue(<<"bulk">>, c)
  BY <1>1 DEF Queue, Kinds
<1>8. \A x : Asks(<<"bulk">>, x) <=> x = "bulk"
  BY DEF Asks
<1>9. QED
  BY <1>6, <1>7, <1>8

-----------------------------------------------------------------------------
(* The course of a command. *)

\* What has been got, and what is still asked for
InOrder ==
    /\ Queue(requests, cmd)
    /\ Asks(requests, "bulk") => got.listing # Unknown /\ DOMAIN reading = {}
    /\ Asks(requests, "listing") => got.listing = Unknown
    /\ \/ Asks(requests, "login") \/ got.login = "ok"
       \/ cmd.op = "doctor" /\ got.login \in {"refused", "unreachable"}
    /\ cmd.op # "doctor" => Asks(requests, "listing") \/ got.listing # Unknown
    /\ cmd.op = "backup" /\ Asks(requests, "listing") => Asks(requests, "listing_again")

\* What has been read is of a library there was, and nothing is passed over.
Covered ==
    /\ got.listing \in seen \cup {Unknown}
    /\ got.listing = Unknown => lookups = {} /\ DOMAIN reading = {}
    /\ \A t \in DOMAIN reading :
          \/ ToleratesLookup(cmd) /\ reading[t] = Unknown
          \/ \E l \in seen : t \in DOMAIN l /\ reading[t] = l[t].trackers
    /\ cmd.op # "backup" /\ got.listing # Unknown =>
          DOMAIN reading \cup lookups = ToLookUp(cmd, got.listing)

TrackersOf(l) == [t \in DOMAIN l |-> l[t].trackers]

\* Both readings of an export are of the library, if it stood still.
Exported ==
    cmd.op = "backup" /\ seen = {lib} /\ got.listing # Unknown =>
        /\ DOMAIN reading \cup lookups = DOMAIN lib
        /\ reading = [t \in DOMAIN reading |-> lib[t].trackers]
        /\ ~Asks(requests, "listing_again") => got.exported = Normalized(TrackersOf(lib))

ReadInv ==
    /\ DOMAIN got = DOMAIN Nothing
    /\ pc = "idle" =>
          requests = << >> /\ lookups = {} /\ got = Nothing /\ DOMAIN reading = {}
          /\ exit = 0
    /\ pc = "reading" =>
          cmd \in Command /\ Given(cmd) /\ InOrder /\ Covered /\ Exported

CommandType ==
    /\ lib \in Libraries /\ release \in Versions /\ changes \in 0..MaxChanges
    /\ seen \subseteq Libraries /\ pc \in {"idle", "reading", "done"}
    /\ exit \in 0..InvalidUsage /\ (exit = InvalidUsage => Rejected(cmd.request.filters))
    /\ mine \in Nat \cup {None}
    /\ answer \subseteq Torrents /\ lookups \subseteq Torrents
    /\ DOMAIN reading \subseteq Torrents
    /\ cmd \in Command \cup {NoCmd}
    /\ (pc = "idle") <=> (cmd = NoCmd)
    /\ pc = "reading" => lib \in seen
    /\ lookups # {} => (pc # "idle" /\ got.listing # Unknown)

LEMMA TypeParts == TypeOK <=> SessionsTypeOK /\ CommandType
BY DEF TypeOK, CommandType

Fields == {"login", "version", "api", "transfer", "listing", "counters", "exported"}

LEMMA NothingFields ==
  /\ DOMAIN Nothing = Fields
  /\ Nothing.listing = Unknown /\ Nothing.login = Unknown
BY DEF Nothing, Fields

LEMMA EmptyFilterFields ==
  /\ ~NeedsInspection(EmptyFilter)
  /\ \A item : MatchesCheap(EmptyFilter, item)
<1>1. ~NeedsInspection(EmptyFilter)
  BY DEF NeedsInspection, EmptyFilter
<1>2. ASSUME NEW item
      PROVE  MatchesCheap(EmptyFilter, item)
  <2>1. MatchesOrganisation(EmptyFilter, item)
    BY DEF MatchesOrganisation, EmptyFilter
  <2>2. MatchesName(EmptyFilter, item)
    BY DEF MatchesName, EmptyFilter
  <2>3. MatchesState(EmptyFilter, item)
    BY DEF MatchesState, EmptyFilter
  <2>4. MatchesMeasures(EmptyFilter, item)
    BY DEF MatchesMeasures, EmptyFilter, InRange
  <2>5. QED
    BY <2>1, <2>2, <2>3, <2>4 DEF MatchesCheap
<1>3. QED
  BY <1>1, <1>2

\* A filter has the fields of the empty one.
IsFilter(f) == f = [c \in DOMAIN EmptyFilter |-> f[c]]

LEMMA FiltersAreFilters ==
  ASSUME NEW c \in Command
  PROVE  IsFilter(c.request.filters)
<1>1. IsFilter(EmptyFilter)
  BY DEF IsFilter, EmptyFilter
<1>2. \A h \in Hosts : IsFilter(Only(h))
  BY DEF IsFilter, EmptyFilter, Only
<1>3. \A f \in Filters : IsFilter(f)
  BY ReadAssumption DEF IsFilter
<1>4. QED
  BY <1>1, <1>2, <1>3 DEF Command

\* What is left of a filter for the listing decides as the whole of it.
LEMMA CheapMatches ==
  ASSUME NEW f, IsFilter(f), NEW item
  PROVE  MatchesCheap(Cheap(f), item) <=> MatchesCheap(f, item)
<1>1. \A c \in DOMAIN EmptyFilter \ {"trackers", "trackers_excluded", "tracker_health"} :
         Cheap(f)[c] = f[c]
  BY DEF Cheap, IsFilter
<1>2. DOMAIN EmptyFilter =
         {"categories", "categories_excluded", "any_of", "all_of", "none_of",
          "save_paths", "save_paths_excluded", "name_contains", "name_excluded",
          "name_regex", "states", "states_excluded", "completed", "active", "stalled",
          "errored", "private", "range", "trackers", "trackers_excluded",
          "has_trackers", "tracker_health"}
  BY DEF EmptyFilter
<1> DEFINE g == Cheap(f)
<1>3. /\ g.categories = f.categories /\ g.categories_excluded = f.categories_excluded
      /\ g.any_of = f.any_of /\ g.all_of = f.all_of /\ g.none_of = f.none_of
      /\ g.save_paths = f.save_paths /\ g.save_paths_excluded = f.save_paths_excluded
  BY <1>1, <1>2
<1>4. /\ g.name_contains = f.name_contains /\ g.name_excluded = f.name_excluded
      /\ g.name_regex = f.name_regex
  BY <1>1, <1>2
<1>5. /\ g.states = f.states /\ g.states_excluded = f.states_excluded
      /\ g.completed = f.completed /\ g.active = f.active /\ g.stalled = f.stalled
      /\ g.errored = f.errored /\ g.private = f.private
  BY <1>1, <1>2
<1>6. g.range = f.range /\ g.has_trackers = f.has_trackers
  BY <1>1, <1>2
<1> HIDE DEF g
<1>7. MatchesOrganisation(g, item) <=> MatchesOrganisation(f, item)
  BY <1>3 DEF MatchesOrganisation
<1>8. MatchesName(g, item) <=> MatchesName(f, item)
  BY <1>4 DEF MatchesName
<1>9. MatchesState(g, item) <=> MatchesState(f, item)
  BY <1>5 DEF MatchesState
<1>10. MatchesMeasures(g, item) <=> MatchesMeasures(f, item)
  BY <1>6 DEF MatchesMeasures
<1>11. QED
  BY <1>7, <1>8, <1>9, <1>10 DEF MatchesCheap, g

\* An export looks up every torrent listed.
LEMMA BackupLooksUpAll ==
  ASSUME NEW c, c.op = "backup", Given(c), NEW listing
  PROVE  ToLookUp(c, listing) = DOMAIN listing
<1>1. c.request.hash = NoHash /\ c.request.filters = EmptyFilter
  BY DEF Given
<1>2. \A item : MatchesCheap(Cheap(EmptyFilter), item)
  <2>1. IsFilter(EmptyFilter)
    BY DEF IsFilter, EmptyFilter
  <2>2. QED
    BY <2>1, CheapMatches, EmptyFilterFields
<1>3. QED
  BY <1>1, <1>2, EmptyFilterFields DEF ToLookUp, OneByOne, InListing, Candidates

LEMMA LookUpTypes ==
  ASSUME NEW c, NEW listing \in Libraries
  PROVE  ToLookUp(c, listing) \subseteq DOMAIN listing
BY DEF ToLookUp, Resolve, Candidates

LEMMA SubmitReads ==
  ASSUME CommandType, ReadInv, NEW c \in Command, Given(c), Submit(c)
  PROVE  CommandType' /\ ReadInv'
<1>1. /\ pc' = "reading" /\ cmd' = c /\ requests' = RequestsOf(c) /\ seen' = {lib}
      /\ pc = "idle"
      /\ UNCHANGED <<lib, release, changes, mine, lookups, got, reading, answer, exit>>
  BY DEF Submit
<1>2. lookups = {} /\ got = Nothing /\ DOMAIN reading = {}
  BY <1>1 DEF ReadInv
<1>3. exit # InvalidUsage
  BY <1>1 DEF ReadInv, InvalidUsage
<1>4. CommandType'
  BY <1>1, <1>2, <1>3, ReadAssumption DEF CommandType
<1>5. InOrder'
  BY <1>1, <1>2, QueueStart, NothingFields DEF InOrder
<1>6. Covered' /\ Exported'
  BY <1>1, <1>2, NothingFields DEF Covered, Exported
<1>7. QED
  BY <1>1, <1>2, <1>4, <1>5, <1>6 DEF ReadInv

LEMMA RefuseReads ==
  ASSUME CommandType, ReadInv, Refuse
  PROVE  CommandType' /\ ReadInv'
<1>1. CommandType'
  BY RefusedForms, ReadAssumption DEF CommandType, ReadInv, Error, InvalidUsage, world
<1>2. QED
  BY <1>1, RefusedForms DEF ReadInv

LEMMA LoginReads ==
  ASSUME SessionsTypeOK, CommandType, ReadInv, Login
  PROVE  CommandType' /\ ReadInv'
<1>1. /\ pc = "reading" /\ requests # << >> /\ Head(requests) = "login"
      /\ mine' = session /\ got' = [got EXCEPT !.login = "ok"]
      /\ requests' = Tail(requests)
      /\ UNCHANGED <<cmd, pc, lookups, reading, answer, exit, lib, release, seen, changes>>
  BY DEF Login, Pending, world
<1>2. /\ DOMAIN got = Fields /\ DOMAIN got' = Fields
      /\ got'.login = "ok" /\ got'.listing = got.listing /\ got'.exported = got.exported
  BY <1>1, NothingFields DEF ReadInv, Fields
<1>3. InOrder /\ Covered /\ Exported /\ Given(cmd) /\ cmd \in Command
  BY <1>1 DEF ReadInv
<1>4. CommandType'
  BY <1>1, <1>2 DEF CommandType, SessionsTypeOK
<1>5. InOrder'
  BY <1>1, <1>2, <1>3, QueueTail DEF InOrder
<1>6. Covered'
  BY <1>1, <1>2, <1>3 DEF Covered
<1>7. Exported'
  <2>1. Asks(requests, "listing_again") => Asks(requests', "listing_again")
    BY <1>1, <1>3, QueueTail DEF InOrder
  <2>2. QED
    BY <1>1, <1>2, <1>3, <2>1 DEF Exported
<1>8. QED
  BY <1>1, <1>2, <1>3, <1>4, <1>5, <1>6, <1>7, NothingFields DEF ReadInv

LEMMA ListingReads ==
  ASSUME SessionsTypeOK, CommandType, ReadInv, ReadListing
  PROVE  CommandType' /\ ReadInv'
<1>1. /\ pc = "reading" /\ requests # << >> /\ Head(requests) = "listing"
      /\ got' = [got EXCEPT !.listing = lib]
      /\ UNCHANGED <<cmd, pc, mine, answer, exit, lib, release, seen, changes>>
  BY DEF ReadListing, Pending, world
<1>2. /\ DOMAIN got = Fields /\ DOMAIN got' = Fields
      /\ got'.login = got.login /\ got'.listing = lib /\ got'.exported = got.exported
  BY <1>1, NothingFields DEF ReadInv, Fields
<1>3. /\ InOrder /\ Covered /\ Exported /\ Given(cmd) /\ cmd \in Command
      /\ lib \in Libraries /\ lib # Unknown /\ lib \in seen /\ DOMAIN lib \subseteq Torrents
  BY <1>1, ReadAssumption DEF ReadInv, CommandType
<1> DEFINE wanted == ToLookUp(cmd, lib)
<1>4. /\ Queue(Tail(requests), cmd) /\ ~Asks(Tail(requests), "listing")
      /\ \A x : Asks(Tail(requests), x) => Asks(requests, x)
      /\ \A x : Asks(requests, x) => x = "listing" \/ Asks(Tail(requests), x)
  BY <1>1, <1>3, QueueTail DEF InOrder
<1>5. Asks(requests, "listing") /\ ~Asks(requests, "login")
  BY <1>1, <1>3, QueueTail DEF InOrder
<1>6. got.listing = Unknown /\ lookups = {} /\ DOMAIN reading = {} /\ ~Asks(requests, "bulk")
  BY <1>3, <1>5 DEF InOrder, Covered
<1>7. \/ lookups' = wanted /\ UNCHANGED reading
      \/ /\ cmd.op \in InListing /\ lookups' = wanted \ DOMAIN lib
         /\ reading' = [t \in wanted \cap DOMAIN lib |-> lib[t].trackers]
  BY DEF ReadListing, MayEmbed
<1>8. wanted \subseteq DOMAIN lib
  BY <1>3, LookUpTypes
<1> HIDE DEF wanted
<1>9. /\ DOMAIN reading' \cup lookups' = wanted
      /\ \A t \in DOMAIN reading' : t \in DOMAIN lib /\ reading'[t] = lib[t].trackers
      /\ lookups' \subseteq wanted /\ DOMAIN reading' \subseteq wanted
  BY <1>6, <1>7
<1>10. CommandType'
  BY <1>1, <1>2, <1>3, <1>8, <1>9 DEF CommandType
<1>11. \/ requests' = Tail(requests)
       \/ InBulk(cmd) /\ lookups' # {} /\ requests' = <<"bulk">> \o Tail(requests)
  BY DEF ReadListing
<1>12. InOrder'
  <2>1. CASE requests' = Tail(requests)
    BY <1>1, <1>2, <1>3, <1>4, <1>6, <2>1 DEF InOrder
  <2>2. CASE InBulk(cmd) /\ requests' = <<"bulk">> \o Tail(requests)
    <3>1. Queue(requests', cmd) /\ \A x : Asks(requests', x) <=> x = "bulk"
      BY <1>1, <1>3, <2>2, QueueBulk DEF InOrder
    <3>2. DOMAIN reading' = {}
      BY <1>6, <1>7, <2>2 DEF InBulk, InListing
    <3>3. got.login = "ok"
      BY <1>3, <1>5, <2>2 DEF InOrder, InBulk
    <3>4. QED
      BY <1>1, <1>2, <1>3, <3>1, <3>2, <3>3 DEF InOrder
  <2>3. QED
    BY <1>11, <2>1, <2>2
<1>13. Covered'
  BY <1>1, <1>2, <1>3, <1>9 DEF Covered, wanted
<1>14. Exported'
  <2>1. SUFFICES ASSUME cmd.op = "backup"
                 PROVE  Exported'
    BY <1>1 DEF Exported
  <2>2. reading' = reading /\ lookups' = DOMAIN lib
    BY <1>3, <1>7, <2>1, BackupLooksUpAll DEF wanted, InListing
  <2>3. requests' = Tail(requests)
    BY <1>11, <2>1 DEF InBulk
  <2>4. Asks(requests', "listing_again")
    BY <1>3, <1>4, <1>5, <2>1, <2>3 DEF InOrder
  <2>5. QED
    BY <1>1, <1>6, <2>2, <2>4 DEF Exported
<1>15. QED
  BY <1>1, <1>2, <1>3, <1>10, <1>12, <1>13, <1>14, NothingFields DEF ReadInv

LEMMA BulkReads ==
  ASSUME CommandType, ReadInv, ReadInBulk
  PROVE  CommandType' /\ ReadInv'
<1>1. /\ pc = "reading" /\ requests # << >> /\ Head(requests) = "bulk"
      /\ requests' = Tail(requests)
      /\ UNCHANGED <<cmd, pc, mine, got, answer, exit, lib, release, seen, changes>>
  BY DEF ReadInBulk, Pending, world
<1>2. /\ InOrder /\ Covered /\ Exported /\ Given(cmd) /\ cmd \in Command
      /\ lib \in Libraries /\ lib \in seen /\ DOMAIN lib \subseteq Torrents
      /\ DOMAIN got = DOMAIN Nothing
  BY <1>1, ReadAssumption DEF ReadInv, CommandType
<1>3. /\ Queue(Tail(requests), cmd) /\ ~Asks(Tail(requests), "bulk")
      /\ \A x : Asks(Tail(requests), x) => Asks(requests, x)
      /\ \A x : Asks(requests, x) => x = "bulk" \/ Asks(Tail(requests), x)
      /\ Asks(requests, "bulk")
  BY <1>1, <1>2, QueueTail DEF InOrder
<1>4. got.listing # Unknown /\ DOMAIN reading = {} /\ cmd.op # "backup"
  <2>1. InBulk(cmd)
    <3>1. \E i \in 1..Len(requests) : requests[i] = "bulk"
      BY <1>3 DEF Asks
    <3>2. QED
      BY <1>2, <3>1 DEF InOrder, Queue
  <2>2. QED
    BY <1>2, <1>3, <2>1 DEF InOrder, InBulk
<1>5. \/ lookups' = lookups /\ UNCHANGED reading
      \/ /\ lookups' = lookups \ DOMAIN lib
         /\ reading' = [t \in lookups \cap DOMAIN lib |-> lib[t].trackers]
  BY DEF ReadInBulk, MayEmbed
<1>6. /\ DOMAIN reading' \cup lookups' = lookups
      /\ \A t \in DOMAIN reading' : t \in DOMAIN lib /\ reading'[t] = lib[t].trackers
  BY <1>4, <1>5
<1>7. CommandType'
  BY <1>1, <1>2, <1>4, <1>6 DEF CommandType
<1>8. InOrder'
  BY <1>1, <1>2, <1>3 DEF InOrder
<1>9. Covered'
  BY <1>1, <1>2, <1>4, <1>6 DEF Covered
<1>10. Exported'
  BY <1>1, <1>4 DEF Exported
<1>11. QED
  BY <1>1, <1>2, <1>7, <1>8, <1>9, <1>10 DEF ReadInv

\* One more torrent's trackers are read, or their lookup has failed.
LEMMA OneMore ==
  ASSUME CommandType, ReadInv, NEW t \in lookups, NEW v,
         pc = "reading", ~Pending("bulk"),
         reading' = Recorded(t, v), lookups' = lookups \ {t},
         UNCHANGED <<cmd, pc, mine, requests, got, answer, exit, world>>,
         \/ ToleratesLookup(cmd) /\ v = Unknown
         \/ t \in DOMAIN lib /\ v = lib[t].trackers
  PROVE  CommandType' /\ ReadInv'
<1>1. /\ InOrder /\ Covered /\ Exported /\ Given(cmd) /\ cmd \in Command
      /\ lib \in Libraries /\ lib \in seen /\ DOMAIN got = DOMAIN Nothing
      /\ UNCHANGED <<lib, release, seen, changes>>
  BY DEF ReadInv, CommandType, world
<1>2. /\ DOMAIN reading' = DOMAIN reading \cup {t}
      /\ reading'[t] = v
      /\ \A u \in DOMAIN reading \ {t} : reading'[u] = reading[u]
  BY DEF Recorded
<1>3. CommandType'
  BY <1>1, <1>2 DEF CommandType
<1>4. ~Asks(requests, "bulk")
  <2>1. SUFFICES ASSUME Asks(requests, "bulk")
                 PROVE  FALSE
    OBVIOUS
  <2>2. PICK i \in 1..Len(requests) : requests[i] = "bulk"
    BY <2>1 DEF Asks
  <2>3. requests \in Seq(Kinds) /\ i = 1
    BY <1>1, <2>2 DEF InOrder, Queue
  <2>4. requests # << >> /\ Head(requests) = "bulk"
    BY <2>2, <2>3, EmptySeq
  <2>5. QED
    BY <2>4 DEF Pending
<1>5. InOrder'
  BY <1>1, <1>4 DEF InOrder
<1>6. Covered'
  <2>1. got.listing # Unknown
    BY <1>1 DEF Covered
  <2>2. \A u \in DOMAIN reading' :
          \/ ToleratesLookup(cmd) /\ reading'[u] = Unknown
          \/ \E l \in seen : u \in DOMAIN l /\ reading'[u] = l[u].trackers
    BY <1>1, <1>2 DEF Covered
  <2>3. DOMAIN reading' \cup lookups' = DOMAIN reading \cup lookups
    BY <1>2
  <2>4. QED
    BY <1>1, <2>1, <2>2, <2>3 DEF Covered
<1>7. Exported'
  <2>1. SUFFICES ASSUME cmd.op = "backup", seen = {lib}, got.listing # Unknown
                 PROVE  Exported'
    BY <1>1 DEF Exported
  <2>2. /\ DOMAIN reading \cup lookups = DOMAIN lib
        /\ reading = [u \in DOMAIN reading |-> lib[u].trackers]
        /\ ~Asks(requests, "listing_again") => got.exported = Normalized(TrackersOf(lib))
    BY <1>1, <2>1 DEF Exported
  <2>3. v = lib[t].trackers
    BY <2>1 DEF ToleratesLookup
  <2>4. reading' = [u \in DOMAIN reading' |-> lib[u].trackers]
    BY <1>2, <2>2, <2>3 DEF Recorded
  <2>5. DOMAIN reading' \cup lookups' = DOMAIN lib
    BY <1>2, <2>2
  <2>6. QED
    BY <1>1, <2>2, <2>4, <2>5 DEF Exported
<1>8. QED
  BY <1>1, <1>3, <1>5, <1>6, <1>7 DEF ReadInv

LEMMA LookUpReads ==
  ASSUME CommandType, ReadInv, LookUp
  PROVE  CommandType' /\ ReadInv'
BY OneMore DEF LookUp

LEMMA LookUpFailsReads ==
  ASSUME CommandType, ReadInv, LookUpFails
  PROVE  CommandType' /\ ReadInv'
<1>1. CASE ToleratesLookup(cmd)
  BY <1>1, OneMore DEF LookUpFails
<1>2. CASE ~ToleratesLookup(cmd)
  <2>1. /\ pc = "reading" /\ pc' = "done" /\ exit' = Error
        /\ UNCHANGED <<reading, lookups, cmd, mine, requests, got, answer, world>>
    BY <1>2 DEF LookUpFails, Leave
  <2>2. QED
    BY <2>1 DEF CommandType, ReadInv, Error, InvalidUsage, world
<1>3. QED
  BY <1>1, <1>2

LEMMA AgainReads ==
  ASSUME CommandType, ReadInv, ReadAgain
  PROVE  CommandType' /\ ReadInv'
<1>1. /\ pc = "reading" /\ requests # << >> /\ Head(requests) = "listing_again"
      /\ lookups = {} /\ got' = [got EXCEPT !.exported = Normalized(reading)]
      /\ requests' = Tail(requests)
      /\ UNCHANGED <<cmd, pc, mine, answer, exit, lib, release, seen, changes>>
  BY DEF ReadAgain, Pending, world
<1>2. /\ DOMAIN got = Fields /\ DOMAIN got' = Fields
      /\ got'.login = got.login /\ got'.listing = got.listing
      /\ got'.exported = Normalized(reading)
  BY <1>1, NothingFields DEF ReadInv, Fields
<1>3. /\ InOrder /\ Covered /\ Exported /\ Given(cmd) /\ cmd \in Command
      /\ lib \in Libraries /\ lib \in seen /\ DOMAIN lib \subseteq Torrents
  BY <1>1, ReadAssumption DEF ReadInv, CommandType
<1>4. /\ Queue(Tail(requests), cmd) /\ ~Asks(Tail(requests), "bulk")
      /\ \A x : Asks(Tail(requests), x) => Asks(requests, x)
      /\ \A x : Asks(requests, x) => x = "listing_again" \/ Asks(Tail(requests), x)
      /\ Asks(requests, "listing_again")
  BY <1>1, <1>3, QueueTail DEF InOrder
<1>5. requests[1] = "listing_again" /\ requests \in Seq(Kinds) /\ 1 \in 1..Len(requests)
  <2>1. requests \in Seq(Kinds)
    BY <1>3 DEF InOrder, Queue
  <2>2. QED
    BY <1>1, <2>1, EmptySeq
<1>6. cmd.op = "backup" /\ Len(requests) = 1
  BY <1>3, <1>5 DEF InOrder, Queue
<1>7. ~Asks(requests, "listing")
  BY <1>5, <1>6 DEF Asks
<1>8. got.listing # Unknown
  BY <1>3, <1>6, <1>7 DEF InOrder
<1>9. \/ lookups' = DOMAIN lib /\ reading' = << >>
      \/ lookups' = {} /\ reading' = [t \in DOMAIN lib |-> lib[t].trackers]
  BY DEF ReadAgain
<1>10. DOMAIN << >> = {}
  OBVIOUS
<1>11. /\ DOMAIN reading' \cup lookups' = DOMAIN lib
       /\ \A t \in DOMAIN reading' : t \in DOMAIN lib /\ reading'[t] = lib[t].trackers
       /\ reading' = [t \in DOMAIN reading' |-> lib[t].trackers]
  <2>1. CASE lookups' = DOMAIN lib /\ reading' = << >>
    <3>1. reading' = [t \in {} |-> lib[t].trackers]
      BY <2>1
    <3>2. QED
      BY <1>10, <2>1, <3>1
  <2>2. CASE lookups' = {} /\ reading' = [t \in DOMAIN lib |-> lib[t].trackers]
    BY <2>2
  <2>3. QED
    BY <1>9, <2>1, <2>2
<1>12. CommandType'
  BY <1>1, <1>2, <1>3, <1>8, <1>11 DEF CommandType
<1>13. InOrder'
  BY <1>1, <1>2, <1>3, <1>4, <1>7, <1>8 DEF InOrder
<1>14. Covered'
  BY <1>1, <1>2, <1>3, <1>6, <1>8, <1>11 DEF Covered
<1>15. Exported'
  <2>1. seen = {lib} => reading = TrackersOf(lib)
    BY <1>1, <1>3, <1>6, <1>8 DEF Exported, TrackersOf
  <2>2. QED
    BY <1>1, <1>2, <1>11, <2>1 DEF Exported
<1>16. QED
  BY <1>1, <1>2, <1>3, <1>12, <1>13, <1>14, <1>15, NothingFields DEF ReadInv

LEMMA ValueReads ==
  ASSUME CommandType, ReadInv, ReadValue
  PROVE  CommandType' /\ ReadInv'
<1>1. /\ pc = "reading" /\ requests # << >> /\ requests' = Tail(requests)
      /\ Head(requests) \in {"version", "api", "transfer", "counters"}
      /\ UNCHANGED <<cmd, pc, mine, lookups, reading, answer, exit,
                     lib, release, seen, changes>>
  BY DEF ReadValue, world
<1>2. PICK v : got' = [got EXCEPT ![Head(requests)] = v]
  BY DEF ReadValue
<1>3. /\ DOMAIN got = Fields /\ DOMAIN got' = Fields
      /\ got'.login = got.login /\ got'.listing = got.listing
      /\ got'.exported = got.exported
  BY <1>1, <1>2, NothingFields DEF ReadInv, Fields
<1>4. InOrder /\ Covered /\ Exported /\ Given(cmd) /\ cmd \in Command
  BY <1>1 DEF ReadInv
<1>5. /\ Queue(Tail(requests), cmd) 
      /\ \A x : Asks(Tail(requests), x) => Asks(requests, x)
      /\ \A x \in {"login", "listing", "listing_again"} :
            Asks(requests, x) => Asks(Tail(requests), x)
  BY <1>1, <1>4, QueueTail DEF InOrder
<1>6. CommandType'
  BY <1>1, <1>3 DEF CommandType
<1>7. InOrder'
  BY <1>1, <1>3, <1>4, <1>5 DEF InOrder
<1>8. Covered' /\ Exported'
  BY <1>1, <1>3, <1>4, <1>5 DEF Covered, Exported
<1>9. QED
  BY <1>1, <1>3, <1>4, <1>6, <1>7, <1>8, NothingFields DEF ReadInv

-----------------------------------------------------------------------------
(* Exit codes, and the types of the whole. *)

LEMMA ExitCodes ==
  /\ \A h \in {"healthy", "warning", "critical", "unavailable"} :
        HealthExit(h) \in 0..3 /\ (h # "unavailable" => HealthExit(h) # 3)
  /\ HealthExit("unavailable") = 3
  /\ \A s \in {"pass", "warning", "fail"} : StatusExit(s) \in 0..2
  /\ \A s \in {"info", "warning", "unknown", "critical"} : SeverityExit(s) \in 0..2
BY DEF HealthExit, StatusExit, SeverityExit

LEMMA ExitBounds ==
  ASSUME NEW found
  PROVE  ExitOf(found) \in 0..3
<1>1. InstanceHealth(got.listing) \in {"healthy", "warning", "critical"}
  BY DEF InstanceHealth
<1>2. OverallHealth(Filter, reading) \in {"healthy", "warning", "critical", "unavailable"}
  BY DEF OverallHealth
<1>3. DoctorStatus \in {"pass", "warning", "fail"}
  BY DEF DoctorStatus, OverallStatus
<1>4. \A S : Worst(S) \in {"info", "warning", "unknown", "critical"}
  BY DEF Worst
<1>5. ExplainTrackerExit(reading, cmd.tracker) \in 0..3
  BY <1>4, ExitCodes DEF ExplainTrackerExit
<1>6. Targeted(found) \in 0..3
  BY DEF Targeted, NoMatch
<1>7. QED
  BY <1>1, <1>2, <1>3, <1>4, <1>5, <1>6, ExitCodes DEF ExitOf

LEMMA SessionsTypeStep ==
  ASSUME SessionsTypeOK, [SessionsNext]_sessions
  PROVE  SessionsTypeOK'
<1>1. CASE Instance
  <2>1. UNCHANGED <<cached, phase, client, watch>>
    BY <1>1 DEF Instance, GoDown, LoseSessions, ComeBack, Trouble, served
  <2>2. up' \in BOOLEAN
    BY <1>1, Zenon DEF Instance, GoDown, LoseSessions, ComeBack, Trouble
  <2>3. session' \in Nat
    <3>1. session \in Nat /\ session' \in {session, session + 1}
      BY <1>1 DEF Instance, GoDown, LoseSessions, ComeBack, Trouble, SessionsTypeOK
    <3>2. QED
      BY <3>1
  <2>3a. losses' \in 0..MaxLosses
    BY <1>1, SessionAssumption
    DEF Instance, GoDown, LoseSessions, ComeBack, Trouble, SessionsTypeOK
  <2>4. troubled' \subseteq Calls
    BY <1>1 DEF Instance, GoDown, LoseSessions, ComeBack, Trouble, SessionsTypeOK,
                Ongoing, served
  <2>5. QED
    BY <2>1, <2>2, <2>3, <2>3a, <2>4 DEF SessionsTypeOK, watch
<1>2. CASE Served
  <2>1. PICK c \in Calls : Call(c) \/ Tool(c) \/ Forget(c)
    BY <1>2 DEF Served
  <2>2. UNCHANGED <<instance, watch>>
    BY <2>1 DEF Call, Tool, Forget, Get, GetAgain, GetAs, Answered, Fails, Drop
  <2>3. \E to \in Phases : phase' = [phase EXCEPT ![c] = to]
    BY <2>1 DEF Call, Tool, Forget, Get, GetAgain, GetAs, Answered, Fails, Drop,
                Goes, Phases
  <2>4. cached' \in Nat \cup {None}
    BY <2>1 DEF Call, Tool, Forget, Get, GetAgain, GetAs, Answered, Fails, Drop,
                SessionsTypeOK
  <2>5. client' \in [Calls -> Nat \cup {None}]
    BY <2>1 DEF Call, Tool, Forget, Get, GetAgain, GetAs, Answered, Fails, Drop,
                SessionsTypeOK
  <2>6. troubled' \subseteq Calls
    BY <2>1 DEF Call, Tool, Forget, Get, GetAgain, GetAs, Answered, Fails, Drop,
                SessionsTypeOK
  <2>7. QED
    BY <2>2, <2>3, <2>4, <2>5, <2>6 DEF SessionsTypeOK, Phases, instance, watch
<1>3. CASE Watched
  BY <1>3 DEF Watched, WatchStarts, WatchConnects, WatchCollects, WatchStops,
              SessionsTypeOK, instance, served
<1>4. CASE UNCHANGED sessions
  BY <1>4 DEF SessionsTypeOK, sessions, instance, served, watch
<1>5. QED
  BY <1>1, <1>2, <1>3, <1>4 DEF SessionsNext

\* A request that fails ends the command, or is passed over where it may be.
LEMMA FailureReads ==
  ASSUME CommandType, ReadInv, RequestFails
  PROVE  CommandType' /\ ReadInv'
<1>1. /\ pc = "reading" /\ requests # << >>
      /\ UNCHANGED <<cmd, mine, lookups, reading, answer, lib, release, seen, changes>>
  BY DEF RequestFails, world
<1>2. InOrder /\ Covered /\ Exported /\ Given(cmd) /\ cmd \in Command
      /\ DOMAIN got = Fields
  BY <1>1, NothingFields DEF ReadInv
<1>3. CASE ~Tolerates(cmd, Head(requests))
  <2>1. pc' = "done" /\ UNCHANGED <<requests, got>> /\ exit' \in 0..3
    BY <1>3, ExitCodes DEF RequestFails, Leave, Error
  <2>2. QED
    BY <1>1, <2>1 DEF CommandType, ReadInv, InvalidUsage
<1>4. CASE Tolerates(cmd, Head(requests)) /\ Head(requests) = "login"
  <2>1. requests' = << >> /\ UNCHANGED <<pc, exit>>
    BY <1>4 DEF RequestFails
  <2>2. PICK o \in {"refused", "unreachable"} : got' = [got EXCEPT !.login = o]
    BY <1>4 DEF RequestFails
  <2>3. cmd.op = "doctor"
    BY <1>4 DEF Tolerates
  <2>4. /\ DOMAIN got' = Fields /\ got'.login = o /\ got'.listing = got.listing
    BY <1>2, <2>2 DEF Fields
  <2>5. CommandType'
    BY <1>1, <2>1, <2>4 DEF CommandType
  <2>6. Queue(requests', cmd') /\ \A x : ~Asks(requests', x)
    BY <1>1, <2>1, <2>3, EmptySeq DEF Queue, Asks
  <2>7. InOrder'
    BY <1>1, <2>3, <2>4, <2>6 DEF InOrder
  <2>8. Covered' /\ Exported'
    BY <1>1, <1>2, <2>3, <2>4 DEF Covered, Exported
  <2>9. QED
    BY <1>1, <1>2, <2>1, <2>4, <2>5, <2>7, <2>8, NothingFields DEF ReadInv
<1>5. CASE Tolerates(cmd, Head(requests)) /\ Head(requests) # "login"
  <2>1. requests' = Tail(requests) /\ UNCHANGED <<pc, exit, got>>
    BY <1>5 DEF RequestFails
  <2>2. /\ Queue(Tail(requests), cmd) /\ Asks(requests, Head(requests))
        /\ \A x : Asks(Tail(requests), x) => Asks(requests, x)
        /\ \A x : Asks(requests, x) => x = Head(requests) \/ Asks(Tail(requests), x)
    BY <1>1, <1>2, QueueTail DEF InOrder
  <2>3. cmd.op # "doctor" => Head(requests) \notin {"listing", "listing_again"}
    BY <1>5 DEF Tolerates
  <2>4. CommandType'
    BY <1>1, <2>1 DEF CommandType
  <2>5. InOrder'
    BY <1>1, <1>2, <1>5, <2>1, <2>2, <2>3 DEF InOrder
  <2>6. Covered' /\ Exported'
    BY <1>1, <1>2, <2>1, <2>2, <2>3 DEF Covered, Exported
  <2>7. QED
    BY <1>1, <1>2, <2>1, <2>4, <2>5, <2>6, NothingFields DEF ReadInv
<1>6. QED
  BY <1>3, <1>4, <1>5

\* A command that has made all its requests but doctor has a listing.
LEMMA FinishHasListing ==
  ASSUME CommandType, ReadInv, Finish
  PROVE  /\ cmd \in Command /\ Given(cmd) /\ InOrder /\ Covered /\ Exported
         /\ requests = << >> /\ lookups = {} /\ \A x : ~Asks(requests, x)
         /\ cmd.op # "doctor" =>
               got.login = "ok" /\ got.listing \in seen /\ got.listing \in Libraries
                                /\ got.listing # Unknown
<1>1. /\ cmd \in Command /\ Given(cmd) /\ InOrder /\ Covered /\ Exported
      /\ requests = << >> /\ lookups = {}
  BY DEF Finish, ReadInv
<1>2. \A x : ~Asks(requests, x)
  BY <1>1, EmptySeq DEF Asks
<1>3. cmd.op # "doctor" => got.login = "ok" /\ got.listing # Unknown
  BY <1>1, <1>2 DEF InOrder
<1>4. QED
  BY <1>1, <1>2, <1>3 DEF Covered, CommandType

LEMMA FoundTypes ==
  ASSUME CommandType, ReadInv, Finish
  PROVE  Found \subseteq Torrents
<1>1. DOMAIN reading \subseteq Torrents
  BY DEF CommandType
<1>2. cmd.op = "doctor" => Found = {}
  BY DEF Found
<1>3. cmd.op # "doctor" => DOMAIN got.listing \subseteq Torrents
  BY FinishHasListing, ReadAssumption
<1>4. Selected \subseteq DOMAIN got.listing
  BY DEF Selected, Resolve, Candidates
<1>5. /\ Narrowed(Filter) \subseteq DOMAIN reading
      /\ Retained(Filter, reading) \subseteq DOMAIN reading
  BY DEF Narrowed, Retained
<1>6. Found \in {{}, {t \in Selected : Asked(t, got.listing[t])}, Retained(Filter, reading),
                 {t \in DOMAIN reading : cmd.tracker \in Identities(reading[t])},
                 Narrowed(Filter), Selected}
  BY DEF Found
<1>7. QED
  BY <1>1, <1>2, <1>3, <1>4, <1>5, <1>6

LEMMA FinishReads ==
  ASSUME CommandType, ReadInv, Finish
  PROVE  CommandType' /\ ReadInv'
<1>1. /\ pc = "reading" /\ pc' = "done"
      /\ UNCHANGED <<cmd, mine, requests, lookups, got, reading, lib, release, seen, changes>>
  BY DEF Finish, Leave, world
<1>2. exit' \in 0..3
  BY ExitBounds DEF Finish, Leave, Error
<1>3. answer' \subseteq Torrents
  BY FoundTypes DEF Finish, CommandType
<1>4. QED
  BY <1>1, <1>2, <1>3 DEF CommandType, ReadInv, InvalidUsage

LEMMA ChangeReads ==
  ASSUME CommandType, ReadInv, Change
  PROVE  CommandType' /\ ReadInv'
<1>1. /\ pc = "reading" /\ lib' \in Libraries /\ lib' # lib /\ seen' = seen \cup {lib'}
      /\ changes < MaxChanges /\ changes' = changes + 1
      /\ UNCHANGED <<release, cmd, pc, mine, requests, lookups, got, reading, answer, exit>>
  BY DEF Change, command
<1>2. CommandType'
  BY <1>1, ReadAssumption DEF CommandType
<1>3. lib \in seen /\ InOrder /\ Covered
  BY <1>1 DEF CommandType, ReadInv
<1>4. InOrder' /\ Covered'
  BY <1>1, <1>3 DEF InOrder, Covered
<1>5. Exported'
  BY <1>1, <1>3 DEF Exported
<1>6. QED
  BY <1>1, <1>2, <1>4, <1>5 DEF ReadInv

LEMMA OthersRead ==
  ASSUME CommandType, ReadInv, UNCHANGED <<command, world>>
  PROVE  CommandType' /\ ReadInv'
<1>1. UNCHANGED <<cmd, pc, mine, requests, lookups, got, reading, answer, exit,
                  lib, release, seen, changes>>
  BY DEF command, world
<1>2. CommandType'
  BY <1>1 DEF CommandType
<1>3. ReadInv'
  BY <1>1 DEF ReadInv, InOrder, Covered, Exported
<1>4. QED
  BY <1>2, <1>3

LEMMA InitReads == Init => TypeOK /\ ReadInv
<1>1. SUFFICES ASSUME Init
               PROVE  TypeOK /\ ReadInv
  OBVIOUS
<1>2. SessionsTypeOK
  <2>1. /\ up \in BOOLEAN /\ session = 0 /\ losses = 0 /\ cached = None
        /\ phase = [c \in Calls |-> "idle"] /\ client = [c \in Calls |-> None]
        /\ troubled = {} /\ watching = FALSE /\ watcher = None /\ shown = "none"
    BY <1>1 DEF Init, InitOn, SessionsInit
  <2>2. losses \in 0..MaxLosses
    BY <2>1, SessionAssumption
  <2>3. watching \in BOOLEAN
    BY <2>1, Zenon
  <2>4. QED
    BY <2>1, <2>2, <2>3 DEF SessionsTypeOK
<1>3. /\ cmd = NoCmd /\ pc = "idle" /\ mine = None /\ requests = << >> /\ lookups = {}
      /\ got = Nothing /\ reading = << >> /\ answer = {} /\ exit = 0 /\ seen = {}
      /\ changes = 0 /\ lib \in Libraries /\ release \in Versions
  BY <1>1 DEF Init, InitOn
<1>4. DOMAIN reading = {}
  BY <1>3
<1>5. CommandType
  BY <1>3, <1>4, ReadAssumption DEF CommandType, InvalidUsage
<1>6. ReadInv
  BY <1>3, <1>4 DEF ReadInv
<1>7. QED
  BY <1>2, <1>5, <1>6, TypeParts

\* What a step of the whole is, for a claim about the commands
LEMMA StepForms ==
  ASSUME [Next]_vars
  PROVE  \/ Commands \/ Login \/ ReadListing \/ ReadInBulk \/ LookUp \/ ReadAgain
         \/ ReadValue \/ RequestFails \/ LookUpFails \/ Finish \/ Change
         \/ UNCHANGED <<command, world>>
BY DEF Next, Reads, vars

LEMMA NextSessions ==
  ASSUME [Next]_vars
  PROVE  [SessionsNext]_sessions
<1>1. CASE Commands \/ Reads \/ Change
  BY <1>1, CommandsLeaveSessions
<1>2. CASE Instance \/ Served \/ Watched
  BY <1>2 DEF SessionsNext
<1>3. CASE UNCHANGED vars
  BY <1>3 DEF vars
<1>4. QED
  BY <1>1, <1>2, <1>3 DEF Next

LEMMA NextReads ==
  ASSUME TypeOK, ReadInv, [Next]_vars
  PROVE  TypeOK' /\ ReadInv'
<1>1. SessionsTypeOK /\ CommandType
  BY TypeParts
<1>2. [SessionsNext]_sessions
  BY NextSessions
<1>3. SessionsTypeOK'
  BY <1>1, <1>2, SessionsTypeStep
<1>4. CommandType' /\ ReadInv'
  <2>1. CASE Commands
    <3>1. CASE Refuse
      BY <1>1, <3>1, RefuseReads
    <3>2. CASE \E c \in Command : Given(c) /\ Submit(c)
      BY <1>1, <3>2, SubmitReads
    <3>3. QED
      BY <2>1, <3>1, <3>2, CommandsGiven
  <2>2. CASE Login \/ ReadListing \/ ReadInBulk \/ LookUp \/ ReadAgain
    BY <1>1, <2>2, LoginReads, ListingReads, BulkReads, LookUpReads, AgainReads
  <2>3. CASE ReadValue \/ RequestFails \/ LookUpFails \/ Finish \/ Change
    BY <1>1, <2>3, ValueReads, FailureReads, LookUpFailsReads, FinishReads, ChangeReads
  <2>4. CASE UNCHANGED <<command, world>>
    BY <1>1, <2>4, OthersRead
  <2>5. QED
    BY <2>1, <2>2, <2>3, <2>4, StepForms
<1>5. QED
  BY <1>3, <1>4, TypeParts, PTL

\* The commands and whatever runs beside them are well typed; the usage exit code
\* is of options refused (cli/commands/trackers.py), and no lookup is made before
\* there is a listing.
THEOREM ReadTypeCorrect == Spec => []TypeOK
BY InitReads, NextReads, PTL DEF Spec

-----------------------------------------------------------------------------
(* What a selection reports. *)

\* How a command comes to be over
LEMMA DoneForms ==
  ASSUME TypeOK, [Next]_vars, pc' = "done"
  PROVE  \/ UNCHANGED <<command, world>>
         \/ Refuse
         \/ RequestFails /\ ~Tolerates(cmd, Head(requests))
         \/ LookUpFails /\ ~ToleratesLookup(cmd)
         \/ Finish
<1>1. CASE Commands
  BY <1>1, CommandsGiven DEF Submit
<1>2. CASE Login \/ ReadListing \/ ReadInBulk \/ LookUp \/ ReadAgain \/ ReadValue \/ Change
  BY <1>2 DEF Login, ReadListing, ReadInBulk, LookUp, ReadAgain, ReadValue, Change, command
<1>3. CASE RequestFails
  BY <1>3 DEF RequestFails
<1>4. CASE LookUpFails
  BY <1>4 DEF LookUpFails
<1>5. QED
  BY <1>1, <1>2, <1>3, <1>4, StepForms

LEMMA FilterValues ==
  ASSUME NEW c \in Command
  PROVE  /\ c.request.filters.private \in BOOLEAN \cup {Unset}
         /\ NoVerdict \notin c.request.filters.tracker_health
<1>1. ASSUME NEW f \in {EmptyFilter} \cup {Only(h) : h \in Hosts}
      PROVE  f.private = Unset /\ f.tracker_health = {}
  BY DEF Only, EmptyFilter
<1>2. ASSUME NEW f \in Filters
      PROVE  f.private \in BOOLEAN \cup {Unset} /\ NoVerdict \notin f.tracker_health
  <2>1. /\ f.private \in BOOLEAN \cup {Unset}
        /\ f.tracker_health \subseteq
              {"healthy", "warning", "critical", "disabled", "unknown"}
    BY ReadAssumption
  <2>2. QED
    BY <2>1 DEF NoVerdict
<1>3. \/ c.request.filters \in Filters
      \/ c.request.filters \in {EmptyFilter} \cup {Only(h) : h \in Hosts}
  BY DEF Command
<1>4. QED
  BY <1>1, <1>2, <1>3

\* A match was decided on values that were reported.
LEMMA MatchesAreGrounded ==
  ASSUME NEW c \in Command, NEW f, f = c.request.filters, NEW item, NEW trackers,
         MatchesCheap(f, item),
         NeedsInspection(f) => /\ trackers # Unknown
                               /\ MatchesHosts(f, trackers) /\ MatchesHealth(f, trackers)
  PROVE  Grounded(f, item, trackers)
<1>1. MatchesState(f, item) /\ MatchesMeasures(f, item)
  BY DEF MatchesCheap
<1>2. (f.states # {} \/ {f.active, f.stalled, f.errored} # {Unset}) => item.state # Blank
  BY <1>1 DEF MatchesState
<1>3. f.completed # Unset => item.measure["progress"] # Unknown
  BY <1>1 DEF MatchesState
<1>4. f.private # Unset => item.private # Unknown
  <2>1. f.private \in {Unset, item.private} /\ f.private \in BOOLEAN \cup {Unset}
    BY <1>1, FilterValues DEF MatchesState
  <2>2. f.private = Unset \/ (f.private = item.private /\ f.private \in BOOLEAN)
    BY <2>1
  <2>3. QED
    BY <2>2, ReadAssumption
<1>5. /\ f.has_trackers # Unset => item.trackers_count # Unknown
      /\ \A m \in Measures : f.range[m] # NoRange => item.measure[m] # Unknown
  BY <1>1 DEF MatchesMeasures, InRange
<1>6. NeedsInspection(f) => trackers # Unknown
  OBVIOUS
<1>7. f.tracker_health # {} => \E e \in trackers : e.host # Pseudo
  <2>1. SUFFICES ASSUME f.tracker_health # {}
                 PROVE  \E e \in trackers : e.host # Pseudo
    OBVIOUS
  <2>2. trackers # Unknown /\ TorrentHealth(trackers) \in f.tracker_health
    BY <2>1 DEF NeedsInspection, MatchesHealth
  <2>3. TorrentHealth(trackers) # NoVerdict
    BY <2>2, FilterValues
  <2>4. Real(trackers) # {}
    BY <2>2, <2>3 DEF TorrentHealth
  <2>5. QED
    BY <2>4 DEF Real
<1>8. f.trackers # {} => \E e \in trackers : e.host \in f.trackers /\ e.status # 0
  <2>1. SUFFICES ASSUME f.trackers # {}
                 PROVE  \E e \in trackers : e.host \in f.trackers /\ e.status # 0
    OBVIOUS
  <2>2. ({e.host : e \in Active(trackers)} \ {NoHost}) \cap f.trackers # {}
    BY <2>1 DEF NeedsInspection, MatchesHosts
  <2>3. QED
    BY <2>2 DEF Active, Real
<1>9. QED
  BY <1>2, <1>3, <1>4, <1>5, <1>6, <1>7, <1>8 DEF Grounded

Inspects == cmd.op = "inspect_filtered" \/ NeedsInspection(Filter)

\* What a filter that looks at trackers leaves
LEMMA InspectedSelection ==
  ASSUME CommandType, ReadInv, Finish, Inspects, cmd.request.hash = NoHash,
         cmd.op \in {"list", "stats", "search", "inspect_filtered"}
  PROVE  /\ Found = Narrowed(Filter)
         /\ DOMAIN reading = Candidates(got.listing, Filter)
         /\ \A t \in DOMAIN reading :
               \E l \in seen : t \in DOMAIN l /\ reading[t] = l[t].trackers
         /\ \A t \in DOMAIN reading : reading[t] # Unknown
         /\ cmd.op # "search"
<1>1. /\ cmd \in Command /\ Given(cmd) /\ Covered /\ lookups = {} /\ seen \subseteq Libraries
      /\ got.listing # Unknown
  BY FinishHasListing DEF CommandType
<1>2. cmd.op # "search"
  BY <1>1 DEF Given, Inspects, Filter
<1>3. Found = Narrowed(Filter)
  BY <1>2 DEF Found, Inspects
<1>4. DOMAIN reading = ToLookUp(cmd, got.listing)
  BY <1>1 DEF Covered
<1>5. InBulk(cmd) \/ cmd.op \in OneByOne
  BY <1>2 DEF InBulk, OneByOne, Inspects, Filter
<1>6. ToLookUp(cmd, got.listing) = Candidates(got.listing, Cheap(Filter))
  BY <1>5 DEF ToLookUp, InListing, Filter
<1>7. Candidates(got.listing, Cheap(Filter)) = Candidates(got.listing, Filter)
  BY <1>1, FiltersAreFilters, CheapMatches DEF Candidates, Filter
<1>8. \A t \in DOMAIN reading :
         \E l \in seen : t \in DOMAIN l /\ reading[t] = l[t].trackers
  BY <1>1 DEF Covered, ToleratesLookup
<1>9. \A t \in DOMAIN reading : reading[t] # Unknown
  BY <1>1, <1>8, ReadAssumption
<1>10. QED
  BY <1>2, <1>3, <1>4, <1>6, <1>7, <1>8, <1>9

LEMMA ListedSelection ==
  ASSUME CommandType, ReadInv, Finish, ~Inspects, cmd.request.hash = NoHash,
         cmd.op \in {"list", "stats", "search", "inspect_filtered"}
  PROVE  /\ \A t : t \in Found <=> t \in Candidates(got.listing, Filter)
                                    /\ Asked(t, got.listing[t])
         /\ \A trackers : MatchesHosts(Filter, trackers) /\ MatchesHealth(Filter, trackers)
<1>1. \A t : t \in Found <=> t \in Candidates(got.listing, Filter) /\ Asked(t, got.listing[t])
  <2>1. Selected = Candidates(got.listing, Filter)
    BY DEF Selected
  <2>2. CASE cmd.op = "search"
    BY <2>1, <2>2 DEF Found
  <2>3. CASE cmd.op \in {"list", "stats"}
    <3>1. Found = Selected
      BY <2>3 DEF Found, Inspects
    <3>2. QED
      BY <2>1, <2>3, <3>1 DEF Asked
  <2>4. QED
    BY <2>2, <2>3 DEF Inspects
<1>2. \A trackers : MatchesHosts(Filter, trackers) /\ MatchesHealth(Filter, trackers)
  BY DEF Inspects, NeedsInspection, MatchesHosts, MatchesHealth
<1>3. QED
  BY <1>1, <1>2

LEMMA SelectionAtFinish ==
  ASSUME CommandType, ReadInv, Finish, cmd.request.hash = NoHash,
         cmd.op \in {"list", "stats", "search", "inspect_filtered"}
  PROVE  /\ answer' = Found
         /\ \A t \in Torrents :
               /\ \A l \in seen : t \in DOMAIN l
               /\ \A l \in seen : Wanted(Filter, l[t]) /\ Asked(t, l[t])
               => t \in Found
         /\ \A t \in Found :
               /\ \E l \in seen : /\ t \in DOMAIN l
                                  /\ MatchesCheap(Filter, l[t]) /\ Asked(t, l[t])
               /\ \E l \in seen : t \in DOMAIN l /\ MatchesHosts(Filter, l[t].trackers)
               /\ \E l \in seen : t \in DOMAIN l /\ MatchesHealth(Filter, l[t].trackers)
               /\ Grounded(Filter, got.listing[t],
                           IF t \in DOMAIN reading THEN reading[t] ELSE Unknown)
<1> DEFINE L == got.listing
<1>1. cmd \in Command /\ L \in seen
  BY FinishHasListing
<1>2. answer' = Found
  BY DEF Finish
<1>3. CASE Inspects
  <2>1. /\ Found = Narrowed(Filter) /\ DOMAIN reading = Candidates(L, Filter)
        /\ \A t \in DOMAIN reading :
              \E l \in seen : t \in DOMAIN l /\ reading[t] = l[t].trackers
        /\ \A t \in DOMAIN reading : reading[t] # Unknown
        /\ cmd.op # "search"
    BY <1>3, InspectedSelection
  <2>2. ASSUME NEW t, \A l \in seen : t \in DOMAIN l,
               \A l \in seen : Wanted(Filter, l[t]) /\ Asked(t, l[t])
        PROVE  t \in Found
    <3>1. t \in DOMAIN reading
      BY <1>1, <2>1, <2>2 DEF Candidates, Wanted
    <3>2. PICK l \in seen : t \in DOMAIN l /\ reading[t] = l[t].trackers
      BY <2>1, <3>1
    <3>3. MatchesHosts(Filter, reading[t]) /\ MatchesHealth(Filter, reading[t])
      BY <2>2, <3>2 DEF Wanted
    <3>4. QED
      BY <2>1, <3>1, <3>3 DEF Narrowed
  <2>3. ASSUME NEW t \in Found
        PROVE  /\ \E l \in seen : /\ t \in DOMAIN l
                                  /\ MatchesCheap(Filter, l[t]) /\ Asked(t, l[t])
               /\ \E l \in seen : t \in DOMAIN l /\ MatchesHosts(Filter, l[t].trackers)
               /\ \E l \in seen : t \in DOMAIN l /\ MatchesHealth(Filter, l[t].trackers)
               /\ Grounded(Filter, L[t],
                           IF t \in DOMAIN reading THEN reading[t] ELSE Unknown)
    <3>1. /\ t \in DOMAIN reading
          /\ MatchesHosts(Filter, reading[t]) /\ MatchesHealth(Filter, reading[t])
      BY <2>1 DEF Narrowed
    <3>2. t \in DOMAIN L /\ MatchesCheap(Filter, L[t])
      BY <2>1, <3>1 DEF Candidates
    <3>3. Asked(t, L[t])
      BY <2>1 DEF Asked
    <3>4. PICK l \in seen : t \in DOMAIN l /\ reading[t] = l[t].trackers
      BY <2>1, <3>1
    <3>5. Grounded(Filter, L[t], reading[t])
      BY <1>1, <2>1, <3>1, <3>2, MatchesAreGrounded DEF Filter
    <3>6. QED
      BY <1>1, <3>1, <3>2, <3>3, <3>4, <3>5
  <2>4. QED
    BY <1>2, <2>2, <2>3
<1>4. CASE ~Inspects
  <2>1. /\ \A t : t \in Found <=> t \in Candidates(L, Filter) /\ Asked(t, L[t])
        /\ \A trackers : MatchesHosts(Filter, trackers) /\ MatchesHealth(Filter, trackers)
    BY <1>4, ListedSelection
  <2>2. ASSUME NEW t, \A l \in seen : t \in DOMAIN l,
               \A l \in seen : Wanted(Filter, l[t]) /\ Asked(t, l[t])
        PROVE  t \in Found
    BY <1>1, <2>1, <2>2 DEF Candidates, Wanted
  <2>3. ASSUME NEW t \in Found
        PROVE  /\ t \in DOMAIN L /\ MatchesCheap(Filter, L[t]) /\ Asked(t, L[t])
               /\ Grounded(Filter, L[t],
                           IF t \in DOMAIN reading THEN reading[t] ELSE Unknown)
    <3>1. t \in DOMAIN L /\ MatchesCheap(Filter, L[t]) /\ Asked(t, L[t])
      BY <2>1 DEF Candidates
    <3>2. ~NeedsInspection(Filter)
      BY <1>4 DEF Inspects
    <3>3. QED
      BY <1>1, <3>1, <3>2, MatchesAreGrounded DEF Filter
  <2>4. QED
    BY <1>1, <1>2, <2>1, <2>2, <2>3
<1>5. QED
  BY <1>3, <1>4

LEMMA SelectionStep ==
  ASSUME TypeOK, ReadInv, SelectionIsSound, [Next]_vars
  PROVE  SelectionIsSound'
<1>1. SUFFICES ASSUME pc' = "done", exit' \in {0, NoMatch}, cmd'.request.hash = NoHash,
                      cmd'.op \in {"list", "stats", "search", "inspect_filtered"}
               PROVE  SelectionIsSound'
  BY DEF SelectionIsSound
<1>2. CommandType
  BY TypeParts
<1>3. CASE UNCHANGED <<command, world>>
  <2>1. UNCHANGED <<pc, exit, cmd, reading, seen, answer, got>>
    BY <1>3 DEF command, world
  <2>2. QED
    BY <2>1 DEF SelectionIsSound, Filter, Asked
<1>4. CASE Refuse
  BY <1>1, <1>4, RefusedForms DEF Error, InvalidUsage, NoMatch
<1>5. CASE RequestFails /\ ~Tolerates(cmd, Head(requests))
  <2>1. exit' \in {1, 3}
    BY <1>5, ExitCodes DEF RequestFails, Leave, Error
  <2>2. QED
    BY <1>1, <2>1 DEF NoMatch
<1>6. CASE LookUpFails /\ ~ToleratesLookup(cmd)
  BY <1>1, <1>6 DEF LookUpFails, Leave, Error, NoMatch
<1>7. CASE Finish
  <2>1. UNCHANGED <<cmd, reading, seen, got>>
    BY <1>7 DEF Finish, world
  <2>2. QED
    BY <1>1, <1>2, <1>7, <2>1, SelectionAtFinish DEF SelectionIsSound, Filter, Asked
<1>8. QED
  BY <1>1, <1>3, <1>4, <1>5, <1>6, <1>7, DoneForms

\* list, stats, search and inspect report every torrent that matched throughout
\* and none that never did or whose deciding field was unknown (shared/selection.py,
\* shared/inspection.py), whatever became of the library between the listing and
\* the lookups.
THEOREM SelectionStaysSound == Spec => []SelectionIsSound
<1>1. Init => SelectionIsSound
  BY DEF Init, InitOn, SelectionIsSound
<1>2. QED
  BY <1>1, InitReads, NextReads, SelectionStep, PTL DEF Spec

-----------------------------------------------------------------------------
(* What an exit code says. *)

Judged == UNION {{e \in Real(reading[t]) : Filter.trackers \in {{}, {e.host}}} :
                    t \in DOMAIN reading \ Failures(reading)}

LEMMA AggregateIsWorst ==
  ASSUME NEW healths, AggregateHealth(healths) \in {"healthy", "disabled"}
  PROVE  healths \subseteq {"healthy", "disabled"}
<1> DEFINE enabled == healths \ {"disabled"}
<1>1. CASE enabled = {}
  BY <1>1
<1>2. CASE enabled # {} /\ \E h \in {"critical", "healthy", "unknown"} : enabled = {h}
  <2>1. PICK h \in {"critical", "healthy", "unknown"} : enabled = {h}
    BY <1>2
  <2>2. (CHOOSE x \in enabled : TRUE) = h
    BY <2>1
  <2>3. AggregateHealth(healths) = h
    BY <1>2, <2>1, <2>2 DEF AggregateHealth
  <2>4. QED
    BY <2>1, <2>3
<1>3. CASE enabled # {} /\ ~\E h \in {"critical", "healthy", "unknown"} : enabled = {h}
  <2>1. AggregateHealth(healths) = "warning"
    BY <1>3 DEF AggregateHealth
  <2>2. QED
    BY <2>1
<1>4. QED
  BY <1>1, <1>2, <1>3

LEMMA AggregateValues ==
  ASSUME NEW healths
  PROVE  AggregateHealth(healths) \in
             {"healthy", "disabled", "critical", "unknown", "warning"}
<1> DEFINE enabled == healths \ {"disabled"}
<1>1. CASE enabled = {}
  BY <1>1 DEF AggregateHealth
<1>2. CASE enabled # {} /\ \E h \in {"critical", "healthy", "unknown"} : enabled = {h}
  <2>1. PICK h \in {"critical", "healthy", "unknown"} : enabled = {h}
    BY <1>2
  <2>2. (CHOOSE x \in enabled : TRUE) = h
    BY <2>1
  <2>3. AggregateHealth(healths) = h
    BY <1>2, <2>1, <2>2 DEF AggregateHealth
  <2>4. QED
    BY <2>1, <2>3
<1>3. CASE enabled # {} /\ ~\E h \in {"critical", "healthy", "unknown"} : enabled = {h}
  BY <1>3 DEF AggregateHealth
<1>4. QED
  BY <1>1, <1>2, <1>3

LEMMA FindingExits ==
  ASSUME NEW r, NEW h, Failures(r) # {}
  PROVE  ExplainTrackerExit(r, h) # 0
<1>1. CASE h \notin Reported(Only(h), r)
  BY <1>1 DEF ExplainTrackerExit
<1>2. CASE h \in Reported(Only(h), r)
  <2>1. "warning" \in TrackerFindings(Only(h), r, h)
    BY DEF TrackerFindings
  <2>2. Worst(TrackerFindings(Only(h), r, h)) \in {"critical", "warning"}
    <3>1. ASSUME NEW S, "warning" \in S
          PROVE  Worst(S) \in {"critical", "warning"}
      BY <3>1 DEF Worst
    <3>2. QED
      BY <2>1, <3>1
  <2>3. QED
    BY <1>2, <2>2 DEF ExplainTrackerExit, SeverityExit
<1>3. QED
  BY <1>1, <1>2

LEMMA StatusExits ==
  /\ \A listing : HealthExit(InstanceHealth(listing)) # 3
  /\ \A f, r : /\ HealthExit(OverallHealth(f, r)) = 3 <=>
                     DOMAIN r # {} /\ Failures(r) = DOMAIN r
               /\ HealthExit(OverallHealth(f, r)) = 0 =>
                     /\ Failures(r) = {}
                     /\ TrackerHealths(f, r) \cap {"critical", "warning", "unknown"} = {}
<1>1. ASSUME NEW listing
      PROVE  HealthExit(InstanceHealth(listing)) # 3
  <2>1. InstanceHealth(listing) \in {"healthy", "warning", "critical"}
    BY DEF InstanceHealth
  <2>2. QED
    BY <2>1, ExitCodes
<1>2. ASSUME NEW f, NEW r
      PROVE  /\ HealthExit(OverallHealth(f, r)) = 3 <=>
                     DOMAIN r # {} /\ Failures(r) = DOMAIN r
             /\ HealthExit(OverallHealth(f, r)) = 0 =>
                     /\ Failures(r) = {}
                     /\ TrackerHealths(f, r) \cap {"critical", "warning", "unknown"} = {}
  <2>1. CASE DOMAIN r # {} /\ Failures(r) = DOMAIN r
    <3>1. OverallHealth(f, r) = "unavailable"
      BY <2>1 DEF OverallHealth
    <3>2. QED
      BY <2>1, <3>1, ExitCodes
  <2>2. CASE ~(DOMAIN r # {} /\ Failures(r) = DOMAIN r)
    <3>1. /\ OverallHealth(f, r) \in {"healthy", "warning", "critical"}
          /\ OverallHealth(f, r) = "healthy" =>
                /\ Failures(r) = {}
                /\ TrackerHealths(f, r) \cap {"critical", "warning", "unknown"} = {}
      BY <2>2 DEF OverallHealth
    <3>2. HealthExit("warning") = 1 /\ HealthExit("critical") = 2
      BY DEF HealthExit
    <3>3. HealthExit(OverallHealth(f, r)) # 3
      BY <3>1, ExitCodes
    <3>4. HealthExit(OverallHealth(f, r)) = 0 => OverallHealth(f, r) = "healthy"
      BY <3>1, <3>2
    <3>5. QED
      BY <2>2, <3>1, <3>3, <3>4
  <2>3. QED
    BY <2>1, <2>2
<1>3. QED
  BY <1>1, <1>2

\* doctor passes only what it has read.
LEMMA DoctorReads ==
  ASSUME ReadInv, Finish, cmd.op = "doctor", StatusExit(DoctorStatus) = 0
  PROVE  /\ got.login = "ok" /\ got.version # Unknown /\ got.api # Unknown
         /\ got.transfer # Unknown /\ got.listing # Unknown
<1> DEFINE results == {Check(cmd.host, got.login, got, c) : c \in Checks}
<1>1. "fail" \notin results
  <2>1. "fail" \in results => StatusExit(DoctorStatus) = 2
    BY DEF DoctorStatus, OverallStatus, StatusExit
  <2>2. QED
    BY <2>1
<1>2. \A c \in Checks : Check(cmd.host, got.login, got, c) # "fail"
  BY <1>1
<1>3. got.login \in {"ok", "refused", "unreachable"}
  <2>1. InOrder /\ requests = << >>
    BY DEF Finish, ReadInv
  <2>2. \A x : ~Asks(requests, x)
    BY <2>1, EmptySeq DEF Asks
  <2>3. QED
    BY <2>1, <2>2 DEF InOrder
<1>4. cmd.host # "none"
  <2>1. Check(cmd.host, got.login, got, "CFG001") # "fail"
    BY <1>2 DEF Checks
  <2>2. QED
    BY <2>1 DEF Check
<1>5. got.login # "unreachable"
  <2>1. Check(cmd.host, got.login, got, "CONN001") # "fail"
    BY <1>2 DEF Checks
  <2>2. QED
    BY <1>4, <2>1 DEF Check
<1>6. got.login # "refused"
  <2>1. Check(cmd.host, got.login, got, "CONN002") # "fail"
    BY <1>2 DEF Checks
  <2>2. QED
    BY <1>4, <1>5, <2>1 DEF Check
<1>7. got.login = "ok"
  BY <1>3, <1>5, <1>6
<1>8. got.version # Unknown
  <2>1. Check(cmd.host, got.login, got, "CONN003") # "fail"
    BY <1>2 DEF Checks
  <2>2. QED
    BY <1>7, <2>1 DEF Check
<1>9. got.api # Unknown
  <2>1. Check(cmd.host, got.login, got, "CONN004") # "fail"
    BY <1>2 DEF Checks
  <2>2. QED
    BY <1>7, <2>1 DEF Check
<1>10. got.listing # Unknown
  <2>1. Check(cmd.host, got.login, got, "RUNTIME001") # "fail"
    BY <1>2 DEF Checks
  <2>2. QED
    BY <1>7, <2>1 DEF Check
<1>11. got.transfer # Unknown
  <2>1. Check(cmd.host, got.login, got, "RUNTIME002") # "fail"
    BY <1>2 DEF Checks
  <2>2. QED
    BY <1>7, <2>1 DEF Check
<1>12. QED
  BY <1>7, <1>8, <1>9, <1>10, <1>11

LEMMA HealthyTrackers ==
  ASSUME Given(cmd), cmd.op = "trackers_status",
         HealthExit(OverallHealth(Filter, reading)) = 0
  PROVE  \A e \in Judged : EndpointHealth(e.status) \in {"healthy", "disabled"}
<1>1. /\ Failures(reading) = {}
      /\ TrackerHealths(Filter, reading) \cap {"critical", "warning", "unknown"} = {}
  BY StatusExits
<1>2. Observed(Filter, reading) = DOMAIN reading
  <2>1. Filter.tracker_health = {}
    BY DEF Given, Filter
  <2>2. QED
    BY <1>1, <2>1 DEF Observed, Retained, MatchesHealth
<1>3. SUFFICES ASSUME NEW t \in DOMAIN reading, NEW e \in Real(reading[t]),
                      Filter.trackers \in {{}, {e.host}}
               PROVE  EndpointHealth(e.status) \in {"healthy", "disabled"}
  BY DEF Judged
<1>4. e.host \in Identities(reading[t])
  BY DEF Identities
<1>5. e.host \in Reported(Filter, reading)
  BY <1>2, <1>3, <1>4 DEF Reported
<1> DEFINE on == {u \in Observed(Filter, reading) : e.host \in Identities(reading[u])}
           healths == UNION {{EndpointHealth(x.status) :
                                 x \in {y \in Real(reading[u]) : y.host = e.host}} :
                             u \in on}
<1>6. Aggregate(Filter, reading, e.host).health = AggregateHealth(healths)
  BY DEF Aggregate
<1>7. EndpointHealth(e.status) \in healths
  <2>1. t \in on
    BY <1>2, <1>4
  <2>2. EndpointHealth(e.status) \in
           {EndpointHealth(x.status) : x \in {y \in Real(reading[t]) : y.host = e.host}}
    OBVIOUS
  <2>3. QED
    BY <2>1, <2>2
<1> HIDE DEF healths
<1>8. AggregateHealth(healths) \in TrackerHealths(Filter, reading)
  BY <1>5, <1>6 DEF TrackerHealths
<1>9. AggregateHealth(healths) \in {"healthy", "disabled"}
  BY <1>1, <1>8, AggregateValues
<1>10. QED
  BY <1>7, <1>9, AggregateIsWorst

Complete == requests = << >> /\ lookups = {}
Failing == cmd.op \notin {"explain_torrent", "trackers_list"} /\ Failures(reading) # {}
Unread == \E field \in DOMAIN got \ {"counters", "exported"} : got[field] = Unknown
NothingRead == DOMAIN reading # {} /\ \A t \in DOMAIN reading : reading[t] = Unknown

\* CleanExitMeansRead, with names for its parts
Clean ==
    pc = "done" =>
        /\ exit = 0 => Complete /\ got.login = "ok" /\ got.listing # Unknown /\ ~Failing
        /\ cmd.op = "doctor" /\ exit = 0 => ~Unread
        /\ cmd.op = "backup" /\ exit = 0 /\ seen = {lib} =>
              Identical(Export(got.exported, Usage(Normalized(reading))), ExportOf(lib))
        /\ cmd.op = "status" => ((exit = 3) <=> (got.listing = Unknown))
        /\ cmd.op = "trackers_status" => ((exit = 3) <=> (Complete /\ NothingRead))
        /\ cmd.op = "trackers_status" /\ exit = 0 =>
               \A e \in Judged : EndpointHealth(e.status) \in {"healthy", "disabled"}

LEMMA CleanParts == Clean <=> CleanExitMeansRead
BY DEF CleanExitMeansRead, Clean, Complete, Failing, Unread, NothingRead, Judged

LEMMA CleanFinish ==
  ASSUME CommandType, ReadInv, Finish
  PROVE  Clean'
<1>1. /\ cmd \in Command /\ Given(cmd) /\ InOrder /\ Covered /\ Exported /\ Complete
      /\ cmd.op # "doctor" => /\ got.login = "ok" /\ got.listing \in Libraries
                              /\ got.listing # Unknown
  BY FinishHasListing DEF Complete
<1>2. UNCHANGED <<cmd, requests, lookups, got, reading, seen, lib>> /\ DOMAIN got = Fields
  BY NothingFields DEF Finish, world, ReadInv
<1>3. \/ exit' = Error /\ cmd.request.hash # NoHash
      \/ exit' = ExitOf(Found)
  BY DEF Finish, Leave
<1>4. \/ exit' = ExitOf(Found)
      \/ exit' = 1 /\ cmd.op \in {"stats", "inspect_hash", "explain_torrent"}
  BY <1>1, <1>3 DEF Given, Error
<1>5. cmd.op = "doctor" /\ exit' = 0 =>
         got.login = "ok" /\ got.listing # Unknown /\ ~Unread
  <2>1. SUFFICES ASSUME cmd.op = "doctor", exit' = 0
                 PROVE  got.login = "ok" /\ got.listing # Unknown /\ ~Unread
    OBVIOUS
  <2>2. StatusExit(DoctorStatus) = 0
    BY <1>4, <2>1 DEF ExitOf
  <2>3. /\ got.login = "ok" /\ got.version # Unknown /\ got.api # Unknown
        /\ got.transfer # Unknown /\ got.listing # Unknown
    BY <2>1, <2>2, DoctorReads
  <2>4. QED
    BY <1>2, <2>3, ReadAssumption DEF Unread, Fields
<1>6. exit' = 0 => ~Failing
  <2>1. SUFFICES ASSUME exit' = 0, Failing
                 PROVE  FALSE
    OBVIOUS
  <2>2. PICK t \in DOMAIN reading : reading[t] = Unknown
    BY <2>1 DEF Failing, Failures
  <2>3. ToleratesLookup(cmd)
    <3>1. \A l \in seen : t \in DOMAIN l => l[t].trackers # Unknown
      BY ReadAssumption DEF CommandType
    <3>2. QED
      BY <1>1, <2>2, <3>1 DEF Covered
  <2>4. CASE cmd.op = "trackers_status"
    <3>1. HealthExit(OverallHealth(Filter, reading)) = 0
      BY <1>4, <2>1, <2>4 DEF ExitOf
    <3>2. QED
      BY <2>1, <3>1, StatusExits DEF Failing
  <2>5. CASE cmd.op = "explain_tracker"
    <3>1. ExplainTrackerExit(reading, cmd.tracker) = 0
      BY <1>4, <2>1, <2>5 DEF ExitOf
    <3>2. QED
      BY <2>1, <3>1, FindingExits DEF Failing
  <2>6. QED
    BY <2>1, <2>3, <2>4, <2>5 DEF ToleratesLookup, Failing
<1>7. cmd.op = "backup" /\ seen = {lib} =>
         Identical(Export(got.exported, Usage(Normalized(reading))), ExportOf(lib))
  <2>1. SUFFICES ASSUME cmd.op = "backup", seen = {lib}
                 PROVE  Identical(Export(got.exported, Usage(Normalized(reading))),
                                  ExportOf(lib))
    OBVIOUS
  <2>2. \A x : ~Asks(requests, x)
    BY FinishHasListing
  <2>3. /\ got.exported = Normalized(TrackersOf(lib))
        /\ reading = TrackersOf(lib)
    BY <1>1, <2>1, <2>2 DEF Exported, Complete, TrackersOf
  <2>4. Export(got.exported, Usage(Normalized(reading))) = ExportOf(lib)
    BY <2>3 DEF ExportOf, TrackersOf
  <2>5. \A a : Differences(a, a) = {}
    BY DEF Differences, Changed
  <2>6. QED
    BY <2>4, <2>5 DEF Identical
<1>8. cmd.op = "status" => exit' # 3 /\ got.listing # Unknown
  <2>1. SUFFICES ASSUME cmd.op = "status"
                 PROVE  exit' # 3
    BY <1>1
  <2>2. exit' = HealthExit(InstanceHealth(got.listing))
    BY <1>4, <2>1 DEF ExitOf
  <2>3. QED
    BY <2>2, StatusExits
<1>9. cmd.op = "trackers_status" => ((exit' = 3) <=> NothingRead)
  <2>1. SUFFICES ASSUME cmd.op = "trackers_status"
                 PROVE  (exit' = 3) <=> NothingRead
    OBVIOUS
  <2>2. exit' = HealthExit(OverallHealth(Filter, reading))
    BY <1>4, <2>1 DEF ExitOf
  <2>3. Failures(reading) = DOMAIN reading <=> \A t \in DOMAIN reading : reading[t] = Unknown
    BY DEF Failures
  <2>4. QED
    BY <2>2, <2>3, StatusExits DEF NothingRead
<1>10. cmd.op = "trackers_status" /\ exit' = 0 =>
          \A e \in Judged : EndpointHealth(e.status) \in {"healthy", "disabled"}
  <2>1. cmd.op = "trackers_status" => exit' = HealthExit(OverallHealth(Filter, reading))
    BY <1>4 DEF ExitOf
  <2>2. QED
    BY <1>1, <2>1, HealthyTrackers
<1>11. /\ Complete' = Complete /\ Failing' = Failing /\ Unread' = Unread
       /\ NothingRead' = NothingRead /\ Judged' = Judged
  BY <1>2 DEF Complete, Failing, Unread, NothingRead, Judged, Filter
<1>12. Export(got.exported, Usage(Normalized(reading)))' =
          Export(got.exported, Usage(Normalized(reading)))
       /\ ExportOf(lib)' = ExportOf(lib)
  BY <1>2
<1>13. QED
  BY <1>1, <1>2, <1>5, <1>6, <1>7, <1>8, <1>9, <1>10, <1>11, <1>12 DEF Clean

LEMMA CleanStep ==
  ASSUME TypeOK, ReadInv, Clean, [Next]_vars
  PROVE  Clean'
<1>1. SUFFICES ASSUME pc' = "done"
               PROVE  Clean'
  BY DEF Clean
<1>2. CommandType
  BY TypeParts
<1>3. CASE UNCHANGED <<command, world>>
  BY <1>3 DEF command, world, Clean, Complete, Failing, Unread, NothingRead, Judged, Filter
<1>4. CASE Refuse
  <2>1. DOMAIN reading' = {} /\ exit' \in {1, 4}
    BY <1>4, RefusedForms DEF ReadInv, Error, InvalidUsage
  <2>2. cmd'.op \notin {"doctor", "status", "backup"}
    BY <1>4, RefusedForms
  <2>3. ~NothingRead'
    BY <2>1 DEF NothingRead
  <2>4. QED
    BY <2>1, <2>2, <2>3 DEF Clean
<1>5. CASE RequestFails /\ ~Tolerates(cmd, Head(requests))
  <2>1. /\ pc = "reading" /\ requests # << >> /\ UNCHANGED <<cmd, requests, lookups, got>>
        /\ exit' = IF cmd.op = "status" THEN 3 ELSE 1
    BY <1>5, ExitCodes DEF RequestFails, Leave, Error
  <2>2. cmd.op = "status" => got.listing = Unknown
    <3>1. InOrder /\ Queue(requests, cmd) /\ requests \in Seq(Kinds)
      BY <2>1 DEF ReadInv, InOrder, Queue
    <3>2. Len(requests) \in Nat /\ Len(requests) > 0
      BY <2>1, <3>1, EmptySeq
    <3>3. Len(requests) \in 1..Len(requests)
      BY <3>2
    <3>4. cmd.op = "status" => Asks(requests, "listing")
      BY <2>1, <3>1, <3>3 DEF Queue, Asks
    <3>5. QED
      BY <3>1, <3>4 DEF InOrder
  <2>3. ~Complete'
    BY <2>1 DEF Complete
  <2>4. cmd.op = "trackers_status" => exit' = 1
    BY <2>1
  <2>5. QED
    BY <2>1, <2>2, <2>3, <2>4 DEF Clean
<1>6. CASE LookUpFails /\ ~ToleratesLookup(cmd)
  <2>1. /\ pc = "reading" /\ lookups # {} /\ UNCHANGED <<cmd, got>> /\ exit' = 1
    BY <1>6 DEF LookUpFails, Leave, Error
  <2>2. Given(cmd) /\ Covered
    BY <2>1 DEF ReadInv
  <2>3. cmd.op # "status"
    <3>1. SUFFICES ASSUME cmd.op = "status"
                   PROVE  FALSE
      OBVIOUS
    <3>2. lookups \subseteq ToLookUp(cmd, got.listing)
      BY <2>1, <2>2, <3>1 DEF Covered
    <3>3. ToLookUp(cmd, got.listing) = {}
      BY <2>2, <3>1 DEF ToLookUp, Given, InBulk, OneByOne, InListing
    <3>4. QED
      BY <2>1, <3>2, <3>3
  <2>4. cmd.op # "trackers_status"
    BY <1>6 DEF ToleratesLookup
  <2>5. QED
    BY <2>1, <2>3, <2>4 DEF Clean
<1>7. CASE Finish
  BY <1>2, <1>7, CleanFinish
<1>8. QED
  BY <1>1, <1>3, <1>4, <1>5, <1>6, <1>7, DoneForms

\* An exit code of 0 is of a command that read all it judges; status and trackers
\* status say unavailable exactly when there is nothing to judge; and a backup of a
\* library that stood still is identical to the next one (cli/exit_codes.py and the
\* exit codes of each command).
THEOREM CleanExitIsRead == Spec => []CleanExitMeansRead
<1>1. Init => Clean
  BY DEF Init, InitOn, Clean
<1>2. QED
  BY <1>1, InitReads, NextReads, CleanStep, CleanParts, PTL DEF Spec

-----------------------------------------------------------------------------
(* What surfaces say of one library. *)

LEMMA StatesDoAgree ==
  ASSUME NEW listing, listing # Unknown
  PROVE  StatesAgree(listing)
<1> DEFINE severities == {TorrentSeverity(listing[t]) : t \in DOMAIN listing}
           named(g) == {t \in InGroup(listing, g) : listing[t].state # Blank}
<1>1. ASSUME NEW t \in DOMAIN listing
      PROVE  /\ TorrentSeverity(listing[t]) \in {"critical", "warning", "unknown", "info"}
             /\ TorrentSeverity(listing[t]) = "critical" <=> t \in InGroup(listing, "errored")
             /\ TorrentSeverity(listing[t]) = "warning" <=> t \in UnexplainedStalled(listing)
             /\ TorrentSeverity(listing[t]) = "unknown" <=> t \in InGroup(listing, "unknown")
  BY DEF TorrentSeverity, UnexplainedStalled, InGroup
<1>2. (InstanceHealth(listing) = "critical") <=> ("critical" \in severities)
  <2>1. InstanceHealth(listing) = "critical" <=> InGroup(listing, "errored") # {}
    BY DEF InstanceHealth
  <2>2. InGroup(listing, "errored") \subseteq DOMAIN listing
    BY DEF InGroup
  <2>3. QED
    BY <1>1, <2>1, <2>2
<1>3. (InstanceHealth(listing) = "healthy") <=> (severities \subseteq {"info"})
  <2>1. InstanceHealth(listing) = "healthy" <=>
           InGroup(listing, "errored") \cup UnexplainedStalled(listing)
              \cup InGroup(listing, "unknown") = {}
    BY DEF InstanceHealth
  <2>2. \A g : InGroup(listing, g) \subseteq DOMAIN listing
    BY DEF InGroup
  <2>3. UnexplainedStalled(listing) \subseteq DOMAIN listing
    BY <2>2 DEF UnexplainedStalled
  <2>4. QED
    BY <1>1, <2>1, <2>2, <2>3
<1>4. ASSUME NEW g \in Groups
      PROVE  Candidates(listing, [EmptyFilter EXCEPT !.states = {g}]) = named(g)
  <2> DEFINE f == [EmptyFilter EXCEPT !.states = {g}]
  <2>1. ASSUME NEW item
        PROVE  MatchesCheap(f, item) <=> item.state # Blank /\ Group(item.state) = g
    <3>1. MatchesOrganisation(f, item)
      BY DEF MatchesOrganisation, EmptyFilter
    <3>2. MatchesName(f, item)
      BY DEF MatchesName, EmptyFilter
    <3>3. MatchesState(f, item) <=> item.state # Blank /\ Group(item.state) = g
      BY DEF MatchesState, EmptyFilter
    <3>4. MatchesMeasures(f, item)
      BY DEF MatchesMeasures, EmptyFilter, InRange
    <3>5. QED
      BY <3>1, <3>2, <3>3, <3>4 DEF MatchesCheap
  <2> HIDE DEF f
  <2>2. Candidates(listing, f) = named(g)
    BY <2>1 DEF Candidates, InGroup
  <2>3. QED
    BY <2>2 DEF f
<1>5. Candidates(listing, [EmptyFilter EXCEPT !.completed = TRUE]) = Completed(listing)
  <2> DEFINE f == [EmptyFilter EXCEPT !.completed = TRUE]
  <2>1. ASSUME NEW item
        PROVE  MatchesCheap(f, item) <=> IsCompleted(item)
    <3>1. MatchesOrganisation(f, item)
      BY DEF MatchesOrganisation, EmptyFilter
    <3>2. MatchesName(f, item)
      BY DEF MatchesName, EmptyFilter
    <3>3. MatchesState(f, item) <=> IsCompleted(item)
      <4>1. IsCompleted(item) => item.measure["progress"] # Unknown
        BY DEF IsCompleted, OrZero
      <4>2. (IsCompleted(item) = TRUE) <=> IsCompleted(item)
        BY DEF IsCompleted
      <4>3. /\ f.states = {} /\ f.states_excluded = {} /\ f.completed = TRUE
            /\ f.active = Unset /\ f.stalled = Unset /\ f.errored = Unset /\ f.private = Unset
        BY DEF EmptyFilter
      <4>4. f.completed # Unset
        BY <4>3, ReadAssumption
      <4> HIDE DEF f
      <4>5. QED
        BY <4>1, <4>2, <4>3, <4>4 DEF MatchesState
    <3>4. MatchesMeasures(f, item)
      BY DEF MatchesMeasures, EmptyFilter, InRange
    <3>5. QED
      BY <3>1, <3>2, <3>3, <3>4 DEF MatchesCheap
  <2> HIDE DEF f
  <2>2. Candidates(listing, f) = Completed(listing)
    BY <2>1 DEF Candidates, Completed
  <2>3. QED
    BY <2>2 DEF f
<1>6. Check("plain", "ok", [Nothing EXCEPT !.listing = listing], "RUNTIME003") =
         IF named("unknown") # {} THEN "warning" ELSE "pass"
  <2>1. [Nothing EXCEPT !.listing = listing].listing = listing
    BY DEF Nothing
  <2>2. QED
    BY <2>1 DEF Check
<1>7. QED
  BY <1>2, <1>3, <1>4, <1>5, <1>6 DEF StatesAgree

LEMMA OneTracker ==
  ASSUME NEW r, NEW h, h \in Reported(Only(h), r)
  PROVE  ExplainTrackerExit(r, h) = HealthExit(OverallHealth(Only(h), r))
<1> DEFINE a == Aggregate(Only(h), r, h).health
<1>1. a \in {"healthy", "disabled", "critical", "unknown", "warning"}
  BY AggregateValues DEF Aggregate
<1>2. TrackerHealths(Only(h), r) = {a}
  <2>1. Only(h).trackers = {h}
    BY DEF Only, EmptyFilter
  <2>2. Reported(Only(h), r) = {h}
    BY <2>1 DEF Reported
  <2>3. QED
    BY <2>2 DEF TrackerHealths
<1>3. ~(DOMAIN r # {} /\ Failures(r) = DOMAIN r)
  <2>1. Observed(Only(h), r) # {}
    BY DEF Reported
  <2>2. QED
    BY <2>1 DEF Observed, Retained
<1>4. TrackerFindings(Only(h), r, h) =
         {CASE a = "critical" -> "critical" [] a = "warning" -> "warning"
            [] a = "unknown" -> "unknown" [] OTHER -> "info"}
         \cup (IF Failures(r) = {} THEN {} ELSE {"warning"})
  BY DEF TrackerFindings
<1>5. ExplainTrackerExit(r, h) = SeverityExit(Worst(TrackerFindings(Only(h), r, h)))
  BY DEF ExplainTrackerExit
<1> HIDE DEF a
<1>6. OverallHealth(Only(h), r) =
         IF a = "critical" THEN "critical"
         ELSE IF Failures(r) # {} \/ a \in {"warning", "unknown"} THEN "warning"
         ELSE "healthy"
  BY <1>2, <1>3 DEF OverallHealth
<1>7. CASE a = "critical"
  <2>1. "critical" \in TrackerFindings(Only(h), r, h)
    BY <1>4, <1>7
  <2>2. Worst(TrackerFindings(Only(h), r, h)) = "critical"
    BY <2>1 DEF Worst
  <2>3. QED
    BY <1>5, <1>6, <1>7, <2>2 DEF SeverityExit, HealthExit
<1>8. CASE a # "critical" /\ (Failures(r) # {} \/ a \in {"warning", "unknown"})
  <2>1. /\ "critical" \notin TrackerFindings(Only(h), r, h)
        /\ TrackerFindings(Only(h), r, h) \cap {"warning", "unknown"} # {}
    BY <1>1, <1>4, <1>8
  <2>2. Worst(TrackerFindings(Only(h), r, h)) \in {"warning", "unknown"}
    BY <2>1 DEF Worst
  <2>3. QED
    BY <1>5, <1>6, <1>8, <2>2 DEF SeverityExit, HealthExit
<1>9. CASE Failures(r) = {} /\ a \in {"healthy", "disabled"}
  <2>1. TrackerFindings(Only(h), r, h) = {"info"}
    BY <1>4, <1>9
  <2>2. Worst(TrackerFindings(Only(h), r, h)) = "info"
    BY <2>1 DEF Worst
  <2>3. QED
    BY <1>5, <1>6, <1>9, <2>2 DEF SeverityExit, HealthExit
<1>10. QED
  BY <1>1, <1>7, <1>8, <1>9

LEMMA TrackersDoAgree ==
  ASSUME NEW listing
  PROVE  TrackersAgree(listing)
<1>1. ASSUME NEW r, NEW g, NEW h, g # h
      PROVE  Aggregate(EmptyFilter, r, g).exclusive
                \cap Aggregate(EmptyFilter, r, h).exclusive = {}
  <2>1. {g} # {h}
    BY <1>1
  <2>2. QED
    BY <2>1 DEF Aggregate
<1>2. QED
  BY <1>1, OneTracker DEF TrackersAgree

\* The least of some tiers
LEMMA LeastTier ==
  ASSUME NEW S \in SUBSET (1..7), S # {}
  PROVE  \E i \in S : \A j \in S : i <= j
<1>1. CASE 1 \in S
  BY <1>1
<1>2. CASE 1 \notin S /\ 2 \in S
  BY <1>2
<1>3. CASE {1, 2} \cap S = {} /\ 3 \in S
  BY <1>3
<1>4. CASE {1, 2, 3} \cap S = {} /\ 4 \in S
  BY <1>4
<1>5. CASE {1, 2, 3, 4} \cap S = {} /\ 5 \in S
  BY <1>5
<1>6. CASE {1, 2, 3, 4, 5} \cap S = {} /\ 6 \in S
  BY <1>6
<1>7. CASE {1, 2, 3, 4, 5, 6} \cap S = {}
  <2>1. \A j \in S : j = 7
    BY <1>7
  <2>2. 7 \in S
    BY <2>1
  <2>3. \A j \in S : 7 <= j
    BY <2>1
  <2>4. QED
    BY <2>2, <2>3
<1>8. QED
  BY <1>1, <1>2, <1>3, <1>4, <1>5, <1>6, <1>7

Fitting(q, t, name) == {i \in 1..Ladder[q.mode] : Fits(Tiers[i], q.text, t, name)}

LEMMA TierValue ==
  ASSUME NEW q, q.mode \in DOMAIN Ladder, NEW t, NEW name
  PROVE  /\ Ladder[q.mode] \in 1..7
         /\ Fitting(q, t, name) = {} => TierOf(q, t, name) = 0
         /\ Fitting(q, t, name) # {} =>
               /\ TierOf(q, t, name) \in Fitting(q, t, name)
               /\ \A j \in Fitting(q, t, name) : TierOf(q, t, name) <= j
<1>1. Ladder[q.mode] \in 1..7
  BY DEF Ladder
<1> DEFINE S == Fitting(q, t, name)
<1>2. S \in SUBSET (1..7)
  BY <1>1 DEF Fitting
<1>3. TierOf(q, t, name) = IF S = {} THEN 0 ELSE CHOOSE i \in S : \A j \in S : i <= j
  BY DEF TierOf, Fitting
<1> HIDE DEF S
<1>4. S # {} => \E i \in S : \A j \in S : i <= j
  BY <1>2, LeastTier
<1>5. QED
  BY <1>1, <1>3, <1>4 DEF S

LEMMA SearchesDoAgree ==
  ASSUME NEW listing
  PROVE  SearchesAgree(listing)
<1>1. SUFFICES ASSUME NEW t \in DOMAIN listing, NEW q \in Queries
               PROVE  LET tier(w) == TierOf(w, t, listing[t].name)
                      IN /\ Mentions(listing[t].name, q.text) /\ Ladder[q.mode] > 2
                               => tier(q) > 0
                         /\ \A w \in Queries :
                               w.text = q.text /\ Ladder[q.mode] <= Ladder[w.mode]
                               => tier(q) \in {0, tier(w)}
  BY DEF SearchesAgree
<1> DEFINE name == listing[t].name
           fits(w) == Fitting(w, t, name)
           tier(w) == TierOf(w, t, name)
<1>2. \A w \in Queries : w.mode \in DOMAIN Ladder
  BY ReadAssumption
<1>3. ASSUME Mentions(name, q.text), Ladder[q.mode] > 2
      PROVE  tier(q) > 0
  <2>1. Ladder[q.mode] >= 4
    BY <1>2, <1>3 DEF Ladder
  <2>2. Fits(Tiers[4], q.text, t, name)
    BY <1>3 DEF Tiers, Fits
  <2>3. 4 \in fits(q)
    BY <1>2, <2>1, <2>2, TierValue DEF Fitting
  <2>4. tier(q) \in fits(q)
    BY <1>2, <2>3, TierValue
  <2>5. tier(q) \in 1..Ladder[q.mode] /\ Ladder[q.mode] \in 1..7
    BY <1>2, <2>4, TierValue DEF Fitting
  <2>6. QED
    BY <2>5
<1>4. ASSUME NEW w \in Queries, w.text = q.text, Ladder[q.mode] <= Ladder[w.mode]
      PROVE  tier(q) \in {0, tier(w)}
  <2>1. CASE fits(q) = {}
    BY <1>2, <2>1, TierValue
  <2>2. CASE fits(q) # {}
    <3>1. Ladder[q.mode] \in 1..7 /\ Ladder[w.mode] \in 1..7
      BY <1>2, TierValue
    <3>2. fits(q) = {i \in fits(w) : i <= Ladder[q.mode]}
      BY <1>4, <3>1 DEF Fitting
    <3>3. /\ tier(q) \in fits(q) /\ \A j \in fits(q) : tier(q) <= j
          /\ tier(w) \in fits(w) /\ \A j \in fits(w) : tier(w) <= j
      BY <1>2, <2>2, <3>2, TierValue
    <3>4. tier(q) \in 1..Ladder[q.mode] /\ tier(w) \in 1..Ladder[w.mode]
      BY <3>3 DEF Fitting
    <3>5. tier(q) \in fits(w) /\ tier(w) <= tier(q)
      BY <3>2, <3>3
    <3>6. tier(w) \in fits(q)
      BY <3>1, <3>2, <3>3, <3>4, <3>5
    <3>7. tier(q) <= tier(w)
      BY <3>3, <3>6
    <3>8. QED
      BY <3>1, <3>4, <3>5, <3>7
  <2>3. QED
    BY <2>1, <2>2
<1>5. QED
  BY <1>3, <1>4

-----------------------------------------------------------------------------
(* The order of a listing, and its pages. *)

\* Among the numbers in T there is a least.
LEMMA LeastNumber ==
  ASSUME NEW T \in SUBSET Nat, T # {}
  PROVE  \E n \in T : \A m \in T : n <= m
<1>1. IsWellFoundedOn(OpToRel(<, Nat), Nat)
  BY NatLessThanWellFounded
<1>2. PICK n \in T : \A m \in T : ~(<<m, n>> \in OpToRel(<, Nat))
  BY <1>1, WFMin
<1>3. \A m \in T : ~(m < n)
  BY <1>2 DEF OpToRel
<1>4. QED
  BY <1>3

\* Names in the order of their first difference
Differ(a, b, i) ==
  /\ i \in 1..Len(b) /\ i <= Len(a) + 1
  /\ \A j \in 1..(i - 1) : a[j] = b[j]
  /\ i > Len(a) \/ a[i] < b[i]

LEMMA NamesDiffer ==
  ASSUME NEW a \in Seq(Nat), NEW b \in Seq(Nat)
  PROVE  NameBefore(a, b) <=> \E i \in 1..Len(b) : Differ(a, b, i)
<1>1. ASSUME NEW i \in 1..Len(b), i <= Len(a) + 1
      PROVE  SubSeq(a, 1, i - 1) = SubSeq(b, 1, i - 1)
                <=> \A j \in 1..(i - 1) : a[j] = b[j]
  <2> DEFINE p == SubSeq(a, 1, i - 1)
             q == SubSeq(b, 1, i - 1)
  <2>1. i - 1 \in Nat /\ i - 1 <= Len(a) /\ i - 1 <= Len(b)
    BY <1>1
  <2>2. p = [j \in 1..(i - 1) |-> a[j]] /\ q = [j \in 1..(i - 1) |-> b[j]]
    BY <2>1
  <2> HIDE DEF p, q
  <2>3. QED
    BY <2>2
<1>2. QED
  BY <1>1 DEF NameBefore, Differ

LEMMA NamesAreOrdered ==
  ASSUME NEW a \in Seq(Nat), NEW b \in Seq(Nat), NEW c \in Seq(Nat)
  PROVE  /\ ~NameBefore(a, a)
         /\ NameBefore(a, b) /\ NameBefore(b, c) => NameBefore(a, c)
         /\ a # b => NameBefore(a, b) \/ NameBefore(b, a)
<1>0. Len(a) \in Nat /\ Len(b) \in Nat /\ Len(c) \in Nat
  OBVIOUS
<1>1. ~NameBefore(a, a)
  <2>1. ASSUME NEW i \in 1..Len(a), Differ(a, a, i) PROVE FALSE
    <3>1. a[i] \in Nat /\ ~(i > Len(a))
      OBVIOUS
    <3>2. QED
      BY <2>1, <3>1 DEF Differ
  <2>2. QED
    BY <2>1, NamesDiffer
<1>2. ASSUME NameBefore(a, b), NameBefore(b, c)
      PROVE  NameBefore(a, c)
  <2>1. PICK i \in 1..Len(b) : Differ(a, b, i)
    BY <1>2, NamesDiffer
  <2>2. PICK k \in 1..Len(c) : Differ(b, c, k)
    BY <1>2, NamesDiffer
  <2>3. CASE i < k
    <3>1. i \in 1..Len(c) /\ b[i] = c[i] /\ \A j \in 1..(i - 1) : j \in 1..(k - 1)
      BY <2>2, <2>3 DEF Differ
    <3>2. Differ(a, c, i)
      BY <2>1, <2>2, <3>1 DEF Differ
    <3>3. QED
      BY <3>1, <3>2, NamesDiffer
  <2>4. CASE i = k
    <3>1. b[i] \in Nat /\ c[i] \in Nat /\ b[i] < c[i]
      BY <2>2, <2>4 DEF Differ
    <3>2. i > Len(a) \/ a[i] < c[i]
      <4>1. CASE i > Len(a)
        BY <4>1
      <4>2. CASE ~(i > Len(a))
        <5>1. a[i] \in Nat /\ a[i] < b[i]
          BY <1>0, <2>1, <4>2 DEF Differ
        <5>2. QED
          BY <3>1, <5>1
      <4>3. QED
        BY <4>1, <4>2
    <3>3. Differ(a, c, i)
      BY <2>1, <2>2, <2>4, <3>2 DEF Differ
    <3>4. QED
      BY <2>4, <3>3, NamesDiffer
  <2>5. CASE k < i
    <3>1. /\ k \in 1..Len(b) /\ a[k] = b[k] /\ k <= Len(a) + 1
          /\ \A j \in 1..(k - 1) : j \in 1..(i - 1)
      BY <1>0, <2>1, <2>5 DEF Differ
    <3>2. b[k] < c[k]
      BY <1>0, <2>2, <3>1 DEF Differ
    <3>3. Differ(a, c, k)
      BY <2>1, <2>2, <3>1, <3>2 DEF Differ
    <3>4. QED
      BY <3>3, NamesDiffer
  <2>6. QED
    BY <2>3, <2>4, <2>5
<1>3. ASSUME a # b
      PROVE  NameBefore(a, b) \/ NameBefore(b, a)
  <2> DEFINE Same(i) == i <= Len(a) /\ i <= Len(b) /\ a[i] = b[i]
             T == {i \in Nat : i >= 1 /\ ~Same(i)}
  <2>1. Len(a) + 1 \in T
    BY <1>0
  <2>2. PICK i \in T : \A m \in T : i <= m
    BY <2>1, LeastNumber
  <2>3. i \in Nat /\ i >= 1 /\ ~Same(i) /\ \A j \in 1..(i - 1) : Same(j)
    BY <2>2
  <2>4. i <= Len(a) + 1 /\ i <= Len(b) + 1
    <3>1. CASE i = 1
      BY <1>0, <3>1
    <3>2. CASE i # 1
      <4>1. Same(i - 1)
        BY <2>3, <3>2
      <4>2. QED
        BY <1>0, <2>3, <4>1
    <3>3. QED
      BY <3>1, <3>2
  <2>5. ~(i > Len(a) /\ i > Len(b))
    <3>1. ASSUME i > Len(a), i > Len(b) PROVE FALSE
      <4>1. Len(a) = i - 1 /\ Len(b) = i - 1
        BY <1>0, <2>3, <2>4, <3>1
      <4>2. a = b
        BY <2>3, <4>1
      <4>3. QED
        BY <1>3, <4>2
    <3>2. QED
      BY <3>1
  <2>6. CASE i > Len(a)
    <3>1. i \in 1..Len(b)
      BY <1>0, <2>3, <2>5, <2>6
    <3>2. Differ(a, b, i)
      BY <2>3, <2>4, <2>6, <3>1 DEF Differ
    <3>3. QED
      BY <3>1, <3>2, NamesDiffer
  <2>7. CASE i > Len(b)
    <3>1. i \in 1..Len(a)
      BY <1>0, <2>3, <2>5, <2>7
    <3>2. Differ(b, a, i)
      BY <2>3, <2>4, <2>7, <3>1 DEF Differ
    <3>3. QED
      BY <3>1, <3>2, NamesDiffer
  <2>8. CASE i <= Len(a) /\ i <= Len(b)
    <3>1. i \in 1..Len(a) /\ i \in 1..Len(b) /\ a[i] \in Nat /\ b[i] \in Nat
      BY <1>0, <2>3, <2>8
    <3>2. a[i] < b[i] \/ b[i] < a[i]
      BY <2>3, <2>8, <3>1
    <3>3. Differ(a, b, i) \/ Differ(b, a, i)
      BY <2>3, <2>4, <3>1, <3>2 DEF Differ
    <3>4. QED
      BY <3>1, <3>3, NamesDiffer
  <2>9. QED
    BY <1>0, <2>3, <2>6, <2>7, <2>8
<1>4. QED
  BY <1>1, <1>2, <1>3

\* R is a strict order of S in which any two are comparable.
Orders(R, S) ==
  /\ \A t \in S : <<t, t>> \notin R
  /\ \A t, u, w \in S : <<t, u>> \in R /\ <<u, w>> \in R => <<t, w>> \in R
  /\ \A t, u \in S : t # u => <<t, u>> \in R \/ <<u, t>> \in R

Under(R, S, t) == {u \in S : <<u, t>> \in R}

\* A sequence of every element of S, each once
Lists(q, S) ==
  /\ q \in Seq(S) /\ ToSet(q) = S
  /\ \A i, j \in 1..Len(q) : q[i] = q[j] => i = j

\* In a finite set each has a place of its own, and no place is left empty.
LEMMA PlacesAreTaken ==
  ASSUME NEW S, IsFiniteSet(S), NEW R, Orders(R, S)
  PROVE  /\ Cardinality(S) \in Nat
         /\ \A t \in S : Cardinality(Under(R, S, t)) + 1 \in 1..Cardinality(S)
         /\ \A t, u \in S : Cardinality(Under(R, S, t)) = Cardinality(Under(R, S, u))
                               => t = u
         /\ \A i \in 1..Cardinality(S) :
               \E t \in S : Cardinality(Under(R, S, t)) = i - 1
<1> DEFINE n == Cardinality(S)
           place(t) == Cardinality(Under(R, S, t)) + 1
<1>1. n \in Nat
  BY FS_CardinalityType
<1>2. ASSUME NEW t \in S
      PROVE  IsFiniteSet(Under(R, S, t)) /\ place(t) \in 1..n
  <2>1. Under(R, S, t) \in SUBSET (S \ {t})
    BY DEF Under, Orders
  <2>2. IsFiniteSet(S \ {t}) /\ Cardinality(S \ {t}) = n - 1
    BY FS_RemoveElement
  <2>3. /\ IsFiniteSet(Under(R, S, t))
        /\ Cardinality(Under(R, S, t)) <= n - 1
        /\ Cardinality(Under(R, S, t)) \in Nat
    BY <2>1, <2>2, FS_Subset, FS_CardinalityType
  <2>4. QED
    BY <1>1, <2>3
<1>3. ASSUME NEW t \in S, NEW u \in S, <<t, u>> \in R
      PROVE  place(t) < place(u)
  <2>1. Under(R, S, t) \in SUBSET (Under(R, S, u) \ {t})
    BY <1>3 DEF Under, Orders
  <2>2. t \in Under(R, S, u)
    BY <1>3 DEF Under
  <2>3. /\ IsFiniteSet(Under(R, S, u) \ {t})
        /\ Cardinality(Under(R, S, u) \ {t}) = Cardinality(Under(R, S, u)) - 1
    BY <1>2, <2>2, FS_RemoveElement
  <2>4. Cardinality(Under(R, S, t)) <= Cardinality(Under(R, S, u)) - 1
    BY <2>1, <2>3, FS_Subset
  <2>5. Cardinality(Under(R, S, t)) \in Nat /\ Cardinality(Under(R, S, u)) \in Nat
    BY <1>2, FS_CardinalityType
  <2>6. QED
    BY <2>4, <2>5
<1>4. \A t, u \in S : place(t) = place(u) => t = u
  <2> SUFFICES ASSUME NEW t \in S, NEW u \in S, t # u PROVE place(t) # place(u)
    OBVIOUS
  <2>1. place(t) \in Nat /\ place(u) \in Nat
    BY <1>1, <1>2
  <2>2. <<t, u>> \in R \/ <<u, t>> \in R
    BY DEF Orders
  <2> HIDE DEF place
  <2>3. QED
    BY <1>3, <2>1, <2>2
<1>5. \A i \in 1..n : \E t \in S : place(t) = i
  <2> DEFINE f == [t \in S |-> place(t)]
  <2>1. f \in [S -> 1..n] /\ \A t \in S : f[t] = place(t)
    BY <1>2
  <2>2. f \in Injection(S, 1..n)
    <3> HIDE DEF place, f, n
    <3>1. QED
      BY <1>4, <2>1 DEF Injection, IsInjective
  <2>3. IsFiniteSet(1..n) /\ Cardinality(1..n) = n
    BY <1>1, FS_Interval
  <2>4. f \in Surjection(S, 1..n)
    <3> HIDE DEF f
    <3>1. QED
      BY <2>2, <2>3, FS_Injection
  <2>5. QED
    <3> HIDE DEF place, f, n
    <3>1. QED
      BY <2>1, <2>4 DEF Surjection
<1>6. \A t \in S : Cardinality(Under(R, S, t)) \in Nat
  BY <1>2, FS_CardinalityType
<1>7. ASSUME NEW i \in 1..n
      PROVE  \E t \in S : Cardinality(Under(R, S, t)) = i - 1
  <2>1. PICK t \in S : place(t) = i
    BY <1>5
  <2>2. Cardinality(Under(R, S, t)) = i - 1
    BY <1>6, <2>1
  <2>3. QED
    BY <2>2
<1>8. QED
  BY <1>1, <1>2, <1>4, <1>7

LEMMA FunctionIsSequence ==
  ASSUME NEW S, NEW n \in Nat, NEW q \in [1..n -> S]
  PROVE  q \in Seq(S) /\ Len(q) = n
OBVIOUS

LEMMA RankedLists ==
  ASSUME NEW S, IsFiniteSet(S), NEW R, Orders(R, S), NEW q,
         q = [i \in 1..Cardinality(S) |->
                 CHOOSE t \in S : Cardinality(Under(R, S, t)) = i - 1]
  PROVE  Lists(q, S)
<1> DEFINE n == Cardinality(S)
           c(t) == Cardinality(Under(R, S, t))
<1>1. /\ n \in Nat
      /\ \A t \in S : c(t) + 1 \in 1..n
      /\ \A t, u \in S : c(t) = c(u) => t = u
      /\ \A i \in 1..n : \E t \in S : c(t) = i - 1
  BY PlacesAreTaken
<1>9. q = [i \in 1..n |-> CHOOSE t \in S : c(t) = i - 1]
  OBVIOUS
<1>2. ASSUME NEW t \in S PROVE c(t) \in Nat
  <2>1. Under(R, S, t) \in SUBSET S
    BY DEF Under
  <2>2. QED
    BY <2>1, FS_Subset, FS_CardinalityType
<1> HIDE DEF n, c
<1>3. \A i \in 1..n : q[i] \in S /\ c(q[i]) = i - 1
  BY <1>1, <1>9
<1>4. q \in Seq(S) /\ Len(q) = n /\ DOMAIN q = 1..n
  <2>1. q = [i \in 1..n |-> q[i]] /\ DOMAIN q = 1..n
    BY <1>9
  <2>2. \A i \in 1..n : q[i] \in S
    BY <1>3
  <2>3. q \in [1..n -> S]
    BY <2>1, <2>2
  <2>4. QED
    BY <1>1, <2>1, <2>3, FunctionIsSequence
<1>5. ASSUME NEW i \in 1..n, NEW j \in 1..n, q[i] = q[j] PROVE i = j
  <2>1. i - 1 = j - 1
    BY <1>3, <1>5
  <2>2. QED
    BY <1>1, <2>1
<1>6. ASSUME NEW t \in S PROVE \E i \in 1..n : q[i] = t
  <2>1. c(t) + 1 \in 1..n
    BY <1>1
  <2>2. c(q[c(t) + 1]) = (c(t) + 1) - 1 /\ q[c(t) + 1] \in S
    BY <1>3, <2>1
  <2>3. q[c(t) + 1] = t
    BY <1>1, <1>2, <2>2
  <2>4. QED
    BY <2>1, <2>3
<1>7. ToSet(q) = S
  <2>1. \A x : x \in ToSet(q) <=> \E i \in 1..n : q[i] = x
    BY <1>4 DEF ToSet
  <2>2. QED
    BY <1>3, <1>6, <2>1
<1>8. QED
  BY <1>4, <1>5, <1>7 DEF Lists

\* A listing sorted by name has each torrent of it once.
LEMMA SortedListing ==
  ASSUME NEW listing \in Libraries, NEW S \in SUBSET DOMAIN listing
  PROVE  Lists(ByName(SetToSeq(DOMAIN listing), listing, S), S)
<1> DEFINE D == DOMAIN listing
           listed == SetToSeq(D)
           name(t) == listing[t].name
           at(t) == CHOOSE i \in 1..Len(listed) : listed[i] = t
           Before(t, u) == \/ NameBefore(name(t), name(u))
                           \/ name(t) = name(u) /\ at(t) < at(u)
           R == {p \in S \X S : Before(p[1], p[2])}
<1>1. IsFiniteSet(D) /\ IsFiniteSet(S) /\ \A t \in D : name(t) \in Seq(Nat)
  <2>1. IsFiniteSet(Torrents) /\ D \in SUBSET Torrents /\ \A t \in D : name(t) \in Seq(Nat)
    BY ReadAssumption
  <2>2. IsFiniteSet(D)
    BY <2>1, FS_Subset
  <2>3. QED
    BY <2>1, <2>2, FS_Subset
<1>2. Len(listed) \in Nat /\ \A t \in D : \E i \in 1..Len(listed) : listed[i] = t
  <2> DEFINE n == Cardinality(D)
  <2>1. n \in Nat /\ ExistsBijection(1..n, D)
    BY <1>1, FS_CardinalityType
  <2>2. PICK f \in Bijection(1..n, D) : TRUE
    BY <2>1 DEF ExistsBijection
  <2>3. f \in [1..n -> D] /\ IsInjective(f)
    BY <2>2 DEF Bijection, Injection
  <2>4. listed \in [1..n -> D] /\ IsInjective(listed)
    <3> HIDE DEF D
    <3>1. listed = CHOOSE g \in [1..n -> D] : IsInjective(g)
      BY DEF SetToSeq
    <3> HIDE DEF n, listed
    <3>2. QED
      BY <2>3, <3>1
  <2> HIDE DEF listed
  <2>5. listed \in Injection(1..n, D) /\ IsFiniteSet(D) /\ Cardinality(1..n) = n
    BY <1>1, <2>1, <2>4, FS_Interval DEF Injection
  <2>6. listed \in Surjection(1..n, D)
    BY <2>5, FS_Injection
  <2>7. Len(listed) = n
    BY <2>1, <2>4
  <2>8. QED
    <3> HIDE DEF n, D
    <3>1. QED
      BY <2>1, <2>6, <2>7 DEF Surjection
<1>3. \A t \in D : at(t) \in 1..Len(listed) /\ listed[at(t)] = t
  <2> HIDE DEF listed, D
  <2>1. QED
    BY <1>2
<1>4. \A t, u \in D : at(t) \in Nat /\ (at(t) = at(u) => t = u)
  <2> HIDE DEF at, listed, D
  <2>1. QED
    BY <1>2, <1>3
<1>5. \A t, u \in S : <<t, u>> \in R <=> Before(t, u)
  OBVIOUS
<1>6. \A t, u, w \in S :
          /\ ~Before(t, t)
          /\ Before(t, u) /\ Before(u, w) => Before(t, w)
          /\ t # u => Before(t, u) \/ Before(u, t)
  <2> HIDE DEF at, name, D
  <2> SUFFICES ASSUME NEW t \in S, NEW u \in S, NEW w \in S
               PROVE  /\ ~Before(t, t)
                      /\ Before(t, u) /\ Before(u, w) => Before(t, w)
                      /\ t # u => Before(t, u) \/ Before(u, t)
    OBVIOUS
  <2>1. /\ t \in D /\ u \in D /\ w \in D
        /\ name(t) \in Seq(Nat) /\ name(u) \in Seq(Nat) /\ name(w) \in Seq(Nat)
    BY <1>1 DEF D
  <2>2. at(t) \in Nat /\ at(u) \in Nat /\ at(w) \in Nat /\ (at(t) = at(u) => t = u)
    BY <1>4, <2>1
  <2>3. /\ ~NameBefore(name(t), name(t))
        /\ NameBefore(name(t), name(u)) /\ NameBefore(name(u), name(w))
              => NameBefore(name(t), name(w))
        /\ name(t) # name(u) => NameBefore(name(t), name(u)) \/ NameBefore(name(u), name(t))
    BY <2>1, NamesAreOrdered
  <2>4. QED
    BY <2>2, <2>3
<1>7. Orders(R, S)
  <2> HIDE DEF R, Before
  <2>1. QED
    BY <1>5, <1>6 DEF Orders
<1>8. \A t \in S : Under(R, S, t) = {u \in S : Before(u, t)}
  <2> HIDE DEF R, Before
  <2>1. QED
    BY <1>5 DEF Under
<1>9. ByName(listed, listing, S)
        = [i \in 1..Cardinality(S) |->
              CHOOSE t \in S : Cardinality({u \in S : Before(u, t)}) = i - 1]
  BY DEF ByName
<1>10. \A i : (CHOOSE t \in S : Cardinality({u \in S : Before(u, t)}) = i - 1)
             = CHOOSE t \in S : Cardinality(Under(R, S, t)) = i - 1
  <2> HIDE DEF R, Before
  <2>1. QED
    BY <1>8
<1>11. ByName(listed, listing, S)
        = [i \in 1..Cardinality(S) |->
              CHOOSE t \in S : Cardinality(Under(R, S, t)) = i - 1]
  <2> HIDE DEF R, Before
  <2>1. QED
    BY <1>9, <1>10
<1>12. QED
  <2> HIDE DEF R, Before, listed, D
  <2>1. QED
    BY <1>1, <1>7, <1>11, RankedLists DEF D, listed

\* Page k is the bound entries from place k * bound on, and points at the next
\* one unless it is the last.
LEMMA OnePage ==
  ASSUME NEW S, NEW q \in Seq(S), NEW bound \in Nat \ {0}, NEW k \in Nat,
         k * bound < Len(q) \/ k = 0
  PROVE  LET p == Page(q, k * bound, bound)
             first == k * bound + 1
             last == IF k * bound + bound < Len(q) THEN k * bound + bound ELSE Len(q)
         IN /\ \A t : t \in ToSet(p.torrents) <=> \E i \in first..last : q[i] = t
            /\ p.next = IF k * bound + bound < Len(q) THEN k * bound + bound ELSE Unset
<1> DEFINE offset == k * bound
           last == IF offset + bound < Len(q) THEN offset + bound ELSE Len(q)
           p == Page(q, offset, bound)
<1>1. offset \in Nat /\ Len(q) \in Nat /\ offset <= Len(q)
  OBVIOUS
<1> HIDE DEF offset
<1>2. last \in Nat /\ last <= Len(q) /\ offset <= last
  BY <1>1
<1>3. p.torrents = SubSeq(q, offset + 1, last)
  BY DEF Page
<1>4. /\ DOMAIN p.torrents = 1..(last - offset)
      /\ \A i \in 1..(last - offset) : p.torrents[i] = q[offset + i]
  <2>1. SubSeq(q, offset + 1, last) = [i \in 1..(last - offset) |-> q[offset + i]]
    BY <1>1, <1>2
  <2>2. QED
    BY <1>3, <2>1
<1>5. ASSUME NEW t
      PROVE  t \in ToSet(p.torrents) <=> \E i \in (offset + 1)..last : q[i] = t
  <2>1. t \in ToSet(p.torrents) <=> \E i \in 1..(last - offset) : p.torrents[i] = t
    <3> HIDE DEF p, last
    <3>1. QED
      BY <1>4 DEF ToSet
  <2> HIDE DEF p, last
  <2>2. ASSUME NEW i \in 1..(last - offset), p.torrents[i] = t
        PROVE  \E j \in (offset + 1)..last : q[j] = t
    <3>1. offset + i \in (offset + 1)..last /\ q[offset + i] = t
      BY <1>1, <1>2, <1>4, <2>2
    <3>2. QED
      BY <3>1
  <2>3. ASSUME NEW j \in (offset + 1)..last, q[j] = t
        PROVE  \E i \in 1..(last - offset) : p.torrents[i] = t
    <3>1. j - offset \in 1..(last - offset) /\ offset + (j - offset) = j
      BY <1>1, <1>2
    <3>2. p.torrents[j - offset] = t
      BY <1>4, <2>3, <3>1
    <3>3. QED
      BY <3>1, <3>2
  <2>4. QED
    BY <2>1, <2>2, <2>3
<1>6. p.next = IF offset + bound < Len(q) THEN offset + bound ELSE Unset
  <2> DEFINE next == IF offset < last THEN last ELSE offset
             following == IF next < Len(q) THEN next ELSE Unset
             torrents == SubSeq(q, offset + 1, last)
  <2>1. p = [torrents |-> torrents, next |-> following]
    BY DEF Page
  <2>2. p.next = following
    <3> HIDE DEF p, torrents, following
    <3>1. QED
      BY <2>1
  <2>3. following = IF offset + bound < Len(q) THEN offset + bound ELSE Unset
    BY <1>1
  <2>4. QED
    <3> HIDE DEF p, following
    <3>1. QED
      BY <2>2, <2>3
<1>7. QED
  <2> HIDE DEF p
  <2>1. QED
    BY <1>5, <1>6 DEF offset, p

\* Which page holds place i
LEMMA PageOfPlace ==
  ASSUME NEW i \in Nat \ {0}, NEW bound \in Nat \ {0}
  PROVE  LET k == (i - 1) \div bound
         IN /\ k \in Nat /\ k < i
            /\ k * bound + 1 <= i /\ i <= k * bound + bound
            /\ \A m \in Nat : m * bound + 1 <= i /\ i <= m * bound + bound => m = k
<1> DEFINE k == (i - 1) \div bound
<1>1. k \in Nat /\ k * bound <= i - 1 /\ i - 1 < k * bound + bound
  OBVIOUS
<1> HIDE DEF k
<1>2. k <= k * bound
  BY <1>1
<1>3. ASSUME NEW m \in Nat, m * bound + 1 <= i, i <= m * bound + bound
      PROVE  m = k
  <2>1. CASE m < k
    <3>1. (m + 1) * bound <= k * bound
      BY <1>1, <2>1
    <3>2. (m + 1) * bound = m * bound + bound
      OBVIOUS
    <3>3. QED
      BY <1>1, <1>3, <3>1, <3>2
  <2>2. CASE k < m
    <3>1. (k + 1) * bound <= m * bound
      BY <1>1, <2>2
    <3>2. (k + 1) * bound = k * bound + bound
      BY <1>1
    <3>3. QED
      BY <1>1, <1>3, <3>1, <3>2
  <2>3. QED
    BY <1>1, <2>1, <2>2
<1>4. QED
  BY <1>1, <1>2, <1>3 DEF k

\* The pages reached from the first are those that start within the listing.
LEMMA PagesReached ==
  ASSUME NEW S, NEW q \in Seq(S), NEW bound \in Nat \ {0}
  PROVE  /\ \A p \in PagesOf(q, bound) :
               \E k \in Nat : /\ k * bound < Len(q) \/ k = 0
                              /\ p = Page(q, k * bound, bound)
         /\ \A k \in Nat : k * bound < Len(q) \/ k = 0
                              => Page(q, k * bound, bound) \in PagesOf(q, bound)
         /\ \E p \in PagesOf(q, bound) : p.next = Unset
<1> DEFINE len == Len(q)
           K == IF len = 0 THEN 0 ELSE (len - 1) \div bound
           nth(k) == Page(q, k * bound, bound)
           m(n) == IF n <= K THEN n ELSE K
           g == [n \in 0..len |-> nth(m(n))]
           From(h, n) == IF n = 0 THEN Page(q, 0, bound)
                         ELSE IF h[n - 1].next = Unset THEN h[n - 1]
                         ELSE Page(q, h[n - 1].next, bound)
           Is(h) == h = [n \in 0..len |-> From(h, n)]
           page == CHOOSE h : Is(h)
<1>1. /\ len \in Nat /\ K \in Nat /\ K <= len
      /\ K * bound < len \/ K = 0
      /\ K * bound + bound >= len
  <2>1. CASE len = 0
    BY <2>1
  <2>2. CASE len # 0
    <3>1. len \in Nat \ {0} /\ K = (len - 1) \div bound
      BY <2>2
    <3>2. K \in Nat /\ K < len /\ K * bound + 1 <= len /\ len <= K * bound + bound
      <4> HIDE DEF len
      <4>1. QED
        BY <3>1, PageOfPlace
    <3>3. QED
      <4> HIDE DEF K, len
      <4>1. QED
        BY <3>1, <3>2
  <2>3. QED
    BY <2>1, <2>2
<1>2. \A k \in Nat : (k * bound < len \/ k = 0) <=> k <= K
  <2> SUFFICES ASSUME NEW k \in Nat PROVE (k * bound < len \/ k = 0) <=> k <= K
    OBVIOUS
  <2> HIDE DEF K, len
  <2>1. CASE k <= K
    <3>1. k * bound <= K * bound
      BY <1>1, <2>1
    <3>2. QED
      BY <1>1, <2>1, <3>1
  <2>2. CASE K < k
    <3>1. (K + 1) * bound <= k * bound /\ (K + 1) * bound = K * bound + bound
      BY <1>1, <2>2
    <3>2. QED
      BY <1>1, <2>2, <3>1
  <2>3. QED
    BY <1>1, <2>1, <2>2
<1>3. ASSUME NEW k \in Nat, k <= K
      PROVE  nth(k).next = IF k * bound + bound < len THEN k * bound + bound ELSE Unset
  <2>1. k * bound < Len(q) \/ k = 0
    BY <1>2, <1>3
  <2>2. QED
    BY <2>1, OnePage
<1>4. ASSUME NEW k \in Nat, k < K
      PROVE  nth(k).next = (k + 1) * bound /\ nth(k).next # Unset
  <2>1. k + 1 \in Nat /\ k + 1 <= K /\ k + 1 # 0 /\ (k + 1) * bound = k * bound + bound
    BY <1>1, <1>4
  <2> HIDE DEF nth, K, len
  <2>2. (k + 1) * bound < len
    BY <1>2, <2>1
  <2>3. nth(k).next = (k + 1) * bound
    BY <1>1, <1>3, <1>4, <2>1, <2>2
  <2>4. (k + 1) * bound \in Nat
    BY <2>1
  <2>5. QED
    BY <2>3, <2>4, ReadAssumption
<1>5. nth(K).next = Unset
  <2> HIDE DEF nth, K, len
  <2>1. K * bound \in Nat
    BY <1>1
  <2>2. ~(K * bound + bound < len)
    BY <1>1, <2>1
  <2>3. QED
    BY <1>1, <1>3, <2>2
<1>6. ASSUME NEW n \in 0..len PROVE g[n] = From(g, n)
  <2>1. g[n] = nth(m(n))
    BY <1>6
  <2>2. CASE n = 0
    <3>1. m(n) = 0 /\ 0 * bound = 0
      BY <1>1, <2>2
    <3>2. nth(0) = Page(q, 0, bound)
      BY <3>1
    <3> HIDE DEF g, nth, m
    <3>3. QED
      BY <2>1, <2>2, <3>1, <3>2
  <2>3. CASE n # 0
    <3>1. n - 1 \in 0..len /\ g[n - 1] = nth(m(n - 1)) /\ n \in Nat
      BY <1>1, <2>3
    <3>2. CASE n <= K
      <4>1. m(n) = n /\ m(n - 1) = n - 1 /\ n - 1 \in Nat /\ n - 1 < K /\ (n - 1) + 1 = n
        <5> HIDE DEF K
        <5>1. QED
          BY <1>1, <2>3, <3>1, <3>2
      <4>2. nth(n - 1).next = n * bound /\ nth(n - 1).next # Unset
        <5> HIDE DEF nth, K, m, len
        <5>1. QED
          BY <1>4, <4>1
      <4>3. nth(n) = Page(q, n * bound, bound)
        OBVIOUS
      <4> HIDE DEF g, nth, m
      <4>4. QED
        BY <2>1, <2>3, <3>1, <4>1, <4>2, <4>3
    <3>3. CASE ~(n <= K)
      <4>1. m(n) = K /\ m(n - 1) = K
        <5> HIDE DEF K
        <5>1. QED
          BY <1>1, <2>3, <3>1, <3>3
      <4> HIDE DEF g, nth, m, K
      <4>2. QED
        BY <1>5, <2>1, <2>3, <3>1, <4>1
    <3>4. QED
      BY <3>2, <3>3
  <2>4. QED
    BY <2>2, <2>3
<1>7. Is(g)
  <2>1. g = [n \in 0..len |-> g[n]]
    OBVIOUS
  <2> HIDE DEF g, From, len
  <2>2. QED
    BY <1>6, <2>1
<1>8. Is(page)
  <2> HIDE DEF Is, g
  <2>1. QED
    BY <1>7
<1>9. \A n \in 0..len : page[n] = From(page, n)
  <2> HIDE DEF page, From, len
  <2>1. QED
    BY <1>8
<1>10. \A n \in 0..len : page[n] = g[n]
  <2> DEFINE T == {n \in 0..len : page[n] # g[n]}
  <2> SUFFICES ASSUME T # {} PROVE FALSE
    OBVIOUS
  <2> HIDE DEF page, g
  <2>1. T \in SUBSET Nat
    BY <1>1
  <2>2. PICK n \in T : \A j \in T : n <= j
    BY <2>1, LeastNumber
  <2>3. n \in 0..len /\ page[n] # g[n] /\ n \in Nat
    BY <1>1, <2>2
  <2>4. page[n] = From(page, n) /\ g[n] = From(g, n)
    <3> HIDE DEF From
    <3>1. QED
      BY <1>6, <1>9, <2>3
  <2>5. n # 0
    BY <2>3, <2>4
  <2>6. n - 1 \in 0..len /\ n - 1 \in Nat /\ n - 1 < n
    BY <1>1, <2>3, <2>5
  <2>7. n - 1 \notin T
    <3> HIDE DEF T
    <3>1. QED
      BY <2>1, <2>2, <2>3, <2>6
  <2>8. page[n - 1] = g[n - 1]
    BY <2>6, <2>7
  <2>9. From(page, n) = From(g, n)
    BY <2>5, <2>8
  <2>10. QED
    <3> HIDE DEF From
    <3>1. QED
      BY <2>3, <2>4, <2>9
<1>11. PagesOf(q, bound) = {page[n] : n \in 0..len}
  BY DEF PagesOf
<1>12. PagesOf(q, bound) = {nth(m(n)) : n \in 0..len}
  <2>1. \A n \in 0..len : g[n] = nth(m(n))
    OBVIOUS
  <2> HIDE DEF page, g, nth, m, len
  <2>2. QED
    BY <1>10, <1>11, <2>1
<1>13. \A n \in 0..len : m(n) \in Nat /\ m(n) <= K
  <2> HIDE DEF K
  <2>1. QED
    BY <1>1
<1>14. \A k \in Nat : k <= K => k \in 0..len /\ m(k) = k
  <2> HIDE DEF K
  <2>1. QED
    BY <1>1
<1>15. /\ \A p \in PagesOf(q, bound) : \E k \in Nat : k <= K /\ p = nth(k)
       /\ \A k \in Nat : k <= K => nth(k) \in PagesOf(q, bound)
  <2> HIDE DEF nth, m, K, len
  <2>1. QED
    BY <1>12, <1>13, <1>14
<1>16. \E p \in PagesOf(q, bound) : p.next = Unset
  <2> HIDE DEF nth, K
  <2>1. QED
    BY <1>1, <1>5, <1>15
<1>17. QED
  <2> HIDE DEF K
  <2>1. QED
    BY <1>2, <1>15, <1>16

\* Pages of any size give each entry of a listing once, and come to an end.
LEMMA ListingIsPageable ==
  ASSUME NEW S, NEW q, Lists(q, S), NEW bound \in Nat \ {0}
  PROVE  Pageable(q, bound)
<1> DEFINE pages == PagesOf(q, bound)
           with(t) == {p \in pages : t \in ToSet(p.torrents)}
           nth(k) == Page(q, k * bound, bound)
<1>1. q \in Seq(S) /\ Len(q) \in Nat /\ DOMAIN q = 1..Len(q)
  BY LenProperties DEF Lists
<1>2. /\ \A p \in pages : \E k \in Nat : (k * bound < Len(q) \/ k = 0) /\ p = nth(k)
      /\ \A k \in Nat : k * bound < Len(q) \/ k = 0 => nth(k) \in pages
      /\ \E p \in pages : p.next = Unset
  BY <1>1, PagesReached
<1>3. ASSUME NEW t \in ToSet(q) PROVE Cardinality(with(t)) = 1
  <2>1. PICK i \in 1..Len(q) : q[i] = t
    BY <1>1 DEF ToSet
  <2>2. i \in Nat \ {0} /\ \A j \in 1..Len(q) : q[j] = t => j = i
    BY <1>1, <2>1 DEF Lists
  <2> DEFINE k == (i - 1) \div bound
  <2>3. /\ k \in Nat /\ k * bound + 1 <= i /\ i <= k * bound + bound
        /\ \A m \in Nat : m * bound + 1 <= i /\ i <= m * bound + bound => m = k
    BY <2>2, PageOfPlace
  <2> HIDE DEF k
  <2>4. ASSUME NEW m \in Nat, m * bound < Len(q) \/ m = 0
        PROVE  t \in ToSet(nth(m).torrents)
                  <=> m * bound + 1 <= i /\ i <= m * bound + bound
    <3> DEFINE first == m * bound + 1
               last == IF m * bound + bound < Len(q) THEN m * bound + bound ELSE Len(q)
    <3>1. t \in ToSet(nth(m).torrents) <=> \E j \in first..last : q[j] = t
      <4>1. \A u : u \in ToSet(nth(m).torrents) <=> \E j \in first..last : q[j] = u
        BY <1>1, <2>4, OnePage
      <4> HIDE DEF nth, first, last
      <4>2. QED
        BY <4>1
    <3>2. m * bound \in Nat
      OBVIOUS
    <3> HIDE DEF nth
    <3>3. \A j \in first..last : j \in 1..Len(q)
      BY <1>1, <3>2
    <3>4. (\E j \in first..last : q[j] = t) <=> i \in first..last
      <4> HIDE DEF first, last
      <4>1. QED
        BY <2>1, <2>2, <3>3
    <3>5. i \in first..last <=> first <= i /\ i <= m * bound + bound
      BY <1>1, <2>2, <3>2
    <3>6. QED
      BY <3>1, <3>4, <3>5
  <2>5. k * bound < Len(q)
    <3>1. k * bound \in Nat
      BY <2>3
    <3>2. QED
      BY <1>1, <2>3, <3>1
  <2>6. nth(k) \in with(t)
    <3> HIDE DEF nth
    <3>1. QED
      BY <1>2, <2>3, <2>4, <2>5
  <2>7. \A p \in with(t) : p = nth(k)
    <3> HIDE DEF nth
    <3>1. QED
      BY <1>2, <2>3, <2>4
  <2>8. with(t) = {nth(k)}
    <3> HIDE DEF nth, with
    <3>1. QED
      BY <2>6, <2>7
  <2>9. QED
    BY <2>8, FS_Singleton
<1>4. QED
  BY <1>2, <1>3 DEF Pageable

LEMMA PagesDoAgree ==
  ASSUME NEW listing \in Libraries
  PROVE  PagesAgree(listing)
<1> SUFFICES ASSUME NEW g \in Groups, NEW bound \in 1..2
             PROVE  Pageable(ByName(SetToSeq(DOMAIN listing), listing,
                             Candidates(listing, [EmptyFilter EXCEPT !.states = {g}])),
                             bound)
  BY DEF PagesAgree
<1>1. bound \in Nat \ {0}
  OBVIOUS
<1>2. Candidates(listing, [EmptyFilter EXCEPT !.states = {g}]) \in SUBSET DOMAIN listing
  BY DEF Candidates
<1>3. QED
  BY <1>1, <1>2, SortedListing, ListingIsPageable

-----------------------------------------------------------------------------
(* Surfaces that judge the same library. *)

\* Whatever the library holds and whichever lookups fail, status, the counts, the
\* selections, search, explain, doctor and trackers status do not contradict each
\* other, and the pages of find_torrents are the selection, each torrent once.
THEOREM SurfacesAgree == Spec => []VerdictsAgree
<1>1. TypeOK => VerdictsAgree
  <2>1. SUFFICES ASSUME TypeOK PROVE VerdictsAgree
    OBVIOUS
  <2>2. lib \in Libraries /\ lib # Unknown
    BY <2>1, ReadAssumption DEF TypeOK
  <2>3. QED
    BY <2>2, StatesDoAgree, TrackersDoAgree, SearchesDoAgree, PagesDoAgree
    DEF VerdictsAgree
<1>2. QED
  BY <1>1, ReadTypeCorrect, PTL
=============================================================================
