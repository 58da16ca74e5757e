------------------------------ MODULE RateProofs -------------------------------
(***************************************************************************)
(* Typing of the rate window for every number of columns, seconds and      *)
(* reconfigurations, and why its trace never runs backwards.               *)
(***************************************************************************)
EXTENDS RateHistory, TLAPS

Columns == [second : Nat, reading : Reading \cup {None}]
Samplers == [stage : {"idle", "waiting", "calling"}, asked : Nat, of : Nat]

WindowType == ticks \in Nat /\ window \in [Held(ticks) -> Columns]
AwaitType == sampleTick \in Nat \cup {None}
ClockType == now \in Nat /\ instance \in Nat
FlagType == blocked \in BOOLEAN /\ running \in BOOLEAN

Types ==
  /\ ClockType /\ WindowType /\ AwaitType /\ sampler \in Samplers
  /\ inbox \in Seq(Reading) /\ FlagType

LEMMA TypesAreTypeOK == Types <=> TypeOK
BY DEF Types, TypeOK, ClockType, WindowType, AwaitType, FlagType, Columns,
       Samplers

LEMMA HeldTicks ==
  ASSUME NEW n \in Nat
  PROVE  /\ Held(n) \subseteq Nat
         /\ \A t \in Held(n) : t < n
         /\ n \in Held(n + 1)
         /\ \A t \in Held(n + 1) : t # n => t \in Held(n)
         /\ Held(0) = {}
BY RateAssumption DEF Held

\* The deque after open_slot: a new unmeasured column, the others as they were.
LEMMA Opened ==
  ASSUME WindowType, now' \in Nat, OpenSlot
  PROVE  /\ WindowType'
         /\ DOMAIN window' \subseteq DOMAIN window \cup {ticks}
         /\ ticks \in DOMAIN window'
         /\ window'[ticks] = [second |-> now', reading |-> None]
         /\ \A t \in DOMAIN window' : t # ticks => window'[t] = window[t]
         /\ \A t \in DOMAIN window : t \in Nat /\ t < ticks
<1>1. ticks \in Nat /\ ticks' = ticks + 1 /\ DOMAIN window = Held(ticks)
  BY DEF WindowType, OpenSlot
<1>2. window' = [t \in Held(ticks + 1) |->
                    IF t = ticks THEN [second |-> now', reading |-> None]
                    ELSE window[t]]
  BY DEF OpenSlot
<1>3. [second |-> now', reading |-> None] \in Columns
  BY DEF Columns
<1>4. \A t \in Held(ticks + 1) : t # ticks => window[t] \in Columns
  BY <1>1, HeldTicks DEF WindowType
<1>5. window' \in [Held(ticks') -> Columns]
  BY <1>1, <1>2, <1>3, <1>4
<1>6. QED
  BY <1>1, <1>2, <1>5, HeldTicks DEF WindowType

\* Settling replaces the reading of one column at most.
LEMMA Settled ==
  ASSUME WindowType, NEW t, NEW r \in Reading, Settle(t, r), UNCHANGED ticks
  PROVE  /\ WindowType'
         /\ DOMAIN window' = DOMAIN window
         /\ \A s \in DOMAIN window : s # t => window'[s] = window[s]
         /\ t \in DOMAIN window => /\ window'[t].reading = r
                                   /\ window'[t].second = window[t].second
<1>1. CASE t \notin DOMAIN window
  BY <1>1 DEF Settle, WindowType
<1>2. CASE t \in DOMAIN window
  <2>1. window' = [window EXCEPT ![t].reading = r]
    BY <1>2 DEF Settle
  <2>2. window[t] \in Columns
    BY <1>2 DEF WindowType
  <2>3. [window[t] EXCEPT !.reading = r] \in Columns
    BY <2>2 DEF Columns
  <2>4. WindowType'
    BY <2>1, <2>3 DEF WindowType
  <2>5. QED
    BY <1>2, <2>1, <2>2, <2>4 DEF WindowType, Columns
<1>3. QED
  BY <1>1, <1>2

LEMMA EmptyWindow == << >> \in [Held(0) -> Columns]
BY HeldTicks

LEMMA IdleType == Idle \in Samplers
BY DEF Idle, Samplers

-----------------------------------------------------------------------------
(* Type correctness. *)

LEMMA InitType == Init => Types
<1> SUFFICES ASSUME Init PROVE Types
  OBVIOUS
<1>1. WindowType
  BY HeldTicks DEF Init, WindowType
<1>2. ClockType /\ AwaitType /\ FlagType /\ inbox \in Seq(Reading)
  BY DEF Init, ClockType, AwaitType, FlagType
<1>3. sampler \in Samplers
  BY IdleType DEF Init
<1>4. QED
  BY <1>1, <1>2, <1>3 DEF Types

LEMMA TickType == Types /\ Tick => Types'
<1> SUFFICES ASSUME Types, Tick PROVE Types'
  OBVIOUS
<1> USE DEF Types
<1>1. now' = now + 1 /\ now' \in Nat /\ ClockType'
  BY DEF Tick, ClockType
<1>2. WindowType'
  BY <1>1, Opened DEF Tick, WindowType
<1>3. AwaitType'
  BY DEF Tick, Await, AwaitType, WindowType
<1>4. sampler' \in Samplers
  BY <1>1 DEF Tick, Samplers
<1>5. inbox' \in Seq(Reading) /\ FlagType'
  BY DEF Tick, FlagType
<1>6. QED
  BY <1>1, <1>2, <1>3, <1>4, <1>5

LEMMA DeliverType == Types /\ Deliver => Types'
<1> SUFFICES ASSUME Types, Deliver PROVE Types'
  OBVIOUS
<1> USE DEF Types
<1>1. Head(inbox) \in Reading /\ Tail(inbox) \in Seq(Reading)
  BY DEF Deliver
<1>2. WindowType'
  BY <1>1, Settled DEF Deliver, WindowType
<1>3. AwaitType' /\ ClockType' /\ FlagType' /\ sampler' \in Samplers
      /\ inbox' \in Seq(Reading)
  BY <1>1 DEF Deliver, ForgetTick, AwaitType, ClockType, FlagType
<1>4. QED
  BY <1>2, <1>3

LEMMA WorkerType == Types /\ (Call \/ Return \/ Fail) => Types'
<1> SUFFICES ASSUME Types, Call \/ Return \/ Fail PROVE Types'
  OBVIOUS
<1> USE DEF Types
<1>1. sampler' \in Samplers
  BY IdleType DEF Call, Return, Fail, Samplers, ClockType
<1>2. inbox' \in Seq(Reading)
  <2>1. [asked |-> sampler.asked, of |-> sampler.of] \in Reading
    BY DEF Samplers, Reading
  <2>2. QED
    BY <2>1 DEF Call, Return, Fail
<1>3. ClockType' /\ WindowType' /\ AwaitType' /\ FlagType'
  BY DEF Call, Return, Fail, ClockType, WindowType, AwaitType, FlagType
<1>4. QED
  BY <1>1, <1>2, <1>3

LEMMA AroundType ==
  Types /\ (ResetConnection \/ ConnectionChanges \/ Quit) => Types'
<1> SUFFICES ASSUME Types, ResetConnection \/ ConnectionChanges \/ Quit
             PROVE  Types'
  OBVIOUS
<1> USE DEF Types
<1>1. WindowType'
  <2>1. CASE ticks' = 0 /\ window' = << >>
    BY <2>1, EmptyWindow DEF WindowType
  <2>2. CASE UNCHANGED <<ticks, window>>
    BY <2>2 DEF WindowType
  <2>3. QED
    BY <2>1, <2>2 DEF ResetConnection, ConnectionChanges, Quit
<1>2. ClockType' /\ AwaitType'
  BY DEF ResetConnection, ConnectionChanges, Quit, ClockType, AwaitType
<1>4. FlagType'
  <2>1. blocked' \in {blocked, ~blocked} /\ running' \in {running, FALSE}
    BY ZenonT(30) DEF ResetConnection, ConnectionChanges, Quit
  <2>2. QED
    BY <2>1 DEF FlagType
<1>3. UNCHANGED <<sampler, inbox>>
  BY DEF ResetConnection, ConnectionChanges, Quit
<1>5. QED
  BY <1>1, <1>2, <1>3, <1>4

LEMMA NextType == Types /\ [Next]_vars => Types'
<1>1. Types /\ UNCHANGED vars => Types'
  BY DEF Types, ClockType, WindowType, AwaitType, FlagType, vars
<1>2. QED
  BY <1>1, TickType, DeliverType, WorkerType, AroundType DEF Next

\* The window is its last Slots seconds, whatever their number and however
\* settle and open_slot alternate with reconfigurations.
THEOREM RateTypeCorrect == Spec => []TypeOK
<1>1. Types => TypeOK
  BY TypesAreTypeOK
<1>2. QED
  BY <1>1, InitType, NextType, PTL DEF Spec

-----------------------------------------------------------------------------
(* The order of the trace. *)

LEMMA RateTypes ==
  ASSUME Types
  PROVE  /\ now \in Nat /\ ticks \in Nat /\ DOMAIN window = Held(ticks)
         /\ \A t \in DOMAIN window :
               /\ t \in Nat /\ t < ticks /\ window[t].second \in Nat
               /\ window[t].reading # None => window[t].reading.asked \in Nat
         /\ \A i \in DOMAIN inbox :
               inbox[i].asked \in Nat /\ inbox[i] \in Reading
         /\ sampler.asked \in Nat
         /\ sampleTick # None => sampleTick \in Nat
<1> USE DEF Types
<1>1. now \in Nat /\ ticks \in Nat /\ DOMAIN window = Held(ticks)
      /\ sampler.asked \in Nat /\ (sampleTick # None => sampleTick \in Nat)
  BY DEF ClockType, WindowType, AwaitType, Samplers
<1>2. \A t \in DOMAIN window : t \in Nat /\ t < ticks
  BY <1>1, HeldTicks
<1>3. \A t \in DOMAIN window :
         /\ window[t].second \in Nat
         /\ window[t].reading # None => window[t].reading.asked \in Nat
  <2>1. \A t \in DOMAIN window : window[t] \in Columns
    BY DEF WindowType
  <2>2. QED
    BY <2>1 DEF Columns, Reading
<1>4. \A i \in DOMAIN inbox : inbox[i].asked \in Nat /\ inbox[i] \in Reading
  <2>1. \A i \in DOMAIN inbox : inbox[i] \in Reading
    OBVIOUS
  <2>2. QED
    BY <2>1 DEF Reading
<1>5. QED
  BY <1>1, <1>2, <1>3, <1>4

Order == <<now, ticks, window, sampleTick, sampler, inbox>>

LEMMA SameOrder == RateInv /\ UNCHANGED Order => RateInv'
BY DEF RateInv, Order, SecondsAreOrdered, SamplesAreOrdered, AnswersAreNewer,
       AwaitedIsUnmeasured, ReadingsKeepOrder, NothingFromLater, Measured

LEMMA InitOrder == Init => RateInv
<1> SUFFICES ASSUME Init PROVE RateInv
  OBVIOUS
<1>1. DOMAIN window = {} /\ DOMAIN inbox = {} /\ sampler.stage = "idle"
      /\ sampleTick = None
  BY DEF Init, Idle
<1>2. QED
  BY <1>1 DEF RateInv, SecondsAreOrdered, SamplesAreOrdered, AnswersAreNewer,
              AwaitedIsUnmeasured, ReadingsKeepOrder, NothingFromLater, Measured

\* Nothing is measured by a column being opened; the clock moves on.
LEMMA OpenedOrder ==
  ASSUME Types, RateInv, now' = now + 1, OpenSlot
  PROVE  /\ Measured' \subseteq Measured /\ ticks \notin Measured'
         /\ \A t \in Measured' : window'[t] = window[t]
         /\ SecondsAreOrdered' /\ ReadingsKeepOrder' /\ NothingFromLater'
<1> USE RateTypes
<1>1. now' \in Nat /\ WindowType
  BY DEF Types
<1>2. /\ DOMAIN window' \subseteq DOMAIN window \cup {ticks}
      /\ window'[ticks] = [second |-> now', reading |-> None]
      /\ \A t \in DOMAIN window' : t # ticks => window'[t] = window[t]
  BY <1>1, Opened
<1>3. /\ Measured' \subseteq Measured /\ ticks \notin Measured'
      /\ \A t \in Measured' : window'[t] = window[t]
  BY <1>2 DEF Measured
<1>4. SecondsAreOrdered'
  BY <1>2 DEF RateInv, SecondsAreOrdered
<1>5. ReadingsKeepOrder'
  BY <1>3 DEF RateInv, ReadingsKeepOrder
<1>6. NothingFromLater'
  BY <1>3 DEF RateInv, NothingFromLater
<1>7. QED
  BY <1>3, <1>4, <1>5, <1>6

LEMMA TickOrder ==
  ASSUME Types, RateInv, Tick
  PROVE  RateInv'
<1> USE RateTypes
<1>1. now' = now + 1 /\ UNCHANGED inbox
  BY DEF Tick
<1>2. CASE UNCHANGED <<ticks, window, sampleTick, sampler>>
  <2>1. SecondsAreOrdered' /\ SamplesAreOrdered'
    BY <1>1, <1>2 DEF RateInv, SecondsAreOrdered, SamplesAreOrdered
  <2>2. QED
    BY <1>1, <1>2, <2>1 DEF RateInv, AnswersAreNewer, AwaitedIsUnmeasured,
                            ReadingsKeepOrder, NothingFromLater, Measured
<1>3. CASE OpenSlot /\ UNCHANGED <<sampleTick, sampler>>
  <2>1. SamplesAreOrdered'
    BY <1>1, <1>3 DEF RateInv, SamplesAreOrdered
  <2>2. AnswersAreNewer'
    BY <1>1, <1>3, OpenedOrder DEF RateInv, AnswersAreNewer
  <2>3. AwaitedIsUnmeasured'
    <3>1. \A t \in Measured' : sampleTick # None => t < sampleTick
      BY <1>1, <1>3, OpenedOrder DEF RateInv, AwaitedIsUnmeasured
    <3>2. ASSUME sampleTick # None, sampleTick \in DOMAIN window'
          PROVE  /\ \A i \in DOMAIN inbox :
                       inbox[i].asked <= window'[sampleTick].second
                 /\ sampler.stage # "idle" =>
                       sampler.asked <= window'[sampleTick].second
      <4>1. CASE sampleTick = ticks
        <5>1. window'[sampleTick].second = now + 1
          BY <1>1, <1>3, <4>1, Opened DEF Types
        <5>2. QED
          BY <5>1 DEF RateInv, SamplesAreOrdered
      <4>2. CASE sampleTick # ticks
        <5>1. sampleTick \in DOMAIN window
              /\ window'[sampleTick] = window[sampleTick]
          BY <1>1, <1>3, <3>2, <4>2, Opened DEF Types
        <5>2. QED
          BY <3>2, <5>1 DEF RateInv, AwaitedIsUnmeasured
      <4>3. QED
        BY <4>1, <4>2
    <3>3. QED
      BY <1>1, <1>3, <3>1, <3>2 DEF AwaitedIsUnmeasured
  <2>4. QED
    BY <1>1, <1>3, <2>1, <2>2, <2>3, OpenedOrder DEF RateInv
<1>4. CASE /\ OpenSlot /\ sampler.stage = "idle" /\ sampleTick' = ticks
           /\ sampler' = [stage |-> "waiting", asked |-> now', of |-> 0]
  <2>1. sampler'.asked = now + 1 /\ sampler'.stage # "idle"
    BY <1>1, <1>4
  <2>2. SamplesAreOrdered'
    BY <1>1, <2>1 DEF RateInv, SamplesAreOrdered
  <2>3. AnswersAreNewer'
    <3>1. \A t \in Measured : window[t].reading.asked <= now
      BY DEF RateInv, NothingFromLater, SecondsAreOrdered, Measured
    <3>2. \A t \in Measured' : window'[t].reading.asked < now + 1
      BY <1>1, <1>4, <3>1, OpenedOrder DEF Measured
    <3>3. \A t \in Measured' : \A i \in DOMAIN inbox :
             window'[t].reading.asked < inbox[i].asked
      BY <1>1, <1>4, OpenedOrder DEF RateInv, AnswersAreNewer
    <3>4. QED
      BY <1>1, <2>1, <3>2, <3>3 DEF AnswersAreNewer
  <2>4. AwaitedIsUnmeasured'
    <3>1. window'[ticks].second = now + 1
      BY <1>1, <1>4, Opened DEF Types
    <3>2. \A i \in DOMAIN inbox : inbox[i].asked <= now + 1
      BY DEF RateInv, SamplesAreOrdered
    <3>3. \A t \in Measured' : t < ticks
      BY <1>1, <1>4, OpenedOrder DEF Measured
    <3>4. QED
      BY <1>1, <1>4, <2>1, <3>1, <3>2, <3>3 DEF AwaitedIsUnmeasured
  <2>5. QED
    BY <1>1, <1>4, <2>2, <2>3, <2>4, OpenedOrder DEF RateInv
<1>5. QED
  BY <1>2, <1>3, <1>4 DEF Tick, Await

\* The answer handled is older than those behind it and newer than those shown.
LEMMA DeliverOrder ==
  ASSUME Types, RateInv, Deliver
  PROVE  RateInv'
<1> USE RateTypes DEF RateInv
<1>1. /\ inbox \in Seq(Reading) /\ inbox # << >>
      /\ inbox' = Tail(inbox) /\ UNCHANGED <<now, ticks, sampler>>
  BY DEF Types, Deliver
<1>2. /\ 1 \in DOMAIN inbox /\ Head(inbox) = inbox[1]
      /\ \A i \in DOMAIN inbox' : /\ i + 1 \in DOMAIN inbox /\ i \in Nat /\ i >= 1
                                  /\ inbox'[i] = inbox[i + 1]
  BY <1>1
<1>3. SamplesAreOrdered'
  BY <1>1, <1>2 DEF SamplesAreOrdered
<1>4. CASE UNCHANGED <<window, sampleTick>>
  <2>1. AnswersAreNewer' /\ AwaitedIsUnmeasured'
    BY <1>1, <1>2, <1>4 DEF AnswersAreNewer, AwaitedIsUnmeasured, Measured
  <2>2. QED
    BY <1>1, <1>3, <1>4, <2>1
       DEF SecondsAreOrdered, ReadingsKeepOrder, NothingFromLater, Measured
<1>5. CASE /\ sampleTick # None /\ sampleTick' = None
           /\ Settle(sampleTick, inbox[1])
  <2> DEFINE a == inbox[1]
  <2>1. /\ DOMAIN window' = DOMAIN window
        /\ \A s \in DOMAIN window : s # sampleTick => window'[s] = window[s]
        /\ sampleTick \in DOMAIN window =>
              /\ window'[sampleTick].reading = a
              /\ window'[sampleTick].second = window[sampleTick].second
    BY <1>1, <1>2, <1>5, Settled DEF Types
  <2>2. \A i \in DOMAIN inbox' : a.asked < inbox'[i].asked
    BY <1>2 DEF SamplesAreOrdered
  <2>3. sampler.stage # "idle" => a.asked < sampler.asked
    BY <1>2 DEF SamplesAreOrdered
  <2>4. \A t \in Measured : window[t].reading.asked < a.asked /\ t < sampleTick
    BY <1>2, <1>5 DEF AnswersAreNewer, AwaitedIsUnmeasured
  <2>5. \A t \in Measured' :
           \/ t \in Measured /\ window'[t] = window[t] /\ t # sampleTick
           \/ /\ t = sampleTick /\ t \in DOMAIN window
              /\ window'[t].reading = a
    BY <2>1, <2>4 DEF Measured
  <2> HIDE DEF a
  <2>6. SecondsAreOrdered'
    <3>1. \A t \in DOMAIN window : window'[t].second = window[t].second
      BY <2>1
    <3>2. QED
      BY <1>1, <2>1, <3>1 DEF SecondsAreOrdered
  <2>7. AnswersAreNewer'
    <3>1. \A t \in Measured : \A i \in DOMAIN inbox' :
             window[t].reading.asked < inbox'[i].asked
      BY <1>2 DEF AnswersAreNewer
    <3>2. QED
      BY <1>1, <2>2, <2>3, <2>5, <3>1 DEF AnswersAreNewer
  <2>8. AwaitedIsUnmeasured'
    BY <1>5 DEF AwaitedIsUnmeasured
  <2>9. ReadingsKeepOrder'
    <3>1. SUFFICES ASSUME NEW s \in Measured', NEW t \in Measured', s < t
                   PROVE  window'[s].reading.asked < window'[t].reading.asked
      BY DEF ReadingsKeepOrder
    <3>2. s # sampleTick
      <4>1. s \in Nat /\ t \in Nat /\ sampleTick \in Nat
        BY <1>5, <2>1, <3>1 DEF Measured
      <4>2. t = sampleTick \/ t < sampleTick
        BY <2>4, <2>5
      <4>3. QED
        BY <3>1, <4>1, <4>2
    <3>3. s \in Measured /\ window'[s] = window[s]
      BY <2>5, <3>2
    <3>4. CASE t = sampleTick
      <4>1. window'[t].reading = a
        BY <2>5, <3>4
      <4>2. QED
        BY <2>4, <3>3, <4>1
    <3>5. CASE t # sampleTick
      <4>1. t \in Measured /\ window'[t] = window[t]
        BY <2>5, <3>5
      <4>2. QED
        BY <3>1, <3>3, <4>1 DEF ReadingsKeepOrder
    <3>6. QED
      BY <3>4, <3>5
  <2>10. NothingFromLater'
    <3>1. SUFFICES ASSUME NEW t \in Measured'
                   PROVE  window'[t].reading.asked <= window'[t].second
      BY DEF NothingFromLater
    <3>2. CASE t \in Measured /\ window'[t] = window[t]
      BY <3>2 DEF NothingFromLater
    <3>3. CASE t = sampleTick /\ t \in DOMAIN window /\ window'[t].reading = a
      <4>1. a.asked <= window[t].second
        BY <1>2, <1>5, <3>3 DEF AwaitedIsUnmeasured, a
      <4>2. QED
        BY <2>1, <3>3, <4>1
    <3>4. QED
      BY <2>5, <3>2, <3>3
  <2>11. QED
    BY <1>3, <2>6, <2>7, <2>8, <2>9, <2>10
<1>6. QED
  BY <1>2, <1>4, <1>5 DEF Deliver, ForgetTick

LEMMA WorkerOrder ==
  ASSUME Types, RateInv, Call \/ Return \/ Fail
  PROVE  RateInv'
<1> USE RateTypes DEF RateInv
<1>1. UNCHANGED <<now, ticks, window, sampleTick>>
  BY DEF Call, Return, Fail
<1>2. SecondsAreOrdered' /\ ReadingsKeepOrder' /\ NothingFromLater'
  BY <1>1 DEF SecondsAreOrdered, ReadingsKeepOrder, NothingFromLater, Measured
<1>3. CASE UNCHANGED inbox /\ (sampler'.stage = "idle" \/
              (sampler.stage # "idle" /\ sampler'.asked = sampler.asked))
  <2>1. SamplesAreOrdered' /\ AnswersAreNewer' /\ AwaitedIsUnmeasured'
    BY <1>1, <1>3
       DEF SamplesAreOrdered, AnswersAreNewer, AwaitedIsUnmeasured, Measured
  <2>2. QED
    BY <1>2, <2>1
<1>4. CASE Return
  <2> DEFINE a == [asked |-> sampler.asked, of |-> sampler.of]
  <2>1. sampler.stage # "idle" /\ sampler'.stage = "idle"
        /\ inbox' = Append(inbox, a) /\ inbox \in Seq(Reading)
    BY <1>4 DEF Return, Idle, Types
  <2>2. a.asked = sampler.asked
    OBVIOUS
  <2> HIDE DEF a
  <2>3. \A i \in DOMAIN inbox' :
           \/ i \in DOMAIN inbox /\ inbox'[i] = inbox[i] /\ i <= Len(inbox)
           \/ i = Len(inbox) + 1 /\ inbox'[i] = a
    BY <2>1
  <2>4. SamplesAreOrdered'
    <3>1. \A i \in DOMAIN inbox' : inbox'[i].asked <= now
      BY <2>1, <2>2, <2>3 DEF SamplesAreOrdered
    <3>2. ASSUME NEW i \in DOMAIN inbox', NEW j \in DOMAIN inbox', i < j
          PROVE  inbox'[i].asked < inbox'[j].asked
      <4>1. i \in DOMAIN inbox /\ inbox'[i] = inbox[i]
        BY <2>1, <2>3, <3>2
      <4>2. QED
        BY <2>1, <2>2, <2>3, <3>2, <4>1 DEF SamplesAreOrdered
    <3>3. QED
      BY <1>1, <2>1, <3>1, <3>2 DEF SamplesAreOrdered
  <2>5. AnswersAreNewer'
    BY <1>1, <2>1, <2>2, <2>3 DEF AnswersAreNewer, Measured
  <2>6. AwaitedIsUnmeasured'
    BY <1>1, <2>1, <2>2, <2>3 DEF AwaitedIsUnmeasured, Measured
  <2>7. QED
    BY <1>2, <2>4, <2>5, <2>6
<1>5. QED
  <2>1. Call => /\ UNCHANGED inbox /\ sampler.stage # "idle"
                /\ sampler'.asked = sampler.asked
    BY DEF Call, Types, Samplers
  <2>2. Fail => UNCHANGED inbox /\ sampler'.stage = "idle"
    BY DEF Fail, Idle
  <2>3. QED
    BY <1>3, <1>4, <2>1, <2>2

LEMMA AroundOrder ==
  ASSUME Types, RateInv, ResetConnection \/ ConnectionChanges \/ Quit
  PROVE  RateInv'
<1>1. CASE UNCHANGED Order
  BY <1>1, SameOrder
<1>2. CASE ResetConnection
  <2>1. DOMAIN window' = {} /\ UNCHANGED <<now, sampleTick, sampler, inbox>>
    BY <1>2 DEF ResetConnection
  <2>2. QED
    BY <2>1 DEF RateInv, SecondsAreOrdered, SamplesAreOrdered, AnswersAreNewer,
                AwaitedIsUnmeasured, ReadingsKeepOrder, NothingFromLater, Measured
<1>3. QED
  BY <1>1, <1>2 DEF ConnectionChanges, Quit, Order

LEMMA NextOrder == Types /\ RateInv /\ [Next]_vars => RateInv'
<1>1. RateInv /\ UNCHANGED vars => RateInv'
  BY SameOrder DEF vars, Order
<1>2. QED
  BY <1>1, TickOrder, DeliverOrder, WorkerOrder, AroundOrder DEF Next

\* However slow the answers, and though one may outlive its second and even
\* its connection, RateHistory's trace stays in the order of the questions.
THEOREM TraceKeepsOrder == Spec => []RateInv
<1>1. Init => Types /\ RateInv
  BY InitType, InitOrder
<1>2. (Types /\ RateInv) /\ [Next]_vars => (Types /\ RateInv)'
  BY NextType, NextOrder
<1>3. QED
  BY <1>1, <1>2, PTL DEF Spec

\* The graph reads from left to right in the order the samples were asked for,
\* whatever their delays and however often the instance was changed.
THEOREM TraceRunsForward == Spec => []ReadingsKeepOrder
BY TraceKeepsOrder, PTL DEF RateInv

\* A column never shows what was measured after the second it stands for.
THEOREM NothingShownEarly == Spec => []NothingFromLater
BY TraceKeepsOrder, PTL DEF RateInv

\* settle never writes over a measured column: what the graph has shown for a
\* second it goes on showing.
THEOREM MeasuredIsKept == Spec => MeasuredStays
<1>1. ASSUME Types, RateInv, [Next]_vars, instance' = instance,
             NEW t \in Measured \cap DOMAIN window'
      PROVE  window'[t] = window[t]
  <2> USE RateTypes
  <2>1. t \in DOMAIN window /\ t < ticks
    BY <1>1 DEF Measured
  <2>2. CASE UNCHANGED window
    BY <2>2
  <2>3. CASE OpenSlot /\ now' \in Nat
    BY <1>1, <2>1, <2>3, Opened DEF Types
  <2>4. CASE Deliver /\ sampleTick # None /\ Settle(sampleTick, Head(inbox))
    <3>1. t < sampleTick
      BY <1>1, <2>4 DEF RateInv, AwaitedIsUnmeasured
    <3>2. Head(inbox) \in Reading /\ UNCHANGED ticks
      BY <1>1, <2>4 DEF Deliver, Types
    <3>3. QED
      BY <1>1, <2>1, <2>4, <3>1, <3>2, Settled DEF Types
  <2>5. CASE Tick
    <3>1. now' \in Nat
      BY <1>1, <2>5 DEF Tick
    <3>2. QED
      BY <2>2, <2>3, <2>5, <3>1 DEF Tick
  <2>6. ~ResetConnection
    BY <1>1 DEF ResetConnection, Types, ClockType
  <2>7. QED
    BY <1>1, <2>2, <2>4, <2>5, <2>6
       DEF Next, Call, Return, Fail, Deliver, ConnectionChanges, Quit, vars
<1>2. Types /\ RateInv /\ [Next]_vars =>
        [instance' = instance =>
           \A t \in Measured \cap DOMAIN window' : window'[t] = window[t]]_vars
  BY <1>1
<1>3. Spec => []Types
  BY InitType, NextType, PTL DEF Spec
<1>4. QED
  BY <1>2, <1>3, TraceKeepsOrder, PTL DEF Spec, MeasuredStays
=============================================================================
