----------------------------- MODULE RateHistory ------------------------------
(***************************************************************************)
(* The rolling window of transfer rates of the TUI's graph, and the sampler *)
(* that fills it: one column a second, one worker thread at a time, and an  *)
(* answer that may outlive the second, or the connection, that asked.       *)
(*                                                                          *)
(*   window   qbit_ops.tui.state.RateHistory                                *)
(*   sampler  qbit_ops.tui.app.QbitOpsTuiApp._start_rate_sample,            *)
(*            _on_sample_worker_state_changed                               *)
(*                                                                          *)
(* A reading is the second it was asked in and the connection that answered *)
(* it.  The window maps the ticks it holds to the second each stands for    *)
(* and to what was measured.                                                *)
(***************************************************************************)
EXTENDS Integers, Sequences

CONSTANTS
    None,            \* not measured; no tick awaits a sample
    Slots,           \* how many columns the window holds
    TimersOvertake,  \* a timer may run before a message posted earlier
    MaxSeconds,      \* bound: seconds the session lasts
    MaxResets        \* bound: reconfigurations

ASSUME RateAssumption ==
    /\ Slots \in Nat \ {0}
    /\ TimersOvertake \in BOOLEAN
    /\ MaxSeconds \in Nat /\ MaxResets \in Nat
    /\ None \notin Nat /\ None \notin [asked : Nat, of : Nat]

VARIABLES
    now,         \* seconds since launch
    instance,    \* connections so far: reset_connection starts another
    ticks,       \* _ticks of the current window
    window,      \* its columns, by tick
    sampleTick,  \* _sample_tick
    sampler,     \* _sample_worker while it runs
    inbox,       \* results of ended samplers, not yet handled
    blocked,     \* AUTH_FAILED or CONFIG_FAILED
    running      \* App.is_running

vars == <<now, instance, ticks, window, sampleTick, sampler, inbox, blocked,
          running>>

Reading == [asked : Nat, of : Nat]
Idle == [stage |-> "idle", asked |-> 0, of |-> 0]

Init ==
    /\ now = 0 /\ instance = 0
    /\ ticks = 0 /\ window = << >>
    /\ sampleTick = None /\ sampler = Idle /\ inbox = << >>
    /\ blocked \in BOOLEAN /\ running = TRUE

-----------------------------------------------------------------------------
(* RateHistory: a deque of Slots columns, the newest being tick ticks - 1.  *)

Held(n) == {t \in 0..(n - 1) : t >= n - Slots}

\* Slip: a list where a bounded deque was meant.
OpenUnbounded ==
    /\ ticks' = ticks + 1
    /\ window' = [t \in DOMAIN window \cup {ticks} |->
                     IF t = ticks THEN [second |-> now', reading |-> None]
                     ELSE window[t]]

\* open_slot
OpenSlot ==
    /\ ticks' = ticks + 1
    /\ window' = [t \in Held(ticks + 1) |->
                     IF t = ticks THEN [second |-> now', reading |-> None]
                     ELSE window[t]]

\* Slip: the unmeasured columns before it are filled with the same answer.
SettleGap(t, reading) ==
    window' = [s \in DOMAIN window |->
                  IF s <= t /\ window[s].reading = None
                  THEN [window[s] EXCEPT !.reading = reading] ELSE window[s]]

\* settle: nothing, once the column has scrolled away
Settle(t, reading) ==
    window' = IF t \in DOMAIN window THEN [window EXCEPT ![t].reading = reading]
              ELSE window

-----------------------------------------------------------------------------
(* The sampler. *)

\* Slip: a tick already awaited is not replaced.
AwaitUnlessAwaiting ==
    sampleTick' = IF sampleTick = None THEN ticks ELSE sampleTick

\* self._sample_tick = tick
Await == sampleTick' = ticks

\* A second passes: _start_rate_sample.  The column is opened whether or not
\* anything is asked for it; nothing is asked while a sample is running.
Tick ==
    /\ running
    /\ now < MaxSeconds
    /\ TimersOvertake \/ inbox = << >>
    /\ now' = now + 1
    /\ \/ blocked /\ UNCHANGED <<ticks, window, sampleTick, sampler>>
       \/ /\ ~blocked /\ OpenSlot
          /\ \/ /\ sampler.stage # "idle"
                /\ UNCHANGED <<sampleTick, sampler>>
             \/ /\ sampler.stage = "idle"
                /\ Await
                /\ sampler' = [stage |-> "waiting", asked |-> now', of |-> 0]
    /\ UNCHANGED <<instance, inbox, blocked, running>>

\* _remote_operation lets the worker through: its client is the one of now.
Call ==
    /\ sampler.stage = "waiting"
    /\ sampler' = [sampler EXCEPT !.stage = "calling", !.of = instance]
    /\ UNCHANGED <<now, instance, ticks, window, sampleTick, inbox, blocked,
                   running>>

\* collect_transfer_rates returns.
Return ==
    /\ sampler.stage = "calling"
    /\ sampler' = Idle
    /\ inbox' = Append(inbox, [asked |-> sampler.asked, of |-> sampler.of])
    /\ UNCHANGED <<now, instance, ticks, window, sampleTick, blocked, running>>

\* It raises, in the login or in the call: no message is acted on.
Fail ==
    /\ sampler.stage # "idle"
    /\ sampler' = Idle
    /\ UNCHANGED <<now, instance, ticks, window, sampleTick, inbox, blocked,
                   running>>

\* Slip: the tick goes on awaiting a sample it already has.
KeepTick == UNCHANGED sampleTick

\* self._sample_tick = None
ForgetTick == sampleTick' = None

\* _on_sample_worker_state_changed
Deliver ==
    /\ inbox # << >>
    /\ inbox' = Tail(inbox)
    /\ \/ /\ running /\ sampleTick # None
          /\ Settle(sampleTick, Head(inbox))
          /\ ForgetTick
       \/ /\ ~running \/ sampleTick = None
          /\ UNCHANGED <<window, sampleTick>>
    /\ UNCHANGED <<now, instance, ticks, sampler, blocked, running>>

-----------------------------------------------------------------------------
(* What goes on around it. *)

\* reset_connection: a window of its own for the new instance
ResetConnection ==
    /\ running
    /\ instance < MaxResets
    /\ instance' = instance + 1
    /\ ticks' = 0 /\ window' = << >>
    /\ UNCHANGED <<now, sampleTick, sampler, inbox, blocked, running>>

\* A refresh moves the connection into a terminal state or out of it.
ConnectionChanges ==
    /\ running
    /\ blocked' = ~blocked
    /\ UNCHANGED <<now, instance, ticks, window, sampleTick, sampler, inbox,
                   running>>

Quit ==
    /\ running
    /\ running' = FALSE
    /\ UNCHANGED <<now, instance, ticks, window, sampleTick, sampler, inbox,
                   blocked>>

Next ==
    \/ Tick \/ Call \/ Return \/ Fail \/ Deliver
    \/ ResetConnection \/ ConnectionChanges \/ Quit

Spec == Init /\ [][Next]_vars

-----------------------------------------------------------------------------
(* Properties. *)

Measured == {t \in DOMAIN window : window[t].reading # None}

\* Every variable holds a value of its type; the window is its last Slots
\* ticks.
TypeOK ==
    /\ now \in Nat /\ instance \in Nat /\ ticks \in Nat
    /\ window \in [Held(ticks) -> [second : Nat, reading : Reading \cup {None}]]
    /\ sampleTick \in Nat \cup {None}
    /\ sampler \in [stage : {"idle", "waiting", "calling"}, asked : Nat, of : Nat]
    /\ inbox \in Seq(Reading)
    /\ blocked \in BOOLEAN /\ running \in BOOLEAN

\* However late samples come back, the trace never runs backwards and shows
\* no sample twice: readings stand in the order they were asked for.
ReadingsKeepOrder ==
    \A s, t \in Measured :
        s < t => window[s].reading.asked < window[t].reading.asked

\* No column shows a reading asked for after its second.
NothingFromLater == \A t \in Measured : window[t].reading.asked <= window[t].second

(***************************************************************************)
(* Why: samples are taken one at a time and handled in the order they were *)
(* asked for, and no column from the awaited tick on has been measured.    *)
(***************************************************************************)
SecondsAreOrdered ==
    /\ \A t \in DOMAIN window : window[t].second <= now
    /\ \A s, t \in DOMAIN window : s < t => window[s].second < window[t].second

SamplesAreOrdered ==
    /\ \A i \in DOMAIN inbox : inbox[i].asked <= now
    /\ \A i, j \in DOMAIN inbox : i < j => inbox[i].asked < inbox[j].asked
    /\ sampler.stage # "idle" =>
           /\ sampler.asked <= now
           /\ \A i \in DOMAIN inbox : inbox[i].asked < sampler.asked

AnswersAreNewer ==
    \A t \in Measured :
        /\ \A i \in DOMAIN inbox : window[t].reading.asked < inbox[i].asked
        /\ sampler.stage # "idle" => window[t].reading.asked < sampler.asked

AwaitedIsUnmeasured ==
    sampleTick # None =>
        /\ \A t \in Measured : t < sampleTick
        /\ sampleTick \in DOMAIN window =>
              /\ \A i \in DOMAIN inbox :
                     inbox[i].asked <= window[sampleTick].second
              /\ sampler.stage # "idle" =>
                     sampler.asked <= window[sampleTick].second

RateInv ==
    /\ SecondsAreOrdered /\ SamplesAreOrdered /\ AnswersAreNewer
    /\ AwaitedIsUnmeasured /\ ReadingsKeepOrder /\ NothingFromLater

\* What a column was measured to be is not revised while it is held.
MeasuredStays ==
    [][instance' = instance =>
           \A t \in Measured \cap DOMAIN window' : window'[t] = window[t]]_vars
=============================================================================
