------------------------------- MODULE ApplyOnce -------------------------------
(***************************************************************************)
(* What Preview and Apply promise an operator, without threads, locks,     *)
(* queues or screens.  Each Preview is an operation of its own; at most    *)
(* one is open; it may go stale, and never recovers; one that is not stale *)
(* may be applied, and then cannot be closed before its answer; the call   *)
(* that sends it begins between its Apply and its answer, once, and never  *)
(* after the operator has quit.                                            *)
(***************************************************************************)
EXTENDS Naturals

CONSTANT MaxOps     \* bound: Previews opened in a behaviour

Op == 1..MaxOps
Stage == {"unborn", "offered", "stale", "applying", "closed"}

VARIABLES
    stage,      \* where each operation is
    sends,      \* how often it was sent to qBittorrent
    calling,    \* the operation whose call has begun, or 0
    alive       \* the operator has not quit

Init ==
    /\ stage = [o \in Op |-> "unborn"]
    /\ sends = [o \in Op |-> 0]
    /\ calling = 0
    /\ alive = TRUE

Open(o) == stage[o] \notin {"unborn", "closed"}

Move(o, from, to) ==
    /\ stage[o] \in from
    /\ \E s \in to : stage' = [stage EXCEPT ![o] = s]
    /\ UNCHANGED <<sends, calling, alive>>

\* A Preview opens, perhaps stale from birth; operations are never reused.
Offer(o) ==
    /\ \A p \in Op : ~Open(p) /\ (p < o => stage[p] = "closed")
    /\ Move(o, {"unborn"}, {"offered", "stale"})

Expire(o) == Move(o, {"offered"}, {"stale"})
Apply(o)  == Move(o, {"offered"}, {"applying"})
Cancel(o) == Move(o, {"offered", "stale"}, {"closed"})

\* The call begins while the operator still wants it.
Begin(o) ==
    /\ alive /\ calling = 0
    /\ stage[o] = "applying" /\ sends[o] = 0
    /\ calling' = o
    /\ UNCHANGED <<stage, sends, alive>>

\* It ends: the operation was sent, unless there was nothing to send.
Call(o) ==
    /\ calling = o /\ calling' = 0
    /\ sends' \in {sends, [sends EXCEPT ![o] = @ + 1]}
    /\ UNCHANGED <<stage, alive>>

\* The answer closes the Preview, or leaves it spent behind another screen.
Answer(o) == calling # o /\ Move(o, {"applying"}, {"closed", "stale"})

Quit ==
    /\ alive' = FALSE
    /\ UNCHANGED <<stage, sends, calling>>

Next ==
    \/ \E o \in Op : Offer(o) \/ Expire(o) \/ Apply(o) \/ Cancel(o)
                        \/ Begin(o) \/ Call(o) \/ Answer(o)
    \/ Quit

Spec == Init /\ [][Next]_<<stage, sends, calling, alive>>
=============================================================================
