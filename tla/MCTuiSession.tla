------------------------------ MODULE MCTuiSession ------------------------------
(* Model values, symmetry and starting points for TLC. *)
EXTENDS TuiSession, TLC

CONSTANTS h1, h2, s1, s2, s3, s4

OneHost == {h1}
TwoHosts == {h1, h2}
MCSession == {s1, s2, s3, s4}
ThreeSessions == {s1, s2, s3}
OneSession == {s1}
Symmetry == Permutations(ThreeSessions)

\* One instance only, or two clients of each.
OfOneHost == [s \in ThreeSessions |-> h1]
OfTwoHosts == [s \in MCSession |-> IF s \in {s1, s2} THEN h1 ELSE h2]
OfOneSession == [s \in OneSession |-> h1]

\* A session already configured by the user env file.
ConfiguredInit == Init /\ ~needsSetup /\ source = "user_file"
ConfiguredSpec == ConfiguredInit /\ [][Next]_vars

\* An Apply: of the plans that send, the one that starts the most work; no
\* screen opens but those of the Apply, and Help over a Preview.
ApplyBound ==
    /\ preview.plan # "plain" /\ modal # "overlay"
    /\ help => modal = "preview"

\* The same, fair, while the app runs: no screen opens but those of an Apply
\* and Help over a Preview, a Preview is not cancelled, and its plan is plain.
LiveBound ==
    /\ running /\ modal # "overlay"
    /\ help => modal = "preview"
    /\ lastOp # 0 => modal # "none"
    /\ preview.op # 0 => preview.plan = "plain"

LiveNext ==
    (Operator /\ LiveBound') \/ PeriodicTick \/ SampleTick \/ Worker \/ Handler

FairApplySpec == ConfiguredInit /\ [][LiveNext]_vars /\ Fairness

\* A first run or a running session, where nothing outranks the env file.
SetupInit == Init /\ source = "user_file"
SetupSpec == SetupInit /\ [][Next]_vars

\* The connection form before anything was applied or the app has quit.
SetupBound == running /\ server = 0 /\ preview.plan # "widen"
=============================================================================
