----------------------------- MODULE PoliteHost -----------------------------
(***************************************************************************)
(* What docs/politeness.md promises a web server, with nothing about how:   *)
(* one request at a time per host, and a minimum delay between the end of   *)
(* one request to a host and the start of the next.                         *)
(***************************************************************************)
EXTENDS Integers

CONSTANTS Tasks, Hosts, MinDelay

VARIABLES
    serving,    \* the tasks with a request open at each host
    quiet       \* time since the last request to a host ended, up to MinDelay

Init ==
    /\ serving = [h \in Hosts |-> {}]
    /\ quiet = [h \in Hosts |-> MinDelay]

Start(t, h) ==
    /\ serving[h] = {} /\ quiet[h] = MinDelay
    /\ serving' = [serving EXCEPT ![h] = {t}]
    /\ UNCHANGED quiet

Stop(t, h) ==
    /\ serving[h] = {t}
    /\ serving' = [serving EXCEPT ![h] = {}]
    /\ quiet' = [quiet EXCEPT ![h] = 0]

Tick ==
    /\ quiet' = [h \in Hosts |-> IF quiet[h] < MinDelay THEN quiet[h] + 1 ELSE MinDelay]
    /\ UNCHANGED serving

Next == Tick \/ \E t \in Tasks, h \in Hosts : Start(t, h) \/ Stop(t, h)

Spec == Init /\ [][Next]_<<serving, quiet>>
=============================================================================
