---------------------------- MODULE InstanceLock ----------------------------
(* What AppInstance is for (appinst.h:58-63): of all the processes that    *)
(* try, one runs, and another one only after it has stopped.               *)
CONSTANT Proc
VARIABLE running   \* the processes whose Lock returned true

Init == running = {}

Acquire(p) == running = {} /\ running' = {p}

Release(p) == running = {p} /\ running' = {}

Next == \E p \in Proc : Acquire(p) \/ Release(p)

Spec == Init /\ [][Next]_running
=============================================================================
