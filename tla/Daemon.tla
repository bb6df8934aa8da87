------------------------------- MODULE Daemon -------------------------------
(***************************************************************************)
(* incrond as processes: the main loop of icd-main.cpp, its two signal     *)
(* handlers with their pipe, and the children OnEvent forks for commands.  *)
(* A child shares the descriptors of its parent, the inotify instance and  *)
(* the pipe included, and has copies of everything else.  Tables are left  *)
(* out: they are of one kind and have one inotify instance.                *)
(***************************************************************************)
EXTENDS Naturals, FiniteSets

CONSTANTS
    Proc,       \* process ids
    Main,       \* the one that got the lock
    MaxQueue,   \* fs.inotify.max_queued_events
    Breaks,     \* bound: processes whose poll may fail for good
    NULL

ASSUME MainAssumption == Main \in Proc /\ NULL \notin Proc
ASSUME ProcAssumption == IsFiniteSet(Proc)
ASSUME QueueAssumption == MaxQueue \in Nat \ {0}

VARIABLES
    pc,         \* per process: where it is
    parent,     \* per process: its parent, NULL if that is not an incrond
    queue,      \* events in the kernel
    pipe,       \* bytes in g_cldPipe
    revents,    \* per process: what poll reported
    m_events,   \* per process: events read and not yet handled
    g_fFinish,  \* per process
    sigterm,    \* per process: SIGTERM is pending
    sigchld,    \* per process: SIGCHLD is pending
    writing,    \* processes in on_signal that have emptied the pipe
    lockfile,   \* does the lock file exist
    fSysTable   \* are the tables system tables; this never changes

vars == <<pc, parent, queue, pipe, revents, m_events, g_fFinish, sigterm, sigchld,
          writing, lockfile, fSysTable>>
local == <<parent, m_events, g_fFinish, sigterm, sigchld, writing, lockfile, fSysTable>>

(* "test" to "handle" is the loop; "call" is on the way into poll, "wait"  *)
(* inside it.                                                              *)
Loop == {"test", "call", "wait", "pipe", "read", "handle"}
Incrond == Loop \cup {"start", "leave"}
Child == {"command", "zombie"}
Children(p) == {c \in Proc : parent[c] = p /\ pc[c] \in Incrond \cup Child}
Zombies(p) == {c \in Children(p) : pc[c] = "zombie"}

Go(p, where) == pc' = [pc EXCEPT ![p] = where]

Init ==
    /\ pc = [p \in Proc |-> IF p = Main THEN "start" ELSE "free"]
    /\ parent = [p \in Proc |-> NULL]
    /\ queue = 0 /\ pipe = 0
    /\ revents = [p \in Proc |-> {}]
    /\ m_events = [p \in Proc |-> 0]
    /\ g_fFinish = [p \in Proc |-> FALSE]
    /\ sigterm = [p \in Proc |-> FALSE]
    /\ sigchld = [p \in Proc |-> FALSE]
    /\ writing = {}
    /\ lockfile = TRUE
    /\ fSysTable \in BOOLEAN

-----------------------------------------------------------------------------
(* main().                                                                 *)

(* signal(SIGTERM, on_signal) and so on.                                   *)
InstallHandlers(p) ==
    /\ pc[p] = "start"
    /\ Go(p, "test")
    /\ UNCHANGED <<local, queue, pipe, revents>>

LoopTest(p) ==
    /\ pc[p] = "test"
    /\ Go(p, IF g_fFinish[p] THEN "leave" ELSE "call")
    /\ UNCHANGED <<local, queue, pipe, revents>>

(* poll looks, and sleeps if there is nothing.                             *)
Sleep(p) ==
    /\ pc[p] = "call" /\ queue = 0 /\ pipe = 0
    /\ Go(p, "wait")
    /\ UNCHANGED <<local, queue, pipe, revents>>

PollReturns(p) ==
    /\ pc[p] \in {"call", "wait"}
    /\ queue > 0 \/ pipe > 0
    /\ revents' = [revents EXCEPT ![p] = {d \in {"pipe", "table"} :
                        IF d = "pipe" THEN pipe > 0 ELSE queue > 0}]
    /\ Go(p, "pipe")
    /\ UNCHANGED <<local, queue, pipe>>

(* EAGAIN is slept over and tried again, any other error ends the daemon.  *)
PollFails(p) ==
    /\ pc[p] = "call"
    /\ Go(p, "test") \/ (p \in Breaks /\ Go(p, "leave"))
    /\ UNCHANGED <<local, queue, pipe, revents>>

(* ProcessEvents empties the pipe ...                                      *)
ReadPipe(p) ==
    /\ pc[p] = "pipe"
    /\ pipe' = IF "pipe" \in revents[p] THEN 0 ELSE pipe
    /\ Go(p, "read")
    /\ UNCHANGED <<local, queue, revents>>

(* ... and reads the events that are there (another process may have been  *)
(* faster; the descriptors do not block) ...                               *)
ReadEvents(p) ==
    /\ pc[p] = "read"
    /\ IF "table" \in revents[p]
       THEN m_events' = [m_events EXCEPT ![p] = queue] /\ queue' = 0
       ELSE UNCHANGED <<m_events, queue>>
    /\ revents' = [revents EXCEPT ![p] = {}]
    /\ Go(p, "handle")
    /\ UNCHANGED <<parent, pipe, g_fFinish, sigterm, sigchld, writing, lockfile, fSysTable>>

(* ... and OnEvent forks for each.  The child has all its parent had,      *)
(* pending signals excepted.                                               *)
Fork(p, c) ==
    /\ pc[p] = "handle" /\ m_events[p] > 0
    /\ pc[c] = "free"
    /\ pc' = [pc EXCEPT ![c] = "command"]
    /\ parent' = [parent EXCEPT ![c] = p]
    /\ m_events' = [m_events EXCEPT ![p] = @ - 1, ![c] = m_events[p] - 1]
    /\ g_fFinish' = [g_fFinish EXCEPT ![c] = g_fFinish[p]]
    /\ UNCHANGED <<queue, pipe, revents, sigterm, sigchld, writing, lockfile, fSysTable>>

ForkFails(p) ==
    /\ pc[p] = "handle" /\ m_events[p] > 0
    /\ m_events' = [m_events EXCEPT ![p] = @ - 1]
    /\ UNCHANGED <<pc, parent, queue, pipe, revents, g_fFinish, sigterm, sigchld, writing, lockfile, fSysTable>>

(* Faulty variant: back to poll without a look at g_fFinish.               *)
EventsDoneUntested(p) ==
    /\ pc[p] = "handle" /\ m_events[p] = 0
    /\ Go(p, "call")
    /\ UNCHANGED <<local, queue, pipe, revents>>

EventsDone(p) ==
    /\ pc[p] = "handle" /\ m_events[p] = 0
    /\ Go(p, "test")
    /\ UNCHANGED <<local, queue, pipe, revents>>

(* A process is gone: its parent is told, or init takes it at once; the    *)
(* same goes for the children it leaves.                                   *)
Ends(p) ==
    /\ pc' = [q \in Proc |->
                IF q = p THEN IF parent[p] = NULL THEN "free" ELSE "zombie"
                ELSE IF q \in Zombies(p) THEN "free" ELSE pc[q]]
    /\ parent' = [q \in Proc |-> IF q \in Children(p) THEN NULL ELSE parent[q]]
    /\ sigchld' = [q \in Proc |-> IF q = p THEN FALSE
                                  ELSE sigchld[q] \/ q = parent[p]]
    /\ sigterm' = [sigterm EXCEPT ![p] = FALSE]
    /\ g_fFinish' = [g_fFinish EXCEPT ![p] = FALSE]
    /\ m_events' = [m_events EXCEPT ![p] = 0]

(* free_tables, the pipe, and ~AppInstance, which unlinks the lock file.   *)
Leave(p) ==
    /\ pc[p] = "leave"
    /\ Ends(p)
    /\ lockfile' = FALSE
    /\ UNCHANGED <<queue, pipe, revents, writing, fSysTable>>

-----------------------------------------------------------------------------
(* The handlers, between any two steps of a process.                       *)

(* SIGTERM or SIGINT.  Before there is a handler it kills, and leaves the  *)
(* lock file.                                                              *)
HandleTerm(p) ==
    /\ sigterm[p] /\ pc[p] \in Incrond
    /\ IF pc[p] = "start"
       THEN Ends(p)
       ELSE /\ sigterm' = [sigterm EXCEPT ![p] = FALSE]
            /\ g_fFinish' = [g_fFinish EXCEPT ![p] = TRUE]
            /\ pc' = IF pc[p] = "wait" THEN [pc EXCEPT ![p] = "test"] ELSE pc
            /\ UNCHANGED <<parent, m_events, sigchld>>
    /\ UNCHANGED <<queue, pipe, revents, writing, lockfile, fSysTable>>

(* Faulty variants: one waitpid per signal; the pipe is not emptied first. *)
HandleChldOnce(p) ==
    /\ sigchld[p] /\ p \notin writing /\ pc[p] \in Loop \cup {"leave"}
    /\ sigchld' = [sigchld EXCEPT ![p] = FALSE]
    /\ LET reaped == IF Zombies(p) = {} THEN {} ELSE {CHOOSE c \in Zombies(p) : TRUE}
       IN  pc' = [q \in Proc |-> IF q \in reaped THEN "free"
                                 ELSE IF q = p /\ pc[p] = "wait" THEN "test" ELSE pc[q]]
    /\ pipe' = 0 /\ writing' = writing \cup {p}
    /\ UNCHANGED <<parent, queue, revents, m_events, g_fFinish, sigterm, lockfile, fSysTable>>
HandleChldFills(p) ==
    /\ sigchld[p] /\ p \notin writing /\ pc[p] \in Loop \cup {"leave"}
    /\ sigchld' = [sigchld EXCEPT ![p] = FALSE]
    /\ pc' = [q \in Proc |-> IF q \in Zombies(p) THEN "free"
                             ELSE IF q = p /\ pc[p] = "wait" THEN "test" ELSE pc[q]]
    /\ pipe' = pipe /\ writing' = writing \cup {p}
    /\ UNCHANGED <<parent, queue, revents, m_events, g_fFinish, sigterm, lockfile, fSysTable>>

(* SIGCHLD: every zombie is waited for and the pipe emptied ...            *)
HandleChld(p) ==
    /\ sigchld[p] /\ p \notin writing /\ pc[p] \in Loop \cup {"leave"}
    /\ sigchld' = [sigchld EXCEPT ![p] = FALSE]
    /\ pc' = [q \in Proc |-> IF q \in Zombies(p) THEN "free"
                             ELSE IF q = p /\ pc[p] = "wait" THEN "test" ELSE pc[q]]
    /\ pipe' = 0 /\ writing' = writing \cup {p}
    /\ UNCHANGED <<parent, queue, revents, m_events, g_fFinish, sigterm, lockfile, fSysTable>>

(* ... and one byte written.  Meanwhile copies of the daemon may do the    *)
(* same to the pipe they share; the process itself does nothing else, but  *)
(* take note of a SIGTERM.                                                 *)
WriteByte(p) ==
    /\ p \in writing
    /\ writing' = writing \ {p}
    /\ pipe' = pipe + 1
    /\ UNCHANGED <<pc, parent, queue, revents, m_events, g_fFinish, sigterm, sigchld,
                   lockfile, fSysTable>>

-----------------------------------------------------------------------------
(* The child of OnEvent.                                                   *)

(* Faulty variant: a command that cannot be started returns to the loop.   *)
RunAsUserReturns(c) ==
    /\ pc[c] = "command" /\ ~fSysTable
    /\ \/ Ends(c)
       \/ /\ Go(c, "handle")
          /\ UNCHANGED <<parent, sigchld, sigterm, g_fFinish, m_events>>
    /\ UNCHANGED <<queue, pipe, revents, writing, lockfile, fSysTable>>

(* RunAsUser never returns: bash replaces the child or _exit ends it.      *)
RunAsUser(c) ==
    /\ pc[c] = "command" /\ ~fSysTable
    /\ Ends(c)
    /\ UNCHANGED <<queue, pipe, revents, writing, lockfile, fSysTable>>

(* system() does, and only a command that fails ends the child: otherwise  *)
(* it goes on with the events its parent had read.                         *)
RunAsSystem(c) ==
    /\ pc[c] = "command" /\ fSysTable
    /\ \/ Ends(c)
       \/ /\ Go(c, "handle")
          /\ UNCHANGED <<parent, sigchld, sigterm, g_fFinish, m_events>>
    /\ UNCHANGED <<queue, pipe, revents, writing, lockfile, fSysTable>>

-----------------------------------------------------------------------------
(* Outside.                                                                *)

Event ==
    /\ queue < MaxQueue
    /\ queue' = queue + 1
    /\ UNCHANGED <<pc, pipe, revents, local>>

(* incrond -k, which finds the pid in the lock file.                       *)
Terminate ==
    /\ lockfile
    /\ pc[Main] \in Incrond /\ ~sigterm[Main] /\ ~g_fFinish[Main]
    /\ sigterm' = [sigterm EXCEPT ![Main] = TRUE]
    /\ UNCHANGED <<pc, parent, queue, pipe, revents, m_events, g_fFinish, sigchld, writing,
                   lockfile, fSysTable>>

-----------------------------------------------------------------------------
Handlers(p) == HandleTerm(p) \/ HandleChld(p) \/ WriteByte(p)

MainNext(p) ==
    /\ p \notin writing
    /\ \/ InstallHandlers(p) \/ LoopTest(p) \/ Sleep(p) \/ PollReturns(p)
       \/ PollFails(p)
       \/ ReadPipe(p) \/ ReadEvents(p) \/ EventsDone(p)
       \/ ForkFails(p) \/ \E c \in Proc : Fork(p, c)
       \/ Leave(p)

Next ==
    \/ \E p \in Proc :
        \/ MainNext(p) \/ Handlers(p)
        \/ RunAsUser(p) \/ RunAsSystem(p)
    \/ Event \/ Terminate

(* Processes run and signals are delivered; commands may take for ever and *)
(* nothing need ever happen in a directory.                                *)
Spec ==
    /\ Init /\ [][Next]_vars
    /\ \A p \in Proc : WF_vars(MainNext(p)) /\ WF_vars(HandleChld(p) \/ WriteByte(p))
    /\ WF_vars(HandleTerm(Main))   \* nobody else is sent SIGTERM

-----------------------------------------------------------------------------
(* Properties.                                                             *)

(* The pipe is emptied before a byte is written, "to prevent internal      *)
(* buffer overflow" (icd-main.cpp:108): it holds one, or one of each copy  *)
(* of the daemon.                                                          *)
TypeOK ==
    /\ pc \in [Proc -> Incrond \cup Child \cup {"free"}]
    /\ parent \in [Proc -> Proc \cup {NULL}]
    /\ queue \in 0..MaxQueue
    /\ pipe \in 0..(IF fSysTable THEN Cardinality(Proc) ELSE 1)
    /\ revents \in [Proc -> SUBSET {"pipe", "table"}]
    /\ m_events \in [Proc -> 0..MaxQueue]
    /\ g_fFinish \in [Proc -> BOOLEAN]
    /\ sigterm \in [Proc -> BOOLEAN] /\ sigchld \in [Proc -> BOOLEAN]
    /\ writing \subseteq {p \in Proc : pc[p] \in Loop \cup {"leave"}}
    /\ lockfile \in BOOLEAN /\ fSysTable \in BOOLEAN

(* One process runs incrond's loop, whatever its children do, and the lock *)
(* file is there as long as it does (incron.conf.5:29, "a lock avoiding to *)
(* run multiple instances of incrond").                                    *)
OneMainLoop ==
    /\ \A p, q \in Proc : pc[p] \in Loop /\ pc[q] \in Loop => p = q
    /\ (\E p \in Proc : pc[p] \in Loop) => lockfile

(* This holds when all the tables are users'.                              *)
UserTablesOneLoop == ~fSysTable => OneMainLoop

(* No child that ended is forgotten: its parent is alive, has its handler  *)
(* and is still to handle a SIGCHLD, though any number of children make    *)
(* one, some end while the handler runs, and parents come and go           *)
(* (icd-main.cpp:107).                                                     *)
ZombiesAnnounced ==
    \A c \in Proc : pc[c] = "zombie" =>
        parent[c] \in Proc /\ sigchld[parent[c]] /\ pc[parent[c]] \in Loop \cup {"leave"}

(* Every child that ended is waited for, though any number of them make    *)
(* one SIGCHLD (icd-main.cpp:107, "Prevent zombies").                      *)
ZombiesReaped == \A c \in Proc : pc[c] = "zombie" ~> pc[c] # "zombie"

(* A termination request is honoured if events keep coming: on_signal only *)
(* sets g_fFinish, and poll may have been called between the loop's test   *)
(* and the signal.  Copies of the daemon may read those events first, so   *)
(* this is said of user tables.                                            *)
FinishHonoured ==
    ~fSysTable /\ []<>(queue > 0)
        => (sigterm[Main] /\ pc[Main] \in Incrond ~> pc[Main] \notin Incrond)
=============================================================================
