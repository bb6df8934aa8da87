---------------------------- MODULE Daemon_proofs ----------------------------
(* Any number of processes and events: the types, and the one main loop of *)
(* a daemon whose tables are users'.                                       *)
EXTENDS Daemon, FiniteSetTheorems, TLAPS

LEMMA QueueLength == \A n \in 0..MaxQueue : /\ n > 0 => n - 1 \in 0..MaxQueue
                                            /\ n < MaxQueue => n + 1 \in 0..MaxQueue
  BY QueueAssumption

(* The types but those of the pipe, which PipeInv below is about.          *)
Types ==
    /\ pc \in [Proc -> Incrond \cup Child \cup {"free"}]
    /\ parent \in [Proc -> Proc \cup {NULL}]
    /\ queue \in 0..MaxQueue
    /\ revents \in [Proc -> SUBSET {"pipe", "table"}]
    /\ m_events \in [Proc -> 0..MaxQueue]
    /\ g_fFinish \in [Proc -> BOOLEAN]
    /\ sigterm \in [Proc -> BOOLEAN] /\ sigchld \in [Proc -> BOOLEAN]
    /\ lockfile \in BOOLEAN /\ fSysTable \in BOOLEAN

LEMMA TypeInit == Init => Types
  BY QueueAssumption, MainAssumption DEF Init, Types, Incrond

(* The end of a process, whatever it was, keeps the types of what it may   *)
(* change.                                                                 *)
LEMMA EndsTypes ==
    ASSUME Types, NEW p \in Proc, Ends(p)
    PROVE  /\ pc' \in [Proc -> Incrond \cup Child \cup {"free"}]
           /\ parent' \in [Proc -> Proc \cup {NULL}]
           /\ m_events' \in [Proc -> 0..MaxQueue]
           /\ g_fFinish' \in [Proc -> BOOLEAN]
           /\ sigterm' \in [Proc -> BOOLEAN] /\ sigchld' \in [Proc -> BOOLEAN]
<1>1. pc' \in [Proc -> Incrond \cup Child \cup {"free"}]
  BY DEF Types, Ends, Child
<1>2. parent' \in [Proc -> Proc \cup {NULL}]
  BY DEF Types, Ends
<1>3. m_events' \in [Proc -> 0..MaxQueue]
  <2>1. 0 \in 0..MaxQueue
    BY QueueAssumption
  <2> QED BY <2>1 DEF Types, Ends
<1>4. g_fFinish' \in [Proc -> BOOLEAN] /\ sigterm' \in [Proc -> BOOLEAN]
  BY DEF Types, Ends
<1>5. sigchld' \in [Proc -> BOOLEAN]
  BY DEF Types, Ends
<1> QED BY <1>1, <1>2, <1>3, <1>4, <1>5

LEMMA TypeStep == Types /\ [Next]_vars => Types'
<1> SUFFICES ASSUME Types, [Next]_vars
             PROVE  Types'
  OBVIOUS
<1> USE DEF Incrond, Loop, Child
(* Steps that move one process through the loop.                           *)
<1>1. ASSUME NEW p \in Proc, NEW where \in Incrond \cup {"free"}, Go(p, where)
      PROVE  pc' \in [Proc -> Incrond \cup Child \cup {"free"}]
  BY <1>1 DEF Types, Go
<1>2. ASSUME NEW p \in Proc,
             InstallHandlers(p) \/ LoopTest(p) \/ Sleep(p) \/ PollFails(p) \/ EventsDone(p)
      PROVE  Types'
  <2>1. UNCHANGED <<local, queue, pipe, revents>>
    BY <1>2 DEF InstallHandlers, LoopTest, Sleep, PollFails, EventsDone
  <2>2. PICK where \in Incrond : Go(p, where)
    BY <1>2 DEF InstallHandlers, LoopTest, Sleep, PollFails, EventsDone
  <2>3. pc' \in [Proc -> Incrond \cup Child \cup {"free"}]
    BY <2>2, <1>1
  <2> QED BY <2>1, <2>3 DEF Types, local
<1>3. ASSUME NEW p \in Proc, PollReturns(p)
      PROVE  Types'
  <2>1. pc' \in [Proc -> Incrond \cup Child \cup {"free"}]
    BY <1>1, <1>3 DEF PollReturns
  <2>2. revents' \in [Proc -> SUBSET {"pipe", "table"}]
    BY <1>3 DEF PollReturns, Types
  <2> QED BY <1>3, <2>1, <2>2 DEF PollReturns, Types, local
<1>4. ASSUME NEW p \in Proc, ReadPipe(p)
      PROVE  Types'
  <2>1. pc' \in [Proc -> Incrond \cup Child \cup {"free"}]
    BY <1>1, <1>4 DEF ReadPipe
  <2> QED BY <1>4, <2>1 DEF ReadPipe, Types, local
<1>5. ASSUME NEW p \in Proc, ReadEvents(p)
      PROVE  Types'
  <2>1. pc' \in [Proc -> Incrond \cup Child \cup {"free"}]
    BY <1>1, <1>5 DEF ReadEvents
  <2>2. m_events' \in [Proc -> 0..MaxQueue] /\ queue' \in 0..MaxQueue
    BY <1>5, QueueAssumption DEF ReadEvents, Types
  <2>3. revents' \in [Proc -> SUBSET {"pipe", "table"}]
    BY <1>5 DEF ReadEvents, Types
  <2> QED BY <1>5, <2>1, <2>2, <2>3 DEF ReadEvents, Types
<1>6. ASSUME NEW p \in Proc, NEW c \in Proc, Fork(p, c)
      PROVE  Types'
  <2>1. m_events[p] - 1 \in 0..MaxQueue
    BY <1>6, QueueLength DEF Fork, Types
  <2>2. m_events' \in [Proc -> 0..MaxQueue]
    <3>1. m_events' = [m_events EXCEPT ![p] = m_events[p] - 1, ![c] = m_events[p] - 1]
      BY <1>6 DEF Fork
    <3> HIDE DEF Incrond, Loop, Child
    <3> QED BY <2>1, <3>1 DEF Types
  <2>3. pc' \in [Proc -> Incrond \cup Child \cup {"free"}]
    BY <1>6 DEF Fork, Types
  <2>4. parent' \in [Proc -> Proc \cup {NULL}] /\ g_fFinish' \in [Proc -> BOOLEAN]
    BY <1>6 DEF Fork, Types
  <2> QED BY <1>6, <2>2, <2>3, <2>4 DEF Fork, Types
<1>7. ASSUME NEW p \in Proc, ForkFails(p)
      PROVE  Types'
  <2>1. m_events[p] - 1 \in 0..MaxQueue
    BY <1>7, QueueLength DEF ForkFails, Types
  <2>2. m_events' = [m_events EXCEPT ![p] = m_events[p] - 1]
    BY <1>7 DEF ForkFails
  <2>3. m_events' \in [Proc -> 0..MaxQueue]
    BY <2>1, <2>2 DEF Types
  <2> QED BY <1>7, <2>3 DEF ForkFails, Types
<1>8. ASSUME NEW p \in Proc, Leave(p)
      PROVE  Types'
  <2>1. Ends(p)
    BY <1>8 DEF Leave
  <2>2. lockfile' = FALSE /\ UNCHANGED <<queue, revents, fSysTable>>
    BY <1>8 DEF Leave
  <2> QED BY <2>1, <2>2, EndsTypes DEF Types
<1>9. ASSUME NEW p \in Proc, HandleTerm(p)
      PROVE  Types'
  <2>1. UNCHANGED <<queue, revents, lockfile, fSysTable>>
    BY <1>9 DEF HandleTerm
  <2>2. CASE pc[p] = "start"
    <3>1. Ends(p)
      BY <1>9, <2>2 DEF HandleTerm
    <3> QED BY <2>1, <3>1, EndsTypes DEF Types
  <2>3. CASE pc[p] # "start"
    <3>1. pc' \in [Proc -> Incrond \cup Child \cup {"free"}]
      BY <1>9, <2>3 DEF HandleTerm, Types
    <3>2. sigterm' \in [Proc -> BOOLEAN] /\ g_fFinish' \in [Proc -> BOOLEAN]
      BY <1>9, <2>3 DEF HandleTerm, Types
    <3>3. UNCHANGED <<parent, m_events, sigchld>>
      BY <1>9, <2>3 DEF HandleTerm
    <3> QED BY <2>1, <3>1, <3>2, <3>3 DEF Types
  <2> QED BY <2>2, <2>3
<1>10. ASSUME NEW p \in Proc, HandleChld(p)
       PROVE  Types'
  <2>1. pc' \in [Proc -> Incrond \cup Child \cup {"free"}]
    BY <1>10 DEF HandleChld, Types
  <2>2. sigchld' \in [Proc -> BOOLEAN]
    BY <1>10 DEF HandleChld, Types
  <2> QED BY <1>10, <2>1, <2>2 DEF HandleChld, Types
<1>11. ASSUME NEW c \in Proc, RunAsUser(c) \/ RunAsSystem(c)
       PROVE  Types'
  <2>1. UNCHANGED <<queue, revents, lockfile, fSysTable>>
    BY <1>11 DEF RunAsUser, RunAsSystem
  <2>2. CASE Ends(c)
    BY <2>1, <2>2, EndsTypes DEF Types
  <2>3. CASE Go(c, "handle") /\ UNCHANGED <<parent, sigchld, sigterm, g_fFinish, m_events>>
    <3>1. pc' \in [Proc -> Incrond \cup Child \cup {"free"}]
      BY <1>1, <2>3
    <3> QED BY <2>1, <2>3, <3>1 DEF Types
  <2> QED BY <1>11, <2>2, <2>3 DEF RunAsUser, RunAsSystem
<1>12. CASE Event
  BY <1>12, QueueLength DEF Event, Types, local
<1>13. CASE Terminate
  BY <1>13 DEF Terminate, Types
<1>14. ASSUME NEW p \in Proc, WriteByte(p)
       PROVE  Types'
  BY <1>14 DEF WriteByte, Types
<1>15. CASE UNCHANGED vars
  BY <1>15 DEF vars, Types
<1> QED BY <1>2, <1>3, <1>4, <1>5, <1>6, <1>7, <1>8, <1>9, <1>10, <1>11, <1>12, <1>13, <1>14, <1>15
        DEF Next, MainNext, Handlers

-----------------------------------------------------------------------------
(* A child of a daemon with user tables never becomes an incrond; the lock *)
(* file goes with the one there is.                                        *)
LoopInv ==
    ~fSysTable =>
        /\ \A p \in Proc : pc[p] \in Incrond => p = Main
        /\ pc[Main] \in Incrond => lockfile

LEMMA EndsNobody ==
    ASSUME Types, NEW p \in Proc, Ends(p)
    PROVE  \A q \in Proc : /\ pc'[q] \in Incrond => pc[q] \in Incrond
                           /\ pc'[p] \notin Incrond
<1>1. \A q \in Proc : pc'[q] \in {"free", "zombie"} \/ (q # p /\ pc'[q] = pc[q])
  BY DEF Types, Ends
<1> QED BY <1>1 DEF Ends, Types, Incrond, Loop

(* The kind of the tables is that of the start.                            *)
LEMMA TablesKind == [Next]_vars => fSysTable' = fSysTable
<1> SUFFICES ASSUME [Next]_vars PROVE fSysTable' = fSysTable
  OBVIOUS
<1>1. ASSUME NEW p \in Proc, MainNext(p)
      PROVE  fSysTable' = fSysTable
  <2>1. CASE \/ InstallHandlers(p) \/ LoopTest(p) \/ Sleep(p) \/ PollReturns(p)
             \/ PollFails(p) \/ ReadPipe(p)
    BY <2>1 DEF InstallHandlers, LoopTest, Sleep, PollReturns, PollFails, ReadPipe, local
  <2>2. CASE ReadEvents(p) \/ EventsDone(p) \/ ForkFails(p) \/ Leave(p)
    BY <2>2 DEF ReadEvents, EventsDone, ForkFails, Leave, local
  <2>3. CASE \E c \in Proc : Fork(p, c)
    BY <2>3 DEF Fork
  <2> QED BY <1>1, <2>1, <2>2, <2>3 DEF MainNext
<1>2. ASSUME NEW p \in Proc, Handlers(p) \/ RunAsUser(p) \/ RunAsSystem(p)
      PROVE  fSysTable' = fSysTable
  BY <1>2 DEF Handlers, HandleTerm, HandleChld, WriteByte, RunAsUser, RunAsSystem
<1>3. CASE Event \/ Terminate \/ UNCHANGED vars
  BY <1>3 DEF Event, Terminate, local, vars
<1> QED BY <1>1, <1>2, <1>3 DEF Next

LEMMA LoopStep == Types /\ LoopInv /\ [Next]_vars => LoopInv'
<1> SUFFICES ASSUME Types, LoopInv, [Next]_vars, ~fSysTable, fSysTable' = fSysTable
             PROVE  LoopInv'
  BY TablesKind DEF LoopInv
<1> USE MainAssumption
(* It is enough that nobody becomes an incrond and the file stays.         *)
<1>1. ASSUME \A q \in Proc : pc'[q] \in Incrond => pc[q] \in Incrond,
             lockfile' = lockfile
      PROVE  LoopInv'
  BY <1>1 DEF LoopInv
<1>2. ASSUME NEW p \in Proc, NEW where, pc[p] \in Incrond, Go(p, where)
      PROVE  \A q \in Proc : pc'[q] \in Incrond => pc[q] \in Incrond
  BY <1>2 DEF Go, Types
<1>3. ASSUME NEW p \in Proc, MainNext(p)
      PROVE  LoopInv'
  <2>1. CASE Leave(p)
    <3>1. p = Main /\ Ends(p)
      BY <2>1 DEF Leave, LoopInv, Incrond
    <3>2. \A q \in Proc : pc'[q] \in Incrond => pc[q] \in Incrond
      BY <3>1, EndsNobody
    <3>3. pc'[Main] \notin Incrond
      BY <3>1, EndsNobody
    <3> QED BY <3>2, <3>3 DEF LoopInv
  <2>2. ASSUME NEW c \in Proc, Fork(p, c)
        PROVE  LoopInv'
    <3>1. \A q \in Proc : pc'[q] \in Incrond => pc[q] \in Incrond
      BY <2>2 DEF Fork, Types, Incrond, Loop
    <3> QED BY <1>1, <2>2, <3>1 DEF Fork
  <2>3. CASE ForkFails(p)
    BY <1>1, <2>3 DEF ForkFails
  <2>4. CASE \/ InstallHandlers(p) \/ LoopTest(p) \/ Sleep(p) \/ PollReturns(p)
             \/ PollFails(p) \/ ReadPipe(p) \/ ReadEvents(p) \/ EventsDone(p)
    <3>1. pc[p] \in Incrond
      BY <2>4 DEF InstallHandlers, LoopTest, Sleep, PollReturns, PollFails, ReadPipe,
                  ReadEvents, EventsDone, Incrond, Loop
    <3>2. PICK where : Go(p, where)
      BY <2>4 DEF InstallHandlers, LoopTest, Sleep, PollReturns, PollFails, ReadPipe,
                  ReadEvents, EventsDone
    <3>3. lockfile' = lockfile
      BY <2>4 DEF InstallHandlers, LoopTest, Sleep, PollReturns, PollFails, ReadPipe,
                  ReadEvents, EventsDone, local
    <3> QED BY <1>1, <1>2, <3>1, <3>2, <3>3
  <2> QED BY <1>3, <2>1, <2>2, <2>3, <2>4 DEF MainNext
<1>4. ASSUME NEW p \in Proc, HandleTerm(p)
      PROVE  LoopInv'
  <2>1. lockfile' = lockfile /\ pc[p] \in Incrond
    BY <1>4 DEF HandleTerm
  <2>2. CASE pc[p] = "start"
    <3>1. Ends(p)
      BY <1>4, <2>2 DEF HandleTerm
    <3> QED BY <1>1, <2>1, <3>1, EndsNobody
  <2>3. CASE pc[p] # "start"
    <3>1. \A q \in Proc : pc'[q] \in Incrond => pc[q] \in Incrond
      BY <1>4, <2>1, <2>3 DEF HandleTerm, Types
    <3> QED BY <1>1, <2>1, <3>1
  <2> QED BY <2>2, <2>3
<1>5. ASSUME NEW p \in Proc, HandleChld(p)
      PROVE  LoopInv'
  <2>1. \A q \in Proc : pc'[q] \in Incrond => pc[q] \in Incrond
    BY <1>5 DEF HandleChld, Types, Incrond, Loop
  <2> QED BY <1>1, <1>5, <2>1 DEF HandleChld
<1>6. ASSUME NEW c \in Proc, RunAsUser(c)
      PROVE  LoopInv'
  BY <1>1, <1>6, EndsNobody DEF RunAsUser
<1>7. ASSUME NEW c \in Proc, RunAsSystem(c)
      PROVE  LoopInv'
  BY <1>7 DEF RunAsSystem
<1>8. CASE Event
  BY <1>1, <1>8 DEF Event, local
<1>9. CASE Terminate
  BY <1>1, <1>9 DEF Terminate
<1>10. ASSUME NEW p \in Proc, WriteByte(p)
       PROVE  LoopInv'
  BY <1>1, <1>10 DEF WriteByte
<1>11. CASE UNCHANGED vars
  BY <1>1, <1>11 DEF vars
<1> QED BY <1>3, <1>4, <1>5, <1>6, <1>7, <1>8, <1>9, <1>10, <1>11 DEF Next, Handlers

(* If all its tables are users', a daemon stays one process in the main    *)
(* loop, with its lock file, however many commands it starts and whatever  *)
(* signals arrive.                                                         *)
THEOREM OneLoopForUserTables == Spec => []UserTablesOneLoop
<1>1. Init => Types /\ LoopInv
  BY TypeInit, MainAssumption DEF Init, LoopInv, Incrond, Loop
<1>2. Types /\ LoopInv /\ [Next]_vars => Types' /\ LoopInv'
  BY TypeStep, LoopStep
<1>3. Types /\ LoopInv => UserTablesOneLoop
  BY MainAssumption DEF Types, LoopInv, UserTablesOneLoop, OneMainLoop, Incrond
<1> QED BY <1>1, <1>2, <1>3, PTL DEF Spec

-----------------------------------------------------------------------------
(* The pipe: with the bytes that processes in on_signal are about to write *)
(* it has no more than one for each process, and with user tables only one *)
(* process writes, after it has emptied the pipe.                          *)
Alive(p) == pc[p] \in Loop \cup {"leave"}
PipeInv ==
    /\ pipe \in Nat
    /\ writing \subseteq {p \in Proc : Alive(p)}
    /\ pipe + Cardinality(writing) <= Cardinality(Proc)
    /\ ~fSysTable => pipe <= 1 /\ (Main \in writing => pipe = 0)

(* Sets of processes are finite, and no larger than all of them.           *)
LEMMA Counted ==
    ASSUME NEW S, S \subseteq Proc
    PROVE  /\ IsFiniteSet(S) /\ Cardinality(S) \in Nat /\ Cardinality(Proc) \in Nat
           /\ Cardinality(S) <= Cardinality(Proc)
  BY ProcAssumption, FS_Subset, FS_CardinalityType

LEMMA PipeInit == Init => PipeInv
<1> SUFFICES ASSUME Init
             PROVE  PipeInv
  OBVIOUS
<1>1. Cardinality({}) = 0 /\ Cardinality(Proc) \in Nat
  BY FS_EmptySet, ProcAssumption, FS_CardinalityType
<1> QED BY <1>1 DEF Init, PipeInv

(* Whoever does not come to write a byte leaves the pipe alone or empties  *)
(* it.                                                                     *)
LEMMA PipeKept ==
    ASSUME PipeInv, UNCHANGED <<writing, fSysTable>>, pipe' = pipe \/ pipe' = 0,
           \A q \in writing : Alive(q)'
    PROVE  PipeInv'
<1>1. Cardinality(writing) \in Nat /\ Cardinality(Proc) \in Nat
      /\ Cardinality(writing) <= Cardinality(Proc)
  BY Counted DEF PipeInv
<1> QED BY <1>1 DEF PipeInv

LEMMA PipeStep == Types /\ LoopInv /\ PipeInv /\ [Next]_vars => PipeInv'
<1> SUFFICES ASSUME Types, LoopInv, PipeInv, [Next]_vars
             PROVE  PipeInv'
  OBVIOUS
<1>0. /\ \A q \in writing : q \in Proc /\ pc[q] \in Loop \cup {"leave"}
      /\ pipe \in Nat
      /\ writing \subseteq Proc
  BY DEF PipeInv, Alive
(* One process moves that is not in on_signal.                             *)
<1>1. ASSUME NEW p \in Proc, p \notin writing, \A q \in Proc \ {p} : pc'[q] = pc[q],
             UNCHANGED <<writing, fSysTable>>, pipe' = pipe \/ pipe' = 0
      PROVE  PipeInv'
  <2>1. \A q \in writing : Alive(q)'
    BY <1>0, <1>1 DEF Alive
  <2> QED BY <1>1, <2>1, PipeKept
<1>2. ASSUME NEW p \in Proc, p \notin writing, Ends(p),
             UNCHANGED <<writing, fSysTable, pipe>>
      PROVE  PipeInv'
  <2>1. \A q \in writing : pc'[q] = pc[q]
    BY <1>0, <1>2 DEF Ends, Zombies, Loop
  <2> QED BY <1>0, <1>2, <2>1, PipeKept DEF Alive
<1>3. ASSUME NEW p \in Proc, MainNext(p)
      PROVE  PipeInv'
  <2>1. CASE \/ InstallHandlers(p) \/ LoopTest(p) \/ Sleep(p) \/ PollReturns(p)
             \/ PollFails(p) \/ ReadPipe(p) \/ ReadEvents(p) \/ EventsDone(p)
    <3>1. PICK where : Go(p, where)
      BY <2>1 DEF InstallHandlers, LoopTest, Sleep, PollReturns, PollFails, ReadPipe,
                  ReadEvents, EventsDone
    <3>2. \A q \in Proc \ {p} : pc'[q] = pc[q]
      BY <3>1 DEF Go, Types
    <3>3. UNCHANGED <<writing, fSysTable>> /\ (pipe' = pipe \/ pipe' = 0)
      BY <2>1 DEF InstallHandlers, LoopTest, Sleep, PollReturns, PollFails, ReadPipe,
                  ReadEvents, EventsDone, local
    <3> QED BY <1>1, <1>3, <3>2, <3>3 DEF MainNext
  <2>2. ASSUME NEW c \in Proc, Fork(p, c)
        PROVE  PipeInv'
    <3>1. c \notin writing
      BY <1>0, <2>2 DEF Fork, Loop
    <3>2. \A q \in Proc \ {c} : pc'[q] = pc[q]
      BY <2>2 DEF Fork, Types
    <3> QED BY <1>1, <2>2, <3>1, <3>2 DEF Fork
  <2>3. CASE ForkFails(p)
    BY <1>1, <1>3, <2>3 DEF ForkFails, MainNext
  <2>4. CASE Leave(p)
    BY <1>2, <1>3, <2>4 DEF Leave, MainNext
  <2> QED BY <1>3, <2>1, <2>2, <2>3, <2>4 DEF MainNext
<1>4. ASSUME NEW p \in Proc, HandleTerm(p)
      PROVE  PipeInv'
  <2>1. CASE pc[p] = "start"
    <3>1. p \notin writing
      BY <1>0, <2>1 DEF Loop
    <3> QED BY <1>2, <1>4, <2>1, <3>1 DEF HandleTerm
  <2>2. CASE pc[p] # "start"
    <3>1. \A q \in writing : Alive(q)'
      BY <1>0, <1>4, <2>2 DEF HandleTerm, Types, Alive, Loop
    <3> QED BY <1>4, <3>1, PipeKept DEF HandleTerm
  <2> QED BY <2>1, <2>2
<1>5. ASSUME NEW p \in Proc, HandleChld(p)
      PROVE  PipeInv'
  <2>1. pipe' = 0 /\ writing' = writing \cup {p} /\ fSysTable' = fSysTable
    BY <1>5 DEF HandleChld
  <2>2. \A q \in writing \cup {p} : Alive(q)'
    BY <1>0, <1>5 DEF HandleChld, Types, Alive, Zombies, Loop
  <2>3. writing' \subseteq {q \in Proc : Alive(q)'}
    BY <1>0, <2>1, <2>2
  <2>4. Cardinality(writing') \in Nat /\ Cardinality(Proc) \in Nat
        /\ Cardinality(writing') <= Cardinality(Proc)
    BY <2>3, Counted
  <2> QED BY <2>1, <2>3, <2>4 DEF PipeInv
<1>6. ASSUME NEW p \in Proc, WriteByte(p)
      PROVE  PipeInv'
  <2>1. pipe' = pipe + 1 /\ writing' = writing \ {p} /\ fSysTable' = fSysTable /\ pc' = pc
        /\ p \in writing
    BY <1>6 DEF WriteByte
  <2>2. Cardinality(writing') = Cardinality(writing) - 1 /\ Cardinality(writing) \in Nat
        /\ Cardinality(Proc) \in Nat
    BY <1>0, <2>1, Counted, FS_RemoveElement
  <2>3. writing' \subseteq {q \in Proc : Alive(q)'}
    BY <1>0, <2>1 DEF Alive
  <2>4. pipe' + Cardinality(writing') <= Cardinality(Proc)
    BY <1>0, <2>1, <2>2 DEF PipeInv
  <2>5. ~fSysTable => p = Main /\ pipe = 0
    BY <1>0, <2>1 DEF LoopInv, PipeInv, Incrond
  <2> QED BY <1>0, <2>1, <2>3, <2>4, <2>5 DEF PipeInv
<1>7. ASSUME NEW c \in Proc, RunAsUser(c) \/ RunAsSystem(c)
      PROVE  PipeInv'
  <2>1. /\ pc[c] = "command" /\ UNCHANGED <<writing, fSysTable, pipe>>
        /\ Ends(c) \/ Go(c, "handle")
    BY <1>7 DEF RunAsUser, RunAsSystem
  <2>2. c \notin writing
    BY <1>0, <2>1 DEF Loop
  <2>3. CASE Ends(c)
    BY <1>2, <2>1, <2>2, <2>3
  <2>4. CASE Go(c, "handle")
    BY <1>1, <2>1, <2>2, <2>4 DEF Go, Types
  <2> QED BY <2>1, <2>3, <2>4
<1>8. CASE Event \/ Terminate \/ UNCHANGED vars
  <2>1. UNCHANGED <<pc, writing, fSysTable, pipe>>
    BY <1>8 DEF Event, Terminate, local, vars
  <2> QED BY <1>0, <2>1, PipeKept DEF Alive
<1> QED BY <1>3, <1>4, <1>5, <1>6, <1>7, <1>8 DEF Next, Handlers

(* Whatever happens, the notification pipe holds one byte at most, or one  *)
(* for each copy of the daemon if there are copies, only those with a      *)
(* handler are in it, and no process has more events than a read returns.  *)
THEOREM TypeCorrect == Spec => []TypeOK
<1>1. Init => Types /\ LoopInv /\ PipeInv
  BY TypeInit, PipeInit, MainAssumption DEF Init, LoopInv, Incrond, Loop
<1>2. Types /\ LoopInv /\ PipeInv /\ [Next]_vars => (Types /\ LoopInv /\ PipeInv)'
  BY TypeStep, LoopStep, PipeStep
<1>3. Types /\ PipeInv => TypeOK
  <2> SUFFICES ASSUME Types, PipeInv
               PROVE  TypeOK
    OBVIOUS
  <2>1. Cardinality(writing) \in Nat /\ Cardinality(Proc) \in Nat
    BY Counted DEF PipeInv
  <2>2. pipe \in 0..(IF fSysTable THEN Cardinality(Proc) ELSE 1)
    BY <2>1 DEF PipeInv
  <2> QED BY <2>2 DEF Types, PipeInv, Alive, TypeOK
<1> QED BY <1>1, <1>2, <1>3, PTL DEF Spec

-----------------------------------------------------------------------------
(* A child that is there, ended or not, has no parent any more or one that *)
(* gets signals; an ended one has told it.                                 *)
Told(c) ==
    /\ pc[c] \in Incrond \cup Child => parent[c] = NULL \/ (parent[c] # c /\ Alive(parent[c]))
    /\ pc[c] = "zombie" => parent[c] # NULL /\ sigchld[parent[c]]
ChildInv == \A c \in Proc : Told(c)

(* The end of a process: it tells its parent, and its own children have    *)
(* none from now on.                                                       *)
LEMMA EndsTold ==
    ASSUME Types, ChildInv, NEW p \in Proc, pc[p] \in Incrond \cup {"command"}, Ends(p)
    PROVE  ChildInv'
<1> USE MainAssumption DEF Incrond, Loop, Child
<1> DEFINE live == Incrond \cup Child
<1>1. /\ \A q \in Proc \ {p} : pc'[q] = IF q \in Zombies(p) THEN "free" ELSE pc[q]
      /\ pc'[p] = IF parent[p] = NULL THEN "free" ELSE "zombie"
      /\ \A q \in Proc : parent'[q] = IF q \in Children(p) THEN NULL ELSE parent[q]
      /\ \A q \in Proc \ {p} : sigchld[q] \/ q = parent[p] => sigchld'[q]
  BY DEF Ends, Types
<1>2. \A q \in Proc : parent[q] \in Proc \cup {NULL}
  BY DEF Types
<1>3. \A q \in Proc : Told(q)
  BY DEF ChildInv
<1>4. \A q \in Proc : Alive(q) /\ q # p => Alive(q)'
  <2>1. \A q \in Zombies(p) : pc[q] = "zombie"
    BY DEF Zombies
  <2> QED BY <1>1, <2>1 DEF Alive
<1>5. Told(p)'
  <2>1. pc[p] \in live
    OBVIOUS
  <2>2. parent[p] = NULL \/ (parent[p] # p /\ Alive(parent[p]))
    BY <1>3, <2>1 DEF Told
  <2>3. p \notin Children(p)
    BY <2>2 DEF Children
  <2> QED BY <1>1, <1>2, <1>4, <2>2, <2>3 DEF Told
<1>6. ASSUME NEW q \in Proc \ {p}
      PROVE  Told(q)'
  <2>1. CASE q \in Children(p)
    <3>1. pc'[q] # "zombie" /\ parent'[q] = NULL
      BY <1>1, <2>1 DEF Zombies
    <3> QED BY <3>1 DEF Told
  <2>2. CASE q \notin Children(p) /\ pc[q] \in live
    <3>1. pc'[q] = pc[q] /\ parent'[q] = parent[q] /\ parent[q] # p
      BY <1>1, <2>2 DEF Zombies, Children
    <3> QED BY <1>1, <1>2, <1>3, <1>4, <2>2, <3>1 DEF Told
  <2>3. CASE pc[q] \notin live
    <3>1. pc'[q] = "free" \/ pc'[q] = pc[q]
      BY <1>1
    <3> QED BY <2>3, <3>1 DEF Told
  <2> QED BY <2>1, <2>2, <2>3
<1> QED BY <1>5, <1>6 DEF ChildInv

LEMMA ChildStep == Types /\ ChildInv /\ [Next]_vars => ChildInv'
<1> SUFFICES ASSUME Types, ChildInv, [Next]_vars
             PROVE  ChildInv'
  OBVIOUS
<1> USE MainAssumption DEF Incrond, Loop, Child
<1>0. \A q \in Proc : Told(q) /\ parent[q] \in Proc \cup {NULL}
  BY DEF Types, ChildInv
(* A step of one process inside the loop.                                  *)
<1>1. ASSUME NEW p \in Proc, NEW where \in Loop \cup {"leave"}, Go(p, where),
             pc[p] \in Incrond, UNCHANGED <<parent, sigchld>>
      PROVE  ChildInv'
  <2>1. \A q \in Proc : pc'[q] = IF q = p THEN where ELSE pc[q]
    BY <1>1 DEF Go, Types
  <2>2. \A q \in Proc : Alive(q) => Alive(q)'
    BY <2>1 DEF Alive
  <2> QED BY <1>0, <1>1, <2>1, <2>2 DEF Told, ChildInv
<1>2. ASSUME UNCHANGED <<pc, parent>>, \A q \in Proc : sigchld[q] => sigchld'[q]
      PROVE  ChildInv'
  BY <1>0, <1>2 DEF Told, ChildInv, Alive
<1>3. ASSUME NEW p \in Proc, MainNext(p)
      PROVE  ChildInv'
  <2>1. CASE \/ InstallHandlers(p) \/ LoopTest(p) \/ Sleep(p) \/ PollReturns(p)
             \/ PollFails(p) \/ ReadPipe(p) \/ ReadEvents(p) \/ EventsDone(p)
    <3>1. pc[p] \in Incrond /\ UNCHANGED <<parent, sigchld>>
      BY <2>1 DEF InstallHandlers, LoopTest, Sleep, PollReturns, PollFails, ReadPipe,
                  ReadEvents, EventsDone, local
    <3>2. PICK where \in Loop \cup {"leave"} : Go(p, where)
      BY <2>1 DEF InstallHandlers, LoopTest, Sleep, PollReturns, PollFails, ReadPipe,
                  ReadEvents, EventsDone
    <3> QED BY <1>1, <3>1, <3>2
  <2>2. ASSUME NEW c \in Proc, Fork(p, c)
        PROVE  ChildInv'
    <3>1. /\ pc[p] = "handle" /\ pc[c] = "free" /\ sigchld' = sigchld
          /\ \A q \in Proc : pc'[q] = IF q = c THEN "command" ELSE pc[q]
          /\ \A q \in Proc : parent'[q] = IF q = c THEN p ELSE parent[q]
      BY <2>2 DEF Fork, Types
    <3>2. \A q \in Proc : Alive(q) => q # c /\ Alive(q)'
      BY <3>1 DEF Alive
    <3>3. Told(c)'
      BY <3>1, <3>2 DEF Told, Alive
    <3>4. \A q \in Proc \ {c} : Told(q)'
      BY <1>0, <3>1, <3>2 DEF Told
    <3> QED BY <3>3, <3>4 DEF ChildInv
  <2>3. CASE ForkFails(p)
    BY <1>2, <2>3 DEF ForkFails
  <2>4. CASE Leave(p)
    BY <2>4, EndsTold DEF Leave
  <2> QED BY <1>3, <2>1, <2>2, <2>3, <2>4 DEF MainNext
<1>4. ASSUME NEW p \in Proc, HandleTerm(p)
      PROVE  ChildInv'
  <2>1. CASE pc[p] = "start"
    BY <1>4, <2>1, EndsTold DEF HandleTerm
  <2>2. CASE pc[p] # "start"
    <3>1. pc[p] \in Loop \cup {"leave"} /\ UNCHANGED <<parent, sigchld>>
      BY <1>4, <2>2 DEF HandleTerm
    <3>2. PICK where \in Loop \cup {"leave"} : Go(p, where)
      <4>1. pc' = [pc EXCEPT ![p] = pc[p]] \/ pc' = [pc EXCEPT ![p] = "test"]
        BY <1>4, <2>2 DEF HandleTerm, Types
      <4> QED BY <3>1, <4>1 DEF Go
    <3> QED BY <1>1, <3>1, <3>2
  <2> QED BY <2>1, <2>2
(* Here it matters that every zombie is waited for.                        *)
<1>5. ASSUME NEW p \in Proc, HandleChld(p)
      PROVE  ChildInv'
  <2>1. /\ Alive(p) /\ parent' = parent
        /\ \A q \in Proc \ {p} : sigchld'[q] = sigchld[q]
        /\ \A q \in Proc : pc'[q] = IF q \in Zombies(p) THEN "free"
                                     ELSE IF q = p /\ pc[p] = "wait" THEN "test" ELSE pc[q]
    BY <1>5 DEF HandleChld, Types, Alive
  <2>2. \A q \in Proc : Alive(q) => Alive(q)'
    <3>1. \A q \in Zombies(p) : pc[q] = "zombie"
      BY DEF Zombies
    <3> QED BY <2>1, <3>1 DEF Alive
  <2>3. ASSUME NEW q \in Proc
        PROVE  Told(q)'
    <3>1. CASE q \in Zombies(p)
      BY <2>1, <3>1 DEF Told
    <3>2. CASE q \notin Zombies(p)
      <4>1. pc[q] = "zombie" => parent[q] # p
        BY <3>2 DEF Zombies, Children
      <4>2. pc'[q] = pc[q] \/ (pc[q] = "wait" /\ pc'[q] = "test")
        BY <2>1, <3>2
      <4> QED BY <1>0, <2>1, <2>2, <4>1, <4>2 DEF Told
    <3> QED BY <3>1, <3>2
  <2> QED BY <2>3 DEF ChildInv
<1>6. ASSUME NEW c \in Proc, RunAsUser(c) \/ RunAsSystem(c)
      PROVE  ChildInv'
  <2>1. CASE Ends(c)
    BY <1>6, <2>1, EndsTold DEF RunAsUser, RunAsSystem
  <2>2. CASE Go(c, "handle") /\ UNCHANGED <<parent, sigchld>> /\ pc[c] = "command"
    <3>1. \A q \in Proc : pc'[q] = IF q = c THEN "handle" ELSE pc[q]
      BY <2>2 DEF Go, Types
    <3>2. \A q \in Proc : Alive(q) => Alive(q)'
      BY <3>1 DEF Alive
    <3> QED BY <1>0, <2>2, <3>1, <3>2 DEF Told, ChildInv
  <2> QED BY <1>6, <2>1, <2>2 DEF RunAsUser, RunAsSystem
<1>7. CASE Event
  BY <1>2, <1>7 DEF Event, local
<1>8. CASE Terminate
  BY <1>2, <1>8 DEF Terminate
<1>9. ASSUME NEW p \in Proc, WriteByte(p)
      PROVE  ChildInv'
  BY <1>2, <1>9 DEF WriteByte
<1>10. CASE UNCHANGED vars
  BY <1>2, <1>10 DEF vars
<1> QED BY <1>3, <1>4, <1>5, <1>6, <1>7, <1>8, <1>9, <1>10 DEF Next, Handlers

(* However many children end at once, and whatever copies of the daemon    *)
(* are their parents, each that ended has a parent with a signal pending   *)
(* and a handler for it (on_signal, icd-main.cpp).                         *)
THEOREM NoZombieForgotten == Spec => []ZombiesAnnounced
<1>1. Init => Types /\ ChildInv
  BY TypeInit, MainAssumption DEF Init, ChildInv, Told, Incrond, Loop, Child
<1>2. Types /\ ChildInv /\ [Next]_vars => Types' /\ ChildInv'
  BY TypeStep, ChildStep
<1>3. Types /\ ChildInv => ZombiesAnnounced
  BY MainAssumption DEF Types, ChildInv, Told, Alive, ZombiesAnnounced, Child
<1> QED BY <1>1, <1>2, <1>3, PTL DEF Spec
=============================================================================
