------------------------- MODULE AppInstance_proofs -------------------------
(* Of the incronds that start at the same time at most one runs; and as    *)
(* long as those that start after one has stopped, crashed or been told to *)
(* stop do so one by one, there is never more than one, whatever of them   *)
(* stops where.                                                            *)
EXTENDS AppInstance, TLAPS

(* Those who made the file the name refers to and have not let go of it.   *)
Holder(p) == pc[p] \in {"write", "locked"}

(* Nobody reaches the steps that remove a lock file.                       *)
NobodyRemoves ==
    \A p \in Proc : pc[p] \notin {"unlink", "exiting", "read pid", "signal", "gone"}
                    /\ ~term[p]

(* Up to the first stop the file stays the same from its creation on, and  *)
(* a pid in a file, or read from one, is that of a process which has the   *)
(* lock.                                                                   *)
NothingGone ==
    /\ NobodyRemoves
    /\ \A f \in File : content[f] # NULL => pc[content[f]] = "locked"
    /\ \A p \in Proc : pc[p] = "kill" => pc[owner[p]] = "locked"
    /\ \A p \in Proc : pc[p] = "read" => file[p] = lock

(* Ever: there is one holder; the name refers to its file; whoever judges  *)
(* the lock while there is a holder has that file open, or has read the    *)
(* holder's pid; and nobody is about to remove the name from under it.     *)
HoldInv ==
    /\ \A p \in Proc : Holder(p) => lock # NULL
    /\ \A p, q \in Proc : Holder(p) /\ Holder(q) => p = q
    /\ \A p \in Proc : pc[p] = "write" => file[p] = lock
    /\ \A p \in Proc : pc[p] = "locked" => content[lock] = p
    /\ \A p, q \in Proc : pc[p] = "read" /\ Holder(q) => file[p] = lock
    /\ \A p, q \in Proc : pc[p] = "kill" /\ Holder(q) => owner[p] = q
    /\ \A p, q \in Proc : pc[p] = "unlink" => ~Holder(q)

(* From the first stop on one process at a time is in Lock.                *)
Orderly == stopped => Stops /\ OneStarts

LockInv ==
    /\ TypeOK
    /\ HoldInv
    /\ Orderly
    /\ ~stopped => NothingGone

LEMMA LockInit == Init => LockInv
<1> SUFFICES ASSUME Init
             PROVE  LockInv
  OBVIOUS
<1>1. TypeOK
  <2>1. tries \in [Proc -> 0..MaxTries]
    BY TriesAssumption DEF Init
  <2>2. term \in [Proc -> BOOLEAN] /\ stopped \in BOOLEAN
    BY DEF Init
  <2>3. \A p \in Proc : pc[p] = "absent"
    BY DEF Init
  <2>4. pc \in [Proc -> Starting \cup Killing \cup Outside \cup {"locked", "exiting"}]
    BY DEF Init, Outside
  <2>5. /\ lock \in File \cup {NULL}
        /\ content \in [File -> Proc \cup {NULL}]
        /\ file \in [Proc -> File \cup {NULL}]
        /\ owner \in [Proc -> Proc \cup {NULL}]
    BY DEF Init
  <2> QED BY <2>1, <2>2, <2>3, <2>4, <2>5 DEF TypeOK, Starting
<1> QED BY <1>1, NullAssumption DEF Init, LockInv, HoldInv, Orderly, NothingGone, NobodyRemoves, Holder

(* A number of turns, and one more while there is one left.                *)
LEMMA Turns ==
    /\ 0 \in 0..MaxTries /\ 0 < MaxTries
    /\ \A n \in 0..MaxTries : n < MaxTries => n + 1 \in 0..MaxTries
  BY TriesAssumption

LEMMA TurnsFunction ==
    ASSUME NEW p \in Proc, NEW n \in 0..MaxTries, NEW t \in [Proc -> 0..MaxTries]
    PROVE  [t EXCEPT ![p] = n] \in [Proc -> 0..MaxTries]
  OBVIOUS

(* Each action keeps the types ...                                         *)
LEMMA TypeStep == TypeOK /\ [Next]_vars => TypeOK'
<1> SUFFICES ASSUME TypeOK, [Next]_vars
             PROVE  TypeOK'
  OBVIOUS
<1> USE NullAssumption
<1> USE DEF TypeOK, Go, Starting, Killing, Outside
<1>1. ASSUME NEW p \in Proc, Start(p)
      PROVE  TypeOK'
  <2>0. tries' = [tries EXCEPT ![p] = 0]
    BY <1>1 DEF Start
  <2>1. tries' \in [Proc -> 0..MaxTries]
    BY <2>0, Turns, TurnsFunction
  <2>2. \A q \in Proc : pc'[q] \in Starting => tries'[q] < MaxTries
    BY <1>1, <2>0, Turns DEF Start
  <2>3. /\ pc' = [pc EXCEPT ![p] = "create"]
        /\ file' = [file EXCEPT ![p] = NULL]
        /\ owner' = [owner EXCEPT ![p] = NULL]
        /\ term' = [term EXCEPT ![p] = FALSE]
        /\ UNCHANGED <<lock, content, stopped>>
    BY <1>1 DEF Start
  <2> QED BY <2>1, <2>2, <2>3
<1>2. ASSUME NEW p \in Proc, Write(p)
      PROVE  TypeOK'
  BY <1>2 DEF Write
<1>3. ASSUME NEW p \in Proc, CreateExists(p)
      PROVE  TypeOK'
  BY <1>3 DEF CreateExists
<1>4. ASSUME NEW p \in Proc, Open(p)
      PROVE  TypeOK'
  BY <1>4 DEF Open
<1>5. ASSUME NEW p \in Proc, pc[p] \in Starting, Retry(p)
      PROVE  /\ tries' \in [Proc -> 0..MaxTries]
             /\ \A q \in Proc : pc'[q] \in Starting => tries'[q] < MaxTries
             /\ pc' \in [Proc -> Starting \cup Killing \cup Outside
                                          \cup {"locked", "exiting"}]
             /\ \A q \in Proc : pc'[q] # pc[q] => pc'[q] \in {"create", "failed"}
  <2>1. tries[p] \in 0..MaxTries /\ tries[p] < MaxTries
    BY <1>5
  <2>2. tries[p] + 1 \in 0..MaxTries
    BY <2>1, Turns
  <2>3. tries' = [tries EXCEPT ![p] = tries[p] + 1]
    BY <1>5 DEF Retry
  <2>4. tries' \in [Proc -> 0..MaxTries]
    BY <2>2, <2>3, TurnsFunction
  <2>5. \A q \in Proc : pc'[q] \in Starting => tries'[q] < MaxTries
    BY <1>5, <2>3 DEF Retry
  <2> QED BY <1>5, <2>4, <2>5 DEF Retry
<1>6. ASSUME NEW p \in Proc, OpenMissing(p)
      PROVE  TypeOK'
  <2>1. Retry(p) /\ pc[p] \in Starting
    BY <1>6 DEF OpenMissing
  <2>2. UNCHANGED <<lock, content, file, owner, term, stopped>>
    BY <1>6 DEF OpenMissing
  <2> QED BY <2>1, <2>2, <1>5
<1>7. ASSUME NEW p \in Proc, Unlink(p)
      PROVE  TypeOK'
  <2>1. Retry(p) /\ pc[p] \in Starting
    BY <1>7 DEF Unlink
  <2>2. lock' = NULL /\ UNCHANGED <<content, file, owner, term, stopped>>
    BY <1>7 DEF Unlink
  <2> QED BY <2>1, <2>2, <1>5
<1>8. ASSUME NEW p \in Proc, ReadEmpty(p)
      PROVE  TypeOK'
  BY <1>8 DEF ReadEmpty
<1>9. ASSUME NEW p \in Proc, ReadPid(p)
      PROVE  TypeOK'
  BY <1>9 DEF ReadPid
<1>10. ASSUME NEW p \in Proc, OwnerAlive(p)
       PROVE  TypeOK'
  BY <1>10 DEF OwnerAlive
<1>11. ASSUME NEW p \in Proc, OwnerDead(p)
       PROVE  TypeOK'
  BY <1>11 DEF OwnerDead
<1>12. ASSUME NEW p \in Proc, NEW f \in File, Create(p, f)
       PROVE  TypeOK'
  BY <1>12 DEF Create
<1>13. ASSUME NEW p \in Proc, Unlock(p) \/ Exit(p) \/ Crash(p)
       PROVE  TypeOK'
  BY <1>13 DEF Unlock, Exit, Crash
<1>14. ASSUME NEW p \in Proc, KillOpen(p)
       PROVE  TypeOK'
  BY <1>14 DEF KillOpen
<1>15. ASSUME NEW p \in Proc, KillRead(p)
       PROVE  TypeOK'
  <2>1. content[file[p]] \in Proc \cup {NULL}
    BY <1>15 DEF KillRead
  <2> QED BY <1>15, <2>1 DEF KillRead
<1>16. ASSUME NEW p \in Proc, KillSend(p)
       PROVE  TypeOK'
  <2>1. term' \in [Proc -> BOOLEAN]
    BY <1>16 DEF KillSend
  <2>2. pc' = [pc EXCEPT ![p] = "gone"]
    BY <1>16 DEF KillSend
  <2>3. UNCHANGED <<lock, content, file, owner, tries, stopped>>
    BY <1>16 DEF KillSend
  <2> QED BY <2>1, <2>2, <2>3
<1>17. ASSUME NEW p \in Proc, WriteFails(p) \/ CallFails(p) \/ KillFails(p)
       PROVE  TypeOK'
  BY <1>17 DEF WriteFails, CallFails, KillFails
<1>18. CASE UNCHANGED vars
  BY <1>18 DEF vars
<1> QED
  BY <1>1, <1>2, <1>3, <1>4, <1>6, <1>7, <1>8, <1>9, <1>10, <1>11, <1>12,
     <1>13, <1>14, <1>15, <1>16, <1>17, <1>18
  DEF Next, LockNext

(* Who is where after a step of one process.                               *)
LEMMA Moves ==
    ASSUME TypeOK, NEW p \in Proc, NEW where, Go(p, where)
    PROVE  pc'[p] = where /\ \A q \in Proc : q # p => pc'[q] = pc[q]
  BY DEF TypeOK, Go

(* From the first stop on nobody starts while another one does.            *)
LEMMA OrderlyStep ==
    (Serial \/ ~Stops) /\ TypeOK /\ Orderly /\ [Next]_vars => Orderly'
<1> SUFFICES ASSUME Serial \/ ~Stops, TypeOK, Orderly, [Next]_vars
             PROVE  Orderly'
  OBVIOUS
<1>1. ASSUME \A q \in Proc : pc'[q] \in Starting => pc[q] \in Starting,
             stopped' => Stops /\ OneStarts
      PROVE  Orderly'
  BY <1>1 DEF Orderly, OneStarts
<1>2. ASSUME NEW p \in Proc, Start(p)
      PROVE  Orderly'
  <2> SUFFICES ASSUME stopped
               PROVE  Stops /\ OneStarts'
    BY <1>2 DEF Start, Orderly
  <2>1. Stops /\ Serial
    BY DEF Orderly
  <2>2. \A q \in Proc : pc[q] \notin Starting
    BY <1>2, <2>1 DEF Start, NobodyStarts
  <2>3. \A q \in Proc : q # p => pc'[q] = pc[q]
    BY <1>2, Moves DEF Start
  <2> QED BY <2>1, <2>2, <2>3 DEF OneStarts
<1>3. ASSUME NEW p \in Proc, NEW where, Go(p, where), pc[p] \in Starting,
             stopped' = stopped
      PROVE  Orderly'
  <2>1. \A q \in Proc : pc'[q] \in Starting => pc[q] \in Starting
    BY <1>3, Moves
  <2> QED BY <1>1, <1>3, <2>1 DEF Orderly
<1>4. ASSUME NEW p \in Proc, NEW where, Go(p, where), where \notin Starting,
             stopped' => Stops /\ OneStarts
      PROVE  Orderly'
  <2>1. \A q \in Proc : pc'[q] \in Starting => pc[q] \in Starting
    BY <1>4, Moves
  <2> QED BY <1>1, <1>4, <2>1
<1>5. ASSUME NEW p \in Proc, LockNext(p)
      PROVE  Orderly'
  <2>1. pc[p] \in Starting /\ stopped' = stopped
    BY <1>5 DEF LockNext, Create, Write, WriteFails, CallFails, CreateExists, Open,
                OpenMissing, ReadEmpty, ReadPid, OwnerAlive, OwnerDead, Unlink, Starting
  <2>2. \E where : Go(p, where)
    <3>1. CASE OpenMissing(p) \/ Unlink(p)
      BY <3>1 DEF OpenMissing, Unlink, Retry
    <3>2. CASE \/ \E f \in File : Create(p, f)
               \/ Write(p) \/ WriteFails(p) \/ CallFails(p) \/ CreateExists(p)
               \/ Open(p) \/ ReadEmpty(p) \/ ReadPid(p) \/ OwnerAlive(p) \/ OwnerDead(p)
      BY <3>2 DEF Create, Write, WriteFails, CallFails, CreateExists, Open, ReadEmpty,
                  ReadPid, OwnerAlive, OwnerDead
    <3> QED BY <1>5, <3>1, <3>2 DEF LockNext
  <2> QED BY <1>3, <2>1, <2>2
<1>6. ASSUME NEW p \in Proc, Unlock(p) \/ Exit(p) \/ KillSend(p)
      PROVE  Orderly'
  <2>1. Go(p, "exiting") \/ Go(p, "gone")
    BY <1>6 DEF Unlock, Exit, KillSend
  <2>2. stopped' = stopped
    BY <1>6 DEF Unlock, Exit, KillSend
  <2> QED BY <1>4, <2>1, <2>2 DEF Starting, Orderly
<1>7. ASSUME NEW p \in Proc, KillRead(p) \/ KillFails(p)
      PROVE  Orderly'
  <2>1. Go(p, "failed") \/ Go(p, "signal") \/ Go(p, "error")
    BY <1>7 DEF KillRead, KillFails
  <2>2. stopped' = stopped
    BY <1>7 DEF KillRead, KillFails
  <2> QED BY <1>4, <2>1, <2>2 DEF Starting, Orderly
<1>8. ASSUME NEW p \in Proc, Crash(p) \/ KillOpen(p)
      PROVE  Orderly'
  <2>1. Stops /\ OneStarts
    BY <1>8 DEF Crash, KillOpen
  <2>2. Go(p, "gone") \/ Go(p, "read pid")
    BY <1>8 DEF Crash, KillOpen
  <2> QED BY <1>4, <2>1, <2>2 DEF Starting
<1>9. CASE UNCHANGED vars
  BY <1>1, <1>9 DEF vars, Orderly
<1> QED BY <1>2, <1>5, <1>6, <1>7, <1>8, <1>9 DEF Next

-----------------------------------------------------------------------------
(* Up to the first stop.  Most steps of Lock move only the process itself. *)
LEMMA EarlyBystander ==
    ASSUME TypeOK, TypeOK', NothingGone, NEW p \in Proc, NEW where,
           ~Holder(p), Go(p, where),
           where \in {"create", "open", "read", "kill", "failed", "threw", "error"},
           where = "kill" => pc[owner'[p]] = "locked",
           where = "read" => file'[p] = lock,
           \A q \in Proc \ {p} : owner'[q] = owner[q] /\ file'[q] = file[q],
           \A q \in Proc : ~term'[q],
           lock' = lock, content' = content
    PROVE  NothingGone'
<1>1. pc'[p] = where /\ \A q \in Proc : q # p => pc'[q] = pc[q]
  BY Moves
<1>2. \A q \in Proc : pc[q] = "locked" => pc'[q] = "locked"
  BY <1>1 DEF Holder
<1>3. NobodyRemoves'
  BY <1>1 DEF NobodyRemoves, NothingGone
<1>4. \A f \in File : content'[f] # NULL => pc'[content'[f]] = "locked"
  <2>1. content \in [File -> Proc \cup {NULL}]
    BY DEF TypeOK
  <2>2. \A f \in File : content[f] # NULL => pc[content[f]] = "locked"
    BY DEF NothingGone
  <2> QED BY <1>2, <2>1, <2>2
<1>5. \A q \in Proc : pc'[q] = "kill" => pc'[owner'[q]] = "locked"
  <2> SUFFICES ASSUME NEW q \in Proc, pc'[q] = "kill"
               PROVE  pc'[owner'[q]] = "locked"
    OBVIOUS
  <2>1. owner'[q] \in Proc
    <3>1. owner' \in [Proc -> Proc \cup {NULL}]
      BY DEF TypeOK
    <3>2. owner'[q] # NULL
      BY DEF TypeOK
    <3> QED BY <3>1, <3>2
  <2>2. pc[owner'[q]] = "locked"
    BY <1>1 DEF NothingGone
  <2> QED BY <1>2, <2>1, <2>2
<1>6. \A q \in Proc : pc'[q] = "read" => file'[q] = lock'
  BY <1>1 DEF NothingGone
<1> QED BY <1>3, <1>4, <1>5, <1>6 DEF NothingGone

(* Who creates the file finds nobody between reading it and removing it.   *)
LEMMA CreatorAlone ==
    ASSUME LockInv, NEW p \in Proc, pc[p] = "create", lock = NULL
    PROVE  /\ \A q \in Proc : ~Holder(q)
           /\ \A q \in Proc : pc[q] \notin {"read", "kill", "unlink"}
<1>1. \A q \in Proc : ~Holder(q)
  BY DEF LockInv, HoldInv
<1>2. CASE stopped
  <2>1. \A q \in Proc : pc[q] \in Starting => q = p
    BY <1>2 DEF LockInv, Orderly, OneStarts, Starting
  <2> QED BY <1>1, <2>1 DEF Starting
<1>3. CASE ~stopped
  <2>1. NothingGone /\ TypeOK
    BY <1>3 DEF LockInv
  <2>2. \A q \in Proc : pc[q] # "read"
    BY <2>1 DEF NothingGone, TypeOK
  <2>3. \A q \in Proc : pc[q] # "kill"
    BY <1>1, <2>1, NullAssumption DEF NothingGone, TypeOK, Holder
  <2>4. \A q \in Proc : pc[q] # "unlink"
    BY <2>1 DEF NothingGone, NobodyRemoves
  <2> QED BY <1>1, <2>2, <2>3, <2>4
<1> QED BY <1>2, <1>3

LEMMA EarlyStep ==
    LockInv /\ [Next]_vars => (~stopped' => NothingGone')
<1> SUFFICES ASSUME LockInv, [Next]_vars, ~stopped'
             PROVE  NothingGone'
  OBVIOUS
<1> USE NullAssumption
<1>0. TypeOK /\ TypeOK'
  BY TypeStep DEF LockInv
<1>s. ~stopped
  BY DEF Next, LockNext, vars, Create, Write, WriteFails, CallFails, CreateExists, Open,
         OpenMissing, ReadEmpty, ReadPid, OwnerAlive, OwnerDead, Unlink, Start, Unlock,
         Exit, Crash, KillOpen, KillRead, KillSend, KillFails
<1>g. NothingGone
  BY <1>s DEF LockInv
<1>a. \A q \in Proc : ~term[q]
  BY <1>g DEF NothingGone, NobodyRemoves
<1>b. /\ owner \in [Proc -> Proc \cup {NULL}]
      /\ content \in [File -> Proc \cup {NULL}]
      /\ file \in [Proc -> File \cup {NULL}]
      /\ \A q \in Proc : pc[q] \in {"write", "read"} => file[q] \in File
  BY <1>0 DEF TypeOK
<1>c. \A f \in File : content[f] # NULL => pc[content[f]] = "locked"
  BY <1>g DEF NothingGone
<1>1. ASSUME NEW p \in Proc, Start(p)
      PROVE  NothingGone'
  <2>1. Go(p, "create") /\ ~Holder(p)
    BY <1>1 DEF Start, Alive, Outside, Holder
  <2>2. lock' = lock /\ content' = content
    BY <1>1 DEF Start
  <2>3. \A q \in Proc \ {p} : owner'[q] = owner[q] /\ file'[q] = file[q]
    BY <1>b, <1>1 DEF Start
  <2>4. \A q \in Proc : ~term'[q]
    BY <1>0, <1>1, <1>a DEF Start, TypeOK
  <2> QED BY <2>1, <2>2, <2>3, <2>4, <1>0, <1>g, EarlyBystander
<1>2. ASSUME NEW p \in Proc, Write(p)
      PROVE  NothingGone'
  <2>1. pc'[p] = "locked" /\ \A q \in Proc : q # p => pc'[q] = pc[q]
    BY <1>0, <1>2, Moves DEF Write
  <2>2. /\ content' = [content EXCEPT ![file[p]] = p] /\ pc[p] = "write"
        /\ file' = [file EXCEPT ![p] = NULL]
        /\ lock' = lock /\ owner' = owner /\ term' = term
    BY <1>2 DEF Write
  <2>3. \A q \in Proc : pc[q] = "locked" => pc'[q] = "locked"
    BY <2>1
  <2>4. \A f \in File : content'[f] # NULL => pc'[content'[f]] = "locked"
    BY <1>b, <1>c, <2>1, <2>2, <2>3
  <2>5. NobodyRemoves'
    BY <1>g, <2>1, <2>2 DEF NothingGone, NobodyRemoves
  <2>6. \A q \in Proc : pc'[q] = "kill" => pc'[owner'[q]] = "locked"
    <3> SUFFICES ASSUME NEW q \in Proc, pc'[q] = "kill"
                 PROVE  pc'[owner'[q]] = "locked"
      OBVIOUS
    <3>1. pc[q] = "kill"
      BY <2>1
    <3>2. pc[owner[q]] = "locked" /\ owner[q] \in Proc
      BY <1>0, <1>g, <3>1 DEF NothingGone, TypeOK
    <3> QED BY <2>2, <2>3, <3>2
  <2>7. \A q \in Proc : pc'[q] = "read" => file'[q] = lock'
    BY <1>b, <1>g, <2>1, <2>2 DEF NothingGone
  <2> QED BY <2>4, <2>5, <2>6, <2>7 DEF NothingGone
<1>3. ASSUME NEW p \in Proc, CreateExists(p) \/ Open(p)
      PROVE  NothingGone'
  <2>1. ~Holder(p) /\ \E x \in {"open", "read"} : Go(p, x) /\ (x = "read" => file'[p] = lock)
    BY <1>b, <1>3 DEF CreateExists, Open, Holder
  <2>2. lock' = lock /\ content' = content /\ owner' = owner /\ term' = term
    BY <1>3 DEF CreateExists, Open
  <2>3. \A q \in Proc \ {p} : file'[q] = file[q]
    BY <1>b, <1>3 DEF CreateExists, Open
  <2> QED BY <2>1, <2>2, <2>3, <1>0, <1>a, <1>g, EarlyBystander
<1>4. ASSUME NEW p \in Proc, OpenMissing(p) \/ ReadEmpty(p) \/ OwnerAlive(p)
      PROVE  NothingGone'
  <2>1. ~Holder(p) /\ \E x \in {"create", "failed", "threw"} : Go(p, x)
    BY <1>4 DEF OpenMissing, ReadEmpty, OwnerAlive, Retry, Holder
  <2>2. lock' = lock /\ content' = content /\ owner' = owner /\ term' = term
    BY <1>4 DEF OpenMissing, ReadEmpty, OwnerAlive
  <2>3. \A q \in Proc \ {p} : file'[q] = file[q]
    BY <1>b, <1>4 DEF OpenMissing, ReadEmpty, OwnerAlive
  <2> QED BY <2>1, <2>2, <2>3, <1>0, <1>a, <1>g, EarlyBystander
<1>5. ASSUME NEW p \in Proc, ReadPid(p)
      PROVE  NothingGone'
  <2>1. ~Holder(p) /\ Go(p, "kill")
    BY <1>5 DEF ReadPid, Holder
  <2>2. lock' = lock /\ content' = content /\ term' = term
    BY <1>5 DEF ReadPid
  <2>3. /\ owner' = [owner EXCEPT ![p] = content[file[p]]]
        /\ file' = [file EXCEPT ![p] = NULL]
    BY <1>5 DEF ReadPid
  <2>4. file[p] \in File /\ content[file[p]] # NULL
    BY <1>b, <1>5 DEF ReadPid
  <2>5. pc[owner'[p]] = "locked"
    BY <1>b, <1>c, <2>3, <2>4
  <2>6. \A q \in Proc \ {p} : owner'[q] = owner[q] /\ file'[q] = file[q]
    BY <1>b, <2>3
  <2> QED BY <2>1, <2>2, <2>5, <2>6, <1>0, <1>a, <1>g, EarlyBystander
<1>6. ASSUME NEW p \in Proc, OwnerDead(p)
      PROVE  FALSE
  BY <1>g, <1>6 DEF OwnerDead, Alive, Outside, NothingGone
<1>7. ASSUME NEW p \in Proc, NEW f \in File, Create(p, f)
      PROVE  NothingGone'
  <2>1. /\ \A q \in Proc : ~Holder(q)
        /\ \A q \in Proc : pc[q] \notin {"read", "kill", "unlink"}
    BY <1>7, CreatorAlone DEF Create
  <2>2. pc'[p] = "write" /\ \A q \in Proc : q # p => pc'[q] = pc[q]
    BY <1>0, <1>7, Moves DEF Create
  <2>3. content' = [content EXCEPT ![f] = NULL] /\ term' = term
    BY <1>7 DEF Create
  <2>4. \A g \in File : content[g] = NULL
    BY <1>b, <1>c, <2>1 DEF Holder
  <2>5. \A g \in File : content'[g] = NULL
    BY <1>b, <2>3, <2>4
  <2>6. NobodyRemoves'
    BY <1>g, <2>2, <2>3 DEF NothingGone, NobodyRemoves
  <2>7. \A q \in Proc : pc'[q] \notin {"read", "kill"}
    BY <2>1, <2>2
  <2> QED BY <2>5, <2>6, <2>7 DEF NothingGone
<1>8. ASSUME NEW p \in Proc,
             \/ Unlink(p) \/ Unlock(p) \/ Exit(p) \/ KillRead(p) \/ KillSend(p)
             \/ Crash(p) \/ KillOpen(p) \/ KillFails(p)
      PROVE  FALSE
  BY <1>g, <1>8 DEF Unlink, Unlock, Exit, KillRead, KillSend, Crash, KillOpen, KillFails,
                    Killing, NothingGone, NobodyRemoves
<1>9. ASSUME NEW p \in Proc, WriteFails(p)
      PROVE  NothingGone'
  <2>1. pc[p] = "write" /\ pc'[p] = "error" /\ \A q \in Proc : q # p => pc'[q] = pc[q]
    BY <1>0, <1>9, Moves DEF WriteFails
  <2>2. /\ content' = content /\ lock' = lock /\ owner' = owner /\ term' = term
        /\ \A q \in Proc \ {p} : file'[q] = file[q]
    BY <1>b, <1>9 DEF WriteFails
  <2>3. \A q \in Proc : pc[q] = "locked" => pc'[q] = "locked"
    BY <2>1
  <2>4. \A f \in File : content'[f] # NULL => pc'[content'[f]] = "locked"
    BY <1>b, <1>c, <2>2, <2>3
  <2>5. NobodyRemoves'
    BY <1>g, <2>1, <2>2 DEF NothingGone, NobodyRemoves
  <2>6. \A q \in Proc : pc'[q] = "kill" => pc'[owner'[q]] = "locked"
    <3> SUFFICES ASSUME NEW q \in Proc, pc'[q] = "kill"
                 PROVE  pc'[owner'[q]] = "locked"
      OBVIOUS
    <3>1. pc[q] = "kill" /\ owner[q] \in Proc
      BY <1>0, <1>b, <2>1 DEF TypeOK
    <3> QED BY <1>g, <2>2, <2>3, <3>1 DEF NothingGone
  <2>7. \A q \in Proc : pc'[q] = "read" => file'[q] = lock'
    BY <1>g, <2>1, <2>2 DEF NothingGone
  <2> QED BY <2>4, <2>5, <2>6, <2>7 DEF NothingGone
<1>10. ASSUME NEW p \in Proc, CallFails(p)
       PROVE  NothingGone'
  <2>1. Go(p, "error") /\ ~Holder(p)
    BY <1>10 DEF CallFails, Holder, Starting
  <2>2. lock' = lock /\ content' = content /\ owner' = owner /\ term' = term
    BY <1>10 DEF CallFails
  <2>3. \A q \in Proc \ {p} : file'[q] = file[q]
    BY <1>b, <1>10 DEF CallFails
  <2> QED BY <2>1, <2>2, <2>3, <1>0, <1>a, <1>g, EarlyBystander
<1>11. CASE UNCHANGED vars
  BY <1>g, <1>11 DEF vars, NothingGone, NobodyRemoves
<1> QED
  BY <1>1, <1>2, <1>3, <1>4, <1>5, <1>6, <1>7, <1>8, <1>9, <1>10, <1>11 DEF Next, LockNext

-----------------------------------------------------------------------------
(* At any time.  Where nobody holds the lock there is nothing to keep.     *)
LEMMA NoHolder ==
    ASSUME \A q \in Proc : ~Holder(q)'
    PROVE  HoldInv'
  BY DEF HoldInv, Holder

(* A process that does not hold the lock goes on without getting it.       *)
LEMMA Bystander ==
    ASSUME TypeOK, HoldInv, NEW p \in Proc, NEW where,
           ~Holder(p), Go(p, where), where \notin {"write", "locked"},
           \A q \in Proc \ {p} : owner'[q] = owner[q] /\ file'[q] = file[q],
           lock' = lock, content' = content,
           where = "read" => file'[p] = lock,
           \A q \in Proc : Holder(q) => where # "unlink" /\ (where = "kill" => owner'[p] = q)
    PROVE  HoldInv'
<1>1. pc'[p] = where /\ \A q \in Proc : q # p => pc'[q] = pc[q]
  BY Moves
<1>2. \A q \in Proc : (Holder(q)' <=> Holder(q)) /\ (Holder(q) => q # p)
  BY <1>1 DEF Holder
<1>3. \A q \in Proc : pc'[q] = "write" => file'[q] = lock'
  BY <1>1 DEF HoldInv
<1>4. \A q \in Proc : pc'[q] = "locked" => content'[lock'] = q
  BY <1>1 DEF HoldInv
<1>5. \A q, r \in Proc : pc'[q] = "read" /\ Holder(r)' => file'[q] = lock'
  BY <1>1, <1>2 DEF HoldInv
<1>6. \A q, r \in Proc : pc'[q] = "kill" /\ Holder(r)' => owner'[q] = r
  BY <1>1, <1>2 DEF HoldInv
<1>7. \A q, r \in Proc : pc'[q] = "unlink" => ~Holder(r)'
  BY <1>1, <1>2 DEF HoldInv
<1>8. /\ \A q \in Proc : Holder(q)' => lock' # NULL
      /\ \A q, r \in Proc : Holder(q)' /\ Holder(r)' => q = r
  BY <1>2 DEF HoldInv
<1> QED BY <1>3, <1>4, <1>5, <1>6, <1>7, <1>8 DEF HoldInv

LEMMA HoldStep == LockInv /\ [Next]_vars => HoldInv'
<1> SUFFICES ASSUME LockInv, [Next]_vars
             PROVE  HoldInv'
  OBVIOUS
<1> USE NullAssumption
<1>0. TypeOK /\ HoldInv
  BY DEF LockInv
<1>b. /\ owner \in [Proc -> Proc \cup {NULL}]
      /\ content \in [File -> Proc \cup {NULL}]
      /\ file \in [Proc -> File \cup {NULL}]
      /\ \A q \in Proc : pc[q] \in {"write", "read"} => file[q] \in File
  BY <1>0 DEF TypeOK
<1>1. ASSUME NEW p \in Proc, Start(p)
      PROVE  HoldInv'
  <2>1. Go(p, "create") /\ ~Holder(p) /\ lock' = lock /\ content' = content
    BY <1>1 DEF Start, Alive, Outside, Holder
  <2>2. \A q \in Proc \ {p} : owner'[q] = owner[q] /\ file'[q] = file[q]
    BY <1>b, <1>1 DEF Start
  <2> QED BY <1>0, <2>1, <2>2, Bystander
<1>2. ASSUME NEW p \in Proc, NEW f \in File, Create(p, f)
      PROVE  HoldInv'
  <2>1. /\ \A q \in Proc : ~Holder(q)
        /\ \A q \in Proc : pc[q] \notin {"read", "kill", "unlink"}
    BY <1>2, CreatorAlone DEF Create
  <2>2. pc'[p] = "write" /\ \A q \in Proc : q # p => pc'[q] = pc[q]
    BY <1>0, <1>2, Moves DEF Create
  <2>3. lock' = f /\ file'[p] = f
    BY <1>b, <1>2 DEF Create
  <2>4. \A q \in Proc : Holder(q)' => q = p
    BY <2>1, <2>2 DEF Holder
  <2>5. \A q \in Proc : pc'[q] \notin {"read", "kill", "unlink", "locked"}
    BY <2>1, <2>2 DEF Holder
  <2>6. \A q \in Proc : pc'[q] = "write" => q = p
    BY <2>1, <2>2 DEF Holder
  <2> QED BY <2>3, <2>4, <2>5, <2>6 DEF HoldInv
<1>3. ASSUME NEW p \in Proc, Write(p)
      PROVE  HoldInv'
  <2>1. /\ pc[p] = "write" /\ Holder(p)
        /\ content' = [content EXCEPT ![file[p]] = p]
        /\ file' = [file EXCEPT ![p] = NULL] /\ lock' = lock /\ owner' = owner
    BY <1>3 DEF Write, Holder
  <2>2. pc'[p] = "locked" /\ \A q \in Proc : q # p => pc'[q] = pc[q]
    BY <1>0, <1>3, Moves DEF Write
  <2>3. \A q \in Proc : Holder(q)' => q = p
    BY <1>0, <2>1, <2>2 DEF Holder, HoldInv
  <2>4. file[p] = lock /\ lock \in File /\ content'[lock'] = p
    BY <1>0, <1>b, <2>1 DEF HoldInv
  <2>5. \A q \in Proc : pc'[q] = "read" => file'[q] = lock'
    BY <1>0, <1>b, <2>1, <2>2 DEF HoldInv
  <2>6. \A q \in Proc : pc'[q] = "kill" => owner'[q] = p
    BY <1>0, <2>1, <2>2 DEF HoldInv
  <2>7. \A q \in Proc : pc'[q] # "unlink"
    BY <1>0, <2>1, <2>2 DEF HoldInv
  <2>8. \A q \in Proc : pc'[q] # "write" /\ (pc'[q] = "locked" => q = p)
    BY <2>2, <2>3 DEF Holder
  <2>9. lock' # NULL
    BY <2>1, <2>4
  <2> QED BY <2>3, <2>4, <2>5, <2>6, <2>7, <2>8, <2>9 DEF HoldInv
<1>4. ASSUME NEW p \in Proc,
             CreateExists(p) \/ Open(p) \/ OpenMissing(p) \/ ReadEmpty(p) \/ OwnerAlive(p)
      PROVE  HoldInv'
  <2>1. /\ ~Holder(p)
        /\ \E x \in {"open", "read", "create", "failed", "threw"} :
              Go(p, x) /\ (x = "read" => file'[p] = lock)
    BY <1>b, <1>4 DEF CreateExists, Open, OpenMissing, ReadEmpty, OwnerAlive, Retry, Holder
  <2>2. lock' = lock /\ content' = content /\ owner' = owner
    BY <1>4 DEF CreateExists, Open, OpenMissing, ReadEmpty, OwnerAlive
  <2>3. \A q \in Proc \ {p} : file'[q] = file[q]
    BY <1>b, <1>4 DEF CreateExists, Open, OpenMissing, ReadEmpty, OwnerAlive
  <2> QED BY <1>0, <2>1, <2>2, <2>3, Bystander
<1>5. ASSUME NEW p \in Proc, ReadPid(p)
      PROVE  HoldInv'
  <2>1. /\ pc[p] = "read" /\ ~Holder(p) /\ Go(p, "kill") /\ lock' = lock /\ content' = content
        /\ owner' = [owner EXCEPT ![p] = content[file[p]]]
        /\ file' = [file EXCEPT ![p] = NULL] /\ content[file[p]] # NULL
    BY <1>5 DEF ReadPid, Holder
  <2>2. \A q \in Proc \ {p} : owner'[q] = owner[q] /\ file'[q] = file[q]
    BY <1>b, <2>1
  <2>3. \A q \in Proc : Holder(q) => owner'[p] = q
    <3> SUFFICES ASSUME NEW q \in Proc, Holder(q)
                 PROVE  owner'[p] = q
      OBVIOUS
    <3>1. file[p] = lock
      BY <1>0, <2>1 DEF HoldInv
    <3>2. owner'[p] = content[lock]
      BY <1>b, <2>1, <3>1
    <3>3. CASE pc[q] = "locked"
      BY <1>0, <3>2, <3>3 DEF HoldInv
    <3>4. CASE pc[q] = "write"
      <4>1. ~stopped
        BY <2>1, <3>4 DEF LockInv, Orderly, OneStarts, Starting
      <4>2. pc[content[lock]] = "locked" /\ content[lock] \in Proc
        BY <1>b, <2>1, <3>1, <4>1 DEF LockInv, NothingGone
      <4> QED BY <1>0, <3>4, <4>2 DEF HoldInv, Holder
    <3> QED BY <3>3, <3>4 DEF Holder
  <2> QED BY <1>0, <2>1, <2>2, <2>3, Bystander
<1>6. ASSUME NEW p \in Proc, OwnerDead(p)
      PROVE  HoldInv'
  <2>1. /\ pc[p] = "kill" /\ ~Holder(p) /\ Go(p, "unlink") /\ ~Alive(owner[p])
        /\ lock' = lock /\ content' = content /\ owner' = owner /\ file' = file
    BY <1>6 DEF OwnerDead, Holder
  <2>2. \A q \in Proc : ~Holder(q)
    BY <1>0, <2>1 DEF HoldInv, Holder, Alive, Outside
  <2> QED BY <1>0, <2>1, <2>2, Bystander
<1>7. ASSUME NEW p \in Proc, Unlink(p)
      PROVE  HoldInv'
  <2>1. \A q \in Proc : ~Holder(q)
    BY <1>0, <1>7 DEF Unlink, HoldInv
  <2>2. \E x \in {"create", "failed"} : Go(p, x)
    BY <1>7 DEF Unlink, Retry
  <2>3. \A q \in Proc : ~Holder(q)'
    BY <1>0, <2>1, <2>2, Moves DEF Holder
  <2> QED BY <2>3, NoHolder
<1>8. ASSUME NEW p \in Proc, NEW where, Holder(p), Go(p, where),
             where \in {"exiting", "gone", "error"}
      PROVE  HoldInv'
  <2>1. pc'[p] = where /\ \A q \in Proc : q # p => pc'[q] = pc[q]
    BY <1>0, <1>8, Moves
  <2>2. \A q \in Proc : ~Holder(q)'
    BY <1>0, <1>8, <2>1 DEF Holder, HoldInv
  <2> QED BY <2>2, NoHolder
<1>9. ASSUME NEW p \in Proc, Unlock(p)
      PROVE  HoldInv'
  BY <1>8, <1>9 DEF Unlock, Holder
<1>10. ASSUME NEW p \in Proc, Crash(p)
       PROVE  HoldInv'
  <2>1. /\ Go(p, "gone") /\ lock' = lock /\ content' = content /\ owner' = owner
        /\ \A q \in Proc \ {p} : file'[q] = file[q]
    BY <1>b, <1>10 DEF Crash
  <2>2. CASE Holder(p)
    BY <1>8, <2>1, <2>2
  <2>3. CASE ~Holder(p)
    BY <1>0, <2>1, <2>3, Bystander
  <2> QED BY <2>2, <2>3
<1>11. ASSUME NEW p \in Proc,
              \/ Exit(p) \/ KillOpen(p) \/ KillRead(p) \/ KillSend(p) \/ KillFails(p)
              \/ CallFails(p)
       PROVE  HoldInv'
  <2>1. /\ ~Holder(p) /\ lock' = lock /\ content' = content
        /\ \E x \in {"gone", "read pid", "failed", "signal", "error"} : Go(p, x)
    BY <1>11 DEF Exit, KillOpen, KillRead, KillSend, KillFails, CallFails, Holder, Starting,
                 Killing
  <2>2. \A q \in Proc \ {p} : owner'[q] = owner[q] /\ file'[q] = file[q]
    BY <1>b, <1>11 DEF Exit, KillOpen, KillRead, KillSend, KillFails, CallFails
  <2> QED BY <1>0, <2>1, <2>2, Bystander
<1>12. ASSUME NEW p \in Proc, WriteFails(p)
       PROVE  HoldInv'
  BY <1>8, <1>12 DEF WriteFails, Holder
<1>13. CASE UNCHANGED vars
  BY <1>0, <1>13 DEF vars, HoldInv, Holder
<1> QED
  BY <1>1, <1>2, <1>3, <1>4, <1>5, <1>6, <1>7, <1>9, <1>10, <1>11, <1>12, <1>13
  DEF Next, LockNext

LEMMA LockStep == (Serial \/ ~Stops) /\ LockInv /\ [Next]_vars => LockInv'
  BY TypeStep, OrderlyStep, EarlyStep, HoldStep DEF LockInv

(* Whatever starts, stops, crashes and is signalled in whatever order, a   *)
(* process in Lock that reads or judges has a file or a pid to do so, and  *)
(* none makes more turns of the loop than there are (Lock, SendSignal).    *)
THEOREM TypeCorrect == Spec => []TypeOK
<1>1. Init => TypeOK
  BY LockInit DEF LockInv
<1>2. TypeOK /\ [Next]_vars => TypeOK'
  BY TypeStep
<1> QED BY <1>1, <1>2, PTL DEF Spec

(* Simultaneous starts are safe whatever their number and interleaving:    *)
(* O_EXCL picks the one (DoLock), and its pid is never taken for that of a *)
(* dead process (Lock).  So is every history of crashes, stops, incrond -k *)
(* and pids used again, if those that start once somebody may have stopped *)
(* do it one by one: the file of the one that runs is then never taken for *)
(* a stale one, and never removed by another.                              *)
THEOREM OneInstanceRuns == Serial \/ ~Stops => (Spec => []OneInstance)
<1> SUFFICES ASSUME Serial \/ ~Stops
             PROVE  Spec => []OneInstance
  OBVIOUS
<1>1. Init => LockInv
  BY LockInit
<1>2. LockInv /\ [Next]_vars => LockInv'
  BY LockStep
<1>3. LockInv => OneInstance
  BY DEF LockInv, HoldInv, OneInstance, Holder
<1> QED BY <1>1, <1>2, <1>3, PTL DEF Spec

-----------------------------------------------------------------------------
(* The abstract lock: one who gets it, the writer of the pid, finds nobody *)
(* there; one who leaves, by itself or by a crash, leaves nobody behind.   *)
Running == {p \in Proc : pc[p] = "locked"}

LEMMA AbstractInit == Init => Running = {}
  BY DEF Init, Running

LEMMA AbstractStep ==
    ASSUME LockInv, [Next]_vars
    PROVE  \/ Running' = Running
           \/ \E p \in Proc : Running = {} /\ Running' = {p}
           \/ \E p \in Proc : Running = {p} /\ Running' = {}
<1>0. TypeOK
  BY DEF LockInv
<1>1. ASSUME NEW p \in Proc, Write(p)
      PROVE  Running = {} /\ Running' = {p}
  <2>1. pc'[p] = "locked" /\ \A q \in Proc : q # p => pc'[q] = pc[q]
    BY <1>0, <1>1, Moves DEF Write
  <2>2. \A q \in Proc : pc[q] # "locked"
    BY <1>1 DEF Write, LockInv, HoldInv, Holder
  <2> QED BY <2>1, <2>2 DEF Running
<1>2. ASSUME NEW p \in Proc, NEW where, pc[p] # "locked", where # "locked", Go(p, where)
      PROVE  Running' = Running
  BY <1>0, <1>2, Moves DEF Running
<1>3. ASSUME NEW p \in Proc, pc[p] = "locked", Go(p, "exiting") \/ Go(p, "gone")
      PROVE  Running = {p} /\ Running' = {}
  <2>1. \A q \in Proc : pc[q] = "locked" => q = p
    BY <1>3 DEF LockInv, HoldInv, Holder
  <2>2. pc'[p] # "locked" /\ \A q \in Proc : q # p => pc'[q] = pc[q]
    BY <1>0, <1>3, Moves
  <2> QED BY <1>3, <2>1, <2>2 DEF Running
<1>4. ASSUME NEW p \in Proc,
             \/ Start(p) \/ CreateExists(p) \/ Open(p) \/ OpenMissing(p) \/ ReadEmpty(p)
             \/ ReadPid(p) \/ OwnerAlive(p) \/ OwnerDead(p) \/ Unlink(p)
             \/ WriteFails(p) \/ CallFails(p) \/ \E f \in File : Create(p, f)
      PROVE  Running' = Running
  <2>1. pc[p] # "locked"
    BY <1>4 DEF Start, Alive, Outside, CreateExists, Open, OpenMissing, ReadEmpty, ReadPid,
                OwnerAlive, OwnerDead, Unlink, WriteFails, CallFails, Create, Starting
  <2>2. \E where \in Starting \cup {"failed", "threw", "error"} : Go(p, where)
    BY <1>4 DEF Start, CreateExists, Open, OpenMissing, ReadEmpty, ReadPid, OwnerAlive,
                OwnerDead, Unlink, WriteFails, CallFails, Retry, Create, Starting
  <2> QED BY <1>2, <2>1, <2>2 DEF Starting
<1>5. ASSUME NEW p \in Proc,
             Exit(p) \/ KillOpen(p) \/ KillRead(p) \/ KillSend(p) \/ KillFails(p)
      PROVE  Running' = Running
  <2>1. /\ pc[p] # "locked"
        /\ \E x \in {"gone", "read pid", "failed", "signal", "error"} : Go(p, x)
    BY <1>5 DEF Exit, KillOpen, KillRead, KillSend, KillFails, Killing
  <2> QED BY <1>2, <2>1
<1>6. ASSUME NEW p \in Proc, Unlock(p) \/ Crash(p)
      PROVE  Running' = Running \/ (Running = {p} /\ Running' = {})
  <2>1. Go(p, "exiting") \/ Go(p, "gone")
    BY <1>6 DEF Unlock, Crash
  <2> QED BY <1>2, <1>3, <2>1
<1>7. CASE UNCHANGED vars
  BY <1>7 DEF vars, Running
<1> QED BY <1>1, <1>4, <1>5, <1>6, <1>7 DEF Next, LockNext

(* The lock file implements the lock (appinst.h:58-63) for simultaneous    *)
(* starts, and for every history of stops and crashes in which later       *)
(* starts come one by one: seen from the daemons, one acquires it only     *)
(* when nobody has it, and only the one that has it lets go of it.         *)
THEOREM LockImplemented == Serial \/ ~Stops => (Spec => ImplementsLock)
<1> SUFFICES ASSUME Serial \/ ~Stops
             PROVE  Spec => ImplementsLock
  OBVIOUS
<1>1. Init => Abstract!Init
  BY AbstractInit DEF Abstract!Init, Running
<1>2. LockInv /\ [Next]_vars => [Abstract!Next]_Running
  BY AbstractStep DEF Abstract!Next, Abstract!Acquire, Abstract!Release, Running
<1>3. Init => LockInv
  BY LockInit
<1>4. LockInv /\ [Next]_vars => LockInv'
  BY LockStep
<1> QED BY <1>1, <1>2, <1>3, <1>4, PTL DEF Spec, ImplementsLock, Abstract!Spec, Running
=============================================================================
