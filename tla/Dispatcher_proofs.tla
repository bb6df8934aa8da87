-------------------------- MODULE Dispatcher_proofs --------------------------
(* Any number of tables, descriptors and events: the poll array is always  *)
(* that of the tables there are, and its index survives what a table does  *)
(* while its events are handled.                                           *)
EXTENDS Dispatcher, FiniteSetTheorems, FunctionTheorems, SequenceTheorems, TLAPS

(* The place of a descriptor in the order of the map.                      *)
Rank(S, f) == Cardinality({g \in S : g <= f})

LEMMA FdFinite ==
    ASSUME NEW S \in SUBSET Fd
    PROVE  /\ IsFiniteSet(S) /\ Cardinality(S) \in 0..MaxFd
           /\ \A f : {g \in S : g <= f} \in SUBSET Fd
<1>1. IsFiniteSet(Fd) /\ Cardinality(Fd) = MaxFd
  BY FS_Interval, FdAssumption DEF Fd
<1> QED BY <1>1, FS_Subset, FS_CardinalityType, FdAssumption

LEMMA RankRange ==
    ASSUME NEW S \in SUBSET Fd, NEW f \in S
    PROVE  Rank(S, f) \in 1..Cardinality(S)
<1> DEFINE below == {g \in S : g <= f}
<1>1. f \in below
  BY FdAssumption DEF Fd
<1>2. IsFiniteSet(below) /\ Cardinality(below) <= Cardinality(S)
  BY FdFinite, FS_Subset
<1>3. Cardinality(below) # 0 /\ Cardinality(below) \in Nat
  BY <1>1, <1>2, FS_EmptySet, FS_CardinalityType
<1>4. Cardinality(S) \in Nat
  BY FdFinite
<1> QED BY <1>2, <1>3, <1>4 DEF Rank

LEMMA RankInjective ==
    ASSUME NEW S \in SUBSET Fd, NEW f \in S, NEW h \in S, Rank(S, f) = Rank(S, h)
    PROVE  f = h
<1>1. ASSUME NEW a \in S, NEW b \in S, a < b
      PROVE  Rank(S, a) # Rank(S, b)
  <2> DEFINE A == {g \in S : g <= a}
             B == {g \in S : g <= b}
  <2>1. A \in SUBSET B /\ b \in B /\ b \notin A
    <3>1. \A g \in S : g \in Int
      BY FdAssumption DEF Fd
    <3>2. \A g \in S : g <= a => g <= b
      BY <1>1, <3>1
    <3>3. b <= b /\ ~(b <= a)
      BY <1>1, <3>1
    <3> QED BY <3>2, <3>3
  <2>2. IsFiniteSet(B)
    BY FdFinite
  <2> HIDE DEF A, B
  <2>3. Cardinality(A) # Cardinality(B)
    <3>1. Cardinality(B) = Cardinality(A) => B = A
      BY <2>1, <2>2, FS_Subset
    <3> QED BY <2>1, <3>1
  <2> QED BY <2>3 DEF Rank, A, B
<1>2. f \in Int /\ h \in Int
  BY FdAssumption DEF Fd
<1>3. ~(f < h) /\ ~(h < f)
  BY <1>1
<1> QED BY <1>2, <1>3

LEMMA RankOnto ==
    ASSUME NEW S \in SUBSET Fd, NEW k \in 1..Cardinality(S)
    PROVE  \E f \in S : Rank(S, f) = k
<1> DEFINE T == 1..Cardinality(S)
<1> DEFINE r == [f \in S |-> Rank(S, f)]
<1>1. IsFiniteSet(T) /\ Cardinality(T) = Cardinality(S)
  <2>1. Cardinality(S) \in Nat
    BY FdFinite
  <2>2. 1 \in Int /\ Cardinality(S) \in Int
    BY <2>1
  <2>3. IsFiniteSet(T) /\ Cardinality(T) = IF 1 > Cardinality(S) THEN 0 ELSE Cardinality(S) - 1 + 1
    BY <2>2, FS_Interval
  <2> QED BY <2>1, <2>3
<1>2. r \in [S -> T]
  <2>1. \A f \in S : Rank(S, f) \in T
    BY RankRange
  <2> QED BY <2>1
<1>3. \A a, b \in S : r[a] = r[b] => a = b
  <2> SUFFICES ASSUME NEW a \in S, NEW b \in S, r[a] = r[b]
               PROVE  a = b
    OBVIOUS
  <2>1. Rank(S, a) = Rank(S, b)
    OBVIOUS
  <2> QED BY <2>1, RankInjective
<1> HIDE DEF r, T
<1>4. r \in Injection(S, T)
  BY <1>2, <1>3, Fun_IsInj
<1>5. r \in Surjection(S, T)
  BY <1>1, <1>4, FS_Injection
<1>6. \A t \in T : \E f \in S : r[f] = t
  BY <1>5, Fun_SurjectionProperties
<1> QED BY <1>6 DEF r, T

(* There is a lowest free descriptor as long as there is a free one.       *)
LEMMA LowestExists ==
    ASSUME NEW S \in SUBSET Fd, S # {}
    PROVE  \E f \in S : \A g \in S : f <= g
<1>1. 1 \in 1..Cardinality(S)
  BY FdFinite, FS_EmptySet
<1>2. PICK f \in S : Rank(S, f) = 1
  BY <1>1, RankOnto
<1>3. {g \in S : g <= f} = {f}
  <2>1. IsFiniteSet({g \in S : g <= f})
    BY FdFinite
  <2>2. PICK x : {g \in S : g <= f} = {x}
    BY <1>2, <2>1, FS_Singleton DEF Rank
  <2>3. f \in {g \in S : g <= f}
    BY FdAssumption DEF Fd
  <2> QED BY <2>2, <2>3
<1> QED BY <1>3, FdAssumption DEF Fd

-----------------------------------------------------------------------------
Slot == [fd : Fd, revents : BOOLEAN]
Maps == [Fd -> Name \cup {NULL}]

(* The array has a slot per key, in the order of the map.                  *)
Ordered(maps, poll) ==
    /\ poll \in Seq(Slot) /\ DOMAIN poll = 1..Cardinality(Keys(maps))
    /\ \A k \in DOMAIN poll : poll[k].fd \in Keys(maps) /\ Rank(Keys(maps), poll[k].fd) = k

LEMMA RebuildProperties ==
    ASSUME NEW maps \in Maps
    PROVE  /\ Ordered(maps, Rebuild(maps))
           /\ \A k \in DOMAIN Rebuild(maps) : ~Rebuild(maps)[k].revents
<1> DEFINE S == Keys(maps)
           n == Cardinality(S)
           At(k) == CHOOSE f \in S : Cardinality({g \in S : g <= f}) = k
<1>1. S \in SUBSET Fd /\ n \in Nat
  BY FdFinite DEF Keys
<1>2. ASSUME NEW k \in 1..n
      PROVE  At(k) \in S /\ Rank(S, At(k)) = k
  <2>1. \E f \in S : Cardinality({g \in S : g <= f}) = k
    BY <1>1, RankOnto DEF Rank
  <2> QED BY <2>1 DEF Rank
<1>3. Rebuild(maps) = [k \in 1..n |-> [fd |-> At(k), revents |-> FALSE]]
  BY DEF Rebuild
<1> HIDE DEF At, n, S
<1>4. DOMAIN Rebuild(maps) = 1..n
  BY <1>3
<1>5. \A k \in 1..n : Rebuild(maps)[k] = [fd |-> At(k), revents |-> FALSE]
  BY <1>3
<1>6. Rebuild(maps) \in Seq(Slot)
  <2>1. \A k \in 1..n : [fd |-> At(k), revents |-> FALSE] \in Slot
    BY <1>1, <1>2 DEF Slot
  <2> QED BY <1>1, <1>3, <2>1, IsASeq
<1> QED BY <1>2, <1>4, <1>5, <1>6 DEF Ordered, n, S

(* Every key has a slot.                                                   *)
LEMMA OrderedComplete ==
    ASSUME NEW maps \in Maps, NEW poll, Ordered(maps, poll)
    PROVE  /\ \A f \in Keys(maps) : Rank(Keys(maps), f) \in DOMAIN poll
                                    /\ poll[Rank(Keys(maps), f)].fd = f
           /\ Len(poll) = Cardinality(Keys(maps)) /\ Len(poll) \in 0..MaxFd
           /\ \A j, k \in DOMAIN poll : poll[j].fd = poll[k].fd => j = k
<1>1. Keys(maps) \in SUBSET Fd
  BY DEF Keys
<1>2. ASSUME NEW f \in Keys(maps)
      PROVE  /\ Rank(Keys(maps), f) \in DOMAIN poll
             /\ poll[Rank(Keys(maps), f)].fd = f
  <2>1. Rank(Keys(maps), f) \in DOMAIN poll
    BY <1>1, RankRange DEF Ordered
  <2> QED BY <1>1, <2>1, RankInjective DEF Ordered
<1>3. Len(poll) = Cardinality(Keys(maps)) /\ Len(poll) \in 0..MaxFd
  <2>1. Cardinality(Keys(maps)) \in 0..MaxFd
    BY <1>1, FdFinite
  <2>2. Len(poll) \in Nat /\ DOMAIN poll = 1..Len(poll)
    BY LenProperties DEF Ordered
  <2> QED BY <2>1, <2>2, FdAssumption DEF Ordered
<1>4. \A j, k \in DOMAIN poll : poll[j].fd = poll[k].fd => j = k
  BY DEF Ordered
<1> QED BY <1>2, <1>3, <1>4

-----------------------------------------------------------------------------
(* The invariant.                                                          *)

Listening == pc \notin {"dead", "end"}

(* But for the table being loaded, which has left the map, tables and map  *)
(* are inverse to each other.                                              *)
TablesInv ==
    Listening =>
        /\ pc = "load" => cur \in Name /\ g_ut[cur] # NULL /\ m_maps[g_ut[cur].fd] = NULL
        /\ \A n \in Name : g_ut[n] # NULL /\ ~(pc = "load" /\ n = cur)
                                => m_maps[g_ut[n].fd] = n
        /\ \A f \in Fd : m_maps[f] # NULL => g_ut[m_maps[f]] # NULL /\ g_ut[m_maps[f]].fd = f

ArrayInv == Listening => Ordered(m_maps, m_pPoll)

(* The loop index is the place of the table being served, even while that  *)
(* table has no slot.                                                      *)
Serving == pc = "serve" \/ (pc = "load" /\ back = "serve")
IndexInv ==
    Serving => cur \in Name /\ g_ut[cur] # NULL /\ i = Rank(Open, g_ut[cur].fd)

Reading == pc = "readdir" \/ (pc = "load" /\ back = "readdir")
ReadInv == Reading => \A n \in toread : g_ut[n] = NULL

DispatchInv ==
    /\ TypeOK /\ TablesInv /\ ArrayInv /\ IndexInv /\ ReadInv /\ ReventsFresh

LEMMA InvInit == Init => DispatchInv
<1> SUFFICES ASSUME Init
             PROVE  DispatchInv
  OBVIOUS
<1>1. TypeOK
  <2>1. dir \in [Name -> Content] /\ env \in 0..MaxEnv
    BY FdAssumption DEF Init, Content, Version
  <2>2. pending \in Seq(MgmtEvent) /\ m_events \in Seq(MgmtEvent) /\ tevents \in Seq(Kind)
    BY DEF Init
  <2>3. m_pPoll \in Seq([fd : Fd, revents : BOOLEAN]) /\ ready \in [Fd -> Seq(Kind)]
    BY DEF Init
  <2>4. i \in 1..(MaxFd + 1)
    BY FdAssumption DEF Init
  <2> QED BY <2>1, <2>2, <2>3, <2>4 DEF Init, TypeOK
<1>2. Keys(m_maps) = {} /\ m_pPoll = <<>>
  BY DEF Init, Keys
<1>3. Ordered(m_maps, m_pPoll)
  <2>1. Cardinality({}) = 0
    BY FS_EmptySet
  <2> QED BY <1>2, <2>1 DEF Ordered
<1> QED BY <1>1, <1>3 DEF Init, DispatchInv, TablesInv, ArrayInv, IndexInv, ReadInv, ReventsFresh,
                         Serving

(* What is listened to are the tables.                                     *)
LEMMA KeysOpen ==
    ASSUME TypeOK, TablesInv, Listening
    PROVE  /\ pc # "load" => Keys(m_maps) = Open
           /\ pc = "load" => Keys(m_maps) = Open \ {g_ut[cur].fd}
<1>1. \A n \in Name : g_ut[n] # NULL => g_ut[n].fd \in Fd
  BY DEF TypeOK, TableObj
<1>2. \A f \in Fd : m_maps[f] # NULL => m_maps[f] \in Name
  BY DEF TypeOK
<1>3. Keys(m_maps) \subseteq Open
  BY <1>2 DEF Keys, Open, TablesInv
<1>4. CASE pc # "load"
  BY <1>1, <1>3, <1>4, NameAssumption DEF Keys, Open, TablesInv
<1>5. CASE pc = "load"
  BY <1>1, <1>3, <1>5, NameAssumption DEF Keys, Open, TablesInv
<1> QED BY <1>4, <1>5

(* A step that leaves tables and map alone and neither begins nor ends a   *)
(* load.                                                                   *)
Still == /\ UNCHANGED <<g_ut, m_maps>> /\ (Listening' => Listening)
         /\ \/ pc # "load" /\ pc' # "load"
            \/ UNCHANGED <<pc, cur, back, i>>

(* The actions, by what they do to the tables.                             *)
Quietly ==
    \/ ReadDirDone \/ LoopTest \/ Poll \/ MgmtFinish \/ MgmtIgnore \/ MgmtDone
    \/ NextSlot \/ Serve \/ RunCommand \/ Served \/ EventsDone
    \/ Outside \/ UNCHANGED vars

LEMMA QuietlyStill == Quietly => Still
<1>1. CASE \/ ReadDirDone \/ LoopTest \/ Poll \/ MgmtFinish \/ MgmtIgnore \/ MgmtDone
  BY <1>1 DEF ReadDirDone, LoopTest, Poll, MgmtFinish, MgmtIgnore, MgmtDone, Mgmt, Still, Go,
              Listening
<1>2. CASE NextSlot \/ Serve \/ RunCommand \/ Served \/ EventsDone
  BY <1>2 DEF NextSlot, Serve, RunCommand, Served, EventsDone, Still, Go, Listening
<1>3. CASE Outside \/ UNCHANGED vars
  BY <1>3 DEF Outside, OpenFile, CloseFile, DeleteFile, MoveIn, MoveOut, DestroyBase, TableEvent,
              quiet, vars, Still, Listening
<1> QED BY <1>1, <1>2, <1>3 DEF Quietly

(* A table comes into being, from readdir or from an event.                *)
Creates(n) ==
    /\ pc \in {"readdir", "mgmt"} /\ n \in Name /\ g_ut[n] = NULL
    /\ NewTable(n)
    /\ toread' \subseteq toread /\ (pc = "readdir" => n \notin toread')
    /\ UNCHANGED <<m_maps, m_pPoll, i, dir, pending, ready, env, tevents, g_fFinish>>

(* It leaves the map to be loaded again.                                   *)
Disposes(n) ==
    /\ pc \in {"mgmt", "serve"} /\ n \in Name /\ g_ut[n] # NULL
    /\ Dispose(n)
    /\ pc' = "load" /\ cur' = n /\ (back' = pc \/ back' = "dead")
    /\ pc = "serve" => cur = n
    /\ UNCHANGED <<g_ut, i, toread>>

LEMMA NextShapes ==
    ASSUME DispatchInv, [Next]_vars
    PROVE  \/ Quietly
           \/ \E n \in Name : Creates(n) \/ Disposes(n)
           \/ LoadTable \/ MgmtDestroy
           \/ pc' \in {"dead", "end"} /\ UNCHANGED i
           \/ \E n \in Name : ReadDir(n) /\ Still
<1>1. ASSUME NEW n \in Name, ReadDir(n), n \in toread
      PROVE  Creates(n) \/ (pc' = "dead" /\ UNCHANGED i) \/ Still
  <2>1. pc = "readdir" /\ g_ut[n] = NULL
    BY <1>1 DEF ReadDir, DispatchInv, ReadInv, Reading
  <2>2. /\ NewTable(n) \/ NoDescriptor \/ UNCHANGED <<g_ut, cur, back, pc>>
        /\ toread' = toread \ {n}
        /\ UNCHANGED <<kernel, m_maps, m_pPoll, i, tevents, g_fFinish>>
    BY <1>1 DEF ReadDir
  <2> QED BY <2>1, <2>2 DEF Creates, Still, NoDescriptor, Go, kernel, Listening
<1>2. CASE MgmtCreate
  <2>1. Changed \in Name /\ g_ut[Changed] = NULL /\ pc = "mgmt"
    BY <1>2 DEF MgmtCreate, Mgmt
  <2>2. /\ NewTable(Changed) \/ NoDescriptor
        /\ UNCHANGED <<kernel, m_maps, m_pPoll, i, tevents, g_fFinish, toread>>
    BY <1>2 DEF MgmtCreate
  <2>3. Creates(Changed) \/ (pc' = "dead" /\ UNCHANGED i)
    BY <2>1, <2>2 DEF Creates, NoDescriptor, Go, kernel
  <2> QED BY <2>1, <2>3
<1>3. CASE MgmtReload
  <2>1. Changed \in Name /\ Disposes(Changed)
    BY <1>3 DEF MgmtReload, Mgmt, Disposes, Go
  <2> QED BY <2>1
<1>4. CASE ReloadTable
  <2>1. cur \in Name /\ g_ut[cur] # NULL
    BY <1>4 DEF ReloadTable, DispatchInv, IndexInv, Serving
  <2>2. Disposes(cur)
    BY <1>4, <2>1 DEF ReloadTable, Disposes, Go
  <2> QED BY <2>1, <2>2
<1>5. CASE FreeTables
  BY <1>5 DEF FreeTables, Go
<1> QED BY <1>1, <1>2, <1>3, <1>4, <1>5
        DEF Next, Daemon, MgmtNext, ServeNext, Quietly, ReadDir

LEMMA TablesStep ==
    ASSUME DispatchInv, [Next]_vars
    PROVE  TablesInv'
<1> USE NameAssumption, NullAssumption
<1>0. /\ TypeOK /\ TablesInv
      /\ g_ut \in [Name -> TableObj \cup {NULL}] /\ m_maps \in [Fd -> Name \cup {NULL}]
  BY DEF DispatchInv, TypeOK
<1>a. \A n \in Name : g_ut[n] # NULL => g_ut[n] \in TableObj /\ g_ut[n].fd \in Fd
  BY <1>0 DEF TableObj
<1>1. CASE Still
  BY <1>0, <1>1 DEF Still, TablesInv, Listening
<1>2. ASSUME NEW n \in Name, Creates(n)
      PROVE  TablesInv'
  <2> DEFINE f == CHOOSE f \in Fd \ Open : \A g \in Fd \ Open : f <= g
  <2>1. f \in Fd /\ f \notin Open
    <3>1. Open \subseteq Fd /\ Open # Fd
      BY <1>2, <1>a DEF Creates, NewTable, Open
    <3>2. Fd \ Open # {} /\ Fd \ Open \in SUBSET Fd
      BY <3>1
    <3> QED BY <3>2, LowestExists
  <2>2. /\ g_ut' = [g_ut EXCEPT ![n] = [fd |-> f, tab |-> NULL]]
        /\ cur' = n /\ pc' = "load" /\ m_maps' = m_maps
    BY <1>2 DEF Creates, NewTable, Go
  <2> HIDE DEF f
  <2>3. [fd |-> f, tab |-> NULL] \in TableObj
    BY <2>1 DEF TableObj, Content
  <2>4. g_ut'[n] # NULL /\ g_ut'[n].fd = f /\ \A m \in Name \ {n} : g_ut'[m] = g_ut[m]
    BY <1>0, <2>2, <2>3
  <2>5. Keys(m_maps) = Open
    BY <1>0, <1>2, KeysOpen DEF Creates, Listening
  <2>6. m_maps[f] = NULL
    BY <2>1, <2>5 DEF Keys
  <2>7. /\ \A m \in Name : g_ut[m] # NULL => m_maps[g_ut[m].fd] = m
        /\ \A h \in Fd : m_maps[h] # NULL => g_ut[m_maps[h]] # NULL /\ g_ut[m_maps[h]].fd = h
    BY <1>0, <1>2 DEF TablesInv, Listening, Creates
  <2>8. \A h \in Fd : m_maps[h] # NULL => m_maps[h] \in Name /\ m_maps[h] # n
    BY <1>0, <1>2, <2>7 DEF Creates
  <2> QED BY <2>2, <2>4, <2>6, <2>7, <2>8 DEF TablesInv
<1>3. ASSUME NEW n \in Name, Disposes(n)
      PROVE  TablesInv'
  <2>1. /\ m_maps[g_ut[n].fd] = n /\ n # NULL
        /\ \A m \in Name : g_ut[m] # NULL => m_maps[g_ut[m].fd] = m
        /\ \A h \in Fd : m_maps[h] # NULL => g_ut[m_maps[h]] # NULL /\ g_ut[m_maps[h]].fd = h
    BY <1>0, <1>3 DEF Disposes, TablesInv, Listening
  <2>2. m_maps' = [m_maps EXCEPT ![g_ut[n].fd] = NULL] /\ g_ut' = g_ut
    BY <1>3, <2>1 DEF Disposes, Dispose, Unregister
  <2>3. cur' = n /\ pc' = "load" /\ g_ut[n] # NULL
    BY <1>3 DEF Disposes
  <2>4. m_maps'[g_ut[n].fd] = NULL /\ \A h \in Fd \ {g_ut[n].fd} : m_maps'[h] = m_maps[h]
    BY <1>0, <1>a, <2>2, <2>3
  <2>5. \A m \in Name \ {n} : g_ut[m] # NULL => g_ut[m].fd # g_ut[n].fd
    BY <2>1
  <2>6. \A m \in Name \ {n} : g_ut[m] # NULL => m_maps'[g_ut[m].fd] = m
    BY <1>a, <2>1, <2>4, <2>5
  <2>7. \A h \in Fd : m_maps'[h] # NULL => g_ut[m_maps'[h]] # NULL /\ g_ut[m_maps'[h]].fd = h
    BY <2>1, <2>4
  <2> QED BY <2>2, <2>3, <2>4, <2>6, <2>7 DEF TablesInv
<1>4. CASE LoadTable
  <2> DEFINE f == g_ut[cur].fd
  <2>1. CASE ~Listening'
    BY <2>1 DEF TablesInv
  <2>2. CASE Listening'
    <3>1. pc = "load" /\ Listening /\ pc' = back /\ pc' # "load"
      BY <1>0, <1>4 DEF LoadTable, Go, Listening, TypeOK
    <3>2. cur \in Name /\ g_ut[cur] # NULL /\ m_maps[f] = NULL
      BY <1>0, <3>1 DEF TablesInv
    <3>3. m_maps' = [m_maps EXCEPT ![f] = cur]
      BY <1>4, <3>2 DEF LoadTable, Register
    <3>4. g_ut' = [g_ut EXCEPT ![cur].tab = dir[cur]]
      BY <1>4 DEF LoadTable
    <3>5. /\ g_ut'[cur].fd = f /\ g_ut'[cur] \in TableObj
          /\ \A m \in Name \ {cur} : g_ut'[m] = g_ut[m]
      BY <1>0, <1>a, <3>2, <3>4 DEF TableObj, TypeOK
    <3>6. /\ \A m \in Name \ {cur} : g_ut[m] # NULL => m_maps[g_ut[m].fd] = m
          /\ \A h \in Fd : m_maps[h] # NULL => g_ut[m_maps[h]] # NULL /\ g_ut[m_maps[h]].fd = h
      BY <1>0, <3>1 DEF TablesInv
    <3>7. m_maps'[f] = cur /\ \A h \in Fd \ {f} : m_maps'[h] = m_maps[h]
      BY <1>0, <1>a, <3>2, <3>3
    <3>8. \A m \in Name \ {cur} : g_ut[m] # NULL => g_ut[m].fd # f
      BY <3>2, <3>6
    <3>9. \A m \in Name : g_ut'[m] # NULL => m_maps'[g_ut'[m].fd] = m
      BY <1>a, <3>5, <3>6, <3>7, <3>8
    <3>10. \A h \in Fd : m_maps'[h] # NULL
                            => g_ut'[m_maps'[h]] # NULL /\ g_ut'[m_maps'[h]].fd = h
      <4> SUFFICES ASSUME NEW h \in Fd, h # f, m_maps[h] # NULL
                   PROVE  g_ut'[m_maps[h]] # NULL /\ g_ut'[m_maps[h]].fd = h
        BY <3>5, <3>7
      <4>1. m_maps[h] \in Name /\ m_maps[h] # cur
        BY <1>0, <3>6
      <4> QED BY <3>5, <3>6, <4>1
    <3> QED BY <3>1, <3>9, <3>10 DEF TablesInv
  <2> QED BY <2>1, <2>2
<1>5. CASE MgmtDestroy
  <2> DEFINE n == Changed
             f == g_ut[n].fd
  <2>1. pc = "mgmt" /\ pc' = pc /\ n \in Name /\ g_ut[n] # NULL
    BY <1>5 DEF MgmtDestroy, Mgmt
  <2>2. /\ \A m \in Name : g_ut[m] # NULL => m_maps[g_ut[m].fd] = m
        /\ \A h \in Fd : m_maps[h] # NULL => g_ut[m_maps[h]] # NULL /\ g_ut[m_maps[h]].fd = h
    BY <1>0, <2>1 DEF TablesInv, Listening
  <2>3. m_maps' = [m_maps EXCEPT ![f] = NULL] /\ g_ut' = [g_ut EXCEPT ![n] = NULL]
    BY <1>5, <2>1, <2>2 DEF MgmtDestroy, Unregister
  <2> HIDE DEF n
  <2>4. /\ g_ut'[n] = NULL /\ \A m \in Name \ {n} : g_ut'[m] = g_ut[m]
        /\ m_maps'[f] = NULL /\ \A h \in Fd \ {f} : m_maps'[h] = m_maps[h]
    BY <1>0, <1>a, <2>1, <2>3
  <2>5. \A m \in Name \ {n} : g_ut[m] # NULL => g_ut[m].fd # f
    BY <2>1, <2>2
  <2>6. \A h \in Fd \ {f} : m_maps[h] # NULL => m_maps[h] \in Name \ {n}
    BY <1>0, <2>2
  <2> QED BY <1>a, <2>1, <2>2, <2>4, <2>5, <2>6 DEF TablesInv
<1>6. CASE pc' \in {"dead", "end"}
  BY <1>6 DEF TablesInv, Listening
<1> QED BY <1>1, <1>2, <1>3, <1>4, <1>5, <1>6, NextShapes, QuietlyStill

(* Outside the array changes only as a whole, in it only revents does.     *)
LEMMA ArrayStep ==
    ASSUME DispatchInv, [Next]_vars
    PROVE  ArrayInv'
<1>0. /\ TypeOK /\ TablesInv /\ m_maps \in Maps
      /\ Listening => Ordered(m_maps, m_pPoll)
  BY DEF DispatchInv, TypeOK, ArrayInv, Maps
<1>1. ASSUME m_pPoll' = Rebuild(m_maps'), m_maps' \in Maps
      PROVE  ArrayInv'
  BY <1>1, RebuildProperties DEF ArrayInv
<1>2. ASSUME UNCHANGED <<m_maps, m_pPoll>>, Listening
      PROVE  ArrayInv'
  BY <1>0, <1>2 DEF ArrayInv
<1>3. ASSUME NEW n \in Name, Creates(n)
      PROVE  ArrayInv'
  BY <1>2, <1>3 DEF Creates, Listening
<1>4. ASSUME NEW n \in Name, g_ut[n] # NULL, Unregister(n), Listening, pc # "load"
      PROVE  m_pPoll' = Rebuild(m_maps') /\ m_maps' \in Maps
  <2>1. m_maps[g_ut[n].fd] = n /\ n # NULL
    BY <1>0, <1>4, NameAssumption DEF TablesInv
  <2> QED BY <1>0, <1>4, <2>1 DEF Unregister, Maps
<1>5. ASSUME NEW n \in Name, Disposes(n)
      PROVE  ArrayInv'
  BY <1>1, <1>4, <1>5 DEF Disposes, Dispose, Listening
<1>6. CASE MgmtDestroy
  <2>1. Changed \in Name /\ g_ut[Changed] # NULL /\ Unregister(Changed) /\ pc = "mgmt"
    BY <1>6 DEF MgmtDestroy, Mgmt
  <2> QED BY <1>1, <1>4, <2>1 DEF Listening
<1>7. CASE LoadTable
  <2>1. CASE back = "dead"
    BY <1>7, <2>1 DEF LoadTable, Go, ArrayInv, Listening
  <2>2. CASE back # "dead"
    <3>1. cur \in Name
      BY <1>0, <1>7 DEF LoadTable, TablesInv, Listening
    <3>2. m_pPoll' = Rebuild(m_maps') /\ m_maps' \in Maps
      BY <1>0, <1>7, <3>1 DEF LoadTable, Register, Maps
    <3> QED BY <1>1, <3>2
  <2> QED BY <2>1, <2>2
<1>8. CASE ReadDirDone
  BY <1>0, <1>1, <1>8 DEF ReadDirDone
<1>9. ASSUME m_maps' = m_maps, Listening, m_pPoll' \in Seq(Slot), DOMAIN m_pPoll' = DOMAIN m_pPoll,
             \A k \in DOMAIN m_pPoll : m_pPoll'[k].fd = m_pPoll[k].fd
      PROVE  ArrayInv'
  BY <1>0, <1>9 DEF ArrayInv, Ordered
<1>10. m_pPoll \in Seq(Slot)
  BY <1>0 DEF TypeOK, Slot
<1>11. CASE Poll
  <2>1. /\ m_pPoll' = [k \in DOMAIN m_pPoll |->
                          [m_pPoll[k] EXCEPT !.revents = ready[m_pPoll[k].fd] # <<>>]]
        /\ m_maps' = m_maps /\ Listening
    BY <1>11 DEF Poll, Listening
  <2>2. \A k \in DOMAIN m_pPoll : m_pPoll[k] \in Slot
    BY <1>10, ElementOfSeq, LenProperties
  <2>3. \A k \in DOMAIN m_pPoll : m_pPoll'[k] \in Slot /\ m_pPoll'[k].fd = m_pPoll[k].fd
    BY <2>1, <2>2 DEF Slot
  <2>4. DOMAIN m_pPoll' = DOMAIN m_pPoll /\ m_pPoll' = [k \in DOMAIN m_pPoll |-> m_pPoll'[k]]
    BY <2>1
  <2>5. DOMAIN m_pPoll = 1..Len(m_pPoll) /\ Len(m_pPoll) \in Nat
    BY <1>10, LenProperties
  <2>6. m_pPoll' \in Seq(Slot)
    BY <2>3, <2>4, <2>5, IsASeq
  <2> QED BY <1>9, <2>1, <2>3, <2>4, <2>6
<1>12. CASE Served
  <2>1. m_pPoll' = [m_pPoll EXCEPT ![i].revents = FALSE] /\ m_maps' = m_maps /\ Listening
    BY <1>12 DEF Served, Listening
  <2>2. \A k \in DOMAIN m_pPoll : m_pPoll[k] \in Slot
    BY <1>10, ElementOfSeq, LenProperties
  <2>3. \A k \in DOMAIN m_pPoll : m_pPoll'[k] \in Slot /\ m_pPoll'[k].fd = m_pPoll[k].fd
    BY <1>10, <2>1, <2>2 DEF Slot
  <2>4. DOMAIN m_pPoll' = DOMAIN m_pPoll /\ m_pPoll' = [k \in DOMAIN m_pPoll |-> m_pPoll'[k]]
    BY <1>10, <2>1
  <2>5. DOMAIN m_pPoll = 1..Len(m_pPoll) /\ Len(m_pPoll) \in Nat
    BY <1>10, LenProperties
  <2>6. m_pPoll' \in Seq(Slot)
    BY <2>3, <2>4, <2>5, IsASeq
  <2> QED BY <1>9, <2>1, <2>3, <2>4, <2>6
<1>13. ASSUME UNCHANGED <<m_maps, m_pPoll>>, Listening' => Listening
       PROVE  ArrayInv'
  BY <1>2, <1>13 DEF ArrayInv
<1>14. CASE LoopTest \/ MgmtFinish \/ MgmtIgnore \/ MgmtDone \/ NextSlot \/ Serve \/ RunCommand \/ EventsDone
  BY <1>2, <1>14 DEF LoopTest, MgmtFinish, MgmtIgnore, MgmtDone, Mgmt, NextSlot, Serve, RunCommand,
                     EventsDone, Listening
<1>15. CASE Outside \/ UNCHANGED vars
  BY <1>13, <1>15 DEF Outside, OpenFile, CloseFile, DeleteFile, MoveIn, MoveOut, DestroyBase,
                      TableEvent, quiet, vars, Listening
<1>16. ASSUME NEW n \in Name, ReadDir(n), Still
       PROVE  ArrayInv'
  BY <1>13, <1>16 DEF ReadDir, Still
<1>17. CASE pc' \in {"dead", "end"}
  BY <1>17 DEF ArrayInv, Listening
<1>18. CASE Quietly
  BY <1>8, <1>11, <1>12, <1>14, <1>15, <1>18 DEF Quietly
<1> QED BY <1>3, <1>5, <1>6, <1>7, <1>16, <1>17, <1>18, NextShapes

(* Quiet steps but Serve keep the index of the table being served.         *)
LEMMA QuietlyIndex ==
    ASSUME Quietly, Serving', ~Serve
    PROVE  Serving /\ UNCHANGED <<cur, i, g_ut>>
<1>1. CASE ReadDirDone \/ LoopTest \/ Poll
  BY <1>1 DEF ReadDirDone, LoopTest, Poll, Go, Serving
<1>2. CASE MgmtFinish \/ MgmtIgnore \/ MgmtDone
  BY <1>2 DEF MgmtFinish, MgmtIgnore, MgmtDone, Mgmt, Go, Serving
<1>3. CASE NextSlot \/ RunCommand \/ Served \/ EventsDone
  BY <1>3 DEF NextSlot, RunCommand, Served, EventsDone, Go, Serving
<1>4. CASE Outside \/ UNCHANGED vars
  BY <1>4 DEF Outside, OpenFile, CloseFile, DeleteFile, MoveIn, MoveOut, DestroyBase, TableEvent,
              quiet, vars, Serving
<1> QED BY <1>1, <1>2, <1>3, <1>4 DEF Quietly

LEMMA IndexStep ==
    ASSUME DispatchInv, [Next]_vars
    PROVE  IndexInv'
<1>0. /\ TypeOK /\ TablesInv /\ ArrayInv
      /\ Serving => cur \in Name /\ g_ut[cur] # NULL /\ i = Rank(Open, g_ut[cur].fd)
      /\ m_maps \in Maps
  BY DEF DispatchInv, IndexInv, TypeOK, Maps
<1>1. ASSUME Serving, UNCHANGED <<cur, i, g_ut>>
      PROVE  IndexInv'
  BY <1>0, <1>1 DEF IndexInv, Open
<1>2. CASE Serve
  <2> DEFINE f == m_pPoll[i].fd
  <2>1. pc = "events" /\ i <= Len(m_pPoll) /\ cur' = m_maps[f] /\ UNCHANGED <<i, g_ut>>
    BY <1>2 DEF Serve
  <2>2. Ordered(m_maps, m_pPoll) /\ Keys(m_maps) = Open
    BY <1>0, <2>1, KeysOpen DEF ArrayInv, Listening
  <2>3. i \in DOMAIN m_pPoll
    <3>1. DOMAIN m_pPoll = 1..Len(m_pPoll) /\ Len(m_pPoll) \in Nat
      BY <2>2, LenProperties DEF Ordered
    <3>2. i \in Nat /\ i >= 1
      BY <1>0, FdAssumption DEF TypeOK
    <3> QED BY <2>1, <3>1, <3>2
  <2>4. f \in Keys(m_maps) /\ Rank(Open, f) = i
    BY <2>2, <2>3 DEF Ordered
  <2>5. /\ m_maps[f] \in Name /\ g_ut[m_maps[f]] # NULL /\ g_ut[m_maps[f]].fd = f
    BY <1>0, <2>1, <2>4 DEF Keys, Maps, TablesInv, Listening
  <2> QED BY <2>1, <2>4, <2>5 DEF IndexInv, Open
<1>3. ASSUME NEW n \in Name, Creates(n)
      PROVE  ~Serving'
  BY <1>3 DEF Creates, NewTable, Go, Serving
<1>4. ASSUME NEW n \in Name, Disposes(n), Serving'
      PROVE  Serving /\ UNCHANGED <<cur, i, g_ut>>
  BY <1>4 DEF Disposes, Serving
<1>5. CASE MgmtDestroy
  BY <1>5 DEF MgmtDestroy, Mgmt, Serving, IndexInv
<1>6. ASSUME LoadTable, Serving'
      PROVE  IndexInv'
  <2>1. Serving /\ UNCHANGED <<cur, i>>
    BY <1>0, <1>6 DEF LoadTable, Go, Serving, TypeOK
  <2>2. cur \in Name /\ g_ut[cur] # NULL
    BY <1>0, <2>1
  <2>3. g_ut' = [g_ut EXCEPT ![cur].tab = dir[cur]]
    BY <1>6 DEF LoadTable
  <2>4. g_ut[cur] \in TableObj /\ g_ut'[cur] = [g_ut[cur] EXCEPT !.tab = dir[cur]]
    BY <1>0, <2>2, <2>3 DEF TypeOK
  <2>5. g_ut'[cur] # NULL /\ g_ut'[cur].fd = g_ut[cur].fd
    <3>1. dir[cur] \in Content
      BY <1>0, <2>2 DEF TypeOK
    <3>2. g_ut'[cur] \in TableObj /\ g_ut'[cur].fd = g_ut[cur].fd
      BY <2>4, <3>1 DEF TableObj
    <3> QED BY <3>2, NullAssumption
  <2>6. \A m \in Name \ {cur} : g_ut'[m] = g_ut[m]
    BY <1>0, <2>3 DEF TypeOK
  <2>7. Open' = Open
    <3>1. \A m \in Name : /\ g_ut'[m] # NULL <=> g_ut[m] # NULL
                          /\ g_ut'[m] # NULL => g_ut'[m].fd = g_ut[m].fd
      BY <2>2, <2>5, <2>6
    <3> QED BY <3>1 DEF Open
  <2> QED BY <1>0, <2>1, <2>2, <2>5, <2>7 DEF IndexInv
<1>7. ASSUME NEW n \in Name, ReadDir(n), Still, Serving'
      PROVE  FALSE
  BY <1>7 DEF ReadDir, Still, Serving, NewTable, NoDescriptor, Go
<1>8. ASSUME pc' \in {"dead", "end"}
      PROVE  ~Serving'
  BY <1>8 DEF Serving
<1>9. CASE ~Serving'
  BY <1>9 DEF IndexInv
<1> QED BY <1>1, <1>2, <1>3, <1>4, <1>5, <1>6, <1>7, <1>8, <1>9, NextShapes, QuietlyIndex

LEMMA ReadStep ==
    ASSUME DispatchInv, [Next]_vars
    PROVE  ReadInv'
<1>0. TypeOK /\ TablesInv /\ (Reading => \A n \in toread : g_ut[n] = NULL)
  BY DEF DispatchInv, ReadInv
<1>1. ASSUME Reading, toread' \subseteq toread, g_ut' = g_ut
      PROVE  ReadInv'
  BY <1>0, <1>1 DEF ReadInv
<1>2. ASSUME Quietly, Reading'
      PROVE  Reading /\ toread' \subseteq toread /\ g_ut' = g_ut
  <2>1. CASE ReadDirDone \/ LoopTest \/ Poll
    BY <1>2, <2>1 DEF ReadDirDone, LoopTest, Poll, Go, Reading
  <2>2. CASE MgmtFinish \/ MgmtIgnore \/ MgmtDone
    BY <1>2, <2>2 DEF MgmtFinish, MgmtIgnore, MgmtDone, Mgmt, Go, Reading
  <2>3. CASE NextSlot \/ Serve \/ RunCommand \/ Served \/ EventsDone
    BY <1>2, <2>3 DEF NextSlot, Serve, RunCommand, Served, EventsDone, Go, Reading
  <2>4. CASE Outside \/ UNCHANGED vars
    BY <1>2, <2>4 DEF Outside, OpenFile, CloseFile, DeleteFile, MoveIn, MoveOut, DestroyBase,
                      TableEvent, quiet, vars, Reading
  <2> QED BY <1>2, <2>1, <2>2, <2>3, <2>4 DEF Quietly
<1>3. ASSUME NEW n \in Name, Creates(n)
      PROVE  ReadInv'
  <2>1. /\ pc' = "load" /\ back' = pc /\ toread' \subseteq toread
        /\ pc = "readdir" => n \notin toread'
        /\ \A m \in Name \ {n} : g_ut'[m] = g_ut[m]
    BY <1>0, <1>3 DEF Creates, NewTable, Go, TypeOK
  <2>2. toread \subseteq Name
    BY <1>0 DEF TypeOK
  <2> QED BY <1>0, <2>1, <2>2 DEF ReadInv, Reading
<1>4. ASSUME NEW n \in Name, Disposes(n)
      PROVE  ~Reading'
  BY <1>4 DEF Disposes, Reading
<1>5. CASE MgmtDestroy
  BY <1>5 DEF MgmtDestroy, Mgmt, Reading, ReadInv
<1>6. ASSUME LoadTable, Reading'
      PROVE  ReadInv'
  <2>1. Reading /\ toread' = toread /\ pc = "load" /\ back = "readdir"
    BY <1>0, <1>6 DEF LoadTable, Go, Reading, TypeOK
  <2>2. cur \in Name /\ g_ut[cur] # NULL
    BY <1>0, <2>1 DEF TablesInv, Listening
  <2>3. \A m \in Name \ {cur} : g_ut'[m] = g_ut[m]
    BY <1>0, <1>6 DEF LoadTable, TypeOK
  <2>4. toread \subseteq Name \ {cur}
    BY <1>0, <2>1, <2>2 DEF TypeOK
  <2> QED BY <1>0, <2>1, <2>3, <2>4 DEF ReadInv
<1>7. ASSUME NEW n \in Name, ReadDir(n), Still
      PROVE  ReadInv'
  BY <1>1, <1>7 DEF ReadDir, Still, Reading
<1>8. ASSUME pc' \in {"dead", "end"}
      PROVE  ~Reading'
  BY <1>8 DEF Reading
<1>9. CASE ~Reading'
  BY <1>9 DEF ReadInv
<1> QED BY <1>1, <1>2, <1>3, <1>4, <1>5, <1>6, <1>7, <1>8, <1>9, NextShapes

(* A rebuilt array reports nothing; otherwise what is reported is there.   *)
LEMMA ReventsStep ==
    ASSUME DispatchInv, [Next]_vars
    PROVE  ReventsFresh'
<1> DEFINE Later(k) == (pc = "serve" => k > i) /\ (pc = "events" => k >= i)
           Active == pc \in {"mgmt", "events", "serve"}
<1>0. /\ TypeOK /\ TablesInv /\ ArrayInv /\ IndexInv /\ m_maps \in Maps
      /\ m_pPoll \in Seq(Slot) /\ ready \in [Fd -> Seq(Kind)]
      /\ i \in Nat
  BY FdAssumption DEF DispatchInv, TypeOK, Maps, Slot
<1>a. Active => \A k \in DOMAIN m_pPoll :
            m_pPoll[k].revents /\ Later(k) => ready[m_pPoll[k].fd] # <<>>
  BY DEF DispatchInv, ReventsFresh
<1>b. DOMAIN m_pPoll \subseteq Nat /\ \A k \in DOMAIN m_pPoll : m_pPoll[k] \in Slot
  BY <1>0, ElementOfSeq, LenProperties
<1>1. ASSUME m_pPoll' = Rebuild(m_maps'), m_maps' \in Maps
      PROVE  ReventsFresh'
  BY <1>1, RebuildProperties DEF ReventsFresh
<1>2. ASSUME Active, UNCHANGED m_pPoll,
             \A k \in DOMAIN m_pPoll : Later(k)' /\ m_pPoll[k].revents => Later(k),
             \A f \in Fd : ready[f] # <<>> => ready'[f] # <<>>
      PROVE  ReventsFresh'
  BY <1>a, <1>b, <1>2 DEF ReventsFresh, Slot
<1>3. CASE ~Active'
  BY <1>3 DEF ReventsFresh
<1>4. CASE MgmtFinish \/ MgmtIgnore \/ MgmtDone \/ RunCommand
  <2>1. /\ UNCHANGED <<m_pPoll, ready, i>>
        /\ pc = "mgmt" \/ (pc = "serve" /\ pc' = "serve")
    BY <1>4 DEF MgmtFinish, MgmtIgnore, MgmtDone, RunCommand, Mgmt, kernel
  <2> QED BY <1>2, <2>1
<1>5. CASE NextSlot
  <2>1. /\ pc = "events" /\ pc' = pc /\ ~m_pPoll[i].revents /\ i' = i + 1
        /\ UNCHANGED <<m_pPoll, ready>>
    BY <1>5 DEF NextSlot, kernel
  <2>2. \A k \in DOMAIN m_pPoll : k >= i + 1 => k >= i
    BY <1>0, <1>b
  <2> QED BY <1>2, <2>1, <2>2
<1>6. CASE Outside \/ UNCHANGED vars
  <2>1. UNCHANGED <<pc, i, m_pPoll>>
    BY <1>6 DEF Outside, OpenFile, CloseFile, DeleteFile, MoveIn, MoveOut, DestroyBase, TableEvent,
                quiet, vars
  <2>2. \A f \in Fd : ready[f] # <<>> => ready'[f] # <<>>
    <3>1. CASE \E n \in Name, kind \in Kind \ {"stale"} : TableEvent(n, kind)
      <4>1. PICK n \in Name, kind \in Kind : ready' = [ready EXCEPT ![g_ut[n].fd] = Append(@, kind)]
        BY <3>1 DEF TableEvent
      <4>2. \A s \in Seq(Kind) : Append(s, kind) # <<>>
        BY AppendProperties, EmptySeq
      <4> QED BY <1>0, <4>1, <4>2
    <3>2. CASE ready' = ready
      BY <3>2
    <3> QED BY <1>6, <3>1, <3>2 DEF Outside, OpenFile, CloseFile, DeleteFile, MoveIn, MoveOut,
                                    DestroyBase, vars
  <2> QED BY <1>2, <1>3, <2>1, <2>2
<1>7. CASE Poll
  <2>1. /\ m_pPoll' = [k \in DOMAIN m_pPoll |->
                          [m_pPoll[k] EXCEPT !.revents = ready[m_pPoll[k].fd] # <<>>]]
        /\ ready' = ready
    BY <1>7 DEF Poll
  <2>2. \A k \in DOMAIN m_pPoll : /\ m_pPoll'[k].fd = m_pPoll[k].fd
                                  /\ m_pPoll'[k].revents = (ready[m_pPoll[k].fd] # <<>>)
    BY <1>b, <2>1 DEF Slot
  <2>3. DOMAIN m_pPoll' = DOMAIN m_pPoll
    BY <2>1
  <2> QED BY <2>1, <2>2, <2>3 DEF ReventsFresh
<1>8. CASE Serve
  <2>1. /\ pc = "events" /\ pc' = "serve" /\ UNCHANGED <<m_pPoll, i>> /\ i <= Len(m_pPoll)
        /\ ready' = [ready EXCEPT ![m_pPoll[i].fd] = <<>>]
    BY <1>8 DEF Serve, Go
  <2>2. Ordered(m_maps, m_pPoll)
    BY <1>0, <2>1 DEF ArrayInv, Listening
  <2>3. i \in DOMAIN m_pPoll
    <3>1. DOMAIN m_pPoll = 1..Len(m_pPoll) /\ Len(m_pPoll) \in Nat
      BY <1>0, LenProperties
    <3>2. i >= 1
      BY <1>0, FdAssumption DEF TypeOK
    <3> QED BY <1>0, <2>1, <3>1, <3>2
  <2> SUFFICES ASSUME NEW k \in DOMAIN m_pPoll, k > i, m_pPoll[k].revents
               PROVE  ready'[m_pPoll[k].fd] # <<>>
    BY <2>1 DEF ReventsFresh
  <2>4. m_pPoll[k].fd # m_pPoll[i].fd
    <3>1. k # i
      BY <1>0, <1>b
    <3> QED BY <1>0, <2>2, <2>3, <3>1, OrderedComplete
  <2>5. ready[m_pPoll[k].fd] # <<>>
    <3>1. k >= i
      BY <1>0, <1>b
    <3> QED BY <1>a, <2>1, <3>1
  <2> QED BY <1>0, <1>b, <2>1, <2>4, <2>5 DEF Slot
<1>9. CASE Served
  <2>1. /\ pc = "serve" /\ pc' = "events" /\ i' = i + 1 /\ ready' = ready
        /\ m_pPoll' = [m_pPoll EXCEPT ![i].revents = FALSE]
    BY <1>9 DEF Served, Go, kernel
  <2>2. \A k \in DOMAIN m_pPoll : k >= i + 1 => k > i /\ k # i
    BY <1>0, <1>b
  <2>3. \A k \in DOMAIN m_pPoll : k # i => m_pPoll'[k] = m_pPoll[k]
    BY <1>0, <2>1
  <2>4. DOMAIN m_pPoll' = DOMAIN m_pPoll
    BY <1>0, <2>1
  <2> QED BY <1>a, <2>1, <2>2, <2>3, <2>4 DEF ReventsFresh
<1>10. CASE ReadDirDone \/ LoopTest \/ EventsDone
  BY <1>3, <1>10 DEF ReadDirDone, LoopTest, EventsDone, Go
<1>11. CASE Quietly
  BY <1>4, <1>5, <1>6, <1>7, <1>8, <1>9, <1>10, <1>11 DEF Quietly
<1>12. CASE \E n \in Name : Creates(n) \/ Disposes(n)
  BY <1>3, <1>12 DEF Creates, Disposes, NewTable, Go
<1>13. CASE LoadTable
  <2>1. CASE back = "dead"
    BY <1>3, <1>13, <2>1 DEF LoadTable, Go
  <2>2. CASE back # "dead"
    <3>1. cur \in Name
      BY <1>0, <1>13 DEF LoadTable, TablesInv, Listening
    <3>2. m_pPoll' = Rebuild(m_maps') /\ m_maps' \in Maps
      BY <1>0, <1>13, <3>1 DEF LoadTable, Register, Maps
    <3> QED BY <1>1, <3>2
  <2> QED BY <2>1, <2>2
<1>14. CASE MgmtDestroy
  <2>1. Changed \in Name /\ g_ut[Changed] # NULL /\ Unregister(Changed) /\ pc = "mgmt"
    BY <1>14 DEF MgmtDestroy, Mgmt
  <2>2. m_maps[g_ut[Changed].fd] = Changed /\ Changed # NULL
    BY <1>0, <2>1, NameAssumption DEF TablesInv, Listening
  <2>3. m_pPoll' = Rebuild(m_maps') /\ m_maps' \in Maps
    BY <1>0, <2>1, <2>2 DEF Unregister, Maps
  <2> QED BY <1>1, <2>3
<1>15. ASSUME NEW n \in Name, ReadDir(n)
       PROVE  ReventsFresh'
  BY <1>3, <1>15 DEF ReadDir, NewTable, NoDescriptor, Go
<1>16. CASE pc' \in {"dead", "end"}
  BY <1>3, <1>16
<1> QED BY <1>11, <1>12, <1>13, <1>14, <1>15, <1>16, NextShapes

-----------------------------------------------------------------------------
(* The types: the index stays within the array because there are no more   *)
(* tables than descriptors.                                                *)

LEMMA IndexBound ==
    ASSUME DispatchInv, pc \in {"events", "serve"}
    PROVE  /\ Len(m_pPoll) \in 0..MaxFd
           /\ pc = "serve" => i \in 1..MaxFd
           /\ i <= Len(m_pPoll) => i \in 1..MaxFd /\ i \in DOMAIN m_pPoll
<1>1. Ordered(m_maps, m_pPoll) /\ m_maps \in Maps
  BY DEF DispatchInv, ArrayInv, Listening, TypeOK, Maps
<1>2. Len(m_pPoll) \in 0..MaxFd
  BY <1>1, OrderedComplete
<1>3. DOMAIN m_pPoll = 1..Len(m_pPoll)
  BY <1>1, LenProperties DEF Ordered
<1>4. i \in 1..(MaxFd + 1)
  BY DEF DispatchInv, TypeOK
<1>5. ASSUME pc = "serve"
      PROVE  i \in 1..MaxFd
  <2>1. Open \in SUBSET Fd
    BY DEF DispatchInv, TypeOK, TableObj, Open
  <2>2. i = Rank(Open, g_ut[cur].fd) /\ g_ut[cur].fd \in Open
    BY <1>5 DEF DispatchInv, IndexInv, Serving, Open
  <2>3. i \in 1..Cardinality(Open) /\ Cardinality(Open) \in 0..MaxFd
    BY <2>1, <2>2, RankRange, FdFinite
  <2> QED BY <2>3, FdAssumption
<1> QED BY <1>2, <1>3, <1>4, <1>5, FdAssumption

LEMMA TypeStep ==
    ASSUME DispatchInv, [Next]_vars
    PROVE  TypeOK'
<1>0. TypeOK /\ TablesInv
  BY DEF DispatchInv
<1>a. /\ m_pPoll \in Seq(Slot) /\ m_maps \in Maps
      /\ g_ut \in [Name -> TableObj \cup {NULL}]
      /\ ready \in [Fd -> Seq(Kind)] /\ m_events \in Seq(MgmtEvent)
  BY <1>0 DEF TypeOK, Slot, Maps
(* What is enough, variable by variable.                                   *)
<1> DEFINE Where == {"readdir", "load", "test", "poll", "mgmt", "events", "serve", "free",
                     "end", "dead"}
           TWorld == /\ dir' \in [Name -> Content] /\ pending' \in Seq(MgmtEvent)
                     /\ env' \in 0..MaxEnv /\ ready' \in [Fd -> Seq(Kind)]
           TTables == /\ g_ut' \in [Name -> TableObj \cup {NULL}]
                      /\ m_maps' \in Maps /\ m_pPoll' \in Seq(Slot)
           TEvents == m_events' \in Seq(MgmtEvent) /\ tevents' \in Seq(Kind)
           TPlace == /\ pc' \in Where /\ i' \in 1..(MaxFd + 1)
                     /\ cur' \in Name \cup {NULL}
                     /\ back' \in {"readdir", "mgmt", "serve", "dead"}
                     /\ toread' \subseteq Name /\ g_fFinish' \in BOOLEAN
<1>b. ASSUME TWorld, TTables, TEvents, TPlace
      PROVE  TypeOK'
  BY <1>b DEF TypeOK, Slot, Maps
<1>c. UNCHANGED kernel => TWorld
  BY <1>0 DEF TypeOK, kernel
<1>d. UNCHANGED <<g_ut, m_maps, m_pPoll>> => TTables
  BY <1>a
<1>e. UNCHANGED <<m_events, tevents>> => TEvents
  BY <1>0 DEF TypeOK
<1>g. Mgmt => m_events' \in Seq(MgmtEvent) /\ pc = "mgmt" /\ tevents \in Seq(Kind)
  BY <1>0, HeadTailProperties DEF Mgmt, TypeOK
<1>h. TypeOK => /\ pc \in Where /\ i \in 1..(MaxFd + 1) /\ cur \in Name \cup {NULL}
                /\ back \in {"readdir", "mgmt", "serve", "dead"} /\ toread \subseteq Name
                /\ g_fFinish \in BOOLEAN /\ dir \in [Name -> Content]
                /\ pending \in Seq(MgmtEvent) /\ env \in 0..MaxEnv /\ tevents \in Seq(Kind)
  BY DEF TypeOK
<1>i. \A maps \in Maps : Rebuild(maps) \in Seq(Slot)
  BY RebuildProperties DEF Ordered
<1>j. \A n \in Name : g_ut[n] # NULL => g_ut[n] \in TableObj /\ g_ut[n].fd \in Fd
  BY <1>a DEF TableObj
<1> HIDE DEF Where
<1> HIDE DEF TWorld, TTables, TEvents, TPlace
(* The daemon's steps, one after the other.                                *)
<1>k. ASSUME NEW n \in Name, NewTable(n)
      PROVE  g_ut' \in [Name -> TableObj \cup {NULL}] /\ cur' = n /\ back' = pc /\ pc' = "load"
  <2> DEFINE f == CHOOSE f \in Fd \ Open : \A g \in Fd \ Open : f <= g
  <2>1. f \in Fd
    <3>1. Open \subseteq Fd /\ Open # Fd
      BY <1>j, <1>k DEF NewTable, Open
    <3>2. Fd \ Open # {} /\ Fd \ Open \in SUBSET Fd
      BY <3>1
    <3> QED BY <3>2, LowestExists
  <2>2. g_ut' = [g_ut EXCEPT ![n] = [fd |-> f, tab |-> NULL]]
    BY <1>k DEF NewTable
  <2> HIDE DEF f
  <2>3. [fd |-> f, tab |-> NULL] \in TableObj
    BY <2>1 DEF TableObj, Content
  <2> QED BY <1>a, <1>k, <2>2, <2>3 DEF NewTable, Go
<1>1. ASSUME NEW n \in Name, ReadDir(n)
      PROVE  TypeOK'
  <2>1. TWorld /\ TEvents /\ pc = "readdir"
    BY <1>1, <1>c, <1>e DEF ReadDir
  <2>2. /\ UNCHANGED <<m_maps, m_pPoll, i, g_fFinish>> /\ toread' = toread \ {n}
        /\ NewTable(n) \/ NoDescriptor \/ UNCHANGED <<g_ut, cur, back, pc>>
    BY <1>1 DEF ReadDir
  <2>3. TTables
    BY <1>a, <1>k, <2>2 DEF TTables, NoDescriptor
  <2>4. TPlace
    BY <1>0, <1>h, <1>k, <2>1, <2>2 DEF TPlace, NoDescriptor, Go, Where
  <2> QED BY <1>b, <2>1, <2>3, <2>4
<1>2. CASE ReadDirDone
  <2>1. TWorld /\ TEvents
    BY <1>2, <1>c, <1>e DEF ReadDirDone
  <2>2. TTables
    BY <1>2, <1>a, <1>i DEF ReadDirDone, TTables
  <2>3. TPlace
    BY <1>2, <1>0, <1>h DEF ReadDirDone, Go, TPlace, Where
  <2> QED BY <1>b, <2>1, <2>2, <2>3
<1>3. CASE LoadTable
  <2>1. cur \in Name /\ g_ut[cur] # NULL
    BY <1>3, <1>0 DEF LoadTable, TablesInv, Listening
  <2>2. TWorld /\ TEvents
    BY <1>3, <1>c, <1>e DEF LoadTable
  <2>3. g_ut' \in [Name -> TableObj \cup {NULL}]
    <3>1. [g_ut[cur] EXCEPT !.tab = dir[cur]] \in TableObj
      BY <1>0, <1>h, <1>j, <2>1 DEF TableObj
    <3> QED BY <1>3, <1>a, <2>1, <3>1 DEF LoadTable
  <2>4. m_maps' \in Maps
    BY <1>3, <1>a, <2>1 DEF LoadTable, Register, Maps
  <2>5. m_pPoll' \in Seq(Slot)
    BY <1>3, <1>i, <2>4 DEF LoadTable, Register
  <2>6. TPlace
    BY <1>3, <1>0, <1>h DEF LoadTable, Go, TPlace, Where
  <2> QED BY <1>b, <2>2, <2>3, <2>4, <2>5, <2>6 DEF TTables
<1>4. CASE LoopTest \/ EventsDone
  <2>1. TWorld /\ TEvents /\ TTables
    BY <1>4, <1>c, <1>d, <1>e DEF LoopTest, EventsDone
  <2>2. TPlace
    BY <1>4, <1>0, <1>h DEF LoopTest, EventsDone, Go, TPlace, Where
  <2> QED BY <1>b, <2>1, <2>2
<1>5. CASE Poll
  <2>1. TWorld
    BY <1>5, <1>0, <1>a, <1>h DEF Poll, TWorld
  <2>2. TEvents
    BY <1>5, <1>0, <1>h DEF Poll, TEvents
  <2>3. m_pPoll' \in Seq(Slot)
    <3>1. ArrayInv'
      BY ArrayStep
    <3>2. Listening'
      BY <1>5 DEF Poll, Go, Listening
    <3> QED BY <3>1, <3>2 DEF ArrayInv, Ordered
  <2>4. TTables
    BY <1>5, <1>a, <2>3 DEF Poll, TTables
  <2>5. TPlace
    BY <1>5, <1>0, <1>h, FdAssumption DEF Poll, Go, TPlace, Where
  <2> QED BY <1>b, <2>1, <2>2, <2>4, <2>5
<1>6. CASE MgmtFinish \/ MgmtIgnore
  <2>1. TWorld /\ TTables
    BY <1>6, <1>c, <1>d DEF MgmtFinish, MgmtIgnore
  <2>2. TEvents
    BY <1>6, <1>g DEF MgmtFinish, MgmtIgnore, TEvents
  <2>3. TPlace
    BY <1>6, <1>0, <1>h DEF MgmtFinish, MgmtIgnore, TPlace
  <2> QED BY <1>b, <2>1, <2>2, <2>3
<1>l. ASSUME NEW n \in Name, g_ut[n] # NULL, Unregister(n)
      PROVE  m_maps' \in Maps /\ m_pPoll' \in Seq(Slot)
  <2>1. m_maps' \in Maps
    BY <1>a, <1>j, <1>l DEF Unregister, Maps
  <2> QED BY <1>a, <1>i, <1>l, <2>1 DEF Unregister
<1>m. ASSUME NEW n \in Name, g_ut[n] # NULL, NEW s \in Seq(Kind),
             ready' = [ready EXCEPT ![g_ut[n].fd] = s]
      PROVE  ready' \in [Fd -> Seq(Kind)]
  BY <1>a, <1>j, <1>m
<1>n. <<"stale">> \in Seq(Kind) /\ <<>> \in Seq(Kind)
  BY DEF Kind
<1>7. CASE MgmtReload
  <2>1. Changed \in Name /\ g_ut[Changed] # NULL /\ Dispose(Changed) /\ Mgmt /\ cur' = Changed
        /\ back' = pc /\ pc' = "load" /\ UNCHANGED <<dir, pending, env, g_ut, tevents, i, toread, g_fFinish>>
    BY <1>7 DEF MgmtReload, Go
  <2>2. TWorld
    BY <1>0, <1>h, <1>m, <1>n, <2>1 DEF Dispose, TWorld
  <2>3. TTables
    BY <1>a, <1>l, <2>1 DEF Dispose, TTables
  <2>4. TEvents
    BY <1>g, <2>1 DEF TEvents
  <2>5. TPlace
    BY <1>0, <1>g, <1>h, <2>1 DEF TPlace, Where
  <2> QED BY <1>b, <2>2, <2>3, <2>4, <2>5
<1>8. CASE MgmtDestroy
  <2>1. /\ Changed \in Name /\ g_ut[Changed] # NULL /\ Unregister(Changed) /\ Mgmt
        /\ ready' = [ready EXCEPT ![g_ut[Changed].fd] = <<>>]
        /\ g_ut' = [g_ut EXCEPT ![Changed] = NULL]
        /\ UNCHANGED <<dir, pending, env, tevents, pc, i, cur, back, toread, g_fFinish>>
    BY <1>8 DEF MgmtDestroy
  <2>2. TWorld
    BY <1>0, <1>h, <1>m, <1>n, <2>1 DEF TWorld
  <2>3. TTables
    <3>1. g_ut' \in [Name -> TableObj \cup {NULL}]
      BY <1>a, <2>1
    <3> QED BY <1>l, <2>1, <3>1 DEF TTables
  <2>4. TEvents
    BY <1>g, <2>1 DEF TEvents
  <2>5. TPlace
    BY <1>0, <1>h, <2>1 DEF TPlace
  <2> QED BY <1>b, <2>2, <2>3, <2>4, <2>5
<1>9. CASE MgmtCreate
  <2>1. /\ Changed \in Name /\ Mgmt /\ (NewTable(Changed) \/ NoDescriptor)
        /\ UNCHANGED <<kernel, m_maps, m_pPoll, tevents, i, toread, g_fFinish>>
    BY <1>9 DEF MgmtCreate
  <2>2. TWorld /\ TEvents
    BY <1>c, <1>g, <2>1 DEF TEvents
  <2>3. TTables
    BY <1>a, <1>k, <2>1 DEF TTables, NoDescriptor
  <2>4. TPlace
    BY <1>0, <1>g, <1>h, <1>k, <2>1 DEF TPlace, NoDescriptor, Go, Where
  <2> QED BY <1>b, <2>2, <2>3, <2>4
<1>10. CASE MgmtDone
  <2>1. TWorld /\ TEvents /\ TTables
    BY <1>10, <1>c, <1>d, <1>e DEF MgmtDone
  <2>2. TPlace
    BY <1>10, <1>0, <1>h DEF MgmtDone, Go, TPlace, Where
  <2> QED BY <1>b, <2>1, <2>2
<1>11. CASE NextSlot
  <2>1. TWorld /\ TEvents /\ TTables
    BY <1>11, <1>c, <1>d, <1>e DEF NextSlot
  <2>2. i \in 1..MaxFd
    BY <1>11, IndexBound DEF NextSlot
  <2>3. i' \in 1..(MaxFd + 1)
    BY <1>11, <2>2, FdAssumption DEF NextSlot
  <2>4. TPlace
    BY <1>11, <1>0, <1>h, <2>3 DEF NextSlot, TPlace
  <2> QED BY <1>b, <2>1, <2>4
<1>12. CASE Serve
  <2> DEFINE f == m_pPoll[i].fd
  <2>1. /\ pc = "events" /\ i <= Len(m_pPoll) /\ m_pPoll[i].revents
        /\ tevents' = (IF Head(ready[f]) = "stale" THEN Tail(ready[f]) ELSE ready[f])
        /\ ready' = [ready EXCEPT ![f] = <<>>] /\ cur' = m_maps[f] /\ pc' = "serve"
        /\ UNCHANGED <<dir, pending, env, m_events, g_ut, m_maps, m_pPoll, i, back,
                       toread, g_fFinish>>
    BY <1>12 DEF Serve, Go
  <2>2. i \in DOMAIN m_pPoll
    BY <2>1, IndexBound
  <2>3. f \in Fd
    <3>1. m_pPoll[i] \in Slot
      BY <1>a, <2>2
    <3> QED BY <3>1 DEF Slot
  <2>4. ready[f] # <<>>
    <3>1. i >= i
      BY <1>0, <1>h
    <3> QED BY <2>1, <2>2, <3>1 DEF DispatchInv, ReventsFresh
  <2>5. tevents' \in Seq(Kind)
    BY <1>a, <2>1, <2>3, <2>4, HeadTailProperties
  <2>6. TWorld
    BY <1>0, <1>a, <1>h, <1>n, <2>1, <2>3 DEF TWorld
  <2>7. TTables
    BY <1>d, <2>1
  <2>8. TEvents
    BY <1>a, <2>1, <2>5 DEF TEvents
  <2>9. TPlace
    BY <1>0, <1>a, <1>h, <2>1, <2>3 DEF TPlace, Where, Maps
  <2> QED BY <1>b, <2>6, <2>7, <2>8, <2>9
<1>13. CASE RunCommand
  <2>1. TWorld /\ TTables
    BY <1>13, <1>c, <1>d DEF RunCommand
  <2>2. TEvents
    BY <1>13, <1>0, <1>a, <1>h, HeadTailProperties DEF RunCommand, TEvents
  <2>3. TPlace
    BY <1>13, <1>0, <1>h DEF RunCommand, TPlace
  <2> QED BY <1>b, <2>1, <2>2, <2>3
<1>14. CASE ReloadTable
  <2>1. cur \in Name /\ g_ut[cur] # NULL
    BY <1>14 DEF ReloadTable, DispatchInv, IndexInv, Serving
  <2>2. /\ Dispose(cur) /\ back' \in {"serve", "dead"} /\ pc' = "load"
        /\ tevents # <<>> /\ tevents' = Tail(tevents)
        /\ UNCHANGED <<dir, pending, env, m_events, g_ut, i, cur, toread, g_fFinish>>
    BY <1>14 DEF ReloadTable, Go
  <2>3. TWorld
    BY <1>0, <1>h, <1>m, <1>n, <2>1, <2>2 DEF Dispose, TWorld
  <2>4. TTables
    BY <1>a, <1>l, <2>1, <2>2 DEF Dispose, TTables
  <2>5. TEvents
    BY <1>0, <1>a, <1>h, <2>2, HeadTailProperties DEF TEvents
  <2>6. TPlace
    BY <1>0, <1>h, <2>2 DEF TPlace, Where
  <2> QED BY <1>b, <2>3, <2>4, <2>5, <2>6
<1>15. CASE Served
  <2>1. TWorld /\ TEvents
    BY <1>15, <1>c, <1>e DEF Served
  <2>2. m_pPoll' \in Seq(Slot)
    <3>1. ArrayInv'
      BY ArrayStep
    <3>2. Listening'
      BY <1>15 DEF Served, Go, Listening
    <3> QED BY <3>1, <3>2 DEF ArrayInv, Ordered
  <2>3. TTables
    BY <1>15, <1>a, <2>2 DEF Served, TTables
  <2>4. i \in 1..MaxFd
    BY <1>15, IndexBound DEF Served
  <2>5. i' \in 1..(MaxFd + 1)
    BY <1>15, <2>4, FdAssumption DEF Served
  <2>6. TPlace
    BY <1>15, <1>0, <1>h, <2>5 DEF Served, Go, TPlace, Where
  <2> QED BY <1>b, <2>1, <2>3, <2>6
<1>16. CASE FreeTables
  <2>1. TWorld
    BY <1>16, <1>0, <1>h, <1>n DEF FreeTables, TWorld
  <2>2. TTables
    BY <1>16, <1>a DEF FreeTables, TTables, Maps
  <2>3. TEvents
    BY <1>16, <1>e DEF FreeTables
  <2>4. TPlace
    BY <1>16, <1>0, <1>h DEF FreeTables, Go, TPlace, Where
  <2> QED BY <1>b, <2>1, <2>2, <2>3, <2>4
(* Other processes.                                                        *)
<1>o. UNCHANGED quiet => TTables /\ TEvents /\ TPlace
  <2> SUFFICES ASSUME UNCHANGED quiet
               PROVE  TTables /\ TEvents /\ TPlace
    OBVIOUS
  <2>1. UNCHANGED <<m_events, g_ut, m_maps, m_pPoll, tevents, pc, i, cur, back, toread, g_fFinish>>
    BY DEF quiet
  <2> QED BY <1>0, <1>d, <1>e, <1>h, <2>1 DEF TPlace
<1>p. ASSUME NEW n \in Name, NEW type \in Change, Tell(n, type)
      PROVE  pending' \in Seq(MgmtEvent)
  <2>1. [name |-> n, type |-> type] \in MgmtEvent
    BY DEF MgmtEvent
  <2> QED BY <1>0, <1>h, <1>p, <2>1, AppendProperties DEF Tell
<1>q. Environment => env' \in 0..MaxEnv
  BY <1>0, <1>h, FdAssumption DEF Environment
<1>17. ASSUME NEW n \in Name, OpenFile(n) \/ CloseFile(n) \/ DeleteFile(n) \/ MoveIn(n) \/ MoveOut(n)
       PROVE  TypeOK'
  <2>1. Environment /\ UNCHANGED quiet /\ ready' = ready
    BY <1>17 DEF OpenFile, CloseFile, DeleteFile, MoveIn, MoveOut
  <2>2. (\E type \in Change : Tell(n, type)) \/ UNCHANGED pending
    BY <1>17 DEF OpenFile, CloseFile, DeleteFile, MoveIn, MoveOut, Change
  <2>3. \E c \in {env', Partial, NULL} : dir' = [dir EXCEPT ![n] = c]
    BY <1>17 DEF OpenFile, CloseFile, DeleteFile, MoveIn, MoveOut
  <2>4. {env', Partial, NULL} \subseteq Content
    BY <1>q, <2>1 DEF Content, Version
  <2>5. dir' \in [Name -> Content]
    BY <1>0, <1>h, <2>3, <2>4
  <2>6. TWorld
    BY <1>0, <1>a, <1>h, <1>p, <1>q, <2>1, <2>2, <2>5 DEF TWorld
  <2> QED BY <1>b, <1>o, <2>1, <2>6
<1>18. CASE DestroyBase
  <2>1. [name |-> NULL, type |-> "IN_DELETE_SELF"] \in MgmtEvent
    BY DEF MgmtEvent
  <2>2. pending' \in Seq(MgmtEvent)
    BY <1>0, <1>18, <1>h, <2>1, AppendProperties DEF DestroyBase, Tell
  <2>3. TWorld
    BY <1>0, <1>18, <1>a, <1>h, <2>2, FdAssumption DEF DestroyBase, TWorld
  <2> QED BY <1>18, <1>b, <1>o, <2>3 DEF DestroyBase
<1>19. ASSUME NEW n \in Name, NEW kind \in Kind, TableEvent(n, kind)
       PROVE  TypeOK'
  <2>1. /\ Environment /\ g_ut[n] # NULL /\ UNCHANGED <<dir, pending, quiet>>
        /\ ready' = [ready EXCEPT ![g_ut[n].fd] = Append(ready[g_ut[n].fd], kind)]
    BY <1>19 DEF TableEvent
  <2>2. Append(ready[g_ut[n].fd], kind) \in Seq(Kind)
    BY <1>a, <1>j, <2>1, AppendProperties
  <2>3. ready' \in [Fd -> Seq(Kind)]
    BY <1>m, <2>1, <2>2
  <2>4. TWorld
    BY <1>0, <1>h, <1>q, <2>1, <2>3 DEF TWorld
  <2> QED BY <1>b, <1>o, <2>1, <2>4
<1>20. CASE UNCHANGED vars
  <2>1. UNCHANGED quiet /\ UNCHANGED <<dir, pending, ready, env>>
    BY <1>20 DEF vars, quiet
  <2>2. TWorld
    BY <1>0, <1>a, <1>h, <2>1 DEF TWorld
  <2> QED BY <1>b, <1>o, <2>1, <2>2
<1> QED BY <1>1, <1>2, <1>3, <1>4, <1>5, <1>6, <1>7, <1>8, <1>9, <1>10, <1>11, <1>12, <1>13,
           <1>14, <1>15, <1>16, <1>17, <1>18, <1>19, <1>20
        DEF Next, Daemon, MgmtNext, ServeNext, Outside

-----------------------------------------------------------------------------
(* Results.                                                                *)

LEMMA Invariance == Spec => []DispatchInv
<1>1. Init => DispatchInv
  BY InvInit
<1>2. DispatchInv /\ [Next]_vars => DispatchInv'
  BY TypeStep, TablesStep, ArrayStep, IndexStep, ReadStep, ReventsStep DEF DispatchInv
<1> QED BY <1>1, <1>2, PTL DEF Spec

(* No reload, loss or creation of tables, in any order, takes the loop of  *)
(* ProcessEvents out of its array or leaves a descriptor that is none.     *)
THEOREM TypeCorrect == Spec => []TypeOK
<1>1. DispatchInv => TypeOK
  BY DEF DispatchInv
<1> QED BY <1>1, Invariance, PTL

(* Every table that exists is listened to, nothing else is, and an event   *)
(* on a descriptor reaches the table that has it now (EventDispatcher,     *)
(* g_ut).                                                                  *)
THEOREM PollSetCorrect == Spec => []PollSetExact
<1>1. DispatchInv => PollSetExact
  <2> SUFFICES ASSUME DispatchInv, pc \in {"test", "poll", "mgmt", "events", "serve"}
               PROVE  /\ \A n \in Name : g_ut[n] # NULL => m_maps[g_ut[n].fd] = n
                      /\ Keys(m_maps) = Open
                      /\ {m_pPoll[k].fd : k \in DOMAIN m_pPoll} = Open
                      /\ Len(m_pPoll) = Cardinality(Open)
    BY DEF PollSetExact
  <2>1. TypeOK /\ TablesInv /\ Ordered(m_maps, m_pPoll) /\ m_maps \in Maps /\ Listening
    BY DEF DispatchInv, ArrayInv, Listening, TypeOK, Maps
  <2>2. Keys(m_maps) = Open
    BY <2>1, KeysOpen
  <2>3. \A n \in Name : g_ut[n] # NULL => m_maps[g_ut[n].fd] = n
    BY <2>1 DEF TablesInv
  <2>4. Len(m_pPoll) = Cardinality(Open)
    BY <2>1, <2>2, OrderedComplete
  <2>5. {m_pPoll[k].fd : k \in DOMAIN m_pPoll} \subseteq Open
    BY <2>1, <2>2 DEF Ordered
  <2>6. \A f \in Open : \E k \in DOMAIN m_pPoll : m_pPoll[k].fd = f
    BY <2>1, <2>2, OrderedComplete
  <2> QED BY <2>2, <2>3, <2>4, <2>5, <2>6
<1> QED BY <1>1, Invariance, PTL

(* What a slot still to be looked at reports is true of the descriptor in  *)
(* it (Rebuild, ProcessEvents).                                            *)
THEOREM ReventsCorrect == Spec => []ReventsFresh
<1>1. DispatchInv => ReventsFresh
  BY DEF DispatchInv
<1> QED BY <1>1, Invariance, PTL

(* The loop index points to the table being served, though the array was   *)
(* rebuilt twice by a reload (ProcessEvents, Dispose, Load).               *)
THEOREM IndexCorrect == Spec => []SlotServed
<1>1. DispatchInv => SlotServed
  <2> SUFFICES ASSUME DispatchInv, pc = "serve"
               PROVE  i \in DOMAIN m_pPoll /\ m_maps[m_pPoll[i].fd] = cur /\ g_ut[cur] # NULL
    BY DEF SlotServed
  <2>1. /\ TypeOK /\ TablesInv /\ Ordered(m_maps, m_pPoll) /\ m_maps \in Maps /\ Listening
        /\ cur \in Name /\ g_ut[cur] # NULL /\ i = Rank(Open, g_ut[cur].fd)
    BY DEF DispatchInv, ArrayInv, IndexInv, Serving, Listening, TypeOK, Maps
  <2>2. Keys(m_maps) = Open /\ g_ut[cur].fd \in Open
    BY <2>1, KeysOpen DEF Open
  <2>3. i \in DOMAIN m_pPoll /\ m_pPoll[i].fd = g_ut[cur].fd
    BY <2>1, <2>2, OrderedComplete
  <2>4. m_maps[g_ut[cur].fd] = cur
    BY <2>1 DEF TablesInv
  <2> QED BY <2>1, <2>3, <2>4
<1> QED BY <1>1, Invariance, PTL

-----------------------------------------------------------------------------
(* Tables follow the files.  What counts is the last event about a file    *)
(* that says it came or went: there is one that is still to be handled and *)
(* tells what is true of the file now, or the table agrees with the file   *)
(* or is about to be loaded.                                               *)

Come == {"IN_CLOSE_WRITE", "IN_MOVED_TO"}
Gone == {"IN_MOVED_FROM", "IN_DELETE"}
News(e, n) == e.name = n /\ e.type \in Come \cup Gone
Silent(s, n) == \A k \in DOMAIN s : ~News(s[k], n)
LastIs(s, n, T) ==
    \E k \in DOMAIN s : /\ s[k].name = n /\ s[k].type \in T
                        /\ \A l \in DOMAIN s : l > k => ~News(s[l], n)

(* The same of both queues, the kernel's behind the one being handled.     *)
NoNews(n) == Silent(m_events, n) /\ Silent(pending, n)
Says(n, T) == LastIs(pending, n, T) \/ (Silent(pending, n) /\ LastIs(m_events, n, T))

Follow(n) ==
    /\ ~Noticed(n) => g_ut[n] = NULL
    /\ dir[n] = NULL => Says(n, Gone) \/ (NoNews(n) /\ g_ut[n] = NULL)
    /\ dir[n] \notin {NULL, Partial} /\ Noticed(n) /\ n \notin Backup =>
            \/ Says(n, Come)
            \/ /\ NoNews(n)
               /\ \/ n \in toread /\ dir[n] = 0
                  \/ pc = "load" /\ cur = n
                  \/ g_ut[n] # NULL /\ g_ut[n].tab = dir[n]
FollowInv == Listening => \A n \in Name : Follow(n)

(* Directories are read before the loop, events kept only while they are   *)
(* handled.                                                                *)
PhaseInv ==
    Listening => /\ ~Reading => toread = {}
                 /\ pc # "mgmt" /\ ~(pc = "load" /\ back = "mgmt") => m_events = <<>>

(* An event that is appended says what it says of its file and nothing of  *)
(* the others.                                                             *)
LEMMA AppendNews ==
    ASSUME TypeOK, NEW e \in MgmtEvent, pending' = Append(pending, e), m_events' = m_events
    PROVE  /\ \A T \in {Come, Gone} : e.type \in T => Says(e.name, T)'
           /\ \A n : ~News(e, n) =>
                /\ NoNews(n) => NoNews(n)'
                /\ \A T \in {Come, Gone} : Says(n, T) => Says(n, T)'
<1> DEFINE m == Len(pending)
<1>1. pending \in Seq(MgmtEvent)
  BY DEF TypeOK
<1>2. /\ m \in Nat /\ DOMAIN pending = 1..m /\ DOMAIN pending' = 1..m+1
      /\ \A k \in 1..m : pending'[k] = pending[k]
      /\ pending'[m+1] = e
  BY <1>1, AppendProperties, LenProperties
<1> HIDE DEF m
<1>3. ASSUME NEW T \in {Come, Gone}, e.type \in T
      PROVE  Says(e.name, T)'
  <2>1. LastIs(pending', e.name, T)
    BY <1>2, <1>3 DEF LastIs
  <2> QED BY <2>1 DEF Says
<1>4. ASSUME NEW n, ~News(e, n)
      PROVE  /\ Silent(pending, n) => Silent(pending', n)
             /\ \A T \in {Come, Gone} : LastIs(pending, n, T) => LastIs(pending', n, T)
  <2>1. ASSUME Silent(pending, n)
        PROVE  Silent(pending', n)
    BY <1>2, <1>4, <2>1 DEF Silent
  <2>2. ASSUME NEW T \in {Come, Gone}, LastIs(pending, n, T)
        PROVE  LastIs(pending', n, T)
    BY <1>2, <1>4, <2>2 DEF LastIs
  <2> QED BY <2>1, <2>2
<1> QED BY <1>3, <1>4 DEF NoNews, Says

(* An event that is taken was the last about its file, or the last one is  *)
(* still there.                                                            *)
LEMMA TakeNews ==
    ASSUME TypeOK, m_events # <<>>, m_events' = Tail(m_events), pending' = pending, NEW n
    PROVE  /\ NoNews(n) => NoNews(n)' /\ ~News(Head(m_events), n)
           /\ \A T \in {Come, Gone} : Says(n, T) =>
                \/ Says(n, T)'
                \/ NoNews(n)' /\ Head(m_events).name = n /\ Head(m_events).type \in T
<1> DEFINE m == Len(m_events)
<1>1. m_events \in Seq(MgmtEvent)
  BY DEF TypeOK
<1>2. /\ m \in Nat \ {0} /\ DOMAIN m_events = 1..m /\ DOMAIN m_events' = 1..m-1
      /\ \A k \in 1..m-1 : m_events'[k] = m_events[k+1]
      /\ Head(m_events) = m_events[1]
  <2>1. m \in Nat /\ m # 0 /\ DOMAIN m_events = 1..m
    BY <1>1, EmptySeq, LenProperties
  <2>2. /\ m_events' \in Seq(MgmtEvent) /\ Len(m_events') = m - 1
        /\ \A k \in 1..Len(m_events') : m_events'[k] = m_events[k+1]
    BY <1>1, HeadTailProperties
  <2>3. DOMAIN m_events' = 1..Len(m_events')
    BY <2>2, LenProperties
  <2>4. Head(m_events) = m_events[1]
    BY <1>1
  <2> QED BY <2>1, <2>2, <2>3, <2>4
<1> HIDE DEF m
<1>3. Silent(m_events, n) => Silent(m_events', n) /\ ~News(Head(m_events), n)
  BY <1>2 DEF Silent
<1>4. ASSUME NEW T \in {Come, Gone}, LastIs(m_events, n, T)
      PROVE  \/ LastIs(m_events', n, T)
             \/ /\ Silent(m_events', n)
                /\ Head(m_events).name = n /\ Head(m_events).type \in T
  <2>1. PICK k \in 1..m : /\ m_events[k].name = n /\ m_events[k].type \in T
                          /\ \A l \in 1..m : l > k => ~News(m_events[l], n)
    BY <1>2, <1>4 DEF LastIs
  <2>2. CASE k = 1
    <3>1. Silent(m_events', n)
      <4> SUFFICES ASSUME NEW j \in 1..m-1 PROVE ~News(m_events'[j], n)
        BY <1>2 DEF Silent
      <4>1. j + 1 \in 1..m /\ j + 1 > 1 /\ m_events'[j] = m_events[j+1]
        BY <1>2
      <4> QED BY <2>1, <2>2, <4>1
    <3> QED BY <1>2, <2>1, <2>2, <3>1
  <2>3. CASE k # 1
    <3>1. k - 1 \in 1..m-1 /\ m_events'[k-1] = m_events[k]
      BY <1>2, <2>3
    <3>2. ASSUME NEW l \in 1..m-1, l > k - 1
          PROVE  ~News(m_events'[l], n)
      <4>1. l + 1 \in 1..m /\ l + 1 > k /\ m_events'[l] = m_events[l+1]
        BY <1>2, <3>2
      <4> QED BY <2>1, <4>1
    <3> QED BY <1>2, <2>1, <3>1, <3>2 DEF LastIs
  <2> QED BY <2>2, <2>3
<1> QED BY <1>3, <1>4 DEF NoNews, Says

(* Reading the queue forgets nothing.                                      *)
LEMMA ReadNews ==
    ASSUME m_events = <<>>, m_events' = pending, pending' = <<>>, NEW n
    PROVE  /\ NoNews(n) => NoNews(n)'
           /\ \A T \in {Come, Gone} : Says(n, T) => Says(n, T)'
<1>1. Silent(<<>>, n) /\ \A T : ~LastIs(<<>>, n, T)
  BY DEF Silent, LastIs
<1> QED BY <1>1 DEF NoNews, Says

LEMMA PhaseStep ==
    ASSUME DispatchInv, PhaseInv, [Next]_vars
    PROVE  PhaseInv'
<1>0. TypeOK
  BY DEF DispatchInv
<1> USE DEF PhaseInv, Listening, Reading
<1>1. ASSUME NEW n \in Name, ReadDir(n)
      PROVE  PhaseInv'
  <2>1. pc = "readdir" /\ m_events' = <<>>
    BY <1>1 DEF ReadDir
  <2>2. pc' = "readdir" \/ (pc' = "load" /\ back' = "readdir") \/ pc' = "dead"
    BY <1>1, <2>1 DEF ReadDir, NewTable, NoDescriptor, Go
  <2> QED BY <2>1, <2>2
<1>2. CASE ReadDirDone
  BY <1>2 DEF ReadDirDone, Go
<1>3. CASE LoadTable
  BY <1>0, <1>3 DEF LoadTable, Go, TypeOK
<1>4. CASE LoopTest \/ Poll \/ MgmtFinish \/ MgmtIgnore \/ MgmtDone \/ MgmtDestroy
  BY <1>4 DEF LoopTest, Poll, MgmtFinish, MgmtIgnore, MgmtDone, MgmtDestroy, Mgmt, Go
<1>5. CASE MgmtReload
  BY <1>5 DEF MgmtReload, Mgmt, Go
<1>6. CASE MgmtCreate
  BY <1>6 DEF MgmtCreate, Mgmt, NewTable, NoDescriptor, Go
<1>7. CASE NextSlot \/ Serve \/ RunCommand \/ Served \/ EventsDone
  BY <1>7 DEF NextSlot, Serve, RunCommand, Served, EventsDone, Go
<1>8. CASE ReloadTable
  BY <1>8 DEF ReloadTable, Go
<1>9. CASE FreeTables
  BY <1>9 DEF FreeTables, Go
<1>10. CASE Outside \/ UNCHANGED vars
  <2>1. UNCHANGED <<pc, back, toread, m_events>>
    BY <1>10 DEF Outside, OpenFile, CloseFile, DeleteFile, MoveIn, MoveOut, DestroyBase,
                 TableEvent, quiet, vars
  <2> QED BY <2>1
<1> QED BY <1>1, <1>2, <1>3, <1>4, <1>5, <1>6, <1>7, <1>8, <1>9, <1>10
        DEF Next, Daemon, MgmtNext, ServeNext

(* Another process changes a file and an event tells of it.                *)
LEMMA FollowOutside ==
    ASSUME TypeOK, FollowInv, Listening, Outside
    PROVE  \A n \in Name : Follow(n)'
<1> USE NullAssumption
<1>0. /\ \A n \in Name : Follow(n) /\ dir \in [Name -> Content]
      /\ UNCHANGED <<g_ut, pc, cur, toread, m_events>>
  BY DEF FollowInv, TypeOK, Outside, OpenFile, CloseFile, DeleteFile, MoveIn, MoveOut,
         DestroyBase, TableEvent, quiet
(* Files about which nothing is said.                                      *)
<1>1. ASSUME NEW n \in Name, dir'[n] = dir[n], NoNews(n) => NoNews(n)',
             \A T \in {Come, Gone} : Says(n, T) => Says(n, T)'
      PROVE  Follow(n)'
  BY <1>0, <1>1 DEF Follow, Noticed
<1>2. ASSUME NEW e \in MgmtEvent, pending' = Append(pending, e)
      PROVE  /\ \A T \in {Come, Gone} : e.type \in T => Says(e.name, T)'
             /\ \A n \in Name : ~News(e, n) /\ dir'[n] = dir[n] => Follow(n)'
  BY <1>0, <1>1, <1>2, AppendNews
<1>3. \A n \in Name, t \in Change : [name |-> n, type |-> t] \in MgmtEvent
  BY DEF MgmtEvent
(* A file that comes or goes.                                              *)
<1>4. ASSUME NEW n \in Name, NEW x, NEW t \in Come \cup Gone, dir' = [dir EXCEPT ![n] = x],
             Tell(n, t), t \in Come => x # NULL, t \in Gone => x = NULL
      PROVE  \A k \in Name : Follow(k)'
  <2> DEFINE e == [name |-> n, type |-> t]
  <2>1. e \in MgmtEvent /\ pending' = Append(pending, e) /\ e.name = n /\ e.type = t
    BY <1>3, <1>4 DEF Tell, Come, Gone, Change
  <2>2. dir'[n] = x /\ \A k \in Name \ {n} : dir'[k] = dir[k]
    BY <1>0, <1>4
  <2> HIDE DEF e
  <2>3. \A k \in Name \ {n} : Follow(k)'
    BY <1>2, <2>1, <2>2 DEF News
  <2>4. \A T \in {Come, Gone} : t \in T => Says(n, T)'
    BY <1>2, <2>1
  <2>5. Follow(n)'
    BY <1>0, <1>4, <2>2, <2>4 DEF Follow, Noticed
  <2> QED BY <2>3, <2>5
<1>5. ASSUME NEW n \in Name, OpenFile(n)
      PROVE  \A k \in Name : Follow(k)'
  <2> DEFINE e == [name |-> n, type |-> "IN_CREATE"]
  <2>1. e \in MgmtEvent /\ \A k : ~News(e, k)
    BY <1>3 DEF Change, News, Come, Gone
  <2> HIDE DEF e
  <2>2. dir'[n] = Partial /\ \A k \in Name \ {n} : dir'[k] = dir[k]
    BY <1>0, <1>5 DEF OpenFile
  <2>3. pending' = Append(pending, e) \/ pending' = pending
    BY <1>5 DEF OpenFile, Tell, e
  <2>4. \A k \in Name \ {n} : Follow(k)'
    <3>1. CASE pending' = Append(pending, e)
      BY <1>2, <2>1, <2>2, <3>1
    <3>2. CASE pending' = pending
      BY <1>0, <1>1, <2>2, <3>2 DEF NoNews, Says
    <3> QED BY <2>3, <3>1, <3>2
  <2>5. Follow(n)'
    BY <1>0, <2>2 DEF Follow, Noticed
  <2> QED BY <2>4, <2>5
<1>6. ASSUME NEW n \in Name, CloseFile(n) \/ MoveIn(n)
      PROVE  \A k \in Name : Follow(k)'
  <2>1. env' \in Version
    BY <1>0, <1>6, FdAssumption DEF CloseFile, MoveIn, Environment, Version, TypeOK
  <2>2. env' # NULL
    BY <2>1
  <2> QED BY <1>4, <1>6, <2>2 DEF CloseFile, MoveIn, Come, Gone
<1>7. ASSUME NEW n \in Name, DeleteFile(n) \/ MoveOut(n)
      PROVE  \A k \in Name : Follow(k)'
  BY <1>4, <1>7 DEF DeleteFile, MoveOut, Come, Gone
<1>8. CASE DestroyBase
  <2> DEFINE e == [name |-> NULL, type |-> "IN_DELETE_SELF"]
  <2>1. e \in MgmtEvent /\ pending' = Append(pending, e) /\ dir' = dir /\ \A k : ~News(e, k)
    BY <1>8 DEF DestroyBase, Tell, MgmtEvent, News, Come, Gone
  <2> HIDE DEF e
  <2> QED BY <1>2, <2>1
<1>9. ASSUME NEW n \in Name, NEW kind, TableEvent(n, kind)
      PROVE  \A k \in Name : Follow(k)'
  BY <1>0, <1>1, <1>9 DEF TableEvent, NoNews, Says
<1> QED BY <1>5, <1>6, <1>7, <1>8, <1>9 DEF Outside

LEMMA FollowStep ==
    ASSUME DispatchInv, PhaseInv, FollowInv, [Next]_vars
    PROVE  FollowInv'
<1> SUFFICES ASSUME Listening', NEW n \in Name
             PROVE  Follow(n)'
  BY DEF FollowInv
<1> USE NullAssumption
<1>0. /\ TypeOK /\ g_ut \in [Name -> TableObj \cup {NULL}]
      /\ Listening => Follow(n) /\ TablesInv
  BY DEF DispatchInv, TypeOK, FollowInv
(* A step that keeps the table, or loads it, and forgets no event.         *)
<1>1. ASSUME Follow(n), dir' = dir, g_ut'[n] = g_ut[n],
             NoNews(n) => NoNews(n)',
             \A T \in {Come, Gone} : Says(n, T) => Says(n, T)',
             n \in toread /\ dir[n] = 0 => n \in toread',
             pc # "load" \/ UNCHANGED <<pc, cur>>
      PROVE  Follow(n)'
  BY <1>1 DEF Follow, Noticed
<1>2. ASSUME UNCHANGED <<pending, m_events>>
      PROVE  /\ NoNews(n)' = NoNews(n) /\ \A T : Says(n, T)' = Says(n, T)
  BY <1>2 DEF NoNews, Says
<1>3. ASSUME NEW m \in Name, ReadDir(m)
      PROVE  Follow(n)'
  <2>1. /\ pc = "readdir" /\ m \in toread /\ dir[m] # NULL /\ toread' = toread \ {m}
        /\ UNCHANGED <<dir, pending, m_events>>
        /\ IF Listed(m) THEN NewTable(m) \/ NoDescriptor ELSE UNCHANGED <<g_ut, cur, back, pc>>
    BY <1>3 DEF ReadDir, kernel
  <2>2. Follow(n)
    BY <1>0, <2>1 DEF Listening
  <2>3. CASE n # m
    <3>1. g_ut'[n] = g_ut[n]
      BY <1>0, <2>1, <2>3 DEF NewTable, NoDescriptor
    <3> QED BY <1>1, <1>2, <2>1, <2>2, <2>3, <3>1
  <2>4. CASE n = m /\ ~Listed(n)
    BY <1>2, <2>1, <2>2, <2>4 DEF Follow, Listed, Noticed
  <2>5. CASE n = m /\ Listed(n)
    <3>1. pc' = "load" /\ cur' = n
      BY <2>1, <2>5 DEF NewTable, NoDescriptor, Go, Listening
    <3>2. Noticed(n)
      BY <2>5 DEF Listed, Noticed
    <3> QED BY <1>2, <2>1, <2>2, <2>5, <3>1, <3>2 DEF Follow, Noticed
  <2> QED BY <2>3, <2>4, <2>5
<1>4. CASE ReadDirDone
  <2>1. /\ pc = "readdir" /\ \A m \in toread : dir[m] # 0
        /\ UNCHANGED <<dir, pending, m_events, g_ut>>
    BY <1>4 DEF ReadDirDone, kernel
  <2> QED BY <1>0, <1>1, <1>2, <2>1 DEF Listening
<1>5. CASE LoadTable
  <2>1. /\ pc = "load" /\ g_ut' = [g_ut EXCEPT ![cur].tab = dir[cur]]
        /\ UNCHANGED <<dir, pending, m_events, toread>>
    BY <1>5 DEF LoadTable, kernel
  <2>2. Follow(n) /\ cur \in Name /\ g_ut[cur] # NULL
    BY <1>0, <2>1 DEF Listening, TablesInv
  <2>3. CASE n = cur
    <3>1. g_ut'[n] \in TableObj /\ g_ut'[n].tab = dir[n]
      BY <1>0, <2>1, <2>2, <2>3 DEF TableObj, TypeOK
    <3>2. g_ut'[n] # NULL
      BY <3>1
    <3> QED BY <1>2, <2>1, <2>2, <2>3, <3>1, <3>2 DEF Follow, Noticed
  <2>4. CASE n # cur
    <3>1. g_ut'[n] = g_ut[n]
      BY <1>0, <2>1, <2>2, <2>4
    <3> QED BY <1>2, <2>1, <2>2, <2>4, <3>1 DEF Follow, Noticed
  <2> QED BY <2>3, <2>4
<1>6. CASE LoopTest \/ MgmtDone \/ NextSlot \/ Serve \/ RunCommand \/ Served \/ EventsDone
  <2>1. pc \in {"test", "mgmt", "events", "serve"}
        /\ UNCHANGED <<dir, pending, m_events, g_ut, toread>>
    BY <1>6 DEF LoopTest, MgmtDone, NextSlot, Serve, RunCommand, Served, EventsDone, kernel
  <2> QED BY <1>0, <1>1, <1>2, <2>1 DEF Listening
<1>7. CASE Poll
  <2>1. /\ pc = "poll" /\ m_events' = pending /\ pending' = <<>>
        /\ UNCHANGED <<dir, g_ut, toread>>
    BY <1>7 DEF Poll
  <2>2. m_events = <<>>
    BY <2>1 DEF PhaseInv, Listening
  <2> QED BY <1>0, <1>1, <2>1, <2>2, ReadNews DEF Listening
(* A management event is handled.                                          *)
<1>8. ASSUME Mgmt, UNCHANGED <<dir, pending, toread>>
      PROVE  /\ pc = "mgmt" /\ Follow(n)
             /\ NoNews(n) => NoNews(n)' /\ ~News(Head(m_events), n)
             /\ \A T \in {Come, Gone} : Says(n, T) =>
                  Says(n, T)' \/ (NoNews(n)' /\ Changed = n /\ Head(m_events).type \in T)
  <2>1. pc = "mgmt" /\ m_events # <<>> /\ m_events' = Tail(m_events) /\ pending' = pending
    BY <1>8 DEF Mgmt
  <2> QED BY <1>0, <2>1, TakeNews DEF Listening, Changed
<1>9. ASSUME Mgmt, UNCHANGED <<dir, pending, toread>>, g_ut'[n] = g_ut[n],
             ~News(Head(m_events), n)
      PROVE  Follow(n)'
  <2>1. \A T \in {Come, Gone} : Says(n, T) => Says(n, T)'
    BY <1>8, <1>9 DEF News, Changed
  <2> QED BY <1>1, <1>8, <1>9, <2>1
<1>10. CASE MgmtFinish
  <2>1. Mgmt /\ UNCHANGED <<dir, pending, toread, g_ut>> /\ ~News(Head(m_events), n)
    BY <1>10 DEF MgmtFinish, kernel, News, Come, Gone
  <2> QED BY <1>9, <2>1
<1>11. CASE MgmtReload
  <2>1. /\ Mgmt /\ UNCHANGED <<dir, pending, toread, g_ut>> /\ Appears
        /\ pc' = "load" /\ cur' = Changed /\ g_ut[Changed] # NULL
    BY <1>11 DEF MgmtReload, Go
  <2>2. Head(m_events).type \notin Gone
    BY <2>1 DEF Appears, Gone
  <2>3. CASE Changed # n
    BY <1>9, <2>1, <2>3 DEF News, Changed
  <2>4. CASE Changed = n
    BY <1>8, <2>1, <2>2, <2>4 DEF Follow, Noticed
  <2> QED BY <2>3, <2>4
<1>12. CASE MgmtDestroy
  <2>1. /\ Mgmt /\ UNCHANGED <<dir, pending, toread>> /\ Vanishes /\ Changed \in Name
        /\ g_ut' = [g_ut EXCEPT ![Changed] = NULL]
    BY <1>12 DEF MgmtDestroy
  <2>2. Head(m_events).type \notin Come /\ Head(m_events).type \in Gone
    BY <2>1 DEF Vanishes, Come, Gone
  <2> HIDE DEF Changed
  <2>3. CASE Changed # n
    <3>1. g_ut'[n] = g_ut[n] /\ ~News(Head(m_events), n)
      BY <1>0, <2>1, <2>3 DEF News, Changed
    <3> QED BY <1>9, <2>1, <3>1
  <2>4. CASE Changed = n
    <3>1. g_ut'[n] = NULL /\ News(Head(m_events), n)
      BY <1>0, <2>1, <2>2, <2>4 DEF News, Changed
    <3> QED BY <1>8, <2>1, <2>2, <2>4, <3>1 DEF Follow, Noticed
  <2> QED BY <2>3, <2>4
<1>13. CASE MgmtCreate
  <2>1. /\ Mgmt /\ UNCHANGED <<dir, pending, toread>> /\ Appears /\ Changed \in Name
        /\ g_ut[Changed] = NULL /\ Noticed(Changed) /\ NewTable(Changed)
    BY <1>13 DEF MgmtCreate, kernel, NoDescriptor, Go, Listening
  <2>2. Head(m_events).type \notin Gone /\ Head(m_events).type \in Come
    BY <2>1 DEF Appears, Gone, Come
  <2> HIDE DEF Changed
  <2>3. CASE Changed # n
    <3>1. g_ut'[n] = g_ut[n] /\ ~News(Head(m_events), n)
      BY <1>0, <2>1, <2>3 DEF News, Changed, NewTable
    <3> QED BY <1>9, <2>1, <3>1
  <2>4. CASE Changed = n
    <3>1. pc' = "load" /\ cur' = n /\ News(Head(m_events), n)
      BY <2>1, <2>2, <2>4 DEF NewTable, Go, News, Changed
    <3> QED BY <1>8, <2>1, <2>2, <2>4, <3>1 DEF Follow, Noticed
  <2> QED BY <2>3, <2>4
<1>14. CASE MgmtIgnore
  <2>1. /\ Mgmt /\ UNCHANGED <<dir, pending, toread, g_ut>>
        /\ IF g_ut[Changed] # NULL THEN ~Appears /\ ~Vanishes
                                   ELSE ~Appears \/ ~Noticed(Changed)
    BY <1>14 DEF MgmtIgnore, kernel
  <2>2. Appears <=> Head(m_events).type \in Come
    BY DEF Appears, Come
  <2>3. Vanishes <=> Head(m_events).type \in Gone
    BY DEF Vanishes, Gone
  <2>4. CASE ~News(Head(m_events), n)
    BY <1>9, <2>1, <2>4
  <2>5. CASE News(Head(m_events), n)
    <3>1. Changed = n /\ g_ut[n] = NULL
      BY <2>1, <2>2, <2>3, <2>5 DEF News, Changed
    <3> QED BY <1>8, <2>1, <2>2, <2>5, <3>1 DEF Follow, Noticed
  <2> QED BY <2>4, <2>5
<1>15. CASE ReloadTable
  <2>1. pc = "serve" /\ UNCHANGED <<dir, pending, m_events, g_ut, toread>>
    BY <1>15 DEF ReloadTable
  <2> QED BY <1>0, <1>1, <1>2, <2>1 DEF Listening
<1>16. CASE FreeTables
  BY <1>16 DEF FreeTables, Go, Listening
<1>17. CASE Outside
  <2>1. pc' = pc
    BY <1>17 DEF Outside, OpenFile, CloseFile, DeleteFile, MoveIn, MoveOut, DestroyBase,
                 TableEvent, quiet
  <2> QED BY <1>0, <1>17, <2>1, FollowOutside DEF Listening
<1>18. CASE UNCHANGED vars
  <2>1. UNCHANGED <<dir, pending, m_events, g_ut, toread, pc, cur>>
    BY <1>18 DEF vars
  <2> QED BY <1>0, <1>1, <1>2, <2>1 DEF Listening
<1> QED BY <1>3, <1>4, <1>5, <1>6, <1>7, <1>10, <1>11, <1>12, <1>13, <1>14, <1>15, <1>16,
           <1>17, <1>18 DEF Next, Daemon, MgmtNext, ServeNext

(* For any number of tables, files and changes, a file about which nothing *)
(* is under way has the table it should have, with its last contents       *)
(* (ProcessMgmtEvents, load_tables).                                       *)
THEOREM TablesFollow == Spec => []TablesFollowFiles
<1>1. Init => PhaseInv /\ FollowInv
  <2> SUFFICES ASSUME Init
               PROVE  PhaseInv /\ FollowInv
    OBVIOUS
  <2>1. PhaseInv
    BY DEF Init, PhaseInv, Reading
  <2>2. \A n \in Name : NoNews(n) /\ g_ut[n] = NULL /\ n \in toread /\ dir[n] \in {0, NULL}
    BY DEF Init, NoNews, Silent
  <2> QED BY <2>1, <2>2 DEF FollowInv, Follow
<1>2. DispatchInv /\ PhaseInv /\ FollowInv /\ [Next]_vars => PhaseInv' /\ FollowInv'
  BY PhaseStep, FollowStep
<1>3. DispatchInv /\ PhaseInv /\ FollowInv => TablesFollowFiles
  <2> SUFFICES ASSUME PhaseInv, FollowInv, pc \in {"test", "poll", "events", "serve"},
                      NEW n \in Name \ Backup, ~Awaited(n)
               PROVE  IF dir[n] = NULL \/ ~Noticed(n) THEN g_ut[n] = NULL
                      ELSE dir[n] # Partial => g_ut[n] # NULL /\ g_ut[n].tab = dir[n]
    BY DEF TablesFollowFiles
  <2>1. toread = {} /\ m_events = <<>> /\ Follow(n)
    BY DEF PhaseInv, FollowInv, Listening, Reading
  <2>2. \A T : ~Says(n, T)
    BY <2>1 DEF Awaited, Says, LastIs
  <2> QED BY <2>1, <2>2 DEF Follow
<1> QED BY <1>1, <1>2, <1>3, Invariance, PTL DEF Spec
=============================================================================
