-------------------------- MODULE UserTable_proofs --------------------------
(* Safety of a UserTable for any paths, entries, table files and watches,  *)
(* over the results about its Inotify: what the table does to it are calls *)
(* of Inotify, so its indexes hold; m_map is related to the heap by the    *)
(* place the thread is at; then the events are, by the iterator; and each  *)
(* directory to cover is, at each step, before a find, an Add or an event  *)
(* that will see to it, or watched.                                        *)
EXTENDS UserTable, Inotify_proofs, FiniteSetTheorems

-----------------------------------------------------------------------------
(* The inductive invariant.                                                *)

At ==
    /\ pc \in {"scan", "add"} => at \in Nat \ {0}
    /\ pc = "scan" => cnt \in Nat /\ cnt <= Len(m_tab)

(* The restoring of a watch interrupts the loop at the entry that collided.*)
Restoring ==
    recovering # NULL =>
        pc = "add" /\ at <= Len(m_tab) /\ m_tab[at].path \notin Glob

(* A watch on the heap and the slot of m_tab it was made from.             *)
Owned(w) ==
    /\ m_map[w] # 0 <=> watch[w] # NULL
    /\ m_map[w] # 0 => /\ m_map[w] <= Len(m_tab)
                       /\ m_tab[m_map[w]].path = watch[w].path
                       /\ m_tab[m_map[w]].mask = watch[w].mask
Ownership ==
    /\ pc \in {"add", "poll", "drain", "resume"} => \A w \in Watch : Owned(w)
    /\ pc \in {"load", "scan", "gone"} => \A w \in Watch : watch[w] = NULL /\ m_map[w] = 0
    /\ pc = "dispose" => \A w \in Watch : watch[w] # NULL <=> w \in todo

(* A reload that is not made for an event is made from poll, where no      *)
(* event waits.                                                            *)
Reloading == pc \in {"dispose", "load", "scan", "add"}
Drained ==
    /\ pc \in {"poll", "drain", "resume"} => registered
    /\ pc \in {"poll", "gone"} \/ (Reloading /\ why # "event")
            => m_buf = <<>> /\ m_events = <<>>

(* As long as the iterator is valid the events are about what they were    *)
(* read for, and a command was the right one.                              *)
Right(o) ==
    /\ o.what = "run" /\ o.path = o.evpath
    /\ \E n \in DOMAIN m_tab : m_tab[n].path = o.evpath /\ m_tab[n].cmd = o.cmd
Queued(e) == m_map[e.watch] # 0 /\ m_tab[m_map[e.watch]].path = e.path
AsRead == pc = "drain" => \A n \in DOMAIN m_events : Queued(m_events[n])
Attribution ==
    /\ pc \in {"poll", "gone"} \/ (Reloading /\ why # "event") => itOk
    /\ itOk => /\ pc # "resume" /\ (Reloading => why # "event")
               /\ pc \notin {"drain", "dead"} => outcome = NULL
               /\ outcome # NULL => Right(outcome)
               /\ AsRead

TabInv ==
    /\ TableTypeOK /\ MapsConsistent
    /\ At /\ Restoring /\ Ownership /\ Drained /\ Attribution

LEMMA InvInit == TableInit => TabInv
<1> SUFFICES ASSUME TableInit
             PROVE  TabInv
  OBVIOUS
<1>1. TypeOK /\ MapsConsistent
  BY TypeInit, MapsInit DEF TableInit
<1>2. /\ m_tab = <<>> /\ m_map = [w \in Watch |-> 0] /\ pc = "load" /\ why = "mgmt"
      /\ registered = FALSE /\ itOk = TRUE /\ todo = {} /\ cur = NoCur /\ outcome = NULL
      /\ file \in Table /\ news = <<>> /\ user = "allowed" /\ missed = {}
  BY DEF TableInit
<1>3. recovering = NULL /\ m_buf = <<>> /\ m_events = <<>> /\ \A w \in Watch : watch[w] = NULL
  BY DEF TableInit, Init
<1>4. TableTypeOK
  <2>1. m_tab \in Seq(Entry) /\ Len(m_tab) = 0
    BY <1>2
  <2>2. m_map \in [Watch -> 0..Len(m_tab)]
    BY <1>2, <2>1
  <2>3. news \in Seq({"IN_DELETE", "IN_CLOSE_WRITE"})
    BY <1>2
  <2> QED BY <1>1, <1>2, <2>1, <2>2, <2>3 DEF TableTypeOK, NoCur
<1>5. At /\ Restoring /\ Ownership /\ Drained /\ Attribution
  BY <1>2, <1>3 DEF At, Restoring, Ownership, Drained, Attribution, AsRead, Reloading
<1> QED BY <1>1, <1>4, <1>5 DEF TabInv

-----------------------------------------------------------------------------
(* The Inotify object of the table.                                        *)

(* Other processes touch the file system and the kernel, not the object.   *)
LEMMA OutsideKernel ==
    ASSUME TypeOK, MapsConsistent, UNCHANGED object,
           fs' \in [Path -> Inode \cup {NULL}], kernel' \in Kernel
    PROVE  TypeOK' /\ MapsConsistent'
<1>1. UNCHANGED <<m_fd, m_watches, m_paths, watch, recovering, m_buf, m_events, exc>>
  BY DEF object
<1>2. TypeOK'
  BY <1>1 DEF TypeOK
<1> QED BY <1>1, <1>2 DEF MapsConsistent, DescriptorIndex, DescriptorIndexComplete, PathIndex

(* What a step of the table may do to its Inotify.                         *)
ObjectNext ==
    AddNext \/ RemoveNext \/ ReadEvents \/ ParseEvent \/ GetEvent \/ Close
TreeNext ==
    \/ \E p \in Path, i \in Inode : MakeDir(p, i)
    \/ \E p \in Path : RemoveDir(p)
    \/ \E p \in Path, t \in Type : WriteIn(p, t)

LEMMA Calls ==
    ASSUME TabInv, [TableNext]_tvars
    PROVE  UNCHANGED vars \/ ObjectNext \/ MgmtCreate \/ TreeNext
<1>0. m_tab \in Seq(Entry)
  BY DEF TabInv, TableTypeOK
<1>1. CASE UNCHANGED tvars
  BY <1>1 DEF tvars
<1>2. CASE LoadNext
  <2>1. ASSUME Adding
        PROVE  m_tab[at].path \in Path /\ m_tab[at].mask \in Mask
    <3>1. at \in 1..Len(m_tab)
      BY <1>0, <2>1 DEF Adding, TabInv, At
    <3>2. m_tab[at] \in Entry
      BY <1>0, <3>1
    <3> QED BY <3>2 DEF Entry
  <2>2. CASE ReadFile \/ Scan \/ ScanDone \/ SkipGlob \/ AddEntryFaults \/ LoadDone
    BY <2>2 DEF ReadFile, Scan, ScanDone, SkipGlob, AddEntryFaults, LoadDone
  <2>3. ASSUME NEW w \in Watch, AddEntry(w)
        PROVE  ObjectNext
    BY <2>1, <2>3 DEF AddEntry, ObjectNext, AddNext
  <2>4. CASE AddEntryFails \/ AddEntryCollides \/ AddEntryRecovers
    BY <2>1, <2>4
    DEF AddEntryFails, AddEntryCollides, AddEntryRecovers, ObjectNext, AddNext
  <2> QED BY <1>2, <2>2, <2>3, <2>4 DEF LoadNext
<1>3. CASE DisposeNext
  BY <1>3 DEF DisposeNext, DisposeWatch, DisposeThrows, Disposed, Destroyed, ObjectNext,
              RemoveNext
<1>4. CASE EventNext
  <2>1. CASE StartEvents \/ Parse
    BY <2>1 DEF StartEvents, Parse, ObjectNext
  <2>2. CASE EventsDone \/ IteratorDangles \/ OnEventResume
    BY <2>2 DEF EventsDone, IteratorDangles, OnEventResume
  <2>3. CASE OnEventNoEntry \/ OnEventDenied \/ OnEventFaults \/ OnEventRun \/ OnEventReload
    BY <2>3 DEF OnEventNoEntry, OnEventDenied, OnEventFaults, OnEventRun, OnEventReload,
                ObjectNext
  <2> QED BY <1>4, <2>1, <2>2, <2>3 DEF EventNext
<1>5. CASE MgmtReload \/ MgmtDestroy \/ MgmtNothing
  BY <1>5 DEF MgmtReload, MgmtDestroy, MgmtNothing
<1>6. CASE OutsideNext
  BY <1>6 DEF OutsideNext, TreeNext, WriteTable, ChangeUser
<1> QED BY <1>1, <1>2, <1>3, <1>4, <1>5, <1>6 DEF TableNext, Daemon, MgmtNext

LEMMA ObjectStep == TabInv /\ [TableNext]_tvars => TypeOK' /\ MapsConsistent'
<1> SUFFICES ASSUME TabInv, [TableNext]_tvars
             PROVE  TypeOK' /\ MapsConsistent'
  OBVIOUS
<1>0. TypeOK /\ MapsConsistent /\ kernel \in Kernel /\ fs \in [Path -> Inode \cup {NULL}]
  BY DEF TabInv, TableTypeOK, TypeOK
<1>1. CASE UNCHANGED vars \/ ObjectNext
  BY <1>0, <1>1, TypeStep, MapsStep DEF ObjectNext, Next
<1>2. CASE MgmtCreate
  <2>1. /\ pc = "gone" /\ kernel' = [kernel EXCEPT !.lost = FALSE] /\ m_fd' = TRUE
        /\ UNCHANGED <<fs, m_events, m_watches, m_paths, watch, recovering, m_buf, exc>>
    BY <1>2 DEF MgmtCreate
  <2>2. TypeOK'
    BY <1>0, <2>1 DEF TypeOK, Kernel
  <2>3. \A w \in Watch : watch[w] = NULL
    BY <2>1 DEF TabInv, Ownership
  <2> QED BY <1>0, <2>1, <2>2, <2>3
          DEF MapsConsistent, DescriptorIndex, DescriptorIndexComplete, PathIndex
<1>3. CASE TreeNext
  <2>1. \A i, t : t \in EventType => Deliver(kernel, i, t) \in Kernel
    BY <1>0, DeliverExtends DEF Extends
  <2>2. \A i : Die(kernel, i) \in Kernel
    BY <1>0, DieExtends DEF Extends
  <2>3. kernel' \in Kernel /\ UNCHANGED object
    BY <1>0, <1>3, <2>1, <2>2, TableAssumption
    DEF TreeNext, MakeDir, RemoveDir, WriteIn, EventType
  <2>4. fs' \in [Path -> Inode \cup {NULL}]
    BY <1>0, <1>3 DEF TreeNext, MakeDir, RemoveDir, WriteIn
  <2> QED BY <1>0, <2>3, <2>4, OutsideKernel
<1> QED BY <1>1, <1>2, <1>3, Calls

-----------------------------------------------------------------------------
(* Types of the table, and the indexes of Load.                            *)

Tables ==
    /\ m_tab \in Seq(Entry)
    /\ m_map \in [Watch -> 0..Len(m_tab)]
Place ==
    /\ pc \in {"load", "scan", "add", "poll", "drain", "resume", "dispose", "gone", "dead"}
    /\ registered \in BOOLEAN /\ itOk \in BOOLEAN
    /\ why \in {"mgmt", "event", "delete"}
    /\ todo \subseteq Watch
    /\ cur.watch \in Watch \cup {NULL}
World ==
    /\ file \in Table \cup {NULL}
    /\ news \in Seq({"IN_DELETE", "IN_CLOSE_WRITE"})
    /\ user \in {"allowed", "moved", "denied", "unknown"}
    /\ missed \subseteq Path

LEMMA TableTypeParts == TableTypeOK <=> TypeOK /\ Tables /\ Place /\ World
  BY DEF TableTypeOK, Tables, Place, World

(* What find and the trimming of its output yield are paths (execBashVec). *)
LEMMA OrdersAreSeqs ==
    ASSUME NEW S \in SUBSET Path, NEW s \in Orders(S)
    PROVE  s \in Seq(Path)
<1>1. Cardinality(S) \in Nat
  BY TableAssumption, FS_Subset, FS_CardinalityType
<1>2. s \in [1..Cardinality(S) -> Path]
  BY DEF Orders
<1> QED BY <1>1, <1>2, SeqDef

LEMMA CutIsSeq ==
    ASSUME NEW s \in Seq(Path), NEW p
    PROVE  Cut(s, p) \in Seq(Path)
<1>1. CASE s = <<>>
  BY <1>1 DEF Cut
<1>2. CASE s # <<>>
  <2> DEFINE last == Short[s[Len(s)]]
  <2>1. Len(s) \in Nat \ {0} /\ s[Len(s)] \in Path
    BY <1>2, EmptySeq, LenProperties, ElementOfSeq
  <2>2. last \in Path
    BY <2>1, ShortAssumption
  <2>3. SubSeq(s, 1, Len(s) - 1) \in Seq(Path)
    BY <2>1, SubSeqProperties
  <2>4. [s EXCEPT ![Len(s)] = last] \in Seq(Path)
    BY <2>1, <2>2, ExceptSeq
  <2>5. Cut(s, p) = IF last = p THEN SubSeq(s, 1, Len(s) - 1) ELSE [s EXCEPT ![Len(s)] = last]
    BY <1>2 DEF Cut
  <2> QED BY <2>3, <2>4, <2>5
<1> QED BY <1>1, <1>2

LEMMA OutputIsSeqs ==
    ASSUME NEW S \in SUBSET Path, NEW p, NEW s \in Output(S, p)
    PROVE  s \in Seq(Path)
  BY OrdersAreSeqs, CutIsSeq DEF Output

LEMMA SubDirsArePaths ==
    ASSUME NEW e, e.path \in Path, NEW s \in SubDirs(e)
    PROVE  s \in Seq(Path)
<1> DEFINE S == Expansion(e)
<1>1. S \in SUBSET Path /\ S \cap Dir \in SUBSET Path
  BY DEF Expansion
<1>2. <<e.path>> \in Seq(Path)
  OBVIOUS
<1> HIDE DEF S
<1>3. ASSUME NEW t \in Output(S \cap Dir, e.path), NEW u \in Output(S, e.path),
             NEW r \in Orders(InList(u) \ InList(t))
      PROVE  t \o r \in Seq(Path)
  <2>1. t \in Seq(Path) /\ u \in Seq(Path)
    BY <1>1, OutputIsSeqs
  <2>2. InList(u) \ InList(t) \in SUBSET Path
    BY <2>1, ElementOfSeq, LenProperties DEF InList
  <2>3. r \in Seq(Path)
    BY <2>2, OrdersAreSeqs
  <2> QED BY <2>1, <2>3, ConcatProperties
<1>4. CASE e.path \in Glob
  <2> DEFINE A == Output(S \cap Dir, e.path)
             B == Output(S, e.path)
  <2>1. s \in UNION {Joined(t, u) : t \in A, u \in B}
    BY <1>4 DEF SubDirs, S
  <2>2. \E t \in A, u \in B : s \in Joined(t, u)
    <3> HIDE DEF A, B
    <3> QED BY <2>1
  <2> QED BY <1>3, <2>2 DEF Joined
<1>5. CASE e.path \notin Glob
  <2>1. s = Cut(<<e.path>>, e.path) \/ s \in Output(S, e.path)
    BY <1>5 DEF SubDirs, S
  <2> QED BY <1>1, <1>2, <2>1, CutIsSeq, OutputIsSeqs
<1> QED BY <1>4, <1>5

LEMMA TablesStep == TabInv /\ [TableNext]_tvars => Tables' /\ At'
<1> SUFFICES ASSUME TabInv, [TableNext]_tvars
             PROVE  Tables' /\ At'
  OBVIOUS
<1>0. Tables /\ Place /\ World /\ At /\ Len(m_tab) \in Nat
  BY TableTypeParts DEF TabInv, Tables
<1>1. ASSUME UNCHANGED <<m_tab, m_map>>, pc' \notin {"scan", "add"}
      PROVE  Tables' /\ At'
  BY <1>0, <1>1 DEF Tables, At
<1>2. ASSUME UNCHANGED <<m_tab, m_map, pc, at, cnt>>
      PROVE  Tables' /\ At'
  BY <1>0, <1>2 DEF Tables, At
<1>3. CASE ReadFile
  <2>1. m_tab' \in Seq(Entry)
    BY <1>0, <1>3, TableAssumption DEF ReadFile, World
  <2>2. m_map' \in [Watch -> 0..Len(m_tab')]
    <3>1. \A w \in Watch : m_map[w] = 0
      BY <1>3 DEF ReadFile, TabInv, Ownership
    <3>2. Len(m_tab') \in Nat
      BY <2>1, LenProperties
    <3> QED BY <1>0, <1>3, <3>1, <3>2 DEF ReadFile, Tables
  <2>3. At'
    BY <1>3, <2>1, LenProperties DEF ReadFile, At
  <2> QED BY <2>1, <2>2, <2>3 DEF Tables
<1>4. CASE Scan
  <2> DEFINE e == m_tab[at]
  <2>1. at \in 1..Len(m_tab) /\ cnt \in Nat /\ cnt <= Len(m_tab) /\ pc = "scan"
    BY <1>0, <1>4 DEF Scan, At
  <2>2. e \in Entry
    BY <1>0, <2>1 DEF Tables
  <2>3. /\ UNCHANGED <<m_map, pc, cnt>> /\ at' = at + 1
        /\ \/ m_tab' = m_tab
           \/ \E s \in SubDirs(e) :
                m_tab' = m_tab \o [n \in DOMAIN s |-> [e EXCEPT !.path = s[n]]]
    BY <1>4 DEF Scan
  <2>4. m_tab' \in Seq(Entry) /\ Len(m_tab) <= Len(m_tab')
    <3>1. ASSUME NEW s \in SubDirs(e),
                 m_tab' = m_tab \o [n \in DOMAIN s |-> [e EXCEPT !.path = s[n]]]
          PROVE  m_tab' \in Seq(Entry) /\ Len(m_tab) <= Len(m_tab')
      <4> DEFINE x == [n \in DOMAIN s |-> [e EXCEPT !.path = s[n]]]
      <4>1. s \in Seq(Path)
        BY <2>2, SubDirsArePaths DEF Entry
      <4>2. Len(s) \in Nat /\ s \in [1..Len(s) -> Path]
        BY <4>1, LenProperties
      <4>4. \A n \in DOMAIN s : [e EXCEPT !.path = s[n]] \in Entry
        BY <2>2, <4>2 DEF Entry
      <4>5. x \in [1..Len(s) -> Entry]
        BY <4>2, <4>4
      <4>6. x \in Seq(Entry)
        BY <4>2, <4>5, SeqDef
      <4> HIDE DEF x
      <4>7. m_tab' = m_tab \o x
        BY <3>1 DEF x
      <4> QED BY <1>0, <4>6, <4>7, ConcatProperties, LenProperties DEF Tables
    <3>2. CASE m_tab' = m_tab
      BY <1>0, <3>2 DEF Tables
    <3> HIDE DEF e
    <3> QED BY <2>3, <3>1, <3>2
  <2>5. Len(m_tab') \in Nat
    BY <2>4, LenProperties
  <2>6. Tables'
    BY <1>0, <2>3, <2>4, <2>5 DEF Tables
  <2> QED BY <1>0, <2>1, <2>3, <2>4, <2>5, <2>6 DEF At
<1>5. CASE ScanDone
  BY <1>0, <1>5 DEF ScanDone, Tables, At
<1>6. ASSUME NEW w \in Watch, AddEntry(w)
      PROVE  Tables' /\ At'
  <2>1. /\ pc = "add" /\ at <= Len(m_tab) /\ at' = at + 1
        /\ m_map' = [m_map EXCEPT ![w] = at] /\ UNCHANGED <<pc, m_tab, cnt>>
    BY <1>6 DEF AddEntry, Adding, loading
  <2>2. at \in 1..Len(m_tab)
    BY <1>0, <2>1 DEF At
  <2> QED BY <1>0, <2>1, <2>2 DEF Tables, At
<1>7. CASE SkipGlob \/ AddEntryFails \/ AddEntryRecovers
  <2>1. pc = "add" => at \in Nat \ {0}
    BY <1>0 DEF At
  <2>2. at' = at + 1 /\ UNCHANGED <<pc, m_tab, m_map, cnt>>
    BY <1>7 DEF SkipGlob, AddEntryFails, AddEntryRecovers, loading
  <2>3. pc # "scan"
    BY <1>7 DEF SkipGlob, AddEntryFails, Adding, AddEntryRecovers, AddRecovers, TabInv, Restoring
  <2> QED BY <1>0, <2>1, <2>2, <2>3 DEF Tables, At
<1>8. CASE AddEntryCollides
  BY <1>2, <1>8 DEF AddEntryCollides, loading
<1>9. CASE AddEntryFaults \/ LoadDone
  BY <1>1, <1>9 DEF AddEntryFaults, LoadDone
<1>10. ASSUME NEW w \in Watch, DisposeWatch(w) \/ DisposeThrows(w)
       PROVE  Tables' /\ At'
  BY <1>1, <1>10 DEF DisposeWatch, DisposeThrows
<1>11. CASE Disposed
  BY <1>0, <1>11 DEF Disposed, Tables, At
<1>12. CASE Destroyed
  <2>1. m_tab' = <<>> /\ m_map' = [w \in Watch |-> 0] /\ pc' = "gone"
    BY <1>12 DEF Destroyed
  <2> QED BY <2>1 DEF Tables, At
<1>13. CASE EventNext
  <2>1. CASE StartEvents \/ EventsDone \/ IteratorDangles \/ OnEventFaults \/ OnEventResume
    BY <1>1, <2>1 DEF StartEvents, EventsDone, IteratorDangles, OnEventFaults, OnEventResume
  <2>2. CASE Parse \/ OnEventNoEntry \/ OnEventDenied \/ OnEventRun
    BY <1>2, <2>2 DEF Parse, OnEventNoEntry, OnEventDenied, OnEventRun, table
  <2>3. CASE OnEventReload
    BY <1>1, <2>3 DEF OnEventReload, StartDispose
  <2> QED BY <1>13, <2>1, <2>2, <2>3 DEF EventNext
<1>14. CASE MgmtReload \/ MgmtDestroy \/ MgmtCreate
  BY <1>1, <1>14 DEF MgmtReload, MgmtDestroy, MgmtCreate, StartDispose
<1>15. CASE MgmtNothing
  BY <1>2, <1>15 DEF MgmtNothing, table
<1>16. CASE OutsideNext
  <2>1. UNCHANGED table
    BY <1>16 DEF OutsideNext, MakeDir, RemoveDir, WriteIn, WriteTable, ChangeUser
  <2> QED BY <1>2, <2>1 DEF table
<1>17. CASE UNCHANGED tvars
  <2>1. UNCHANGED table
    BY <1>17 DEF tvars
  <2> QED BY <1>2, <2>1 DEF table
<1> QED BY <1>3, <1>4, <1>5, <1>6, <1>7, <1>8, <1>9, <1>10, <1>11, <1>12, <1>13, <1>14,
           <1>15, <1>16, <1>17
        DEF TableNext, Daemon, LoadNext, DisposeNext, MgmtNext

LEMMA RestoringStep == TabInv /\ [TableNext]_tvars => Restoring'
<1> SUFFICES ASSUME TabInv, [TableNext]_tvars
             PROVE  Restoring'
  OBVIOUS
<1>0. Restoring
  BY DEF TabInv
<1>1. ASSUME UNCHANGED <<recovering, pc, at, m_tab>>
      PROVE  Restoring'
  BY <1>0, <1>1 DEF Restoring
<1>2. ASSUME UNCHANGED recovering, recovering = NULL \/ pc # "add"
      PROVE  Restoring'
  BY <1>0, <1>2 DEF Restoring
<1>3. CASE LoadNext
  <2>1. CASE ReadFile \/ Scan \/ ScanDone
    BY <1>2, <2>1 DEF ReadFile, Scan, ScanDone, vars, object
  <2>2. CASE SkipGlob \/ LoadDone
    <3>1. recovering = NULL
      BY <1>0, <2>2 DEF SkipGlob, LoadDone, Restoring, TabInv, At, TableTypeOK
    <3> QED BY <1>2, <2>2, <3>1 DEF SkipGlob, LoadDone, vars, object
  <2>3. CASE AddEntryFaults
    BY <1>2, <2>3 DEF AddEntryFaults, vars, object
  <2>4. ASSUME NEW w \in Watch, AddEntry(w)
        PROVE  Restoring'
    BY <1>2, <2>4 DEF AddEntry, AddOk, Idle
  <2>5. CASE AddEntryFails
    BY <1>2, <2>5 DEF AddEntryFails, AddPathTaken, AddFails, Idle
  <2>6. CASE AddEntryCollides
    BY <2>6 DEF AddEntryCollides, Adding, loading, Restoring
  <2>7. CASE AddEntryRecovers
    BY <2>7 DEF AddEntryRecovers, AddRecovers, Restoring
  <2> QED BY <1>3, <2>1, <2>2, <2>3, <2>4, <2>5, <2>6, <2>7 DEF LoadNext
<1>4. CASE DisposeNext
  <2>1. pc = "dispose" /\ UNCHANGED recovering
    BY <1>4 DEF DisposeNext, DisposeWatch, DisposeThrows, Disposed, Destroyed, Remove,
                RemoveThrows, Close, vars, object
  <2> QED BY <1>2, <2>1
<1>5. CASE EventNext
  <2>1. pc \in {"poll", "drain", "resume"} /\ UNCHANGED recovering
    BY <1>5 DEF EventNext, StartEvents, Parse, EventsDone, IteratorDangles, OnEventNoEntry,
                OnEventDenied, OnEventFaults, OnEventRun, OnEventReload, OnEventResume,
                ReadEvents, ParseEvent, GetEvent, vars, object
  <2> QED BY <1>2, <2>1
<1>6. CASE MgmtNext
  <2>1. pc \in {"poll", "gone"} /\ UNCHANGED recovering
    BY <1>6 DEF MgmtNext, MgmtReload, MgmtDestroy, MgmtCreate, MgmtNothing, vars, object
  <2> QED BY <1>2, <2>1
<1>7. CASE OutsideNext
  <2>1. UNCHANGED <<object, table>>
    BY <1>7 DEF OutsideNext, MakeDir, RemoveDir, WriteIn, WriteTable, ChangeUser, vars
  <2> QED BY <1>1, <2>1 DEF object, table
<1>8. CASE UNCHANGED tvars
  BY <1>1, <1>8 DEF tvars, vars, object, table
<1> QED BY <1>3, <1>4, <1>5, <1>6, <1>7, <1>8 DEF TableNext, Daemon

LEMMA PlaceStep == TabInv /\ [TableNext]_tvars => Place'
<1> SUFFICES ASSUME TabInv, [TableNext]_tvars
             PROVE  Place'
  OBVIOUS
<1>0. Place /\ TypeOK
  BY TableTypeParts DEF TabInv
<1>1. ASSUME UNCHANGED <<pc, registered, itOk, why, todo, cur>>
      PROVE  Place'
  BY <1>0, <1>1 DEF Place
<1>2. CASE LoadNext
  <2>1. CASE ReadFile \/ Scan \/ ScanDone \/ SkipGlob \/ AddEntryFaults \/ LoadDone
    BY <1>0, <2>1 DEF ReadFile, Scan, ScanDone, SkipGlob, AddEntryFaults, LoadDone, loading,
                      Place
  <2>2. ASSUME NEW w \in Watch, AddEntry(w)
        PROVE  Place'
    BY <1>1, <2>2 DEF AddEntry, loading
  <2>3. CASE AddEntryFails \/ AddEntryCollides \/ AddEntryRecovers
    BY <1>1, <2>3 DEF AddEntryFails, AddEntryCollides, AddEntryRecovers, loading
  <2> QED BY <1>2, <2>1, <2>2, <2>3 DEF LoadNext
<1>3. CASE DisposeNext
  BY <1>0, <1>3 DEF DisposeNext, DisposeWatch, DisposeThrows, Disposed, Destroyed, Place
<1>4. CASE EventNext
  <2>1. CASE StartEvents \/ EventsDone \/ IteratorDangles \/ OnEventFaults
    BY <1>0, <2>1 DEF StartEvents, EventsDone, IteratorDangles, OnEventFaults, Place
  <2>2. CASE Parse \/ OnEventNoEntry \/ OnEventDenied \/ OnEventRun
    BY <1>1, <2>2 DEF Parse, OnEventNoEntry, OnEventDenied, OnEventRun, table
  <2>3. CASE OnEventReload
    <3>1. Evt.watch \in Watch
      <4>1. Evt \in Event
        BY <1>0, <2>3, HeadTailProperties DEF OnEventReload, GetEvent, Evt, TypeOK
      <4> QED BY <4>1 DEF Event
    <3>2. cur'.watch = Evt.watch
      BY <2>3 DEF OnEventReload
    <3> QED BY <1>0, <2>3, <3>1, <3>2 DEF OnEventReload, StartDispose, Place
  <2>4. CASE OnEventResume
    BY <1>0, <2>4 DEF OnEventResume, Place, NoCur
  <2> QED BY <1>4, <2>1, <2>2, <2>3, <2>4 DEF EventNext
<1>5. CASE MgmtNext
  BY <1>0, <1>5 DEF MgmtNext, MgmtReload, MgmtDestroy, MgmtCreate, MgmtNothing, StartDispose,
                    Place, table
<1>6. CASE OutsideNext
  <2>1. UNCHANGED table
    BY <1>6 DEF OutsideNext, MakeDir, RemoveDir, WriteIn, WriteTable, ChangeUser
  <2> QED BY <1>1, <2>1 DEF table
<1>7. CASE UNCHANGED tvars
  BY <1>1, <1>7 DEF tvars, table
<1> QED BY <1>2, <1>3, <1>4, <1>5, <1>6, <1>7 DEF TableNext, Daemon

LEMMA WorldStep == TabInv /\ [TableNext]_tvars => World'
<1> SUFFICES ASSUME TabInv, [TableNext]_tvars
             PROVE  World'
  OBVIOUS
<1>0. World /\ Tables /\ At
  BY TableTypeParts DEF TabInv
<1>1. ASSUME UNCHANGED <<file, news, user>>, missed' \subseteq Path
      PROVE  World'
  BY <1>0, <1>1 DEF World
<1>2. ASSUME UNCHANGED outside
      PROVE  World'
  BY <1>0, <1>2 DEF World, outside
<1>3. CASE LoadNext
  <2>1. CASE ReadFile
    BY <1>1, <2>1 DEF ReadFile
  <2>4. CASE Scan
    <3>1. \A e : Expansion(e) \subseteq Path
      BY DEF Expansion
    <3> QED BY <1>0, <1>1, <2>4, <3>1 DEF Scan, World
  <2>2. CASE AddEntryFails
    <3>1. at \in 1..Len(m_tab)
      BY <1>0, <2>2 DEF AddEntryFails, Adding, At
    <3>2. m_tab[at] \in Entry
      BY <1>0, <3>1 DEF Tables
    <3> QED BY <1>0, <1>1, <2>2, <3>2 DEF AddEntryFails, Entry, World
  <2>3. ASSUME ~ReadFile, ~AddEntryFails, ~Scan
        PROVE  World'
    BY <1>2, <1>3, <2>3
       DEF LoadNext, ScanDone, SkipGlob, AddEntry, AddEntryCollides, AddEntryRecovers,
           AddEntryFaults, LoadDone, loading
  <2> QED BY <2>1, <2>2, <2>3, <2>4
<1>4. CASE DisposeNext
  BY <1>2, <1>4 DEF DisposeNext, DisposeWatch, DisposeThrows, Disposed, Destroyed
<1>5. CASE EventNext
  <2>1. CASE OnEventDenied
    BY <1>0, <1>1, <2>1 DEF OnEventDenied, World
  <2> QED BY <1>2, <1>5, <2>1
          DEF EventNext, StartEvents, Parse, EventsDone, IteratorDangles, OnEventNoEntry,
              OnEventFaults, OnEventRun, OnEventReload, OnEventResume
<1>6. CASE MgmtNext
  <2>1. /\ UNCHANGED <<file, user, missed>>
        /\ news # <<>> /\ news' = Tail(news)
    BY <1>6 DEF MgmtNext, MgmtReload, MgmtDestroy, MgmtCreate, MgmtNothing
  <2> QED BY <1>0, <2>1, HeadTailProperties DEF World
<1>7. CASE OutsideNext
  <2>1. ASSUME NEW p \in Path, NEW i \in Inode, MakeDir(p, i)
        PROVE  World'
    BY <1>0, <1>1, <2>1 DEF MakeDir, World
  <2>2. ASSUME NEW p \in Path, NEW t, RemoveDir(p) \/ WriteIn(p, t)
        PROVE  World'
    BY <1>0, <1>1, <2>2 DEF RemoveDir, WriteIn, World
  <2>3. ASSUME NEW c \in Table \cup {NULL}, WriteTable(c)
        PROVE  World'
    <3>1. news' \in Seq({"IN_DELETE", "IN_CLOSE_WRITE"})
      BY <1>0, <2>3, AppendProperties DEF WriteTable, World
    <3> QED BY <1>0, <2>3, <3>1 DEF WriteTable, World
  <2>4. ASSUME NEW u \in {"moved", "denied", "unknown"}, ChangeUser(u)
        PROVE  World'
    BY <1>0, <2>4 DEF ChangeUser, World
  <2> QED BY <1>7, <2>1, <2>2, <2>3, <2>4 DEF OutsideNext
<1>8. CASE UNCHANGED tvars
  BY <1>2, <1>8 DEF tvars
<1> QED BY <1>3, <1>4, <1>5, <1>6, <1>7, <1>8 DEF TableNext, Daemon

-----------------------------------------------------------------------------
(* m_map and the heap.                                                     *)

(* Reading an event marks a watch as gone at most: it frees none.          *)
LEMMA ParseKeeps ==
    ASSUME TypeOK, MapsConsistent, ParseEvent
    PROVE  \A v \in Watch :
                /\ watch[v] = NULL <=> watch'[v] = NULL
                /\ watch[v] # NULL => /\ watch'[v].path = watch[v].path
                                      /\ watch'[v].mask = watch[v].mask
<1>0. watch \in [Watch -> WatchObj \cup {NULL}]
  BY DEF TypeOK
<1>1. CASE UNCHANGED watch
  BY <1>1
<1>2. ASSUME NEW wd \in Wd, m_watches[wd] # NULL, Disable(m_watches[wd])
      PROVE  \A v \in Watch :
                /\ watch[v] = NULL <=> watch'[v] = NULL
                /\ watch[v] # NULL => /\ watch'[v].path = watch[v].path
                                      /\ watch'[v].mask = watch[v].mask
  <2> DEFINE w == m_watches[wd]
  <2>1. w \in Watch /\ watch[w] # NULL /\ watch[w] \in WatchObj
    BY <1>0, <1>2 DEF TypeOK, MapsConsistent, DescriptorIndex
  <2>2. watch' = [watch EXCEPT ![w].wd = NoWd, ![w].enabled = FALSE]
    BY <1>2 DEF Disable
  <2> HIDE DEF w
  <2>3. /\ watch'[w] \in WatchObj
        /\ watch'[w].path = watch[w].path /\ watch'[w].mask = watch[w].mask
    BY <1>0, <2>1, <2>2 DEF WatchObj
  <2>4. \A v \in Watch \ {w} : watch'[v] = watch[v]
    BY <1>0, <2>1, <2>2
  <2> QED BY <2>1, <2>3, <2>4, NullAssumption
<1>3. UNCHANGED watch \/ \E wd \in Wd : m_watches[wd] # NULL /\ Disable(m_watches[wd])
  <2>1. Head(m_buf) \in KEvent
    BY HeadTailProperties DEF ParseEvent, TypeOK
  <2>2. Head(m_buf).wd # NoWd => Head(m_buf).wd \in Wd
    BY <2>1 DEF KEvent, Overflow
  <2> QED BY <2>2 DEF ParseEvent
<1> QED BY <1>1, <1>2, <1>3

LEMMA OwnershipStep == TabInv /\ [TableNext]_tvars => Ownership'
<1> SUFFICES ASSUME TabInv, [TableNext]_tvars
             PROVE  Ownership'
  OBVIOUS
<1>0. Ownership /\ Tables /\ Place /\ At /\ TypeOK /\ MapsConsistent
  BY TableTypeParts DEF TabInv
<1>1. ASSUME UNCHANGED <<watch, m_map, m_tab, pc, todo>>
      PROVE  Ownership'
  BY <1>0, <1>1 DEF Ownership, Owned
<1>2. CASE pc' = "dead"
  BY <1>2 DEF Ownership
(* Calls that do not end, for the places in which every watch is owned.    *)
<1>3. ASSUME UNCHANGED <<watch, m_map, m_tab>>,
             {pc, pc'} \subseteq {"add", "poll", "drain", "resume"}
      PROVE  Ownership'
  BY <1>0, <1>3 DEF Ownership, Owned
<1>4. CASE LoadNext
  <2>1. CASE ReadFile \/ Scan
    BY <1>0, <2>1 DEF ReadFile, Scan, Ownership, vars, object
  <2>2. CASE ScanDone
    BY <1>0, <2>2 DEF ScanDone, Ownership, Owned, vars, object
  <2>3. ASSUME NEW w \in Watch, AddEntry(w)
        PROVE  Ownership'
    <3>1. /\ pc = "add" /\ at <= Len(m_tab) /\ watch[w] = NULL
          /\ m_map' = [m_map EXCEPT ![w] = at] /\ UNCHANGED <<pc, m_tab, todo>>
          /\ \E wd : watch' = [watch EXCEPT ![w] =
                        [path |-> m_tab[at].path, mask |-> m_tab[at].mask,
                         wd |-> wd, enabled |-> TRUE]]
      BY <2>3 DEF AddEntry, Adding, AddOk, loading
    <3>2. at \in 1..Len(m_tab)
      BY <1>0, <3>1 DEF At
    <3>3. \A v \in Watch : Owned(v)
      BY <1>0, <3>1 DEF Ownership
    <3>4. watch' \in [Watch -> WatchObj \cup {NULL}]
      BY ObjectStep DEF TypeOK
    <3>5. watch'[w] # NULL /\ watch'[w].path = m_tab[at].path /\ watch'[w].mask = m_tab[at].mask
      <4>1. m_tab[at] \in Entry
        BY <1>0, <3>2 DEF Tables
      <4>2. m_paths'[m_tab[at].path] = w
        BY <1>0, <2>3, <4>1 DEF AddEntry, AddOk, TypeOK, Entry
      <4>3. watch'[w] # NULL
        BY <4>1, <4>2, NullAssumption, ObjectStep DEF MapsConsistent, PathIndex, Entry
      <4> QED BY <1>0, <3>1, <4>3 DEF TypeOK
    <3>6. m_map'[w] = at
      BY <1>0, <3>1 DEF Tables
    <3>7. \A v \in Watch \ {w} : watch'[v] = watch[v] /\ m_map'[v] = m_map[v]
      BY <1>0, <3>1 DEF TypeOK, Tables
    <3> QED BY <3>1, <3>2, <3>3, <3>5, <3>6, <3>7 DEF Ownership, Owned
  <2>4. CASE SkipGlob \/ AddEntryFails \/ AddEntryCollides \/ AddEntryRecovers
    <3>1. UNCHANGED <<watch, m_map, m_tab, pc, todo>>
      BY <2>4 DEF SkipGlob, AddEntryFails, AddEntryCollides, AddEntryRecovers, AddPathTaken,
                  AddFails, AddCollides, AddRecovers, loading, vars, object
    <3> QED BY <1>1, <3>1
  <2>5. CASE AddEntryFaults
    BY <1>2, <2>5 DEF AddEntryFaults
  <2>6. CASE LoadDone
    BY <1>3, <2>6 DEF LoadDone, vars, object
  <2> QED BY <1>4, <2>1, <2>2, <2>3, <2>4, <2>5, <2>6 DEF LoadNext
<1>5. CASE DisposeNext
  <2>1. ASSUME NEW w \in Watch, DisposeWatch(w)
        PROVE  Ownership'
    <3>1. /\ pc = "dispose" /\ pc' = pc /\ todo' = todo \ {w}
          /\ watch' = [watch EXCEPT ![w] = NULL]
      BY <2>1 DEF DisposeWatch, Remove
    <3> QED BY <1>0, <3>1 DEF Ownership, TypeOK
  <2>2. ASSUME NEW w \in Watch, DisposeThrows(w)
        PROVE  Ownership'
    BY <1>2, <2>2 DEF DisposeThrows
  <2>3. CASE Disposed
    BY <1>0, <2>3 DEF Disposed, Ownership, vars, object
  <2>4. CASE Destroyed
    <3>1. \A w \in Watch : watch[w] = NULL
      BY <1>0, <2>4 DEF Destroyed, Ownership
    <3>2. m_paths = [p \in Path |-> NULL]
      BY <1>0, <3>1 DEF MapsConsistent, PathIndex, TypeOK
    <3>3. \A w \in Watch : w # NULL
      BY NullAssumption
    <3>4. \A w \in Watch : watch'[w] = NULL
      BY <2>4, <3>1, <3>2, <3>3 DEF Destroyed, Close, RemoveAll
    <3> QED BY <2>4, <3>4 DEF Destroyed, Ownership
  <2> QED BY <1>5, <2>1, <2>2, <2>3, <2>4 DEF DisposeNext
<1>6. ASSUME NEW r \in {"mgmt", "event", "delete"}, StartDispose(r), UNCHANGED watch,
             pc \in {"poll", "drain"}
      PROVE  Ownership'
  BY <1>0, <1>6 DEF StartDispose, Ownership, Owned
<1>7. CASE EventNext
  <2>1. CASE Parse
    <3>1. m_buf # <<>> /\ pc = "drain" /\ UNCHANGED <<m_map, m_tab, pc, todo>>
      BY <2>1 DEF Parse, ParseEvent, table
    <3>2. \A v \in Watch : watch[v] = NULL <=> watch'[v] = NULL
      BY ParseKeeps, <1>0, <2>1 DEF Parse
    <3>3. \A v \in Watch : watch[v] # NULL =>
            watch'[v].path = watch[v].path /\ watch'[v].mask = watch[v].mask
      BY ParseKeeps, <1>0, <2>1 DEF Parse
    <3> QED BY <1>0, <3>1, <3>2, <3>3 DEF Ownership, Owned
  <2>2. CASE OnEventNoEntry \/ OnEventDenied \/ OnEventRun
    <3>1. UNCHANGED <<watch, m_map, m_tab, pc, todo>>
      BY <2>2 DEF OnEventNoEntry, OnEventDenied, OnEventRun, GetEvent
    <3> QED BY <1>1, <3>1
  <2>3. CASE StartEvents \/ EventsDone \/ OnEventResume
    BY <1>3, <2>3 DEF StartEvents, EventsDone, OnEventResume, ReadEvents, vars, object
  <2>4. CASE IteratorDangles \/ OnEventFaults
    BY <1>2, <2>4 DEF IteratorDangles, OnEventFaults
  <2>5. CASE OnEventReload
    BY <1>6, <2>5 DEF OnEventReload, GetEvent
  <2> QED BY <1>7, <2>1, <2>2, <2>3, <2>4, <2>5 DEF EventNext
<1>8. CASE MgmtNext
  <2>1. CASE MgmtReload \/ MgmtDestroy
    BY <1>6, <2>1 DEF MgmtReload, MgmtDestroy, vars, object
  <2>2. CASE MgmtCreate
    BY <1>0, <2>2 DEF MgmtCreate, Ownership
  <2>3. CASE MgmtNothing
    BY <1>1, <2>3 DEF MgmtNothing, vars, object, table
  <2> QED BY <1>8, <2>1, <2>2, <2>3 DEF MgmtNext
<1>9. CASE OutsideNext
  <2>1. UNCHANGED <<object, table>>
    BY <1>9 DEF OutsideNext, MakeDir, RemoveDir, WriteIn, WriteTable, ChangeUser, vars
  <2> QED BY <1>1, <2>1 DEF object, table
<1>10. CASE UNCHANGED tvars
  BY <1>1, <1>10 DEF tvars, vars, object, table
<1> QED BY <1>4, <1>5, <1>7, <1>8, <1>9, <1>10 DEF TableNext, Daemon

-----------------------------------------------------------------------------
(* Events.                                                                 *)

LEMMA DrainedStep == TabInv /\ [TableNext]_tvars => Drained'
<1> SUFFICES ASSUME TabInv, [TableNext]_tvars
             PROVE  Drained'
  OBVIOUS
<1>0. Drained
  BY DEF TabInv
<1>1. ASSUME UNCHANGED <<m_buf, m_events, pc, why, registered>>
      PROVE  Drained'
  BY <1>0, <1>1 DEF Drained, Reloading
<1>2. CASE pc' = "dead"
  BY <1>2 DEF Drained, Reloading
(* Load and Dispose read no event.                                         *)
<1>3. ASSUME UNCHANGED <<m_buf, m_events, why>>, Reloading,
             Reloading' \/ (why = "delete" /\ pc' = "gone")
      PROVE  Drained'
  BY <1>0, <1>3 DEF Drained, Reloading
<1>4. CASE LoadNext
  <2>1. UNCHANGED <<m_buf, m_events, why>>
    BY <1>4 DEF LoadNext, ReadFile, Scan, ScanDone, SkipGlob, AddEntry, AddEntryFails,
                AddEntryCollides, AddEntryRecovers, AddEntryFaults, LoadDone, loading, AddOk,
                AddPathTaken, AddFails, AddCollides, AddRecovers, vars, object
  <2>2. Reloading
    BY <1>4 DEF LoadNext, ReadFile, Scan, ScanDone, SkipGlob, AddEntry, AddEntryFails,
                AddEntryCollides, AddEntryRecovers, AddEntryFaults, LoadDone, Adding,
                AddRecovers, Reloading, TabInv, Restoring
  <2>3. CASE LoadDone
    <3>1. /\ registered' /\ IF why = "event" THEN pc' = "resume" ELSE pc' = "poll"
      BY <2>3 DEF LoadDone
    <3> QED BY <1>0, <2>1, <2>2, <3>1 DEF Drained, Reloading
  <2>4. CASE AddEntryFaults
    BY <1>2, <2>4 DEF AddEntryFaults
  <2>5. ASSUME ~LoadDone, ~AddEntryFaults
        PROVE  Reloading'
    BY <1>4, <2>2, <2>5
       DEF LoadNext, ReadFile, Scan, ScanDone, SkipGlob, AddEntry, AddEntryFails,
           AddEntryCollides, AddEntryRecovers, loading, Reloading
  <2> QED BY <1>3, <2>1, <2>2, <2>3, <2>4, <2>5
<1>5. CASE DisposeNext
  <2>1. CASE \E w \in Watch : DisposeThrows(w)
    BY <1>2, <2>1 DEF DisposeThrows
  <2>2. CASE Disposed \/ Destroyed \/ \E w \in Watch : DisposeWatch(w)
    <3>1. UNCHANGED <<m_buf, m_events, why>> /\ Reloading
      BY <2>2 DEF Disposed, Destroyed, DisposeWatch, Remove, Close, Reloading, vars, object
    <3>2. Reloading' \/ (why = "delete" /\ pc' = "gone")
      BY <2>2 DEF Disposed, Destroyed, DisposeWatch, Reloading
    <3> QED BY <1>3, <3>1, <3>2
  <2> QED BY <1>5, <2>1, <2>2 DEF DisposeNext
<1>6. CASE EventNext
  <2>1. CASE StartEvents \/ Parse \/ OnEventNoEntry \/ OnEventDenied \/ OnEventRun
             \/ OnEventResume
    <3>1. /\ pc \in {"poll", "drain", "resume"} /\ pc' = "drain" /\ UNCHANGED registered
      BY <2>1 DEF StartEvents, Parse, OnEventNoEntry, OnEventDenied, OnEventRun,
                  OnEventResume, ParseEvent, table
    <3> QED BY <1>0, <3>1 DEF Drained, Reloading
  <2>2. CASE EventsDone
    BY <1>0, <2>2 DEF EventsDone, Drained, Reloading, vars, object
  <2>3. CASE IteratorDangles \/ OnEventFaults
    BY <1>2, <2>3 DEF IteratorDangles, OnEventFaults
  <2>4. CASE OnEventReload
    BY <2>4 DEF OnEventReload, StartDispose, Drained, Reloading
  <2> QED BY <1>6, <2>1, <2>2, <2>3, <2>4 DEF EventNext
<1>7. CASE MgmtNext
  <2>1. CASE MgmtReload \/ MgmtDestroy
    BY <1>0, <2>1 DEF MgmtReload, MgmtDestroy, StartDispose, Drained, Reloading, vars, object
  <2>2. CASE MgmtCreate
    BY <1>0, <2>2 DEF MgmtCreate, Drained, Reloading
  <2>3. CASE MgmtNothing
    BY <1>1, <2>3 DEF MgmtNothing, vars, object, table
  <2> QED BY <1>7, <2>1, <2>2, <2>3 DEF MgmtNext
<1>8. CASE OutsideNext
  <2>1. UNCHANGED <<object, table>>
    BY <1>8 DEF OutsideNext, MakeDir, RemoveDir, WriteIn, WriteTable, ChangeUser, vars
  <2> QED BY <1>1, <2>1 DEF object, table
<1>9. CASE UNCHANGED tvars
  BY <1>1, <1>9 DEF tvars, vars, object, table
<1> QED BY <1>4, <1>5, <1>6, <1>7, <1>8, <1>9 DEF TableNext, Daemon

LEMMA AttributionStep == TabInv /\ [TableNext]_tvars => Attribution'
<1> SUFFICES ASSUME TabInv, [TableNext]_tvars
             PROVE  Attribution'
  OBVIOUS
<1>0. Attribution /\ TypeOK /\ MapsConsistent /\ Tables
  BY TableTypeParts DEF TabInv
<1>1. ASSUME UNCHANGED <<m_events, m_map, m_tab, pc, why, itOk, outcome>>
      PROVE  Attribution'
  BY <1>0, <1>1 DEF Attribution, AsRead, Queued, Right, Reloading
<1>2. CASE LoadNext
  <2>1. UNCHANGED <<why, itOk, outcome>>
    BY <1>2 DEF LoadNext, ReadFile, Scan, ScanDone, SkipGlob, AddEntry, AddEntryFails,
                AddEntryCollides, AddEntryRecovers, AddEntryFaults, LoadDone, loading
  <2>2. Reloading
    BY <1>2 DEF LoadNext, ReadFile, Scan, ScanDone, SkipGlob, AddEntry, AddEntryFails,
                AddEntryCollides, AddEntryRecovers, AddEntryFaults, LoadDone, Adding,
                AddRecovers, Reloading, TabInv, Restoring
  <2>3. Reloading' \/ pc' = "dead" \/ pc' = (IF why = "event" THEN "resume" ELSE "poll")
    BY <1>2, <2>2
       DEF LoadNext, ReadFile, Scan, ScanDone, SkipGlob, AddEntry, AddEntryFails,
           AddEntryCollides, AddEntryRecovers, AddEntryFaults, LoadDone, loading, Reloading
  <2> QED BY <1>0, <2>1, <2>2, <2>3 DEF Attribution, AsRead, Reloading
<1>3. CASE DisposeNext
  <2>1. pc = "dispose" /\ UNCHANGED <<why, itOk, outcome>>
    BY <1>3 DEF DisposeNext, DisposeWatch, DisposeThrows, Disposed, Destroyed
  <2>2. pc' \in {"dispose", "dead"} \/ (why # "delete" /\ pc' = "load")
            \/ (why = "delete" /\ pc' = "gone")
    BY <1>3 DEF DisposeNext, DisposeWatch, DisposeThrows, Disposed, Destroyed
  <2> QED BY <1>0, <2>1, <2>2 DEF Attribution, AsRead, Reloading
<1>4. CASE StartEvents
  <2>1. m_events' = <<>> /\ pc = "poll" /\ pc' = "drain" /\ UNCHANGED <<itOk, outcome>>
    BY <1>4 DEF StartEvents, ReadEvents
  <2> QED BY <1>0, <2>1 DEF Attribution, AsRead, Reloading
<1>5. CASE Parse
  <2>1. pc = "drain" /\ UNCHANGED <<m_map, m_tab, pc, why, itOk, outcome>> /\ ParseEvent
    BY <1>5 DEF Parse, table
  <2>2. Head(m_buf) \in KEvent
    BY <1>0, <2>1, HeadTailProperties DEF ParseEvent, TypeOK
  <2>3. UNCHANGED m_events \/ \E w \in Watch :
            /\ watch[w] # NULL
            /\ m_events' = Append(m_events, [watch |-> w, type |-> Head(m_buf).type,
                                             path |-> watch[w].path])
    BY <1>0, <2>1, <2>2
       DEF ParseEvent, TypeOK, KEvent, Overflow, MapsConsistent, DescriptorIndex
  <2>4. ASSUME NEW w \in Watch, watch[w] # NULL,
               m_events' = Append(m_events, [watch |-> w, type |-> Head(m_buf).type,
                                             path |-> watch[w].path]),
               AsRead
        PROVE  AsRead'
    <3> DEFINE e == [watch |-> w, type |-> Head(m_buf).type, path |-> watch[w].path]
    <3>1. e \in Event
      <4>1. watch[w] \in WatchObj
        BY <1>0, <2>4 DEF TypeOK
      <4>2. Head(m_buf).type \in EventType \/ Head(m_buf) = Overflow
        BY <2>2 DEF KEvent
      <4>3. Head(m_buf) # Overflow
        BY <1>0, <2>1, <2>4, AppendProperties DEF ParseEvent, Overflow, TypeOK
      <4> QED BY <4>1, <4>2, <4>3 DEF Event, WatchObj
    <3>2. Queued(e)
      BY <2>1, <2>4 DEF Queued, TabInv, Ownership, Owned
    <3> HIDE DEF e
    <3>3. \A n \in DOMAIN m_events' : m_events'[n] = e \/ (n \in DOMAIN m_events
                                                            /\ m_events'[n] = m_events[n])
      <4>1. m_events' = Append(m_events, e)
        BY <2>4 DEF e
      <4> QED BY <1>0, <3>1, <4>1, AppendProperties, LenProperties DEF TypeOK
    <3> QED BY <2>1, <2>4, <3>2, <3>3 DEF AsRead, Queued
  <2>5. ASSUME AsRead
        PROVE  AsRead'
    BY <2>1, <2>3, <2>4, <2>5 DEF AsRead, Queued
  <2> QED BY <1>0, <2>1, <2>5 DEF Attribution, Right, Reloading
<1>6. CASE EventsDone
  BY <1>6 DEF EventsDone, Attribution, AsRead, Reloading
<1>7. CASE IteratorDangles
  BY <1>7 DEF IteratorDangles, Attribution, Reloading
<1>8. CASE OnEventFaults
  BY <1>0, <1>8 DEF OnEventFaults, Attribution, AsRead, Reloading, Right
<1>9. CASE OnEventReload
  BY <1>9 DEF OnEventReload, StartDispose, Attribution, Reloading
<1>10. CASE OnEventResume
  BY <1>0, <1>10 DEF OnEventResume, Attribution, Reloading
<1>11. ASSUME pc = "drain", GetEvent, UNCHANGED <<pc, m_tab, m_map, itOk>>, itOk
       PROVE  AsRead' /\ Queued(Evt) /\ Evt.watch \in Watch
  <2>1. m_events # <<>> /\ m_events' = Tail(m_events) /\ m_events \in Seq(Event)
    BY <1>0, <1>11 DEF GetEvent, TypeOK
  <2>2. /\ Evt = m_events[1] /\ Evt \in Event /\ 1 \in DOMAIN m_events
        /\ \A n \in DOMAIN m_events' : n + 1 \in DOMAIN m_events
                                       /\ m_events'[n] = m_events[n + 1]
    BY <2>1, HeadTailProperties, LenProperties, EmptySeq DEF Evt
  <2>3. AsRead
    BY <1>0, <1>11 DEF Attribution
  <2> QED BY <1>11, <2>2, <2>3 DEF AsRead, Queued, Event
<1>12. CASE OnEventNoEntry \/ OnEventDenied
  <2>1. /\ pc = "drain" /\ GetEvent /\ UNCHANGED <<pc, m_tab, m_map, itOk>>
        /\ m_map[Evt.watch] = 0 \/ outcome' = NULL
    BY <1>12 DEF OnEventNoEntry, OnEventDenied
  <2> QED BY <1>11, <2>1 DEF Attribution, Reloading, Queued
<1>13. CASE OnEventRun
  <2>1. /\ pc = "drain" /\ GetEvent /\ UNCHANGED <<pc, m_tab, m_map, itOk>>
        /\ outcome' = [what |-> "run", cmd |-> m_tab[m_map[Evt.watch]].cmd,
                       path |-> watch[Evt.watch].path, evpath |-> Evt.path]
    BY <1>13 DEF OnEventRun, Did
  <2>2. ASSUME itOk
        PROVE  Right(outcome')
    <3>1. Queued(Evt) /\ Evt.watch \in Watch
      BY <1>11, <2>1, <2>2
    <3>2. Owned(Evt.watch)
      BY <2>1, <3>1 DEF TabInv, Ownership
    <3>3. m_map[Evt.watch] \in DOMAIN m_tab
      BY <1>0, <3>1, <3>2, LenProperties DEF Queued, Owned, Tables
    <3> QED BY <2>1, <3>1, <3>2, <3>3 DEF Queued, Owned, Right
  <2> QED BY <1>11, <2>1, <2>2 DEF Attribution, Reloading, Right
<1>14. CASE MgmtNext
  <2>1. CASE MgmtReload \/ MgmtDestroy
    BY <1>0, <2>1 DEF MgmtReload, MgmtDestroy, StartDispose, Attribution, AsRead, Reloading
  <2>2. CASE MgmtCreate
    BY <1>0, <2>2 DEF MgmtCreate, Attribution, AsRead, Reloading
  <2>3. CASE MgmtNothing
    BY <1>1, <2>3 DEF MgmtNothing, vars, object, table
  <2> QED BY <1>14, <2>1, <2>2, <2>3 DEF MgmtNext
<1>15. CASE OutsideNext
  <2>1. UNCHANGED <<object, table>>
    BY <1>15 DEF OutsideNext, MakeDir, RemoveDir, WriteIn, WriteTable, ChangeUser, vars
  <2> QED BY <1>1, <2>1 DEF object, table
<1>16. CASE UNCHANGED tvars
  BY <1>1, <1>16 DEF tvars, vars, object, table
<1> QED BY <1>2, <1>3, <1>4, <1>5, <1>6, <1>7, <1>8, <1>9, <1>10, <1>12, <1>13, <1>14,
           <1>15, <1>16
        DEF TableNext, Daemon, EventNext

-----------------------------------------------------------------------------
(* The table file.                                                         *)

FileRead ==
    file # NULL /\ \A n \in DOMAIN file : n \in DOMAIN m_tab /\ m_tab[n] = file[n]

(* The last unread event says whether there is a file; with none unread    *)
(* the thread is where the file as it is now has led it.                   *)
Newest ==
    /\ news # <<>> => (news[Len(news)] = "IN_DELETE" <=> file = NULL)
    /\ news = <<>> =>
            /\ pc \in {"scan", "add", "poll", "drain", "resume"} => FileRead
            /\ pc = "load" => file # NULL
            /\ pc = "dispose" => (why = "delete" <=> file = NULL)
            /\ pc = "gone" => file = NULL \/ (~fSysTable /\ ~CheckUser)

(* The events behind the one taken are still the last; if there are none   *)
(* it was itself the last.                                                 *)
LEMMA TakeNews ==
    ASSUME TabInv, Newest, news # <<>>, news' = Tail(news)
    PROVE  /\ news' # <<>> => news'[Len(news')] = news[Len(news)]
           /\ news' = <<>> => (Head(news) = "IN_DELETE" <=> file = NULL)
           /\ Head(news) \in {"IN_DELETE", "IN_CLOSE_WRITE"}
<1>1. news \in Seq({"IN_DELETE", "IN_CLOSE_WRITE"})
  BY TableTypeParts DEF TabInv, World
<1>2. /\ Len(news) \in Nat \ {0} /\ Head(news) = news[1]
      /\ Head(news) \in {"IN_DELETE", "IN_CLOSE_WRITE"}
      /\ news' \in Seq({"IN_DELETE", "IN_CLOSE_WRITE"}) /\ Len(news') = Len(news) - 1
      /\ \A n \in 1..Len(news') : news'[n] = news[n + 1]
  BY <1>1, HeadTailProperties, EmptySeq, LenProperties
<1>3. CASE news' = <<>>
  <2>1. Len(news) = 1
    <3>1. Len(news') = Len(news) - 1 /\ Len(news) \in Nat
      BY <1>2
    <3>2. Len(news') = 0
      BY <1>3, EmptySeq, Zenon
    <3>3. \A k \in Nat : k - 1 = 0 => k = 1
      OBVIOUS
    <3> QED BY <3>1, <3>2, <3>3, Zenon
  <2>2. news[Len(news)] = Head(news)
    BY <1>2, <2>1
  <2>3. news[Len(news)] = "IN_DELETE" <=> file = NULL
    BY DEF Newest
  <2> QED BY <1>2, <1>3, <2>2, <2>3
<1>4. CASE news' # <<>>
  <2>1. Len(news') \in 1..Len(news')
    BY <1>2, <1>4, EmptySeq, LenProperties
  <2>2. news'[Len(news')] = news[Len(news') + 1]
    BY <1>2, <2>1
  <2>3. Len(news') + 1 = Len(news)
    BY <1>2
  <2> QED BY <1>2, <1>4, <2>2, <2>3
<1> QED BY <1>3, <1>4

LEMMA NewestInit == TableInit => Newest
  BY TableAssumption DEF TableInit, Newest

LEMMA NewestStep == TabInv /\ Newest /\ [TableNext]_tvars => Newest'
<1> SUFFICES ASSUME TabInv, Newest, [TableNext]_tvars
             PROVE  Newest'
  OBVIOUS
<1>0. Tables /\ Place /\ World /\ Drained
  BY TableTypeParts DEF TabInv
<1>1. ASSUME UNCHANGED <<file, news, user, m_tab, why>>, pc' = pc
      PROVE  Newest'
  BY <1>1 DEF Newest, FileRead, CheckUser
<1>2. ASSUME UNCHANGED <<file, news>>, pc' = "dead"
      PROVE  Newest'
  BY <1>2 DEF Newest
<1>3. ASSUME UNCHANGED <<file, news, m_tab>>,
             pc \in {"scan", "add", "poll", "drain", "resume"},
             pc' \in {"scan", "add", "poll", "drain", "resume"}
      PROVE  Newest'
  BY <1>3 DEF Newest, FileRead
<1>4. CASE LoadNext
  <2>1. CASE ReadFile
    <3>1. /\ pc = "load" /\ pc' = "scan" /\ UNCHANGED <<file, news>>
          /\ file # NULL => m_tab' = file
      BY <2>1 DEF ReadFile
    <3> QED BY <3>1 DEF Newest, FileRead
  <2>2. CASE Scan
    <3>1. /\ pc = "scan" /\ UNCHANGED <<file, news, pc>>
          /\ m_tab \in Seq(Entry) /\ m_tab' \in Seq(Entry)
      <4>1. Tables'
        BY TablesStep
      <4> QED BY <1>0, <2>2, <4>1 DEF Scan, Tables
    <3>2. \A n \in DOMAIN m_tab : n \in DOMAIN m_tab' /\ m_tab'[n] = m_tab[n]
      <4>1. CASE UNCHANGED m_tab
        BY <4>1
      <4>2. ASSUME NEW q \in SubDirs(m_tab[at]),
                   m_tab' = m_tab \o [n \in DOMAIN q |-> [m_tab[at] EXCEPT !.path = q[n]]]
            PROVE  \A n \in DOMAIN m_tab : n \in DOMAIN m_tab' /\ m_tab'[n] = m_tab[n]
        <5> DEFINE x == [n \in DOMAIN q |-> [m_tab[at] EXCEPT !.path = q[n]]]
        <5>1. at \in 1..Len(m_tab)
          BY <1>0, <2>2 DEF Scan, TabInv, At, Tables
        <5>2. m_tab[at] \in Entry
          BY <3>1, <5>1
        <5>3. q \in Seq(Path)
          BY <5>2, SubDirsArePaths DEF Entry
        <5>4. Len(q) \in Nat /\ q \in [1..Len(q) -> Path]
          BY <5>3, LenProperties
        <5>5. x \in [1..Len(q) -> Entry]
          BY <5>2, <5>4 DEF Entry
        <5>6. x \in Seq(Entry)
          BY <5>4, <5>5, SeqDef
        <5> HIDE DEF x
        <5>7. m_tab' = m_tab \o x
          BY <4>2 DEF x
        <5> QED BY <3>1, <5>6, <5>7, ConcatProperties, LenProperties
      <4> QED BY <2>2, <4>1, <4>2 DEF Scan
    <3> QED BY <3>1, <3>2 DEF Newest, FileRead
  <2>3. CASE ScanDone
    BY <1>3, <2>3 DEF ScanDone, outside
  <2>4. CASE SkipGlob \/ AddEntryFails \/ AddEntryCollides \/ AddEntryRecovers
             \/ \E w \in Watch : AddEntry(w)
    <3>1. UNCHANGED <<file, news, user, m_tab, why, pc>>
      BY <2>4 DEF SkipGlob, AddEntryFails, AddEntryCollides, AddEntryRecovers, AddEntry,
                  loading, outside
    <3> QED BY <1>1, <3>1
  <2>5. CASE AddEntryFaults
    BY <1>2, <2>5 DEF AddEntryFaults, outside
  <2>6. CASE LoadDone
    BY <1>3, <2>6 DEF LoadDone, outside
  <2> QED BY <1>4, <2>1, <2>2, <2>3, <2>4, <2>5, <2>6 DEF LoadNext
<1>5. CASE DisposeNext
  <2>1. CASE \E w \in Watch : DisposeWatch(w)
    BY <1>1, <2>1 DEF DisposeWatch, outside
  <2>2. CASE \E w \in Watch : DisposeThrows(w)
    BY <1>2, <2>2 DEF DisposeThrows, outside
  <2>3. CASE Disposed
    BY <2>3 DEF Disposed, outside, Newest
  <2>4. CASE Destroyed
    BY <2>4 DEF Destroyed, outside, Newest
  <2> QED BY <1>5, <2>1, <2>2, <2>3, <2>4 DEF DisposeNext
<1>6. CASE EventNext
  <2>1. CASE StartEvents \/ EventsDone \/ OnEventNoEntry \/ OnEventDenied \/ OnEventRun
             \/ OnEventResume
    <3>1. /\ UNCHANGED <<file, news, m_tab>> /\ pc \in {"poll", "drain", "resume"}
          /\ pc' \in {"poll", "drain", "resume"}
      BY <2>1 DEF StartEvents, EventsDone, OnEventNoEntry, OnEventDenied, OnEventRun,
                  OnEventResume, outside
    <3> QED BY <1>3, <3>1
  <2>2. CASE Parse
    BY <1>1, <2>2 DEF Parse, table, outside
  <2>3. CASE IteratorDangles \/ OnEventFaults
    BY <1>2, <2>3 DEF IteratorDangles, OnEventFaults, outside
  <2>4. CASE OnEventReload
    <3>1. /\ pc = "drain" /\ pc' = "dispose" /\ why' = "event" /\ UNCHANGED <<file, news>>
      BY <2>4 DEF OnEventReload, StartDispose, outside
    <3> QED BY <3>1 DEF Newest, FileRead
  <2> QED BY <1>6, <2>1, <2>2, <2>3, <2>4 DEF EventNext
<1>7. CASE MgmtNext
  <2>1. /\ news # <<>> /\ news' = Tail(news) /\ UNCHANGED <<file, user>>
        /\ news' # <<>> => news'[Len(news')] = news[Len(news)]
        /\ news' = <<>> => (Head(news) = "IN_DELETE" <=> file = NULL)
        /\ Head(news) \in {"IN_DELETE", "IN_CLOSE_WRITE"}
    <3>1. news # <<>> /\ news' = Tail(news) /\ UNCHANGED <<file, user>>
      BY <1>7 DEF MgmtNext, MgmtReload, MgmtDestroy, MgmtCreate, MgmtNothing
    <3> QED BY <3>1, TakeNews
  <2>2. CASE MgmtReload
    BY <2>1, <2>2 DEF MgmtReload, StartDispose, Newest
  <2>3. CASE MgmtDestroy
    BY <2>1, <2>3 DEF MgmtDestroy, StartDispose, Newest
  <2>4. CASE MgmtCreate
    BY <2>1, <2>4 DEF MgmtCreate, Newest
  <2>5. CASE MgmtNothing
    <3>1. pc = "gone" /\ UNCHANGED pc
      BY <2>5 DEF MgmtNothing, table
    <3>2. Head(news) = "IN_CLOSE_WRITE" => ~fSysTable /\ ~CheckUser
      BY <2>5 DEF MgmtNothing
    <3> QED BY <2>1, <3>1, <3>2 DEF Newest, CheckUser
  <2> QED BY <1>7, <2>2, <2>3, <2>4, <2>5 DEF MgmtNext
<1>8. CASE OutsideNext
  <2>1. CASE \/ \E p \in Path, i \in Inode : MakeDir(p, i)
             \/ \E p \in Path : RemoveDir(p)
             \/ \E p \in Path, t \in Type \ {DirCreated} : WriteIn(p, t)
    <3>1. UNCHANGED <<file, news, user, m_tab, why, pc>>
      BY <2>1 DEF MakeDir, RemoveDir, WriteIn, table
    <3> QED BY <1>1, <3>1
  <2>2. ASSUME NEW c \in Table \cup {NULL}, WriteTable(c)
        PROVE  Newest'
    <3> DEFINE e == IF c = NULL THEN "IN_DELETE" ELSE "IN_CLOSE_WRITE"
    <3>1. file' = c /\ news' = Append(news, e)
      BY <2>2 DEF WriteTable
    <3>2. news \in Seq({"IN_DELETE", "IN_CLOSE_WRITE"}) /\ e \in {"IN_DELETE", "IN_CLOSE_WRITE"}
      BY <1>0 DEF World
    <3>3. e = "IN_DELETE" <=> c = NULL
      OBVIOUS
    <3> HIDE DEF e
    <3>4. news' # <<>> /\ news'[Len(news')] = e
      BY <3>1, <3>2, AppendProperties, LenProperties, EmptySeq
    <3> QED BY <3>1, <3>3, <3>4 DEF Newest
  <2>3. ASSUME NEW u \in {"moved", "denied", "unknown"}, ChangeUser(u)
        PROVE  Newest'
    <3>1. UNCHANGED <<file, news, m_tab, why, pc>> /\ (~CheckUser => ~CheckUser')
      BY <1>0, <2>3 DEF ChangeUser, table, CheckUser, World
    <3> QED BY <3>1 DEF Newest, FileRead
  <2> QED BY <1>8, <2>1, <2>2, <2>3 DEF OutsideNext
<1>9. CASE UNCHANGED tvars
  BY <1>1, <1>9 DEF tvars, table, outside
<1> QED BY <1>4, <1>5, <1>6, <1>7, <1>8, <1>9 DEF TableNext, Daemon

-----------------------------------------------------------------------------
(* Directories: where an event about one may be, and how far Load is.      *)

(* The file system of directories and links to them.                       *)
Tree ==
    /\ \A p \in Path : fs[p] = fs[Target[p]]
    /\ \A p, q \in Path : fs[p] # NULL /\ fs[p] = fs[q] => Target[p] = Target[q]

LEMMA TreeStep == TabInv /\ Tree /\ [TableNext]_tvars => Tree'
<1> SUFFICES ASSUME TabInv, Tree, [TableNext]_tvars
             PROVE  Tree'
  OBVIOUS
<1>0. fs \in [Path -> Inode \cup {NULL}]
  BY DEF TabInv, TableTypeOK, TypeOK
<1>1. CASE UNCHANGED fs
  BY <1>1 DEF Tree
<1>2. ASSUME NEW p \in Path, NEW i \in Inode, MakeDir(p, i)
      PROVE  Tree'
  <2>1. /\ fs' = [q \in Path |-> IF Target[q] = p THEN i ELSE fs[q]]
        /\ fs[p] = NULL /\ \A q \in Path : fs[q] # i
    BY <1>2 DEF MakeDir, Names
  <2>2. i # NULL
    BY NullAssumption
  <2> QED BY <1>0, <2>1, <2>2, TreeAssumption DEF Tree
<1>3. ASSUME NEW p \in Path, RemoveDir(p)
      PROVE  Tree'
  <2>1. fs' = [q \in Path |-> IF Target[q] = p THEN NULL ELSE fs[q]]
    BY <1>3 DEF RemoveDir
  <2> QED BY <1>0, <2>1, TreeAssumption DEF Tree
<1>4. CASE TreeNext
  BY <1>1, <1>2, <1>3, <1>4 DEF TreeNext, WriteIn
<1>5. CASE ObjectNext
  BY <1>1, <1>5 DEF ObjectNext, AddNext, RemoveNext, AddOk, AddPathTaken, AddFails, AddCollides,
              AddRecovers, Remove, RemoveThrows, ReadEvents, ParseEvent, GetEvent, Close
<1>6. CASE MgmtCreate
  BY <1>1, <1>6 DEF MgmtCreate
<1>7. CASE UNCHANGED vars
  BY <1>1, <1>7 DEF vars
<1> QED BY <1>4, <1>5, <1>6, <1>7, Calls

(* Descriptors the object knows have been given out; those it has read the *)
(* end of, or will, are gone; one that is still the kernel's, too, is of   *)
(* the inode its path leads to.                                            *)
Known == \A wd \in Wd : m_watches[wd] # NULL => wd < kernel.next
InPlace ==
    \A wd \in Wd : m_watches[wd] # NULL /\ kernel.watch[wd] # NULL =>
        fs[watch[m_watches[wd]].path] = kernel.watch[wd].ino
NumInv == KernelOk(kernel) /\ Silent(m_buf, kernel) /\ Known /\ InPlace

LEMMA SilentShrinks ==
    ASSUME NEW k \in Kernel, NEW k1, Shrinks(k, k1), NEW s \in Seq(KEvent), Silent(s, k)
    PROVE  Silent(s, k1)
<1>1. \A n \in DOMAIN s : s[n].type = "IN_IGNORED" => s[n].wd \in Wd
  BY DEF KEvent, Overflow
<1> QED BY <1>1 DEF Silent, Shrinks

(* Other processes: fs may change where no watch is in place.              *)
LEMMA NumTree ==
    ASSUME TypeOK, MapsConsistent, NumInv, Shrinks(kernel, kernel'), KernelOk(kernel'),
           UNCHANGED object,
           \A wd \in Wd : m_watches[wd] # NULL /\ kernel'.watch[wd] # NULL =>
                LET p == watch[m_watches[wd]].path IN fs'[p] = fs[p]
    PROVE  NumInv'
<1>1. UNCHANGED <<m_watches, watch, m_buf>>
  BY DEF object
<1>2. Silent(m_buf, kernel')
  BY SilentShrinks DEF TypeOK, NumInv
<1>3. \A wd \in Wd : kernel'.watch[wd] # NULL => kernel'.watch[wd] = kernel.watch[wd]
  BY DEF Shrinks
<1>4. Known'
  BY <1>1 DEF Known, NumInv, Shrinks
<1>5. InPlace'
  BY <1>1, <1>3 DEF InPlace, NumInv
<1> QED BY <1>1, <1>2, <1>4, <1>5 DEF NumInv

LEMMA NumOutside ==
    ASSUME TypeOK, MapsConsistent, NumInv, Tree, TreeNext
    PROVE  NumInv'
<1>0. /\ fs \in [Path -> Inode \cup {NULL}] /\ kernel \in Kernel /\ KernelOk(kernel)
      /\ kernel.watch \in [Wd -> KWatch \cup {NULL}]
  BY DEF TypeOK, NumInv, Kernel
<1>d. ASSUME NEW i, NEW t \in Type
      PROVE  Shrinks(kernel, Deliver(kernel, i, t)) /\ KernelOk(Deliver(kernel, i, t))
  BY <1>0, TypeAssumption, DeliverShrinks, DeliverOk DEF EventType
<1>p. \A wd \in Wd : m_watches[wd] # NULL => watch[m_watches[wd]].path \in Path
  BY DEF TypeOK, MapsConsistent, DescriptorIndex, WatchObj
<1>i. \A wd \in Wd : kernel.watch[wd] # NULL => kernel.watch[wd].ino \in Inode
  BY <1>0 DEF KWatch
<1>1. ASSUME NEW p \in Path, NEW i \in Inode, MakeDir(p, i)
      PROVE  NumInv'
  <2>1. /\ fs' = [q \in Path |-> IF Target[q] = p THEN i ELSE fs[q]]
        /\ fs[p] = NULL /\ UNCHANGED object
    BY <1>1 DEF MakeDir
  <2>2. kernel' = kernel \/ kernel' = Deliver(kernel, fs[Parent[p]], DirCreated)
    BY <1>1 DEF MakeDir
  <2>3. Shrinks(kernel, kernel') /\ KernelOk(kernel')
    BY <1>0, <1>d, <2>2, TableAssumption DEF Shrinks
  <2>4. ASSUME NEW wd \in Wd, m_watches[wd] # NULL, kernel'.watch[wd] # NULL
        PROVE  fs'[watch[m_watches[wd]].path] = fs[watch[m_watches[wd]].path]
    <3> DEFINE q == watch[m_watches[wd]].path
    <3>1. kernel.watch[wd] # NULL
      BY <2>3, <2>4 DEF Shrinks
    <3>2. q \in Path /\ fs[q] = kernel.watch[wd].ino
      BY <1>p, <2>4, <3>1 DEF NumInv, InPlace
    <3>3. fs[q] # NULL
      BY <1>i, <3>1, <3>2, NullAssumption
    <3>4. Target[q] # p
      BY <2>1, <3>2, <3>3 DEF Tree
    <3> QED BY <2>1, <3>2, <3>4
  <2> QED BY <2>1, <2>3, <2>4, NumTree
<1>2. ASSUME NEW p \in Path, RemoveDir(p)
      PROVE  NumInv'
  <2>1. /\ fs' = [q \in Path |-> IF Target[q] = p THEN NULL ELSE fs[q]]
        /\ kernel' = Die(kernel, fs[p]) /\ UNCHANGED object
    BY <1>2 DEF RemoveDir
  <2>2. Shrinks(kernel, kernel') /\ KernelOk(kernel') /\ KWatches(kernel', fs[p]) = {}
    BY <1>0, <2>1, DieShrinks, DieOk
  <2>3. ASSUME NEW wd \in Wd, m_watches[wd] # NULL, kernel'.watch[wd] # NULL
        PROVE  fs'[watch[m_watches[wd]].path] = fs[watch[m_watches[wd]].path]
    <3> DEFINE q == watch[m_watches[wd]].path
    <3>1. kernel.watch[wd] # NULL /\ kernel'.watch[wd] = kernel.watch[wd]
      BY <2>2, <2>3 DEF Shrinks
    <3>2. q \in Path /\ fs[q] = kernel'.watch[wd].ino
      BY <1>p, <2>3, <3>1 DEF NumInv, InPlace
    <3>3. fs[q] # fs[p]
      BY <2>2, <2>3, <3>2 DEF KWatches
    <3>4. Target[q] # p
      BY <3>2, <3>3 DEF Tree
    <3> QED BY <2>1, <3>2, <3>4
  <2> QED BY <2>1, <2>2, <2>3, NumTree
<1>3. ASSUME NEW p \in Path, NEW t \in Type, WriteIn(p, t)
      PROVE  NumInv'
  <2>1. kernel' = Deliver(kernel, fs[p], t) /\ UNCHANGED <<fs, object>>
    BY <1>3 DEF WriteIn
  <2> QED BY <1>d, <2>1, NumTree
<1> QED BY <1>1, <1>2, <1>3 DEF TreeNext

(* A watch that is added: the descriptor is one that was there, or new.    *)
LEMMA NumAdded ==
    ASSUME TypeOK, MapsConsistent, NumInv, NEW i \in Inode, NEW mask \in Mask,
           CanAddWatch(kernel, i), kernel' = AddWatch(kernel, i, mask),
           UNCHANGED <<fs, m_buf>>,
           \/ UNCHANGED <<m_watches, watch>>
           \/ \E w \in Watch :
                /\ watch[w] = NULL /\ m_watches[WdFor(kernel, i)] = NULL
                /\ m_watches' = [m_watches EXCEPT ![WdFor(kernel, i)] = w]
                /\ \A v \in Watch \ {w} : watch'[v] = watch[v]
                /\ fs[watch'[w].path] = i
    PROVE  NumInv'
<1> DEFINE wd == WdFor(kernel, i)
           r == [ino |-> i, mask |-> mask]
<1>1. /\ KernelOk(kernel') /\ wd \in Wd /\ wd < kernel'.next /\ kernel.next <= kernel'.next
      /\ kernel'.watch[wd] = r
      /\ \A v \in Wd \ {wd} : kernel'.watch[v] = kernel.watch[v]
      /\ IF KWatches(kernel, i) = {} THEN wd = kernel.next /\ kernel.watch[wd] = NULL
         ELSE kernel.watch[wd] # NULL /\ kernel.watch[wd].ino = i
      /\ \A s \in Seq(KEvent) : Silent(s, kernel) => Silent(s, kernel')
  BY AddedWatch DEF NumInv
<1>2. Silent(m_buf', kernel')
  BY <1>1 DEF TypeOK, NumInv
<1>3. /\ Wd \subseteq Nat /\ kernel.next \in Nat /\ kernel'.next \in Nat
      /\ r.ino = i /\ m_watches \in [Wd -> Watch \cup {NULL}]
  BY <1>1 DEF Wd, TypeOK, Kernel, KernelOk
<1>n. kernel.next <= kernel'.next
  BY <1>1
<1>4. \A v \in Wd : v < kernel.next => v < kernel'.next
  BY <1>3, <1>n
<1>5. \A v \in Wd : m_watches[v] # NULL => m_watches[v] \in Watch /\ watch[m_watches[v]] # NULL
  BY <1>3 DEF MapsConsistent, DescriptorIndex
<1> HIDE DEF wd, r
<1>6. CASE UNCHANGED <<m_watches, watch>>
  <2>1. m_watches[wd] # NULL => kernel.watch[wd] # NULL /\ kernel.watch[wd].ino = i
    <3> SUFFICES ASSUME m_watches[wd] # NULL, wd = kernel.next
                 PROVE  FALSE
      BY <1>1
    <3>1. wd < kernel.next
      BY <1>1 DEF NumInv, Known
    <3> QED BY <1>3, <3>1
  <2>2. Known'
    BY <1>4, <1>6 DEF NumInv, Known
  <2>3. InPlace'
    BY <1>1, <1>3, <1>6, <2>1 DEF NumInv, InPlace
  <2> QED BY <1>1, <1>2, <2>2, <2>3 DEF NumInv
<1>7. ASSUME NEW w \in Watch, watch[w] = NULL, m_watches[wd] = NULL,
             m_watches' = [m_watches EXCEPT ![wd] = w],
             \A v \in Watch \ {w} : watch'[v] = watch[v],
             fs[watch'[w].path] = i
      PROVE  NumInv'
  <2>1. /\ m_watches'[wd] = w
        /\ \A v \in Wd \ {wd} : m_watches'[v] = m_watches[v]
    BY <1>1, <1>3, <1>7
  <2>2. \A v \in Wd \ {wd} : m_watches[v] # NULL =>
            watch'[m_watches'[v]] = watch[m_watches[v]]
    BY <1>5, <1>7, <2>1
  <2>3. Known'
    BY <1>1, <1>4, <2>1 DEF NumInv, Known
  <2>4. InPlace'
    <3>1. ASSUME NEW v \in Wd, v # wd, m_watches'[v] # NULL, kernel'.watch[v] # NULL
          PROVE  fs'[watch'[m_watches'[v]].path] = kernel'.watch[v].ino
      <4>1. kernel'.watch[v] = kernel.watch[v] /\ m_watches[v] # NULL
        BY <1>1, <2>1, <3>1
      <4> QED BY <2>2, <3>1, <4>1 DEF NumInv, InPlace
    <3>2. fs'[watch'[m_watches'[wd]].path] = kernel'.watch[wd].ino
      BY <1>1, <1>3, <1>7, <2>1
    <3> QED BY <3>1, <3>2 DEF InPlace
  <2> QED BY <1>1, <1>2, <2>3, <2>4 DEF NumInv
<1> QED BY <1>6, <1>7 DEF wd

LEMMA NumStep == TabInv /\ Tree /\ NumInv /\ [TableNext]_tvars => NumInv'
<1> SUFFICES ASSUME TabInv, Tree, NumInv, [TableNext]_tvars
             PROVE  NumInv'
  OBVIOUS
<1>0. /\ TypeOK /\ MapsConsistent /\ kernel \in Kernel /\ KernelOk(kernel)
      /\ m_watches \in [Wd -> Watch \cup {NULL}] /\ m_buf \in Seq(KEvent)
      /\ watch \in [Watch -> WatchObj \cup {NULL}]
  BY DEF TabInv, TableTypeOK, TypeOK, NumInv
<1>1. ASSUME UNCHANGED <<fs, kernel, m_watches, watch, m_buf>>
      PROVE  NumInv'
  BY <1>1 DEF NumInv, Known, InPlace
<1>2. ASSUME NEW w \in Watch, NEW p \in Path, NEW mask \in Mask, AddOk(w, p, mask)
      PROVE  NumInv'
  <2> DEFINE i == fs[p]
  <2>1. /\ i \in Inode /\ CanAddWatch(kernel, i) /\ kernel' = AddWatch(kernel, i, mask)
        /\ watch[w] = NULL /\ m_watches[WdFor(kernel, i)] = NULL
        /\ m_watches' = [m_watches EXCEPT ![WdFor(kernel, i)] = w]
        /\ UNCHANGED <<fs, m_buf>>
    BY <1>0, <1>2 DEF AddOk, TypeOK
  <2>2. \E o : o.path = p /\ watch' = [watch EXCEPT ![w] = o]
    BY <1>2 DEF AddOk
  <2>3. fs[watch'[w].path] = i /\ \A v \in Watch \ {w} : watch'[v] = watch[v]
    BY <1>0, <2>2
  <2> HIDE DEF i
  <2> QED BY <1>0, <2>1, <2>3, NumAdded
<1>3. ASSUME NEW p \in Path, NEW mask \in Mask, AddCollides(p, mask)
      PROVE  NumInv'
  <2> DEFINE i == fs[p]
  <2>1. /\ i \in Inode /\ CanAddWatch(kernel, i) /\ kernel' = AddWatch(kernel, i, mask)
        /\ UNCHANGED <<fs, m_buf, m_watches, watch>>
    BY <1>0, <1>3 DEF AddCollides, TypeOK
  <2> HIDE DEF i
  <2> QED BY <1>0, <2>1, NumAdded
<1>4. CASE AddRecovers
  <2> DEFINE i == fs[watch[recovering].path]
             mask == watch[recovering].mask
  <2>1. watch[recovering] \in WatchObj
    BY <1>0, <1>4 DEF AddRecovers, TypeOK, MapsConsistent
  <2>2. mask \in Mask /\ i \in Inode \cup {NULL}
    BY <1>0, <2>1 DEF WatchObj, TypeOK
  <2>3. /\ UNCHANGED <<fs, m_buf, m_watches, watch>>
        /\ kernel' = kernel \/ (i # NULL /\ CanAddWatch(kernel, i)
                               /\ kernel' = AddWatch(kernel, i, mask))
    BY <1>4 DEF AddRecovers
  <2> HIDE DEF i, mask
  <2> QED BY <1>0, <1>1, <2>2, <2>3, NumAdded
<1>5. ASSUME NEW w \in Watch, Remove(w)
      PROVE  NumInv'
  <2> DEFINE wd == watch[w].wd
  <2>1. /\ watch[w] # NULL /\ watch' = [watch EXCEPT ![w] = NULL]
        /\ m_buf = <<>> /\ UNCHANGED <<fs, m_buf>>
    BY <1>5 DEF Remove, Idle
  <2>2. \A v \in Wd : m_watches[v] # NULL => m_watches[v] \in Watch /\ watch[m_watches[v]].wd = v
    BY <1>0 DEF MapsConsistent, DescriptorIndex
  <2>3. Silent(m_buf', kernel')
    BY <2>1 DEF Silent
  <2>4. CASE wd = NoWd
    <3>1. UNCHANGED <<kernel, m_watches>>
      BY <1>5, <2>4 DEF Remove
    <3>2. \A v \in Wd : m_watches[v] # NULL => m_watches[v] # w
      BY <2>2, <2>4 DEF NoWd, Wd
    <3>3. InPlace'
      BY <1>0, <2>1, <2>2, <3>1, <3>2 DEF NumInv, InPlace
    <3> QED BY <2>3, <3>1, <3>3 DEF NumInv, Known
  <2>5. CASE wd # NoWd
    <3>1. /\ wd \in Wd /\ kernel.watch[wd] # NULL /\ kernel' = Drop(kernel, wd)
          /\ m_watches' = [m_watches EXCEPT ![wd] = NULL]
      BY <1>0, <1>5, <2>1, <2>5 DEF Remove, WatchObj
    <3> HIDE DEF wd
    <3>2. wd < kernel.next
      BY <1>0, <3>1 DEF KernelOk, KernelInv
    <3>3. KernelOk(kernel') /\ Shrinks(kernel, kernel')
      BY <1>0, <3>1, <3>2, DropOk, DropShrinks
    <3>4. \A v \in Wd : m_watches'[v] # NULL => m_watches'[v] = m_watches[v] /\ v # wd
      BY <1>0, <3>1
    <3>5. \A v \in Wd : m_watches'[v] # NULL => watch'[m_watches'[v]] = watch[m_watches[v]]
      BY <1>0, <2>1, <2>2, <3>4 DEF wd
    <3>6. Known'
      BY <3>3, <3>4 DEF NumInv, Known, Shrinks
    <3>7. InPlace'
      BY <2>1, <3>3, <3>4, <3>5 DEF NumInv, InPlace, Shrinks
    <3> QED BY <2>3, <3>3, <3>6, <3>7 DEF NumInv
  <2> QED BY <2>4, <2>5
<1>6. CASE ReadEvents
  <2> DEFINE q == kernel.queue
             n == IF Len(q) > BufLen THEN BufLen ELSE Len(q)
  <2>1. q \in Seq(KEvent) /\ Len(q) \in Nat /\ n \in 0..Len(q)
    BY <1>0, BoundAssumption DEF Kernel
  <2>2. /\ m_buf' = SubSeq(q, 1, n)
        /\ kernel' = [kernel EXCEPT !.queue = SubSeq(q, n + 1, Len(q))]
        /\ UNCHANGED <<fs, m_watches, watch>>
    BY <1>6 DEF ReadEvents
  <2>3. kernel' \in Kernel
    BY <1>0, <1>6, ReadTypes
  <2>4. /\ DOMAIN SubSeq(q, 1, n) = 1..n
        /\ \A j \in 1..n : SubSeq(q, 1, n)[j] = q[j] /\ j \in DOMAIN q
    BY <2>1, SubSeqProperties
  <2>5. /\ DOMAIN SubSeq(q, n + 1, Len(q)) = 1..(Len(q) - n)
        /\ \A j \in 1..(Len(q) - n) : SubSeq(q, n + 1, Len(q))[j] = q[n + j] /\ n + j \in DOMAIN q
    <3>1. /\ Len(SubSeq(q, n + 1, Len(q))) = Len(q) - n
          /\ SubSeq(q, n + 1, Len(q)) \in Seq(KEvent)
          /\ \A j \in 1..(Len(q) - n) : SubSeq(q, n + 1, Len(q))[j] = q[n + j]
      BY <2>1, SubSeqProperties
    <3>2. \A j \in 1..(Len(q) - n) : n + j \in 1..Len(q)
      BY <2>1
    <3> QED BY <2>1, <3>1, <3>2
  <2> HIDE DEF n
  <2>6. /\ kernel'.watch = kernel.watch /\ kernel'.next = kernel.next
        /\ kernel'.queue = SubSeq(q, n + 1, Len(q))
    BY <1>0, <2>2 DEF Kernel
  <2> HIDE DEF q
  <2>7. Silent(q, kernel)
    BY <1>0 DEF KernelOk, q
  <2>8. Silent(m_buf', kernel') /\ Silent(kernel'.queue, kernel')
    <3>1. \A s : (\A j \in DOMAIN s : \E m \in DOMAIN q : s[j] = q[m]) => Silent(s, kernel')
      BY <2>6, <2>7 DEF Silent
    <3>2. \A j \in DOMAIN m_buf' : \E m \in DOMAIN q : m_buf'[j] = q[m]
      BY <2>2, <2>4
    <3>3. \A j \in DOMAIN kernel'.queue : \E m \in DOMAIN q : kernel'.queue[j] = q[m]
      BY <2>5, <2>6
    <3> QED BY <3>1, <3>2, <3>3
  <2>9. KernelInv(kernel')
    BY <1>0, <2>6 DEF KernelOk, KernelInv
  <2>10. Known' /\ InPlace'
    BY <2>2, <2>6 DEF NumInv, Known, InPlace
  <2> QED BY <2>3, <2>8, <2>9, <2>10 DEF NumInv, KernelOk
<1>7. CASE ParseEvent
  <2>1. m_buf # <<>> /\ m_buf' = Tail(m_buf) /\ UNCHANGED <<fs, kernel>>
    BY <1>7 DEF ParseEvent
  <2>2. /\ \A v \in Wd : m_watches'[v] # NULL => m_watches'[v] = m_watches[v]
        /\ \A w \in Watch : watch[w] # NULL => watch'[w].path = watch[w].path
    BY <1>0, <1>7 DEF ParseEvent, Disable, WatchObj
  <2>3. \A v \in Wd : m_watches[v] # NULL => m_watches[v] \in Watch /\ watch[m_watches[v]] # NULL
    BY <1>0 DEF MapsConsistent, DescriptorIndex
  <2>4. Known' /\ InPlace'
    BY <2>1, <2>2, <2>3 DEF NumInv, Known, InPlace
  <2>5. /\ DOMAIN Tail(m_buf) = 1..Len(m_buf)-1
        /\ \A j \in 1..Len(m_buf)-1 : Tail(m_buf)[j] = m_buf[j + 1] /\ j + 1 \in DOMAIN m_buf
    <3>1. /\ Tail(m_buf) \in Seq(KEvent) /\ Len(Tail(m_buf)) = Len(m_buf) - 1
          /\ \A j \in 1..Len(Tail(m_buf)) : Tail(m_buf)[j] = m_buf[j + 1]
      BY <1>0, <2>1, HeadTailProperties
    <3>2. DOMAIN m_buf = 1..Len(m_buf) /\ Len(m_buf) \in Nat
      BY <1>0
    <3> QED BY <3>1, <3>2
  <2>6. Silent(m_buf', kernel')
    BY <2>1, <2>5 DEF NumInv, Silent
  <2> QED BY <2>1, <2>4, <2>6 DEF NumInv
<1>8. CASE Close
  <2>1. /\ kernel' = [kernel EXCEPT !.watch = [wd \in Wd |-> NULL], !.queue = <<>>]
        /\ m_watches' = [wd \in Wd |-> NULL] /\ m_buf' = <<>>
    BY <1>8 DEF Close, RemoveAll, Idle
  <2>2. /\ kernel'.queue = <<>> /\ kernel'.next = kernel.next
        /\ kernel'.watch = [wd \in Wd |-> NULL] /\ kernel' \in Kernel
    <3>1. <<>> \in Seq(KEvent) /\ [wd \in Wd |-> NULL] \in [Wd -> KWatch \cup {NULL}]
      OBVIOUS
    <3> QED BY <1>0, <2>1, <3>1 DEF Kernel
  <2> QED BY <2>1, <2>2 DEF NumInv, KernelOk, KernelInv, Silent, Known, InPlace
<1>9. CASE MgmtCreate
  <2>1. /\ kernel' = [kernel EXCEPT !.lost = FALSE]
        /\ UNCHANGED <<fs, m_watches, watch, m_buf>>
    BY <1>9 DEF MgmtCreate
  <2>2. /\ kernel'.queue = kernel.queue /\ kernel'.next = kernel.next
        /\ kernel'.watch = kernel.watch /\ kernel' \in Kernel
    BY <1>0, <2>1 DEF Kernel
  <2> QED BY <2>1, <2>2 DEF NumInv, KernelOk, KernelInv, Silent, Known, InPlace
<1>10. CASE AddNext
  BY <1>1, <1>2, <1>3, <1>4, <1>10 DEF AddNext, AddPathTaken, AddFails
<1>11. CASE RemoveNext
  BY <1>1, <1>5, <1>11 DEF RemoveNext, RemoveThrows
<1>12. CASE UNCHANGED vars \/ GetEvent
  BY <1>1, <1>12 DEF vars, object, GetEvent
<1>13. CASE TreeNext
  BY <1>0, <1>13, NumOutside
<1> QED BY <1>6, <1>7, <1>8, <1>9, <1>10, <1>11, <1>12, <1>13, Calls DEF ObjectNext

(* The object's staleness is announced here, too.                          *)
LEMMA TableStale == TabInv /\ StaleWatchNotified /\ [TableNext]_tvars => StaleWatchNotified'
<1> SUFFICES ASSUME TabInv, StaleWatchNotified, [TableNext]_tvars
             PROVE  StaleWatchNotified'
  OBVIOUS
<1>0. TypeOK /\ MapsConsistent /\ kernel \in Kernel /\ Extends(kernel, kernel)
  BY DEF TabInv, TableTypeOK, TypeOK, Extends
<1>1. CASE UNCHANGED vars \/ ObjectNext
  BY <1>0, <1>1, StaleStep DEF ObjectNext, Next
<1>2. CASE MgmtCreate
  <2>1. \A w \in Watch : watch[w] = NULL
    BY <1>2 DEF MgmtCreate, TabInv, Ownership
  <2>2. \A wd \in Wd : m_watches[wd] = NULL
    BY <1>0, <2>1 DEF TypeOK, MapsConsistent, DescriptorIndex
  <2> QED BY <1>2, <2>2 DEF MgmtCreate, StaleWatchNotified
<1>3. CASE TreeNext
  <2>1. \A i : \A t \in Type : Extends(kernel, Deliver(kernel, i, t))
    BY <1>0, DeliverExtends DEF EventType
  <2>2. \A i : Extends(kernel, Die(kernel, i))
    BY <1>0, DieExtends
  <2>3. Extends(kernel, kernel') /\ UNCHANGED <<m_watches, m_buf>>
    BY <1>0, <1>3, <2>1, <2>2, TableAssumption DEF TreeNext, MakeDir, RemoveDir, WriteIn, object
  <2> QED BY <1>0, <2>3, StaleExtends
<1> QED BY <1>1, <1>2, <1>3, Calls

(* How far Load is: a watch points to an entry before the one it is at,    *)
(* and when it is done it has been at all.                                 *)
Looking == pc \in {"add", "poll", "drain", "resume"}
Placed ==
    /\ Looking /\ pc # "add" => at > Len(m_tab)
    /\ pc = "add" => \A w \in Watch : m_map[w] < at
    /\ m_buf # <<>> => itOk
    /\ Looking => at \in Nat /\ cnt \in Nat /\ cnt <= Len(m_tab)

LEMMA PlacedStep == TabInv /\ Placed /\ [TableNext]_tvars => Placed'
<1> SUFFICES ASSUME TabInv, Placed, [TableNext]_tvars
             PROVE  Placed'
  OBVIOUS
<1>0. /\ TypeOK /\ m_tab \in Seq(Entry) /\ m_map \in [Watch -> 0..Len(m_tab)]
      /\ At /\ Restoring /\ Ownership /\ Drained /\ Attribution
  BY DEF TabInv, TableTypeOK
<1>1. ASSUME UNCHANGED <<pc, at, cnt, m_tab, m_map, m_buf>>, itOk => itOk'
      PROVE  Placed'
  BY <1>1 DEF Placed, Looking
<1>2. CASE UNCHANGED tvars
  BY <1>1, <1>2 DEF tvars, vars, table, object
<1>3. CASE OutsideNext
  BY <1>1, <1>3 DEF OutsideNext, MakeDir, RemoveDir, WriteIn, WriteTable, ChangeUser, table,
                    vars, object
<1>4. CASE ReadFile \/ Scan \/ AddEntryFaults
  BY <1>4 DEF ReadFile, Scan, AddEntryFaults, Placed, Looking, vars, object
<1>5. CASE ScanDone
  <2>1. /\ pc = "scan" /\ pc' = "add" /\ at' = 1
        /\ UNCHANGED <<m_tab, m_map, m_buf, itOk, cnt>>
    BY <1>5 DEF ScanDone, vars, object
  <2>2. \A w \in Watch : m_map[w] = 0
    BY <1>0, <2>1 DEF Ownership
  <2> QED BY <1>0, <2>1, <2>2 DEF Placed, Looking, At
<1>6. ASSUME pc = "add", pc' = "add", at' = at + 1, UNCHANGED <<m_tab, m_map, m_buf, itOk, cnt>>
      PROVE  Placed'
  <2>1. at \in Nat /\ Len(m_tab) \in Nat /\ \A w \in Watch : m_map[w] \in Nat
    BY <1>0, <1>6 DEF At
  <2> QED BY <1>6, <2>1 DEF Placed, Looking
<1>7. CASE SkipGlob \/ AddEntryFails \/ AddEntryRecovers
  <2>1. pc = "add" /\ pc' = "add" /\ at' = at + 1 /\ UNCHANGED <<m_tab, m_map, m_buf, itOk, cnt>>
    BY <1>0, <1>7 DEF SkipGlob, AddEntryFails, AddEntryRecovers, AddPathTaken, AddFails,
                      AddRecovers, Adding, loading, vars, object, Restoring
  <2> QED BY <1>6, <2>1
<1>8. ASSUME NEW w \in Watch, AddEntry(w)
      PROVE  Placed'
  <2>1. /\ pc = "add" /\ pc' = "add" /\ at' = at + 1 /\ UNCHANGED <<m_tab, m_buf, itOk, cnt>>
        /\ m_map' = [m_map EXCEPT ![w] = at]
    BY <1>8 DEF AddEntry, Adding, AddOk, loading
  <2>2. at \in Nat /\ Len(m_tab) \in Nat /\ \A v \in Watch : m_map[v] \in Nat
    BY <1>0, <2>1 DEF At
  <2>3. \A v \in Watch : m_map'[v] < at + 1
    BY <1>0, <2>1, <2>2 DEF Placed
  <2> QED BY <2>1, <2>2, <2>3 DEF Placed, Looking
<1>9. CASE AddEntryCollides
  BY <1>1, <1>9 DEF AddEntryCollides, AddCollides, loading
<1>10. CASE LoadDone
  BY <1>10 DEF LoadDone, Placed, Looking, vars, object
<1>11. ASSUME ~Looking', m_buf' = m_buf, UNCHANGED itOk \/ m_buf = <<>>
       PROVE  Placed'
  BY <1>11 DEF Placed, Looking
<1>12. CASE DisposeNext
  <2>1. ~Looking' /\ m_buf' = m_buf /\ UNCHANGED itOk
    BY <1>12 DEF DisposeNext, DisposeWatch, DisposeThrows, Disposed, Destroyed, Remove,
                 RemoveThrows, Close, Looking, vars, object
  <2> QED BY <1>11, <2>1
<1>13. CASE StartEvents
  <2>1. /\ pc = "poll" /\ pc' = "drain"
        /\ UNCHANGED <<m_tab, m_map, itOk, at, cnt>>
    BY <1>13 DEF StartEvents
  <2>2. itOk
    BY <1>0, <2>1 DEF Attribution
  <2> QED BY <2>1, <2>2 DEF Placed, Looking
<1>14. CASE Parse
  <2>1. pc = "drain" /\ m_buf # <<>> /\ UNCHANGED <<pc, m_tab, m_map, itOk, at, cnt>>
    BY <1>14 DEF Parse, ParseEvent, table
  <2> QED BY <2>1 DEF Placed, Looking
<1>15. CASE EventsDone \/ IteratorDangles \/ OnEventResume
  BY <1>15 DEF EventsDone, IteratorDangles, OnEventResume, Placed, Looking, vars, object
<1>16. CASE OnEventNoEntry \/ OnEventDenied \/ OnEventRun
  BY <1>1, <1>16 DEF OnEventNoEntry, OnEventDenied, OnEventRun, GetEvent
<1>17. CASE OnEventFaults \/ OnEventReload
  BY <1>11, <1>17 DEF OnEventFaults, OnEventReload, GetEvent, Idle, StartDispose, Looking
<1>18. CASE MgmtReload \/ MgmtDestroy
  <2>1. pc = "poll" /\ ~Looking' /\ m_buf' = m_buf
    BY <1>18 DEF MgmtReload, MgmtDestroy, StartDispose, Looking, vars, object
  <2>2. m_buf = <<>>
    BY <1>0, <2>1 DEF Drained
  <2> QED BY <1>11, <2>1, <2>2
<1>19. CASE MgmtCreate
  BY <1>11, <1>19 DEF MgmtCreate, Looking
<1>20. CASE MgmtNothing
  BY <1>1, <1>20 DEF MgmtNothing, vars, table, object
<1> QED BY <1>2, <1>3, <1>4, <1>5, <1>7, <1>8, <1>9, <1>10, <1>12, <1>13, <1>14, <1>15, <1>16,
           <1>17, <1>18, <1>19, <1>20
        DEF TableNext, Daemon, LoadNext, EventNext, MgmtNext

-----------------------------------------------------------------------------
(* An event about a new directory is still to come: the events not yet     *)
(* parsed are those of the buffer and of the queue.  One meets its watch   *)
(* if the object knows the descriptor and parses no end of it before.      *)
Unparsed == m_buf \o kernel.queue
Comes(n, p) ==
    /\ Unparsed[n].type = DirCreated /\ m_watches[Unparsed[n].wd] # NULL
    /\ MayTellOf(watch[m_watches[Unparsed[n].wd]].path, p)
    /\ \A k \in 1..n-1 :
            ~(Unparsed[k].wd = Unparsed[n].wd /\ Unparsed[k].type = "IN_IGNORED")
Coming(p) == \E n \in DOMAIN Unparsed : Comes(n, p)
(* Or it has been read, and no reload has been made since.                 *)
Tells(e, p) == e.type = DirCreated /\ MayTellOf(e.path, p)
Has(p) == itOk /\ \E n \in DOMAIN m_events : Tells(m_events[n], p)
Good(p) == Watched(kernel, fs[p]) \/ Coming(p) \/ Has(p)

LEMMA UnparsedPlaces ==
    ASSUME NEW a \in Seq(KEvent), NEW b \in Seq(KEvent)
    PROVE  /\ a \o b \in Seq(KEvent)
           /\ DOMAIN (a \o b) = 1..Len(a) + Len(b) /\ Len(a) \in Nat /\ Len(b) \in Nat
           /\ \A n \in 1..Len(a) : (a \o b)[n] = a[n]
           /\ \A n \in 1..Len(b) : (a \o b)[Len(a) + n] = b[n]
<1>1. /\ a \o b \in Seq(KEvent) /\ Len(a \o b) = Len(a) + Len(b)
      /\ Len(a) \in Nat /\ Len(b) \in Nat
      /\ \A i \in 1..Len(a) + Len(b) : (a \o b)[i] = IF i <= Len(a) THEN a[i] ELSE b[i - Len(a)]
  BY ConcatProperties
<1>2. DOMAIN (a \o b) = 1..Len(a) + Len(b)
  BY <1>1
<1>3. \A n \in 1..Len(a) : n \in 1..Len(a) + Len(b) /\ n <= Len(a)
  BY <1>1
<1>4. \A n \in 1..Len(b) : /\ Len(a) + n \in 1..Len(a) + Len(b)
                           /\ ~(Len(a) + n <= Len(a)) /\ (Len(a) + n) - Len(a) = n
  BY <1>1
<1> QED BY <1>1, <1>2, <1>3, <1>4

LEMMA ComingKept ==
    ASSUME TypeOK, NEW p, Coming(p),
           \A n \in DOMAIN Unparsed : n \in DOMAIN Unparsed' /\ Unparsed'[n] = Unparsed[n],
           \A wd \in Wd : m_watches[wd] # NULL =>
                /\ m_watches'[wd] = m_watches[wd]
                /\ watch'[m_watches[wd]].path = watch[m_watches[wd]].path
    PROVE  Coming(p)'
<1>1. Unparsed \in Seq(KEvent) /\ DOMAIN Unparsed = 1..Len(Unparsed) /\ Len(Unparsed) \in Nat
  BY UnparsedPlaces DEF TypeOK, Kernel, Unparsed
<1>2. PICK n \in DOMAIN Unparsed : Comes(n, p)
  BY DEF Coming
<1>3. Unparsed[n].wd \in Wd
  BY <1>1, <1>2 DEF Comes, KEvent, Overflow, DirCreated
<1>4. \A k \in 1..n-1 : k \in DOMAIN Unparsed
  BY <1>1, <1>2
<1>5. Comes(n, p)'
  BY <1>2, <1>3, <1>4 DEF Comes, MayTellOf
<1> QED BY <1>2, <1>5 DEF Coming

(* The kernel adds to its queue.                                           *)
LEMMA UnparsedExtends ==
    ASSUME TypeOK, Extends(kernel, kernel'), ~kernel'.lost, m_buf' = m_buf
    PROVE  \A n \in DOMAIN Unparsed : n \in DOMAIN Unparsed' /\ Unparsed'[n] = Unparsed[n]
<1> DEFINE a == m_buf
           b == kernel.queue
           c == kernel'.queue
<1>1. a \in Seq(KEvent) /\ b \in Seq(KEvent) /\ c \in Seq(KEvent)
  BY DEF TypeOK, Kernel, Extends
<1>2. Unparsed = a \o b /\ Unparsed' = a \o c
  BY DEF Unparsed
<1>3. \A n \in DOMAIN b : n \in DOMAIN c /\ c[n] = b[n]
  BY DEF Extends
<1> HIDE DEF a, b, c
<1>4. \A n \in 1..Len(b) : n \in 1..Len(c) /\ c[n] = b[n]
  BY <1>1, <1>3
<1>5. /\ DOMAIN (a \o b) = 1..Len(a) + Len(b) /\ DOMAIN (a \o c) = 1..Len(a) + Len(c)
      /\ Len(a) \in Nat /\ Len(b) \in Nat /\ Len(c) \in Nat
      /\ \A n \in 1..Len(a) : (a \o b)[n] = a[n] /\ (a \o c)[n] = a[n]
      /\ \A n \in 1..Len(b) : (a \o b)[Len(a) + n] = b[n]
      /\ \A n \in 1..Len(c) : (a \o c)[Len(a) + n] = c[n]
  BY <1>1, UnparsedPlaces
<1>6. ASSUME NEW n \in 1..Len(a) + Len(b)
      PROVE  n \in 1..Len(a) + Len(c) /\ (a \o c)[n] = (a \o b)[n]
  <2>1. CASE n \in 1..Len(a)
    BY <1>5, <2>1
  <2>2. CASE n \notin 1..Len(a)
    <3>1. n - Len(a) \in 1..Len(b) /\ Len(a) + (n - Len(a)) = n
      BY <1>5, <2>2
    <3>2. n - Len(a) \in 1..Len(c) /\ c[n - Len(a)] = b[n - Len(a)]
      BY <1>4, <3>1
    <3>3. n \in 1..Len(a) + Len(c)
      BY <1>5, <3>2
    <3>4. (a \o b)[Len(a) + (n - Len(a))] = b[n - Len(a)]
      BY <1>5, <3>1
    <3>5. (a \o c)[Len(a) + (n - Len(a))] = c[n - Len(a)]
      BY <1>5, <3>2
    <3> QED BY <3>1, <3>2, <3>3, <3>4, <3>5
  <2> QED BY <2>1, <2>2
<1> QED BY <1>2, <1>5, <1>6

(* What other processes do leaves what is good, unless it goes.            *)
LEMMA GoodOutside ==
    ASSUME TabInv, Tree, NumInv, TreeNext, ~kernel'.lost,
           NEW p \in Path, fs[p] # NULL, fs'[p] = fs[p], Good(p)
    PROVE  Good(p)'
<1>0. /\ TypeOK /\ kernel \in Kernel /\ KernelOk(kernel)
      /\ UNCHANGED <<m_buf, m_events, m_watches, watch, itOk>>
  BY DEF TabInv, TableTypeOK, TypeOK, NumInv, TreeNext, MakeDir, RemoveDir, WriteIn, object, table
<1>1. \A i : \A t \in Type : Extends(kernel, Deliver(kernel, i, t))
  BY <1>0, DeliverExtends DEF EventType
<1>2. \A i : Extends(kernel, Die(kernel, i)) /\ Extends(kernel, kernel)
  BY <1>0, DieExtends DEF Extends
<1>3. Extends(kernel, kernel')
  BY <1>1, <1>2, TableAssumption DEF TreeNext, MakeDir, RemoveDir, WriteIn
<1>4. CASE Coming(p)
  BY <1>0, <1>3, <1>4, UnparsedExtends, ComingKept DEF Good
<1>5. CASE Has(p)
  BY <1>0, <1>5 DEF Has, Good
<1>6. CASE Watched(kernel, fs[p])
  <2>1. ASSUME NEW i, NEW t \in Type, kernel' = Deliver(kernel, i, t)
        PROVE  Good(p)'
    BY <1>0, <1>6, <2>1, WatchedDelivered DEF EventType, Good
  <2>2. ASSUME NEW q \in Path, RemoveDir(q)
        PROVE  Good(p)'
    <3>1. /\ fs' = [r \in Path |-> IF Target[r] = q THEN NULL ELSE fs[r]]
          /\ fs[q] # NULL /\ Target[q] = q /\ kernel' = Die(kernel, fs[q])
      BY <2>2 DEF RemoveDir
    <3>2. fs[p] # fs[q]
      BY <3>1 DEF Tree
    <3> QED BY <1>0, <1>6, <3>1, <3>2, WatchedDies DEF Good
  <2> QED BY <1>6, <2>1, <2>2, TableAssumption DEF TreeNext, MakeDir, WriteIn, Good
<1> QED BY <1>4, <1>5, <1>6 DEF Good

(* An Add, or the recovery of one, that is not for a single event.         *)
LEMMA GoodAdded ==
    ASSUME TypeOK, MapsConsistent, NumInv, NEW i \in Inode, NEW mask \in Mask,
           "IN_ONESHOT" \notin mask,
           CanAddWatch(kernel, i), kernel' = AddWatch(kernel, i, mask),
           UNCHANGED <<fs, m_buf, m_events, itOk>>,
           \A wd \in Wd : m_watches[wd] # NULL =>
                /\ m_watches'[wd] = m_watches[wd]
                /\ watch'[m_watches[wd]].path = watch[m_watches[wd]].path
    PROVE  /\ Watched(kernel', i)
           /\ \A p \in Path : Good(p) => Good(p)'
<1>1. kernel'.queue = kernel.queue
  BY AddedWatch DEF NumInv
<1>2. Unparsed' = Unparsed
  BY <1>1 DEF Unparsed
<1>3. \A p : Coming(p) => Coming(p)'
  BY <1>2, ComingKept
<1>4. \A p : Has(p) => Has(p)'
  BY DEF Has
<1>5. Watched(kernel', i) /\ \A j : Watched(kernel, j) => Watched(kernel', j)
  BY WatchedAdded DEF NumInv
<1> QED BY <1>3, <1>4, <1>5 DEF Good

(* A read moves events from the queue to the buffer.                       *)
LEMMA UnparsedRead ==
    ASSUME TypeOK, ReadEvents
    PROVE  Unparsed' = Unparsed
<1> DEFINE q == kernel.queue
           n == IF Len(q) > BufLen THEN BufLen ELSE Len(q)
           b == SubSeq(q, 1, n)
           c == SubSeq(q, n + 1, Len(q))
<1>1. q \in Seq(KEvent) /\ Len(q) \in Nat /\ n \in 0..Len(q)
  BY BoundAssumption DEF TypeOK, Kernel
<1>2. m_buf = <<>> /\ m_buf' = b /\ kernel'.queue = c
  BY DEF ReadEvents, Idle, TypeOK, Kernel
<1>3. Unparsed = q
  BY <1>1, <1>2, ConcatEmptySeq DEF Unparsed
<1>4. Unparsed' = b \o c
  BY <1>2 DEF Unparsed
<1> HIDE DEF n, q
<1>5. /\ b \in Seq(KEvent) /\ Len(b) = n /\ \A j \in 1..n : b[j] = q[j]
      /\ c \in Seq(KEvent) /\ Len(c) = Len(q) - n /\ \A j \in 1..Len(q) - n : c[j] = q[n + j]
  BY <1>1, SubSeqProperties
<1> HIDE DEF b, c
<1>6. /\ b \o c \in Seq(KEvent) /\ DOMAIN (b \o c) = 1..n + (Len(q) - n)
      /\ \A j \in 1..n : (b \o c)[j] = b[j]
      /\ \A j \in 1..Len(q) - n : (b \o c)[n + j] = c[j]
  BY <1>5, UnparsedPlaces
<1>7. DOMAIN (b \o c) = 1..Len(q) /\ n \in Nat
  BY <1>1, <1>6
<1>8. ASSUME NEW j \in 1..Len(q)
      PROVE  (b \o c)[j] = q[j]
  <2>1. CASE j \in 1..n
    BY <1>5, <1>6, <2>1
  <2>2. CASE j \notin 1..n
    <3>1. j - n \in 1..Len(q) - n /\ n + (j - n) = j
      BY <1>1, <1>7, <2>2
    <3> QED BY <1>5, <1>6, <3>1
  <2> QED BY <2>1, <2>2
<1>9. Len(b \o c) = Len(q)
  BY <1>1, <1>6, <1>7
<1> QED BY <1>1, <1>3, <1>4, <1>6, <1>8, <1>9, SeqEqual

(* Parsing makes the first of them an event of the table.                  *)
LEMMA UnparsedTail ==
    ASSUME TypeOK, ParseEvent
    PROVE  /\ Unparsed[1] = Head(m_buf)
           /\ \A n \in DOMAIN Unparsed : n # 1 =>
                n - 1 \in DOMAIN Unparsed' /\ Unparsed'[n - 1] = Unparsed[n]
<1> DEFINE a == m_buf
           b == kernel.queue
           t == Tail(m_buf)
<1>1. a \in Seq(KEvent) /\ b \in Seq(KEvent) /\ a # <<>>
  BY DEF TypeOK, Kernel, ParseEvent
<1>2. Unparsed = a \o b /\ Unparsed' = t \o b
  BY DEF Unparsed, ParseEvent
<1>3. /\ t \in Seq(KEvent) /\ Len(t) = Len(a) - 1 /\ \A j \in 1..Len(t) : t[j] = a[j + 1]
      /\ Head(a) = a[1] /\ Len(a) \in Nat \ {0}
  BY <1>1, HeadTailProperties, EmptySeq
<1> HIDE DEF a, b, t
<1>4. /\ DOMAIN (a \o b) = 1..Len(a) + Len(b) /\ DOMAIN (t \o b) = 1..Len(t) + Len(b)
      /\ Len(b) \in Nat
      /\ \A n \in 1..Len(a) : (a \o b)[n] = a[n]
      /\ \A n \in 1..Len(b) : (a \o b)[Len(a) + n] = b[n]
      /\ \A n \in 1..Len(t) : (t \o b)[n] = t[n]
      /\ \A n \in 1..Len(b) : (t \o b)[Len(t) + n] = b[n]
  BY <1>1, <1>3, UnparsedPlaces
<1>5. (a \o b)[1] = Head(a)
  BY <1>3, <1>4
<1>6. ASSUME NEW n \in 1..Len(a) + Len(b), n # 1
      PROVE  n - 1 \in 1..Len(t) + Len(b) /\ (t \o b)[n - 1] = (a \o b)[n]
  <2>0. n - 1 \in 1..Len(t) + Len(b)
    BY <1>3, <1>4, <1>6
  <2>1. CASE n \in 1..Len(a)
    <3>1. n - 1 \in 1..Len(t) /\ (n - 1) + 1 = n
      BY <1>3, <1>6, <2>1
    <3>2. (t \o b)[n - 1] = t[n - 1] /\ t[n - 1] = a[(n - 1) + 1]
      BY <1>3, <1>4, <3>1
    <3> QED BY <1>4, <2>0, <2>1, <3>1, <3>2
  <2>2. CASE n \notin 1..Len(a)
    <3> DEFINE m == n - Len(a)
    <3>1. m \in 1..Len(b) /\ Len(a) + m = n /\ Len(t) + m = n - 1
      BY <1>3, <1>4, <1>6, <2>2
    <3>2. (a \o b)[Len(a) + m] = b[m] /\ (t \o b)[Len(t) + m] = b[m]
      BY <1>4, <3>1
    <3> QED BY <2>0, <3>1, <3>2
  <2> QED BY <2>1, <2>2
<1> QED BY <1>2, <1>4, <1>5, <1>6 DEF a

(* No entry asks for one-shot watches.                                     *)
Plain == \A n \in DOMAIN m_tab : "IN_ONESHOT" \notin m_tab[n].mask

(* A watch has the mask of the entry it was made from.                     *)
LEMMA PlainWatch ==
    ASSUME TabInv, Looking, Plain, NEW w \in Watch, watch[w] # NULL
    PROVE  "IN_ONESHOT" \notin watch[w].mask
<1>1. /\ Owned(w) /\ m_tab \in Seq(Entry) /\ m_map[w] \in 0..Len(m_tab)
  BY DEF TabInv, TableTypeOK, Ownership, Looking
<1>2. m_map[w] \in DOMAIN m_tab
  BY <1>1 DEF Owned
<1> QED BY <1>1, <1>2 DEF Owned, Plain

(* An event that is parsed comes one nearer, or becomes one of the table.  *)
LEMMA GoodParsed ==
    ASSUME TabInv, Placed, Plain, Parse, NEW p \in Path, Good(p)
    PROVE  Good(p)'
<1> DEFINE e == Head(m_buf)
           w == IF e.wd = NoWd THEN NULL ELSE m_watches[e.wd]
           x == [watch |-> w, type |-> e.type, path |-> watch[w].path]
<1>0. /\ TypeOK /\ MapsConsistent /\ ParseEvent /\ pc = "drain" /\ itOk
      /\ UNCHANGED <<fs, kernel, itOk>>
  BY DEF TabInv, TableTypeOK, Placed, Parse, ParseEvent, table
<1>t. /\ m_events \in Seq(Event) /\ m_watches \in [Wd -> Watch \cup {NULL}]
      /\ watch \in [Watch -> WatchObj \cup {NULL}] /\ NULL \notin Watch
  BY <1>0, NullAssumption DEF TypeOK
<1>b. e \in KEvent /\ (e.wd # NoWd => e.wd \in Wd)
  <2>1. m_buf \in Seq(KEvent) /\ m_buf # <<>>
    BY <1>0 DEF TypeOK, ParseEvent
  <2>2. e \in KEvent
    BY <2>1, HeadTailProperties
  <2> QED BY <2>2 DEF KEvent, Overflow
<1>1. \/ w = NULL /\ UNCHANGED <<m_watches, watch, m_events>>
      \/ /\ w # NULL /\ m_events' = Append(m_events, x)
         /\ \/ UNCHANGED <<m_watches, watch>>
            \/ "IN_ONESHOT" \in watch[w].mask /\ Disable(w)
            \/ e.type = "IN_IGNORED" /\ Disable(w)
  BY <1>0 DEF ParseEvent
<1>2. w # NULL => /\ w \in Watch /\ e.wd \in Wd /\ w = m_watches[e.wd]
                  /\ watch[w] # NULL /\ watch[w].wd = e.wd
  BY <1>0, <1>t, <1>b DEF MapsConsistent, DescriptorIndex
<1>3. w # NULL => "IN_ONESHOT" \notin watch[w].mask
  BY <1>0, <1>2, PlainWatch DEF Looking
<1>5. /\ Unparsed[1] = e
      /\ \A n \in DOMAIN Unparsed : n # 1 =>
            n - 1 \in DOMAIN Unparsed' /\ Unparsed'[n - 1] = Unparsed[n]
  BY <1>0, UnparsedTail
<1>6. /\ Unparsed \in Seq(KEvent) /\ DOMAIN Unparsed = 1..Len(Unparsed) /\ Len(Unparsed) \in Nat
  BY <1>0, UnparsedPlaces DEF TypeOK, Kernel, Unparsed
<1> HIDE DEF e, w
<1>7. CASE Watched(kernel, fs[p])
  BY <1>0, <1>7 DEF Good
<1>8. \A n \in DOMAIN m_events : n \in DOMAIN m_events' /\ m_events'[n] = m_events[n]
  <2>1. CASE UNCHANGED m_events
    BY <2>1
  <2>2. ASSUME NEW y, m_events' = Append(m_events, y)
        PROVE  \A n \in DOMAIN m_events : n \in DOMAIN m_events' /\ m_events'[n] = m_events[n]
    BY <1>t, <2>2, AppendProperties
  <2> QED BY <1>1, <2>1, <2>2
<1>9. CASE Has(p)
  BY <1>0, <1>8, <1>9 DEF Has, Good
<1>10. ASSUME NEW n \in DOMAIN Unparsed, Comes(n, p)
       PROVE  Good(p)'
  <2> DEFINE v == Unparsed[n].wd
  <2>1. /\ Unparsed[n] \in KEvent /\ Unparsed[n].type = DirCreated /\ m_watches[v] # NULL
        /\ MayTellOf(watch[m_watches[v]].path, p)
        /\ \A k \in 1..n-1 : ~(Unparsed[k].wd = v /\ Unparsed[k].type = "IN_IGNORED")
    BY <1>6, <1>10 DEF Comes
  <2>2. v \in Wd
    BY <2>1 DEF KEvent, Overflow, DirCreated
  <2> HIDE DEF v
  <2>3. CASE n = 1
    <3>1. v = e.wd /\ e.type = DirCreated
      BY <1>5, <2>1, <2>3 DEF v
    <3>2. w = m_watches[v] /\ w # NULL
      BY <2>1, <2>2, <3>1 DEF w, NoWd, Wd
    <3>3. m_events' = Append(m_events, x)
      BY <1>1, <3>2
    <3>4. Tells(x, p)
      BY <2>1, <3>1, <3>2 DEF Tells
    <3> HIDE DEF x
    <3>5. \E m \in DOMAIN m_events' : m_events'[m] = x
      BY <1>t, <3>3, AppendProperties
    <3> QED BY <1>0, <3>4, <3>5 DEF Has, Good
  <2>4. CASE n # 1
    <3>1. n - 1 \in DOMAIN Unparsed' /\ Unparsed'[n - 1] = Unparsed[n]
      BY <1>5, <2>4
    <3>2. \A k \in 1..(n - 1) - 1 : k + 1 \in 1..n-1 /\ Unparsed'[k] = Unparsed[k + 1]
      <4>1. \A k \in 1..(n - 1) - 1 : k + 1 \in 1..n-1 /\ k + 1 \in DOMAIN Unparsed
                                    /\ k + 1 # 1 /\ (k + 1) - 1 = k
        BY <1>6
      <4> QED BY <1>5, <4>1
    <3>3. e.wd = v => e.type # "IN_IGNORED"
      <4>1. 1 \in 1..n-1
        BY <1>6, <2>4
      <4> QED BY <1>5, <2>1, <4>1
    <3>4. m_watches'[v] = m_watches[v] /\ watch'[m_watches[v]].path = watch[m_watches[v]].path
      <4>1. m_watches[v] \in Watch /\ watch[m_watches[v]] \in WatchObj
        BY <1>0, <1>t, <2>1, <2>2 DEF MapsConsistent, DescriptorIndex
      <4>2. CASE UNCHANGED <<m_watches, watch>>
        BY <4>2
      <4>3. CASE w # NULL /\ e.type = "IN_IGNORED" /\ Disable(w)
        <5>1. /\ m_watches' = [m_watches EXCEPT ![e.wd] = NULL] /\ e.wd # v
              /\ watch' = [watch EXCEPT ![w].wd = NoWd, ![w].enabled = FALSE]
          BY <1>2, <3>3, <4>3 DEF Disable
        <5>2. m_watches'[v] = m_watches[v]
          BY <1>t, <2>2, <5>1
        <5>3. watch'[m_watches[v]].path = watch[m_watches[v]].path
          BY <1>t, <4>1, <5>1 DEF WatchObj
        <5> QED BY <5>2, <5>3
      <4> QED BY <1>1, <1>3, <4>2, <4>3
    <3>5. Unparsed'[n - 1].wd = v
      BY <3>1 DEF v
    <3>6. Comes(n - 1, p)'
      BY <2>1, <3>1, <3>2, <3>4, <3>5 DEF Comes
    <3> QED BY <3>1, <3>6 DEF Coming, Good
  <2> QED BY <2>3, <2>4
<1> QED BY <1>7, <1>9, <1>10 DEF Good, Coming

(* An event that is taken tells of nothing else than what it is about.     *)
LEMMA GoodTaken ==
    ASSUME TabInv, GetEvent, UNCHANGED itOk, NEW p \in Path, Good(p),
           ~(itOk /\ Tells(Evt, p))
    PROVE  Good(p)'
<1>0. /\ TypeOK /\ m_events \in Seq(Event) /\ m_events # <<>> /\ m_events' = Tail(m_events)
      /\ UNCHANGED <<fs, kernel, m_watches, watch, m_buf>>
  BY DEF TabInv, TableTypeOK, TypeOK, GetEvent
<1>1. CASE Watched(kernel, fs[p])
  BY <1>0, <1>1 DEF Good
<1>2. CASE Coming(p)
  <2>1. Unparsed' = Unparsed
    BY <1>0 DEF Unparsed
  <2>2. Coming(p)'
    BY <1>0, <1>2, <2>1, ComingKept
  <2> QED BY <2>2 DEF Good
<1>3. ASSUME NEW n \in DOMAIN m_events, itOk, Tells(m_events[n], p)
      PROVE  Good(p)'
  <2>1. /\ Head(m_events) = m_events[1] /\ Len(Tail(m_events)) = Len(m_events) - 1
        /\ Tail(m_events) \in Seq(Event)
        /\ \A j \in 1..Len(Tail(m_events)) : Tail(m_events)[j] = m_events[j + 1]
    BY <1>0, HeadTailProperties
  <2>2. n # 1 /\ n \in 1..Len(m_events) /\ Len(m_events) \in Nat
    BY <1>0, <1>3, <2>1 DEF Evt
  <2>3. n - 1 \in 1..Len(Tail(m_events)) /\ (n - 1) + 1 = n
    BY <2>1, <2>2
  <2>4. n - 1 \in DOMAIN m_events' /\ m_events'[n - 1] = m_events[n]
    BY <1>0, <2>1, <2>3
  <2> QED BY <1>3, <2>4 DEF Has, Good
<1> QED BY <1>1, <1>2, <1>3 DEF Good, Has

-----------------------------------------------------------------------------
(* The directories in question, those the entries list, and how far Load   *)
(* is with the slots of m_tab.                                             *)
Here(p) == fs[p] # NULL /\ Target[p] = p /\ p \notin Glob /\ p \notin missed
Wanted(p) ==
    \E n \in DOMAIN m_tab : n <= cnt /\ Lists(m_tab[n], p) /\ ~m_tab[n].norec
Named(p, S) == \E n \in S : m_tab[n].path = p
Tried == {n \in DOMAIN m_tab : n < at \/ (n = at /\ recovering # NULL)}

(* A directory that is there when the table is read has a find to come, or *)
(* an entry; from then on an Add to come, a watch, or an event to come.    *)
Scanned ==
    pc = "scan" => \A p \in Path : Here(p) /\ Wanted(p) =>
        FindToCome(p) \/ Named(p, DOMAIN m_tab)
Followed ==
    Looking /\ Plain /\ ~kernel.lost => \A p \in Path : Here(p) =>
        /\ Wanted(p) => Good(p) \/ Named(p, DOMAIN m_tab \ Tried)
        /\ Named(p, Tried) => Good(p)

(* A step that leaves the loop where it is.                                *)
LEMMA ScannedKept ==
    ASSUME Scanned, pc' = "scan" => pc = "scan", UNCHANGED <<m_tab, cnt, at>>,
           \A p \in Path : Here(p)' => Here(p) \/ FindToCome(p)
    PROVE  Scanned'
<1> SUFFICES ASSUME pc' = "scan", NEW p \in Path, Here(p)', Wanted(p)'
             PROVE  FindToCome(p)' \/ Named(p, DOMAIN m_tab)'
  BY DEF Scanned
<1>1. pc = "scan" /\ Wanted(p)
  BY DEF Wanted
<1>2. FindToCome(p) \/ Named(p, DOMAIN m_tab)
  BY <1>1 DEF Scanned
<1>3. FindToCome(p) => FindToCome(p)'
  BY <1>1 DEF FindToCome
<1>4. Named(p, DOMAIN m_tab) => Named(p, DOMAIN m_tab)'
  BY DEF Named
<1> QED BY <1>2, <1>3, <1>4

(* One entry is scanned: what its find lists are entries now, or missed.   *)
LEMMA ScannedOn == TabInv /\ Scanned /\ Scan => Scanned'
<1> SUFFICES ASSUME TabInv, Scanned, Scan, NEW p \in Path, Here(p)', Wanted(p)'
             PROVE  FindToCome(p)' \/ Named(p, DOMAIN m_tab)'
  BY DEF Scanned
<1> DEFINE e == m_tab[at]
           l == Len(m_tab)
<1>1. /\ pc = "scan" /\ pc' = "scan" /\ at <= cnt /\ at' = at + 1 /\ UNCHANGED <<fs, cnt>>
      /\ m_tab \in Seq(Entry) /\ at \in Nat \ {0} /\ cnt \in Nat /\ cnt <= l /\ l \in Nat
      /\ DOMAIN m_tab = 1..l
  BY DEF Scan, vars, TabInv, TableTypeOK, At
<1>2. at \in DOMAIN m_tab /\ e \in Entry
  BY <1>1
<1>3. CASE e.norec
  <2>1. UNCHANGED <<m_tab, missed>>
    BY <1>3 DEF Scan
  <2>2. FindToCome(p) \/ Named(p, DOMAIN m_tab)
    BY <1>1, <2>1 DEF Scanned, Here, Wanted
  <2>3. ASSUME FindToCome(p)
        PROVE  FindToCome(p)'
    <3>1. PICK n \in at..cnt : Lists(m_tab[n], p) /\ ~m_tab[n].norec
      BY <1>1, <2>3 DEF FindToCome
    <3>2. n \in at'..cnt'
      BY <1>1, <1>3, <3>1
    <3> QED BY <1>1, <2>1, <3>1, <3>2 DEF FindToCome, Lists
  <2> QED BY <2>1, <2>2, <2>3 DEF Named
<1>4. CASE ~e.norec
  <2>1. PICK s \in SubDirs(e) :
            /\ m_tab' = m_tab \o [n \in DOMAIN s |-> [e EXCEPT !.path = s[n]]]
            /\ missed' = missed \cup (Expansion(e) \ InList(s))
    BY <1>4 DEF Scan
  <2>2. s \in Seq(Path)
    BY <1>2, SubDirsArePaths DEF Entry
  <2> DEFINE t == [n \in DOMAIN s |-> [e EXCEPT !.path = s[n]]]
  <2>3. /\ t \in Seq(Entry) /\ DOMAIN t = DOMAIN s
        /\ \A n \in DOMAIN s : t[n].path = s[n]
    <3>1. \A n \in DOMAIN s : [e EXCEPT !.path = s[n]] \in Entry
                              /\ [e EXCEPT !.path = s[n]].path = s[n]
      BY <1>2, <2>2 DEF Entry
    <3>2. Len(s) \in Nat /\ DOMAIN s = 1..Len(s)
      BY <2>2, LenProperties
    <3>3. t \in [1..Len(s) -> Entry]
      BY <3>1, <3>2
    <3>4. t \in Seq(Entry)
      BY <3>2, <3>3, SeqDef
    <3> QED BY <3>1, <3>2, <3>4
  <2>4. m_tab' = m_tab \o t
    BY <2>1
  <2> HIDE DEF t
  <2>5. /\ DOMAIN m_tab' = 1..l + Len(t) /\ Len(t) \in Nat /\ DOMAIN t = 1..Len(t)
        /\ \A n \in 1..l : m_tab'[n] = m_tab[n]
        /\ \A n \in 1..Len(t) : m_tab'[l + n] = t[n]
    <3>1. /\ m_tab \o t \in Seq(Entry) /\ Len(m_tab \o t) = l + Len(t) /\ Len(t) \in Nat
          /\ \A i \in 1..l + Len(t) :
                (m_tab \o t)[i] = IF i <= l THEN m_tab[i] ELSE t[i - l]
      BY <1>1, <2>3, ConcatProperties
    <3>2. \A n \in 1..Len(t) : l + n \in 1..l + Len(t) /\ ~(l + n <= l) /\ (l + n) - l = n
      BY <1>1, <3>1
    <3>3. \A n \in 1..l : n \in 1..l + Len(t) /\ n <= l
      BY <1>1, <3>1
    <3> QED BY <2>3, <2>4, <3>1, <3>2, <3>3
  <2> HIDE DEF l
  <2>6. Here(p)
    BY <1>1, <2>1 DEF Here
  <2>7. Wanted(p)
    <3>1. PICK n \in DOMAIN m_tab' : n <= cnt /\ Lists(m_tab'[n], p) /\ ~m_tab'[n].norec
      BY <1>1 DEF Wanted, Lists
    <3>2. n \in 1..l
      BY <1>1, <2>5, <3>1
    <3> QED BY <1>1, <2>5, <3>1, <3>2 DEF Wanted
  <2>8. ASSUME NEW n \in DOMAIN m_tab, m_tab[n].path = p
        PROVE  Named(p, DOMAIN m_tab)'
    <3>1. n \in DOMAIN m_tab' /\ m_tab'[n] = m_tab[n]
      BY <1>1, <2>5
    <3> QED BY <2>8, <3>1 DEF Named
  <2>9. ASSUME NEW n \in at..cnt, Lists(m_tab[n], p), ~m_tab[n].norec, n # at
        PROVE  FindToCome(p)'
    <3>1. n \in at'..cnt' /\ n \in 1..l
      BY <1>1, <2>9 DEF l
    <3>2. m_tab'[n] = m_tab[n]
      BY <2>5, <3>1
    <3> QED BY <1>1, <2>9, <3>1, <3>2 DEF FindToCome, Lists
  <2>10. ASSUME Lists(e, p)
         PROVE  Named(p, DOMAIN m_tab)'
    <3>1. p \in Expansion(e)
      BY <1>1, <2>6, <2>10 DEF Expansion, Here
    <3>2. p \in InList(s)
      BY <2>1, <3>1 DEF Here
    <3>3. PICK n \in DOMAIN s : s[n] = p
      BY <3>2 DEF InList
    <3>4. n \in 1..Len(t) /\ t[n].path = p
      BY <2>3, <2>5, <3>3
    <3>5. l + n \in DOMAIN m_tab' /\ m_tab'[l + n].path = p
      BY <1>1, <2>5, <3>4
    <3> QED BY <3>5 DEF Named
  <2> QED BY <1>1, <2>6, <2>7, <2>8, <2>9, <2>10 DEF Scanned, FindToCome, Named
<1> QED BY <1>3, <1>4

(* Making a directory: who is told of it has an event to come.             *)
LEMMA MadeHere ==
    ASSUME TabInv, NEW q \in Path, NEW i \in Inode, MakeDir(q, i), NEW p \in Path, Here(p)'
    PROVE  /\ p # q => Here(p) /\ fs'[p] = fs[p]
           /\ p = q => FindToCome(q) \/ Told(q)
<1>1. /\ fs' = [r \in Path |-> IF Target[r] = q THEN i ELSE fs[r]]
      /\ missed' = IF FindToCome(q) \/ Told(q) THEN missed \ {q} ELSE missed \cup {q}
  BY DEF MakeDir
<1>2. fs'[p] # NULL /\ Target[p] = p /\ p \notin Glob /\ p \notin missed'
  BY DEF Here
<1>3. ASSUME p # q
      PROVE  Here(p) /\ fs'[p] = fs[p]
  BY <1>1, <1>2, <1>3 DEF Here
<1>4. ASSUME p = q
      PROVE  FindToCome(q) \/ Told(q)
  BY <1>1, <1>2, <1>4
<1> QED BY <1>3, <1>4

(* Removing one: nothing else goes, or comes.                              *)
LEMMA RemovedHere ==
    ASSUME NEW q \in Path, RemoveDir(q), NEW p \in Path, Here(p)'
    PROVE  Here(p) /\ fs'[p] = fs[p]
  BY DEF RemoveDir, Here

LEMMA ScannedStep == TabInv /\ Scanned /\ [TableNext]_tvars => Scanned'
<1> SUFFICES ASSUME TabInv, Scanned, [TableNext]_tvars
             PROVE  Scanned'
  OBVIOUS
<1>1. ASSUME UNCHANGED <<pc, m_tab, cnt, at, fs, missed>>
      PROVE  Scanned'
  BY <1>1, ScannedKept DEF Here
<1>2. ASSUME pc' # "scan"
      PROVE  Scanned'
  BY <1>2 DEF Scanned
<1>3. CASE UNCHANGED tvars \/ AddEntryFaults
  BY <1>1, <1>2, <1>3 DEF tvars, vars, table, outside, AddEntryFaults
<1>4. CASE ReadFile
  <2>1. /\ pc' = "scan" /\ at' = 1 /\ cnt' = Len(m_tab')
    BY <1>4 DEF ReadFile
  <2>2. m_tab' \in Seq(Entry)
    BY TablesStep DEF Tables
  <2>3. DOMAIN m_tab' = 1..cnt'
    BY <2>1, <2>2
  <2>4. \A p : Wanted(p)' => FindToCome(p)'
    BY <2>1, <2>3 DEF Wanted, FindToCome, Lists
  <2> QED BY <2>4 DEF Scanned
<1>5. CASE Scan
  BY <1>5, ScannedOn
<1>6. CASE ScanDone \/ LoadDone
  BY <1>2, <1>6 DEF ScanDone, LoadDone
<1>7. CASE SkipGlob \/ (\E w \in Watch : AddEntry(w)) \/ AddEntryFails \/ AddEntryCollides
            \/ AddEntryRecovers
  <2>1. pc' = "add"
    BY <1>7 DEF SkipGlob, AddEntry, AddEntryFails, AddEntryCollides, AddEntryRecovers, Adding,
                AddRecovers, TabInv, Restoring, loading
  <2> QED BY <1>2, <2>1
<1>8. CASE DisposeNext
  BY <1>2, <1>8 DEF DisposeNext, DisposeWatch, DisposeThrows, Disposed, Destroyed
<1>9. CASE EventNext
  BY <1>2, <1>9 DEF EventNext, StartEvents, Parse, EventsDone, IteratorDangles, OnEventNoEntry,
            OnEventDenied, OnEventFaults, OnEventRun, OnEventReload, OnEventResume, StartDispose,
            table
<1>10. CASE MgmtNext
  <2>1. CASE MgmtNothing
    BY <1>1, <2>1 DEF MgmtNothing, vars, table
  <2> QED BY <1>2, <1>10, <2>1 DEF MgmtNext, MgmtReload, MgmtDestroy, MgmtCreate, StartDispose
<1>11. ASSUME NEW q \in Path, NEW i \in Inode, MakeDir(q, i)
       PROVE  Scanned'
  <2>1. UNCHANGED <<pc, m_tab, cnt, at>>
    BY <1>11 DEF MakeDir, table
  <2>2. CASE pc # "scan"
    BY <1>2, <2>1, <2>2
  <2>3. CASE pc = "scan"
    <3>1. \A w \in Watch : watch[w] = NULL
      BY <2>3 DEF TabInv, Ownership
    <3>2. \A wd \in Wd : m_watches[wd] = NULL
      BY <3>1 DEF TabInv, TableTypeOK, TypeOK, MapsConsistent, DescriptorIndex
    <3>3. ~Told(q)
      BY <3>2 DEF Told, KWatches
    <3>4. \A p \in Path : Here(p)' => Here(p) \/ FindToCome(p)
      BY <1>11, <3>3, MadeHere
    <3> QED BY <2>1, <3>4, ScannedKept
  <2> QED BY <2>2, <2>3
<1>12. ASSUME NEW q \in Path, RemoveDir(q)
       PROVE  Scanned'
  <2>1. UNCHANGED <<pc, m_tab, cnt, at>>
    BY <1>12 DEF RemoveDir, table
  <2> QED BY <1>12, <2>1, RemovedHere, ScannedKept
<1>13. CASE OutsideNext
  BY <1>1, <1>11, <1>12, <1>13 DEF OutsideNext, WriteIn, WriteTable, ChangeUser, vars, table
<1> QED BY <1>3, <1>4, <1>5, <1>6, <1>7, <1>8, <1>9, <1>10, <1>13
        DEF TableNext, Daemon, LoadNext

(* The event about a new directory comes to the watch on its parent: no    *)
(* end of that watch is in the queue before it.                            *)
LEMMA MadeGood ==
    ASSUME TabInv, Tree, NumInv, NEW p \in Path, NEW i \in Inode, MakeDir(p, i), Told(p),
           ~kernel'.lost
    PROVE  Good(p)'
<1> DEFINE j == fs[Parent[p]]
<1>0. /\ TypeOK /\ MapsConsistent /\ kernel \in Kernel /\ KernelOk(kernel)
      /\ Silent(m_buf, kernel) /\ fs \in [Path -> Inode \cup {NULL}]
      /\ UNCHANGED <<m_watches, watch, m_buf>>
  BY DEF TabInv, TableTypeOK, TypeOK, NumInv, MakeDir, object
<1>1. /\ Parent[p] \in Path /\ kernel' = Deliver(kernel, j, DirCreated)
      /\ j # NULL
  BY TreeAssumption DEF Told, MakeDir
<1>2. PICK wd \in KWatches(kernel, j) :
            DirCreated \in kernel.watch[wd].mask /\ m_watches[wd] # NULL
  BY DEF Told
<1>3. /\ wd \in Wd /\ kernel.watch[wd] # NULL /\ kernel.watch[wd].ino = j
  BY <1>2 DEF KWatches
<1> DEFINE q == kernel'.queue
           d == watch[m_watches[wd]].path
           U == m_buf \o q
<1>4. MayTellOf(d, p)
  <2>1. d \in Path
    BY <1>0, <1>2, <1>3 DEF TypeOK, MapsConsistent, DescriptorIndex, WatchObj
  <2>2. fs[d] = j
    BY <1>2, <1>3 DEF NumInv, InPlace
  <2> HIDE DEF d
  <2> QED BY <1>1, <2>1, <2>2 DEF Tree, MayTellOf, Told
<1>5. DirCreated \in EventType
  BY TableAssumption DEF EventType
<1>6. PICK n \in DOMAIN q :
            /\ q[n] = [wd |-> wd, type |-> DirCreated]
            /\ \A k \in 1..n-1 : k \in DOMAIN kernel.queue /\ q[k] = kernel.queue[k]
  BY <1>0, <1>1, <1>2, <1>5, DeliverArrives
<1>7. /\ q \in Seq(KEvent) /\ m_buf \in Seq(KEvent) /\ DOMAIN q = 1..Len(q)
  <2>1. kernel' \in Kernel
    BY <1>0, <1>1, <1>5, DeliverExtends DEF Extends
  <2> QED BY <1>0, <2>1 DEF TypeOK, Kernel
<1>8. \A k \in DOMAIN kernel.queue :
            ~(kernel.queue[k].wd = wd /\ kernel.queue[k].type = "IN_IGNORED")
  BY <1>0, <1>3 DEF KernelOk, Silent
<1>9. \A k \in DOMAIN m_buf : ~(m_buf[k].wd = wd /\ m_buf[k].type = "IN_IGNORED")
  BY <1>0, <1>3 DEF Silent
<1>10. \A k \in 1..n-1 : ~(q[k].wd = wd /\ q[k].type = "IN_IGNORED")
  BY <1>6, <1>8
<1>11. Unparsed' = U
  BY <1>0 DEF Unparsed
<1> HIDE DEF q, d, U
<1>12. /\ DOMAIN U = 1..Len(m_buf) + Len(q) /\ Len(m_buf) \in Nat /\ Len(q) \in Nat
       /\ \A k \in 1..Len(m_buf) : U[k] = m_buf[k]
       /\ \A k \in 1..Len(q) : U[Len(m_buf) + k] = q[k]
  BY <1>7, UnparsedPlaces DEF U
<1> DEFINE m == Len(m_buf) + n
<1>13. m \in DOMAIN U /\ U[m] = q[n] /\ n \in 1..Len(q)
  BY <1>6, <1>7, <1>12
<1>14. U[m].wd = wd /\ U[m].type = DirCreated
  BY <1>6, <1>13
<1>15. ASSUME NEW k \in 1..m-1
       PROVE  ~(U[k].wd = wd /\ U[k].type = "IN_IGNORED")
  <2>1. CASE k \in 1..Len(m_buf)
    <3>1. k \in DOMAIN m_buf
      BY <1>7, <2>1
    <3> QED BY <1>9, <1>12, <2>1, <3>1
  <2>2. CASE k \notin 1..Len(m_buf)
    <3>1. k - Len(m_buf) \in 1..n-1 /\ Len(m_buf) + (k - Len(m_buf)) = k
          /\ k - Len(m_buf) \in 1..Len(q)
      BY <1>12, <1>13, <2>2
    <3>2. U[Len(m_buf) + (k - Len(m_buf))] = q[k - Len(m_buf)]
      BY <1>12, <3>1
    <3> QED BY <1>10, <3>1, <3>2
  <2> QED BY <2>1, <2>2
<1> HIDE DEF m
<1>16. PICK x \in DOMAIN U :
            /\ U[x].wd = wd /\ U[x].type = DirCreated
            /\ \A k \in 1..x-1 : ~(U[k].wd = wd /\ U[k].type = "IN_IGNORED")
  BY <1>13, <1>14, <1>15
<1>17. Comes(x, p)'
  BY <1>0, <1>2, <1>4, <1>11, <1>16 DEF Comes, d
<1> QED BY <1>11, <1>16, <1>17 DEF Coming, Good

(* Where Load is stays, ...                                                *)
LEMMA FollowedKept ==
    ASSUME Followed, Looking' => Looking, UNCHANGED <<m_tab, cnt, at, recovering>>,
           kernel.lost => kernel'.lost,
           Plain /\ Looking /\ ~kernel'.lost => \A p \in Path : Here(p)' =>
                Good(p)' \/ (Here(p) /\ (Good(p) => Good(p)'))
    PROVE  Followed'
<1> SUFFICES ASSUME Looking', Plain', ~kernel'.lost, NEW p \in Path, Here(p)'
             PROVE  /\ Wanted(p)' => Good(p)' \/ Named(p, DOMAIN m_tab \ Tried)'
                    /\ Named(p, Tried)' => Good(p)'
  BY DEF Followed
<1>1. Looking /\ Plain /\ ~kernel.lost
  BY DEF Plain
<1>2. Tried' = Tried
  BY DEF Tried
<1>3. Wanted(p)' <=> Wanted(p)
  BY DEF Wanted, Lists
<1>4. /\ Named(p, DOMAIN m_tab \ Tried)' <=> Named(p, DOMAIN m_tab \ Tried)
      /\ Named(p, Tried)' <=> Named(p, Tried)
  BY <1>2 DEF Named
<1> QED BY <1>1, <1>3, <1>4 DEF Followed

(* ... or one more slot has been tried.                                    *)
LEMMA FollowedOn ==
    ASSUME Followed, Looking, UNCHANGED <<m_tab, cnt>>, kernel.lost => kernel'.lost,
           \A n \in DOMAIN m_tab : n \in Tried' <=> n \in Tried \/ n = at,
           Plain /\ ~kernel'.lost => \A p \in Path : Here(p)' =>
                /\ Here(p) /\ (Good(p) => Good(p)')
                /\ at \in DOMAIN m_tab /\ m_tab[at].path = p => Good(p)'
    PROVE  Followed'
<1> SUFFICES ASSUME Looking', Plain', ~kernel'.lost, NEW p \in Path, Here(p)'
             PROVE  /\ Wanted(p)' => Good(p)' \/ Named(p, DOMAIN m_tab \ Tried)'
                    /\ Named(p, Tried)' => Good(p)'
  BY DEF Followed
<1>1. Plain /\ ~kernel.lost
  BY DEF Plain
<1>2. Wanted(p)' <=> Wanted(p)
  BY DEF Wanted, Lists
<1>3. Here(p) /\ (Good(p) => Good(p)')
  BY <1>1
<1>4. /\ Wanted(p) => Good(p) \/ Named(p, DOMAIN m_tab \ Tried)
      /\ Named(p, Tried) => Good(p)
  BY <1>1, <1>3 DEF Followed
<1>5. Named(p, DOMAIN m_tab \ Tried) => Good(p)' \/ Named(p, DOMAIN m_tab \ Tried)'
  <2>1. ASSUME NEW n \in DOMAIN m_tab \ Tried, m_tab[n].path = p
        PROVE  Good(p)' \/ Named(p, DOMAIN m_tab \ Tried)'
    <3>1. CASE n = at
      BY <1>1, <2>1, <3>1
    <3>2. CASE n # at
      <4>1. n \in DOMAIN m_tab' \ Tried' /\ m_tab'[n].path = p
        BY <2>1, <3>2
      <4> QED BY <4>1 DEF Named
    <3> QED BY <3>1, <3>2
  <2> QED BY <2>1 DEF Named
<1>6. Named(p, Tried)' => Named(p, Tried) \/ (at \in DOMAIN m_tab /\ m_tab[at].path = p)
  <2>1. ASSUME NEW n \in Tried', m_tab'[n].path = p
        PROVE  Named(p, Tried) \/ (at \in DOMAIN m_tab /\ m_tab[at].path = p)
    <3>1. n \in DOMAIN m_tab
      BY <2>1 DEF Tried
    <3> QED BY <2>1, <3>1 DEF Named
  <2> QED BY <2>1 DEF Named
<1> QED BY <1>1, <1>2, <1>3, <1>4, <1>5, <1>6

(* The second loop goes on, or stops between the two calls of a recovery.  *)
LEMMA TriedNext ==
    ASSUME At, pc = "add", UNCHANGED m_tab,
           \/ at' = at + 1 /\ recovering' = NULL
           \/ at' = at /\ recovering = NULL /\ recovering' # NULL,
           m_tab \in Seq(Entry)
    PROVE  \A n \in DOMAIN m_tab : n \in Tried' <=> n \in Tried \/ n = at
<1>1. at \in Nat /\ DOMAIN m_tab = 1..Len(m_tab) /\ Len(m_tab) \in Nat
  BY DEF At
<1>2. CASE at' = at + 1 /\ recovering' = NULL
  BY <1>1, <1>2 DEF Tried
<1>3. CASE at' = at /\ recovering = NULL /\ recovering' # NULL
  BY <1>1, <1>3 DEF Tried
<1> QED BY <1>2, <1>3

(* The steps of the second loop of Load.                                   *)
LEMMA FollowedAdds ==
    TabInv /\ NumInv /\ Placed /\ Scanned /\ Followed /\ LoadNext => Followed'
<1> SUFFICES ASSUME TabInv, NumInv, Placed, Scanned, Followed, LoadNext
             PROVE  Followed'
  OBVIOUS
<1>0. /\ TypeOK /\ MapsConsistent /\ At /\ Restoring /\ m_tab \in Seq(Entry)
      /\ m_map \in [Watch -> 0..Len(m_tab)]
  BY DEF TabInv, TableTypeOK
<1>a. ASSUME pc = "add", recovering # NULL \/ at <= Len(m_tab)
      PROVE  /\ at \in DOMAIN m_tab /\ m_tab[at] \in Entry
             /\ m_tab[at].path \in Path /\ m_tab[at].mask \in Mask
  <2>1. at \in 1..Len(m_tab)
    BY <1>0, <1>a DEF At, Restoring
  <2>2. m_tab[at] \in Entry
    BY <1>0, <2>1
  <2> QED BY <1>0, <2>1, <2>2 DEF Entry
<1>w. \A wd \in Wd : m_watches[wd] # NULL => m_watches[wd] \in Watch /\ watch[m_watches[wd]] # NULL
  BY <1>0 DEF TypeOK, MapsConsistent, DescriptorIndex
<1>1. CASE ReadFile \/ Scan \/ AddEntryFaults
  BY <1>1 DEF ReadFile, Scan, AddEntryFaults, Looking, Followed
<1>2. CASE LoadDone
  <2>1. Looking /\ UNCHANGED <<fs, kernel, missed, m_tab, cnt, at, recovering, m_buf, m_events,
                               m_watches, watch, itOk>>
    BY <1>2 DEF LoadDone, Looking, vars, object, outside
  <2>2. \A p : Good(p) => Good(p)'
    BY <2>1 DEF Good, Coming, Comes, Unparsed, Has
  <2>3. \A p : Here(p)' => Here(p)
    BY <2>1 DEF Here
  <2> QED BY <2>1, <2>2, <2>3, FollowedKept
<1>3. CASE SkipGlob
  <2>1. /\ pc = "add" /\ at <= Len(m_tab) /\ m_tab[at].path \in Glob /\ at' = at + 1
        /\ UNCHANGED <<fs, kernel, missed, m_tab, cnt, recovering, m_buf, m_events,
                       m_watches, watch, itOk>>
    BY <1>3 DEF SkipGlob, vars, object, loading, outside
  <2>2. recovering = NULL
    BY <1>0, <2>1 DEF Restoring
  <2>3. \A n \in DOMAIN m_tab : n \in Tried' <=> n \in Tried \/ n = at
    BY <1>0, <2>1, <2>2, TriedNext
  <2>4. \A p : Good(p) => Good(p)'
    BY <2>1 DEF Good, Coming, Comes, Unparsed, Has
  <2>5. \A p : Here(p)' => Here(p) /\ p # m_tab[at].path
    BY <2>1 DEF Here
  <2> QED BY <2>1, <2>3, <2>4, <2>5, FollowedOn DEF Looking
<1>4. ASSUME NEW w \in Watch, AddEntry(w)
      PROVE  Followed'
  <2> DEFINE q == m_tab[at].path
             mask == m_tab[at].mask
             o == [path |-> q, mask |-> mask, wd |-> WdFor(kernel, fs[q]), enabled |-> TRUE]
  <2>1. /\ pc = "add" /\ at <= Len(m_tab) /\ AddOk(w, q, mask) /\ at' = at + 1
        /\ UNCHANGED <<missed, m_tab, cnt, itOk>>
    BY <1>4 DEF AddEntry, Adding, loading, outside
  <2>2. at \in DOMAIN m_tab /\ q \in Path /\ mask \in Mask
    BY <1>a, <2>1
  <2>3. /\ recovering = NULL /\ recovering' = NULL /\ watch[w] = NULL
        /\ fs[q] # NULL /\ CanAddWatch(kernel, fs[q]) /\ kernel' = AddWatch(kernel, fs[q], mask)
        /\ m_watches[WdFor(kernel, fs[q])] = NULL
        /\ m_watches' = [m_watches EXCEPT ![WdFor(kernel, fs[q])] = w]
        /\ watch' = [watch EXCEPT ![w] = o]
        /\ UNCHANGED <<fs, m_buf, m_events>>
    BY <2>1 DEF AddOk, Idle
  <2>4. \A n \in DOMAIN m_tab : n \in Tried' <=> n \in Tried \/ n = at
    BY <1>0, <2>1, <2>3, TriedNext
  <2>5. fs[q] \in Inode
    BY <1>0, <2>2, <2>3 DEF TypeOK
  <2>6. kernel.lost => kernel'.lost
    BY <2>3, <2>5, AddedWatch, <2>2 DEF NumInv
  <2>7. Plain => "IN_ONESHOT" \notin mask
    BY <2>2 DEF Plain
  <2> HIDE DEF q, mask, o
  <2>8. \A wd \in Wd : m_watches[wd] # NULL =>
            /\ m_watches'[wd] = m_watches[wd]
            /\ watch'[m_watches[wd]].path = watch[m_watches[wd]].path
    BY <1>0, <1>w, <2>3 DEF TypeOK
  <2>9. Plain => Watched(kernel', fs[q]) /\ \A p \in Path : Good(p) => Good(p)'
    BY <1>0, <2>1, <2>2, <2>3, <2>5, <2>7, <2>8, GoodAdded
  <2>10. Plain => \A p \in Path : p = q => Good(p)'
    BY <2>3, <2>9 DEF Good
  <2>11. \A p : Here(p)' => Here(p)
    BY <2>1, <2>3 DEF Here
  <2> QED BY <2>1, <2>4, <2>6, <2>9, <2>10, <2>11, FollowedOn DEF Looking, q
<1>5. CASE AddEntryCollides
  <2> DEFINE q == m_tab[at].path
             mask == m_tab[at].mask
  <2>1. /\ pc = "add" /\ at <= Len(m_tab) /\ AddCollides(q, mask) /\ at' = at
        /\ UNCHANGED <<missed, m_tab, cnt, itOk>>
    BY <1>5 DEF AddEntryCollides, Adding, loading, outside
  <2>2. at \in DOMAIN m_tab /\ q \in Path /\ mask \in Mask
    BY <1>a, <2>1
  <2>3. /\ recovering = NULL /\ recovering' # NULL
        /\ fs[q] # NULL /\ CanAddWatch(kernel, fs[q]) /\ kernel' = AddWatch(kernel, fs[q], mask)
        /\ UNCHANGED <<fs, m_buf, m_events, m_watches, watch>>
    BY <2>1 DEF AddCollides, Idle
  <2>4. \A n \in DOMAIN m_tab : n \in Tried' <=> n \in Tried \/ n = at
    BY <1>0, <2>1, <2>3, TriedNext
  <2>5. fs[q] \in Inode
    BY <1>0, <2>2, <2>3 DEF TypeOK
  <2>6. kernel.lost => kernel'.lost
    BY <2>3, <2>5, AddedWatch, <2>2 DEF NumInv
  <2>7. Plain => "IN_ONESHOT" \notin mask
    BY <2>2 DEF Plain
  <2> HIDE DEF q, mask
  <2>9. Plain => Watched(kernel', fs[q]) /\ \A p \in Path : Good(p) => Good(p)'
    BY <1>0, <2>1, <2>2, <2>3, <2>5, <2>7, GoodAdded
  <2>10. Plain => \A p \in Path : p = q => Good(p)'
    BY <2>3, <2>9 DEF Good
  <2>11. \A p : Here(p)' => Here(p)
    BY <2>1, <2>3 DEF Here
  <2> QED BY <2>1, <2>4, <2>6, <2>9, <2>10, <2>11, FollowedOn DEF Looking, q
<1>6. CASE AddEntryRecovers
  <2> DEFINE i == fs[watch[recovering].path]
             mask == watch[recovering].mask
  <2>1. /\ recovering # NULL /\ recovering' = NULL /\ at' = at + 1
        /\ UNCHANGED <<missed, m_tab, cnt, itOk, fs, m_buf, m_events, m_watches, watch>>
        /\ kernel' = kernel \/ (i # NULL /\ CanAddWatch(kernel, i)
                                /\ kernel' = AddWatch(kernel, i, mask))
    BY <1>6 DEF AddEntryRecovers, AddRecovers, loading, outside
  <2>2. pc = "add" /\ at \in DOMAIN m_tab
    BY <1>0, <1>a, <2>1 DEF Restoring
  <2>3. \A n \in DOMAIN m_tab : n \in Tried' <=> n \in Tried \/ n = at
    BY <1>0, <2>1, <2>2, TriedNext
  <2>4. recovering \in Watch /\ watch[recovering] \in WatchObj /\ watch[recovering] # NULL
    BY <1>0, <2>1 DEF TypeOK, MapsConsistent
  <2>5. i \in Inode \cup {NULL} /\ mask \in Mask
    BY <1>0, <2>4 DEF TypeOK, WatchObj
  <2>6. Plain => "IN_ONESHOT" \notin mask
    BY <2>2, <2>4, PlainWatch DEF Looking
  <2> HIDE DEF i, mask
  <2>7. kernel.lost => kernel'.lost
    <3>1. CASE i # NULL /\ CanAddWatch(kernel, i) /\ kernel' = AddWatch(kernel, i, mask)
      BY <2>5, <3>1, AddedWatch DEF NumInv
    <3> QED BY <2>1, <3>1
  <2>8. Plain => \A p \in Path : Good(p) => Good(p)'
    <3>1. CASE kernel' = kernel
      BY <2>1, <3>1 DEF Good, Coming, Comes, Unparsed, Has
    <3>2. CASE i # NULL /\ CanAddWatch(kernel, i) /\ kernel' = AddWatch(kernel, i, mask)
      BY <1>0, <2>1, <2>5, <2>6, <3>2, GoodAdded
    <3> QED BY <2>1, <3>1, <3>2
  <2>9. \A p : Here(p)' => Here(p)
    BY <2>1 DEF Here
  <2>10. at \in Tried
    BY <2>1, <2>2 DEF Tried
  <2>11. ASSUME Plain, ~kernel'.lost, NEW p \in Path, Here(p), m_tab[at].path = p
         PROVE  Good(p)'
    <3>1. Named(p, Tried)
      BY <2>10, <2>11 DEF Named
    <3>2. Good(p)
      BY <2>2, <2>7, <2>11, <3>1 DEF Followed, Looking
    <3> QED BY <2>8, <2>11, <3>2
  <2> QED BY <2>1, <2>2, <2>3, <2>7, <2>8, <2>9, <2>11, FollowedOn DEF Looking
<1>7. CASE AddEntryFails
  <2> DEFINE q == m_tab[at].path
  <2>1. /\ pc = "add" /\ at <= Len(m_tab) /\ at' = at + 1
        /\ UNCHANGED <<m_tab, cnt, itOk, fs, kernel, m_buf, m_events, m_watches, watch>>
        /\ recovering = NULL /\ recovering' = NULL
        /\ \/ m_paths[q] # NULL /\ UNCHANGED missed
           \/ missed' = missed \cup {q}
    BY <1>7 DEF AddEntryFails, Adding, AddPathTaken, AddFails, Idle
  <2>2. at \in DOMAIN m_tab /\ q \in Path
    BY <1>a, <2>1
  <2>3. \A n \in DOMAIN m_tab : n \in Tried' <=> n \in Tried \/ n = at
    BY <1>0, <2>1, TriedNext
  <2>4. \A p : Good(p) => Good(p)'
    BY <2>1 DEF Good, Coming, Comes, Unparsed, Has
  <2>5. \A p : Here(p)' => Here(p)
    BY <2>1 DEF Here
  <2>6. ASSUME NEW p \in Path, p = q, m_paths[q] # NULL, Plain, ~kernel.lost, Here(p)
        PROVE  Good(p)
    <3> DEFINE w == m_paths[q]
    <3>1. w \in Watch /\ watch[w] # NULL /\ watch[w].path = q
      BY <1>0, <2>2, <2>6 DEF TypeOK, MapsConsistent, PathIndex
    <3>2. Owned(w) /\ m_map[w] < at /\ m_map[w] \in 0..Len(m_tab)
      BY <1>0, <2>1, <3>1 DEF TabInv, Ownership, Placed
    <3>3. m_map[w] \in Tried /\ m_tab[m_map[w]].path = q
      BY <1>0, <3>1, <3>2 DEF Owned, Tried
    <3>4. Named(p, Tried)
      BY <2>6, <3>3 DEF Named
    <3> QED BY <2>1, <2>6, <3>4 DEF Followed, Looking
  <2>7. ASSUME Plain, ~kernel'.lost, NEW p \in Path, Here(p)', q = p
        PROVE  Good(p)'
    <3>1. p \notin missed' /\ Here(p)
      BY <2>5, <2>7 DEF Here
    <3>2. m_paths[q] # NULL /\ ~kernel.lost
      BY <2>1, <2>7, <3>1
    <3>3. Good(p)
      BY <2>6, <2>7, <3>1, <3>2
    <3> QED BY <2>4, <3>3
  <2> QED BY <2>1, <2>3, <2>4, <2>5, <2>7, FollowedOn DEF Looking
<1>8. CASE ScanDone
  <2>1. /\ pc = "scan" /\ pc' = "add" /\ at' = 1 /\ at > cnt
        /\ UNCHANGED <<fs, recovering, m_tab, cnt, missed>>
    BY <1>8 DEF ScanDone, vars, object, outside
  <2>2. recovering' = NULL
    BY <1>0, <2>1 DEF Restoring
  <2>3. Tried' = {}
    BY <1>0, <2>1, <2>2 DEF Tried
  <2>4. ASSUME NEW p \in Path, Here(p)', Wanted(p)'
        PROVE  Named(p, DOMAIN m_tab \ Tried)'
    <3>1. Here(p) /\ Wanted(p)
      BY <2>1, <2>4 DEF Here, Wanted, Lists
    <3>2. at..cnt = {}
      BY <1>0, <2>1 DEF At
    <3>3. ~FindToCome(p)
      BY <2>1, <3>2 DEF FindToCome
    <3>4. Named(p, DOMAIN m_tab)
      BY <2>1, <3>1, <3>3 DEF Scanned
    <3> QED BY <2>1, <2>3, <3>4 DEF Named
  <2>5. \A p : ~Named(p, Tried)'
    BY <2>3 DEF Named
  <2> QED BY <2>4, <2>5 DEF Followed
<1> QED BY <1>1, <1>2, <1>3, <1>4, <1>5, <1>6, <1>7, <1>8 DEF LoadNext

(* The other steps of the daemon.                                          *)
LEMMA FollowedEvents ==
    TabInv /\ Placed /\ Followed /\ EventNext => Followed'
<1> SUFFICES ASSUME TabInv, Placed, Followed, EventNext
             PROVE  Followed'
  OBVIOUS
<1>0. TypeOK /\ Attribution
  BY DEF TabInv, TableTypeOK
<1>1. CASE EventsDone \/ OnEventResume
  <2>1. /\ Looking /\ UNCHANGED <<fs, kernel, missed, m_tab, cnt, at, recovering, m_buf,
                                  m_events, m_watches, watch>>
        /\ itOk => itOk'
    BY <1>1 DEF EventsDone, OnEventResume, Looking, vars, object, outside
  <2>2. \A p : Good(p) => Good(p)'
    BY <2>1 DEF Good, Coming, Comes, Unparsed, Has
  <2>3. \A p : Here(p)' => Here(p)
    BY <2>1 DEF Here
  <2> QED BY <2>1, <2>2, <2>3, FollowedKept
<1>2. CASE StartEvents
  <2>1. /\ Looking /\ ReadEvents
        /\ UNCHANGED <<missed, m_tab, cnt, at, itOk>>
    BY <1>2 DEF StartEvents, Looking, outside
  <2>2. /\ UNCHANGED <<fs, recovering, m_events, m_watches, watch>>
        /\ kernel'.watch = kernel.watch /\ kernel'.lost = kernel.lost
    BY <1>0, <2>1 DEF ReadEvents, TypeOK, Kernel
  <2>3. Unparsed' = Unparsed
    BY <1>0, <2>1, UnparsedRead
  <2>4. \A p : Coming(p) => Coming(p)'
    BY <1>0, <2>2, <2>3, ComingKept
  <2>5. \A p : Good(p) => Good(p)'
    BY <2>1, <2>2, <2>4 DEF Good, Has, Watched
  <2>6. \A p : Here(p)' => Here(p)
    BY <2>1, <2>2 DEF Here
  <2> QED BY <2>1, <2>2, <2>5, <2>6, FollowedKept
<1>3. CASE Parse
  <2>1. Looking /\ UNCHANGED <<fs, kernel, missed, m_tab, cnt, at, recovering>>
    BY <1>3 DEF Parse, ParseEvent, Looking, table, outside
  <2>2. Plain => \A p \in Path : Good(p) => Good(p)'
    BY <1>3, GoodParsed
  <2>3. \A p : Here(p)' => Here(p)
    BY <2>1 DEF Here
  <2> QED BY <2>1, <2>2, <2>3, FollowedKept
<1>4. CASE IteratorDangles \/ OnEventFaults \/ OnEventReload
  BY <1>4 DEF IteratorDangles, OnEventFaults, OnEventReload, StartDispose, Followed, Looking
<1>5. CASE OnEventNoEntry \/ OnEventRun \/ OnEventDenied
  <2>1. /\ pc = "drain" /\ GetEvent /\ missed \subseteq missed'
        /\ UNCHANGED <<fs, kernel, m_tab, cnt, at, recovering, itOk>>
    BY <1>5 DEF OnEventNoEntry, OnEventRun, OnEventDenied, GetEvent, outside
  <2>2. \A p : Here(p)' => Here(p)
    BY <2>1 DEF Here
  <2>3. ASSUME NEW p \in Path, Here(p)', itOk, Tells(Evt, p)
        PROVE  FALSE
    <3>1. CASE OnEventNoEntry
      <4>1. Head(m_events) = m_events[1] /\ 1 \in DOMAIN m_events
        <5>1. m_events \in Seq(Event) /\ m_events # <<>>
          BY <1>0, <2>1 DEF TypeOK, GetEvent
        <5>2. Len(m_events) \in Nat /\ Len(m_events) # 0 /\ DOMAIN m_events = 1..Len(m_events)
          BY <5>1, EmptySeq
        <5> QED BY <5>1, <5>2, HeadTailProperties
      <4>2. m_map[Evt.watch] # 0
        BY <1>0, <2>1, <2>3, <4>1 DEF Attribution, AsRead, Queued, Evt
      <4> QED BY <3>1, <4>2 DEF OnEventNoEntry
    <3>2. CASE OnEventRun
      BY <2>3, <3>2 DEF OnEventRun, Tells
    <3>3. CASE OnEventDenied
      BY <2>3, <3>3 DEF OnEventDenied, Tells, Here
    <3> QED BY <1>5, <3>1, <3>2, <3>3
  <2>4. \A p \in Path : Here(p)' => Here(p) /\ (Good(p) => Good(p)')
    BY <2>1, <2>2, <2>3, GoodTaken
  <2>5. Looking
    BY <2>1 DEF Looking
  <2> QED BY <2>1, <2>4, <2>5, FollowedKept
<1> QED BY <1>1, <1>2, <1>3, <1>4, <1>5 DEF EventNext

LEMMA FollowedStep ==
    TabInv /\ Tree /\ NumInv /\ Placed /\ Scanned /\ Followed /\ [TableNext]_tvars => Followed'
<1> SUFFICES ASSUME TabInv, Tree, NumInv, Placed, Scanned, Followed, [TableNext]_tvars
             PROVE  Followed'
  OBVIOUS
<1>0. TypeOK /\ kernel \in Kernel
  BY DEF TabInv, TableTypeOK, TypeOK
<1>1. ASSUME UNCHANGED <<fs, kernel, missed, pc, m_tab, cnt, at, recovering, m_buf, m_events,
                         m_watches, watch, itOk>>
      PROVE  Followed'
  <2>1. \A p : Good(p) => Good(p)'
    BY <1>1 DEF Good, Coming, Comes, Unparsed, Has
  <2>2. \A p : Here(p)' => Here(p)
    BY <1>1 DEF Here
  <2>3. Looking' => Looking
    BY <1>1 DEF Looking
  <2> QED BY <1>1, <2>1, <2>2, <2>3, FollowedKept
<1>2. ASSUME ~Looking'
      PROVE  Followed'
  BY <1>2 DEF Followed
<1>3. CASE UNCHANGED tvars
  BY <1>1, <1>3 DEF tvars, vars, object, table, outside
<1>4. CASE LoadNext
  BY <1>4, FollowedAdds
<1>5. CASE DisposeNext
  BY <1>2, <1>5 DEF DisposeNext, DisposeWatch, DisposeThrows, Disposed, Destroyed, Looking
<1>6. CASE EventNext
  BY <1>6, FollowedEvents
<1>7. CASE MgmtNothing
  BY <1>1, <1>7 DEF MgmtNothing, vars, object, table
<1>8. CASE MgmtReload \/ MgmtDestroy \/ MgmtCreate
  BY <1>2, <1>8 DEF MgmtReload, MgmtDestroy, MgmtCreate, StartDispose, Looking
<1>9. ASSUME TreeNext, \A p \in Path : Here(p)' =>
                \/ Here(p) /\ fs'[p] = fs[p]
                \/ Looking /\ ~kernel'.lost => Good(p)'
      PROVE  Followed'
  <2>1. UNCHANGED <<pc, m_tab, cnt, at, recovering>>
    BY <1>9 DEF TreeNext, MakeDir, RemoveDir, WriteIn, object, table
  <2>2. kernel.lost => kernel'.lost
    <3>1. \A i : \A t \in Type : Extends(kernel, Deliver(kernel, i, t))
      BY <1>0, DeliverExtends DEF EventType
    <3>2. \A i : Extends(kernel, Die(kernel, i)) /\ Extends(kernel, kernel)
      BY <1>0, DieExtends DEF Extends
    <3>3. Extends(kernel, kernel')
      BY <1>9, <3>1, <3>2, TableAssumption DEF TreeNext, MakeDir, RemoveDir, WriteIn
    <3> QED BY <3>3 DEF Extends
  <2>3. ASSUME Looking, ~kernel'.lost, NEW p \in Path, Here(p)'
        PROVE  Good(p)' \/ (Here(p) /\ (Good(p) => Good(p)'))
    <3>1. CASE Here(p) /\ fs'[p] = fs[p]
      BY <1>9, <2>3, <3>1, GoodOutside DEF Here
    <3> QED BY <1>9, <2>3, <3>1
  <2>4. Looking' => Looking
    BY <2>1 DEF Looking
  <2> QED BY <2>1, <2>2, <2>3, <2>4, FollowedKept
<1>10. ASSUME NEW q \in Path, NEW i \in Inode, MakeDir(q, i)
       PROVE  Followed'
  <2>1. ASSUME NEW p \in Path, Here(p)', p = q, Looking, ~kernel'.lost
        PROVE  Good(p)'
    <3>1. Told(q)
      BY <1>10, <2>1, MadeHere DEF FindToCome, Looking
    <3> QED BY <1>10, <2>1, <3>1, MadeGood
  <2> QED BY <1>9, <1>10, <2>1, MadeHere DEF TreeNext
<1>11. ASSUME NEW q \in Path, RemoveDir(q)
       PROVE  Followed'
  BY <1>9, <1>11, RemovedHere DEF TreeNext
<1>12. ASSUME NEW q \in Path, NEW t \in Type, WriteIn(q, t)
       PROVE  Followed'
  <2>1. UNCHANGED <<fs, missed>>
    BY <1>12 DEF WriteIn
  <2> QED BY <1>9, <1>12, <2>1 DEF TreeNext, Here
<1>13. CASE OutsideNext
  BY <1>1, <1>10, <1>11, <1>12, <1>13 DEF OutsideNext, WriteTable, ChangeUser, vars, object, table
<1> QED BY <1>3, <1>4, <1>5, <1>6, <1>7, <1>8, <1>13 DEF TableNext, Daemon, MgmtNext

(* All of it holds when the table is constructed.                          *)
LEMMA FoundInit == TableInit => Tree /\ NumInv /\ Placed /\ Scanned /\ Followed
<1> SUFFICES ASSUME TableInit
             PROVE  Tree /\ NumInv /\ Placed /\ Scanned /\ Followed
  OBVIOUS
<1>1. /\ pc = "load" /\ m_buf = <<>> /\ kernel.queue = <<>>
      /\ \A wd \in Wd : kernel.watch[wd] = NULL /\ m_watches[wd] = NULL
  BY DEF TableInit, Init
<1>2. kernel \in Kernel
  BY TypeInit DEF TableInit, TypeOK
<1>3. Tree
  BY DEF TableInit, Tree
<1>4. NumInv
  BY <1>1, <1>2 DEF NumInv, KernelOk, KernelInv, Silent, Known, InPlace
<1>5. Placed /\ Scanned /\ Followed
  BY <1>1 DEF Placed, Scanned, Followed, Looking
<1> QED BY <1>3, <1>4, <1>5

-----------------------------------------------------------------------------
(* Results.                                                                *)

LEMMA Invariance == TableSpec => []TabInv
<1>1. TabInv /\ [TableNext]_tvars => TabInv'
  <2> SUFFICES ASSUME TabInv, [TableNext]_tvars
               PROVE  TabInv'
    OBVIOUS
  <2>1. TypeOK' /\ MapsConsistent'
    BY ObjectStep
  <2>2. Tables' /\ At' /\ Place' /\ World'
    BY TablesStep, PlaceStep, WorldStep
  <2>3. TableTypeOK'
    BY <2>1, <2>2 DEF TableTypeOK, Tables, Place, World
  <2> QED BY <2>1, <2>2, <2>3, RestoringStep, OwnershipStep, DrainedStep, AttributionStep
          DEF TabInv
<1> QED BY <1>1, InvInit, PTL DEF TableSpec

(* The table and its Inotify stay within their types whatever is loaded,   *)
(* reloaded, disposed of and changed meanwhile (class UserTable).          *)
THEOREM TableTypeCorrect == TableSpec => []TableTypeOK
<1>1. TabInv => TableTypeOK
  BY DEF TabInv
<1> QED BY <1>1, Invariance, PTL

(* m_map and the heap agree whenever an event may be looked up in them     *)
(* (FindEntry, AddTabEntry, Dispose).                                      *)
THEOREM MapCorrect == TableSpec => []MapOwnsWatches
<1>1. TabInv => MapOwnsWatches
  BY DEF TabInv, Ownership, Owned, MapOwnsWatches, Loaded
<1> QED BY <1>1, Invariance, PTL

(* Unless a reload came between, an event starts a command of the entry it *)
(* was read for (ProcessEvents, OnEvent).                                  *)
THEOREM AttributionCorrect == TableSpec => []EventsAttributed
<1>1. TabInv => EventsAttributed
  BY DEF TabInv, Attribution, AsRead, Queued, Right, EventsAttributed
<1> QED BY <1>1, Invariance, PTL

(* No event that was read is left when the daemon goes back to poll        *)
(* (ProcessEvents, Load).                                                  *)
THEOREM NothingStrandedEver == TableSpec => []NothingStranded
<1>1. TabInv => NothingStranded
  BY DEF TabInv, Drained, NothingStranded
<1> QED BY <1>1, Invariance, PTL

(* When no change of the table file is unread, what is loaded is what the  *)
(* file holds, and a table is missing only where there is no file or no    *)
(* user who may have one (ProcessMgmtEvents, Load).                        *)
THEOREM FileLoadedEver == TableSpec => []FileLoaded
<1>1. TabInv /\ Newest /\ [TableNext]_tvars => Newest'
  BY NewestStep
<1>2. Newest => FileLoaded
  BY DEF Newest, FileRead, FileLoaded, Loaded
<1> QED BY <1>1, <1>2, NewestInit, Invariance, PTL DEF TableSpec

(* A watch the table believes in and the kernel has dropped is one whose   *)
(* end is still to be read, in every state of every load, reload and read  *)
(* (OnEvent, ProcessMgmtEvents, WaitForEvents), unless the queue           *)
(* overflowed: the safety half of WatchesConverge.                         *)
THEOREM TableStaleness == TableSpec => []StaleWatchNotified
<1>1. TableInit => StaleWatchNotified
  BY DEF TableInit, Init, StaleWatchNotified
<1>2. StaleWatchNotified /\ TabInv /\ [TableNext]_tvars => StaleWatchNotified'
  BY TableStale
<1> QED BY Invariance, <1>1, <1>2, PTL DEF TableSpec

(* Back in poll, a directory that a recursive entry covers is watched, or  *)
(* the event about it is on its way to a watch the table knows (Load,      *)
(* OnEvent): the safety half of DirectoriesCovered.                        *)
THEOREM DirectoriesFollowed == TableSpec => []DirectoriesAnnounced
<1> DEFINE Inv == Tree /\ NumInv /\ Placed /\ Scanned /\ Followed
<1>1. TableInit => Inv
  BY FoundInit
<1>2. Inv /\ TabInv /\ [TableNext]_tvars => Inv'
  BY TreeStep, NumStep, PlacedStep, ScannedStep, FollowedStep
<1>3. Inv /\ TabInv => DirectoriesAnnounced
  <2> SUFFICES ASSUME Inv, TabInv, pc = "poll", ~kernel.lost, Plain, NEW n \in 1..cnt,
                      NEW p \in Path, ~m_tab[n].norec, p \in Expansion(m_tab[n]),
                      Target[p] = p, p \notin Glob \cup missed
               PROVE  KWatches(kernel, fs[p]) # {} \/ Announced(p)
    BY DEF DirectoriesAnnounced, Plain
  <2>1. /\ at > Len(m_tab) /\ at \in Nat /\ cnt \in Nat /\ cnt <= Len(m_tab)
        /\ m_tab \in Seq(Entry) /\ m_buf = <<>> /\ m_events = <<>>
        /\ kernel.queue \in Seq(KEvent)
    BY DEF Placed, Looking, TabInv, TableTypeOK, TypeOK, Kernel, Drained
  <2>2. DOMAIN m_tab = 1..Len(m_tab) /\ Len(m_tab) \in Nat
    BY <2>1
  <2>3. n \in DOMAIN m_tab /\ DOMAIN m_tab \ Tried = {}
    BY <2>1, <2>2 DEF Tried
  <2>4. Here(p) /\ Wanted(p)
    BY <2>1, <2>3 DEF Here, Wanted, Expansion
  <2>5. Good(p)
    BY <2>3, <2>4 DEF Followed, Looking, Named
  <2>6. ~Has(p)
    BY <2>1 DEF Has
  <2>7. Watched(kernel, fs[p]) => KWatches(kernel, fs[p]) # {}
    BY DEF Watched, KWatches
  <2>8. Unparsed = kernel.queue
    BY <2>1, ConcatEmptySeq DEF Unparsed
  <2>9. Coming(p) => Announced(p)
    BY <2>8 DEF Coming, Comes, Announced
  <2> QED BY <2>5, <2>6, <2>7, <2>9 DEF Good
<1> HIDE DEF Inv
<1> QED BY Invariance, <1>1, <1>2, <1>3, PTL DEF TableSpec
=============================================================================
