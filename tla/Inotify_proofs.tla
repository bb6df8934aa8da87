--------------------------- MODULE Inotify_proofs ---------------------------
(* Safety of class Inotify for any number of paths, inodes, watches and    *)
(* descriptors and any queue and buffer size.  First the kernel operators: *)
(* what they may do to the queue and to the watches; then the inductive    *)
(* invariant, action by action.                                            *)
EXTENDS Inotify, SequenceTheorems, TLAPS

-----------------------------------------------------------------------------
(* Kernel.                                                                 *)

(* From k to k1 the kernel may lose events, which it records, but not      *)
(* otherwise take one back, and it says so when it drops a watch.          *)
Extends(k, k1) ==
    /\ k1 \in Kernel
    /\ k.lost => k1.lost
    /\ k1.lost \/
        /\ \A n \in DOMAIN k.queue :
                n \in DOMAIN k1.queue /\ k1.queue[n] = k.queue[n]
        /\ \A wd \in Wd : k.watch[wd] # NULL /\ k1.watch[wd] = NULL =>
                \E n \in DOMAIN k1.queue :
                    k1.queue[n].wd = wd /\ k1.queue[n].type = "IN_IGNORED"

LEMMA ExtendsTransitive ==
    ASSUME NEW a \in Kernel, NEW b, NEW c, Extends(a, b), Extends(b, c)
    PROVE  Extends(a, c)
  BY DEF Extends

(* Enqueue leaves the watches alone and either loses events or keeps the   *)
(* queue as a prefix and has the event in it.                              *)
LEMMA EnqueueProperties ==
    ASSUME NEW k \in Kernel, NEW e \in KEvent
    PROVE  /\ Enqueue(k, e) \in Kernel
           /\ Enqueue(k, e).watch = k.watch
           /\ Enqueue(k, e).next = k.next
           /\ k.lost => Enqueue(k, e).lost
           /\ \/ Enqueue(k, e).lost
              \/ /\ \A n \in DOMAIN k.queue :
                        /\ n \in DOMAIN Enqueue(k, e).queue
                        /\ Enqueue(k, e).queue[n] = k.queue[n]
                 /\ \E n \in DOMAIN Enqueue(k, e).queue :
                        Enqueue(k, e).queue[n] = e
<1> DEFINE E == Enqueue(k, e)
<1>0. /\ k.queue \in Seq(KEvent) /\ Overflow \in KEvent
      /\ DOMAIN k.queue = 1..Len(k.queue) /\ Len(k.queue) \in Nat
  BY DEF Kernel, KEvent
<1>1. CASE Len(k.queue) >= MaxQueue
  <2>1. PICK q \in Seq(KEvent) : E = [k EXCEPT !.lost = TRUE, !.queue = q]
    <3>1. Append(k.queue, Overflow) \in Seq(KEvent)
      BY <1>0
    <3> QED BY <1>0, <1>1, <3>1 DEF Enqueue, Kernel
  <2> QED BY <2>1 DEF Kernel
<1>2. CASE ~(Len(k.queue) >= MaxQueue) /\ k.queue # <<>> /\ k.queue[Len(k.queue)] = e
  <2>1. E = k
    BY <1>2 DEF Enqueue
  <2>2. Len(k.queue) \in DOMAIN k.queue
    BY <1>0, <1>2, EmptySeq
  <2> QED BY <1>2, <2>1, <2>2
<1>3. CASE ~(Len(k.queue) >= MaxQueue) /\ ~(k.queue # <<>> /\ k.queue[Len(k.queue)] = e)
  <2>1. E = [k EXCEPT !.queue = Append(k.queue, e)]
    BY <1>3 DEF Enqueue, Kernel
  <2>2. /\ Append(k.queue, e) \in Seq(KEvent)
        /\ DOMAIN Append(k.queue, e) = 1..(Len(k.queue) + 1)
        /\ \A n \in 1..Len(k.queue) : Append(k.queue, e)[n] = k.queue[n]
        /\ Append(k.queue, e)[Len(k.queue) + 1] = e
    BY <1>0, AppendProperties
  <2>3. E \in Kernel /\ E.queue = Append(k.queue, e) /\ E.watch = k.watch
        /\ E.next = k.next /\ E.lost = k.lost
    BY <2>1, <2>2 DEF Kernel
  <2> QED BY <1>0, <2>2, <2>3
<1> QED BY <1>1, <1>2, <1>3

LEMMA EnqueueExtends ==
    ASSUME NEW k \in Kernel, NEW e \in KEvent
    PROVE  Extends(k, Enqueue(k, e))
  BY EnqueueProperties DEF Extends

(* Drop removes one watch and announces it.                                *)
LEMMA DropExtends ==
    ASSUME NEW k \in Kernel, NEW wd \in Wd
    PROVE  Extends(k, Drop(k, wd))
           /\ Drop(k, wd).watch = [k.watch EXCEPT ![wd] = NULL]
           /\ Drop(k, wd).next = k.next
<1> DEFINE k0 == [k EXCEPT !.watch[wd] = NULL]
           e  == [wd |-> wd, type |-> "IN_IGNORED"]
<1>1. k0 \in Kernel /\ k0.queue = k.queue /\ k0.lost = k.lost /\ k0.next = k.next
      /\ k0.watch = [k.watch EXCEPT ![wd] = NULL]
  BY DEF Kernel
<1>2. e \in KEvent
  BY DEF KEvent, EventType
<1>3. Drop(k, wd) = Enqueue(k0, e)
  BY DEF Drop
<1> HIDE DEF k0
<1>4. \A v \in Wd : k.watch[v] # NULL /\ k0.watch[v] = NULL => v = wd
  BY <1>1 DEF Kernel
<1> HIDE DEF e
<1>5. /\ Enqueue(k0, e) \in Kernel
      /\ Enqueue(k0, e).watch = k0.watch
      /\ Enqueue(k0, e).next = k0.next
      /\ k0.lost => Enqueue(k0, e).lost
      /\ \/ Enqueue(k0, e).lost
         \/ /\ \A n \in DOMAIN k0.queue :
                   /\ n \in DOMAIN Enqueue(k0, e).queue
                   /\ Enqueue(k0, e).queue[n] = k0.queue[n]
            /\ \E n \in DOMAIN Enqueue(k0, e).queue :
                   Enqueue(k0, e).queue[n] = e
  BY <1>1, <1>2, EnqueueProperties
<1>6. e.wd = wd /\ e.type = "IN_IGNORED"
  BY DEF e
<1> QED BY <1>1, <1>3, <1>4, <1>5, <1>6 DEF Extends

LEMMA DeliverExtends ==
    ASSUME NEW k \in Kernel, NEW i, NEW t \in EventType
    PROVE  Extends(k, Deliver(k, i, t))
<1>0. Extends(k, k)
  BY DEF Extends
<1>1. CASE \E wd \in KWatches(k, i) : t \in k.watch[wd].mask
  <2> DEFINE wd == CHOOSE wd \in KWatches(k, i) : t \in k.watch[wd].mask
             e  == [wd |-> wd, type |-> t]
             k1 == Enqueue(k, e)
  <2>1. wd \in Wd
    BY <1>1 DEF KWatches
  <2>2. e \in KEvent
    BY <2>1 DEF KEvent
  <2>3. Extends(k, k1) /\ k1 \in Kernel
    BY <2>2, EnqueueExtends DEF Extends
  <2>4. Deliver(k, i, t) = IF "IN_ONESHOT" \in k.watch[wd].mask
                           THEN Drop(k1, wd) ELSE k1
    BY <1>1 DEF Deliver
  <2> HIDE DEF wd, k1
  <2>5. Extends(k1, Drop(k1, wd))
    BY <2>1, <2>3, DropExtends
  <2>6. Extends(k, Drop(k1, wd))
    BY <2>3, <2>5, ExtendsTransitive
  <2> QED BY <2>3, <2>4, <2>6
<1>2. CASE ~ \E wd \in KWatches(k, i) : t \in k.watch[wd].mask
  BY <1>0, <1>2 DEF Deliver
<1> QED BY <1>1, <1>2

LEMMA DieExtends ==
    ASSUME NEW k \in Kernel, NEW i
    PROVE  Extends(k, Die(k, i))
<1> DEFINE k1 == Deliver(k, i, "IN_DELETE_SELF")
<1>1. Extends(k, k1) /\ k1 \in Kernel
  BY DeliverExtends DEF EventType, Extends
<1>2. Die(k, i) = IF KWatches(k1, i) = {} THEN k1
                  ELSE Drop(k1, CHOOSE wd \in KWatches(k1, i) : TRUE)
  BY DEF Die
<1> HIDE DEF k1
<1>3. CASE KWatches(k1, i) # {}
  <2> DEFINE wd == CHOOSE wd \in KWatches(k1, i) : TRUE
  <2>1. wd \in Wd
    BY <1>3 DEF KWatches
  <2> HIDE DEF wd
  <2>2. Extends(k1, Drop(k1, wd))
    BY <1>1, <2>1, DropExtends
  <2>3. Die(k, i) = Drop(k1, wd)
    BY <1>2, <1>3 DEF wd
  <2> QED BY <1>1, <2>2, <2>3, ExtendsTransitive
<1> QED BY <1>1, <1>2, <1>3

(* inotify_add_watch gives a descriptor and takes no watch away.           *)
LEMMA AddWatchExtends ==
    ASSUME NEW k \in Kernel, NEW i \in Inode, NEW mask \in Mask,
           CanAddWatch(k, i)
    PROVE  /\ WdFor(k, i) \in Wd
           /\ AddWatch(k, i, mask) \in Kernel
           /\ AddWatch(k, i, mask).queue = k.queue
           /\ AddWatch(k, i, mask).lost = k.lost
           /\ AddWatch(k, i, mask).watch[WdFor(k, i)] # NULL
           /\ \A wd \in Wd : k.watch[wd] # NULL =>
                    AddWatch(k, i, mask).watch[wd] # NULL
<1> DEFINE v == WdFor(k, i)
           r == [ino |-> i, mask |-> mask]
           n == IF KWatches(k, i) = {} THEN k.next + 1 ELSE k.next
<1>1. v \in Wd
  BY DEF CanAddWatch, WdFor, KWatches
<1>2. n \in 1..(MaxWd + 1)
  BY BoundAssumption DEF CanAddWatch, Kernel, Wd
<1>3. AddWatch(k, i, mask) = [k EXCEPT !.watch[v] = r, !.next = n]
  BY DEF AddWatch, Kernel
<1>4. r \in KWatch /\ r # NULL
  BY NullAssumption DEF KWatch
<1> HIDE DEF v, r, n
<1>5. AddWatch(k, i, mask).watch = [k.watch EXCEPT ![v] = r]
      /\ AddWatch(k, i, mask).queue = k.queue
      /\ AddWatch(k, i, mask).lost = k.lost
      /\ AddWatch(k, i, mask) \in Kernel
  BY <1>1, <1>2, <1>3, <1>4 DEF Kernel
<1>6. k.watch \in [Wd -> KWatch \cup {NULL}]
  BY DEF Kernel
<1> QED BY <1>1, <1>4, <1>5, <1>6 DEF v
-----------------------------------------------------------------------------
(* Type correctness.                                                       *)

LEMMA TypeInit == Init => TypeOK
<1> SUFFICES ASSUME Init PROVE TypeOK
  OBVIOUS
<1>1. kernel \in Kernel
  <2>1. <<>> \in Seq(KEvent) /\ 1 \in 1..(MaxWd + 1)
    BY BoundAssumption
  <2> QED BY <2>1 DEF Init, Kernel
<1>2. m_buf \in Seq(KEvent) /\ m_events \in Seq(Event)
  BY DEF Init
<1> QED BY <1>1, <1>2 DEF Init, TypeOK, Outcome

(* A read splits the kernel's queue in two.                                *)
LEMMA ReadTypes ==
    ASSUME TypeOK, ReadEvents
    PROVE  kernel' \in Kernel /\ m_buf' \in Seq(KEvent)
<1> DEFINE q == kernel.queue
           n == IF Len(q) > BufLen THEN BufLen ELSE Len(q)
<1>1. q \in Seq(KEvent) /\ Len(q) \in Nat /\ n \in 0..Len(q)
  BY BoundAssumption DEF TypeOK, Kernel
<1>2. SubSeq(q, 1, n) \in Seq(KEvent) /\ SubSeq(q, n + 1, Len(q)) \in Seq(KEvent)
  BY <1>1, SubSeqProperties
<1>3. m_buf' = SubSeq(q, 1, n)
      /\ kernel' = [kernel EXCEPT !.queue = SubSeq(q, n + 1, Len(q))]
  BY DEF ReadEvents
<1> QED BY <1>2, <1>3 DEF TypeOK, Kernel

LEMMA DropTypes ==
    ASSUME NEW k \in Kernel, NEW wd \in Wd
    PROVE  Drop(k, wd) \in Kernel
  BY DropExtends DEF Extends

LEMMA TypeStep == TypeOK /\ MapsConsistent /\ [Next]_vars => TypeOK'
<1> SUFFICES ASSUME TypeOK, MapsConsistent, [Next]_vars
             PROVE  TypeOK'
  OBVIOUS
<1> USE DEF TypeOK
<1>1. ASSUME NEW w \in Watch, NEW p \in Path, NEW mask \in Mask, AddOk(w, p, mask)
      PROVE  TypeOK'
  <2>1. fs[p] \in Inode /\ CanAddWatch(kernel, fs[p])
    BY <1>1 DEF AddOk
  <2>2. kernel' \in Kernel /\ WdFor(kernel, fs[p]) \in Wd
    BY <1>1, <2>1, AddWatchExtends DEF AddOk
  <2>3. watch' \in [Watch -> WatchObj \cup {NULL}]
    BY <1>1, <2>2 DEF AddOk, WatchObj
  <2>4. exc' \in Outcome
    BY <1>1 DEF AddOk, Outcome
  <2> QED BY <1>1, <2>2, <2>3, <2>4 DEF AddOk
<1>2. ASSUME NEW p \in Path, AddPathTaken(p) \/ AddFails(p)
      PROVE  TypeOK'
  BY <1>2 DEF AddPathTaken, AddFails, Outcome
<1>3. ASSUME NEW p \in Path, NEW mask \in Mask, AddCollides(p, mask)
      PROVE  TypeOK'
  <2>1. fs[p] \in Inode /\ CanAddWatch(kernel, fs[p])
    BY <1>3 DEF AddCollides
  <2>2. kernel' \in Kernel /\ WdFor(kernel, fs[p]) \in Wd
    BY <1>3, <2>1, AddWatchExtends DEF AddCollides
  <2> QED BY <1>3, <2>2 DEF AddCollides
<1>4. CASE AddRecovers
  <2> DEFINE i == fs[watch[recovering].path]
             m == watch[recovering].mask
  <2>1. i \in Inode \cup {NULL} /\ m \in Mask
    BY <1>4 DEF AddRecovers, WatchObj, MapsConsistent
  <2>2. CASE i # NULL /\ CanAddWatch(kernel, i)
    <3>1. kernel' = AddWatch(kernel, i, m)
          /\ exc' = "path already watched (but defined another way)"
      BY <1>4, <2>2 DEF AddRecovers
    <3>2. kernel' \in Kernel /\ exc' \in Outcome
      BY <2>1, <2>2, <3>1, AddWatchExtends DEF Outcome
    <3> QED BY <1>4, <3>2 DEF AddRecovers
  <2>3. CASE ~(i # NULL /\ CanAddWatch(kernel, i))
    BY <1>4, <2>3 DEF AddRecovers, Outcome
  <2> QED BY <2>2, <2>3
<1>5. ASSUME NEW w \in Watch, Remove(w)
      PROVE  TypeOK'
  <2>1. watch[w] \in WatchObj
    BY <1>5 DEF Remove
  <2>2. kernel' \in Kernel
    BY <1>5, <2>1, DropTypes DEF Remove, WatchObj
  <2>3. exc' \in Outcome
    BY <1>5 DEF Remove, Outcome
  <2>4. m_watches' \in [Wd -> Watch \cup {NULL}]
    BY <1>5 DEF Remove
  <2> QED BY <1>5, <2>2, <2>3, <2>4 DEF Remove
<1>6. ASSUME NEW w \in Watch, RemoveThrows(w)
      PROVE  TypeOK'
  BY <1>6 DEF RemoveThrows, Outcome
<1>7. CASE ReadEvents
  BY <1>7, ReadTypes DEF ReadEvents, Outcome
<1>8. CASE ParseEvent
  <2> DEFINE e == Head(m_buf)
             w == IF e.wd = NoWd THEN NULL ELSE m_watches[e.wd]
             v == [watch |-> w, type |-> e.type, path |-> watch[w].path]
  <2>1. e \in KEvent /\ m_buf' \in Seq(KEvent)
    BY <1>8 DEF ParseEvent
  <2>2. CASE w = NULL
    BY <1>8, <2>1, <2>2 DEF ParseEvent
  <2>3. CASE w # NULL
    <3>1. e \in [wd : Wd, type : EventType]
      BY <2>1, <2>3 DEF KEvent, Overflow
    <3>2. w \in Watch /\ watch[w] \in WatchObj
      BY <2>3, <3>1 DEF MapsConsistent, DescriptorIndex
    <3>3. v \in Event
      BY <3>1, <3>2 DEF Event, WatchObj
    <3>4. m_events' = Append(m_events, v)
      BY <1>8, <2>3 DEF ParseEvent
    <3>5. m_events' \in Seq(Event)
      BY <3>3, <3>4
    <3>6. /\ m_watches' \in [Wd -> Watch \cup {NULL}]
          /\ watch' \in [Watch -> WatchObj \cup {NULL}]
      <4>1. \/ m_watches' = m_watches /\ watch' = watch
            \/ Disable(w)
        BY <1>8, <2>3 DEF ParseEvent
      <4>2. CASE Disable(w)
        BY <3>2, <4>2 DEF Disable, WatchObj
      <4> QED BY <4>1, <4>2
    <3> QED BY <1>8, <2>1, <3>5, <3>6 DEF ParseEvent
  <2> QED BY <2>2, <2>3
<1>9. CASE GetEvent
  <2>1. m_events' \in Seq(Event)
    BY <1>9, HeadTailProperties DEF GetEvent
  <2> QED BY <1>9, <2>1 DEF GetEvent, Outcome
<1>10. CASE Close
  <2>1. kernel' \in Kernel
    <3>1. <<>> \in Seq(KEvent) /\ [wd \in Wd |-> NULL] \in [Wd -> KWatch \cup {NULL}]
      OBVIOUS
    <3> QED BY <1>10, <3>1 DEF Close, RemoveAll, Kernel
  <2>2. watch' \in [Watch -> WatchObj \cup {NULL}]
    <3>1. ASSUME NEW w \in Watch, NEW p \in Path, m_paths[p] = w
          PROVE  [watch[w] EXCEPT !.wd = NoWd] \in WatchObj
      <4>1. watch[w] \in WatchObj
        BY <3>1, NullAssumption DEF MapsConsistent, PathIndex
      <4> QED BY <4>1 DEF WatchObj
    <3> QED BY <1>10, <3>1 DEF Close, RemoveAll
  <2>3. m_watches' \in [Wd -> Watch \cup {NULL}] /\ m_paths' \in [Path -> Watch \cup {NULL}]
    BY <1>10 DEF Close, RemoveAll
  <2>4. exc' \in Outcome /\ m_fd' \in BOOLEAN /\ fs' = fs /\ recovering' = recovering
        /\ m_buf' = m_buf /\ m_events' = m_events
    BY <1>10 DEF Close, RemoveAll, Outcome
  <2>5. /\ fs \in [Path -> Inode \cup {NULL}] /\ recovering \in Watch \cup {NULL}
        /\ m_buf \in Seq(KEvent) /\ m_events \in Seq(Event)
    BY DEF TypeOK
  <2> QED BY <2>1, <2>2, <2>3, <2>4, <2>5 DEF TypeOK
<1>11. CASE FsNext
  <2>1. ASSUME NEW i \in Inode, NEW t \in Type, FsTouch(i, t)
        PROVE  TypeOK'
    BY <2>1, DeliverExtends DEF FsTouch, Extends, object, EventType
  <2>2. ASSUME NEW p \in Path, NEW i \in Inode, FsCreate(p, i)
        PROVE  TypeOK'
    BY <2>2 DEF FsCreate, object
  <2>3. ASSUME NEW p \in Path, NEW q \in Path, FsLink(p, q)
        PROVE  TypeOK'
    BY <2>3 DEF FsLink, object
  <2>4. ASSUME NEW p \in Path, NEW q \in Path, FsMove(p, q)
        PROVE  TypeOK'
    BY <2>4, DeliverExtends DEF FsMove, Extends, object, EventType
  <2>5. ASSUME NEW i \in Inode, FsDelete(i)
        PROVE  TypeOK'
    BY <2>5, DieExtends DEF FsDelete, Extends, object
  <2>6. ASSUME NEW p \in Path, FsUnlink(p)
        PROVE  TypeOK'
    BY <2>6 DEF FsUnlink, object
  <2> QED BY <1>11, <2>1, <2>2, <2>3, <2>4, <2>5, <2>6 DEF FsNext
<1>12. CASE UNCHANGED vars
  BY <1>12 DEF vars, object
<1> QED
  BY <1>1, <1>2, <1>3, <1>4, <1>5, <1>6, <1>7, <1>8, <1>9, <1>10, <1>11, <1>12
  DEF Next, AddNext, RemoveNext
-----------------------------------------------------------------------------
(* The indexes.                                                            *)

LEMMA MapsInit == Init => MapsConsistent
  BY DEF Init, MapsConsistent, DescriptorIndex, DescriptorIndexComplete, PathIndex

LEMMA MapsStep == TypeOK /\ MapsConsistent /\ [Next]_vars => MapsConsistent'
<1> SUFFICES ASSUME TypeOK, MapsConsistent, [Next]_vars
             PROVE  MapsConsistent'
  OBVIOUS
<1> USE DEF MapsConsistent, DescriptorIndex, DescriptorIndexComplete, PathIndex
(* A step that leaves the maps and the heap alone cannot hurt.             *)
<1>0. ASSUME UNCHANGED <<m_fd, m_watches, m_paths, watch>>,
             recovering' \in {recovering, NULL}
      PROVE  MapsConsistent'
  BY <1>0
<1>1. ASSUME NEW w \in Watch, NEW p \in Path, NEW mask \in Mask, AddOk(w, p, mask)
      PROVE  MapsConsistent'
  <2> DEFINE wd == WdFor(kernel, fs[p])
             v  == [path |-> p, mask |-> mask, wd |-> wd, enabled |-> TRUE]
  <2>1. wd \in Wd
    BY <1>1, AddWatchExtends DEF AddOk, TypeOK
  <2>2. /\ m_watches' = [m_watches EXCEPT ![wd] = w]
        /\ watch' = [watch EXCEPT ![w] = v]
        /\ m_paths' = [m_paths EXCEPT ![p] = w]
        /\ m_watches[wd] = NULL /\ watch[w] = NULL /\ m_paths[p] = NULL
        /\ recovering' = NULL /\ m_fd' = m_fd
    BY <1>1 DEF AddOk, Idle
  <2>3. v \in WatchObj /\ v # NULL /\ v.wd = wd /\ v.enabled /\ v.path = p
    <3>1. v \in WatchObj
      BY <2>1 DEF WatchObj
    <3> QED BY <3>1, NullAssumption
  <2> HIDE DEF wd, v
  <2>4. watch'[w] = v /\ \A x \in Watch \ {w} : watch'[x] = watch[x]
    BY <2>2 DEF TypeOK
  <2>5. DescriptorIndex'
    BY <2>1, <2>2, <2>3, <2>4, NullAssumption DEF TypeOK
  <2>6. DescriptorIndexComplete'
    <3> SUFFICES ASSUME NEW x \in Watch, watch'[x] # NULL, watch'[x].wd # NoWd
                 PROVE  m_watches'[watch'[x].wd] = x
      OBVIOUS
    <3>1. CASE x = w
      BY <2>1, <2>2, <2>3, <2>4, <3>1 DEF TypeOK
    <3>2. CASE x # w
      <4>1. watch[x] \in WatchObj /\ watch[x].wd \in Wd /\ m_watches[watch[x].wd] = x
        BY <2>4, <3>2 DEF TypeOK, WatchObj
      <4>2. watch[x].wd # wd
        BY <2>2, <4>1, NullAssumption
      <4> QED BY <2>2, <2>4, <3>2, <4>1, <4>2 DEF TypeOK
    <3> QED BY <3>1, <3>2
  <2>7. PathIndex'
    <3>1. ASSUME NEW x \in Watch, watch'[x] # NULL, m_fd'
          PROVE  m_paths'[watch'[x].path] = x
      <4>1. CASE x = w
        BY <2>2, <2>3, <2>4, <4>1 DEF TypeOK
      <4>2. CASE x # w
        <5>1. watch[x] \in WatchObj /\ watch[x].path \in Path
              /\ m_paths[watch[x].path] = x
          BY <2>2, <2>4, <3>1, <4>2 DEF TypeOK, WatchObj
        <5>2. watch[x].path # p
          BY <2>2, <5>1, NullAssumption
        <5> QED BY <2>2, <2>4, <4>2, <5>1, <5>2 DEF TypeOK
      <4> QED BY <4>1, <4>2
    <3>2. ASSUME NEW q \in Path, m_paths'[q] # NULL
          PROVE  watch'[m_paths'[q]] # NULL /\ watch'[m_paths'[q]].path = q
      BY <2>2, <2>3, <2>4, <3>2 DEF TypeOK
    <3> QED BY <3>1, <3>2
  <2> QED BY <2>2, <2>5, <2>6, <2>7
<1>2. ASSUME NEW p \in Path, AddPathTaken(p) \/ AddFails(p)
      PROVE  MapsConsistent'
  BY <1>0, <1>2 DEF AddPathTaken, AddFails
<1>3. ASSUME NEW p \in Path, NEW mask \in Mask, AddCollides(p, mask)
      PROVE  MapsConsistent'
  <2>1. WdFor(kernel, fs[p]) \in Wd
    BY <1>3, AddWatchExtends DEF AddCollides, TypeOK
  <2> QED BY <1>3, <2>1 DEF AddCollides
<1>4. CASE AddRecovers
  BY <1>0, <1>4 DEF AddRecovers
<1>5. ASSUME NEW w \in Watch, Remove(w)
      PROVE  MapsConsistent'
  <2> DEFINE v == watch[w]
  <2>1. v \in WatchObj /\ v # NULL /\ m_paths[v.path] = w
    BY <1>5 DEF Remove, Idle, TypeOK
  <2>2. /\ m_paths' = [m_paths EXCEPT ![v.path] = NULL]
        /\ watch' = [watch EXCEPT ![w] = NULL]
        /\ m_fd' = m_fd /\ recovering' = NULL
    BY <1>5 DEF Remove, Idle
  <2>3. \/ v.wd = NoWd /\ m_watches' = m_watches
        \/ v.wd \in Wd /\ m_watches' = [m_watches EXCEPT ![v.wd] = NULL]
    BY <1>5, <2>1 DEF Remove, WatchObj
  <2>4. NoWd \notin Wd
    BY BoundAssumption DEF NoWd, Wd
  <2>5. watch'[w] = NULL /\ \A x \in Watch \ {w} : watch'[x] = watch[x]
    BY <2>2 DEF TypeOK
  <2>6. DescriptorIndex'
    BY <2>1, <2>3, <2>4, <2>5 DEF TypeOK
  <2>7. DescriptorIndexComplete'
    <3> SUFFICES ASSUME NEW x \in Watch \ {w}, watch[x] # NULL, watch[x].wd # NoWd
                 PROVE  m_watches'[watch[x].wd] = x
      BY <2>5
    <3>1. m_watches[watch[x].wd] = x /\ watch[x] \in WatchObj /\ watch[x].wd \in Wd
      BY DEF TypeOK, WatchObj
    <3>2. v.wd \in Wd => m_watches[v.wd] = w
      BY <2>1, <2>4
    <3> QED BY <2>3, <3>1, <3>2 DEF TypeOK
  <2>8. PathIndex'
    BY <2>1, <2>2, <2>5 DEF TypeOK, WatchObj
  <2> QED BY <2>2, <2>6, <2>7, <2>8
<1>6. ASSUME NEW w \in Watch, RemoveThrows(w)
      PROVE  MapsConsistent'
  BY <1>0, <1>6 DEF RemoveThrows
<1>7. CASE ReadEvents
  BY <1>0, <1>7 DEF ReadEvents
<1>8. CASE ParseEvent
  <2> DEFINE e == Head(m_buf)
             w == IF e.wd = NoWd THEN NULL ELSE m_watches[e.wd]
  <2>1. \/ m_watches' = m_watches /\ watch' = watch
        \/ w # NULL /\ Disable(w)
    BY <1>8 DEF ParseEvent
  <2>2. CASE m_watches' = m_watches /\ watch' = watch
    BY <1>0, <1>8, <2>2 DEF ParseEvent
  <2>3. CASE w # NULL /\ Disable(w)
    <3>1. e \in [wd : Wd, type : EventType]
      <4>1. e \in KEvent
        BY <1>8, HeadTailProperties DEF TypeOK, ParseEvent
      <4> QED BY <2>3, <4>1 DEF KEvent, Overflow
    <3>2. /\ w \in Watch /\ watch[w] # NULL /\ watch[w] \in WatchObj
          /\ watch[w].wd = e.wd /\ e.wd \in Wd /\ e.wd # NoWd
      BY <2>3, <3>1, BoundAssumption DEF TypeOK, NoWd, Wd
    <3> HIDE DEF w, e
    <3>3. m_watches' = [m_watches EXCEPT ![watch[w].wd] = NULL]
      BY <2>3 DEF Disable
    <3>4. /\ watch'[w] # NULL /\ watch'[w].wd = NoWd /\ watch'[w].path = watch[w].path
          /\ \A x \in Watch \ {w} : watch'[x] = watch[x]
      BY <2>3, <3>2, NullAssumption DEF Disable, TypeOK, WatchObj
    <3>5. DescriptorIndex'
      BY <3>2, <3>3, <3>4 DEF TypeOK
    <3>6. DescriptorIndexComplete'
      <4> SUFFICES ASSUME NEW x \in Watch \ {w}, watch[x] # NULL, watch[x].wd # NoWd
                   PROVE  m_watches'[watch[x].wd] = x
        BY <3>4
      <4>1. m_watches[watch[x].wd] = x /\ watch[x] \in WatchObj /\ watch[x].wd \in Wd
        BY DEF TypeOK, WatchObj
      <4>2. m_watches[watch[w].wd] = w
        BY <3>2
      <4> QED BY <3>2, <3>3, <4>1, <4>2 DEF TypeOK
    <3>7. m_paths' = m_paths /\ m_fd' = m_fd /\ recovering' = recovering
      BY <1>8 DEF ParseEvent
    <3>8. PathIndex'
      <4>1. \A x \in Watch : /\ watch'[x] # NULL <=> watch[x] # NULL
                             /\ watch'[x].path = watch[x].path
        BY <3>2, <3>4
      <4>2. \A p \in Path : m_paths[p] # NULL => m_paths[p] \in Watch
        BY DEF TypeOK
      <4> QED BY <3>7, <4>1, <4>2
    <3> QED BY <3>4, <3>5, <3>6, <3>7, <3>8 DEF TypeOK
  <2> QED BY <2>1, <2>2, <2>3
<1>9. CASE GetEvent
  BY <1>0, <1>9 DEF GetEvent
<1>10. CASE Close
  <2>1. \A w \in Watch : watch[w] # NULL => m_paths[watch[w].path] = w
                                          /\ watch[w] \in WatchObj
    BY <1>10 DEF Close, RemoveAll, Idle, TypeOK
  <2>2. \A w \in Watch : watch'[w] = IF \E p \in Path : m_paths[p] = w
                                      THEN [watch[w] EXCEPT !.wd = NoWd] ELSE watch[w]
    BY <1>10 DEF Close, RemoveAll
  <2>3. \A w \in Watch : watch'[w] # NULL => watch'[w].wd = NoWd
    <3> SUFFICES ASSUME NEW w \in Watch, watch'[w] # NULL
                 PROVE  watch'[w].wd = NoWd
      OBVIOUS
    <3>1. CASE \E p \in Path : m_paths[p] = w
      <4>1. watch[w] \in WatchObj
        BY <3>1, NullAssumption DEF TypeOK
      <4> QED BY <2>2, <3>1, <4>1 DEF WatchObj
    <3>2. CASE ~ \E p \in Path : m_paths[p] = w
      <4>1. watch[w] # NULL
        BY <2>2, <3>2
      <4>2. watch[w].path \in Path /\ m_paths[watch[w].path] = w
        BY <2>1, <4>1 DEF WatchObj
      <4> QED BY <3>2, <4>2
    <3> QED BY <3>1, <3>2
  <2> QED BY <1>10, <2>3 DEF Close, RemoveAll, Idle
<1>11. CASE FsNext
  BY <1>0, <1>11 DEF FsNext, FsTouch, FsCreate, FsLink, FsMove, FsDelete, FsUnlink, object
<1>12. CASE UNCHANGED vars
  BY <1>0, <1>12 DEF vars, object
<1> QED
  BY <1>1, <1>2, <1>3, <1>4, <1>5, <1>6, <1>7, <1>8, <1>9, <1>10, <1>11, <1>12
  DEF Next, AddNext, RemoveNext

(* The indexes and the heap of class Inotify agree in every reachable      *)
(* state, the window between the two system calls of Add included: no      *)
(* event is parsed onto a freed or disabled watch (WaitForEvents).         *)
THEOREM IndexesAgree == Spec => [](TypeOK /\ MapsConsistent)
<1>1. Init => TypeOK /\ MapsConsistent
  BY TypeInit, MapsInit
<1>2. TypeOK /\ MapsConsistent /\ [Next]_vars => (TypeOK /\ MapsConsistent)'
  BY TypeStep, MapsStep
<1> QED BY <1>1, <1>2, PTL DEF Spec

(* A kernel queue of any length read in pieces of any size, heap addresses *)
(* used again, one-shot watches, overflow: the object never holds anything *)
(* that is no watch, event or descriptor (Inotify, InotifyWatch).          *)
THEOREM TypeCorrect == Spec => []TypeOK
  BY IndexesAgree, PTL

-----------------------------------------------------------------------------
(* Staleness is announced.                                                 *)

(* What the kernel does on its side keeps the announcements.               *)
LEMMA StaleExtends ==
    ASSUME TypeOK, StaleWatchNotified, Extends(kernel, kernel'),
           UNCHANGED <<m_watches, m_buf>>
    PROVE  StaleWatchNotified'
<1> SUFFICES ASSUME ~kernel.lost', NEW wd \in Wd,
                    m_watches[wd] # NULL, kernel'.watch[wd] = NULL
             PROVE  Pending(wd)'
  BY DEF StaleWatchNotified
<1>1. ~kernel.lost
  BY DEF Extends
<1>2. CASE kernel.watch[wd] = NULL
  <2>1. Pending(wd)
    BY <1>1, <1>2 DEF StaleWatchNotified
  <2>2. CASE \E n \in DOMAIN m_buf : m_buf[n].wd = wd /\ m_buf[n].type = "IN_IGNORED"
    BY <2>2 DEF Pending
  <2>3. CASE \E n \in DOMAIN kernel.queue :
                kernel.queue[n].wd = wd /\ kernel.queue[n].type = "IN_IGNORED"
    BY <2>3 DEF Pending, Extends
  <2> QED BY <2>1, <2>2, <2>3 DEF Pending
<1>3. CASE kernel.watch[wd] # NULL
  BY <1>3 DEF Extends, Pending
<1> QED BY <1>2, <1>3

(* A step that takes no watch away and keeps queue and buffer.             *)
LEMMA StaleKeep ==
    ASSUME TypeOK, StaleWatchNotified,
           kernel'.queue = kernel.queue, kernel'.lost = kernel.lost, m_buf' = m_buf,
           \A wd \in Wd : kernel.watch[wd] # NULL => kernel'.watch[wd] # NULL,
           \A wd \in Wd : m_watches'[wd] # NULL =>
                            m_watches[wd] # NULL \/ kernel'.watch[wd] # NULL
    PROVE  StaleWatchNotified'
<1> SUFFICES ASSUME ~kernel.lost, NEW wd \in Wd,
                    m_watches'[wd] # NULL, kernel'.watch[wd] = NULL
             PROVE  Pending(wd)'
  BY DEF StaleWatchNotified
<1>1. m_watches[wd] # NULL /\ kernel.watch[wd] = NULL
  OBVIOUS
<1>2. Pending(wd)
  BY <1>1 DEF StaleWatchNotified
<1> QED BY <1>2 DEF Pending

(* A read moves an announcement from the queue to the buffer.              *)
LEMMA StaleRead ==
    ASSUME TypeOK, StaleWatchNotified, ReadEvents
    PROVE  StaleWatchNotified'
<1> DEFINE q == kernel.queue
           l == Len(q)
           n == IF l > BufLen THEN BufLen ELSE l
<1>1. q \in Seq(KEvent) /\ l \in Nat /\ n \in 0..l
  BY BoundAssumption DEF TypeOK, Kernel
<1>2. /\ m_buf' = SubSeq(q, 1, n) /\ kernel'.queue = SubSeq(q, n + 1, l)
      /\ kernel'.watch = kernel.watch /\ kernel'.lost = kernel.lost
      /\ m_watches' = m_watches /\ m_buf = <<>>
  BY DEF ReadEvents, Idle, TypeOK, Kernel
<1>3. DOMAIN m_buf' = 1..n /\ \A j \in 1..n : m_buf'[j] = q[j]
  BY <1>1, <1>2, SubSeqProperties
<1>4. /\ DOMAIN kernel'.queue = 1..(l - n)
      /\ \A j \in 1..(l - n) : kernel'.queue[j] = q[n + j]
  <2>1. /\ Len(SubSeq(q, n + 1, l)) = l - n
        /\ \A j \in 1..(l - n) : SubSeq(q, n + 1, l)[j] = q[n + j]
        /\ SubSeq(q, n + 1, l) \in Seq(KEvent)
    BY <1>1, SubSeqProperties
  <2> QED BY <1>2, <2>1
<1> HIDE DEF n, q
<1> SUFFICES ASSUME ~kernel.lost, NEW wd \in Wd, m_watches[wd] # NULL,
                    kernel.watch[wd] = NULL
             PROVE  Pending(wd)'
  BY <1>2 DEF StaleWatchNotified
<1>5. PICK j \in DOMAIN q : q[j].wd = wd /\ q[j].type = "IN_IGNORED"
  BY <1>2 DEF StaleWatchNotified, Pending, q
<1>6. j \in 1..l
  BY <1>1, <1>5
<1>7. CASE j <= n
  BY <1>1, <1>3, <1>5, <1>6, <1>7 DEF Pending
<1>8. CASE j > n
  <2>1. j - n \in 1..(l - n) /\ n + (j - n) = j
    BY <1>1, <1>6, <1>8
  <2>2. kernel'.queue[j - n] = q[j]
    BY <1>4, <2>1
  <2> QED BY <1>4, <1>5, <2>1, <2>2 DEF Pending
<1> QED BY <1>1, <1>6, <1>7, <1>8

(* Parsing an IN_IGNORED disables the watch it is for.                     *)
LEMMA StaleParse ==
    ASSUME TypeOK, MapsConsistent, StaleWatchNotified, ParseEvent
    PROVE  StaleWatchNotified'
<1> DEFINE e == Head(m_buf)
<1>1. /\ m_buf \in Seq(KEvent) /\ m_buf # <<>> /\ e \in KEvent
      /\ m_buf' = Tail(m_buf) /\ kernel' = kernel
  BY HeadTailProperties DEF ParseEvent, TypeOK
<1>2. \A wd \in Wd : m_watches'[wd] # NULL => m_watches[wd] # NULL
  BY DEF ParseEvent, Disable, TypeOK
<1>3. e.wd \in Wd /\ e.type = "IN_IGNORED" => m_watches'[e.wd] = NULL
  <2> SUFFICES ASSUME e.wd \in Wd, e.type = "IN_IGNORED", m_watches[e.wd] # NULL
               PROVE  m_watches'[e.wd] = NULL
    BY <1>2
  <2>1. e.wd # NoWd
    BY BoundAssumption DEF NoWd, Wd
  <2>2. Disable(m_watches[e.wd])
    BY <2>1 DEF ParseEvent
  <2>3. watch[m_watches[e.wd]].wd = e.wd
    BY DEF MapsConsistent, DescriptorIndex
  <2> QED BY <2>2, <2>3 DEF Disable, TypeOK
<1> SUFFICES ASSUME ~kernel.lost, NEW wd \in Wd, m_watches'[wd] # NULL,
                    kernel.watch[wd] = NULL
             PROVE  Pending(wd)'
  BY <1>1 DEF StaleWatchNotified
<1>4. Pending(wd)
  BY <1>2 DEF StaleWatchNotified
<1>5. CASE \E j \in DOMAIN kernel.queue :
              kernel.queue[j].wd = wd /\ kernel.queue[j].type = "IN_IGNORED"
  BY <1>1, <1>5 DEF Pending
<1>6. CASE \E j \in DOMAIN m_buf : m_buf[j].wd = wd /\ m_buf[j].type = "IN_IGNORED"
  <2>1. PICK j \in DOMAIN m_buf : m_buf[j].wd = wd /\ m_buf[j].type = "IN_IGNORED"
    BY <1>6
  <2>2. j # 1
    BY <1>1, <1>3, <2>1, HeadTailProperties
  <2>3. /\ j \in 1..Len(m_buf) /\ Len(m_buf) \in Nat
        /\ Len(Tail(m_buf)) = Len(m_buf) - 1
        /\ Tail(m_buf) \in Seq(KEvent)
        /\ \A i \in 1..Len(Tail(m_buf)) : Tail(m_buf)[i] = m_buf[i + 1]
    BY <1>1, <2>1, HeadTailProperties
  <2>4. /\ j - 1 \in 1..Len(Tail(m_buf)) /\ (j - 1) + 1 = j
    BY <2>2, <2>3
  <2>5. j - 1 \in DOMAIN m_buf' /\ m_buf'[j - 1] = m_buf[j]
    BY <1>1, <2>3, <2>4
  <2> QED BY <2>1, <2>5 DEF Pending
<1> QED BY <1>4, <1>5, <1>6 DEF Pending

LEMMA StaleStep ==
    TypeOK /\ MapsConsistent /\ StaleWatchNotified /\ [Next]_vars => StaleWatchNotified'
<1> SUFFICES ASSUME TypeOK, MapsConsistent, StaleWatchNotified, [Next]_vars
             PROVE  StaleWatchNotified'
  OBVIOUS
<1>1. ASSUME NEW w \in Watch, NEW p \in Path, NEW mask \in Mask, AddOk(w, p, mask)
      PROVE  StaleWatchNotified'
  <2> DEFINE wd == WdFor(kernel, fs[p])
  <2>1. fs[p] \in Inode /\ CanAddWatch(kernel, fs[p]) /\ kernel \in Kernel
    BY <1>1 DEF AddOk, TypeOK
  <2>2. /\ kernel' = AddWatch(kernel, fs[p], mask) /\ m_buf' = m_buf
        /\ m_watches' = [m_watches EXCEPT ![wd] = w]
    BY <1>1 DEF AddOk
  <2>3. \A v \in Wd : m_watches'[v] # NULL => m_watches[v] # NULL \/ v = wd
    BY <2>2 DEF TypeOK
  <2>4. /\ kernel'.queue = kernel.queue /\ kernel'.lost = kernel.lost
        /\ kernel'.watch[wd] # NULL
        /\ \A v \in Wd : kernel.watch[v] # NULL => kernel'.watch[v] # NULL
    BY <2>1, <2>2, AddWatchExtends
  <2> QED BY <2>2, <2>3, <2>4, StaleKeep
<1>2. ASSUME NEW p \in Path, AddPathTaken(p) \/ AddFails(p)
      PROVE  StaleWatchNotified'
  BY <1>2, StaleKeep DEF AddPathTaken, AddFails
<1>3. ASSUME NEW p \in Path, NEW mask \in Mask, AddCollides(p, mask)
      PROVE  StaleWatchNotified'
  <2>1. fs[p] \in Inode /\ CanAddWatch(kernel, fs[p]) /\ kernel \in Kernel
    BY <1>3 DEF AddCollides, TypeOK
  <2> QED BY <1>3, <2>1, AddWatchExtends, StaleKeep DEF AddCollides
<1>4. CASE AddRecovers
  <2> DEFINE i == fs[watch[recovering].path]
             m == watch[recovering].mask
  <2>1. i \in Inode \cup {NULL} /\ m \in Mask /\ kernel \in Kernel
    BY <1>4 DEF AddRecovers, TypeOK, WatchObj, MapsConsistent
  <2>2. m_watches' = m_watches /\ m_buf' = m_buf
    BY <1>4 DEF AddRecovers
  <2>3. CASE i # NULL /\ CanAddWatch(kernel, i)
    <3>1. kernel' = AddWatch(kernel, i, m)
      BY <1>4, <2>3 DEF AddRecovers
    <3>2. /\ kernel'.queue = kernel.queue /\ kernel'.lost = kernel.lost
          /\ \A v \in Wd : kernel.watch[v] # NULL => kernel'.watch[v] # NULL
      BY <2>1, <2>3, <3>1, AddWatchExtends
    <3> QED BY <2>2, <3>2, StaleKeep
  <2>4. CASE ~(i # NULL /\ CanAddWatch(kernel, i))
    BY <1>4, <2>2, <2>4, StaleKeep DEF AddRecovers
  <2> QED BY <2>3, <2>4
<1>5. ASSUME NEW w \in Watch, Remove(w)
      PROVE  StaleWatchNotified'
  <2>1. watch[w] \in WatchObj /\ kernel \in Kernel /\ m_buf' = m_buf
    BY <1>5 DEF Remove, TypeOK
  <2>2. CASE watch[w].wd = NoWd
    BY <1>5, <2>1, <2>2, StaleKeep DEF Remove
  <2>3. CASE watch[w].wd # NoWd
    <3> DEFINE wd == watch[w].wd
    <3>1. wd \in Wd
      BY <2>1, <2>3 DEF WatchObj
    <3>2. /\ kernel' = Drop(kernel, wd)
          /\ m_watches' = [m_watches EXCEPT ![wd] = NULL]
      BY <1>5, <2>3 DEF Remove
    <3>3. Extends(kernel, kernel')
      BY <2>1, <3>1, <3>2, DropExtends
    <3> HIDE DEF wd
    <3> SUFFICES ASSUME ~kernel'.lost, NEW v \in Wd, m_watches'[v] # NULL,
                        kernel'.watch[v] = NULL
                 PROVE  Pending(v)'
      BY DEF StaleWatchNotified
    <3>4. m_watches[v] # NULL /\ v # wd
      BY <3>1, <3>2 DEF TypeOK
    <3>5. CASE kernel.watch[v] # NULL
      BY <3>3, <3>5 DEF Extends, Pending
    <3>6. CASE kernel.watch[v] = NULL
      <4>1. Pending(v) /\ ~kernel.lost
        BY <3>3, <3>4, <3>6 DEF StaleWatchNotified, Extends
      <4> QED BY <2>1, <3>3, <4>1 DEF Pending, Extends
    <3> QED BY <3>5, <3>6
  <2> QED BY <2>2, <2>3
<1>6. ASSUME NEW w \in Watch, RemoveThrows(w)
      PROVE  StaleWatchNotified'
  BY <1>6, StaleKeep DEF RemoveThrows
<1>7. CASE ReadEvents
  BY <1>7, StaleRead
<1>8. CASE ParseEvent
  BY <1>8, StaleParse
<1>9. CASE GetEvent
  BY <1>9, StaleKeep DEF GetEvent
<1>10. CASE Close
  BY <1>10 DEF Close, RemoveAll, StaleWatchNotified
<1>11. CASE FsNext
  <2>0. kernel \in Kernel /\ Extends(kernel, kernel)
    BY DEF TypeOK, Extends
  <2>1. ASSUME NEW i \in Inode, NEW t \in Type, FsTouch(i, t)
        PROVE  StaleWatchNotified'
    BY <2>0, <2>1, DeliverExtends, StaleExtends DEF FsTouch, object, EventType
  <2>2. ASSUME NEW p \in Path, NEW i \in Inode, FsCreate(p, i)
        PROVE  StaleWatchNotified'
    BY <2>0, <2>2, StaleExtends DEF FsCreate, object
  <2>3. ASSUME NEW p \in Path, NEW q \in Path, FsLink(p, q)
        PROVE  StaleWatchNotified'
    BY <2>0, <2>3, StaleExtends DEF FsLink, object
  <2>4. ASSUME NEW p \in Path, NEW q \in Path, FsMove(p, q)
        PROVE  StaleWatchNotified'
    BY <2>0, <2>4, DeliverExtends, StaleExtends DEF FsMove, object, EventType
  <2>5. ASSUME NEW i \in Inode, FsDelete(i)
        PROVE  StaleWatchNotified'
    BY <2>0, <2>5, DieExtends, StaleExtends DEF FsDelete, object
  <2>6. ASSUME NEW p \in Path, FsUnlink(p)
        PROVE  StaleWatchNotified'
    BY <2>0, <2>6, StaleExtends DEF FsUnlink, object
  <2> QED BY <1>11, <2>1, <2>2, <2>3, <2>4, <2>5, <2>6 DEF FsNext
<1>12. CASE UNCHANGED vars
  BY <1>12, StaleKeep DEF vars, object
<1> QED
  BY <1>1, <1>2, <1>3, <1>4, <1>5, <1>6, <1>7, <1>8, <1>9, <1>10, <1>11, <1>12
  DEF Next, AddNext, RemoveNext

(* Unless the kernel's queue overflowed, every watch the object still      *)
(* believes in and the kernel has dropped has its IN_IGNORED on the way to *)
(* __Disable (WaitForEvents), whatever the client does in between.         *)
THEOREM StalenessAnnounced == Spec => []StaleWatchNotified
<1>1. Init => StaleWatchNotified
  BY DEF Init, StaleWatchNotified
<1>2. TypeOK /\ MapsConsistent /\ StaleWatchNotified /\ [Next]_vars => StaleWatchNotified'
  BY StaleStep
<1> QED BY <1>1, <1>2, IndexesAgree, PTL DEF Spec

-----------------------------------------------------------------------------
(* A refused Add restores.  The kernel has one watch per inode and gives   *)
(* descriptors in order; nothing but Add makes a watch.                    *)

KernelInv(k) ==
    /\ \A v, wd \in Wd : k.watch[v] # NULL /\ k.watch[wd] # NULL
                            /\ k.watch[v].ino = k.watch[wd].ino => v = wd
    /\ \A wd \in Wd : k.watch[wd] # NULL => wd < k.next
Shrinks(k, k1) ==
    /\ k1.next = k.next
    /\ \A wd \in Wd : k1.watch[wd] \in {k.watch[wd], NULL}

LEMMA ShrinksKeeps ==
    ASSUME NEW k, NEW k1, KernelInv(k), Shrinks(k, k1)
    PROVE  KernelInv(k1)
  BY DEF KernelInv, Shrinks

LEMMA DropShrinks ==
    ASSUME NEW k \in Kernel, NEW wd \in Wd
    PROVE  Shrinks(k, Drop(k, wd)) /\ Drop(k, wd) \in Kernel
<1>1. /\ Drop(k, wd) \in Kernel /\ Drop(k, wd).next = k.next
      /\ Drop(k, wd).watch = [k.watch EXCEPT ![wd] = NULL]
  BY DropExtends DEF Extends
<1>2. k.watch \in [Wd -> KWatch \cup {NULL}]
  BY DEF Kernel
<1> QED BY <1>1, <1>2 DEF Shrinks

LEMMA DeliverShrinks ==
    ASSUME NEW k \in Kernel, NEW i, NEW t \in EventType
    PROVE  Shrinks(k, Deliver(k, i, t)) /\ Deliver(k, i, t) \in Kernel
<1>1. CASE \E wd \in KWatches(k, i) : t \in k.watch[wd].mask
  <2> DEFINE wd == CHOOSE wd \in KWatches(k, i) : t \in k.watch[wd].mask
             e  == [wd |-> wd, type |-> t]
             k1 == Enqueue(k, e)
  <2>1. wd \in Wd
    BY <1>1 DEF KWatches
  <2>2. e \in KEvent
    BY <2>1 DEF KEvent
  <2>3. k1 \in Kernel /\ k1.watch = k.watch /\ k1.next = k.next
    BY <2>2, EnqueueProperties
  <2>4. Deliver(k, i, t) = IF "IN_ONESHOT" \in k.watch[wd].mask
                           THEN Drop(k1, wd) ELSE k1
    BY <1>1 DEF Deliver
  <2> HIDE DEF wd, k1
  <2>5. Shrinks(k1, Drop(k1, wd)) /\ Drop(k1, wd) \in Kernel
    BY <2>1, <2>3, DropShrinks
  <2> QED BY <2>3, <2>4, <2>5 DEF Shrinks
<1>2. CASE ~ \E wd \in KWatches(k, i) : t \in k.watch[wd].mask
  BY <1>2 DEF Deliver, Shrinks
<1> QED BY <1>1, <1>2

LEMMA DieShrinks ==
    ASSUME NEW k \in Kernel, NEW i
    PROVE  Shrinks(k, Die(k, i))
<1> DEFINE k1 == Deliver(k, i, "IN_DELETE_SELF")
           wd == CHOOSE wd \in KWatches(k1, i) : TRUE
<1>1. Shrinks(k, k1) /\ k1 \in Kernel
  BY DeliverShrinks DEF EventType
<1>2. Die(k, i) = IF KWatches(k1, i) = {} THEN k1 ELSE Drop(k1, wd)
  BY DEF Die
<1> HIDE DEF k1
<1>3. CASE KWatches(k1, i) # {}
  <2>1. wd \in Wd
    BY <1>3 DEF KWatches
  <2> HIDE DEF wd
  <2>2. Shrinks(k1, Drop(k1, wd))
    BY <1>1, <2>1, DropShrinks
  <2> QED BY <1>1, <1>2, <1>3, <2>2 DEF Shrinks
<1> QED BY <1>1, <1>2, <1>3

(* On a watched inode inotify_add_watch finds the watch and replaces its   *)
(* mask; on another one it takes a descriptor never used before.           *)
LEMMA AddWatchKeeps ==
    ASSUME NEW k \in Kernel, NEW i \in Inode, NEW mask \in Mask, CanAddWatch(k, i),
           KernelInv(k)
    PROVE  /\ KernelInv(AddWatch(k, i, mask))
           /\ AddWatch(k, i, mask).watch[WdFor(k, i)].mask = mask
           /\ \A wd \in KWatches(k, i) : wd = WdFor(k, i)
<1> DEFINE v == WdFor(k, i)
           r == [ino |-> i, mask |-> mask]
           n == IF KWatches(k, i) = {} THEN k.next + 1 ELSE k.next
<1>1. /\ v \in Wd
      /\ KWatches(k, i) # {} => v \in KWatches(k, i)
      /\ KWatches(k, i) = {} => v = k.next
  BY DEF CanAddWatch, WdFor, KWatches
<1>2. AddWatch(k, i, mask) = [k EXCEPT !.watch[v] = r, !.next = n]
  BY DEF AddWatch, Kernel
<1>3. \A wd \in KWatches(k, i) : wd = v
  BY <1>1 DEF KernelInv, KWatches
<1>4. \A wd \in Wd \ {v} : k.watch[wd] # NULL => k.watch[wd].ino # i
  BY <1>3 DEF KWatches
<1>5. v < n /\ k.next <= n
  BY <1>1 DEF Kernel, KernelInv, KWatches, Wd
<1> HIDE DEF v, n
<1> HIDE DEF r
<1>6. /\ AddWatch(k, i, mask).next = n
      /\ AddWatch(k, i, mask).watch[v] = r
      /\ \A wd \in Wd \ {v} : AddWatch(k, i, mask).watch[wd] = k.watch[wd]
  BY <1>1, <1>2 DEF Kernel
<1>7. n \in Nat /\ k.next \in Nat /\ \A wd \in Wd : wd \in Nat
  BY DEF n, Kernel, Wd
<1>8. r.ino = i /\ r.mask = mask
  BY DEF r
<1>9. KernelInv(AddWatch(k, i, mask))
  BY <1>4, <1>5, <1>6, <1>7, <1>8 DEF KernelInv
<1> QED BY <1>3, <1>6, <1>8, <1>9 DEF v

(* While Add waits for its second call, the old watch stays where it is.   *)
OldInPlace ==
    recovering # NULL =>
        /\ m_buf = <<>>
        /\ \E wd \in Wd : m_watches[wd] = recovering
        /\ m_paths[watch[recovering].path] = recovering
RestoreInv == KernelInv(kernel) /\ OldInPlace

LEMMA KernelStep == TypeOK /\ MapsConsistent /\ RestoreInv /\ [Next]_vars => KernelInv(kernel')
<1> SUFFICES ASSUME TypeOK, MapsConsistent, RestoreInv, [Next]_vars
             PROVE  KernelInv(kernel')
  OBVIOUS
<1>0. kernel \in Kernel /\ KernelInv(kernel)
  BY DEF TypeOK, RestoreInv
<1>1. ASSUME NEW w \in Watch, NEW p \in Path, NEW mask \in Mask,
             AddOk(w, p, mask) \/ AddCollides(p, mask)
      PROVE  KernelInv(kernel')
  <2>1. fs[p] \in Inode /\ CanAddWatch(kernel, fs[p]) /\ kernel' = AddWatch(kernel, fs[p], mask)
    BY <1>1 DEF AddOk, AddCollides, TypeOK
  <2> QED BY <1>0, <2>1, AddWatchKeeps
<1>2. CASE AddRecovers
  <2> DEFINE i == fs[watch[recovering].path]
             mask == watch[recovering].mask
  <2>1. mask \in Mask /\ i \in Inode \cup {NULL}
    BY <1>2 DEF AddRecovers, TypeOK, WatchObj, MapsConsistent, DescriptorIndex, RestoreInv,
                OldInPlace
  <2>2. kernel' = kernel \/ (i # NULL /\ CanAddWatch(kernel, i)
                               /\ kernel' = AddWatch(kernel, i, mask))
    BY <1>2 DEF AddRecovers
  <2> QED BY <1>0, <2>1, <2>2, AddWatchKeeps
<1>3. ASSUME NEW w \in Watch, Remove(w)
      PROVE  KernelInv(kernel')
  <2>1. kernel' = kernel \/ (watch[w].wd \in Wd /\ kernel' = Drop(kernel, watch[w].wd))
    BY <1>3 DEF Remove, TypeOK, WatchObj
  <2> QED BY <1>0, <2>1, DropShrinks, ShrinksKeeps
<1>4. CASE ReadEvents \/ Close
  <2>1. Shrinks(kernel, kernel')
    <3>1. CASE ReadEvents
      <4>1. \E q : kernel' = [kernel EXCEPT !.queue = q]
        BY <3>1 DEF ReadEvents
      <4> QED BY <1>0, <4>1 DEF Shrinks, Kernel
    <3>2. CASE Close
      <4>1. kernel' = [kernel EXCEPT !.watch = [wd \in Wd |-> NULL], !.queue = <<>>]
        BY <3>2 DEF Close
      <4> QED BY <1>0, <4>1 DEF Shrinks, Kernel
    <3> QED BY <1>4, <3>1, <3>2
  <2> QED BY <1>0, <2>1, ShrinksKeeps
<1>5. ASSUME UNCHANGED kernel
      PROVE  KernelInv(kernel')
  BY <1>0, <1>5
<1>6. CASE FsNext
  <2>1. ASSUME NEW i, NEW t \in EventType, kernel' = Deliver(kernel, i, t)
        PROVE  KernelInv(kernel')
    BY <1>0, <2>1, DeliverShrinks, ShrinksKeeps
  <2>2. ASSUME NEW i, kernel' = Die(kernel, i)
        PROVE  KernelInv(kernel')
    BY <1>0, <2>2, DieShrinks, ShrinksKeeps
  <2>3. "IN_MOVE_SELF" \in EventType /\ Type \subseteq EventType
    BY DEF EventType
  <2> QED BY <1>5, <1>6, <2>1, <2>2, <2>3
          DEF FsNext, FsTouch, FsCreate, FsLink, FsDelete, FsUnlink, FsMove
<1>7. \/ UNCHANGED kernel \/ FsNext \/ ReadEvents \/ Close \/ AddRecovers
      \/ \E w \in Watch : Remove(w)
      \/ \E w \in Watch, p \in Path, mask \in Mask : AddOk(w, p, mask)
      \/ \E p \in Path, mask \in Mask : AddCollides(p, mask)
  BY DEF Next, AddNext, RemoveNext, AddPathTaken, AddFails, RemoveThrows, ParseEvent, GetEvent,
         vars
<1>8. ASSUME NEW p \in Path, NEW mask \in Mask, AddCollides(p, mask)
      PROVE  KernelInv(kernel')
  <2>1. m_watches[WdFor(kernel, fs[p])] # NULL /\ WdFor(kernel, fs[p]) \in Wd
    BY <1>0, <1>8, AddWatchExtends DEF AddCollides, TypeOK
  <2>2. PICK w \in Watch : TRUE
    BY <2>1 DEF TypeOK
  <2> QED BY <1>1, <1>8
<1> QED BY <1>1, <1>2, <1>3, <1>4, <1>5, <1>6, <1>7, <1>8

LEMMA OldStep == TypeOK /\ MapsConsistent /\ RestoreInv /\ [Next]_vars => OldInPlace'
<1> SUFFICES ASSUME TypeOK, MapsConsistent, RestoreInv, [Next]_vars, recovering' # NULL
             PROVE  /\ m_buf' = <<>>
                    /\ \E wd \in Wd : m_watches'[wd] = recovering'
                    /\ m_paths'[watch'[recovering'].path] = recovering'
  BY DEF OldInPlace
<1>1. CASE recovering # NULL
  <2>1. UNCHANGED <<m_buf, m_watches, m_paths, watch, recovering>>
    BY <1>1 DEF Next, AddNext, RemoveNext, FsNext, AddOk, AddPathTaken, AddFails, AddCollides,
                AddRecovers, Remove, RemoveThrows, ReadEvents, ParseEvent, GetEvent, Close,
                Idle, FsTouch, FsCreate, FsLink, FsDelete, FsUnlink, FsMove, vars, object,
                RestoreInv, OldInPlace
  <2> QED BY <1>1, <2>1 DEF RestoreInv, OldInPlace
<1>2. CASE recovering = NULL
  <2>1. PICK p \in Path, mask \in Mask : AddCollides(p, mask)
    BY <1>2 DEF Next, AddNext, RemoveNext, FsNext, AddOk, AddPathTaken, AddFails,
                AddRecovers, Remove, RemoveThrows, ReadEvents, ParseEvent, GetEvent, Close,
                FsTouch, FsCreate, FsLink, FsDelete, FsUnlink, FsMove, vars, object
  <2> DEFINE wd == WdFor(kernel, fs[p])
  <2>2. wd \in Wd
    BY <2>1, AddWatchExtends DEF AddCollides, TypeOK
  <2>3. /\ m_buf = <<>> /\ m_watches[wd] # NULL /\ recovering' = m_watches[wd] /\ m_fd
        /\ UNCHANGED <<m_buf, m_watches, m_paths, watch>>
    BY <2>1 DEF AddCollides, Idle
  <2>4. recovering' \in Watch /\ watch[recovering'] # NULL
    BY <2>2, <2>3 DEF TypeOK, MapsConsistent, DescriptorIndex
  <2>5. m_paths[watch[recovering'].path] = recovering'
    BY <2>3, <2>4 DEF MapsConsistent, PathIndex
  <2> QED BY <2>2, <2>3, <2>5
<1> QED BY <1>1, <1>2

(* An Add that collides leaves the older watch with its mask and in both   *)
(* indexes, whatever happens between its two calls, as long as its name    *)
(* still leads to its inode (Inotify::Add).                                *)
THEOREM RefusedAddCorrect == Spec => RefusedAddRestores
<1> DEFINE Restores ==
        recovering # NULL /\ recovering' = NULL =>
            LET old == watch[recovering]
            IN  kernel.watch[old.wd] # NULL
                    /\ fs[old.path] = kernel.watch[old.wd].ino
                => /\ kernel'.watch[old.wd].mask = old.mask
                   /\ m_watches'[old.wd] = recovering
                   /\ m_paths'[old.path] = recovering
<1>1. Init => RestoreInv
  BY DEF Init, RestoreInv, KernelInv, OldInPlace
<1>2. TypeOK /\ MapsConsistent /\ RestoreInv /\ [Next]_vars => RestoreInv'
  BY KernelStep, OldStep DEF RestoreInv
<1>3. TypeOK /\ MapsConsistent /\ RestoreInv /\ [Next]_vars => [Restores]_vars
  <2> DEFINE old == watch[recovering]
             i == fs[old.path]
  <2> SUFFICES ASSUME TypeOK, MapsConsistent, RestoreInv, Next,
                      recovering # NULL, recovering' = NULL,
                      kernel.watch[old.wd] # NULL, i = kernel.watch[old.wd].ino
               PROVE  /\ kernel'.watch[old.wd].mask = old.mask
                      /\ m_watches'[old.wd] = recovering
                      /\ m_paths'[old.path] = recovering
    OBVIOUS
  <2>1. AddRecovers
    BY DEF Next, AddNext, RemoveNext, FsNext, AddOk, AddPathTaken, AddFails, AddCollides,
           Remove, RemoveThrows, ReadEvents, ParseEvent, GetEvent, Close, Idle,
           FsTouch, FsCreate, FsLink, FsDelete, FsUnlink, FsMove, object, RestoreInv, OldInPlace
  <2>2. /\ m_watches[old.wd] = recovering /\ m_paths[old.path] = recovering
        /\ old.wd \in Wd /\ old \in WatchObj
    BY DEF RestoreInv, OldInPlace, MapsConsistent, DescriptorIndex, TypeOK
  <2>3. kernel.watch[old.wd] \in KWatch
    BY <2>2 DEF TypeOK, Kernel
  <2>4. i \in Inode /\ old.wd \in KWatches(kernel, i)
    BY <2>2, <2>3 DEF KWatch, KWatches
  <2>5. CanAddWatch(kernel, i) /\ i # NULL
    BY <2>4, NullAssumption DEF CanAddWatch
  <2>6. kernel' = AddWatch(kernel, i, old.mask) /\ UNCHANGED <<m_watches, m_paths>>
    BY <2>1, <2>5 DEF AddRecovers
  <2>7. old.mask \in Mask
    BY <2>2 DEF WatchObj
  <2>8. kernel'.watch[old.wd].mask = old.mask
    BY <2>4, <2>5, <2>6, <2>7, AddWatchKeeps DEF RestoreInv, TypeOK
  <2> QED BY <2>2, <2>6, <2>8
<1> QED BY <1>1, <1>2, <1>3, IndexesAgree, PTL DEF Spec, RefusedAddRestores

-----------------------------------------------------------------------------
(* Ends of watches and new events in the queue, for whoever relies on them *)
(* (UserTable_proofs).                                                     *)

(* Where the last event of a queue is, and what else is in it.             *)
LEMMA EnqueueElements ==
    ASSUME NEW k \in Kernel, NEW e \in KEvent
    PROVE  /\ \A n \in DOMAIN Enqueue(k, e).queue :
                \/ Enqueue(k, e).queue[n] \in {e, Overflow}
                \/ \E j \in DOMAIN k.queue : Enqueue(k, e).queue[n] = k.queue[j]
           /\ \/ Enqueue(k, e).lost
              \/ \E n \in DOMAIN Enqueue(k, e).queue :
                    /\ Enqueue(k, e).queue[n] = e
                    /\ \A j \in 1..n-1 : j \in DOMAIN k.queue
                                            /\ Enqueue(k, e).queue[j] = k.queue[j]
<1> DEFINE E == Enqueue(k, e)
           l == Len(k.queue)
<1>0. /\ k.queue \in Seq(KEvent) /\ Overflow \in KEvent
      /\ DOMAIN k.queue = 1..l /\ l \in Nat
  BY DEF Kernel, KEvent
<1>a. ASSUME NEW x \in KEvent
      PROVE  /\ DOMAIN Append(k.queue, x) = 1..(l + 1)
             /\ \A n \in 1..l : Append(k.queue, x)[n] = k.queue[n]
             /\ Append(k.queue, x)[l + 1] = x
  BY <1>0, AppendProperties
<1> HIDE DEF l
<1>b. \A n \in 1..(l + 1) : n \in 1..l \/ n = l + 1
  BY <1>0
<1>1. CASE Len(k.queue) >= MaxQueue
  <2>1. E.lost /\ E.queue \in {k.queue, Append(k.queue, Overflow)}
    BY <1>0, <1>1 DEF Enqueue, Kernel
  <2> QED BY <1>0, <1>a, <1>b, <2>1
<1>2. CASE ~(Len(k.queue) >= MaxQueue) /\ k.queue # <<>> /\ k.queue[l] = e
  <2>1. E = k
    BY <1>2 DEF Enqueue, l
  <2>2. l \in 1..l
    BY <1>0, <1>2, EmptySeq DEF l
  <2>3. \A j \in 1..l-1 : j \in 1..l
    BY <1>0
  <2> QED BY <1>0, <1>2, <2>1, <2>2, <2>3
<1>3. CASE ~(Len(k.queue) >= MaxQueue) /\ ~(k.queue # <<>> /\ k.queue[l] = e)
  <2>1. E.queue = Append(k.queue, e)
    BY <1>3 DEF Enqueue, Kernel, l
  <2>2. l + 1 \in 1..(l + 1) /\ \A j \in 1..(l + 1) - 1 : j \in 1..l
    BY <1>0
  <2>3. \A n \in DOMAIN E.queue : E.queue[n] = e \/ n \in 1..l
    BY <1>0, <1>a, <1>b, <2>1
  <2>4. \A n \in 1..l : E.queue[n] = k.queue[n]
    BY <1>a, <2>1
  <2>5. l + 1 \in DOMAIN E.queue /\ E.queue[l + 1] = e
    BY <1>a, <2>1, <2>2
  <2>6. \A j \in 1..(l + 1) - 1 : j \in DOMAIN k.queue /\ E.queue[j] = k.queue[j]
    BY <1>0, <2>2, <2>4 DEF l
  <2>7. \E n \in DOMAIN E.queue : E.queue[n] = e
            /\ \A j \in 1..n-1 : j \in DOMAIN k.queue /\ E.queue[j] = k.queue[j]
    BY <2>5, <2>6
  <2>8. \A n \in DOMAIN E.queue : E.queue[n] = e \/ \E j \in DOMAIN k.queue : E.queue[n] = k.queue[j]
    BY <1>0, <2>3, <2>4 DEF l
  <2>9. \A n \in DOMAIN E.queue : E.queue[n] \in {e, Overflow} \/ \E j \in DOMAIN k.queue : E.queue[n] = k.queue[j]
    BY <2>8
  <2> HIDE DEF E
  <2> QED BY <2>7, <2>9 DEF E
<1> QED BY <1>1, <1>2, <1>3 DEF l

(* Ends of watches that are announced are ends for ever.                   *)
Silent(s, k) ==
    \A n \in DOMAIN s : s[n].type = "IN_IGNORED" =>
        k.watch[s[n].wd] = NULL /\ s[n].wd < k.next
KernelOk(k) == k \in Kernel /\ KernelInv(k) /\ Silent(k.queue, k)

LEMMA EnqueueOk ==
    ASSUME NEW k, KernelOk(k), NEW e \in KEvent,
           e.type = "IN_IGNORED" => k.watch[e.wd] = NULL /\ e.wd < k.next
    PROVE  KernelOk(Enqueue(k, e))
<1>1. /\ Enqueue(k, e) \in Kernel /\ Enqueue(k, e).watch = k.watch
      /\ Enqueue(k, e).next = k.next
  BY EnqueueProperties DEF KernelOk
<1>2. KernelInv(Enqueue(k, e))
  BY <1>1 DEF KernelOk, KernelInv
<1>3. \A n \in DOMAIN Enqueue(k, e).queue :
            \/ Enqueue(k, e).queue[n] \in {e, Overflow}
            \/ \E j \in DOMAIN k.queue : Enqueue(k, e).queue[n] = k.queue[j]
  BY EnqueueElements DEF KernelOk
<1>4. Overflow.type # "IN_IGNORED"
  BY DEF Overflow
<1> QED BY <1>1, <1>2, <1>3, <1>4 DEF KernelOk, Silent

LEMMA DropOk ==
    ASSUME NEW k, KernelOk(k), NEW wd \in Wd, wd < k.next
    PROVE  KernelOk(Drop(k, wd))
<1> DEFINE k0 == [k EXCEPT !.watch[wd] = NULL]
           e  == [wd |-> wd, type |-> "IN_IGNORED"]
<1>1. /\ k0 \in Kernel /\ k0.queue = k.queue /\ k0.next = k.next
      /\ k0.watch[wd] = NULL /\ \A v \in Wd \ {wd} : k0.watch[v] = k.watch[v]
      /\ k0.watch = [k.watch EXCEPT ![wd] = NULL]
  BY DEF KernelOk, Kernel
<1>2. e \in KEvent /\ e.wd = wd
  BY DEF KEvent, EventType
<1>3. Drop(k, wd) = Enqueue(k0, e)
  BY DEF Drop
<1> HIDE DEF k0, e
<1>4. k.queue \in Seq(KEvent)
  BY DEF KernelOk, Kernel
<1>5. \A n \in DOMAIN k.queue : k.queue[n].type = "IN_IGNORED" => k.queue[n].wd \in Wd
  BY <1>4 DEF KEvent, Overflow
<1>6. Silent(k0.queue, k0)
  BY <1>1, <1>5 DEF KernelOk, Silent
<1>7. KernelInv(k0)
  BY <1>1 DEF KernelOk, KernelInv
<1>8. KernelOk(k0)
  BY <1>1, <1>6, <1>7 DEF KernelOk
<1>9. KernelOk(Enqueue(k0, e))
  BY <1>1, <1>2, <1>8, EnqueueOk
<1> QED BY <1>3, <1>9

LEMMA DeliverOk ==
    ASSUME NEW k, KernelOk(k), NEW i, NEW t \in EventType \ {"IN_IGNORED"}
    PROVE  KernelOk(Deliver(k, i, t))
<1>1. CASE \E wd \in KWatches(k, i) : t \in k.watch[wd].mask
  <2> DEFINE wd == CHOOSE wd \in KWatches(k, i) : t \in k.watch[wd].mask
             e  == [wd |-> wd, type |-> t]
             k1 == Enqueue(k, e)
  <2>1. wd \in Wd /\ wd < k.next
    BY <1>1 DEF KWatches, KernelOk, KernelInv
  <2>2. e \in KEvent /\ e.type # "IN_IGNORED"
    BY <2>1 DEF KEvent
  <2>3. KernelOk(k1) /\ k1.next = k.next
    BY <2>2, EnqueueOk, EnqueueProperties DEF KernelOk
  <2>4. Deliver(k, i, t) = IF "IN_ONESHOT" \in k.watch[wd].mask
                           THEN Drop(k1, wd) ELSE k1
    BY <1>1 DEF Deliver
  <2> HIDE DEF wd, k1
  <2> QED BY <2>1, <2>3, <2>4, DropOk
<1>2. CASE ~ \E wd \in KWatches(k, i) : t \in k.watch[wd].mask
  BY <1>2 DEF Deliver
<1> QED BY <1>1, <1>2

LEMMA DieOk ==
    ASSUME NEW k, KernelOk(k), NEW i
    PROVE  KernelOk(Die(k, i)) /\ KWatches(Die(k, i), i) = {}
<1> DEFINE k1 == Deliver(k, i, "IN_DELETE_SELF")
           wd == CHOOSE wd \in KWatches(k1, i) : TRUE
<1>1. KernelOk(k1)
  BY DeliverOk DEF EventType
<1>2. Die(k, i) = IF KWatches(k1, i) = {} THEN k1 ELSE Drop(k1, wd)
  BY DEF Die
<1> HIDE DEF k1
<1>3. CASE KWatches(k1, i) # {}
  <2>1. wd \in Wd /\ wd \in KWatches(k1, i)
    BY <1>3 DEF KWatches
  <2> HIDE DEF wd
  <2>2. wd < k1.next /\ \A v \in KWatches(k1, i) : v = wd
    BY <1>1, <2>1 DEF KernelOk, KernelInv, KWatches
  <2>3. k1 \in Kernel /\ k1.watch \in [Wd -> KWatch \cup {NULL}]
    BY <1>1 DEF KernelOk, Kernel
  <2>4. Drop(k1, wd).watch = [k1.watch EXCEPT ![wd] = NULL]
    BY <2>1, <2>3, DropExtends
  <2>5. KWatches(Drop(k1, wd), i) = {}
    BY <2>1, <2>2, <2>3, <2>4 DEF KWatches
  <2> QED BY <1>1, <1>2, <1>3, <2>1, <2>2, <2>5, DropOk
<1> QED BY <1>1, <1>2, <1>3

(* An event on a watched inode is in the queue, and what is in front of it *)
(* was there before.                                                       *)
LEMMA DeliverArrives ==
    ASSUME NEW k, KernelOk(k), NEW i, NEW t \in EventType,
           NEW wd \in KWatches(k, i), t \in k.watch[wd].mask
    PROVE  LET q == Deliver(k, i, t).queue
           IN  \/ Deliver(k, i, t).lost
               \/ \E n \in DOMAIN q :
                    /\ q[n] = [wd |-> wd, type |-> t]
                    /\ \A j \in 1..n-1 : j \in DOMAIN k.queue /\ q[j] = k.queue[j]
<1> DEFINE e  == [wd |-> wd, type |-> t]
           k1 == Enqueue(k, e)
           D  == Deliver(k, i, t)
<1>1. wd \in Wd /\ \A v \in KWatches(k, i) : v = wd
  BY DEF KWatches, KernelOk, KernelInv
<1>2. (CHOOSE v \in KWatches(k, i) : t \in k.watch[v].mask) = wd
  BY <1>1
<1>3. e \in KEvent
  BY <1>1 DEF KEvent
<1>4. D \in {k1, Drop(k1, wd)}
  BY <1>2 DEF Deliver
<1>5. \/ k1.lost
      \/ \E n \in DOMAIN k1.queue :
            /\ k1.queue[n] = e
            /\ \A j \in 1..n-1 : j \in DOMAIN k.queue /\ k1.queue[j] = k.queue[j]
  BY <1>3, EnqueueElements DEF KernelOk
<1>6. k1 \in Kernel
  BY <1>3, EnqueueProperties DEF KernelOk
<1> HIDE DEF k1, D
<1>7. Extends(k1, D)
  <2>1. Extends(k1, Drop(k1, wd))
    BY <1>1, <1>6, DropExtends
  <2>2. Extends(k1, k1)
    BY <1>6 DEF Extends
  <2> QED BY <1>4, <2>1, <2>2
<1>8. DOMAIN k1.queue = 1..Len(k1.queue) /\ Len(k1.queue) \in Nat
  BY <1>6 DEF Kernel
<1> SUFFICES ASSUME ~D.lost
             PROVE  \E n \in DOMAIN D.queue :
                        /\ D.queue[n] = e
                        /\ \A j \in 1..n-1 : j \in DOMAIN k.queue /\ D.queue[j] = k.queue[j]
  BY DEF D
<1>9. PICK n \in DOMAIN k1.queue :
            /\ k1.queue[n] = e
            /\ \A j \in 1..n-1 : j \in DOMAIN k.queue /\ k1.queue[j] = k.queue[j]
  BY <1>5, <1>7 DEF Extends
<1>10. \A j \in 1..n-1 : j \in DOMAIN k1.queue
  BY <1>8
<1>11. \A j \in DOMAIN k1.queue : j \in DOMAIN D.queue /\ D.queue[j] = k1.queue[j]
  BY <1>7 DEF Extends
<1> QED BY <1>9, <1>10, <1>11

-----------------------------------------------------------------------------
(* A watch that is not for one event stays until its inode dies.           *)
Watched(k, i) ==
    \E wd \in Wd : /\ k.watch[wd] # NULL /\ k.watch[wd].ino = i
                   /\ "IN_ONESHOT" \notin k.watch[wd].mask

LEMMA WatchedDrop ==
    ASSUME NEW k \in Kernel, NEW v \in Wd, NEW wd \in Wd, v # wd
    PROVE  Drop(k, wd).watch[v] = k.watch[v]
<1>1. Drop(k, wd).watch = [k.watch EXCEPT ![wd] = NULL]
  BY DropExtends
<1> QED BY <1>1 DEF Kernel

LEMMA WatchedDeliver ==
    ASSUME NEW k, KernelOk(k), NEW j, NEW t \in EventType, NEW v \in Wd, k.watch[v] # NULL,
           "IN_ONESHOT" \notin k.watch[v].mask
    PROVE  Deliver(k, j, t).watch[v] = k.watch[v]
<1>1. CASE \E wd \in KWatches(k, j) : t \in k.watch[wd].mask
  <2> DEFINE wd == CHOOSE wd \in KWatches(k, j) : t \in k.watch[wd].mask
             e  == [wd |-> wd, type |-> t]
             k1 == Enqueue(k, e)
  <2>1. wd \in Wd
    BY <1>1 DEF KWatches
  <2>2. e \in KEvent
    BY <2>1 DEF KEvent
  <2>3. k1.watch = k.watch /\ k1 \in Kernel
    BY <2>2, EnqueueProperties DEF KernelOk
  <2>4. Deliver(k, j, t) = IF "IN_ONESHOT" \in k.watch[wd].mask
                           THEN Drop(k1, wd) ELSE k1
    BY <1>1 DEF Deliver
  <2> HIDE DEF wd, k1
  <2>5. CASE "IN_ONESHOT" \in k.watch[wd].mask
    <3>1. v # wd
      BY <2>5
    <3>2. Drop(k1, wd).watch[v] = k1.watch[v]
      BY <2>1, <2>3, <3>1, WatchedDrop
    <3> QED BY <2>3, <2>4, <2>5, <3>2
  <2> QED BY <2>3, <2>4, <2>5
<1>2. CASE ~ \E wd \in KWatches(k, j) : t \in k.watch[wd].mask
  BY <1>2 DEF Deliver
<1> QED BY <1>1, <1>2

LEMMA WatchedDelivered ==
    ASSUME NEW k, KernelOk(k), NEW i, NEW j, NEW t \in EventType, Watched(k, i)
    PROVE  Watched(Deliver(k, j, t), i)
  BY WatchedDeliver DEF Watched

LEMMA WatchedDies ==
    ASSUME NEW k, KernelOk(k), NEW i, NEW j, i # j, Watched(k, i)
    PROVE  Watched(Die(k, j), i)
<1> DEFINE k1 == Deliver(k, j, "IN_DELETE_SELF")
           wd == CHOOSE wd \in KWatches(k1, j) : TRUE
<1>1. k1 \in Kernel /\ Watched(k1, i)
  BY DeliverOk, WatchedDelivered DEF EventType, KernelOk
<1>2. Die(k, j) = IF KWatches(k1, j) = {} THEN k1 ELSE Drop(k1, wd)
  BY DEF Die
<1> HIDE DEF k1
<1>3. CASE KWatches(k1, j) # {}
  <2>1. wd \in Wd /\ k1.watch[wd].ino = j
    BY <1>3 DEF KWatches
  <2> HIDE DEF wd
  <2>2. PICK v \in Wd : k1.watch[v] # NULL /\ k1.watch[v].ino = i
                        /\ "IN_ONESHOT" \notin k1.watch[v].mask
    BY <1>1 DEF Watched
  <2>3. Drop(k1, wd).watch[v] = k1.watch[v]
    BY <1>1, <2>1, <2>2, WatchedDrop
  <2> QED BY <1>2, <1>3, <2>2, <2>3 DEF Watched
<1> QED BY <1>1, <1>2, <1>3

LEMMA AddedWatch ==
    ASSUME NEW k, KernelOk(k), NEW i \in Inode, NEW mask \in Mask, CanAddWatch(k, i)
    PROVE  LET k1 == AddWatch(k, i, mask)
               wd == WdFor(k, i)
           IN  /\ KernelOk(k1) /\ wd \in Wd /\ wd < k1.next /\ k.next <= k1.next
               /\ k1.queue = k.queue /\ k1.lost = k.lost
               /\ k1.watch[wd] = [ino |-> i, mask |-> mask]
               /\ \A v \in Wd \ {wd} : k1.watch[v] = k.watch[v]
               /\ IF KWatches(k, i) = {} THEN wd = k.next /\ k.watch[wd] = NULL
                  ELSE k.watch[wd] # NULL /\ k.watch[wd].ino = i
               /\ \A s \in Seq(KEvent) : Silent(s, k) => Silent(s, k1)
<1> DEFINE v == WdFor(k, i)
           r == [ino |-> i, mask |-> mask]
           n == IF KWatches(k, i) = {} THEN k.next + 1 ELSE k.next
           k1 == AddWatch(k, i, mask)
<1>0. k \in Kernel /\ KernelInv(k) /\ Silent(k.queue, k)
  BY DEF KernelOk
<1>1. /\ v \in Wd
      /\ KWatches(k, i) # {} => v \in KWatches(k, i)
      /\ KWatches(k, i) = {} => v = k.next
  BY DEF CanAddWatch, WdFor, KWatches
<1>2. k1 = [k EXCEPT !.watch[v] = r, !.next = n]
  BY <1>0 DEF AddWatch, Kernel
<1>3. /\ k.next \in Nat /\ Wd \subseteq Nat
      /\ \A wd \in Wd : k.watch[wd] # NULL => wd < k.next
  BY <1>0 DEF Kernel, Wd, KernelInv
<1>4. v < n /\ k.next <= n /\ n \in Nat
  BY <1>1, <1>3 DEF KWatches
<1>5. k1 \in Kernel /\ KernelInv(k1)
  BY <1>0, AddWatchExtends, AddWatchKeeps
<1>6. IF KWatches(k, i) = {} THEN v = k.next /\ k.watch[v] = NULL
      ELSE k.watch[v] # NULL /\ k.watch[v].ino = i
  BY <1>1, <1>3 DEF KWatches
<1> HIDE DEF v, n, r
<1>7. /\ k1.next = n /\ k1.watch[v] = r /\ k1.queue = k.queue /\ k1.lost = k.lost
      /\ \A wd \in Wd \ {v} : k1.watch[wd] = k.watch[wd]
  BY <1>0, <1>1, <1>2 DEF Kernel
<1>8. \A wd \in Wd : k.watch[wd] = NULL /\ wd < k.next => wd # v
  <2> SUFFICES ASSUME k.watch[v] = NULL, v < k.next
               PROVE  FALSE
    OBVIOUS
  <2>1. v = k.next
    BY <1>6
  <2> QED BY <1>3, <2>1
<1>9. ASSUME NEW s \in Seq(KEvent), Silent(s, k)
      PROVE  Silent(s, k1)
  <2>1. \A m \in DOMAIN s : s[m].type = "IN_IGNORED" => s[m].wd \in Wd
    BY DEF KEvent, Overflow
  <2>2. \A a \in Wd : a < k.next => a < n
    <3>1. Wd \subseteq Nat /\ k.next \in Nat
      BY <1>3
    <3>2. k.next <= n /\ n \in Nat
      BY <1>4
    <3> QED BY <3>1, <3>2
  <2> QED BY <1>0, <1>7, <1>8, <1>9, <2>1, <2>2 DEF Silent
<1>k. k.queue \in Seq(KEvent)
  BY <1>0 DEF Kernel
<1>10. KernelOk(k1)
  BY <1>0, <1>5, <1>7, <1>9, <1>k DEF KernelOk
<1> QED BY <1>1, <1>4, <1>6, <1>7, <1>9, <1>10 DEF v, r

LEMMA WatchedAdded ==
    ASSUME NEW k, KernelOk(k), NEW i \in Inode, NEW mask \in Mask, CanAddWatch(k, i),
           "IN_ONESHOT" \notin mask
    PROVE  /\ Watched(AddWatch(k, i, mask), i)
           /\ \A j : Watched(k, j) => Watched(AddWatch(k, i, mask), j)
<1> DEFINE k1 == AddWatch(k, i, mask)
           wd == WdFor(k, i)
           r == [ino |-> i, mask |-> mask]
<1>1. /\ wd \in Wd /\ k1.watch[wd] = r
      /\ \A v \in Wd \ {wd} : k1.watch[v] = k.watch[v]
      /\ k.watch[wd] # NULL => k.watch[wd].ino = i
  BY AddedWatch
<1>2. r # NULL /\ r.ino = i /\ r.mask = mask
  BY NullAssumption DEF KWatch
<1> HIDE DEF k1, wd, r
<1>3. Watched(k1, i)
  BY <1>1, <1>2 DEF Watched
<1>4. ASSUME NEW j, Watched(k, j), j # i
      PROVE  Watched(k1, j)
  BY <1>1, <1>4 DEF Watched
<1> QED BY <1>3, <1>4 DEF k1
=============================================================================
