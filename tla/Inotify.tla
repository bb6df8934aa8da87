------------------------------ MODULE Inotify ------------------------------
(***************************************************************************)
(* Class Inotify and its InotifyWatch objects (inotify-cxx.h/.cpp) over    *)
(* one inotify instance of the kernel, which is external: its watches and  *)
(* its event queue change whenever a process touches the file system.      *)
(*                                                                         *)
(* The object keeps two indexes of its watches, m_watches by descriptor    *)
(* and m_paths by path.  The kernel keeps its own set and drops a watch by *)
(* itself (the inode dies, a one-shot watch fires); the object learns of   *)
(* it only when it reads the events, so the three records drift apart.     *)
(***************************************************************************)
EXTENDS Naturals, Sequences, FiniteSets

CONSTANTS
    Path,       \* path names
    Inode,      \* inodes a path may resolve to
    Watch,      \* heap addresses an InotifyWatch may live at
    Mask,       \* masks a watch may be created with, sets of bits
    Type,       \* event types that a process may cause on an inode
    MayRefuse,  \* may the kernel be out of room for a new watch
    NULL,       \* the null pointer, also "nothing there"
    MaxWd,      \* bound: descriptors the kernel hands out
    MaxQueue,   \* fs.inotify.max_queued_events
    BufLen      \* INOTIFY_BUFLEN, in events per read

ASSUME BoundAssumption ==
    MaxWd \in Nat \ {0} /\ MaxQueue \in Nat \ {0} /\ BufLen \in Nat \ {0}

VARIABLES
    fs,         \* file system: what each path resolves to
    kernel,     \* kernel side of the descriptor
    m_fd,       \* is the descriptor open
    m_watches,  \* IN_WATCH_MAP
    m_paths,    \* IN_WP_MAP
    watch,      \* the heap: contents of the InotifyWatch at each address
    recovering, \* old watch Add is restoring between its two system calls
    m_buf,      \* part of the read buffer not yet parsed
    m_events,   \* the user-space event queue
    exc         \* outcome of the last call: "none" or the exception

object == <<m_fd, m_watches, m_paths, watch, recovering, m_buf, m_events, exc>>
vars   == <<fs, kernel, object>>

Wd    == 1..MaxWd
NoWd  == 0
(* Types the kernel generates by itself; IN_IGNORED needs no mask bit, and *)
(* no other process causes one.                                            *)
ASSUME TypeAssumption == "IN_IGNORED" \notin Type
EventType == Type \cup {"IN_DELETE_SELF", "IN_MOVE_SELF", "IN_IGNORED"}
Overflow  == [wd |-> NoWd, type |-> "IN_Q_OVERFLOW"]
KEvent    == [wd : Wd, type : EventType] \cup {Overflow}
KWatch    == [ino : Inode, mask : Mask]
Kernel    == [watch : [Wd -> KWatch \cup {NULL}], queue : Seq(KEvent),
              next : 1..(MaxWd + 1), lost : BOOLEAN]
WatchObj  == [path : Path, mask : Mask, wd : Wd \cup {NoWd}, enabled : BOOLEAN]
ASSUME NullAssumption ==
    NULL \notin Inode /\ NULL \notin Watch /\ NULL \notin KWatch /\ NULL \notin WatchObj
(* InotifyEvent.  path is history: the path of the watch the event was     *)
(* matched with when it was parsed.                                        *)
Event     == [watch : Watch, type : EventType, path : Path]
Outcome   == {"none", "path already watched", "adding watch failed",
              "path already watched (but defined another way)",
              "watch collision detected and recovery failed",
              "removing watch failed"}

-----------------------------------------------------------------------------
(* The kernel.                                                             *)

(* A full queue takes a single overflow mark and loses the event; an event *)
(* equal to the last one is merged with it.                                *)
Enqueue(k, e) ==
    IF Len(k.queue) >= MaxQueue
    THEN [k EXCEPT !.lost  = TRUE,
                   !.queue = IF \E n \in DOMAIN @ : @[n] = Overflow
                             THEN @ ELSE Append(@, Overflow)]
    ELSE IF k.queue # <<>> /\ k.queue[Len(k.queue)] = e
         THEN k
         ELSE [k EXCEPT !.queue = Append(@, e)]

(* The kernel forgets a watch and says so.                                 *)
Drop(k, wd) ==
    Enqueue([k EXCEPT !.watch[wd] = NULL], [wd |-> wd, type |-> "IN_IGNORED"])

KWatches(k, i) == {wd \in Wd : k.watch[wd] # NULL /\ k.watch[wd].ino = i}

(* An event on an inode; a one-shot watch is dropped behind its event.     *)
Deliver(k, i, t) ==
    IF \E wd \in KWatches(k, i) : t \in k.watch[wd].mask
    THEN LET wd == CHOOSE wd \in KWatches(k, i) : t \in k.watch[wd].mask
             k1 == Enqueue(k, [wd |-> wd, type |-> t])
         IN  IF "IN_ONESHOT" \in k.watch[wd].mask THEN Drop(k1, wd) ELSE k1
    ELSE k

(* The last name of an inode is gone: the watch on it goes with it.        *)
Die(k, i) ==
    LET k1 == Deliver(k, i, "IN_DELETE_SELF")
    IN  IF KWatches(k1, i) = {} THEN k1
        ELSE Drop(k1, CHOOSE wd \in KWatches(k1, i) : TRUE)

(* inotify_add_watch: one watch per inode, a second call on the inode      *)
(* replaces the mask and returns the same descriptor.                      *)
WdFor(k, i) == IF KWatches(k, i) = {} THEN k.next
               ELSE CHOOSE wd \in KWatches(k, i) : TRUE
CanAddWatch(k, i) == KWatches(k, i) # {} \/ k.next \in Wd
AddWatch(k, i, mask) ==
    [k EXCEPT !.watch[WdFor(k, i)] = [ino |-> i, mask |-> mask],
              !.next = IF KWatches(k, i) = {} THEN @ + 1 ELSE @]

-----------------------------------------------------------------------------
(* The object.  Calls are made by one thread: none starts before the       *)
(* previous one returned.                                                  *)

Idle == m_fd /\ recovering = NULL /\ m_buf = <<>>

Init ==
    /\ fs \in [Path -> Inode \cup {NULL}]
    /\ kernel = [watch |-> [wd \in Wd |-> NULL], queue |-> <<>>,
                 next |-> 1, lost |-> FALSE]
    /\ m_fd = TRUE
    /\ m_watches = [wd \in Wd |-> NULL]
    /\ m_paths = [p \in Path |-> NULL]
    /\ watch = [w \in Watch |-> NULL]
    /\ recovering = NULL
    /\ m_buf = <<>>
    /\ m_events = <<>>
    /\ exc = "none"

(* Inotify::Add on a watch its caller has just created: both indexes and   *)
(* the kernel take it.                                                     *)
AddOk(w, p, mask) ==
    /\ Idle
    /\ watch[w] = NULL /\ m_paths[p] = NULL
    /\ fs[p] # NULL /\ CanAddWatch(kernel, fs[p])
    /\ LET wd == WdFor(kernel, fs[p])
       IN  /\ m_watches[wd] = NULL
           /\ kernel' = AddWatch(kernel, fs[p], mask)
           /\ m_watches' = [m_watches EXCEPT ![wd] = w]
           /\ watch' = [watch EXCEPT ![w] = [path |-> p, mask |-> mask,
                                             wd |-> wd, enabled |-> TRUE]]
    /\ m_paths' = [m_paths EXCEPT ![p] = w]
    /\ exc' = "none"
    /\ UNCHANGED <<fs, m_fd, recovering, m_buf, m_events>>

(* "path already watched": no system call is made.  The caller of an Add   *)
(* that throws deletes its watch, here and below, so it never shows.       *)
AddPathTaken(p) ==
    /\ Idle
    /\ m_paths[p] # NULL
    /\ exc' = "path already watched"
    /\ UNCHANGED <<fs, kernel, m_fd, m_watches, m_paths, watch, recovering,
                   m_buf, m_events>>

(* "adding watch failed": no such path, or (the limit counts the watches   *)
(* of every process of the user) no room for a new watch.                  *)
AddFails(p) ==
    /\ Idle
    /\ m_paths[p] = NULL
    /\ fs[p] # NULL =>
            /\ KWatches(kernel, fs[p]) = {}
            /\ MayRefuse \/ kernel.next \notin Wd
    /\ exc' = "adding watch failed"
    /\ UNCHANGED <<fs, kernel, m_fd, m_watches, m_paths, watch, recovering,
                   m_buf, m_events>>

(* The path names an inode that is watched under another path; the first   *)
(* system call has already replaced the mask of that watch ...             *)
AddCollides(p, mask) ==
    /\ Idle
    /\ m_paths[p] = NULL
    /\ fs[p] # NULL /\ CanAddWatch(kernel, fs[p])
    /\ m_watches[WdFor(kernel, fs[p])] # NULL
    /\ recovering' = m_watches[WdFor(kernel, fs[p])]
    /\ kernel' = AddWatch(kernel, fs[p], mask)
    /\ UNCHANGED <<fs, m_fd, m_watches, m_paths, watch, m_buf, m_events, exc>>

(* Faulty variant: the old watch is not put back.                          *)
AddRecoversNothing ==
    /\ recovering # NULL
    /\ recovering' = NULL
    /\ exc' = "path already watched (but defined another way)"
    /\ UNCHANGED <<fs, kernel, m_fd, m_watches, m_paths, watch, m_buf, m_events>>

(* ... and the second one, made on the old watch's path, is to put it      *)
(* back.  Both outcomes throw; its result is compared with 0 only.         *)
AddRecovers ==
    /\ recovering # NULL
    /\ LET i == fs[watch[recovering].path]
       IN  IF i # NULL /\ CanAddWatch(kernel, i)
           THEN /\ kernel' = AddWatch(kernel, i, watch[recovering].mask)
                /\ exc' = "path already watched (but defined another way)"
           ELSE /\ UNCHANGED kernel
                /\ exc' = "watch collision detected and recovery failed"
    /\ recovering' = NULL
    /\ UNCHANGED <<fs, m_fd, m_watches, m_paths, watch, m_buf, m_events>>

(* Faulty variant: the descriptor stays in m_watches.                      *)
RemoveForgetsIndex(w) ==
    /\ Idle
    /\ watch[w] # NULL
    /\ watch[w].wd # NoWd => kernel.watch[watch[w].wd] # NULL
    /\ kernel' = IF watch[w].wd = NoWd THEN kernel ELSE Drop(kernel, watch[w].wd)
    /\ m_paths' = [m_paths EXCEPT ![watch[w].path] = NULL]
    /\ watch' = [watch EXCEPT ![w] = NULL]
    /\ exc' = "none"
    /\ UNCHANGED <<fs, m_fd, m_watches, recovering, m_buf, m_events>>

(* Inotify::Remove, after which the owner deletes the watch.  Only a watch *)
(* with a descriptor needs the kernel.                                     *)
Remove(w) ==
    /\ Idle
    /\ watch[w] # NULL
    /\ LET wd == watch[w].wd
       IN  IF wd = NoWd
           THEN UNCHANGED <<kernel, m_watches>>
           ELSE /\ kernel.watch[wd] # NULL
                /\ kernel' = Drop(kernel, wd)
                /\ m_watches' = [m_watches EXCEPT ![wd] = NULL]
    /\ m_paths' = [m_paths EXCEPT ![watch[w].path] = NULL]
    /\ watch' = [watch EXCEPT ![w] = NULL]
    /\ exc' = "none"
    /\ UNCHANGED <<fs, m_fd, recovering, m_buf, m_events>>

(* "removing watch failed": the kernel no longer knows the descriptor and  *)
(* the IN_IGNORED that says so has not been read.                          *)
RemoveThrows(w) ==
    /\ Idle
    /\ watch[w] # NULL
    /\ watch[w].wd # NoWd
    /\ kernel.watch[watch[w].wd] = NULL
    /\ exc' = "removing watch failed"
    /\ UNCHANGED <<fs, kernel, m_fd, m_watches, m_paths, watch, recovering,
                   m_buf, m_events>>

(* Inotify::WaitForEvents: read() fills the buffer ...                     *)
ReadEvents ==
    /\ Idle
    /\ m_events = <<>>          \* the one caller drains them before it returns
    /\ kernel.queue # <<>>
    /\ LET n == IF Len(kernel.queue) > BufLen THEN BufLen ELSE Len(kernel.queue)
       IN  /\ m_buf' = SubSeq(kernel.queue, 1, n)
           /\ kernel' = [kernel EXCEPT
                            !.queue = SubSeq(@, n + 1, Len(@))]
    /\ exc' = "none"
    /\ UNCHANGED <<fs, m_fd, m_watches, m_paths, watch, recovering, m_events>>

(* InotifyWatch::__Disable on a watch that m_watches holds.                *)
Disable(w) ==
    /\ m_watches' = [m_watches EXCEPT ![watch[w].wd] = NULL]
    /\ watch' = [watch EXCEPT ![w].wd = NoWd, ![w].enabled = FALSE]

(* Faulty variants: the result of FindWatch is not tested; IN_IGNORED is   *)
(* not taken for the end of a watch.                                       *)
ParseEventUntested ==
    /\ m_buf # <<>>
    /\ \E p \in Path :
            m_events' = Append(m_events,
                [watch |-> IF Head(m_buf).wd = NoWd THEN NULL
                           ELSE m_watches[Head(m_buf).wd],
                 type |-> Head(m_buf).type, path |-> p])
    /\ m_buf' = Tail(m_buf)
    /\ UNCHANGED <<fs, kernel, m_fd, m_watches, m_paths, watch, recovering, exc>>
ParseEventOneShotOnly ==
    /\ m_buf # <<>>
    /\ LET e == Head(m_buf)
           w == IF e.wd = NoWd THEN NULL ELSE m_watches[e.wd]
       IN  IF w = NULL
           THEN UNCHANGED <<m_watches, watch, m_events>>
           ELSE /\ IF "IN_ONESHOT" \in watch[w].mask
                   THEN Disable(w) ELSE UNCHANGED <<m_watches, watch>>
                /\ m_events' = Append(m_events, [watch |-> w, type |-> e.type,
                                                 path |-> watch[w].path])
    /\ m_buf' = Tail(m_buf)
    /\ UNCHANGED <<fs, kernel, m_fd, m_paths, recovering, exc>>

(* ... and the loop parses one event of it.  An unknown descriptor         *)
(* (removed since, or the overflow mark) is skipped.                       *)
ParseEvent ==
    /\ m_buf # <<>>
    /\ LET e == Head(m_buf)
           w == IF e.wd = NoWd THEN NULL ELSE m_watches[e.wd]
       IN  IF w = NULL
           THEN UNCHANGED <<m_watches, watch, m_events>>
           ELSE /\ IF "IN_ONESHOT" \in watch[w].mask \/ e.type = "IN_IGNORED"
                   THEN Disable(w)
                   ELSE UNCHANGED <<m_watches, watch>>
                /\ m_events' = Append(m_events, [watch |-> w, type |-> e.type,
                                                 path |-> watch[w].path])
    /\ m_buf' = Tail(m_buf)
    /\ UNCHANGED <<fs, kernel, m_fd, m_paths, recovering, exc>>

(* Inotify::GetEvent takes the oldest event.                               *)
GetEvent ==
    /\ Idle
    /\ m_events # <<>>
    /\ m_events' = Tail(m_events)
    /\ exc' = "none"
    /\ UNCHANGED <<fs, kernel, m_fd, m_watches, m_paths, watch, recovering, m_buf>>

(* Inotify::RemoveAll, which forgives what Remove does not.  It does not   *)
(* free the watches: they are their owner's.                               *)
RemoveAll ==
    /\ watch' = [w \in Watch |->
                    IF \E p \in Path : m_paths[p] = w
                    THEN [watch[w] EXCEPT !.wd = NoWd] ELSE watch[w]]
    /\ m_watches' = [wd \in Wd |-> NULL]
    /\ m_paths' = [p \in Path |-> NULL]

(* Inotify::Close; the kernel frees the instance, watches and queue.       *)
Close ==
    /\ Idle
    /\ m_fd' = FALSE
    /\ RemoveAll
    /\ kernel' = [kernel EXCEPT !.watch = [wd \in Wd |-> NULL], !.queue = <<>>]
    /\ exc' = "none"
    /\ UNCHANGED <<fs, recovering, m_buf, m_events>>

-----------------------------------------------------------------------------
(* Other processes.  FsDelete removes an inode with all its names (a       *)
(* directory, and the symbolic links to it dangle), FsUnlink one of        *)
(* several names, FsMove renames.                                          *)

Names(i) == {p \in Path : fs[p] = i}

FsTouch(i, t) ==
    /\ Names(i) # {} /\ m_fd
    /\ kernel' = Deliver(kernel, i, t)
    /\ UNCHANGED <<fs, object>>

FsCreate(p, i) ==
    /\ fs[p] = NULL /\ Names(i) = {}
    /\ fs' = [fs EXCEPT ![p] = i]
    /\ UNCHANGED <<kernel, object>>

FsLink(p, q) ==
    /\ fs[p] # NULL /\ fs[q] = NULL
    /\ fs' = [fs EXCEPT ![q] = fs[p]]
    /\ UNCHANGED <<kernel, object>>

FsDelete(i) ==
    /\ Names(i) # {}
    /\ fs' = [p \in Path |-> IF fs[p] = i THEN NULL ELSE fs[p]]
    /\ kernel' = Die(kernel, i)
    /\ UNCHANGED object

FsUnlink(p) ==
    /\ fs[p] # NULL /\ Cardinality(Names(fs[p])) > 1
    /\ fs' = [fs EXCEPT ![p] = NULL]
    /\ UNCHANGED <<kernel, object>>

FsMove(p, q) ==
    /\ fs[p] # NULL /\ fs[q] = NULL
    /\ fs' = [fs EXCEPT ![q] = fs[p], ![p] = NULL]
    /\ kernel' = Deliver(kernel, fs[p], "IN_MOVE_SELF")
    /\ UNCHANGED object

FsNext ==
    \/ \E i \in Inode, t \in Type : FsTouch(i, t)
    \/ \E p \in Path, i \in Inode : FsCreate(p, i)
    \/ \E p, q \in Path : FsLink(p, q) \/ FsMove(p, q)
    \/ \E i \in Inode : FsDelete(i)
    \/ \E p \in Path : FsUnlink(p)

AddNext ==
    \/ \E w \in Watch, p \in Path, mask \in Mask : AddOk(w, p, mask)
    \/ \E p \in Path : AddPathTaken(p) \/ AddFails(p)
    \/ \E p \in Path, mask \in Mask : AddCollides(p, mask)
    \/ AddRecovers

RemoveNext == \E w \in Watch : Remove(w) \/ RemoveThrows(w)

Next ==
    \/ AddNext
    \/ RemoveNext
    \/ ReadEvents \/ ParseEvent \/ GetEvent
    \/ Close
    \/ FsNext

Spec == Init /\ [][Next]_vars

-----------------------------------------------------------------------------
(* Properties.                                                             *)

TypeOK ==
    /\ fs \in [Path -> Inode \cup {NULL}]
    /\ kernel \in Kernel
    /\ m_fd \in BOOLEAN
    /\ m_watches \in [Wd -> Watch \cup {NULL}]
    /\ m_paths \in [Path -> Watch \cup {NULL}]
    /\ watch \in [Watch -> WatchObj \cup {NULL}]
    /\ recovering \in Watch \cup {NULL}
    /\ m_buf \in Seq(KEvent)
    /\ m_events \in Seq(Event)
    /\ exc \in Outcome

(* m_watches holds live, enabled watches under the descriptor they carry:  *)
(* an event is never parsed onto a freed or a disabled watch, so __Disable *)
(* never throws "event cannot occur on disabled watch".                    *)
DescriptorIndex ==
    \A wd \in Wd : m_watches[wd] # NULL =>
        /\ watch[m_watches[wd]] # NULL
        /\ watch[m_watches[wd]].wd = wd
        /\ watch[m_watches[wd]].enabled

(* Every watch that carries a descriptor can be found by it, so the event  *)
(* that disables it will reach it.                                         *)
DescriptorIndexComplete ==
    \A w \in Watch : watch[w] # NULL /\ watch[w].wd # NoWd =>
        m_watches[watch[w].wd] = w

(* While the object is open every live watch, disabled ones included, is   *)
(* found by its own path and by no other.                                  *)
PathIndex ==
    /\ m_fd => \A w \in Watch : watch[w] # NULL => m_paths[watch[w].path] = w
    /\ \A p \in Path : m_paths[p] # NULL =>
            watch[m_paths[p]] # NULL /\ watch[m_paths[p]].path = p

(* The indexes of the object and the heap agree at every step of every     *)
(* call, failed calls and the window inside Add included.                  *)
MapsConsistent ==
    /\ DescriptorIndex
    /\ DescriptorIndexComplete
    /\ PathIndex
    /\ recovering # NULL => watch[recovering] # NULL

(* A watch the object believes in and the kernel has dropped is one whose  *)
(* last event is still to be read: unless the queue overflowed, staleness  *)
(* is always on its way to __Disable.                                      *)
Pending(wd) ==
    \E s \in {kernel.queue, m_buf} : \E n \in DOMAIN s :
        s[n].wd = wd /\ s[n].type = "IN_IGNORED"
StaleWatchNotified ==
    kernel.lost \/ \A wd \in Wd :
        m_watches[wd] # NULL /\ kernel.watch[wd] = NULL => Pending(wd)

(* An Add that is refused because the inode is watched under another name  *)
(* leaves that watch as it was (inotify-cxx.cpp:364, "try to recover old   *)
(* watch because it may be modified"), provided the old name still leads   *)
(* to the inode: the recovery goes by name, and other processes may have   *)
(* taken the name away since.                                              *)
RefusedAddRestores ==
    [][recovering # NULL /\ recovering' = NULL =>
        LET old == watch[recovering]
        IN  kernel.watch[old.wd] # NULL
                /\ fs[old.path] = kernel.watch[old.wd].ino
            => /\ kernel'.watch[old.wd].mask = old.mask
               /\ m_watches'[old.wd] = recovering
               /\ m_paths'[old.path] = recovering]_vars
=============================================================================
