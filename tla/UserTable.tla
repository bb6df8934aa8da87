----------------------------- MODULE UserTable -----------------------------
(***************************************************************************)
(* One UserTable (usertable.h/.cpp) with its own Inotify, driven by the    *)
(* dispatcher: Load reads the table, runs find for its directories and     *)
(* adds one watch per path; events start commands; a new directory or a    *)
(* changed table file makes the table Dispose of everything and Load       *)
(* again.  Everything runs in the daemon's one thread, but each system     *)
(* call and each find is a step of its own, so that other processes change *)
(* the file system, the table file and the kernel queue in between.        *)
(***************************************************************************)
EXTENDS Inotify

CONSTANTS
    Below,       \* Below[p]: the paths find would list under p
    Parent,      \* Parent[p]: the directory p is in, NULL if not modelled
    Target,      \* Target[p]: what p is a symbolic link to, p itself if none
    Dir,         \* paths that are directories when they exist
    Glob,        \* paths holding a "*"
    Dot,         \* paths with a component that starts with a dot
    Short,       \* Short[p]: p without blanks, quotes and hyphens at its end
    Rights,      \* Rights[i]: the classes to which i's mode gives anything
    Role,        \* Role[u]: the classes the table's user, being u, belongs to
    Cmd,         \* commands
    Table,       \* contents the table file may have
    fSysTable,   \* is this a system table
    DequeNode,   \* entries in the deque node that clear() keeps
    MaxEnv       \* bound: steps other processes take

ASSUME BelowAssumption == \A p \in Path : Below[p] \subseteq Path \ {p}
ASSUME ShortAssumption == Short \in [Path -> Path]
ASSUME TreeAssumption ==
    /\ NULL \notin Path /\ Parent \in [Path -> Path \cup {NULL}]
    /\ Target \in [Path -> Path] /\ \A p \in Path : Target[Target[p]] = Target[p]
ASSUME DequeAssumption == DequeNode \in Nat /\ MaxEnv \in Nat

VARIABLES
    pc,          \* where the thread is
    m_tab,       \* IncronTab: the entries, those read and those expanded
    m_map,       \* IWCE_MAP: the slot of m_tab a watch points to, 0 if none
    registered,  \* is the table in the dispatcher's map
    itOk,        \* is the dispatcher's iterator to it still valid
    why,         \* what the reload under way is for
    todo,        \* watches Dispose has yet to remove
    at, cnt,     \* loop indexes of Load
    cur,         \* OnEvent's event with the pE and pW it took
    outcome,     \* what the last OnEvent did
    file,        \* contents of the table file, NULL when there is none
    news,        \* management events on it not yet handled
    user,        \* what the system says of the table's user
    missed,      \* history: directories the table has had no chance to watch
    env          \* steps other processes have taken

table == <<pc, m_tab, m_map, registered, itOk, why, todo, at, cnt, cur, outcome>>
outside == <<file, news, user, missed, env>>
tvars == <<vars, table, outside>>

Entry == [path : Path, mask : Mask, cmd : Cmd, norec : BOOLEAN, dotdirs : BOOLEAN]
DirCreated == "IN_CREATE|IN_ISDIR"   \* or IN_MOVED_TO|IN_ISDIR
ASSUME TableAssumption ==
    /\ IsFiniteSet(Path)
    /\ Table \subseteq Seq(Entry) /\ NULL \notin Table
    /\ DirCreated \in Type
NoCur == [watch |-> NULL]

(* What the shell finds for one entry, at the time it runs.                *)
Lists(e, q) ==
    /\ q \in Below[e.path]
    /\ q \in Dir \/ e.path \in Glob
    /\ q \in Dot => e.dotdirs
Expansion(e) == {q \in Path : Lists(e, q) /\ fs[q] # NULL}
Orders(S) == {s \in [1..Cardinality(S) -> S] : \A q \in S : \E n \in DOMAIN s : s[n] = q}
InList(s) == {s[n] : n \in DOMAIN s}

(* What a find prints is trimmed as a whole, which cuts the last name.     *)
(* The path p that was searched is left out.                               *)
Cut(s, p) ==
    IF s = <<>> THEN s
    ELSE LET last == Short[s[Len(s)]]
         IN  IF last = p THEN SubSeq(s, 1, Len(s) - 1) ELSE [s EXCEPT ![Len(s)] = last]
Output(S, p) == {Cut(s, p) : s \in Orders(S)}

(* The new paths for one entry.  The find for its directories prints the   *)
(* path itself first; with a wildcard it does not, and a second find adds  *)
(* the files.                                                              *)
ListsItself(e) ==
    /\ e.path \in Dir /\ fs[e.path] # NULL /\ Target[e.path] = e.path
    /\ e.path \in Dot => e.dotdirs
Joined(s, t) == {s \o r : r \in Orders(InList(t) \ InList(s))}
SubDirs(e) ==
    IF e.path \in Glob
    THEN UNION {Joined(s, t) : s \in Output(Expansion(e) \cap Dir, e.path),
                               t \in Output(Expansion(e), e.path)}
    ELSE IF Expansion(e) = {} /\ ListsItself(e) THEN {Cut(<<e.path>>, e.path)}
    ELSE Output(Expansion(e), e.path)

(* UserTable::MayAccess; stat fails on a path that is gone.  Any right of  *)
(* any class the user is in will do.  Who is not admitted with everybody   *)
(* is looked up, and the result of getpwnam read before it is tested.      *)
MayAccess(p) ==
    /\ fs[p] # NULL
    /\ \/ "others" \in Rights[fs[p]]
       \/ "root" \in Role[user]
       \/ Rights[fs[p]] \cap Role[user] # {}
MayAccessFaults(p) ==
    ~fSysTable /\ fs[p] # NULL /\ "others" \notin Rights[fs[p]] /\ user = "unknown"

(* A find that would list p is still to come.                              *)
FindToCome(p) ==
    \/ pc \in {"dispose", "load"}
    \/ pc = "scan" /\ \E n \in at..cnt : Lists(m_tab[n], p) /\ ~m_tab[n].norec

-----------------------------------------------------------------------------
(* Construction, then Load.                                                *)

TableInit ==
    /\ Init
    /\ \A p \in Path : fs[p] # NULL /\ Parent[p] # NULL => fs[Parent[p]] # NULL
    /\ \A p \in Path : fs[p] = fs[Target[p]]
    /\ \A p, q \in Path : fs[p] # NULL /\ fs[p] = fs[q] => Target[p] = Target[q]
    /\ file \in Table
    /\ pc = "load"
    /\ m_tab = <<>>
    /\ m_map = [w \in Watch |-> 0]
    /\ registered = FALSE
    /\ itOk = TRUE
    /\ why = "mgmt"
    /\ todo = {}
    /\ at = 0 /\ cnt = 0
    /\ cur = NoCur
    /\ outcome = NULL
    /\ news = <<>>
    /\ user = "allowed"
    /\ missed = {}
    /\ env = 0

(* IncronTab::Load.                                                        *)
ReadFile ==
    /\ pc = "load"
    /\ m_tab' = IF file = NULL THEN <<>> ELSE file
    /\ cnt' = Len(m_tab')
    /\ pc' = "scan" /\ at' = 1
    /\ missed' = {}
    /\ UNCHANGED <<vars, m_map, registered, itOk, why, todo, cur, outcome,
                   file, news, user, env>>

(* One entry of the first loop: find runs now, its directories become      *)
(* entries; watches come only after the last find.                         *)
Scan ==
    /\ pc = "scan" /\ at <= cnt
    /\ LET e == m_tab[at]
       IN  IF e.norec THEN UNCHANGED <<m_tab, missed>>
           ELSE \E s \in SubDirs(e) :
                    /\ m_tab' = m_tab \o [n \in DOMAIN s |-> [e EXCEPT !.path = s[n]]]
                    /\ missed' = missed \cup (Expansion(e) \ InList(s))
    /\ at' = at + 1
    /\ UNCHANGED <<vars, pc, m_map, registered, itOk, why, todo, cnt, cur,
                   outcome, file, news, user, env>>

ScanDone ==
    /\ pc = "scan" /\ at > cnt
    /\ pc' = "add" /\ at' = 1
    /\ UNCHANGED <<vars, m_tab, m_map, registered, itOk, why, todo, cnt, cur,
                   outcome, outside>>

Adding ==
    /\ pc = "add" /\ at <= Len(m_tab)
    /\ m_tab[at].path \notin Glob
    /\ ~MayAccessFaults(m_tab[at].path)
loading == <<pc, m_tab, registered, itOk, why, todo, cnt, cur, outcome, outside>>

SkipGlob ==
    /\ pc = "add" /\ at <= Len(m_tab)
    /\ m_tab[at].path \in Glob
    /\ at' = at + 1
    /\ UNCHANGED <<vars, m_map, loading>>

(* Faulty variant: every watch points to the first entry.                  *)
AddEntryFirstSlot(w) ==
    /\ Adding
    /\ AddOk(w, m_tab[at].path, m_tab[at].mask)
    /\ m_map' = [m_map EXCEPT ![w] = 1]
    /\ at' = at + 1
    /\ UNCHANGED loading

(* AddTabEntry asks MayAccess, if only for a warning.                      *)
AddEntryFaults ==
    /\ pc = "add" /\ at <= Len(m_tab) /\ recovering = NULL
    /\ m_tab[at].path \notin Glob
    /\ MayAccessFaults(m_tab[at].path)
    /\ pc' = "dead"
    /\ UNCHANGED <<vars, m_tab, m_map, registered, itOk, why, todo, at, cnt, cur,
                   outcome, outside>>

(* AddTabEntry: a new watch, anywhere on the heap, in m_in and in m_map.   *)
AddEntry(w) ==
    /\ Adding
    /\ AddOk(w, m_tab[at].path, m_tab[at].mask)
    /\ m_map' = [m_map EXCEPT ![w] = at]
    /\ at' = at + 1
    /\ UNCHANGED loading

(* Faulty variant: the deleted watch is entered in m_map all the same.     *)
AddEntryFailsMapped ==
    /\ Adding
    /\ AddPathTaken(m_tab[at].path) \/ AddFails(m_tab[at].path)
    /\ \E w \in Watch : watch[w] = NULL /\ m_map' = [m_map EXCEPT ![w] = at]
    /\ at' = at + 1
    /\ UNCHANGED loading

(* Add threw: it is logged, the watch deleted and the loop goes on.        *)
AddEntryFails ==
    /\ Adding
    /\ \/ AddPathTaken(m_tab[at].path) /\ UNCHANGED missed
       \/ AddFails(m_tab[at].path) /\ missed' = missed \cup {m_tab[at].path}
    /\ at' = at + 1
    /\ UNCHANGED <<m_map, pc, m_tab, registered, itOk, why, todo, cnt, cur, outcome,
                   file, news, user, env>>

AddEntryCollides ==
    /\ Adding
    /\ AddCollides(m_tab[at].path, m_tab[at].mask)
    /\ UNCHANGED <<at, m_map, loading>>

AddEntryRecovers ==
    /\ AddRecovers
    /\ at' = at + 1
    /\ UNCHANGED <<m_map, loading>>

(* The end of Load: EventDispatcher::Register.  A reload made for an event *)
(* goes on with the event.                                                 *)
LoadDone ==
    /\ pc = "add" /\ at > Len(m_tab)
    /\ registered' = TRUE
    /\ pc' = IF why = "event" THEN "resume" ELSE "poll"
    /\ UNCHANGED <<vars, m_tab, m_map, itOk, why, todo, at, cnt, cur, outcome, outside>>

-----------------------------------------------------------------------------
(* Dispose.                                                                *)

(* It unregisters first, which erases the map node the dispatcher's        *)
(* iterator refers to, and walks m_map.                                    *)
StartDispose(reason) ==
    /\ registered' = FALSE
    /\ itOk' = (pc = "poll")
    /\ todo' = {w \in Watch : m_map[w] # 0}
    /\ why' = reason
    /\ pc' = "dispose"

DisposeWatch(w) ==
    /\ pc = "dispose" /\ w \in todo
    /\ Remove(w)
    /\ todo' = todo \ {w}
    /\ UNCHANGED <<pc, m_tab, m_map, registered, itOk, why, at, cnt, cur,
                   outcome, outside>>

(* Nothing between here and main() catches it (~UserTable may not even     *)
(* throw): the daemon ends.                                                *)
DisposeThrows(w) ==
    /\ pc = "dispose" /\ w \in todo
    /\ RemoveThrows(w)
    /\ pc' = "dead"
    /\ UNCHANGED <<m_tab, m_map, registered, itOk, why, todo, at, cnt, cur,
                   outcome, outside>>

(* Faulty variant: m_map is not cleared.                                   *)
DisposedKeepsMap ==
    /\ pc = "dispose" /\ todo = {}
    /\ why # "delete"
    /\ pc' = "load"
    /\ UNCHANGED <<vars, m_tab, m_map, registered, itOk, why, todo, at, cnt, cur,
                   outcome, outside>>

(* m_map.clear(), and back to Load with m_tab still full: Load empties it. *)
Disposed ==
    /\ pc = "dispose" /\ todo = {}
    /\ why # "delete"
    /\ m_map' = [w \in Watch |-> 0]
    /\ pc' = "load"
    /\ UNCHANGED <<vars, m_tab, registered, itOk, why, todo, at, cnt, cur,
                   outcome, outside>>

(* ~UserTable: its Inotify is closed.                                      *)
Destroyed ==
    /\ pc = "dispose" /\ todo = {}
    /\ why = "delete"
    /\ Close
    /\ m_map' = [w \in Watch |-> 0]
    /\ m_tab' = <<>>
    /\ pc' = "gone"
    /\ UNCHANGED <<registered, itOk, why, todo, at, cnt, cur, outcome, outside>>

-----------------------------------------------------------------------------
(* EventDispatcher::ProcessEvents for this table, and OnEvent.             *)

StartEvents ==
    /\ pc = "poll" /\ registered
    /\ ReadEvents
    /\ pc' = "drain"
    /\ UNCHANGED <<m_tab, m_map, registered, itOk, why, todo, at, cnt, cur,
                   outcome, outside>>

Parse ==
    /\ pc = "drain"
    /\ ParseEvent
    /\ UNCHANGED <<table, outside>>

(* Faulty variant: after a reload the rest of the events waits.            *)
EventsDoneEarly ==
    /\ pc = "drain" /\ m_buf = <<>>
    /\ m_events = <<>> \/ ~itOk
    /\ pc' = "poll" /\ itOk' = TRUE /\ outcome' = NULL
    /\ UNCHANGED <<vars, m_tab, m_map, registered, why, todo, at, cnt, cur, outside>>

EventsDone ==
    /\ pc = "drain" /\ m_buf = <<>> /\ m_events = <<>>
    /\ pc' = "poll" /\ itOk' = TRUE /\ outcome' = NULL
    /\ UNCHANGED <<vars, m_tab, m_map, registered, why, todo, at, cnt, cur, outside>>

(* it->second, after a reload erased the node: whatever is there now.      *)
IteratorDangles ==
    /\ pc = "drain" /\ m_buf = <<>> /\ m_events # <<>>
    /\ ~itOk
    /\ pc' = "dead"
    /\ UNCHANGED <<vars, m_tab, m_map, registered, itOk, why, todo, at, cnt,
                   cur, outcome, outside>>

Evt == Head(m_events)

(* Is p in the directory that path names, perhaps by a link?               *)
MayTellOf(path, p) == Parent[p] # NULL /\ Target[path] = Target[Parent[p]]
Did(what, cmd, path, e) ==
    outcome' = [what |-> what, cmd |-> cmd, path |-> path, evpath |-> e.path]

OnEventNoEntry ==
    /\ pc = "drain"
    /\ GetEvent
    /\ m_map[Evt.watch] = 0
    /\ Did("no entry", NULL, NULL, Evt)
    /\ UNCHANGED <<pc, m_tab, m_map, registered, itOk, why, todo, at, cnt, cur, outside>>

Found == m_map[Evt.watch] # 0
Admitted ==
    /\ Found
    /\ ~MayAccessFaults(watch[Evt.watch].path)
    /\ fSysTable \/ MayAccess(watch[Evt.watch].path)

OnEventDenied ==
    /\ pc = "drain"
    /\ GetEvent
    /\ Found /\ ~Admitted /\ ~MayAccessFaults(watch[Evt.watch].path)
    /\ outcome' = NULL
    /\ missed' = IF Evt.type = DirCreated
                 THEN missed \cup {q \in Path : MayTellOf(Evt.path, q)} ELSE missed
    /\ UNCHANGED <<pc, m_tab, m_map, registered, itOk, why, todo, at, cnt, cur,
                   file, news, user, env>>

OnEventFaults ==
    /\ pc = "drain"
    /\ GetEvent
    /\ Found /\ MayAccessFaults(watch[Evt.watch].path)
    /\ pc' = "dead"
    /\ UNCHANGED <<m_tab, m_map, registered, itOk, why, todo, at, cnt, cur, outcome,
                   outside>>

(* Faulty variant: a new directory waits for the last event of the read.   *)
OnEventRunFirst ==
    /\ pc = "drain"
    /\ GetEvent
    /\ Admitted /\ (Evt.type # DirCreated \/ Len(m_events) > 1)
    /\ Did("run", m_tab[m_map[Evt.watch]].cmd, watch[Evt.watch].path, Evt)
    /\ UNCHANGED <<pc, m_tab, m_map, registered, itOk, why, todo, at, cnt, cur, outside>>

(* The command of the entry, with $@ and $% from the watch and the event,  *)
(* is handed to a child.                                                   *)
OnEventRun ==
    /\ pc = "drain"
    /\ GetEvent
    /\ Admitted /\ Evt.type # DirCreated
    /\ Did("run", m_tab[m_map[Evt.watch]].cmd, watch[Evt.watch].path, Evt)
    /\ UNCHANGED <<pc, m_tab, m_map, registered, itOk, why, todo, at, cnt, cur, outside>>

(* A new directory: Dispose, sleep(1), Load ...                            *)
OnEventReload ==
    /\ pc = "drain"
    /\ GetEvent
    /\ Admitted /\ Evt.type = DirCreated
    /\ cur' = [watch |-> Evt.watch, evt |-> Evt, slot |-> m_map[Evt.watch],
               entry |-> m_tab[m_map[Evt.watch]]]
    /\ StartDispose("event")
    /\ outcome' = NULL
    /\ UNCHANGED <<m_tab, m_map, at, cnt, outside>>

(* ... and the event goes on with pE and pW, both freed by the reload: the *)
(* deque node that clear() keeps now holds the new entries, the watch's    *)
(* address may hold a new watch; elsewhere is what was there, or garbage.  *)
DanglingCmd ==
    IF cur.slot <= DequeNode /\ cur.slot <= Len(m_tab)
    THEN {m_tab[cur.slot].cmd} ELSE {cur.entry.cmd, "garbage"}
DanglingPath ==
    IF watch[cur.watch] # NULL
    THEN {watch[cur.watch].path} ELSE {cur.evt.path, "garbage"}

OnEventResume ==
    /\ pc = "resume"
    /\ \E c \in DanglingCmd, p \in DanglingPath :
            Did("run", c, p, cur.evt)
    /\ pc' = "drain" /\ cur' = NoCur
    /\ UNCHANGED <<vars, m_tab, m_map, registered, itOk, why, todo, at, cnt, outside>>

-----------------------------------------------------------------------------
(* EventDispatcher::ProcessMgmtEvents, as far as it is about this table.   *)

(* Faulty variant: one read of the management events, one reload.         *)
MgmtReloadOnce ==
    /\ pc = "poll"
    /\ news # <<>> /\ Head(news) = "IN_CLOSE_WRITE"
    /\ news' = <<>>
    /\ StartDispose("mgmt")
    /\ UNCHANGED <<vars, m_tab, m_map, at, cnt, cur, outcome,
                   file, user, missed, env>>

MgmtReload ==
    /\ pc = "poll"
    /\ news # <<>> /\ Head(news) = "IN_CLOSE_WRITE"
    /\ news' = Tail(news)
    /\ StartDispose("mgmt")
    /\ UNCHANGED <<vars, m_tab, m_map, at, cnt, cur, outcome,
                   file, user, missed, env>>

MgmtDestroy ==
    /\ pc = "poll"
    /\ news # <<>> /\ Head(news) = "IN_DELETE"
    /\ news' = Tail(news)
    /\ StartDispose("delete")
    /\ UNCHANGED <<vars, m_tab, m_map, at, cnt, cur, outcome,
                   file, user, missed, env>>

(* UserTable::CheckUser: the user exists and may use incron.               *)
CheckUser == user \in {"allowed", "moved"}

(* A new UserTable, with a new inotify instance.                           *)
MgmtCreate ==
    /\ pc = "gone"
    /\ news # <<>> /\ Head(news) = "IN_CLOSE_WRITE"
    /\ fSysTable \/ CheckUser
    /\ news' = Tail(news)
    /\ m_fd' = TRUE
    /\ kernel' = [kernel EXCEPT !.lost = FALSE]
    /\ pc' = "load" /\ why' = "mgmt"
    /\ UNCHANGED <<fs, m_events, m_watches, m_paths, watch, recovering, m_buf, exc>>
    /\ UNCHANGED <<m_tab, m_map, registered, itOk, todo, at, cnt, cur, outcome,
                   file, user, missed, env>>

(* A user table appears and CheckUser says no; or one that was refused     *)
(* disappears.                                                             *)
MgmtNothing ==
    /\ pc = "gone"
    /\ news # <<>>
    /\ Head(news) = "IN_CLOSE_WRITE" => ~fSysTable /\ ~CheckUser
    /\ news' = Tail(news)
    /\ UNCHANGED <<vars, table, file, user, missed, env>>

-----------------------------------------------------------------------------
(* Other processes.                                                        *)

Environment == env < MaxEnv /\ env' = env + 1

(* The table will hear of a new directory p.  (A watch Add has recovered   *)
(* on the next inode of that name is the kernel's, but in no index.)       *)
Told(p) ==
    /\ Parent[p] # NULL
    /\ \E wd \in KWatches(kernel, fs[Parent[p]]) :
            DirCreated \in kernel.watch[wd].mask /\ m_watches[wd] # NULL

(* mkdir, in a directory that may be watched.                              *)
MakeDir(p, i) ==
    /\ Environment
    /\ p \in Dir /\ Target[p] = p /\ fs[p] = NULL /\ Names(i) = {}
    /\ Parent[p] # NULL => fs[Parent[p]] # NULL
    /\ fs' = [q \in Path |-> IF Target[q] = p THEN i ELSE fs[q]]
    /\ kernel' = IF Parent[p] = NULL THEN kernel
                 ELSE Deliver(kernel, fs[Parent[p]], DirCreated)
    /\ missed' = IF FindToCome(p) \/ Told(p) THEN missed \ {p} ELSE missed \cup {p}
    /\ UNCHANGED <<object, table, file, news, user>>

(* rmdir; no mask of interest selects the parent's IN_DELETE.              *)
RemoveDir(p) ==
    /\ Environment
    /\ Target[p] = p /\ fs[p] # NULL
    /\ \A q \in Path : Parent[q] = p => fs[q] = NULL
    /\ fs' = [q \in Path |-> IF Target[q] = p THEN NULL ELSE fs[q]]
    /\ kernel' = Die(kernel, fs[p])
    /\ UNCHANGED <<object, table, file, news, user, missed>>

WriteIn(p, t) ==
    /\ Environment
    /\ Target[p] = p /\ fs[p] # NULL
    /\ kernel' = Deliver(kernel, fs[p], t)
    /\ UNCHANGED <<fs, object, table, file, news, user, missed>>

(* incrontab, or an editor, replaces the table or removes it.              *)
WriteTable(content) ==
    /\ Environment
    /\ content # file
    /\ file' = content
    /\ news' = Append(news, IF content = NULL THEN "IN_DELETE" ELSE "IN_CLOSE_WRITE")
    /\ UNCHANGED <<vars, table, user, missed>>

(* The user is moved to other groups, denied in the permission files, or   *)
(* deleted.                                                                *)
ChangeUser(u) ==
    /\ Environment
    /\ ~fSysTable /\ user \notin {u, "unknown"}
    /\ u = "moved" => user = "allowed"
    /\ user' = u
    /\ UNCHANGED <<vars, table, file, news, missed>>

-----------------------------------------------------------------------------
LoadNext ==
    \/ ReadFile \/ Scan \/ ScanDone
    \/ SkipGlob
    \/ \E w \in Watch : AddEntry(w)
    \/ AddEntryFails \/ AddEntryCollides \/ AddEntryRecovers \/ AddEntryFaults
    \/ LoadDone

DisposeNext ==
    \/ \E w \in Watch : DisposeWatch(w) \/ DisposeThrows(w)
    \/ Disposed \/ Destroyed

EventNext ==
    \/ StartEvents \/ Parse \/ EventsDone \/ IteratorDangles
    \/ OnEventNoEntry \/ OnEventDenied \/ OnEventFaults \/ OnEventRun
    \/ OnEventReload \/ OnEventResume

MgmtNext == MgmtReload \/ MgmtDestroy \/ MgmtCreate \/ MgmtNothing

Daemon == LoadNext \/ DisposeNext \/ EventNext \/ MgmtNext

OutsideNext ==
    \/ \E p \in Path, i \in Inode : MakeDir(p, i)
    \/ \E p \in Path : RemoveDir(p)
    \/ \E p \in Path, t \in Type \ {DirCreated} : WriteIn(p, t)
    \/ \E content \in Table \cup {NULL} : WriteTable(content)
    \/ \E u \in {"moved", "denied", "unknown"} : ChangeUser(u)

TableNext == Daemon \/ OutsideNext

(* The daemon is one thread that never waits for anything but poll.        *)
TableSpec == TableInit /\ [][TableNext]_tvars
FairTableSpec == TableSpec /\ WF_tvars(Daemon)

-----------------------------------------------------------------------------
(* Properties.                                                             *)

Loaded == pc \in {"poll", "drain", "resume"}

TableTypeOK ==
    /\ TypeOK
    /\ pc \in {"load", "scan", "add", "poll", "drain", "resume", "dispose",
               "gone", "dead"}
    /\ m_tab \in Seq(Entry)
    /\ m_map \in [Watch -> 0..Len(m_tab)]
    /\ registered \in BOOLEAN /\ itOk \in BOOLEAN
    /\ why \in {"mgmt", "event", "delete"}
    /\ todo \subseteq Watch
    /\ cur.watch \in Watch \cup {NULL}
    /\ file \in Table \cup {NULL}
    /\ news \in Seq({"IN_DELETE", "IN_CLOSE_WRITE"})
    /\ user \in {"allowed", "moved", "denied", "unknown"}
    /\ missed \subseteq Path

(* Once loaded, m_map owns every watch on the heap and no freed one, and   *)
(* each points to the entry it was made from: FindEntry can trust both.    *)
MapOwnsWatches ==
    Loaded => \A w \in Watch :
        /\ m_map[w] # 0 <=> watch[w] # NULL
        /\ m_map[w] # 0 =>
                /\ m_map[w] <= Len(m_tab)
                /\ m_tab[m_map[w]].path = watch[w].path
                /\ m_tab[m_map[w]].mask = watch[w].mask

(* While no reload came between, every queued event is about a live watch, *)
(* the one it was read for, and the command it starts is one its own path  *)
(* is listed with (ProcessEvents, OnEvent).                                *)
EventsAttributed ==
    itOk =>
        /\ pc = "drain" => \A n \in DOMAIN m_events :
                LET e == m_events[n]
                IN  m_map[e.watch] # 0 /\ m_tab[m_map[e.watch]].path = e.path
        /\ outcome # NULL =>
                /\ outcome.what = "run" /\ outcome.path = outcome.evpath
                /\ \E n \in DOMAIN m_tab : /\ m_tab[n].path = outcome.evpath
                                           /\ m_tab[n].cmd = outcome.cmd

(* Back in poll the table is in the poll set and no event already read     *)
(* waits for the next one to come: poll would not report it.               *)
NothingStranded ==
    pc = "poll" => registered /\ m_buf = <<>> /\ m_events = <<>>

(* When no change of the table file is unread, a loaded table holds the    *)
(* newest contents entry by entry, and there is none only where there is   *)
(* no file, or no user who may have it: no change is lost behind an        *)
(* earlier one, a reload or a delete (ProcessMgmtEvents, Load, Dispose).   *)
FileLoaded ==
    news = <<>> =>
        /\ Loaded => /\ file # NULL
                     /\ \A n \in DOMAIN file : n \in DOMAIN m_tab /\ m_tab[n] = file[n]
        /\ pc = "gone" => file = NULL \/ (~fSysTable /\ ~CheckUser)

(* A changed table file ends up loaded, however often it and the           *)
(* directories changed before and whatever events arrive, or the daemon    *)
(* has died (incrontab.5: "read ... after any change").  Only a user who   *)
(* may not use incron any more has no table for a file.                    *)
InSync ==
    \/ pc = "dead"
    \/ pc = "gone" /\ (file = NULL \/ ~CheckUser)
    \/ /\ pc = "poll" /\ file # NULL
       /\ \A n \in DOMAIN file : n \in DOMAIN m_tab /\ m_tab[n] = file[n]
TableConverges == <>[]InSync

(* When the outside goes quiet every watch the table believes in is one    *)
(* the kernel has, unless the queue overflowed.                            *)
WatchesConverge ==
    <>[](pc = "dead" \/ kernel.lost \/
            \A wd \in Wd : m_watches[wd] # NULL => kernel.watch[wd] # NULL)

(* In the end every directory a recursive entry is to cover is watched,    *)
(* though directories appear before, during and behind the finds of a      *)
(* reload, and reloads throw away the events that tell of them.  Left out  *)
(* are those the code cannot know of (missed): they appeared behind the    *)
(* find and before the watch on their parent, their Add failed, or their   *)
(* name is cut.                                                            *)
Covered ==
    pc = "poll" /\ file # NULL =>
        \A n \in DOMAIN file, p \in Path :
            /\ ~file[n].norec /\ p \in Expansion(file[n])
            /\ p \notin missed
            /\ \A k \in DOMAIN file : "IN_ONESHOT" \notin file[k].mask
            => KWatches(kernel, fs[p]) # {}
DirectoriesCovered == <>[](kernel.lost \/ Covered)

(* Back in poll, each of these directories that the table should cover is  *)
(* watched, or the event that tells of it is in the queue, from a watch on *)
(* its parent that the table still knows and will still know when it reads *)
(* the event: none falls between find, the Adds, the events and a reload   *)
(* (Load, OnEvent), unless the queue overflowed or an entry asks for a     *)
(* one-shot watch.  Symbolic links are left out, for nothing tells of      *)
(* them, and paths with a star, which Load takes for wildcards.            *)
Announced(p) ==
    \E n \in DOMAIN kernel.queue :
        LET e == kernel.queue[n]
        IN  /\ e.type = DirCreated /\ m_watches[e.wd] # NULL
            /\ MayTellOf(watch[m_watches[e.wd]].path, p)
            /\ \A k \in 1..n-1 : kernel.queue[k] # [wd |-> e.wd, type |-> "IN_IGNORED"]
DirectoriesAnnounced ==
    /\ pc = "poll" /\ ~kernel.lost
    /\ \A n \in DOMAIN m_tab : "IN_ONESHOT" \notin m_tab[n].mask
    => \A n \in 1..cnt, p \in Path :
            /\ ~m_tab[n].norec /\ p \in Expansion(m_tab[n])
            /\ Target[p] = p /\ p \notin Glob \cup missed
            => KWatches(kernel, fs[p]) # {} \/ Announced(p)

(* Every event meets the entry and the watch it came from: usertable.cpp   *)
(* 374, "no entry found - this shouldn't occur"; incrontab.5:70, $@ is the *)
(* "watched filesystem path".                                              *)
EventMeetsItsEntry ==
    outcome # NULL => outcome.what = "run" /\ outcome.path = outcome.evpath

(* incrond.8: "If a table (incrontab) is changed incrond reacts            *)
(* immediately and reloads the table": it does not end.                    *)
DaemonSurvives == pc # "dead"
=============================================================================
