----------------------------- MODULE Dispatcher -----------------------------
(***************************************************************************)
(* EventDispatcher, the map g_ut of tables and incrond's main loop         *)
(* (usertable.cpp, icd-main.cpp): tables come and go with the files of the *)
(* two table directories, each brings an inotify descriptor of its own,    *)
(* and one poll array says whom to listen to.  What a table does with its  *)
(* events is UserTable; here it either runs a command or reloads.          *)
(***************************************************************************)
EXTENDS Naturals, Sequences, FiniteSets

CONSTANTS
    Name,     \* table files, of both directories
    System,   \* those in the system table directory
    Backup,   \* system tables whose name ends with a tilde
    Ignored,  \* dot files among the system tables, users CheckUser refuses
    Partial,  \* contents of a file that is being written
    NULL,
    MaxFd,    \* descriptors the process may still open
    MaxEnv    \* bound: steps other processes take

ASSUME FdAssumption == MaxFd \in Nat \ {0} /\ MaxEnv \in Nat
ASSUME NameAssumption ==
    System \subseteq Name /\ Backup \subseteq System /\ NULL \notin Name

VARIABLES
    dir,       \* contents of each file: a version, Partial, or NULL
    pending,   \* management events in the kernel
    m_events,  \* management events read and not yet handled
    g_ut,      \* the tables: descriptor and the contents loaded
    m_maps,    \* FDUT_MAP
    m_pPoll,   \* the poll array behind the two fixed slots
    ready,     \* per descriptor: its table's events in the kernel
    tevents,   \* events of the table being served, read but not handled
    pc,        \* where the daemon is
    i,         \* ProcessEvents' loop index
    cur, back, \* the table being loaded or served, where to go on after Load
    toread,    \* names readdir may still return
    g_fFinish,
    env

vars == <<dir, pending, m_events, g_ut, m_maps, m_pPoll, ready, tevents, pc, i,
          cur, back, toread, g_fFinish, env>>
kernel == <<dir, pending, ready, env>>

Fd == 1..MaxFd
Version == 0..MaxEnv
Content == Version \cup {Partial, NULL}
Kind == {"command", "directory", "stale"}  \* "stale": of a removed watch
Change == {"IN_CREATE", "IN_CLOSE_WRITE", "IN_MOVED_TO", "IN_MOVED_FROM", "IN_DELETE"}
MgmtEvent == [name : Name, type : Change] \cup {[name |-> NULL, type |-> "IN_DELETE_SELF"]}
TableObj == [fd : Fd, tab : Content]
ASSUME NullAssumption == NULL \notin TableObj /\ NULL \notin Version \cup {Partial}

Open == {g_ut[n].fd : n \in {m \in Name : g_ut[m] # NULL}}
Keys(maps) == {f \in Fd : maps[f] # NULL}

(* Faulty variant: revents is not initialised.                             *)
RebuildUninitialised(maps) ==
    [k \in 1..Cardinality(Keys(maps)) |->
        [fd |-> CHOOSE f \in Keys(maps) :
                    Cardinality({g \in Keys(maps) : g <= f}) = k,
         revents |-> TRUE]]
(* EventDispatcher::Rebuild: the array anew, in the order of the map.      *)
Rebuild(maps) ==
    [k \in 1..Cardinality(Keys(maps)) |->
        [fd |-> CHOOSE f \in Keys(maps) :
                    Cardinality({g \in Keys(maps) : g <= f}) = k,
         revents |-> FALSE]]

(* Faulty variant: the slot is appended, the array is not rebuilt.         *)
RegisterAppends(n) ==
    /\ m_maps' = [m_maps EXCEPT ![g_ut[n].fd] = n]
    /\ m_pPoll' = Append(m_pPoll, [fd |-> g_ut[n].fd, revents |-> FALSE])

(* std::map::insert leaves a key that is there alone.                      *)
Register(n) ==
    /\ m_maps' = IF m_maps[g_ut[n].fd] = NULL
                 THEN [m_maps EXCEPT ![g_ut[n].fd] = n] ELSE m_maps
    /\ m_pPoll' = Rebuild(m_maps')

(* Faulty variant: the array is not rebuilt.                               *)
UnregisterOnly(n) ==
    /\ m_maps' = [m_maps EXCEPT ![g_ut[n].fd] = NULL]
    /\ UNCHANGED m_pPoll

Unregister(n) ==
    IF m_maps[g_ut[n].fd] = NULL
    THEN UNCHANGED <<m_maps, m_pPoll>>
    ELSE /\ m_maps' = [m_maps EXCEPT ![g_ut[n].fd] = NULL]
         /\ m_pPoll' = Rebuild(m_maps')

(* load_tables and ProcessMgmtEvents pass over different names.            *)
Listed(n)  == n \notin Ignored \cup Backup
Noticed(n) == n \notin Ignored

Go(where) == pc' = where

-----------------------------------------------------------------------------
(* main() up to the loop.  The directories are watched before they are     *)
(* read.                                                                   *)

Init ==
    /\ dir \in [Name -> {0, NULL}]
    /\ pending = <<>> /\ m_events = <<>>
    /\ g_ut = [n \in Name |-> NULL]
    /\ m_maps = [f \in Fd |-> NULL]
    /\ m_pPoll = <<>>
    /\ ready = [f \in Fd |-> <<>>]
    /\ tevents = <<>>
    /\ pc = "readdir" /\ i = 1
    /\ cur = NULL /\ back = "readdir"
    /\ toread = Name
    /\ g_fFinish = FALSE
    /\ env = 0

(* Faulty variant: a failed inotify_init is not noticed.                   *)
NewTableUnchecked(n) ==
    /\ g_ut' = [g_ut EXCEPT ![n] =
                    [fd |-> IF Open = Fd THEN 0
                            ELSE CHOOSE f \in Fd \ Open : \A g \in Fd \ Open : f <= g,
                     tab |-> NULL]]
    /\ cur' = n /\ back' = pc
    /\ Go("load")

(* new UserTable takes the lowest free descriptor for its Inotify and goes *)
(* into g_ut; Load comes next.                                             *)
NewTable(n) ==
    /\ Open # Fd
    /\ LET f == CHOOSE f \in Fd \ Open : \A g \in Fd \ Open : f <= g
       IN  g_ut' = [g_ut EXCEPT ![n] = [fd |-> f, tab |-> NULL]]
    /\ cur' = n /\ back' = pc
    /\ Go("load")

(* "inotify init failed": nobody catches it but main().  It may happen at  *)
(* any time, the limit on instances counts those of other processes too.   *)
NoDescriptor ==
    /\ Go("dead")
    /\ UNCHANGED <<g_ut, cur, back>>

ReadDir(n) ==
    /\ pc = "readdir" /\ n \in toread /\ dir[n] # NULL
    /\ toread' = toread \ {n}
    /\ IF Listed(n) THEN NewTable(n) \/ NoDescriptor ELSE UNCHANGED <<g_ut, cur, back, pc>>
    /\ UNCHANGED <<kernel, m_events, m_maps, m_pPoll, tevents, i, g_fFinish>>

(* readdir returns every file that is there all the time.                  *)
ReadDirDone ==
    /\ pc = "readdir"
    /\ \A n \in toread : dir[n] # 0
    /\ m_pPoll' = Rebuild(m_maps)
    /\ toread' = {}
    /\ Go("test")
    /\ UNCHANGED <<kernel, m_events, g_ut, m_maps, tevents, i, cur, back, g_fFinish>>

(* UserTable::Load of the table just created or disposed of.               *)
LoadTable ==
    /\ pc = "load"
    /\ g_ut' = [g_ut EXCEPT ![cur].tab = dir[cur]]
    /\ Register(cur)
    /\ Go(back)
    /\ UNCHANGED <<kernel, m_events, tevents, i, cur, back, toread, g_fFinish>>

(* UserTable::Dispose: events of the removed watches that are still in the *)
(* kernel, ahead of all others, will find no watch.                        *)
Dispose(n) ==
    /\ Unregister(n)
    /\ ready' = [ready EXCEPT ![g_ut[n].fd] = <<"stale">>]

-----------------------------------------------------------------------------
(* The loop and ProcessEvents.                                             *)

LoopTest ==
    /\ pc = "test"
    /\ Go(IF g_fFinish THEN "free" ELSE "poll")
    /\ UNCHANGED <<kernel, m_events, g_ut, m_maps, m_pPoll, tevents, i, cur, back,
                   toread, g_fFinish>>

(* Faulty variant: the loop of ProcessEvents starts one slot late.         *)
PollFromSecond ==
    /\ pc = "poll"
    /\ pending # <<>> \/ \E k \in DOMAIN m_pPoll : ready[m_pPoll[k].fd] # <<>>
    /\ m_pPoll' = [k \in DOMAIN m_pPoll |->
                        [m_pPoll[k] EXCEPT !.revents = ready[m_pPoll[k].fd] # <<>>]]
    /\ i' = 2
    /\ m_events' = pending /\ pending' = <<>>
    /\ Go(IF pending # <<>> THEN "mgmt" ELSE "events")
    /\ UNCHANGED <<dir, ready, env, g_ut, m_maps, tevents, cur, back, toread, g_fFinish>>

(* poll returns when something it listens to is ready.                     *)
Poll ==
    /\ pc = "poll"
    /\ pending # <<>> \/ \E k \in DOMAIN m_pPoll : ready[m_pPoll[k].fd] # <<>>
    /\ m_pPoll' = [k \in DOMAIN m_pPoll |->
                        [m_pPoll[k] EXCEPT !.revents = ready[m_pPoll[k].fd] # <<>>]]
    /\ i' = 1
    /\ m_events' = pending /\ pending' = <<>>
    /\ Go(IF pending # <<>> THEN "mgmt" ELSE "events")
    /\ UNCHANGED <<dir, ready, env, g_ut, m_maps, tevents, cur, back, toread, g_fFinish>>

Mgmt == pc = "mgmt" /\ m_events # <<>> /\ m_events' = Tail(m_events)
Changed == Head(m_events).name
(* Faulty variant: files renamed into the directory are not noticed.       *)
AppearsWritten == Head(m_events).type = "IN_CLOSE_WRITE"
Appears == Head(m_events).type \in {"IN_CLOSE_WRITE", "IN_MOVED_TO"}
Vanishes == Head(m_events).type \in {"IN_MOVED_FROM", "IN_DELETE"}

MgmtFinish ==
    /\ Mgmt
    /\ Head(m_events).type = "IN_DELETE_SELF"
    /\ g_fFinish' = TRUE
    /\ UNCHANGED <<kernel, g_ut, m_maps, m_pPoll, tevents, pc, i, cur, back, toread>>

MgmtReload ==
    /\ Mgmt
    /\ Changed \in Name /\ g_ut[Changed] # NULL /\ Appears
    /\ Dispose(Changed)
    /\ cur' = Changed /\ back' = pc
    /\ Go("load")
    /\ UNCHANGED <<dir, pending, env, g_ut, tevents, i, toread, g_fFinish>>

(* delete pUt closes the descriptor; its number is free again.             *)
MgmtDestroy ==
    /\ Mgmt
    /\ Changed \in Name /\ g_ut[Changed] # NULL /\ Vanishes
    /\ Unregister(Changed)
    /\ ready' = [ready EXCEPT ![g_ut[Changed].fd] = <<>>]
    /\ g_ut' = [g_ut EXCEPT ![Changed] = NULL]
    /\ UNCHANGED <<dir, pending, env, tevents, pc, i, cur, back, toread, g_fFinish>>

MgmtCreate ==
    /\ Mgmt
    /\ Changed \in Name /\ g_ut[Changed] = NULL /\ Appears /\ Noticed(Changed)
    /\ NewTable(Changed) \/ NoDescriptor
    /\ UNCHANGED <<kernel, m_maps, m_pPoll, tevents, i, toread, g_fFinish>>

MgmtIgnore ==
    /\ Mgmt
    /\ Changed \in Name
    /\ IF g_ut[Changed] # NULL THEN ~Appears /\ ~Vanishes
                               ELSE ~Appears \/ ~Noticed(Changed)
    /\ UNCHANGED <<kernel, g_ut, m_maps, m_pPoll, tevents, pc, i, cur, back, toread,
                   g_fFinish>>

MgmtDone ==
    /\ pc = "mgmt" /\ m_events = <<>>
    /\ Go("events")
    /\ UNCHANGED <<kernel, m_events, g_ut, m_maps, m_pPoll, tevents, i, cur, back,
                   toread, g_fFinish>>

(* The loop over the tables looks at the array as it is by now.            *)
NextSlot ==
    /\ pc = "events" /\ i <= Len(m_pPoll) /\ ~m_pPoll[i].revents
    /\ i' = i + 1
    /\ UNCHANGED <<kernel, m_events, g_ut, m_maps, m_pPoll, tevents, pc, cur, back,
                   toread, g_fFinish>>

Serve ==
    /\ pc = "events" /\ i <= Len(m_pPoll) /\ m_pPoll[i].revents
    /\ LET f == m_pPoll[i].fd
       IN  /\ tevents' = IF Head(ready[f]) = "stale" THEN Tail(ready[f]) ELSE ready[f]
           /\ ready' = [ready EXCEPT ![f] = <<>>]
           /\ cur' = m_maps[f]
    /\ Go("serve")
    /\ UNCHANGED <<dir, pending, env, m_events, g_ut, m_maps, m_pPoll, i, back,
                   toread, g_fFinish>>

RunCommand ==
    /\ pc = "serve" /\ tevents # <<>> /\ Head(tevents) = "command"
    /\ tevents' = Tail(tevents)
    /\ UNCHANGED <<kernel, m_events, g_ut, m_maps, m_pPoll, pc, i, cur, back, toread,
                   g_fFinish>>

(* A new directory: the table disposes of its watches and loads again.     *)
(* Afterwards the loop goes on with an iterator to an erased node, which   *)
(* the new one may or may not have replaced.                               *)
ReloadTable ==
    /\ pc = "serve" /\ tevents # <<>> /\ Head(tevents) = "directory"
    /\ tevents' = Tail(tevents)
    /\ Dispose(cur)
    /\ back' \in IF Tail(tevents) = <<>> THEN {"serve"} ELSE {"serve", "dead"}
    /\ Go("load")
    /\ UNCHANGED <<dir, pending, env, m_events, g_ut, i, cur, toread, g_fFinish>>

(* revents of the slot is reset, in the array as it is by now.             *)
Served ==
    /\ pc = "serve" /\ tevents = <<>>
    /\ m_pPoll' = [m_pPoll EXCEPT ![i].revents = FALSE]
    /\ i' = i + 1
    /\ Go("events")
    /\ UNCHANGED <<kernel, m_events, g_ut, m_maps, tevents, cur, back, toread, g_fFinish>>

EventsDone ==
    /\ pc = "events" /\ i > Len(m_pPoll)
    /\ Go("test")
    /\ UNCHANGED <<kernel, m_events, g_ut, m_maps, m_pPoll, tevents, i, cur, back,
                   toread, g_fFinish>>

(* free_tables: the dispatcher forgets the tables, then each is deleted.   *)
FreeTables ==
    /\ pc = "free"
    /\ m_maps' = [f \in Fd |-> NULL]
    /\ g_ut' = [n \in Name |-> NULL]
    /\ ready' = [f \in Fd |-> <<>>]
    /\ Go("end")
    /\ UNCHANGED <<dir, pending, env, m_events, m_pPoll, tevents, i, cur, back,
                   toread, g_fFinish>>

-----------------------------------------------------------------------------
(* Other processes.                                                        *)

Environment == env < MaxEnv /\ env' = env + 1
quiet == <<m_events, g_ut, m_maps, m_pPoll, tevents, pc, i, cur, back, toread, g_fFinish>>
Tell(n, type) == pending' = Append(pending, [name |-> n, type |-> type])

(* open(..., O_CREAT | O_TRUNC); the writer may take its time.             *)
OpenFile(n) ==
    /\ Environment
    /\ dir[n] # Partial
    /\ dir' = [dir EXCEPT ![n] = Partial]
    /\ IF dir[n] = NULL THEN Tell(n, "IN_CREATE") ELSE UNCHANGED pending
    /\ UNCHANGED <<ready, quiet>>

CloseFile(n) ==
    /\ Environment
    /\ dir[n] = Partial
    /\ dir' = [dir EXCEPT ![n] = env']
    /\ Tell(n, "IN_CLOSE_WRITE")
    /\ UNCHANGED <<ready, quiet>>

DeleteFile(n) ==
    /\ Environment
    /\ dir[n] # NULL
    /\ dir' = [dir EXCEPT ![n] = NULL]
    /\ Tell(n, "IN_DELETE")
    /\ UNCHANGED <<ready, quiet>>

MoveIn(n) ==
    /\ Environment
    /\ dir' = [dir EXCEPT ![n] = env']
    /\ Tell(n, "IN_MOVED_TO")
    /\ UNCHANGED <<ready, quiet>>

MoveOut(n) ==
    /\ Environment
    /\ dir[n] # NULL
    /\ dir' = [dir EXCEPT ![n] = NULL]
    /\ Tell(n, "IN_MOVED_FROM")
    /\ UNCHANGED <<ready, quiet>>

(* The last thing that happens to a table directory.                       *)
DestroyBase ==
    /\ env < MaxEnv /\ env' = MaxEnv
    /\ \A n \in System : dir[n] = NULL
    /\ Tell(NULL, "IN_DELETE_SELF")
    /\ UNCHANGED <<dir, ready, quiet>>

(* Something happens where a loaded table watches; equal events that       *)
(* follow each other are merged.                                           *)
TableEvent(n, kind) ==
    /\ Environment
    /\ g_ut[n] # NULL /\ g_ut[n].tab # NULL /\ m_maps[g_ut[n].fd] # NULL
    /\ LET f == g_ut[n].fd
       IN  /\ ready[f] # <<>> => ready[f][Len(ready[f])] # kind
           /\ ready' = [ready EXCEPT ![f] = Append(@, kind)]
    /\ UNCHANGED <<dir, pending, quiet>>

-----------------------------------------------------------------------------
MgmtNext ==
    \/ MgmtFinish \/ MgmtReload \/ MgmtDestroy \/ MgmtCreate \/ MgmtIgnore \/ MgmtDone

ServeNext == NextSlot \/ Serve \/ RunCommand \/ ReloadTable \/ Served \/ EventsDone

Daemon ==
    \/ \E n \in Name : ReadDir(n)
    \/ ReadDirDone \/ LoadTable \/ LoopTest \/ Poll
    \/ MgmtNext \/ ServeNext \/ FreeTables

Outside ==
    \/ \E n \in Name : OpenFile(n) \/ CloseFile(n) \/ DeleteFile(n) \/ MoveIn(n) \/ MoveOut(n)
    \/ DestroyBase
    \/ \E n \in Name, kind \in Kind \ {"stale"} : TableEvent(n, kind)

Next == Daemon \/ Outside

(* The daemon's one thread waits for nothing but poll.                     *)
Spec == Init /\ [][Next]_vars /\ WF_vars(Daemon)

-----------------------------------------------------------------------------
(* Properties.                                                             *)

TypeOK ==
    /\ dir \in [Name -> Content]
    /\ pending \in Seq(MgmtEvent) /\ m_events \in Seq(MgmtEvent)
    /\ g_ut \in [Name -> TableObj \cup {NULL}]
    /\ m_maps \in [Fd -> Name \cup {NULL}]
    /\ m_pPoll \in Seq([fd : Fd, revents : BOOLEAN])
    /\ ready \in [Fd -> Seq(Kind)] /\ tevents \in Seq(Kind)
    /\ pc \in {"readdir", "load", "test", "poll", "mgmt", "events", "serve", "free",
               "end", "dead"}
    /\ i \in 1..(MaxFd + 1)
    /\ cur \in Name \cup {NULL} /\ back \in {"readdir", "mgmt", "serve", "dead"}
    /\ toread \subseteq Name
    /\ g_fFinish \in BOOLEAN
    /\ env \in 0..MaxEnv

(* Between two loads the descriptors of the tables in g_ut, the keys of    *)
(* m_maps and the poll array are the same, each once: every table is       *)
(* listened to, nothing closed is, and no number that was used again leads *)
(* to the table that had it before.                                        *)
PollSetExact ==
    pc \in {"test", "poll", "mgmt", "events", "serve"} =>
        /\ \A n \in Name : g_ut[n] # NULL => m_maps[g_ut[n].fd] = n
        /\ Keys(m_maps) = Open
        /\ {m_pPoll[k].fd : k \in DOMAIN m_pPoll} = Open
        /\ Len(m_pPoll) = Cardinality(Open)

(* POLLIN in a slot that is still to be looked at was reported by poll for *)
(* the descriptor that is in the slot now: tables that came, went or were  *)
(* reloaded in between have not moved it to another one.                   *)
ReventsFresh ==
    pc \in {"mgmt", "events", "serve"} =>
        \A k \in DOMAIN m_pPoll :
            m_pPoll[k].revents /\ (pc = "serve" => k > i) /\ (pc = "events" => k >= i)
                => ready[m_pPoll[k].fd] # <<>>

(* While a table's events are handled, reloads included, the loop index    *)
(* still points to that table's slot.                                      *)
SlotServed ==
    pc = "serve" =>
        i \in DOMAIN m_pPoll /\ m_maps[m_pPoll[i].fd] = cur /\ g_ut[cur] # NULL

(* Whenever no management event about a file is still to be read, there is *)
(* a table of it if and only if the file is there, and it has the file's   *)
(* last version, unless the file is being written: whatever happened to    *)
(* the file while load_tables read the directories, while a reload was     *)
(* under way or while older events about it were handled.  Backup files    *)
(* are left out: see Listed and Noticed.                                   *)
Awaited(n) == \E k \in DOMAIN pending : pending[k].name = n
TablesFollowFiles ==
    pc \in {"test", "poll", "events", "serve"} =>
        \A n \in Name \ Backup : ~Awaited(n) =>
            IF dir[n] = NULL \/ ~Noticed(n) THEN g_ut[n] = NULL
            ELSE dir[n] # Partial => g_ut[n] # NULL /\ g_ut[n].tab = dir[n]

Over == pc \in {"dead", "end"}

(* When the table directories stay quiet, the tables loaded are those of   *)
(* the files there, in their last version, whatever happened while         *)
(* load_tables read the directories or a reload was under way.  Backup     *)
(* files are left out: see Listed and Noticed.                             *)
TablesConverge ==
    <>[](Over \/ \A n \in Name \ Backup :
            IF dir[n] = NULL \/ ~Noticed(n) THEN g_ut[n] = NULL
            ELSE dir[n] # Partial => g_ut[n] # NULL /\ g_ut[n].tab = dir[n])

(* No table's events wait forever, though a reload of one table makes the  *)
(* loop forget that poll reported the others.                              *)
EventsServed == \A f \in Fd : ready[f] # <<>> ~> ready[f] = <<>> \/ Over
=============================================================================
