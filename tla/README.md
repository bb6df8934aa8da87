# TLA+ specifications of incron

incron watches directories with Linux' inotify and runs commands when something
happens there.  This directory holds TLA+ modules that model its concurrent
parts, TLC configurations that check them on small instances, and TLAPS proofs
of the properties that matter most.  Line numbers refer to the C++ sources.

## 1. The system

| Component | Source | State | Operations |
|---|---|---|---|
| Inotify wrapper | `inotify-cxx.*` | `m_watches` (descriptor to watch), `m_paths` (path to watch), the watches on the heap, the read buffer, `m_events` | Add, Remove, RemoveAll, Close, WaitForEvents, GetEvent |
| User table | `usertable.*` | `m_tab` (entries), `m_map` (watch to entry), its own Inotify | Load, Dispose, OnEvent, FindEntry, MayAccess, RunAsUser |
| Event dispatcher, table set | `usertable.cpp`, `icd-main.cpp` | `g_ut`, `m_maps` (descriptor to table), the poll array | Register, Unregister, Rebuild, ProcessEvents, ProcessMgmtEvents, load_tables, free_tables |
| Daemon | `icd-main.cpp` | `g_fFinish`, the notification pipe, its children | main loop, on_signal, fork, exit |
| Instance lock | `appinst.*` | the lock file and the pid in it | Lock, Unlock, SendSignal |
| Incron tables | `incrontab.*` | list of entries | Parse, Load, Save, CheckUser |
| incrontab | `ict-main.cpp` | table file, temporary file | edit, replace, remove, list, reload |
| Configuration | `incroncfg.*` | `m_values` over `m_defaults` | Init, Load, GetValue, BuildPath |
| Options | `appargs.*` | options, values | AddOption, Parse, ExistsOption, GetOption, GetValue |
| Start | `icd-main.cpp`, `ict-main.cpp` | | main() of both programs up to the loop or the operation |
| Pure helpers | `strtok.*`, `executor.h` | | tokenizer, directory expansion |

How they interact.  `incrond` takes the lock, opens one inotify instance on the
two table directories, loads a UserTable for every file there and enters a loop
around `poll`.  Each table has an inotify instance of its own, which the
dispatcher finds by descriptor.  The loop handles, in this order, the pipe that
`on_signal` writes to, the management events (a table file was written, moved
or deleted) and the events of each table.  An event makes its table fork a
command; an event for a new directory makes it throw away all its watches and
load again.  All this is one thread.  What runs at the same time is everything
else: processes that create and delete the directories, the kernel's queues,
`incrontab` writing table files, the forked children, signals, other `incrond`s.

What is hard here:

* The kernel, the Inotify object and the table each keep their own record of a
  watch, and learn of each other's changes late.
* Calls fail half-way: a second name for a watched inode, a watch the kernel
  has dropped, a limit.
* Tables are reloaded from inside the loops that iterate over them and over
  their events; pointers, iterators, indexes and descriptors may be stale.
* Files and directories change between two looks at them (find and the watch,
  readdir and Load, the test of a pid and the unlink).
* Signals coincide, get lost in front of `poll`, or come before their handlers.

What makes each part correct:

* Inotify wrapper: its two indexes and the heap agree after every call, failed
  ones included; a watch it still believes in is one the kernel has, or news of
  its end are on the way; a refused Add changes nothing.
* User table: watches, map and entries agree when loaded; an event starts the
  command of the entry it was selected by, for its path; nothing that was read
  is left lying; the last contents of the table file are loaded in the end.
* Dispatcher: the poll array lists exactly the tables there are; what is read
  from a slot was reported for it; no table starves.
* Daemon: one process in the loop, no zombies, an end when one is asked for.
* Lock: one instance; every start gets a verdict.
* Tables: what was saved is what is loaded; quoting protects a command.
* incrontab: what it returns is true of the table, and the daemon runs the table
  that is there.
* Start: the settings are those its file says; the user's permission is what the
  permission files said; an operation is done only when it was asked for, and
  `incrond -k` finds the daemon that was started like it.

## 2. Modules

| Module | Models | Extends |
|---|---|---|
| `Inotify` | class Inotify over one kernel instance, the file system below | |
| `UserTable` | one UserTable, its Load/Dispose/OnEvent step by step | `Inotify` |
| `Dispatcher` | EventDispatcher, `g_ut`, load_tables, the main loop | |
| `Daemon` | main loop, signal handlers, pipe and children as processes | |
| `TableSyntax` | the text of tables: tokenizer, entries, masks, wildcards of commands | |
| `Incrontab` | processes of incrontab on one table, and the daemon that reads it | `TableSyntax` |
| `InstanceLock` | abstract: one holder at a time | |
| `AppInstance` | the lock file, one system call per step | instantiates `InstanceLock` |
| `Options` | class AppArgs: a vector of arguments, sorted | |
| `Settings` | class IncronCfg, and how permission files are read | |
| `Startup` | both main() and CheckUser, with files that change between opens | instantiates `Options`, `Settings` |
| `Inotify_proofs`, `UserTable_proofs`, `AppInstance_proofs`, `Dispatcher_proofs`, `Daemon_proofs`, `Incrontab_proofs`, `Startup_proofs` | theorems and proofs about the module each is named after | that module; `UserTable_proofs` also `Inotify_proofs` |
| `Induction` | lemmas: induction and recursion over positions, `FlattenSeq`, folds | |
| `MC*` | instances for TLC | |

Composition.  `UserTable` uses the actions of `Inotify` as its calls: `AddEntry`
is `AddOk` with a new slot in `m_map`, `DisposeWatch` is `Remove`, `Parse` is
`ParseEvent`, and so on, so the kernel side is the same in both.  `Dispatcher`
takes one step for a table's Load and one for its Dispose, whose insides are
`UserTable`, and one per event.  `Daemon` takes the tables as one queue of
events, because what matters there is which process reads them.  `AppInstance`
implements `InstanceLock` under the refinement `running <- {p : pc[p] = "locked"}`.
`Startup` takes the lock as one step (which is what `ImplementsLock` says of it),
and ends where `Daemon` and `Incrontab` begin.

### Inotify

`kernel` (watches, queue, next descriptor, overflow) and `fs` (what each path
resolves to) are external; `Enqueue`, `Drop`, `Deliver`, `Die` and `AddWatch`
follow inotify(7): equal neighbours are merged, a full queue takes one overflow
mark, a one-shot watch goes with its event, one watch per inode.  The object's
variables have the names of its members.  `watch` is the heap: addresses are
used again as soon as a watch is freed, so a pointer kept too long meets either
nothing or another watch.  `AddCollides` and `AddRecovers` are the two system
calls of an Add whose inode is watched under another name; other processes run
between them.  A write lock (`IN_WRITE_BEGIN`) is not modelled: the program is
not thread-safe by build and has one thread.  `Remove` is followed by the
deletion of the watch, as in all callers; an Add that throws likewise.

### UserTable

`pc` is the place in the code: *load, scan, add* (Load), *poll, drain* (the
dispatcher's loop for this table), *resume* (OnEvent after the reload),
*dispose*, *gone* (no table), *dead* (an exception nobody catches, or a
dereferenced iterator).  `m_map` holds slots of `m_tab` in place of pointers.
`DanglingCmd` and `DanglingPath` are what `pE` and `pW` may show after OnEvent's
reload freed them: an `std::deque` keeps its first node when cleared, so a slot
there shows the new entry, and an address on the heap shows the watch that
lives there by then, the old bytes, or garbage.  The same holds for the iterator
`it` of ProcessEvents (`itOk`, `IteratorDangles`).  `find` and wildcards are
external: `Expansion` is what the shell lists at the time it runs, in any order.
`SubDirs` is what Load makes of it: the output of a find is trimmed as a whole,
so the last name loses blanks, quotes and hyphens at its end (`Short`), and may
then be that of another directory, or of none.
`user` is what the system says of the table's user, who may be denied or deleted
at any time: `CheckUser` is asked when a table appears, never when it is loaded
again, and `MayAccess` reads the result of getpwnam before it tests it, which
ends the daemon (`AddEntryFaults`, `OnEventFaults`) for a path that not everybody
may read.  Permissions belong to the inode (`Rights`); the groups of the user may
change, too (`Role`).  `missed` is a
history variable: the directories that were listed or told of when the table could
not watch them (a refused Add, an access denied, a name cut by the trimming, the
time between find and the watch on the parent), so that `DirectoriesCovered` and
`DirectoriesAnnounced` speak of all others.  `MayTellOf` is what relates the path of a
watch to the directories in it: it may be a link to their parent.

### Dispatcher

`dir` are the table files with their contents as versions, `pending` their
events, `ready` the tables' event queues.  `NewTable` takes the lowest free
descriptor.  A reload during *serve* changes `m_maps` and `m_pPoll` under the
loop.  The pipe and management slots of the array are fixed and left out.

### Daemon

*call* is on the way into `poll`, *wait* inside it, *pipe*, *read*, *handle* are
ProcessEvents.  A forked child gets copies of `m_events` and `g_fFinish` and
shares the queue and the pipe.  A handler runs between any two steps of its
process and wakes `poll` (EINTR).  The one for SIGCHLD has two steps: it waits for
its zombies and empties the pipe (`HandleChld`), then writes a byte (`WriteByte`);
`writing` are the processes between the two, which do nothing else but take note
of a SIGTERM.  A copy of the daemon shares the pipe, so that several may empty it
before several write: it holds at most one byte per copy.  Every `poll` may fail: EAGAIN is tried again,
for anything else the loop is left (`PollFails`), which `Breaks` allows to some
processes only.

### AppInstance

Each process has a program counter in `Lock`; `lock` is what the path names and
`content` what is in each inode, so that a file which is unlinked while another
process has it open behaves as it does.  A pid is used again after a stop.
Every system call may fail: Lock then throws and the process ends (`CallFails`,
and `WriteFails` for fdopen, fprintf and fclose, after which the file stays behind,
empty); SendSignal returns false or throws (`KillFails`); the unlink of ~AppInstance
may fail too, and nobody hears of it (`Unlock`).  No start gets past an empty file
that nobody is writing to (`Abandoned`): `SomebodyRuns` names this as the one way
in which the error of one start keeps all later ones from running.
`stopped` is a history variable; with `Serial` processes start one at a time once
one has stopped, which is the case the lock file is good for (`lock_race` shows
the other one).

### TableSyntax

Operators only.  A text is a sequence of letters (`Letter`), and a letter is a
character that something in the code looks at (blank, tab, newline, backslash,
hash, comma, dollar), a whole symbol or number of the mask field, which nothing
looks into, or anything else.  A number stands for a mask (`Number`); no symbol is
one, because `sscanf` wants a digit first (`SymbolAssumption`).
The loops are recursive functions with the position as argument.  `Ends` keeps
what the loop over delimiters does to the prefix flag: it is flipped once per
delimiter, so an escape never holds with two of them.  `Storable` names the
entries that cannot survive a round trip: paths that begin with `#` (behind blanks
in the original), no mask and no option, lines as long as the buffer of fgets,
and masks that `DumpTypes` gets wrong (section 5).

### Incrontab

What the users ask for, and the table before, is a scenario chosen in `Init`.  A
process goes through copy_from_file, edit_table, remove_table or reload_table by
system call: `OpenTable` truncates, `WriteTable` is the flush at fclose, which may
be cut short, `CloseTable` tells the daemon.  `content` is per inode, so a writer
whose table was removed goes on writing to a file without a name.  A kill may
happen at any step.  `Chown` may fail for any reason: the import then returns an
error although the table is there, which `VerdictTrue` says.  Reads of the table by `MakeTemp` and `HandleEvent` are
atomic: tables are smaller than the buffers of stdio.  `HandleEvent` is the user
part of ProcessMgmtEvents for a user that may have a table.

### Options, Settings, Startup

`Options` and `Settings` are operators.  An argument is a record, for the code
looks at nothing but its hyphens and its equals sign: `Parse` is a fold whose
state holds the short option that waits for a value.  A line of the configuration
is a sequence of letters again (blank, tab, hash, equals sign, slash, or a word):
`LinesRead` cuts what is too long and stops there, as `getline` does, `Insert`
keeps the first assignment.  `Pieces` is what `fgets` makes of a line of a
permission file.

`Startup` is the control around them.  The processes, their command lines and
the files are a scenario chosen in `Init`; each `fopen` is a step of its own,
between which `Change` writes, removes or protects a file.  *load* and *default*
are the two attempts of IncronCfg::Load, *allow* and *deny* those of CheckUser,
*call* is the operation of incrontab (recorded in `did`), *serve*, *lock* and *run*
are incrond.  Three history variables serve the properties: `policy` (all that the
permission files have said since the check of a process began), `touched` (the
files that were changed since then), `edited` (has any file changed since a
process started).  incrontab tells a user other than root that his `-f` is not
used, and loads the file nevertheless: `ConfigurationAsWritten` is about those who
may choose (`MayConfigure`), and `startup_config` shows the others.  `Kill` ends the
daemon at once, for a SIGTERM that gets lost in front of `poll` is `Daemon`'s
subject; a user who may not signal the daemon (`MaySignal`) gets an exception that
ends his process.  `Lock` may fail though no other daemon runs, as `AppInstance`
says.

## 3. Runs

| Run | Configuration | Question |
|---|---|---|
| `inotify` | `MCInotify` | Do the indexes, the heap and the kernel stay consistent? |
| `table` | `MCUserTable` | The same for a table through loads, events, reloads and changes; is the file's last contents loaded whenever no change of it is unread; is each directory to cover watched, or announced in the queue; do table, watches and directories converge when the outside is quiet? |
| `dispatch` | `MCDispatcher` | Poll array, table set and table files: has each file no event is under way about its table? |
| `daemon` | `MCDaemon` | Loop, signals, children: has each child that ended somebody still to wait for it? |
| `lock` | `MCAppInstance` | Simultaneous starts; after a stop (crash, `-k`) one at a time, pids used again, system calls that fail |
| `incrontab` | `MCIncrontab` | Round trip of tables; verdicts of incrontab and what the daemon has |
| `startup` | `MCStartup` | Command lines, configuration files, permission files that change under the check, `-k` |
| `table_event` | `MCUserTableEvent` | violated: an event outlives its watch over a reload |
| `table_survive` | `MCUserTableSurvive` | violated: a dropped watch makes Dispose throw and ends the daemon |
| `daemon_clone` | `MCDaemonClone` | violated: a successful system command leaves a second daemon |
| `lock_race` | `MCAppInstanceRace` | violated: two starts over a stale lock file both succeed |
| `startup_config` | `MCStartupConfig` | violated: the configuration file of a user who may not choose one is in force |

Each violated property quotes what a comment or manual page says of the program.

Bounds, and why they are enough:

* `Inotify`: two paths, two inodes, two watches: a collision needs two paths and
  one inode, a moved path a second inode.  Three descriptors: a watch, its
  successor on a new inode, and one more made by the recovery.  `MaxQueue` 2
  overflows, `BufLen` 1 leaves events in the kernel between two reads.
* `UserTable`: a directory and two below it, one of which has the name of the
  other and a hyphen; a link to it, a wildcard over it;
  tables of two entries, which recursion extends.  Three steps of other
  processes suffice for: create, write or delete a directory, change the table or
  its user, in any order.  With a queue of 3 and a buffer of 2 a read may leave
  events behind; descriptors do not run out.  The two runs that look for a
  violation have `MaxEnv` 4, a smaller tree and system tables.  Two inodes, one
  for everybody and one for a group the user may leave; so there are never two
  directories below the first, and the name that is cut is the only one.
* `Dispatcher`: three tables, one a backup file, and descriptors for two, so
  that numbers are used again and run out.  Three outside steps: a file may be
  written (open, close) and deleted, or two tables have events while a third
  changes.
* `Daemon`: two children, so that two end at once; a queue of 2, so that a child
  inherits an event that was read with its own.
* `Daemon`: `Breaks` lets the poll of the daemon itself fail for good.
* `AppInstance`: three processes, `MaxTries` 2 in place of 100: each turn is
  alike, and the bound is reached.
* `Incrontab`: two processes, one of which writes, and a table that is there or
  not; three inodes, so that a removed file may still be open.  `MaxTime` 1: an
  edit in the same second or not.  `LineMax` 14 in place of 1000 lets some of the
  lines be cut.  Imported lines are all combinations of 21 paths (every word of
  length up to 2 over a letter, `#`, blank and backslash), two delimiters, nine
  mask fields and six commands.
* `Startup`: two processes and three changes of files, so that both permission
  files may change under one check and one of them change back.  Command lines are
  all sequences of up to three of thirteen arguments, by root and by another user;
  configuration files all those of up to two of forty-one lines; permission files
  have four contents or are missing or unreadable.  A user other than root calls
  incrontab with a file of his, and `incrond -k`.  `LineSize` 10 and `UserSize` 6,
  in place of 1023 and 100, cut some of the lines.

Only `inotify`, `table_event` and `table_survive` use symmetry (heap addresses,
inodes and, in the first, paths); no run with a liveness property does.

Fairness.  The daemon is one thread that blocks only in `poll`, so weak fairness
of its step as a whole is what the scheduler gives; there is none on other
processes, commands or the directories.  In `Daemon` each process runs, a pending
signal is delivered, and a handler that began goes on (of SIGTERM this is said of
the daemon itself, for nobody else is sent one).  In `AppInstance` each process goes on with Lock.
`FinishHonoured` assumes in its own statement that events keep coming, because
the code does not guarantee the wake-up otherwise, and is said of user tables,
because with system tables copies of the daemon may read the events first.

Five of the liveness properties have a safety half beside them, which says what
must still be under way while the goal is not reached: `FileLoaded` for
`TableConverges`, `StaleWatchNotified` for `WatchesConverge`, `DirectoriesAnnounced`
for `DirectoriesCovered`, `TablesFollowFiles` for `TablesConverge`,
`ZombiesAnnounced` for `ZombiesReaped`.  What fairness adds to these is only that what is under way
gets done.

Every property of a passing run has a faulty variant of some definition, beside
the definition it varies, under which the run finds it violated.

## 4. Proofs

Every theorem holds for all values of the constants that satisfy the named
ASSUMEs of its module (TLC evaluates those on every run) and for every
interleaving.  Each proof module has the same plan: an inductive invariant, a
lemma that `Init` establishes it, one that `[Next]_vars` preserves it with a step
per action, and the theorems.

The assumptions say what the code gives and no more: bounds are positive numbers,
NULL is none of the things it stands beside, no process causes an IN_IGNORED
(`TypeAssumption`: the kernel makes it), what a link leads to is no link itself
(`TreeAssumption`), the letters and symbols that the code
names are letters (`LetterAssumption`), a number's mask is a set of bits
(`NumberAssumption`), a scenario asks for texts and command lines that can be typed
(`ScenarioAssumption`, in `Incrontab` and in `Startup`), files hold sequences of
lines (`ContentAssumption`), and there is always an inode that nobody has open
(`FileAssumption`).  `MeantAssumption` is the format of incron.conf.5: what the
author of a line meant is an option and a value that the line shows as such
(`Assigns`), or nothing (`AssignsNothing`), and the line fits the buffer of
getline.  It mentions no operator of `Settings` but `IsComment`, and restricts only
the files `ConfigurationAsWritten` speaks of; processes may load any others.

What recursive functions compute.  `Induction` makes the library's theorem on
well-founded recursion usable without a predicate as parameter: induction is said
of the set of positions at which something holds (`UpwardInduction`,
`DownwardInduction`).  A recursive function of the model is a CHOOSE, and says
nothing before it is shown to exist: `UpwardRecursion` and `DownwardRecursion` give
a function whose value at a position depends on the positions before or after it
only, and one lemma per function of `TableSyntax` and `Settings` (such as
`StripRecursion`, `TokenRecursion`, `LinesRecursion`, `ExpandRecursion`) applies
them.  `FlattenPlaces` says where each piece of a
`FlattenSeq` begins in the whole, and `FoldExists` and `FoldSegments` do for the
folds of `Options` and `Settings` what these do for recursion.  `LeastIs` and
`GreatestIs` say of the library's `Min` and `Max` that they are the element they
are meant to be.

`Inotify_proofs`, for any paths, inodes, watches, masks and types:

* `IndexesAgree`, `TypeCorrect`: `[](TypeOK /\ MapsConsistent)`.  `MapsConsistent`
  is inductive together with `TypeOK`, none of its four parts is alone:
  `DescriptorIndex` (what `m_watches` holds is alive and carries that descriptor),
  `DescriptorIndexComplete` (the converse, without which `Disable` could leave a
  second entry behind), `PathIndex` (without which Remove could clear another
  watch's path), and that the watch under recovery is alive.
* `StalenessAnnounced`: `[]StaleWatchNotified`, preserved relative to the above
  (`StaleStep`); the lemmas before it say what the kernel may do between two states
  (`Extends`: it may lose events and say so, but takes none back, and announces
  every watch it drops) and are proved of each kernel operator once.
* `RefusedAddCorrect`: `RefusedAddRestores`, an action property.  It needs
  `KernelInv`, that the kernel has one watch per inode and new descriptors are new,
  and that between the two system calls of a colliding Add the older watch stays
  in place (`OldInPlace`).

`UserTable_proofs` stands on these, for the actions of the table are calls of
Inotify (`Calls`): `TypeStep`, `MapsStep` and `StaleStep` are cited for that part of
each step.

* `TableTypeCorrect`, `MapCorrect`, `AttributionCorrect`, `NothingStrandedEver`:
  `TableTypeOK`, `MapOwnsWatches`, `EventsAttributed`, `NothingStranded`.
  The invariant `TabInv` adds, at each place of the code, where the index of Load is
  (`At`), that an interrupted Add is that of the entry at the index (`Restoring`),
  who owns the watches: `m_map` when the table is loaded, `todo` in the middle of
  Dispose, nobody in between (`Ownership`), that only a reload made for an event
  finds unread events (`Drained`), and that an event still in hand is about the
  entry it was read for unless a reload came between (`Attribution`).
* `FileLoadedEver`: `FileLoaded`, from `Newest`: the last of the unread changes of
  the file is a delete if and only if there is no file, and if none is unread the
  place of the code says what has become of the last one: Load is on its way, the
  file has been read (`FileRead`), or Dispose knows why.  `TableConverges` needs
  this for every change that is overtaken by the next, or comes during a reload.
* `TableStaleness`: `StaleWatchNotified`, which the run `inotify` checks, here of an
  Inotify that is reloaded, closed and made anew, over the file system of
  directories that a table sees.
* `DirectoriesFollowed`: `DirectoriesAnnounced`.  While Load looks for directories
  `Scanned` says of each one to cover that the find which lists it is still to come,
  or that it is an entry; from then on `Followed` says that the Add of it is to come,
  or that it is `Good`: it has a watch, or the event about it is in the kernel's
  queue, in the buffer or in `m_events`.  For an event to be of use nobody may have
  parsed the end of its watch before it, so the proof needs that the end of a watch
  is never announced before its descriptor is gone for good (`KernelOk`, `NumInv`),
  that a watch both sides know is on the inode its path leads to (`InPlace`), through
  AddCollides and AddRecovers too, and that links and directories stay a tree
  (`Tree`).  That an Add refused as "path already watched" has been made for an
  earlier entry is `Placed`.

`Dispatcher_proofs`, for any number of tables and descriptors:

* `TypeCorrect`, `PollSetCorrect`, `ReventsCorrect`, `IndexCorrect`: `TypeOK`,
  `PollSetExact`, `ReventsFresh`, `SlotServed`.  `DispatchInv` is the types, the
  agreement of `g_ut` and `m_maps` up to the one table that is being loaded or
  freed, the array as the keys of the map in their order, the index as the rank of
  the served descriptor among them, and what is still to be read of the directories.
  That the loop is still at the same table after a reload took its slot out and
  put it in again is an argument on ranks (`Rank` and its lemmas): the map iterates
  in the order of descriptors, and a table keeps its own.
* `TablesFollow`: `TablesFollowFiles`, from `FollowInv`: of each file either the last
  event that is still to be handled, in the kernel's queue or in `m_events`, says
  what the file is now, or there is none and the file is one that readdir has yet
  to show, one whose table is being loaded, or one whose table has its contents.
  `PhaseInv` keeps the reading of the directories apart from the loop.

`Daemon_proofs`: `TypeCorrect`, from `PipeInv`: the bytes in the pipe and the
handlers about to write one are together no more than the processes that share it,
which needs that there are finitely many (`ProcAssumption`); without system tables
that is the main process alone.  And `OneLoopForUserTables` (`UserTablesOneLoop`)
from `LoopInv`: without system tables only the main process is in the program's
code, and the lock file is there as long as it is.  `NoZombieForgotten`
(`ZombiesAnnounced`), from `ChildInv`: each child has no parent any more or one that
is alive, and one that ended has told it.  With copies of the daemon a parent
may itself be a child and end first, which takes the parent from its children.

`Incrontab_proofs`, for any number of incrontabs, any texts and any masks of
numbers:

* `TypeCorrect`: `TypeOK`, from `TypeInv`: the types, the place of each process in
  the code (`Phase`) and the kernel's queue (`Alternate`).  It rests on what the
  operators of `TableSyntax` return: what is loaded of any text is entries, what is
  saved of entries a text.
* `CommandsQuotable`: `DollarsQuotable`.  `QuotedPieces` says where each letter is
  in the quoted command, `QuotedTail` goes through `Expand` from its end.
* `SavedCorrect`: `SavedReadsBack`.  `KeptInv` says that each process has loaded
  entries that can come out of a file: a path without blanks, tabs and newlines, a
  command of one line.  It holds because a line of fgets has a newline at its end
  only, and a token ends at every blank (`EndsIs`: the flag is flipped twice, so
  that an escaped blank ends it too).  Of such an entry, if it is `Storable`, the
  parts of its line are found again where they were put (`Layout`, `TokenBefore`),
  stripping undoes the escaping (`StripSafe`), the field says what it was made from
  (`FieldReads`), and the file is cut where the lines were joined (`LinesOf`).
* `VerdictsTrue`: `VerdictTrue`, from `VerdictInv`, which says at each place what a
  process that nobody disturbs has made of the file (`Sound`) and what it is about
  to write (`Saves`).  A failure means that nothing has changed, or that the import
  is there and only its owner could not be set.  A step of another process either is no step at the table, or
  ends the condition that nobody disturbs (`OneSpeaks`).
* `DaemonFollowsTheFile`: `DaemonHasTheFile`, from `HearInv`: whenever the daemon
  has not what the file has, the queue is not empty, or a process still has the
  file open and its close will be announced, or the file is gone and the queue says
  so.

`AppInstance_proofs`, for any number of processes, files and tries:

* `TypeCorrect`: `TypeOK`, stops included; it is proved only, no run checks it.
* `OneInstanceRuns`, whatever calls fail: `Serial \/ ~Stops => (Spec => []OneInstance)`.
  `HoldInv` is about the one who holds the lock, from Create on, before its pid is in the file:
  there is one, the name refers to its file, and whoever judges the lock meanwhile
  has that file open or has read that pid, so that nobody comes to unlink it.  With
  stops that is inductive only if one process at a time is in Lock (`Orderly`);
  until the first stop it is because no file is ever removed (`NothingGone`).
* `LockImplemented`: `Serial \/ ~Stops => (Spec => ImplementsLock)`, the
  refinement: every step takes the lock, gives it back or is a stutter.

Without `Serial \/ ~Stops` both are false (`lock_race` is the counterexample).

`Startup_proofs`:

* `VerdictCorrect`: `[]VerdictWasPolicy`.  The verdict is what the permission
  files said at one moment of the check, if at most one of them was changed
  meanwhile and the two settings name different files.  Both hypotheses are
  needed: with both files changed CheckUser may combine an old absence of
  incron.allow with a new incron.deny that were never there together, and with one
  file for both it reads that file once as each.  `CheckInv` says what CheckUser
  has seen halfway (`Halfway`), and that the present policy is always recorded.
* `KillCorrect`: `KillFinds`, of daemons that the user of `-k` may signal.  `ConfInv`: while no file changes, what a process
  has loaded is a function of its command line and the files.
* `TypeCorrect`: `TypeOK`, from `FilesInv` and `CheckInv`: whatever lines a file
  has, what `Load` makes of them is trimmed options with trimmed values.
* `ConfigurationCorrect`: `ConfigurationAsWritten`, of processes that may choose
  their file, from `ConfInv` and `LoadMeans`,
  which is about any file whose lines are as `MeantAssumption` says.  `LinesReadWhole`:
  getline gives each line as it stands; `AssignmentKept`, `NothingKept`: what
  ParseLine takes from one is what it assigns, whatever blanks and equals signs
  stand around it; `LoadGrows` and `LineFollows`: the first assignment to an option
  stays, whatever the later lines say.
* `DoneAsAsked`: `AsAsked`.  `GrantInv` says at each place what `incrontab` has
  established about its arguments; the lemmas on `Parse` say, for command lines of
  any length, which options and values come out of it, by its states after each
  argument.
* `FormsAlike`: `FormsEquivalent`, by comparing these states for the two command
  lines argument by argument.

Some of these proofs changed the models: `TabInv` could not be preserved until
`AddEntryFaults` had the guard `recovering = NULL` of the loop it stands in,
`VerdictWasPolicy` was first stated without its hypothesis on the settings, which
the instances of TLC all satisfied, and `SavedReadsBack` needs that no symbol is a
number, which was nowhere said.

Every safety property of a passing run, invariant or action property, has its
theorem, and so has the refinement.  Only model-checked are the liveness properties
(`TableConverges`, `WatchesConverge`, `DirectoriesCovered`, `TablesConverge`,
`EventsServed`, `ZombiesReaped`, `FinishHonoured`, `EveryStartDecided`,
`SomebodyRuns`), for liveness under fairness is beyond the prover's backends, and
the violations, each of which is one counterexample.

## 5. Not modelled

* `SetMask`, `SetEnabled` and the process map: called under `LOOPER` only, which
  no build defines.
* `Exists`, `IsValid`, `Dump`, GetValue of numbers and truth values: no caller.
* Of a mode, which of the three bits of a class are set, for MayAccess takes any;
  IN_DONT_FOLLOW.
* `NoRecursion` and the other flags of the entries Load adds by itself: their
  constructor leaves them uninitialised, and nothing reads them.
* Wording of log messages, environment variables of commands.
* Errors of `fcntl` and `daemon`.
* `find`, the shell, the password database: external.
* `incrontab -l` and `-t`, which change nothing; a user that is deleted while
  incrontab runs, but for the failure of getpwnam in `Chown`.
* Build, packaging and documentation.  `jquery.js`, twice in the tree, is a
  third-party library for the generated HTML pages and no part of the programs.

Modelled, but excepted from a property by name, because the code does not do what
a document says of it and no run is spent on it:

* An entry with IN_MOVE_SELF and one of the IN_CLOSE_ events loses the latter when
  incrontab saves the table: the `else` at inotify-cxx.cpp:162 belongs to the wrong
  test, and inotify-cxx.h:353 says that DumpTypes "Fills the string with all types
  contained in an event mask value".  `MaskWritten` in `Storable` names these masks.
* Blanks in paths "now allowed (by prepending a backslash)" (CHANGELOG:132) are not:
  the tokenizer flips its flag twice at an escaped blank and ends the token there
  (`Ends`).  `SavedReadsBack` is about what was loaded, where the path is cut already.
* `incrontab -l file` is to be refused (ict-main.cpp:457, "operation and source file
  cannot be combined"), and lists: the short option takes the file as its value.
  `Taken` in `AsAsked` names these.

## 6. Plan

Done: every module of section 2, the runs of section 3, the proofs of section 4.
What is left:

* A tree with room for two directories below one in the run `table`, when a smaller
  set of tables makes up for its states.  `DirectoriesFollowed` is about any tree;
  what such a run would add is `DirectoriesCovered` on a larger one.
