----------------------------- MODULE Incrontab -----------------------------
(***************************************************************************)
(* Processes of incrontab (ict-main.cpp) that work on the table of one     *)
(* user at the same time, by system call, and the daemon that reads the    *)
(* table when the kernel tells it.  What the users ask for is a scenario   *)
(* that never changes.  `incrontab -l` changes nothing and is left out.    *)
(***************************************************************************)
EXTENDS TableSyntax

CONSTANTS
    Proc,
    File,      \* inodes
    Scenario,  \* what may be asked for: see Init
    MaxTime,   \* seconds that pass
    NULL

Op == {"replace", "edit", "remove", "reload", "none"}

ASSUME ScenarioAssumption ==
    \A s \in Scenario : /\ s.before = NULL \/ s.before \in Seq(Letter)
                        /\ s.cmd \in [Proc -> [op : Op, text : Seq(Letter)]]
ASSUME NullAssumption == NULL \notin File \cup Seq(Letter) \cup {"true", "false", "crashed"}
ASSUME TimeAssumption == MaxTime \in Nat

(* There is always an inode that nobody has open.                          *)
ASSUME FileAssumption ==
    \A open \in [Proc -> File \cup {NULL}] : \E f \in File : \A p \in Proc : open[p] # f

VARIABLES
    scenario,  \* before: the text of the table, or NULL; cmd: what each asks for
    table,     \* the inode of the table, NULL when there is none
    content,   \* per inode: its text
    pc,        \* per process: where it is; "done" after main has returned
    result,    \* per process: "true", "false" or "crashed" when it is done
    tab,       \* per process: the IncronTab it has loaded
    fd,        \* per process: the inode it has open for writing
    temp,      \* per process: its temporary file, NULL when there is none
    mtime,     \* per process: when that was written
    mt,        \* per process: the modification time it knows
    time,      \* in seconds: what st_mtime shows
    events,    \* of the table's name, not yet seen by the daemon
    loaded     \* the daemon's table, NULL when it has none

vars == <<scenario, table, content, pc, result, tab, fd, temp, mtime, mt, time, events, loaded>>
private == <<tab, temp, mtime, mt>>
shared == <<table, content, events>>
world == <<scenario, time, loaded>>

Cmd(p) == scenario.cmd[p]
Go(p, where) == pc' = [pc EXCEPT ![p] = where]
Return(p, value) == Go(p, "done") /\ result' = [result EXCEPT ![p] = value]

(* The kernel merges an event with an equal one before it.                 *)
Announce(type) ==
    events' = IF events # <<>> /\ Last(events) = type THEN events ELSE Append(events, type)

(* Before anybody does anything the daemon has loaded the table.           *)
Init ==
    /\ scenario \in Scenario
    /\ LET f == CHOOSE g \in File : TRUE IN
        /\ table = IF scenario.before = NULL THEN NULL ELSE f
        /\ content = [g \in File |-> IF g = table THEN scenario.before ELSE <<>>]
    /\ loaded = IF table = NULL THEN NULL ELSE Load(content[table])
    /\ pc = [p \in Proc |-> "start"]
    /\ result = [p \in Proc |-> NULL]
    /\ tab = [p \in Proc |-> <<>>]
    /\ fd = [p \in Proc |-> NULL]
    /\ temp = [p \in Proc |-> NULL]
    /\ mtime = [p \in Proc |-> 0]
    /\ mt = [p \in Proc |-> 0]
    /\ time = 0
    /\ events = <<>>

-----------------------------------------------------------------------------
(* copy_from_file and edit_table.                                          *)

(* The first thing that is tried does not work: the source of the import   *)
(* is not there, no temporary file can be made, the table not be touched.  *)
Refused(p) ==
    /\ pc[p] = "start" /\ Cmd(p).op # "none"
    /\ Return(p, "false")
    /\ UNCHANGED <<shared, world, private, fd>>

LoadSource(p) ==
    /\ pc[p] = "start" /\ Cmd(p).op = "replace"
    /\ tab' = [tab EXCEPT ![p] = Load(Cmd(p).text)]
    /\ Go(p, "open")
    /\ UNCHANGED <<shared, world, fd, result, temp, mtime, mt>>

(* The table, or nothing, is copied to a temporary file.                   *)
MakeTemp(p) ==
    /\ pc[p] = "start" /\ Cmd(p).op = "edit"
    /\ temp' = [temp EXCEPT ![p] = IF table = NULL THEN <<>> ELSE content[table]]
    /\ mtime' = [mtime EXCEPT ![p] = time]
    /\ mt' = [mt EXCEPT ![p] = time]
    /\ Go(p, "editor")
    /\ UNCHANGED <<shared, world, fd, result, tab>>

(* The user may save, and quit with or without having done so.             *)
EditorSaves(p) ==
    /\ pc[p] = "editor"
    /\ temp' = [temp EXCEPT ![p] = Cmd(p).text]
    /\ mtime' = [mtime EXCEPT ![p] = time]
    /\ UNCHANGED <<shared, world, pc, fd, result, tab, mt>>

EditorEnds(p) ==
    /\ pc[p] = "editor"
    /\ Go(p, "check")
    /\ UNCHANGED <<shared, world, private, fd, result>>

(* The editor fails, or has left nothing to look at or to read.            *)
EditFails(p) ==
    /\ pc[p] \in {"editor", "check"}
    /\ temp' = [temp EXCEPT ![p] = NULL]
    /\ Return(p, "false")
    /\ UNCHANGED <<shared, world, fd, tab, mtime, mt>>

(* "table unchanged", or it is loaded from the temporary file.             *)
CheckTime(p) ==
    /\ pc[p] = "check"
    /\ IF mtime[p] = mt[p]
       THEN /\ temp' = [temp EXCEPT ![p] = NULL]
            /\ Return(p, "true")
            /\ UNCHANGED tab
       ELSE /\ tab' = [tab EXCEPT ![p] = Load(temp[p])]
            /\ Go(p, "open")
            /\ UNCHANGED <<temp, result>>
    /\ UNCHANGED <<shared, world, fd, mtime, mt>>

-----------------------------------------------------------------------------
(* IncronTab::Save.                                                        *)

(* fopen(out, "w") truncates what is there ...                             *)
OpenTable(p) ==
    /\ pc[p] = "open"
    /\ LET f == IF table # NULL THEN table
                ELSE CHOOSE g \in File : \A q \in Proc : fd[q] # g
       IN  /\ table' = f
           /\ content' = [content EXCEPT ![f] = <<>>]
           /\ fd' = [fd EXCEPT ![p] = f]
    /\ Go(p, "write")
    /\ UNCHANGED <<world, private, events, result>>

(* Faulty variant: returns where it should go to the end.                  *)
OpenFailsReturns(p) ==
    /\ pc[p] = "open"
    /\ Return(p, "false")
    /\ UNCHANGED <<shared, world, private, fd>>

OpenFails(p) ==
    /\ pc[p] = "open"
    /\ temp' = [temp EXCEPT ![p] = NULL]
    /\ Return(p, "false")
    /\ UNCHANGED <<shared, world, fd, tab, mtime, mt>>

(* ... and fclose writes from the first byte on, over what others have     *)
(* written meanwhile.  A full disk cuts it short; nobody looks.            *)
WriteTable(p) ==
    /\ pc[p] = "write"
    /\ LET text == Save(tab[p])
           old == content[fd[p]]
       IN  \E n \in 0..Len(text) :
               content' = [content EXCEPT ![fd[p]] =
                              SubSeq(text, 1, n) \o SubSeq(old, n + 1, Len(old))]
    /\ Go(p, "close")
    /\ UNCHANGED <<world, private, table, events, fd, result>>

(* Then it closes the file, be it that of the table's name or not.         *)
CloseTable(p) ==
    /\ pc[p] = "close"
    /\ fd' = [fd EXCEPT ![p] = NULL]
    /\ Announce("IN_CLOSE_WRITE")
    /\ IF Cmd(p).op = "replace"
       THEN Go(p, "chown") /\ UNCHANGED <<result, temp>>
       ELSE Return(p, "true") /\ temp' = [temp EXCEPT ![p] = NULL]
    /\ UNCHANGED <<world, table, content, tab, mtime, mt>>

(* getpwnam or chown may fail, on a full quota for example, and chown does *)
(* if the name is gone.  The table that was imported stays.                *)
Chown(p) ==
    /\ pc[p] = "chown"
    /\ \E ok \in BOOLEAN :
        /\ ok => table # NULL
        /\ Return(p, IF ok THEN "true" ELSE "false")
    /\ UNCHANGED <<shared, world, private, fd>>

-----------------------------------------------------------------------------
(* remove_table and reload_table.                                          *)

RemoveTable(p) ==
    /\ pc[p] = "start" /\ Cmd(p).op = "remove"
    /\ table' = NULL
    /\ IF table = NULL THEN UNCHANGED events ELSE Announce("IN_DELETE")
    /\ Return(p, "true")
    /\ UNCHANGED <<world, private, content, fd>>

(* Faulty variant: opened for writing from the start, as Save does.        *)
ReloadTruncates(p) ==
    /\ pc[p] = "start" /\ Cmd(p).op = "reload"
    /\ IF table = NULL
       THEN Return(p, "true") /\ UNCHANGED <<fd, content>>
       ELSE /\ fd' = [fd EXCEPT ![p] = table]
            /\ content' = [content EXCEPT ![table] = <<>>]
            /\ Go(p, "close")
            /\ UNCHANGED result
    /\ UNCHANGED <<world, private, table, events>>

(* The table is opened for appending and closed (CloseTable).              *)
ReloadTable(p) ==
    /\ pc[p] = "start" /\ Cmd(p).op = "reload"
    /\ IF table = NULL
       THEN Return(p, "true") /\ UNCHANGED fd
       ELSE fd' = [fd EXCEPT ![p] = table] /\ Go(p, "close") /\ UNCHANGED result
    /\ UNCHANGED <<shared, world, private>>

-----------------------------------------------------------------------------
(* Outside.                                                                *)

(* A process is killed: the kernel closes its files, what was buffered is  *)
(* lost and the temporary file stays.                                      *)
Crash(p) ==
    /\ pc[p] \notin {"start", "done"}
    /\ Return(p, "crashed")
    /\ fd' = [fd EXCEPT ![p] = NULL]
    /\ IF fd[p] = NULL THEN UNCHANGED events ELSE Announce("IN_CLOSE_WRITE")
    /\ UNCHANGED <<world, private, table, content>>

Tick ==
    /\ time < MaxTime
    /\ \E p \in Proc : pc[p] = "editor"   \* nobody else looks at the time
    /\ time' = time + 1
    /\ UNCHANGED <<shared, private, scenario, loaded, pc, fd, result>>

(* Faulty variant: a table that is not known is not loaded.                *)
HandleEventKnown ==
    /\ events # <<>>
    /\ events' = Tail(events)
    /\ loaded' = IF Head(events) = "IN_DELETE" THEN NULL
                 ELSE IF table = NULL \/ loaded = NULL THEN loaded
                 ELSE Load(content[table])
    /\ UNCHANGED <<scenario, time, private, table, content, pc, fd, result>>

(* ProcessMgmtEvents: a table that was written is loaded, created if need  *)
(* be, whether the file is still there or not; one that was deleted goes.  *)
HandleEvent ==
    /\ events # <<>>
    /\ events' = Tail(events)
    /\ loaded' = IF Head(events) = "IN_DELETE" THEN NULL
                 ELSE IF table = NULL THEN <<>>
                 ELSE Load(content[table])
    /\ UNCHANGED <<scenario, time, private, table, content, pc, fd, result>>

-----------------------------------------------------------------------------
Next ==
    \/ \E p \in Proc :
        \/ Refused(p) \/ LoadSource(p) \/ MakeTemp(p) \/ EditorSaves(p) \/ EditorEnds(p) \/ EditFails(p)
        \/ CheckTime(p) \/ OpenTable(p) \/ OpenFails(p) \/ WriteTable(p) \/ CloseTable(p)
        \/ Chown(p) \/ RemoveTable(p) \/ ReloadTable(p) \/ Crash(p)
    \/ Tick \/ HandleEvent

Spec == Init /\ [][Next]_vars

-----------------------------------------------------------------------------
(* Properties.                                                             *)

TypeOK ==
    /\ scenario \in Scenario
    /\ table \in File \cup {NULL}
    /\ pc \in [Proc -> {"start", "editor", "check", "open", "write", "close", "chown", "done"}]
    /\ \A p \in Proc : result[p] = NULL <=> pc[p] # "done"
    /\ \A p \in Proc : fd[p] # NULL <=> pc[p] \in {"write", "close"}
    /\ \A p \in Proc : pc[p] \in {"editor", "check"} => temp[p] # NULL
    /\ \A p \in Proc : temp[p] # NULL => Cmd(p).op = "edit" /\ result[p] \notin {"true", "false"}
    /\ \A i \in DOMAIN events : events[i] \in {"IN_CLOSE_WRITE", "IN_DELETE"}
                                /\ (i > 1 => events[i] # events[i-1])
    /\ time \in 0..MaxTime
    /\ \A p \in Proc : mt[p] <= mtime[p] /\ mtime[p] <= time

(* What Save writes Load reads, entry for entry, but for those entries     *)
(* that cannot be stored (Storable): of what was loaded no escaping or     *)
(* option gets lost when a table is imported or edited (incrontab.h:52,    *)
(* "creates a string for use in a table file").  What the first Load       *)
(* makes of an escaped blank is another matter: see TableSyntax.           *)
SavedReadsBack ==
    \A p \in Proc : (\A i \in DOMAIN tab[p] : Storable(tab[p][i])) => ReadsBack(tab[p])

(* A command gets through unharmed if its dollars are doubled, whatever    *)
(* they stand in front of, and an event puts nothing but its data into it  *)
(* (incrontab.5, "$$ dollar sign").                                        *)
DollarsQuotable ==
    \A p \in Proc : \A i \in DOMAIN tab[p] :
        LET e == tab[p][i]
        IN  /\ \A n \in DOMAIN Number :
                  Expand(Quoted(e.cmd), e.path, <<"$", "@">>, DumpTypes(e.mask), <<n>>) = e.cmd
            /\ Expand(<<"$", "#">> \o Quoted(e.cmd), e.path, <<"$", "@">>, <<>>, <<>>)
                 = <<"$", "@">> \o e.cmd

(* With nothing under way the daemon runs the table that is in the file,   *)
(* whoever wrote, removed, touched or crashed over it, in whatever order.  *)
(* A file removed before its writer closed it leaves an empty table.       *)
DaemonHasTheFile ==
    events = <<>> /\ (\A p \in Proc : fd[p] = NULL)
        => IF table = NULL THEN loaded \in {NULL, <<>>} ELSE loaded = Load(content[table])

(* Nobody but p has come to write or remove the table.                     *)
Undisturbed(p) ==
    \A q \in Proc \ {p} :
        \/ pc[q] \in {"start", "editor", "check", "open"}
        \/ Cmd(q).op = "reload"
        \/ Cmd(q).op # "replace" /\ result[q] = "false"
        \/ Cmd(q).op = "edit" /\ result[q] = "true" /\ mtime[q] = mt[q]

Unchanged == /\ (table = NULL) = (scenario.before = NULL)
             /\ table # NULL => content[table] = scenario.before

(* What p is about is in the table, or a beginning of it.                  *)
Stored(p) == table # NULL /\ IsPrefix(content[table], Save(Load(Cmd(p).text)))

(* The verdict of a process is true of the table, whatever others have in  *)
(* their editors and however often they reload: not wanted, nothing has    *)
(* changed; failed, nothing has, unless an import is there whose owner     *)
(* could not be set; a save leaves what it read, or as much as the disk    *)
(* took, and nothing of the old text.  (An edit within the second in which *)
(* the copy was made counts as unwanted.)                                  *)
VerdictTrue ==
    \A p \in Proc : Undisturbed(p) =>
        CASE result[p] = "false" -> Unchanged \/ (Cmd(p).op = "replace" /\ Stored(p))
          [] result[p] = "true" ->
                CASE Cmd(p).op = "remove" -> table = NULL
                  [] Cmd(p).op = "reload" -> Unchanged
                  [] Cmd(p).op = "edit" /\ mtime[p] = mt[p] -> Unchanged
                  [] OTHER -> Stored(p)
          [] OTHER -> Unchanged \/ (Cmd(p).op \in {"replace", "edit"} /\ Stored(p))
=============================================================================
