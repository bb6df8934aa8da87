---------------------------- MODULE AppInstance ----------------------------
(***************************************************************************)
(* Class AppInstance (appinst.h/.cpp): the lock file that lets one incrond *)
(* run.  Every system call of Lock, Unlock and SendSignal is a step, so    *)
(* that processes which start, stop, crash and are told to stop at the     *)
(* same time interleave as they do on a machine.                           *)
(***************************************************************************)
EXTENDS Naturals, FiniteSets

CONSTANTS
    Proc,      \* process ids
    File,      \* inodes the lock file may have
    NULL,
    MaxTries,  \* attempts Lock makes (100 in the source)
    Stops,     \* may processes crash, exit and be terminated
    Serial     \* are starts one at a time once a process may have stopped

ASSUME NullAssumption == NULL \notin Proc /\ NULL \notin File
ASSUME TriesAssumption == MaxTries \in Nat \ {0}
ASSUME FlagAssumption == Stops \in BOOLEAN /\ Serial \in BOOLEAN

VARIABLES
    lock,     \* what m_path names: an inode, or NULL
    content,  \* per inode: the pid written in it, NULL while it is empty
    pc,       \* per process: where it is in Lock
    file,     \* per process: the inode it has open
    owner,    \* per process: the pid it has read
    tries,    \* per process: turns of Lock's loop
    term,     \* per process: SIGTERM is pending
    stopped   \* has there been a crash or an incrond -k (history)

vars == <<lock, content, pc, file, owner, tries, term, stopped>>

(* "create" .. "unlink" are inside Lock; "read pid" and "signal" belong to *)
(* incrond -k.  A process whose Lock throws ends ("threw" if the file was  *)
(* empty, "error" if a system call failed).                                *)
Starting == {"create", "write", "open", "read", "kill", "unlink"}
Killing  == {"read pid", "signal"}
Outside  == {"absent", "gone", "failed", "threw", "error"}
Alive(p) == pc[p] \notin Outside

Go(p, where) == pc' = [pc EXCEPT ![p] = where]

Init ==
    /\ lock = NULL
    /\ content = [f \in File |-> NULL]
    /\ pc = [p \in Proc |-> "absent"]
    /\ file = [p \in Proc |-> NULL]
    /\ owner = [p \in Proc |-> NULL]
    /\ tries = [p \in Proc |-> 0]
    /\ term = [p \in Proc |-> FALSE]
    /\ stopped = FALSE

(* With Serial there is at most one process in Lock from the first stop on. *)
NobodyStarts == \A p \in Proc : pc[p] \notin Starting
OneStarts == \A p, q \in Proc : pc[p] \in Starting /\ pc[q] \in Starting => p = q

(* main() reaches app.Lock(); a pid is used again only after a stop.       *)
Start(p) ==
    /\ ~Alive(p)
    /\ pc[p] = "absent" \/ Stops
    /\ Serial /\ stopped => NobodyStarts
    /\ Go(p, "create")
    /\ file' = [file EXCEPT ![p] = NULL]
    /\ owner' = [owner EXCEPT ![p] = NULL]
    /\ tries' = [tries EXCEPT ![p] = 0]
    /\ term' = [term EXCEPT ![p] = FALSE]
    /\ UNCHANGED <<lock, content, stopped>>

(* The inode of a new file: one that nobody has open.  Inodes are alike, so *)
(* which of them is of no importance.                                      *)
FreeFile == CHOOSE f \in File : \A q \in Proc : file[q] # f

(* Faulty variant: no O_EXCL.                                              *)
CreateAnyway(p, f) ==
    /\ pc[p] = "create"
    /\ f = FreeFile
    /\ lock' = f
    /\ content' = [content EXCEPT ![f] = NULL]
    /\ file' = [file EXCEPT ![p] = f]
    /\ Go(p, "write")
    /\ UNCHANGED <<owner, tries, term, stopped>>

(* DoLock: open with O_CREAT | O_EXCL makes an empty file ...              *)
Create(p, f) ==
    /\ pc[p] = "create" /\ lock = NULL
    /\ f = FreeFile
    /\ lock' = f
    /\ content' = [content EXCEPT ![f] = NULL]
    /\ file' = [file EXCEPT ![p] = f]
    /\ Go(p, "write")
    /\ UNCHANGED <<owner, tries, term, stopped>>

(* Faulty variant: DoLock does not return true.                            *)
WriteFallsThrough(p) ==
    /\ pc[p] = "write"
    /\ content' = [content EXCEPT ![file[p]] = p]
    /\ file' = [file EXCEPT ![p] = NULL]
    /\ Go(p, "open")
    /\ UNCHANGED <<lock, owner, tries, term, stopped>>

(* ... and the pid gets into it when fclose flushes the buffer, into the   *)
(* inode: whatever the name refers to by then.                             *)
Write(p) ==
    /\ pc[p] = "write"
    /\ content' = [content EXCEPT ![file[p]] = p]
    /\ file' = [file EXCEPT ![p] = NULL]
    /\ Go(p, "locked")
    /\ UNCHANGED <<lock, owner, tries, term, stopped>>

(* fdopen, fprintf or fclose fails, on a full disk for example: Lock       *)
(* throws, and the file stays behind, empty.  (If the close fails once the *)
(* pid is in the file, that is Write and Crash.)                           *)
WriteFails(p) ==
    /\ pc[p] = "write"
    /\ file' = [file EXCEPT ![p] = NULL]
    /\ Go(p, "error")
    /\ UNCHANGED <<lock, content, owner, tries, term, stopped>>

CreateExists(p) ==
    /\ pc[p] = "create" /\ lock # NULL
    /\ Go(p, "open")
    /\ UNCHANGED <<lock, content, file, owner, tries, term, stopped>>

Open(p) ==
    /\ pc[p] = "open" /\ lock # NULL
    /\ file' = [file EXCEPT ![p] = lock]
    /\ Go(p, "read")
    /\ UNCHANGED <<lock, content, owner, tries, term, stopped>>

(* The next turn of the loop; after the last one Lock returns false.       *)
Retry(p) ==
    /\ tries' = [tries EXCEPT ![p] = @ + 1]
    /\ Go(p, IF tries[p] + 1 < MaxTries THEN "create" ELSE "failed")

OpenMissing(p) ==
    /\ pc[p] = "open" /\ lock = NULL
    /\ Retry(p)
    /\ UNCHANGED <<lock, content, file, owner, term, stopped>>

(* fscanf finds nothing in an empty file and Lock throws.                  *)
ReadEmpty(p) ==
    /\ pc[p] = "read" /\ content[file[p]] = NULL
    /\ Go(p, "threw")
    /\ file' = [file EXCEPT ![p] = NULL]
    /\ UNCHANGED <<lock, content, owner, tries, term, stopped>>

(* Otherwise the pid is the owner's.                                       *)
ReadPid(p) ==
    /\ pc[p] = "read" /\ content[file[p]] # NULL
    /\ owner' = [owner EXCEPT ![p] = content[file[p]]]
    /\ file' = [file EXCEPT ![p] = NULL]
    /\ Go(p, "kill")
    /\ UNCHANGED <<lock, content, tries, term, stopped>>

(* Faulty variants: a living owner is waited for; every owner is dead.     *)
OwnerAliveRetried(p) ==
    /\ pc[p] = "kill" /\ Alive(owner[p])
    /\ Go(p, "create")
    /\ UNCHANGED <<lock, content, file, owner, tries, term, stopped>>
OwnerDeadAssumed(p) ==
    /\ pc[p] = "kill"
    /\ Go(p, "unlink")
    /\ UNCHANGED <<lock, content, file, owner, tries, term, stopped>>

(* kill(pid, 0): Lock returns false if there is such a process.            *)
OwnerAlive(p) ==
    /\ pc[p] = "kill" /\ Alive(owner[p])
    /\ Go(p, "failed")
    /\ UNCHANGED <<lock, content, file, owner, tries, term, stopped>>

OwnerDead(p) ==
    /\ pc[p] = "kill" /\ ~Alive(owner[p])
    /\ Go(p, "unlink")
    /\ UNCHANGED <<lock, content, file, owner, tries, term, stopped>>

(* unlink(m_path), whatever it names by now.                               *)
Unlink(p) ==
    /\ pc[p] = "unlink"
    /\ lock' = NULL
    /\ Retry(p)
    /\ UNCHANGED <<content, file, owner, term, stopped>>

(* Any call of Lock may fail for a reason it does not expect, open for     *)
(* another than EEXIST and ENOENT, kill for another than ESRCH, and throws.*)
CallFails(p) ==
    /\ pc[p] \in Starting \ {"write"}
    /\ file' = [file EXCEPT ![p] = NULL]
    /\ Go(p, "error")
    /\ UNCHANGED <<lock, content, owner, tries, term, stopped>>

(* The daemon leaves its main loop on SIGTERM; ~AppInstance unlinks, and   *)
(* takes no notice of an error.                                            *)
Unlock(p) ==
    /\ pc[p] = "locked" /\ term[p]
    /\ lock' \in {NULL, lock}
    /\ Go(p, "exiting")
    /\ UNCHANGED <<content, file, owner, tries, term, stopped>>

Exit(p) ==
    /\ pc[p] = "exiting"
    /\ Go(p, "gone")
    /\ UNCHANGED <<lock, content, file, owner, tries, term, stopped>>

(* SIGKILL, or power: open files are closed and nothing else happens.      *)
Crash(p) ==
    /\ Stops /\ (Serial => OneStarts)
    /\ stopped' = TRUE
    /\ Alive(p)
    /\ Go(p, "gone")
    /\ file' = [file EXCEPT ![p] = NULL]
    /\ UNCHANGED <<lock, content, owner, tries, term>>

-----------------------------------------------------------------------------
(* incrond -k: SendSignal(SIGTERM) to the pid in the file.                 *)

KillOpen(p) ==
    /\ Stops /\ (Serial => OneStarts)
    /\ stopped' = TRUE
    /\ pc[p] = "absent" /\ lock # NULL
    /\ file' = [file EXCEPT ![p] = lock]
    /\ Go(p, "read pid")
    /\ UNCHANGED <<lock, content, owner, tries, term>>

KillRead(p) ==
    /\ pc[p] = "read pid"
    /\ owner' = [owner EXCEPT ![p] = content[file[p]]]
    /\ file' = [file EXCEPT ![p] = NULL]
    /\ Go(p, IF content[file[p]] \in {NULL, p} THEN "failed" ELSE "signal")
    /\ UNCHANGED <<lock, content, tries, term, stopped>>

KillSend(p) ==
    /\ pc[p] = "signal"
    /\ term' = IF Alive(owner[p]) THEN [term EXCEPT ![owner[p]] = TRUE] ELSE term
    /\ Go(p, "gone")
    /\ UNCHANGED <<lock, content, file, owner, tries, stopped>>

(* The pid cannot be read, and SendSignal returns false; or kill fails for *)
(* another reason than ESRCH, and it throws.                               *)
KillFails(p) ==
    /\ pc[p] \in Killing
    /\ file' = [file EXCEPT ![p] = NULL]
    /\ Go(p, IF pc[p] = "signal" THEN "error" ELSE "failed")
    /\ UNCHANGED <<lock, content, owner, tries, term, stopped>>

-----------------------------------------------------------------------------
LockNext(p) ==
    \/ \E f \in File : Create(p, f)
    \/ Write(p) \/ WriteFails(p) \/ CallFails(p)
    \/ CreateExists(p) \/ Open(p) \/ OpenMissing(p)
    \/ ReadEmpty(p) \/ ReadPid(p)
    \/ OwnerAlive(p) \/ OwnerDead(p) \/ Unlink(p)

Next ==
    \E p \in Proc :
        \/ Start(p) \/ LockNext(p)
        \/ Unlock(p) \/ Exit(p) \/ Crash(p)
        \/ KillOpen(p) \/ KillRead(p) \/ KillSend(p) \/ KillFails(p)

Spec == Init /\ [][Next]_vars

FairSpec ==
    /\ Spec
    /\ \A p \in Proc : WF_vars(LockNext(p)) /\ WF_vars(Unlock(p) \/ Exit(p))

-----------------------------------------------------------------------------
TypeOK ==
    /\ lock \in File \cup {NULL}
    /\ content \in [File -> Proc \cup {NULL}]
    /\ pc \in [Proc -> Starting \cup Killing \cup Outside \cup {"locked", "exiting"}]
    /\ file \in [Proc -> File \cup {NULL}]
    /\ owner \in [Proc -> Proc \cup {NULL}]
    /\ tries \in [Proc -> 0..MaxTries]
    /\ term \in [Proc -> BOOLEAN]
    /\ stopped \in BOOLEAN
    /\ \A p \in Proc : pc[p] \in {"write", "read", "read pid"} => file[p] # NULL
    /\ \A p \in Proc : pc[p] \in {"kill", "signal"} => owner[p] # NULL
    /\ \A p \in Proc : pc[p] \in Starting => tries[p] < MaxTries

(* At most one process has the lock and runs the daemon (appinst.h:60,     *)
(* "require to be running only once (one instance only)").                 *)
OneInstance ==
    \A p, q \in Proc : pc[p] = "locked" /\ pc[q] = "locked" => p = q

(* Everybody who starts gets a verdict, however often the file comes and   *)
(* goes.                                                                   *)
EveryStartDecided ==
    \A p \in Proc : pc[p] = "create" ~> pc[p] \notin Starting

(* The lock file is empty, and nobody is going to write his pid into it.   *)
Abandoned ==
    /\ lock # NULL /\ content[lock] = NULL
    /\ \A p \in Proc : pc[p] = "write" => file[p] # lock

(* As long as nobody stops, a start that meets no error of its own leads   *)
(* to a daemon that runs, this one or another, whatever errors the others  *)
(* meet; unless one of them made the file and failed to write its pid: no  *)
(* start gets past that file any more (appinst.cpp:69-76, 101-111).        *)
SomebodyRuns ==
    \A p \in Proc : pc[p] = "create" ~>
        \/ stopped \/ pc[p] = "error" \/ Abandoned
        \/ \E q \in Proc : pc[q] = "locked"

(* What the daemons see of all this: InstanceLock, where one process runs  *)
(* at a time and the next one only after it stopped.                       *)
Abstract == INSTANCE InstanceLock WITH running <- {p \in Proc : pc[p] = "locked"}
ImplementsLock == Abstract!Spec
=============================================================================
