------------------------------- MODULE Startup ------------------------------
(***************************************************************************)
(* main() of incrontab (ict-main.cpp) and of incrond (icd-main.cpp) up to  *)
(* the operation or the loop: options, configuration, the permission       *)
(* files, the lock.  Several processes run at a time, and the files are    *)
(* changed between any two of their opens; each is small enough to be read *)
(* at once.  The operation itself is Incrontab, the loop is Daemon, the    *)
(* lock (one holder per name) AppInstance.                                 *)
(***************************************************************************)
EXTENDS Naturals, Sequences, FiniteSets

CONSTANTS
    Proc,        \* processes
    Scenario,    \* who starts what, and the files there are
    Content,     \* contents each file may get: sequences of lines, NULL, Unreadable
    Meant,       \* the settings that the author of some contents means
    Directory,   \* directories that exist and can be read
    Account,     \* users the password database knows
    Root,        \* the one with uid 0
    Default,     \* INCRON_CONFIG, INCRON_CFG_DEFAULT
    APPLOCK_BASEDIR,
    Defaults, LineSize, UserSize,
    MaxEnv,      \* bound: changes of files
    Absent, Unreadable, NULL

INSTANCE Options
INSTANCE Settings

Text == Seq(STRING)
Arguments == [kind : {"long", "short"}, opt : STRING, val : Text \cup {NULL}]
             \cup [kind : {"value"}, val : Text]
Commands == [program : {"incrontab", "incrond", "none"}, argv : Seq(Arguments), me : Text]
Contents == Seq(Text) \cup {NULL, Unreadable}

ASSUME StartupAssumption ==
    /\ Absent # NULL /\ Unreadable # NULL /\ MaxEnv \in Nat
    /\ NULL \notin BOOLEAN
    /\ LineSize \in Nat \ {0, 1} /\ UserSize \in Nat \ {0, 1}
ASSUME TextAssumption ==
    NULL \notin Text /\ Absent \notin Text /\ NULL \notin [key : Text, val : Text]
ASSUME ScenarioAssumption ==
    \A s \in Scenario : /\ s.cmd \in [Proc -> Commands]
                        /\ DOMAIN s.file \subseteq DOMAIN Content
                        /\ \A path \in DOMAIN s.file : s.file[path] \in Contents
ASSUME ContentAssumption == \A path \in DOMAIN Content : Content[path] \subseteq Contents

(* The lines that authors write (incron.conf.5): an option, an equals sign *)
(* and perhaps a value, with blanks around each and further equals signs   *)
(* in front of the value; or a line without an assignment.  The option is  *)
(* the letter at i, the value goes from v to before end.                   *)
Trimmed(t) == t # <<>> /\ t[1] \notin Blank /\ t[Len(t)] \notin Blank
Assigns(text, key, val) ==
    \E i, eq \in DOMAIN text, v, end \in 1..Len(text)+1 :
        /\ i < eq /\ eq < v /\ v <= end
        /\ text[i] = key /\ key \notin Blank \cup {"=", "#"}
        /\ text[eq] = "="
        /\ val = SubSeq(text, v, end - 1)
        /\ val # <<>> => Trimmed(val) /\ val[1] # "="
        /\ \A n \in 1..eq-1 : n # i => text[n] \in Blank
        /\ \A n \in eq+1..v-1 : text[n] \in Blank \cup {"="}
        /\ \A n \in end..Len(text) : text[n] \in Blank
AssignsNothing(text) ==
    \/ IsComment(text)
    \/ \A n \in DOMAIN text : text[n] # "="
    \/ \E eq \in DOMAIN text : text[eq] = "=" /\ \A n \in 1..eq-1 : text[n] \in Blank
ASSUME MeantAssumption ==
    /\ NULL \notin DOMAIN Defaults
    /\ \A lines \in DOMAIN Meant :
            /\ DOMAIN Meant[lines] = DOMAIN lines
            /\ \A n \in DOMAIN lines :
                    /\ Len(lines[n]) < LineSize
                    /\ IF Meant[lines][n].key = NULL THEN AssignsNothing(lines[n])
                       ELSE Assigns(lines[n], Meant[lines][n].key, Meant[lines][n].val)

VARIABLES
    file,      \* contents of each file, NULL if there is none, or Unreadable
    cmd,       \* per process: its program, arguments and user; never changes
    pc,        \* per process: where it is
    m_values,  \* per process: the configuration it has loaded
    did,       \* per process: the operation it went on to, NULL if none yet
    verdict,   \* per process: what CheckUser said
    policy,    \* history: what the files have said since CheckUser began
    touched,   \* history: files changed since then
    edited,    \* history: has a file changed since a process started
    env        \* changes of files

vars == <<file, cmd, pc, m_values, did, verdict, policy, touched, edited, env>>
history == <<policy, touched, edited>>

Go(p, where) == pc' = [pc EXCEPT ![p] = where]

-----------------------------------------------------------------------------
(* The command line.                                                       *)

Operations == {"list", "remove", "edit", "types", "reload"}
Informing == {"help", "about", "version"}
Known(program) ==
    Informing \cup {"config"} \cup
        (IF program = "incrontab" THEN Operations \cup {"user"} ELSE {"foreground", "kill"})

ASSUME KnownAssumption == \A program \in {"incrontab", "incrond"} : NULL \notin Known(program)

Args(p) == Parse(cmd[p].argv, Known(cmd[p].program))
Informs(p) == \E o \in Informing : ExistsOption(Args(p), o)
Asked(p) == {o \in Operations : ExistsOption(Args(p), o)}

(* The user: the given one, which only root may, or the own.               *)
ChangesUser(p) == HasValue(Args(p), "user")
User(p) == IF ChangesUser(p) THEN Args(p).option["user"] ELSE cmd[p].me

(* Faulty variant: a source file beside an operation is not looked at.     *)
InvalidIgnoresFile(p) ==
    /\ cmd[p].program = "incrontab"
    /\ \/ Asked(p) = {} /\ Args(p).values = <<>>
       \/ cmd[p].me # Root /\ ChangesUser(p)
       \/ User(p) \notin Account
Invalid(p) ==
    /\ cmd[p].program = "incrontab"
    /\ \/ Asked(p) = {} <=> Args(p).values = <<>>
       \/ cmd[p].me # Root /\ ChangesUser(p)
       \/ User(p) \notin Account

(* The messages of incrontab about -f change nothing: what can be read is  *)
(* loaded.                                                                 *)
ConfigPath(p) == IF HasValue(Args(p), "config") THEN Args(p).option["config"] ELSE Default

(* Faulty variant: incrond -k looks for the lock of the default settings.  *)
LockPathDefault(p) ==
    LET m == IF ExistsOption(Args(p), "kill") THEN <<>> ELSE m_values[p]
    IN  BuildPath(Setting(m, "lockfile_dir"), Setting(m, "lockfile_name"))
(* AppInstance::AppInstance, which adds a suffix.                          *)
LockPath(p) ==
    LET base == Setting(m_values[p], "lockfile_dir")
    IN  BuildPath(IF base = <<>> THEN APPLOCK_BASEDIR ELSE base,
                  Setting(m_values[p], "lockfile_name"))
Running(path) == {q \in Proc : pc[q] = "run" /\ LockPath(q) = path}

-----------------------------------------------------------------------------
Init ==
    /\ \E s \in Scenario : cmd = s.cmd /\ file = s.file
    /\ pc = [p \in Proc |-> IF cmd[p].program = "none" THEN "end" ELSE "start"]
    /\ m_values = [p \in Proc |-> <<>>]
    /\ did = [p \in Proc |-> NULL]
    /\ verdict = [p \in Proc |-> NULL]
    /\ policy = [p \in Proc |-> {}]
    /\ touched = [p \in Proc |-> {}]
    /\ edited = FALSE
    /\ env = 0

Opens(path) == path \in DOMAIN file /\ file[path] \notin {NULL, Unreadable}
Missing(path) == path \notin DOMAIN file \/ file[path] = NULL

(* What the permission files say (incrontab.cpp:37-48), f being the files. *)
Allows(f, m, user) ==
    LET allow == Setting(m, "allowed_users")
        deny  == Setting(m, "denied_users")
        Is(path) == path \in DOMAIN f /\ f[path] # NULL
    IN  IF Is(allow) THEN f[allow] # Unreadable /\ user \in UsersIn(f[allow])
        ELSE Is(deny) => f[deny] # Unreadable /\ user \notin UsersIn(f[deny])

(* Everything up to the configuration depends on the command line alone.   *)
Inform(p) ==
    /\ pc[p] = "start" /\ Informs(p)
    /\ Go(p, "end")
    /\ UNCHANGED <<file, cmd, m_values, did, verdict, history, env>>

Refuse(p) ==
    /\ pc[p] = "start" /\ ~Informs(p) /\ Invalid(p)
    /\ Go(p, "end")
    /\ UNCHANGED <<file, cmd, m_values, did, verdict, history, env>>

Accept(p) ==
    /\ pc[p] = "start" /\ ~Informs(p) /\ ~Invalid(p)
    /\ Go(p, "load")
    /\ UNCHANGED <<file, cmd, m_values, did, verdict, history, env>>

(* IncronCfg::Load has come to its end, with m.                            *)
Loaded(p, m) ==
    /\ m_values' = [m_values EXCEPT ![p] = m]
    /\ Go(p, IF cmd[p].program = "incrontab" THEN "allow" ELSE "serve")
    /\ policy' = [policy EXCEPT ![p] = {Allows(file, m, User(p))}]
    /\ UNCHANGED <<file, cmd, did, verdict, touched, edited, env>>

LoadConfig(p) ==
    /\ pc[p] = "load"
    /\ Opens(ConfigPath(p))
    /\ Loaded(p, Load(file[ConfigPath(p)]))

LoadNothing(p) ==
    /\ pc[p] = "load"
    /\ ~Opens(ConfigPath(p)) /\ ConfigPath(p) = Default
    /\ Loaded(p, <<>>)

TryDefault(p) ==
    /\ pc[p] = "load"
    /\ ~Opens(ConfigPath(p)) /\ ConfigPath(p) # Default
    /\ Go(p, "default")
    /\ UNCHANGED <<file, cmd, m_values, did, verdict, history, env>>

LoadDefault(p) ==
    /\ pc[p] = "default"
    /\ Loaded(p, IF Opens(Default) THEN Load(file[Default]) ELSE <<>>)

-----------------------------------------------------------------------------
(* incrontab: CheckUser, and the operation.                                *)

Says(p, ok) ==
    /\ verdict' = [verdict EXCEPT ![p] = ok]
    /\ Go(p, IF ok THEN "call" ELSE "end")
    /\ UNCHANGED <<file, cmd, m_values, did, history, env>>

(* Faulty variant: a list that cannot be read counts as none.              *)
CheckAllowedLax(p) ==
    /\ pc[p] = "allow"
    /\ LET allow == Setting(m_values[p], "allowed_users")
       IN  IF Opens(allow) THEN Says(p, User(p) \in UsersIn(file[allow]))
           ELSE /\ Go(p, "deny")
                /\ UNCHANGED <<file, cmd, m_values, did, verdict, history, env>>
CheckAllowed(p) ==
    /\ pc[p] = "allow"
    /\ LET allow == Setting(m_values[p], "allowed_users")
       IN  IF Missing(allow)
           THEN /\ Go(p, "deny")
                /\ UNCHANGED <<file, cmd, m_values, did, verdict, history, env>>
           ELSE Says(p, Opens(allow) /\ User(p) \in UsersIn(file[allow]))

CheckDenied(p) ==
    /\ pc[p] = "deny"
    /\ LET deny == Setting(m_values[p], "denied_users")
       IN  Says(p, \/ Missing(deny)
                   \/ Opens(deny) /\ User(p) \notin UsersIn(file[deny]))

(* The first of the options, in this order; without one a file is copied.  *)
Priority == <<"list", "remove", "edit", "types", "reload">>
Operation(p) ==
    IF Asked(p) = {} THEN "copy"
    ELSE Priority[Min({i \in DOMAIN Priority : Priority[i] \in Asked(p)})]

Call(p) ==
    /\ pc[p] = "call"
    /\ did' = [did EXCEPT ![p] =
                [op |-> Operation(p), user |-> User(p),
                 source |-> IF Asked(p) = {} THEN GetValue(Args(p), 0) ELSE NULL,
                 table |-> BuildPath(Setting(m_values[p], "user_table_dir"), User(p))]]
    /\ Go(p, "end")
    /\ UNCHANGED <<file, cmd, m_values, verdict, history, env>>

-----------------------------------------------------------------------------
(* incrond: -k, or the checks and the lock.                                *)

(* AppInstance::Terminate: the daemon gets SIGTERM and ends.  If p may not *)
(* signal it, the exception that SendSignal throws ends p.                 *)
MaySignal(p, q) == cmd[p].me \in {Root, cmd[q].me}
Kill(p) ==
    /\ pc[p] = "serve" /\ ExistsOption(Args(p), "kill")
    /\ LET told == {q \in Running(LockPath(p)) : MaySignal(p, q)}
       IN  /\ did' = [did EXCEPT ![p] = [op |-> "kill", found |-> told # {}]]
           /\ pc' = [q \in Proc |-> IF q \in {p} \cup told THEN "end" ELSE pc[q]]
    /\ UNCHANGED <<file, cmd, m_values, verdict, history, env>>

CheckDirectories(p) ==
    /\ pc[p] = "serve" /\ ~ExistsOption(Args(p), "kill")
    /\ Go(p, IF /\ Setting(m_values[p], "system_table_dir") \in Directory
                /\ Setting(m_values[p], "user_table_dir") \in Directory
             THEN "lock" ELSE "end")
    /\ UNCHANGED <<file, cmd, m_values, did, verdict, history, env>>

(* AppInstance::Lock returns true, or returns false or throws.             *)
Lock(p) ==
    /\ pc[p] = "lock"
    /\ \/ Running(LockPath(p)) = {} /\ Go(p, "run")
       \/ Go(p, "end")
    /\ UNCHANGED <<file, cmd, m_values, did, verdict, history, env>>

-----------------------------------------------------------------------------
(* An administrator writes, removes or protects a file.                    *)

Checking(p) == pc[p] \in {"allow", "deny"}
Change(path, content) ==
    /\ env < MaxEnv /\ env' = env + 1
    /\ file[path] # content
    /\ file' = [file EXCEPT ![path] = content]
    /\ policy' = [p \in Proc |-> IF Checking(p)
                    THEN policy[p] \cup {Allows(file', m_values[p], User(p))} ELSE policy[p]]
    /\ touched' = [p \in Proc |-> IF Checking(p) THEN touched[p] \cup {path} ELSE touched[p]]
    /\ edited' = (edited \/ \E p \in Proc : pc[p] # "start")
    /\ UNCHANGED <<cmd, pc, m_values, did, verdict>>

-----------------------------------------------------------------------------
Main(p) ==
    \/ Inform(p) \/ Refuse(p) \/ Accept(p)
    \/ LoadConfig(p) \/ LoadNothing(p) \/ TryDefault(p) \/ LoadDefault(p)
    \/ CheckAllowed(p) \/ CheckDenied(p) \/ Call(p)
    \/ Kill(p) \/ CheckDirectories(p) \/ Lock(p)

Next ==
    \/ \E p \in Proc : Main(p)
    \/ \E path \in DOMAIN file : \E content \in Content[path] : Change(path, content)

Spec == Init /\ [][Next]_vars

-----------------------------------------------------------------------------
(* Properties.                                                             *)

TypeOK ==
    /\ pc \in [Proc -> {"start", "load", "default", "allow", "deny", "call", "serve",
                        "lock", "run", "end"}]
    /\ \A p \in Proc, key \in UNION {DOMAIN m_values[q] : q \in Proc} :
            key \in DOMAIN m_values[p] =>
                /\ Trimmed(key)
                /\ m_values[p][key] # <<>> => Trimmed(m_values[p][key])
    /\ verdict \in [Proc -> BOOLEAN \cup {NULL}]
    /\ policy \in [Proc -> SUBSET BOOLEAN]
    /\ touched \in [Proc -> SUBSET DOMAIN file]
    /\ edited \in BOOLEAN /\ env \in 0..MaxEnv

(* The settings of p are what the author of the file at path means: every  *)
(* option has the value of its first line there (incron.conf.5:7, "Each    *)
(* line holds a single value pair"), or its default.                       *)
AsMeant(p, path) ==
    LET meant == IF Opens(path) THEN Meant[file[path]] ELSE <<>>
        Lines(key) == {n \in DOMAIN meant : meant[n].key = key}
    IN  \A key \in DOMAIN Defaults :
            Setting(m_values[p], key) =
                IF Lines(key) = {} THEN Defaults[key]
                ELSE meant[CHOOSE n \in Lines(key) : \A k \in Lines(key) : n <= k].val

(* p has its settings, and the file at path is as it was, and understood.  *)
Judged(p, path) ==
    /\ pc[p] \in {"allow", "deny", "call", "serve", "lock", "run"} /\ ~edited
    /\ Opens(path) => file[path] \in DOMAIN Meant

(* incrontab says that -f takes root.                                      *)
MayConfigure(p) == cmd[p].program = "incrontab" /\ HasValue(Args(p), "config") => cmd[p].me = Root

(* The configuration in force is what the author of one file meant, the    *)
(* given file, or the default one if that cannot be read.                  *)
ConfigurationAsWritten ==
    \A p \in Proc : MayConfigure(p) =>
        LET path == IF Opens(ConfigPath(p)) THEN ConfigPath(p) ELSE Default
        IN  Judged(p, path) => AsMeant(p, path)

(* Another user's -f is refused and the default file is in force           *)
(* (ict-main.cpp:504, "insufficient privileges to use custom configuration *)
(* (will use default)").                                                   *)
CustomConfigurationRefused ==
    \A p \in Proc : ~MayConfigure(p) /\ Judged(p, Default) => AsMeant(p, Default)

(* CheckUser opens one file, then perhaps the other.  If at most one of    *)
(* them changed meanwhile, however often, its verdict is what the          *)
(* permission files said at some moment of the check (incrontab.cpp:37).   *)
VerdictWasPolicy ==
    \A p \in Proc :
        /\ verdict[p] # NULL
        /\ \A f, g \in touched[p] : f = g
        /\ Setting(m_values[p], "allowed_users") # Setting(m_values[p], "denied_users")
        => verdict[p] \in policy[p]

(* What is done was asked for: an operation only if an option names it and *)
(* no source file is left over, a copy only of the first file given and    *)
(* without any operation, and for another user only by root.               *)
AsAsked ==
    \A p \in Proc : cmd[p].program = "incrontab" /\ did[p] # NULL =>
        LET argv == cmd[p].argv
            free == {n \in DOMAIN argv : /\ argv[n].kind = "value"
                                         /\ ~Taken(argv, n, Known("incrontab"))}
        IN  /\ IF did[p].op = "copy"
               THEN /\ Named(argv) \cap Operations = {}
                    /\ \E n \in free : /\ \A k \in free : n <= k
                                       /\ did[p].source = argv[n].val
               ELSE did[p].op \in Named(argv) /\ free = {}
            /\ did[p].user # cmd[p].me => cmd[p].me = Root /\ "user" \in Named(argv)

(* The two forms of an option are functionally equivalent (appargs.h:84),  *)
(* as long as no value follows a short one: that it would take.            *)
FormsEquivalent ==
    \A p \in Proc :
        LET argv == cmd[p].argv
            long == Parse(InLongForm(argv), Known(cmd[p].program))
        IN  (\A n \in DOMAIN argv : ~Taken(argv, n, Known(cmd[p].program)))
                => Args(p).option = long.option /\ Args(p).values = long.values

(* While no file changes, -k ends every daemon that was started with the   *)
(* same configuration file, wherever that places the lock, and that the    *)
(* user may signal.                                                        *)
KillFinds ==
    [][\A p, q \in Proc :
        /\ did[p] = NULL /\ did'[p] # NULL /\ cmd[p].program = "incrond"
        /\ pc[q] = "run" /\ ConfigPath(p) = ConfigPath(q) /\ ~edited /\ MaySignal(p, q)
        => pc'[q] = "end"]_vars
=============================================================================
