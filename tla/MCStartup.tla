----------------------------- MODULE MCStartup ------------------------------
(* Instance of Startup for TLC.  Its scenarios: every short command line   *)
(* of incrontab; the permission files changing under CheckUser; every      *)
(* configuration file of two lines; two processes of incrond.              *)
EXTENDS Startup, TLC

CONSTANTS p1, p2

u  == <<"u">>
root == <<"root">>
c  == <<"c">>
MCDefault == <<"incron.conf">>
A  == <<"incron.allow">>
D  == <<"incron.deny">>
MCDefaults == [allowed_users |-> A, denied_users |-> D,
               system_table_dir |-> <<"incron.d">>, user_table_dir |-> <<"spool">>,
               lockfile_dir |-> <<"run">>, lockfile_name |-> <<"incrond">>]
MCDirectory == {<<"incron.d">>, <<"spool">>}
MCBase == <<"run">>
MCAccount == {u, root}

Short(o, v) == [kind |-> "short", opt |-> o, val |-> v]
Long(o, v)  == [kind |-> "long", opt |-> o, val |-> v]
Value(v)    == [kind |-> "value", val |-> v]

Argument1 == {Short("list", NULL), Long("list", NULL), Short("remove", u), Long("reload", NULL),
              Short("user", NULL), Short("user", u), Long("user", u), Short("config", NULL),
              Long("help", NULL), Short("unknown", NULL), Long("unknown", u),
              Value(u), Value(c)}
Command(program, argv, me) == [program |-> program, argv |-> argv, me |-> me]
Nobody == Command("none", <<>>, u)
NoFile == [x \in {} |-> NULL]

CommandLines ==
    {[cmd |-> (p1 :> Command("incrontab", argv, me) @@ p2 :> Nobody), file |-> NoFile] :
        argv \in BoundedSeq(Argument1, 3), me \in {u, root}}

(* Lists that name u, and lists that seem to; a piece has five letters.    *)
Lists == {<<u>>, <<<<" ", "u", " ", "x">>, <<>>>>, <<<<"x", " ", "u">>>>,
          <<<<"x", " ", " ", " ", " ", "u">>>>}
Permissions ==
    {[cmd |-> (p1 :> Command("incrontab", <<Short("list", NULL)>>, u) @@ p2 :> Nobody),
      file |-> (A :> a @@ D :> d)] :
        a \in Lists \cup {NULL, Unreadable}, d \in Lists \cup {NULL, Unreadable}}

(* Lines as text, and as what they say.                                    *)
Line(text, key, val) == [text |-> text, key |-> key, val |-> val]
Written ==
    {Line(b \o <<k>> \o e \o v, k, v) :
        b \in {<<>>, <<"\t">>}, k \in {"allowed_users", "user_table_dir", "junk"},
        e \in {<<"=">>, <<" ", "=", "\t">>},
        v \in {<<"x">>, <<"x", " ", "=", "#">>, <<>>}}
    \cup {Line(t, NULL, NULL) :
            t \in {<<>>, <<"#">>, <<" ", "#", "user_table_dir", "=", "x">>,
                   <<"user_table_dir">>, <<"=", "x">>}}
File(w) == [n \in DOMAIN w |-> w[n].text]
Locks == {<<>>,
          <<Line(<<"lockfile_dir", "=", "lock", "/">>, "lockfile_dir", <<"lock", "/">>)>>,
          <<Line(<<"lockfile_dir", "=">>, "lockfile_dir", <<>>)>>,
          <<Line(<<"user_table_dir", "=", "x">>, "user_table_dir", <<"x">>)>>}
AnyLine == Written \cup UNION {Range(f) : f \in Locks}
Settings2 == BoundedSeq(Written, 2) \cup Locks
Said == [t \in {w.text : w \in AnyLine} |->
            LET w == CHOOSE w \in AnyLine : w.text = t IN [key |-> w.key, val |-> w.val]]
MCMeant == [f \in {File(w) : w \in Settings2} |-> [n \in DOMAIN f |-> Said[f[n]]]]

Configurations ==
    {[cmd |-> (p1 :> Command("incrontab", <<Long("config", c), Short("list", NULL)>>, root)
               @@ p2 :> Nobody),
      file |-> (c :> t)] : t \in DOMAIN MCMeant}

(* Somebody else than root with a file of his own.                         *)
Customs ==
    {[cmd |-> (p1 :> Command("incrontab", <<Short("config", c), Short("list", NULL)>>, u)
               @@ p2 :> Nobody),
      file |-> (c :> File(f) @@ MCDefault :> File(g))] : f \in Locks, g \in Locks}

(* A line that is too long ends the file.                                  *)
Overlong == <<<<"lockfile_dir", "=", "lock", " ", " ", " ", " ", " ", " ", " ", "x">>,
              <<"user_table_dir", "=", "x">>>>

Daemon(argv) == Command("incrond", argv, root)
DaemonOfUser(argv) == Command("incrond", argv, u)
Daemons ==
    {[cmd |-> (p1 :> Daemon(a) @@ p2 :> b), file |-> (c :> f @@ MCDefault :> g)] :
        a \in {<<>>, <<Short("config", c), Short("foreground", NULL)>>},
        b \in {Daemon(<<>>), Daemon(<<Short("kill", NULL)>>),
               Daemon(<<Short("config", NULL), Value(c)>>),
               Daemon(<<Long("config", c), Long("kill", NULL)>>),
               DaemonOfUser(<<Short("kill", NULL)>>)},
        f \in {File(w) : w \in Locks} \cup {NULL},
        g \in {File(w) : w \in Locks} \cup {NULL}}

MCScenario == CommandLines \cup Permissions \cup Configurations \cup Customs \cup Daemons
MCContent == (A :> Lists \cup {NULL, Unreadable}) @@ (D :> Lists \cup {NULL, Unreadable})
             @@ (c :> {NULL, Overlong}) @@ (MCDefault :> {NULL} \cup {File(w) : w \in Locks})
=============================================================================
