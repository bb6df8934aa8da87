-------------------------- MODULE Startup_proofs --------------------------
(* For any processes, command lines, files and contents: the verdict of    *)
(* CheckUser is the policy of a moment of the check, unless both files     *)
(* changed under it (incrontab.cpp:37); -k ends the daemons that share the *)
(* configuration; what incrontab does was asked for, and the two forms of  *)
(* an option mean the same.  What the parsers of the command line and of   *)
(* the configuration return is proved by induction over what they read.    *)
EXTENDS Startup, Induction

Allow(p) == Setting(m_values[p], "allowed_users")
Deny(p)  == Setting(m_values[p], "denied_users")

Admits(f, user) == f # Unreadable /\ user \in UsersIn(f)
Forbids(f, user) == f = Unreadable \/ user \in UsersIn(f)
DenySays(p) == Missing(Deny(p)) \/ ~Forbids(file[Deny(p)], User(p))

(* Before the first file is looked at, and while it is, nothing is said;   *)
(* what the files say now is in the record.                                *)
Unsaid(p) == pc[p] \in {"start", "load", "default", "allow", "deny"} => verdict[p] = NULL
Recorded(p) == Checking(p) => Allows(file, m_values[p], User(p)) \in policy[p]
(* Once the first was found missing it still is or has changed, and what   *)
(* the second one said meanwhile counted.                                  *)
Halfway(p) ==
    pc[p] = "deny" => /\ Missing(Allow(p)) \/ Allow(p) \in touched[p]
                      /\ Deny(p) \notin touched[p] => DenySays(p) \in policy[p]
Good(p) ==
    /\ verdict[p] # NULL
    /\ \A f, g \in touched[p] : f = g
    /\ Allow(p) # Deny(p)
    => verdict[p] \in policy[p]

CheckInv ==
    /\ pc \in [Proc -> {"start", "load", "default", "allow", "deny", "call", "serve",
                        "lock", "run", "end"}]
    /\ verdict \in [Proc -> BOOLEAN \cup {NULL}]
    /\ policy \in [Proc -> SUBSET BOOLEAN]
    /\ DOMAIN touched = Proc /\ DOMAIN m_values = Proc
    /\ \A p \in Proc : Unsaid(p) /\ Recorded(p) /\ Halfway(p) /\ Good(p)

-----------------------------------------------------------------------------
(* What the files say: the first alone if there is one, or the second.     *)
LEMMA AllowsFirst ==
    ASSUME NEW p, ~Missing(Allow(p))
    PROVE  Allows(file, m_values[p], User(p)) = Admits(file[Allow(p)], User(p))
  BY DEF Missing, Allow, Allows, Admits

(* The second file speaks if there is no first one.                        *)
LEMMA AllowsSecond ==
    ASSUME NEW p, Missing(Allow(p))
    PROVE  Allows(file, m_values[p], User(p)) = DenySays(p)
  BY DEF Missing, Allow, Deny, Allows, DenySays, Forbids

(* What the files say is yes or no.                                        *)
LEMMA AllowsBoolean ==
    ASSUME NEW f, NEW m, NEW user
    PROVE  Allows(f, m, user) \in BOOLEAN
  BY DEF Allows

(* Nobody has said anything at the start.                                  *)
LEMMA InvInit == Init => CheckInv
  BY DEF Init, CheckInv, Unsaid, Recorded, Halfway, Good, Checking

(* Every action keeps what is in the record.                               *)
LEMMA InvStep == CheckInv /\ [Next]_vars => CheckInv'
<1> SUFFICES ASSUME CheckInv, [Next]_vars
             PROVE  CheckInv'
  OBVIOUS
<1> DEFINE Places == {"start", "load", "default", "allow", "deny", "call", "serve",
                      "lock", "run", "end"}
           All(q) == Unsaid(q) /\ Recorded(q) /\ Halfway(q) /\ Good(q)
<1>0. /\ pc \in [Proc -> Places]
      /\ verdict \in [Proc -> BOOLEAN \cup {NULL}]
      /\ policy \in [Proc -> SUBSET BOOLEAN]
      /\ DOMAIN touched = Proc /\ DOMAIN m_values = Proc
      /\ \A q \in Proc : All(q)
  BY DEF CheckInv
(* A process about which nothing changes.                                  *)
<1>1. ASSUME NEW q \in Proc, UNCHANGED <<file, cmd>>, pc'[q] = pc[q],
             m_values'[q] = m_values[q], verdict'[q] = verdict[q],
             policy'[q] = policy[q], touched'[q] = touched[q]
      PROVE  All(q)'
  <2>1. All(q)
    BY <1>0
  <2>2. /\ Allow(q)' = Allow(q) /\ Deny(q)' = Deny(q) /\ User(q)' = User(q)
        /\ Missing(Allow(q))' = Missing(Allow(q)) /\ DenySays(q)' = DenySays(q)
        /\ Allows(file, m_values[q], User(q))' = Allows(file, m_values[q], User(q))
    BY <1>1 DEF Allow, Deny, User, ChangesUser, Args, Missing, DenySays, Forbids, Allows
  <2> QED BY <1>1, <2>1, <2>2 DEF Unsaid, Recorded, Halfway, Good, Checking
(* Steps outside the check.                                                *)
<1>2. ASSUME NEW q \in Proc, UNCHANGED <<file, cmd>>, m_values'[q] = m_values[q],
             verdict'[q] = verdict[q], policy'[q] = policy[q], touched'[q] = touched[q],
             pc'[q] \notin {"allow", "deny"}, pc[q] \notin {"allow", "deny"},
             verdict[q] = NULL \/ pc'[q] \notin {"start", "load", "default"}
      PROVE  All(q)'
  <2>1. All(q)
    BY <1>0
  <2>2. Allow(q)' = Allow(q) /\ Deny(q)' = Deny(q)
    BY <1>2 DEF Allow, Deny
  <2> QED BY <1>2, <2>1, <2>2 DEF Unsaid, Recorded, Halfway, Good, Checking
<1>3. ASSUME UNCHANGED <<file, cmd, m_values, verdict, history>>,
             NEW p \in Proc, NEW x \in Places \ {"start", "allow", "deny"}, Go(p, x),
             pc[p] \notin {"allow", "deny"},
             verdict[p] = NULL \/ x \notin {"load", "default"}
      PROVE  CheckInv'
  <2>1. UNCHANGED <<policy, touched>>
    BY <1>3 DEF history
  <2>2. pc' \in [Proc -> Places] /\ pc'[p] = x /\ \A q \in Proc \ {p} : pc'[q] = pc[q]
    BY <1>0, <1>3 DEF Go
  <2>3. All(p)'
    BY <1>2, <1>3, <2>1, <2>2
  <2>4. \A q \in Proc \ {p} : All(q)'
    BY <1>1, <1>3, <2>1, <2>2
  <2> QED BY <1>0, <1>3, <2>1, <2>2, <2>3, <2>4 DEF CheckInv
<1>4. ASSUME NEW p \in Proc, Inform(p) \/ Refuse(p) \/ Accept(p) \/ TryDefault(p)
      PROVE  CheckInv'
  <2>1. verdict[p] = NULL /\ pc[p] \in {"start", "load"}
    BY <1>0, <1>4 DEF Inform, Refuse, Accept, TryDefault, Unsaid
  <2> QED BY <1>3, <1>4, <2>1 DEF Inform, Refuse, Accept, TryDefault
<1>5. ASSUME NEW p \in Proc, CheckDirectories(p) \/ Lock(p) \/ Call(p)
      PROVE  CheckInv'
  <2>1. /\ pc[p] \in {"serve", "lock", "call"}
        /\ UNCHANGED <<file, cmd, m_values, verdict, history>>
        /\ \E x \in {"lock", "end", "run"} : Go(p, x)
    BY <1>5 DEF CheckDirectories, Lock, Call
  <2> QED BY <1>3, <2>1
<1>6. ASSUME NEW p \in Proc, NEW m, Loaded(p, m), pc[p] \in {"load", "default"}
      PROVE  CheckInv'
  <2>1. /\ UNCHANGED <<file, cmd, verdict, touched>>
        /\ m_values' = [m_values EXCEPT ![p] = m]
        /\ policy' = [policy EXCEPT ![p] = {Allows(file, m, User(p))}]
        /\ pc' = [pc EXCEPT ![p] = IF cmd[p].program = "incrontab" THEN "allow" ELSE "serve"]
    BY <1>6 DEF Loaded, Go
  <2>2. /\ pc' \in [Proc -> Places] /\ DOMAIN m_values' = Proc
        /\ policy' \in [Proc -> SUBSET BOOLEAN]
    BY <1>0, <2>1, AllowsBoolean
  <2>3. \A q \in Proc \ {p} : All(q)'
    BY <1>0, <1>1, <2>1
  <2>4. All(p)'
    <3>1. verdict'[p] = NULL /\ pc'[p] \in {"allow", "serve"}
      BY <1>0, <1>6, <2>1 DEF Unsaid
    <3>2. Allows(file, m_values[p], User(p))' \in policy'[p]
      BY <1>0, <2>1 DEF Allows, User, ChangesUser, Args
    <3> QED BY <3>1, <3>2 DEF Unsaid, Recorded, Halfway, Good
  <2> QED BY <1>0, <2>1, <2>2, <2>3, <2>4 DEF CheckInv
<1>7. ASSUME NEW p \in Proc, LoadConfig(p) \/ LoadNothing(p) \/ LoadDefault(p)
      PROVE  CheckInv'
  BY <1>6, <1>7 DEF LoadConfig, LoadNothing, LoadDefault
(* A verdict that is in the record, or both files have changed.            *)
<1>8. ASSUME NEW p \in Proc, NEW ok \in BOOLEAN, Says(p, ok), pc[p] \in {"allow", "deny"},
             \/ ok \in policy[p]
             \/ Allow(p) \in touched[p] /\ Deny(p) \in touched[p]
      PROVE  CheckInv'
  <2>1. /\ UNCHANGED <<file, cmd, m_values, policy, touched>>
        /\ verdict' = [verdict EXCEPT ![p] = ok]
        /\ pc' = [pc EXCEPT ![p] = IF ok THEN "call" ELSE "end"]
    BY <1>8 DEF Says, Go, history
  <2>2. pc' \in [Proc -> Places] /\ verdict' \in [Proc -> BOOLEAN \cup {NULL}]
    BY <1>0, <2>1
  <2>3. \A q \in Proc \ {p} : All(q)'
    BY <1>0, <1>1, <2>1
  <2>4. All(p)'
    <3>1. pc'[p] \in {"call", "end"} /\ verdict'[p] = ok
      BY <1>0, <2>1
    <3>2. Allow(p)' = Allow(p) /\ Deny(p)' = Deny(p)
      BY <2>1 DEF Allow, Deny
    <3> QED BY <1>8, <2>1, <3>1, <3>2 DEF Unsaid, Recorded, Halfway, Good, Checking
  <2> QED BY <1>0, <2>1, <2>2, <2>3, <2>4 DEF CheckInv
<1>9. ASSUME NEW p \in Proc, CheckAllowed(p), Missing(Allow(p))
      PROVE  CheckInv'
  <2>1. /\ UNCHANGED <<file, cmd, m_values, verdict, policy, touched>> /\ pc[p] = "allow"
        /\ pc' = [pc EXCEPT ![p] = "deny"]
    BY <1>9 DEF CheckAllowed, Allow, Go, history
  <2>2. pc' \in [Proc -> Places]
    BY <1>0, <2>1
  <2>3. \A q \in Proc \ {p} : All(q)'
    BY <1>0, <1>1, <2>1
  <2>4. All(p)'
    <3>1. Allows(file, m_values[p], User(p)) \in policy[p]
      BY <1>0, <2>1 DEF Recorded, Checking
    <3>2. /\ Allow(p)' = Allow(p) /\ Deny(p)' = Deny(p) /\ DenySays(p)' = DenySays(p)
          /\ Missing(Allow(p))' = Missing(Allow(p))
          /\ Allows(file, m_values[p], User(p))' = Allows(file, m_values[p], User(p))
      BY <2>1 DEF Allow, Deny, DenySays, Missing, Forbids, Allows, User, ChangesUser, Args
    <3>3. DenySays(p) \in policy[p]
      BY <1>9, <3>1, AllowsSecond
    <3> QED BY <1>0, <1>9, <2>1, <3>1, <3>2, <3>3
            DEF Unsaid, Recorded, Halfway, Good, Checking
  <2> QED BY <1>0, <2>1, <2>2, <2>3, <2>4 DEF CheckInv
<1>10. ASSUME NEW p \in Proc, CheckAllowed(p), ~Missing(Allow(p))
       PROVE  CheckInv'
  <2> DEFINE ok == Opens(Allow(p)) /\ User(p) \in UsersIn(file[Allow(p)])
  <2>1. Says(p, ok) /\ pc[p] = "allow"
    BY <1>10 DEF CheckAllowed, Allow
  <2>2. ok = Admits(file[Allow(p)], User(p))
    BY <1>10 DEF Opens, Missing, Admits
  <2>3. Allows(file, m_values[p], User(p)) \in policy[p]
    BY <1>0, <2>1 DEF Recorded, Checking
  <2>4. ok \in policy[p]
    BY <1>10, <2>2, <2>3, AllowsFirst
  <2> HIDE DEF ok
  <2>5. ok \in BOOLEAN
    BY DEF ok
  <2> QED BY <1>8, <2>1, <2>4, <2>5
<1>11. ASSUME NEW p \in Proc, CheckDenied(p)
       PROVE  CheckInv'
  <2> DEFINE ok == \/ Missing(Deny(p))
                   \/ Opens(Deny(p)) /\ User(p) \notin UsersIn(file[Deny(p)])
  <2>1. Says(p, ok) /\ pc[p] = "deny"
    BY <1>11 DEF CheckDenied, Deny
  <2>2. ok = DenySays(p)
    BY DEF DenySays, Opens, Missing, Forbids
  <2>3. ok \in policy[p] \/ (Allow(p) \in touched[p] /\ Deny(p) \in touched[p])
    <3>1. CASE Deny(p) \notin touched[p]
      BY <1>0, <2>1, <2>2, <3>1 DEF Halfway
    <3>2. CASE Deny(p) \in touched[p] /\ Missing(Allow(p))
      <4>1. Allows(file, m_values[p], User(p)) \in policy[p]
        BY <1>0, <2>1 DEF Recorded, Checking
      <4> QED BY <2>2, <3>2, <4>1, AllowsSecond
    <3>3. CASE Deny(p) \in touched[p] /\ ~Missing(Allow(p))
      BY <1>0, <2>1, <3>3 DEF Halfway
    <3> QED BY <3>1, <3>2, <3>3
  <2> HIDE DEF ok
  <2>4. ok \in BOOLEAN
    BY DEF ok
  <2> QED BY <1>8, <2>1, <2>3, <2>4
<1>12. ASSUME NEW p \in Proc, Kill(p)
       PROVE  CheckInv'
  <2>1. /\ UNCHANGED <<file, cmd, m_values, verdict, policy, touched>>
        /\ \E S : /\ \A q \in S : q = p \/ pc[q] = "run"
                  /\ pc' = [q \in Proc |-> IF q \in S THEN "end" ELSE pc[q]]
    <3> DEFINE told == {q \in Running(LockPath(p)) : MaySignal(p, q)}
    <3>1. pc' = [q \in Proc |-> IF q \in {p} \cup told THEN "end" ELSE pc[q]]
      BY <1>12 DEF Kill
    <3>2. \A q \in {p} \cup told : q = p \/ pc[q] = "run"
      BY DEF Running
    <3> QED BY <1>12, <3>1, <3>2 DEF Kill, history
  <2>2. pc[p] = "serve"
    BY <1>12 DEF Kill
  <2>3. PICK S : /\ \A q \in S : q = p \/ pc[q] = "run"
                 /\ pc' = [q \in Proc |-> IF q \in S THEN "end" ELSE pc[q]]
    BY <2>1
  <2>4. \A q \in Proc : All(q)'
    BY <1>1, <1>2, <2>1, <2>2, <2>3
  <2> QED BY <1>0, <2>1, <2>3, <2>4 DEF CheckInv
<1>13. ASSUME NEW path \in DOMAIN file, NEW content, Change(path, content)
       PROVE  CheckInv'
  <2>1. /\ UNCHANGED <<cmd, pc, m_values, verdict>>
        /\ file' = [file EXCEPT ![path] = content]
        /\ policy' = [q \in Proc |-> IF Checking(q)
                        THEN policy[q] \cup {Allows(file', m_values[q], User(q))}
                        ELSE policy[q]]
        /\ touched' = [q \in Proc |-> IF Checking(q) THEN touched[q] \cup {path}
                                      ELSE touched[q]]
    BY <1>13 DEF Change
  <2>2. policy' \in [Proc -> SUBSET BOOLEAN] /\ DOMAIN touched' = Proc
    BY <1>0, <2>1, AllowsBoolean
  <2>3. ASSUME NEW q \in Proc
        PROVE  All(q)'
    <3>1. All(q)
      BY <1>0
    <3>2. Allow(q)' = Allow(q) /\ Deny(q)' = Deny(q) /\ User(q)' = User(q)
      BY <2>1 DEF Allow, Deny, User, ChangesUser, Args
    <3>3. CASE ~Checking(q)
      <4>1. policy'[q] = policy[q] /\ touched'[q] = touched[q]
        BY <2>1, <3>3
      <4> QED BY <2>1, <3>1, <3>2, <3>3, <4>1 DEF Unsaid, Recorded, Halfway, Good, Checking
    <3>4. CASE Checking(q)
      <4>1. /\ policy'[q] = policy[q] \cup {Allows(file', m_values[q], User(q))}
            /\ touched'[q] = touched[q] \cup {path} /\ verdict'[q] = NULL
        BY <2>1, <3>1, <3>4 DEF Unsaid, Checking
      <4>2. Allows(file, m_values[q], User(q))' = Allows(file', m_values[q], User(q))
        BY <2>1, <3>2 DEF Allows
      <4>3. Recorded(q)'
        BY <4>1, <4>2 DEF Recorded
      <4>4. \A f : f # path => Missing(f)' = Missing(f) /\ file'[f] = file[f]
        BY <2>1 DEF Missing
      <4>5. Missing(Allow(q))' \/ Allow(q)' \in touched'[q] \/ ~Missing(Allow(q))
        BY <3>2, <4>1, <4>4
      <4>6. Deny(q)' \notin touched'[q] => DenySays(q)' = DenySays(q)
        BY <3>2, <4>1, <4>4 DEF DenySays
      <4>7. Halfway(q)'
        BY <2>1, <3>1, <3>2, <4>1, <4>5, <4>6 DEF Halfway
      <4> QED BY <4>1, <4>3, <4>7 DEF Unsaid, Good
    <3> QED BY <3>3, <3>4
  <2> QED BY <1>0, <2>1, <2>2, <2>3 DEF CheckInv
<1>14. CASE UNCHANGED vars
  <2>1. UNCHANGED <<file, cmd, pc, m_values, verdict, policy, touched>>
    BY <1>14 DEF vars
  <2>2. \A q \in Proc : All(q)'
    BY <1>1, <2>1
  <2> QED BY <1>0, <2>1, <2>2 DEF CheckInv
<1> QED BY <1>4, <1>5, <1>7, <1>9, <1>10, <1>11, <1>12, <1>13, <1>14 DEF Next, Main

(* However the files change while CheckUser looks at them, its verdict is  *)
(* what they said at some moment, unless both changed (IncronTab).         *)
THEOREM VerdictCorrect == Spec => []VerdictWasPolicy
<1>1. CheckInv => VerdictWasPolicy
  BY DEF CheckInv, Good, VerdictWasPolicy, Allow, Deny
<1> QED BY <1>1, InvInit, InvStep, PTL DEF Spec

-----------------------------------------------------------------------------
(* As long as no file changes, what a process has loaded follows from its  *)
(* command line; incrond alone gets to -k and to the lock.                 *)

Conf(p) ==
    IF Opens(ConfigPath(p)) THEN Load(file[ConfigPath(p)])
    ELSE IF Opens(Default) THEN Load(file[Default]) ELSE <<>>
AsConfigured(p) ==
    /\ pc[p] = "default" => ~Opens(ConfigPath(p))
    /\ pc[p] \in {"allow", "deny", "call", "serve", "lock", "run"} => m_values[p] = Conf(p)
ConfInv ==
    /\ DOMAIN pc = Proc /\ DOMAIN m_values = Proc /\ DOMAIN did = Proc
    /\ \A p \in Proc : pc[p] \in {"allow", "deny", "call"} => cmd[p].program = "incrontab"
    /\ ~edited => \A p \in Proc : AsConfigured(p)

(* Nobody has loaded anything at the start.                                *)
LEMMA ConfInit == Init => ConfInv
  BY DEF Init, ConfInv, AsConfigured

(* The configuration depends on the command line and the files alone.      *)
LEMMA ConfKept ==
    ASSUME NEW p, UNCHANGED <<file, cmd>>
    PROVE  Conf(p)' = Conf(p) /\ Opens(ConfigPath(p))' = Opens(ConfigPath(p))
  BY DEF Conf, Opens, ConfigPath, Args

(* Every action keeps what was loaded, as long as no file changes.         *)
LEMMA ConfStep == ConfInv /\ [Next]_vars => ConfInv'
<1> SUFFICES ASSUME ConfInv, [Next]_vars
             PROVE  ConfInv'
  OBVIOUS
<1>1. ASSUME UNCHANGED <<file, cmd, m_values, edited>>, DOMAIN did' = Proc, DOMAIN pc' = Proc,
             \A q \in Proc :
                \/ pc'[q] = pc[q] \/ pc'[q] \in {"end", "load"}
                \/ pc[q] \in {"serve", "lock"} /\ pc'[q] \in {"lock", "run"}
                \/ pc[q] \in {"allow", "deny"} /\ pc'[q] \in {"deny", "call"}
                \/ pc'[q] = "default" /\ ~Opens(ConfigPath(q))
      PROVE  ConfInv'
  BY <1>1, ConfKept DEF ConfInv, AsConfigured
<1>2. ASSUME NEW p \in Proc,
             \/ Inform(p) \/ Refuse(p) \/ Accept(p) \/ TryDefault(p) \/ CheckDirectories(p)
             \/ Lock(p)
      PROVE  ConfInv'
  BY <1>1, <1>2 DEF Inform, Refuse, Accept, TryDefault, CheckDirectories, Lock, Go, history,
                    ConfInv
<1>3. ASSUME NEW p \in Proc, CheckAllowed(p) \/ CheckDenied(p)
      PROVE  ConfInv'
  <2>1. /\ UNCHANGED <<file, cmd, m_values, edited, did>> /\ pc[p] \in {"allow", "deny"}
        /\ \E x \in {"deny", "call", "end"} : pc' = [pc EXCEPT ![p] = x]
    BY <1>3 DEF CheckAllowed, CheckDenied, Says, Go, history
  <2> QED BY <1>1, <2>1 DEF ConfInv
<1>4. ASSUME NEW p \in Proc, Call(p)
      PROVE  ConfInv'
  <2>1. /\ UNCHANGED <<file, cmd, m_values, edited>> /\ DOMAIN did' = Proc
        /\ pc' = [pc EXCEPT ![p] = "end"]
    BY <1>4 DEF Call, Go, history, ConfInv
  <2> QED BY <1>1, <2>1 DEF ConfInv
<1>5. ASSUME NEW p \in Proc, Kill(p)
      PROVE  ConfInv'
  <2>1. /\ UNCHANGED <<file, cmd, m_values, edited>> /\ DOMAIN did' = Proc
        /\ \E S : pc' = [q \in Proc |-> IF q \in S THEN "end" ELSE pc[q]]
    <3> DEFINE told == {q \in Running(LockPath(p)) : MaySignal(p, q)}
    <3>1. pc' = [q \in Proc |-> IF q \in {p} \cup told THEN "end" ELSE pc[q]]
      BY <1>5 DEF Kill
    <3> QED BY <1>5, <3>1 DEF Kill, history, ConfInv
  <2> QED BY <1>1, <2>1
<1>6. ASSUME NEW p \in Proc, NEW m, Loaded(p, m), ~edited => m = Conf(p)
      PROVE  ConfInv'
  <2>1. /\ UNCHANGED <<file, cmd, did, edited>>
        /\ m_values' = [m_values EXCEPT ![p] = m]
        /\ pc' = [pc EXCEPT ![p] = IF cmd[p].program = "incrontab" THEN "allow" ELSE "serve"]
    BY <1>6 DEF Loaded, Go
  <2> QED BY <1>6, <2>1, ConfKept DEF ConfInv, AsConfigured
<1>7. ASSUME NEW p \in Proc, LoadConfig(p) \/ LoadNothing(p) \/ LoadDefault(p)
      PROVE  ConfInv'
  <2>1. CASE LoadConfig(p)
    BY <1>6, <2>1 DEF LoadConfig, Conf
  <2>2. CASE LoadNothing(p)
    BY <1>6, <2>2 DEF LoadNothing, Conf
  <2>3. CASE LoadDefault(p)
    <3>1. ~edited => ~Opens(ConfigPath(p))
      BY <2>3 DEF LoadDefault, ConfInv, AsConfigured
    <3> QED BY <1>6, <2>3, <3>1 DEF LoadDefault, Conf
  <2> QED BY <1>7, <2>1, <2>2, <2>3
<1>8. ASSUME NEW path, NEW content, Change(path, content)
      PROVE  ConfInv'
  <2>1. /\ UNCHANGED <<cmd, pc, m_values, did>>
        /\ ~edited' => ~edited /\ \A q \in Proc : pc[q] = "start"
    BY <1>8 DEF Change
  <2> QED BY <2>1 DEF ConfInv, AsConfigured
<1>9. CASE UNCHANGED vars
  BY <1>1, <1>9 DEF vars, ConfInv
<1> QED BY <1>2, <1>3, <1>4, <1>5, <1>7, <1>8, <1>9 DEF Next, Main

(* incrond -k ends every daemon with the same configuration file, of any   *)
(* number, that its user may signal, while no file changes (icd-main.cpp,  *)
(* AppInstance::Terminate).                                                *)
THEOREM KillCorrect == Spec => KillFinds
<1> DEFINE A == \A p, q \in Proc :
        /\ did[p] = NULL /\ did'[p] # NULL /\ cmd[p].program = "incrond"
        /\ pc[q] = "run" /\ ConfigPath(p) = ConfigPath(q) /\ ~edited /\ MaySignal(p, q)
        => pc'[q] = "end"
<1>1. ConfInv /\ [Next]_vars => [A]_vars
  <2> SUFFICES ASSUME ConfInv, Next, NEW p \in Proc, NEW q \in Proc,
                      did[p] = NULL, did'[p] # NULL, cmd[p].program = "incrond",
                      pc[q] = "run", ConfigPath(p) = ConfigPath(q), ~edited, MaySignal(p, q)
               PROVE  pc'[q] = "end"
    OBVIOUS
  <2>1. Kill(p)
    <3>1. PICK x \in Proc : Call(x) \/ Kill(x)
      <4>1. did' # did
        OBVIOUS
      <4> QED BY <4>1 DEF Next, Main, Inform, Refuse, Accept, LoadConfig, LoadNothing,
                          TryDefault, LoadDefault, Loaded, CheckAllowed, CheckDenied, Says,
                          CheckDirectories, Lock, Change
    <3>2. x = p
      BY <3>1 DEF Call, Kill, ConfInv
    <3> QED BY <3>1, <3>2 DEF Call, ConfInv
  <2>2. m_values[p] = m_values[q]
    BY <2>1 DEF Kill, ConfInv, AsConfigured, Conf
  <2>3. LockPath(p) = LockPath(q)
    BY <2>2 DEF LockPath
  <2> QED BY <2>1, <2>3 DEF Kill, Running
<1>2. Spec => []ConfInv
  BY ConfInit, ConfStep, PTL DEF Spec
<1> QED BY <1>1, <1>2, PTL DEF Spec, KillFinds

-----------------------------------------------------------------------------
(* The command line.                                                       *)

(* The states of the parser.                                               *)
States(known) == [option : [known -> Text \cup {NULL, Absent}], values : Seq(Text),
                  taker : known \cup {NULL}]

(* An argument takes the parser from state to state.                       *)
LEMMA ArgumentTypes ==
    ASSUME NEW known, NULL \notin known, NEW st \in States(known), NEW a \in Arguments
    PROVE  Argument(st, a) \in States(known)
<1>1. CASE a.kind = "value"
  <2>1. a.val \in Text
    BY <1>1 DEF Arguments
  <2>2. CASE st.taker = NULL
    <3>1. Argument(st, a) = [st EXCEPT !.values = Append(@, a.val)]
      BY <1>1, <2>2 DEF Argument
    <3>2. Append(st.values, a.val) \in Seq(Text)
      BY <2>1 DEF States
    <3> QED BY <3>1, <3>2 DEF States
  <2>3. CASE st.taker # NULL
    <3>1. Argument(st, a) = [st EXCEPT !.option[st.taker] = a.val, !.taker = NULL]
      BY <1>1, <2>3 DEF Argument
    <3> QED BY <2>1, <2>3, <3>1 DEF States
  <2> QED BY <2>2, <2>3
<1>2. CASE a.kind # "value"
  <2>1. a.val \in Text \cup {NULL}
    BY <1>2 DEF Arguments
  <2>2. CASE a.opt \in known
    <3> DEFINE taker == IF a.kind = "short" /\ a.val = NULL THEN a.opt ELSE NULL
    <3>1. Argument(st, a) = [st EXCEPT !.option[a.opt] = a.val, !.taker = taker]
      BY <1>2, <2>2 DEF Argument, States
    <3>2. taker \in known \cup {NULL}
      BY <2>2
    <3> HIDE DEF taker
    <3> QED BY <2>1, <2>2, <3>1, <3>2 DEF States
  <2>3. CASE a.opt \notin known
    <3>1. Argument(st, a) = [st EXCEPT !.taker = NULL]
      BY <1>2, <2>3 DEF Argument, States
    <3> QED BY <3>1 DEF States
  <2> QED BY <2>2, <2>3
<1> QED BY <1>1, <1>2

(* What Parse goes through, argument by argument.                          *)
Turns(h, argv, known) ==
    /\ h[0] = Nothing(known)
    /\ \A k \in 1..Len(argv) : h[k] = Argument(h[k-1], argv[k])
Parses(argv, known) ==
    \E h \in [0..Len(argv) -> States(known)] :
        Turns(h, argv, known) /\ Parse(argv, known) = h[Len(argv)]

(* The fold that Parse is goes through such states.                        *)
LEMMA ParseTurns ==
    ASSUME NEW known, NULL \notin known, NEW argv \in Seq(Arguments)
    PROVE  Parses(argv, known)
<1> DEFINE n == Len(argv)
           V == States(known)
           base == Nothing(known)
           F == [k \in 1..n |-> [st \in V |-> Argument(st, argv[k])]]
           Body(g, s) == IF s = {} THEN base ELSE Argument(g[s \ {Max(s)}], argv[Max(s)])
           iter == CHOOSE g : g = [s \in SUBSET (1..n) |-> Body(g, s)]
<1>1. n \in Nat /\ DOMAIN argv = 1..n /\ \A k \in 1..n : argv[k] \in Arguments
  OBVIOUS
<1>2. base \in V
  BY DEF Nothing, States
<1>3. F \in [1..n -> [V -> V]]
  BY <1>1, ArgumentTypes
<1>4. Parse(argv, known) = iter[1..n]
  BY <1>1 DEF Parse, FoldLeft, MapThenFoldSet
<1>5. PICK g \in [SUBSET (1..n) -> V] : Folds(g, base, F)
  <2> HIDE DEF F, V, base, n
  <2> QED BY <1>1, <1>2, <1>3, FoldExists
<1>6. g = [s \in SUBSET (1..n) |-> Body(g, s)]
  <2>1. ASSUME NEW s \in SUBSET (1..n)
        PROVE  g[s] = Body(g, s)
    <3>1. CASE s = {}
      BY <1>5, <3>1 DEF Folds
    <3>2. CASE s # {}
      <4>1. s \subseteq 0..n
        OBVIOUS
      <4>2. Max(s) \in 1..n
        BY <1>1, <3>2, <4>1, MaxOfNats
      <4>3. g[s] = F[Max(s)][g[s \ {Max(s)}]] /\ g[s \ {Max(s)}] \in V
        BY <1>5, <3>2 DEF Folds
      <4> QED BY <3>2, <4>2, <4>3
    <3> QED BY <3>1, <3>2
  <2> HIDE DEF Body
  <2> QED BY <1>5, <2>1
<1>7. iter = [s \in SUBSET (1..n) |-> Body(iter, s)]
  <2> HIDE DEF Body
  <2> QED BY <1>6
<1> HIDE DEF Body, iter
<1>8. iter[{}] = base
  <2>1. {} \in SUBSET (1..n)
    OBVIOUS
  <2>2. iter[{}] = Body(iter, {})
    BY <1>7, <2>1
  <2> QED BY <2>2 DEF Body
<1>9. ASSUME NEW k \in 1..n, iter[1..k-1] \in V
      PROVE  iter[1..k] = F[k][iter[1..k-1]]
  <2>1. 1..k \in SUBSET (1..n) /\ k \in Nat \ {0}
    BY <1>1
  <2>2. Max(1..k) = k /\ (1..k) \ {k} = 1..k-1 /\ 1..k # {}
    BY <2>1, Segment
  <2>3. iter[1..k] = Body(iter, 1..k)
    BY <1>7, <2>1
  <2> QED BY <1>9, <2>2, <2>3 DEF Body
<1>10. PICK h \in [0..n -> V] : Passes(h, base, F) /\ h[n] = iter[1..n]
  <2> HIDE DEF V, base, F
  <2>1. Folding(iter, base, F, V, n)
    BY <1>8, <1>9 DEF Folding
  <2>2. Folded(iter[1..n], base, F, V, n)
    BY <1>1, <1>2, <1>3, <2>1, FoldSegments
  <2> QED BY <2>2 DEF Folded
<1>11. \A k \in 1..n : k - 1 \in 0..n /\ h[k-1] \in V
  BY <1>1, <1>10
<1>12. Turns(h, argv, known)
  BY <1>10, <1>11 DEF Passes, Turns
<1>13. Parse(argv, known) = h[n]
  BY <1>4, <1>10
<1> QED BY <1>10, <1>12, <1>13 DEF Parses

(* The arguments up to k that are values of no option.                     *)
Free(argv, k, known) == {n \in 1..k : argv[n].kind = "value" /\ ~Taken(argv, n, known)}

(* What the parser knows after k arguments.                                *)
Knows(st, argv, k, known) ==
    /\ st.taker = IF k > 0 /\ argv[k].kind = "short" /\ argv[k].val = NULL /\ argv[k].opt \in known
                  THEN argv[k].opt ELSE NULL
    /\ \A o \in known : st.option[o] # Absent
                          <=> \E n \in 1..k : argv[n].kind # "value" /\ argv[n].opt = o
    /\ IF st.values = <<>> THEN Free(argv, k, known) = {}
       ELSE \E n \in Free(argv, k, known) : /\ \A m \in Free(argv, k, known) : n <= m
                                            /\ st.values[1] = argv[n].val

(* One more argument: the parser knows of it what it should.               *)
LEMMA KnowsStep ==
    ASSUME NEW known, NULL \notin known, NEW argv \in Seq(Arguments), NEW k \in 1..Len(argv),
           NEW st \in States(known), Knows(st, argv, k-1, known),
           NEW a, a = argv[k], NEW new, new = Argument(st, a)
    PROVE  Knows(new, argv, k, known)
<1> DEFINE free(i) == Free(argv, i, known)
<1>0. /\ a \in Arguments /\ k \in Nat \ {0} /\ k - 1 \in Nat /\ 1..k = (1..k-1) \cup {k} /\ k \notin 1..k-1
      /\ new \in States(known)
  <2>1. a \in Arguments
    OBVIOUS
  <2> QED BY <2>1, ArgumentTypes
<1>1. Absent \notin Text /\ Absent # NULL
  BY TextAssumption, StartupAssumption
<1>2. /\ Taken(argv, k, known) <=> a.kind = "value" /\ st.taker # NULL
      /\ st.taker # NULL => st.taker = argv[k-1].opt /\ argv[k-1].kind = "short" /\ k - 1 \in 1..k-1
  <2>1. k > 1 <=> k - 1 > 0
    BY <1>0
  <2>2. k - 1 > 0 => k - 1 \in 1..k-1
    BY <1>0
  <2> QED BY <2>1, <2>2 DEF Taken, Knows
<1>3. free(k) = free(k-1) \cup (IF a.kind = "value" /\ st.taker = NULL THEN {k} ELSE {})
  BY <1>0, <1>2 DEF Free
<1>4. \A n \in free(k-1) : n <= k /\ n \in 1..k-1
  BY <1>0 DEF Free
(* No value that counts is added.                                          *)
<1>a. ASSUME ~(a.kind = "value" /\ st.taker = NULL), new.values = st.values,
             new.taker = IF a.kind = "short" /\ a.val = NULL /\ a.opt \in known THEN a.opt ELSE NULL,
             \A o \in known : new.option[o] # Absent
                          <=> \E n \in 1..k : argv[n].kind # "value" /\ argv[n].opt = o
      PROVE  Knows(new, argv, k, known)
  <2>1. Free(argv, k, known) = Free(argv, k-1, known)
    BY <1>3, <1>a
  <2>2. new.taker = IF k > 0 /\ argv[k].kind = "short" /\ argv[k].val = NULL /\ argv[k].opt \in known
                    THEN argv[k].opt ELSE NULL
    BY <1>0, <1>a
  <2>3. IF st.values = <<>> THEN Free(argv, k-1, known) = {}
        ELSE \E n \in Free(argv, k-1, known) : /\ \A m \in Free(argv, k-1, known) : n <= m
                                               /\ st.values[1] = argv[n].val
    BY DEF Knows
  <2>4. IF new.values = <<>> THEN Free(argv, k, known) = {}
        ELSE \E n \in Free(argv, k, known) : /\ \A m \in Free(argv, k, known) : n <= m
                                             /\ new.values[1] = argv[n].val
    BY <1>a, <2>1, <2>3
  <2> QED BY <1>a, <2>2, <2>4 DEF Knows
<1>5. CASE a.kind = "value" /\ st.taker = NULL
  <2>1. new = [st EXCEPT !.values = Append(@, a.val)]
    BY <1>5 DEF Argument
  <2>2. new.taker = NULL /\ new.option = st.option /\ new.values = Append(st.values, a.val)
    BY <1>5, <2>1 DEF States
  <2>3. st.values \in Seq(Text) /\ a.val \in Text
    BY <1>0, <1>5 DEF States, Arguments
  <2>4. \A o \in known : new.option[o] # Absent
                          <=> \E n \in 1..k : argv[n].kind # "value" /\ argv[n].opt = o
    BY <1>0, <1>5, <2>2 DEF Knows
  <2>5. new.values # <<>> /\ new.values[1] = IF st.values = <<>> THEN a.val ELSE st.values[1]
    BY <2>2, <2>3
  <2>6. \E n \in free(k) : (\A m \in free(k) : n <= m) /\ new.values[1] = argv[n].val
    <3>1. CASE st.values = <<>>
      <4>1. free(k) = {k} /\ k <= k
        BY <1>0, <1>3, <1>5, <3>1 DEF Knows
      <4> QED BY <2>5, <3>1, <4>1
    <3>2. CASE st.values # <<>>
      <4>1. PICK n \in free(k-1) : (\A m \in free(k-1) : n <= m) /\ st.values[1] = argv[n].val
        BY <3>2 DEF Knows
      <4> HIDE DEF free
      <4> QED BY <1>3, <1>4, <2>5, <3>2, <4>1
    <3> QED BY <3>1, <3>2
  <2> QED BY <1>5, <2>2, <2>4, <2>5, <2>6 DEF Knows
<1>6. CASE a.kind = "value" /\ st.taker # NULL
  <2>1. new = [st EXCEPT !.option[st.taker] = a.val, !.taker = NULL]
    BY <1>6 DEF Argument
  <2>2. /\ new.taker = NULL /\ new.values = st.values
        /\ \A o \in known : new.option[o] = IF o = st.taker THEN a.val ELSE st.option[o]
    BY <1>6, <2>1 DEF States
  <2>3. a.val # Absent
    BY <1>0, <1>1, <1>6 DEF Arguments
  <2>4. \A o \in known : new.option[o] # Absent
                          <=> \E n \in 1..k : argv[n].kind # "value" /\ argv[n].opt = o
    <3> SUFFICES ASSUME NEW o \in known
                 PROVE  new.option[o] # Absent <=> \E n \in 1..k : argv[n].kind # "value" /\ argv[n].opt = o
      OBVIOUS
    <3>1. CASE o = st.taker
      <4>1. k - 1 \in 1..k /\ argv[k-1].kind # "value" /\ argv[k-1].opt = o
        BY <1>0, <1>2, <1>6, <3>1
      <4> QED BY <2>2, <2>3, <3>1, <4>1
    <3>2. CASE o # st.taker
      <4> QED BY <1>0, <1>6, <2>2, <3>2 DEF Knows
    <3> QED BY <3>1, <3>2
  <2> QED BY <1>6, <1>a, <2>2, <2>4
<1>7. CASE a.kind # "value" /\ a.opt \in known
  <2> DEFINE taker == IF a.kind = "short" /\ a.val = NULL THEN a.opt ELSE NULL
  <2>1. new = [st EXCEPT !.option[a.opt] = a.val, !.taker = taker]
    BY <1>7 DEF Argument, States
  <2> HIDE DEF taker
  <2>2. /\ new.taker = taker /\ new.values = st.values
        /\ \A o \in known : new.option[o] = IF o = a.opt THEN a.val ELSE st.option[o]
    BY <1>7, <2>1 DEF States
  <2>3. a.val # Absent
    BY <1>0, <1>1, <1>7 DEF Arguments
  <2>4. \A o \in known : new.option[o] # Absent
                          <=> \E n \in 1..k : argv[n].kind # "value" /\ argv[n].opt = o
    <3> QED BY <1>0, <1>7, <2>2, <2>3 DEF Knows
  <2>5. new.taker = IF a.kind = "short" /\ a.val = NULL /\ a.opt \in known THEN a.opt ELSE NULL
    BY <1>7, <2>2 DEF taker
  <2> QED BY <1>7, <1>a, <2>2, <2>4, <2>5
<1>8. CASE a.kind # "value" /\ a.opt \notin known
  <2>1. new = [st EXCEPT !.taker = NULL]
    BY <1>8 DEF Argument, States
  <2>2. new.taker = NULL /\ new.values = st.values /\ new.option = st.option
    BY <2>1 DEF States
  <2>3. \A o \in known : new.option[o] # Absent
                          <=> \E n \in 1..k : argv[n].kind # "value" /\ argv[n].opt = o
    <3> QED BY <1>0, <1>8, <2>2 DEF Knows
  <2> QED BY <1>8, <1>a, <2>2, <2>3
<1> QED BY <1>5, <1>6, <1>7, <1>8

(* So it does after all of them, by induction.                             *)
LEMMA TurnsKnow ==
    ASSUME NEW known, NULL \notin known, NEW argv \in Seq(Arguments),
           NEW h \in [0..Len(argv) -> States(known)], Turns(h, argv, known)
    PROVE  \A k \in 0..Len(argv) : Knows(h[k], argv, k, known)
<1> DEFINE n == Len(argv)
           S == {k \in 1..n+1 : Knows(h[k-1], argv, k-1, known)}
<1>1. n \in Nat
  OBVIOUS
<1>2. ASSUME NEW k \in 1..n+1, \A j \in 1..k-1 : j \in S
      PROVE  k \in S
  <2>1. CASE k = 1
    <3>1. h[0] = Nothing(known) /\ 1..0 = {} /\ ~(0 > 0)
      BY DEF Turns
    <3>2. Knows(h[0], argv, 0, known)
      BY <3>1 DEF Knows, Nothing, Free
    <3> QED BY <2>1, <3>2
  <2>2. CASE k # 1
    <3> DEFINE j == k - 1
    <3>1. j \in 1..n /\ j \in 1..k-1 /\ j - 1 \in 0..n
      BY <1>1, <2>2
    <3>2. Knows(h[j-1], argv, j-1, known)
      BY <1>2, <3>1
    <3>3. h[j] = Argument(h[j-1], argv[j]) /\ h[j-1] \in States(known)
      BY <3>1 DEF Turns
    <3> HIDE DEF j
    <3>4. Knows(h[j], argv, j, known)
      BY <3>1, <3>2, <3>3, KnowsStep
    <3> QED BY <3>4 DEF j
  <2> QED BY <2>1, <2>2
<1>3. 1..n+1 \subseteq S
  <2>1. n + 1 \in Nat
    BY <1>1
  <2> HIDE DEF S
  <2> QED BY <1>2, <2>1, UpwardInduction
<1> SUFFICES ASSUME NEW k \in 0..n
             PROVE  Knows(h[k], argv, k, known)
  OBVIOUS
<1>4. k + 1 \in 1..n+1 /\ k + 1 - 1 = k
  BY <1>1
<1>5. k + 1 \in S
  BY <1>3, <1>4
<1>6. Knows(h[k+1-1], argv, k+1-1, known)
  BY <1>5
<1> QED BY <1>4, <1>6

(* At the end: the options given, the first value left over.               *)
LEMMA ParseKnows ==
    ASSUME NEW known, NULL \notin known, NEW argv \in Seq(Arguments)
    PROVE  /\ Parse(argv, known) \in States(known)
           /\ Knows(Parse(argv, known), argv, Len(argv), known)
<1>1. PICK h \in [0..Len(argv) -> States(known)] :
         Turns(h, argv, known) /\ Parse(argv, known) = h[Len(argv)]
  BY ParseTurns DEF Parses
<1>2. Len(argv) \in 0..Len(argv)
  OBVIOUS
<1>3. \A k \in 0..Len(argv) : Knows(h[k], argv, k, known)
  BY <1>1, TurnsKnow
<1> QED BY <1>1, <1>2, <1>3

(* If no value is taken by a short option, the long forms take the parser  *)
(* through the same options and values.                                    *)
LEMMA FormsSame ==
    ASSUME NEW known, NULL \notin known, NEW argv \in Seq(Arguments),
           \A n \in DOMAIN argv : ~Taken(argv, n, known)
    PROVE  /\ Parse(argv, known).option = Parse(InLongForm(argv), known).option
           /\ Parse(argv, known).values = Parse(InLongForm(argv), known).values
<1> DEFINE n == Len(argv)
           long == InLongForm(argv)
<1>1. n \in Nat /\ DOMAIN argv = 1..n /\ \A k \in 1..n : argv[k] \in Arguments
  OBVIOUS
<1>2. \A k \in 1..n : /\ long[k] \in Arguments /\ long[k].kind # "short"
                      /\ argv[k].kind = "value" => long[k] = argv[k]
                      /\ argv[k].kind # "value" => /\ long[k].kind # "value"
                                                   /\ long[k].opt = argv[k].opt
                                                   /\ long[k].val = argv[k].val
  BY <1>1 DEF InLongForm, Arguments
<1>3. long \in Seq(Arguments) /\ Len(long) = n
  <2>1. long = [k \in 1..n |-> long[k]]
    BY <1>1 DEF InLongForm
  <2> HIDE DEF long
  <2>2. [k \in 1..n |-> long[k]] \in Seq(Arguments) /\ Len([k \in 1..n |-> long[k]]) = n
    BY <1>1, <1>2, IsASeq
  <2> QED BY <2>1, <2>2
<1> HIDE DEF long
<1>4. PICK h \in [0..n -> States(known)] : Turns(h, argv, known) /\ Parse(argv, known) = h[n]
  BY ParseTurns DEF Parses
<1>5. PICK g \in [0..n -> States(known)] : Turns(g, long, known) /\ Parse(long, known) = g[n]
  BY <1>3, ParseTurns DEF Parses
<1>6. \A k \in 0..n : Knows(h[k], argv, k, known)
  BY <1>4, TurnsKnow
<1>7. \A k \in 0..n : Knows(g[k], long, k, known)
  BY <1>3, <1>5, TurnsKnow
<1> DEFINE Same(k) == h[k].option = g[k].option /\ h[k].values = g[k].values
           S == {k \in 1..n+1 : Same(k-1)}
<1>8. ASSUME NEW k \in 1..n, Same(k-1)
      PROVE  Same(k)
  <2> DEFINE st == h[k-1]
             sl == g[k-1]
  <2>1. k - 1 \in 0..n /\ (k - 1 > 0 => k > 1 /\ k - 1 \in 1..n)
    BY <1>1
  <2>2. /\ h[k] = Argument(st, argv[k]) /\ g[k] = Argument(sl, long[k])
        /\ st \in States(known) /\ sl \in States(known)
    BY <1>3, <1>4, <1>5, <2>1 DEF Turns
  <2>3. st.option = sl.option /\ st.values = sl.values
    BY <1>8
  <2>4. sl.taker = NULL
    BY <1>2, <1>7, <2>1 DEF Knows
  <2>5. argv[k].kind = "value" => st.taker = NULL
    <3>1. ~Taken(argv, k, known)
      BY <1>1
    <3>2. Knows(st, argv, k-1, known)
      BY <1>6, <2>1
    <3> HIDE DEF st
    <3> QED BY <2>1, <3>1, <3>2 DEF Taken, Knows
  <2> HIDE DEF st, sl
  <2>6. CASE argv[k].kind = "value"
    <3>1. long[k] = argv[k]
      BY <1>2, <2>6
    <3>2. h[k] = [st EXCEPT !.values = Append(@, argv[k].val)]
      BY <2>2, <2>5, <2>6 DEF Argument
    <3>3. g[k] = [sl EXCEPT !.values = Append(@, argv[k].val)]
      BY <2>2, <2>4, <2>6, <3>1 DEF Argument
    <3> QED BY <2>2, <2>3, <3>2, <3>3 DEF States
  <2>7. CASE argv[k].kind # "value" /\ argv[k].opt \in known
    <3> DEFINE t(a) == IF a.kind = "short" /\ a.val = NULL THEN a.opt ELSE NULL
    <3>1. long[k].kind # "value" /\ long[k].opt = argv[k].opt /\ long[k].val = argv[k].val
      BY <1>2, <2>7
    <3>2. h[k] = [st EXCEPT !.option[argv[k].opt] = argv[k].val, !.taker = t(argv[k])]
      BY <2>2, <2>7 DEF Argument, States
    <3>3. g[k] = [sl EXCEPT !.option[argv[k].opt] = argv[k].val, !.taker = t(long[k])]
      BY <2>2, <2>7, <3>1 DEF Argument, States
    <3> HIDE DEF t
    <3> QED BY <2>2, <2>3, <3>2, <3>3 DEF States
  <2>8. CASE argv[k].kind # "value" /\ argv[k].opt \notin known
    <3>1. long[k].kind # "value" /\ long[k].opt = argv[k].opt
      BY <1>2, <2>8
    <3>2. h[k] = [st EXCEPT !.taker = NULL]
      BY <2>2, <2>8 DEF Argument, States
    <3>3. g[k] = [sl EXCEPT !.taker = NULL]
      BY <2>2, <2>8, <3>1 DEF Argument, States
    <3> QED BY <2>2, <2>3, <3>2, <3>3 DEF States
  <2> QED BY <2>6, <2>7, <2>8
<1>9. ASSUME NEW k \in 1..n+1, \A j \in 1..k-1 : j \in S
      PROVE  k \in S
  <2>1. CASE k = 1
    <3>1. Same(0)
      BY <1>4, <1>5 DEF Turns
    <3> QED BY <2>1, <3>1
  <2>2. CASE k # 1
    <3> DEFINE j == k - 1
    <3>1. j \in 1..n /\ j \in 1..k-1
      BY <1>1, <2>2
    <3>2. Same(j-1)
      BY <1>9, <3>1
    <3> HIDE DEF Same, j
    <3>3. Same(j)
      BY <1>8, <3>1, <3>2
    <3> QED BY <3>3 DEF j
  <2> QED BY <2>1, <2>2
<1> HIDE DEF Same
<1>10. n + 1 \in 1..n+1 /\ n + 1 - 1 = n /\ n + 1 \in Nat
  BY <1>1
<1>11. n + 1 \in S
  <2> HIDE DEF S
  <2> QED BY <1>9, <1>10, UpwardInduction
<1>12. Same(n+1-1)
  BY <1>11
<1> QED BY <1>4, <1>5, <1>10, <1>12 DEF Same, long

-----------------------------------------------------------------------------
(* The configuration.                                                      *)

(* What stands between what is trimmed.                                    *)
LEMMA TrimTrims ==
    ASSUME NEW s \in Text, NEW l, NEW r, r \subseteq l
    PROVE  /\ Trim(s, l, r) \in Text
           /\ Trim(s, l, r) # <<>> => /\ Trim(s, l, r)[1] \notin l
                                      /\ Trim(s, l, r)[Len(Trim(s, l, r))] \notin r
<1> DEFINE from == {n \in DOMAIN s : s[n] \notin l}
           to   == {n \in DOMAIN s : s[n] \notin r}
           i == Min(from)
           j == Max(to)
<1>1. /\ Len(s) \in Nat /\ DOMAIN s = 1..Len(s) /\ <<>> \in Text /\ from \subseteq to
      /\ \A n \in 1..Len(s) : s[n] \in STRING
  BY DEF Text
<1>2. CASE from = {} \/ to = {}
  <2>1. Trim(s, l, r) = <<>>
    BY <1>2 DEF Trim
  <2> QED BY <1>1, <2>1
<1>3. CASE from # {} /\ to # {}
  <2>1. i \in from /\ \A y \in from : i <= y
    <3>1. from \subseteq Nat
      BY <1>1
    <3> HIDE DEF from
    <3> QED BY <1>3, <3>1, MinOfNats
  <2>2. j \in to /\ \A y \in to : y <= j
    <3>1. to \subseteq 0..Len(s)
      BY <1>1
    <3> HIDE DEF to
    <3> QED BY <1>1, <1>3, <3>1, MaxOfNats
  <2>3. i \in 1..Len(s) /\ j \in 1..Len(s) /\ s[i] \notin l /\ s[j] \notin r /\ i <= j
    BY <1>1, <2>1, <2>2
  <2>4. Trim(s, l, r) = SubSeq(s, i, j)
    BY <1>3 DEF Trim
  <2> HIDE DEF i, j
  <2>5. /\ i \in Int /\ j \in Int /\ \A k \in i..j : s[k] \in STRING
        /\ i + 1 - 1 = i /\ i + (j - i + 1) - 1 = j /\ j - i + 1 >= 1
    BY <1>1, <2>3
  <2>6. /\ SubSeq(s, i, j) \in Seq(STRING)
        /\ Len(SubSeq(s, i, j)) = IF i <= j THEN j - i + 1 ELSE 0
        /\ \A k \in 1..j-i+1 : SubSeq(s, i, j)[k] = s[i+k-1]
    BY <2>5, SubSeqProperties
  <2> DEFINE m == j - i + 1
  <2>7. m \in 1..m /\ 1 \in 1..m /\ i + m - 1 = j /\ m = j - i + 1
    BY <2>5
  <2> HIDE DEF m
  <2>8. SubSeq(s, i, j)[1] = s[i] /\ SubSeq(s, i, j)[m] = s[j] /\ Len(SubSeq(s, i, j)) = m
    BY <2>3, <2>5, <2>6, <2>7
  <2> QED BY <2>3, <2>4, <2>6, <2>8 DEF Text
<1> QED BY <1>2, <1>3

(* A part of a text is a text.                                             *)
LEMMA PartOf ==
    ASSUME NEW s \in Text, NEW i \in 1..Len(s)+1, NEW j \in 0..Len(s)
    PROVE  SubSeq(s, i, j) \in Text
<1>1. i \in Int /\ j \in Int /\ \A k \in i..j : s[k] \in STRING
  BY DEF Text
<1> QED BY <1>1, SubSeqProperties DEF Text

(* A line of a configuration file, as it is kept.                          *)
Neat(val) == val # <<>> => Trimmed(val)

(* A line of a configuration file, as it is kept.                          *)
Parsed == {NULL} \cup {e \in [key : Text, val : Text] : Trimmed(e.key) /\ Neat(e.val)}
Values == {m \in UNION {[D -> Text] : D \in SUBSET Text} :
              \A key \in DOMAIN m : Trimmed(key) /\ Neat(m[key])}

(* A line is left out, or a trimmed option with a trimmed value.           *)
LEMMA ParseLineType ==
    ASSUME NEW s \in Text
    PROVE  ParseLine(s) \in Parsed
<1> DEFINE I  == {i \in 1..Len(s) : s[i] = "="}
           eq == SelectInSeq(s, LAMBDA c : c = "=")
           key == Trim(SubSeq(s, 1, eq - 1), Blank, Blank)
           val == Trim(SubSeq(s, eq, Len(s)), Blank \cup {"="}, Blank)
<1>1. eq = IF I # {} THEN Min(I) ELSE 0
  BY DEF SelectInSeq
<1>2. Len(s) \in Nat /\ I \subseteq 1..Len(s) /\ I \subseteq Nat
  BY DEF Text
<1>3. eq # 0 => eq \in 1..Len(s)
  <2> HIDE DEF I, eq
  <2> QED BY <1>1, <1>2, MinOfNats
<1>4. ParseLine(s) = IF IsComment(s) \/ eq = 0 \/ key = <<>> THEN NULL ELSE [key |-> key, val |-> val]
  BY DEF ParseLine
<1>5. CASE eq # 0 /\ key # <<>>
  <2> HIDE DEF eq
  <2>1. 1 \in 1..Len(s)+1 /\ eq - 1 \in 0..Len(s) /\ eq \in 1..Len(s)+1 /\ Len(s) \in 0..Len(s)
    BY <1>2, <1>3, <1>5
  <2>2. SubSeq(s, 1, eq - 1) \in Text /\ SubSeq(s, eq, Len(s)) \in Text
    BY <2>1, PartOf
  <2>3. key \in Text /\ (key # <<>> => key[1] \notin Blank /\ key[Len(key)] \notin Blank)
    BY <2>2, TrimTrims
  <2>4. /\ val \in Text
        /\ val # <<>> => val[1] \notin Blank \cup {"="} /\ val[Len(val)] \notin Blank
    BY <2>2, TrimTrims
  <2> HIDE DEF key, val
  <2>5. [key |-> key, val |-> val] \in Parsed
    BY <1>5, <2>3, <2>4 DEF Parsed, Trimmed, Neat
  <2> QED BY <1>4, <2>5 DEF Parsed
<1>6. CASE ~(eq # 0 /\ key # <<>>)
  <2>1. ParseLine(s) = NULL
    BY <1>4, <1>6
  <2> QED BY <2>1 DEF Parsed
<1> QED BY <1>5, <1>6

(* What getline delivers of lines are lines.                               *)
LEMMA LinesReadType ==
    ASSUME NEW lines \in Seq(Text)
    PROVE  LinesRead(lines) \in Seq(Text)
<1> DEFINE long == {n \in DOMAIN lines : Len(lines[n]) >= LineSize}
           T == long \cup {Len(lines)}
           m == Min(T)
           Piece(n) == SubSeq(lines[n], 1, Min({Len(lines[n]), LineSize - 1}))
<1>1. Len(lines) \in Nat /\ DOMAIN lines = 1..Len(lines) /\ \A n \in 1..Len(lines) : lines[n] \in Text
  OBVIOUS
<1>2. T \subseteq Nat /\ T # {} /\ Len(lines) \in T
  BY <1>1
<1>3. m \in Nat /\ m <= Len(lines)
  <2> HIDE DEF T
  <2> QED BY <1>2, MinOfNats
<1>4. LinesRead(lines) = [n \in 1..m |-> Piece(n)]
  BY DEF LinesRead
<1> HIDE DEF m
<1>5. ASSUME NEW n \in 1..m
      PROVE  Piece(n) \in Text
  <2> DEFINE s == lines[n]
             U == {Len(s), LineSize - 1}
  <2>1. s \in Text /\ Len(s) \in Nat
    BY <1>1, <1>3 DEF Text
  <2>2. U \subseteq Nat /\ U # {} /\ Len(s) \in U
    BY <2>1, StartupAssumption
  <2>3. Min(U) \in Nat /\ Min(U) <= Len(s)
    <3> HIDE DEF U
    <3> QED BY <2>2, MinOfNats
  <2>4. 1 \in 1..Len(s)+1 /\ Min(U) \in 0..Len(s)
    <3> HIDE DEF U
    <3> QED BY <2>1, <2>3
  <2> HIDE DEF s, U
  <2>5. SubSeq(s, 1, Min(U)) \in Text
    BY <2>1, <2>4, PartOf
  <2> QED BY <2>5 DEF s, U
<1> HIDE DEF Piece
<1>6. [n \in 1..m |-> Piece(n)] \in Seq(Text)
  BY <1>3, <1>5, IsASeq
<1> QED BY <1>4, <1>6

(* A line that is kept leaves a configuration.                             *)
LEMMA InsertType ==
    ASSUME NEW m \in Values, NEW e \in Parsed
    PROVE  Insert(m, e) \in Values
<1>1. CASE e = NULL \/ e.key \in DOMAIN m
  BY <1>1 DEF Insert
<1>2. CASE ~(e = NULL \/ e.key \in DOMAIN m)
  <2>1. e.key \in Text /\ e.val \in Text /\ Trimmed(e.key) /\ Neat(e.val)
    BY <1>2 DEF Parsed
  <2> DEFINE D == DOMAIN m \cup {e.key}
             new == [k \in D |-> IF k = e.key THEN e.val ELSE m[k]]
  <2>2. Insert(m, e) = new
    BY <1>2 DEF Insert
  <2>3. m \in [DOMAIN m -> Text] /\ DOMAIN m \subseteq Text /\ \A key \in DOMAIN m : Trimmed(key) /\ Neat(m[key])
    BY DEF Values
  <2>4. new \in [D -> Text] /\ D \in SUBSET Text
    BY <2>1, <2>3
  <2>5. \A key \in DOMAIN new : Trimmed(key) /\ Neat(new[key])
    BY <2>1, <2>3
  <2> HIDE DEF new, D
  <2> QED BY <2>2, <2>4, <2>5 DEF Values
<1> QED BY <1>1, <1>2

(* Line by line a configuration grows.                                     *)
Grows(h, read) ==
    h[0] = <<>> /\ \A k \in 1..Len(read) : h[k] = Insert(h[k-1], ParseLine(read[k]))
GrowsTo(m, read) ==
    \E h \in [0..Len(read) -> Values] : Grows(h, read) /\ h[Len(read)] = m

(* What Load returns has grown line by line from nothing.                  *)
LEMMA LoadGrows ==
    ASSUME NEW lines \in Seq(Text)
    PROVE  GrowsTo(Load(lines), LinesRead(lines))
<1> DEFINE read == LinesRead(lines)
           parsed == [k \in DOMAIN read |-> ParseLine(read[k])]
           n == Len(parsed)
           V == Values
           base == <<>>
           F == [k \in 1..n |-> [m \in V |-> Insert(m, parsed[k])]]
           Body(g, s) == IF s = {} THEN base ELSE Insert(g[s \ {Max(s)}], parsed[Max(s)])
           iter == CHOOSE g : g = [s \in SUBSET (1..n) |-> Body(g, s)]
<1>0. read \in Seq(Text) /\ Len(read) \in Nat
  BY LinesReadType
<1> HIDE DEF read
<1>1. parsed \in Seq(Parsed) /\ n = Len(read) /\ \A k \in 1..n : parsed[k] = ParseLine(read[k])
  <2>1. read \in Seq(Text)
    BY <1>0
  <2>2. DOMAIN read = 1..Len(read) /\ Len(read) \in Nat /\ \A k \in 1..Len(read) : ParseLine(read[k]) \in Parsed
    BY <2>1, ParseLineType
  <2> QED BY <2>2, IsASeq
<1>2. Load(lines) = iter[DOMAIN parsed]
  <2>1. DOMAIN parsed = 1..n
    <3> HIDE DEF parsed
    <3> QED BY <1>1
  <2>2. Load(lines) = (CHOOSE g : g = [s \in SUBSET (DOMAIN parsed) |-> Body(g, s)])[DOMAIN parsed]
    BY DEF Load, FoldLeft, MapThenFoldSet, read
  <2> HIDE DEF parsed, Body
  <2> QED BY <2>1, <2>2
<1> HIDE DEF parsed
<1>3. n \in Nat /\ DOMAIN parsed = 1..n /\ \A k \in 1..n : parsed[k] \in Parsed
  BY <1>1
<1>4. base \in V
  <2>1. base \in [{} -> Text] /\ DOMAIN base = {}
    OBVIOUS
  <2> QED BY <2>1 DEF Values
<1>5. F \in [1..n -> [V -> V]]
  BY <1>3, InsertType
<1>6. PICK g \in [SUBSET (1..n) -> V] : Folds(g, base, F)
  <2> HIDE DEF F, V, base, n
  <2> QED BY <1>3, <1>4, <1>5, FoldExists
<1>7. g = [s \in SUBSET (1..n) |-> Body(g, s)]
  <2>1. ASSUME NEW s \in SUBSET (1..n)
        PROVE  g[s] = Body(g, s)
    <3>1. CASE s = {}
      BY <1>6, <3>1 DEF Folds
    <3>2. CASE s # {}
      <4>1. s \subseteq 0..n
        OBVIOUS
      <4>2. Max(s) \in 1..n
        BY <1>3, <3>2, <4>1, MaxOfNats
      <4>3. g[s] = F[Max(s)][g[s \ {Max(s)}]] /\ g[s \ {Max(s)}] \in V
        BY <1>6, <3>2 DEF Folds
      <4> QED BY <3>2, <4>2, <4>3
    <3> QED BY <3>1, <3>2
  <2> HIDE DEF Body
  <2> QED BY <1>6, <2>1
<1>8. iter = [s \in SUBSET (1..n) |-> Body(iter, s)]
  <2> HIDE DEF Body
  <2> QED BY <1>7
<1> HIDE DEF Body, iter
<1>9. iter[{}] = base
  <2>1. {} \in SUBSET (1..n)
    OBVIOUS
  <2>2. iter[{}] = Body(iter, {})
    BY <1>8, <2>1
  <2> QED BY <2>2 DEF Body
<1>10. ASSUME NEW k \in 1..n, iter[1..k-1] \in V
      PROVE  iter[1..k] = F[k][iter[1..k-1]]
  <2>1. 1..k \in SUBSET (1..n) /\ k \in Nat \ {0}
    BY <1>3
  <2>2. Max(1..k) = k /\ (1..k) \ {k} = 1..k-1 /\ 1..k # {}
    BY <2>1, Segment
  <2>3. iter[1..k] = Body(iter, 1..k)
    BY <1>8, <2>1
  <2> QED BY <1>10, <2>2, <2>3 DEF Body
<1>11. PICK h \in [0..n -> V] : Passes(h, base, F) /\ h[n] = iter[1..n]
  <2> HIDE DEF V, base, F
  <2>1. Folding(iter, base, F, V, n)
    BY <1>9, <1>10 DEF Folding
  <2>2. Folded(iter[1..n], base, F, V, n)
    BY <1>3, <1>4, <1>5, <2>1, FoldSegments
  <2> QED BY <2>2 DEF Folded
<1>12. h[0] = <<>> /\ \A k \in 1..n : h[k] = Insert(h[k-1], parsed[k])
  <2>1. \A k \in 1..n : h[k-1] \in V
    <3>1. \A k \in 1..n : k - 1 \in 0..n
      BY <1>3
    <3> QED BY <1>11, <3>1
  <2> QED BY <1>11, <2>1 DEF Passes
<1>13. Grows(h, read) /\ h[Len(read)] = Load(lines) /\ h \in [0..Len(read) -> Values]
  BY <1>1, <1>2, <1>3, <1>11, <1>12 DEF Grows
<1> QED BY <1>13 DEF GrowsTo, read

(* What Load returns is a configuration: trimmed options with trimmed      *)
(* values.                                                                 *)
LEMMA LoadType ==
    ASSUME NEW lines \in Seq(Text)
    PROVE  Load(lines) \in Values
<1>1. LinesRead(lines) \in Seq(Text)
  BY LinesReadType
<1>2. Len(LinesRead(lines)) \in 0..Len(LinesRead(lines))
  BY <1>1
<1> QED BY <1>2, LoadGrows DEF GrowsTo

-----------------------------------------------------------------------------
(* What authors write, and what is made of it.                             *)

(* From i to j there is what is not to be trimmed.                         *)
Stays(s, l, r, i, j) ==
    /\ i <= j /\ s[i] \notin l /\ s[j] \notin r
    /\ \A n \in 1..i-1 : s[n] \in l
    /\ \A n \in j+1..Len(s) : s[n] \in r

(* Trimming leaves exactly that.                                           *)
LEMMA TrimLeaves ==
    ASSUME NEW s \in Text, NEW l, NEW r, NEW i \in 1..Len(s), NEW j \in 1..Len(s),
           Stays(s, l, r, i, j)
    PROVE  Trim(s, l, r) = SubSeq(s, i, j)
<1> USE DEF Stays
<1> DEFINE from == {n \in DOMAIN s : s[n] \notin l}
           to   == {n \in DOMAIN s : s[n] \notin r}
<1>1. Len(s) \in Nat /\ DOMAIN s = 1..Len(s)
  BY DEF Text
<1>2. i \in from /\ j \in to /\ from \subseteq Nat /\ to \subseteq 0..Len(s)
  BY <1>1
<1>3. (\A y \in from : i <= y) /\ \A y \in to : y <= j
  <2>1. ASSUME NEW y \in from, ~(i <= y)
        PROVE  FALSE
    <3>1. y \in 1..i-1
      BY <1>1, <2>1
    <3> QED BY <2>1, <3>1
  <2>2. ASSUME NEW y \in to, ~(y <= j)
        PROVE  FALSE
    <3>1. y \in j+1..Len(s)
      BY <1>1, <2>2
    <3> QED BY <2>2, <3>1
  <2> QED BY <2>1, <2>2
<1>4. Trim(s, l, r) = SubSeq(s, Min(from), Max(to))
  <2>1. from # {} /\ to # {}
    BY <1>2
  <2> QED BY <2>1 DEF Trim
<1> HIDE DEF from, to
<1>5. Min(from) = i
  BY <1>2, <1>3, LeastIs
<1>6. Max(to) = j
  BY <1>1, <1>2, <1>3, GreatestIs
<1> QED BY <1>4, <1>5, <1>6

(* Nothing is left of what is only to be trimmed.                          *)
LEMMA TrimNothing ==
    ASSUME NEW s, NEW l, NEW r, \A n \in DOMAIN s : s[n] \in l
    PROVE  Trim(s, l, r) = <<>>
  BY DEF Trim

(* A part of a line, letter by letter.                                     *)
LEMMA Letters ==
    ASSUME NEW s \in Text, NEW i \in 1..Len(s)+1, NEW j \in 0..Len(s), i <= j + 1
    PROVE  /\ SubSeq(s, i, j) \in Text /\ Len(SubSeq(s, i, j)) = j - i + 1
           /\ \A k \in 1..j-i+1 : SubSeq(s, i, j)[k] = s[i+k-1]
<1>1. Len(s) \in Nat /\ \A n \in 1..Len(s) : s[n] \in STRING
  BY DEF Text
<1>2. i \in Int /\ j \in Int /\ \A k \in i..j : s[k] \in STRING
  BY <1>1
<1>3. /\ Len(SubSeq(s, i, j)) = IF i <= j THEN j - i + 1 ELSE 0
      /\ \A k \in 1..j-i+1 : SubSeq(s, i, j)[k] = s[i+k-1]
  BY <1>2, SubSeqProperties
<1>4. i <= j \/ j - i + 1 = 0
  BY <1>1
<1> QED BY <1>3, <1>4, PartOf

(* The first equals sign is found.                                         *)
LEMMA FirstEquals ==
    ASSUME NEW s \in Text, NEW eq \in 1..Len(s), s[eq] = "=", \A n \in 1..eq-1 : s[n] # "="
    PROVE  SelectInSeq(s, LAMBDA c : c = "=") = eq
<1> DEFINE I == {i \in 1..Len(s) : s[i] = "="}
<1>1. SelectInSeq(s, LAMBDA c : c = "=") = IF I # {} THEN Min(I) ELSE 0
  BY DEF SelectInSeq
<1>2. Len(s) \in Nat /\ eq \in I /\ I \subseteq Nat
  BY DEF Text
<1>3. \A y \in I : eq <= y
  <2> SUFFICES ASSUME NEW y \in I, ~(eq <= y)
               PROVE  FALSE
    OBVIOUS
  <2>1. y \in 1..eq-1
    BY <1>2
  <2> QED BY <2>1
<1> HIDE DEF I
<1>4. Min(I) \in I /\ \A y \in I : Min(I) <= y
  BY <1>2, MinOfNats
<1> QED BY <1>1, <1>2, <1>3, <1>4

(* Options and values are texts.                                           *)
LEMMA AssignsTexts ==
    ASSUME NEW s \in Text, NEW key, NEW val, Assigns(s, key, val)
    PROVE  <<key>> \in Text /\ val \in Text
<1>0. Len(s) \in Nat /\ DOMAIN s = 1..Len(s) /\ \A n \in 1..Len(s) : s[n] \in STRING
  BY DEF Text
<1>1. PICK i \in 1..Len(s), v \in 1..Len(s)+1, end \in 1..Len(s)+1 :
         v <= end /\ s[i] = key /\ val = SubSeq(s, v, end - 1)
  BY <1>0 DEF Assigns
<1>2. end - 1 \in 0..Len(s)
  BY <1>0
<1>3. val \in Text
  BY <1>1, <1>2, PartOf
<1>4. key \in STRING
  BY <1>0, <1>1
<1>5. <<key>> \in Seq(STRING)
  BY <1>4, One
<1> QED BY <1>3, <1>5 DEF Text

(* A line that assigns is kept as the option and the value it means.       *)
LEMMA AssignmentKept ==
    ASSUME NEW s \in Text, NEW key, NEW val, Assigns(s, key, val)
    PROVE  ParseLine(s) = [key |-> <<key>>, val |-> val]
<1>0. Len(s) \in Nat /\ DOMAIN s = 1..Len(s)
  BY DEF Text
<1>1. PICK i \in 1..Len(s), eq \in 1..Len(s), v \in 1..Len(s)+1, end \in 1..Len(s)+1 :
        /\ i < eq /\ eq < v /\ v <= end
        /\ s[i] = key /\ key \notin Blank \cup {"=", "#"}
        /\ s[eq] = "="
        /\ val = SubSeq(s, v, end - 1)
        /\ val # <<>> => Trimmed(val) /\ val[1] # "="
        /\ \A n \in 1..eq-1 : n # i => s[n] \in Blank
        /\ \A n \in eq+1..v-1 : s[n] \in Blank \cup {"="}
        /\ \A n \in end..Len(s) : s[n] \in Blank
  BY <1>0 DEF Assigns
<1> DEFINE w == end - v
<1>2. /\ w \in Nat /\ val \in Text /\ Len(val) = w
      /\ \A k \in 1..w : val[k] = s[v+k-1]
  <2> DEFINE x == end - 1
  <2>1. v \in 1..Len(s)+1 /\ x \in 0..Len(s) /\ v <= x + 1 /\ x - v + 1 = w /\ w \in Nat
    BY <1>0, <1>1
  <2>2. val = SubSeq(s, v, x)
    BY <1>1
  <2> HIDE DEF x, w
  <2>3. /\ val \in Text /\ Len(val) = x - v + 1
        /\ \A k \in 1..x-v+1 : val[k] = s[v+k-1]
    BY <2>1, <2>2, Letters
  <2> QED BY <2>1, <2>3
<1>3. "=" \notin Blank
  BY DEF Blank
<1>4. SelectInSeq(s, LAMBDA c : c = "=") = eq
  <2>1. \A n \in 1..eq-1 : s[n] # "="
    BY <1>1, <1>3
  <2> QED BY <1>1, <2>1, FirstEquals
<1>5. ~IsComment(s)
  <2> SUFFICES ASSUME NEW n \in 1..Len(s), s[n] = "#", \A k \in 1..n-1 : s[k] \in Blank
               PROVE  FALSE
    BY <1>0 DEF IsComment
  <2>1. "#" \notin Blank /\ "#" # "="
    BY DEF Blank
  <2>2. CASE n < eq
    <3>1. n \in 1..eq-1
      BY <2>2
    <3>2. n = i
      BY <1>1, <2>1, <3>1
    <3> QED BY <1>1, <3>2
  <2>3. CASE n >= eq
    <3>1. n = eq \/ eq \in 1..n-1
      BY <2>3
    <3> QED BY <1>1, <1>3, <2>1, <3>1
  <2> QED BY <2>2, <2>3
<1>6. Trim(SubSeq(s, 1, eq - 1), Blank, Blank) = <<key>>
  <2> DEFINE t == SubSeq(s, 1, eq - 1)
  <2>1. 1 \in 1..Len(s)+1 /\ eq - 1 \in 0..Len(s) /\ 1 <= eq - 1 + 1 /\ eq - 1 - 1 + 1 = eq - 1
    BY <1>0
  <2>2. t \in Text /\ Len(t) = eq - 1 - 1 + 1 /\ \A k \in 1..eq-1-1+1 : t[k] = s[1+k-1]
    BY <2>1, Letters
  <2>3. t \in Text /\ Len(t) = eq - 1 /\ \A k \in 1..eq-1 : t[k] = s[k]
    BY <2>1, <2>2
  <2> HIDE DEF t
  <2>4. t \in Text /\ i \in 1..Len(t) /\ i <= i /\ t[i] = key /\ t[i] \notin Blank
    BY <1>1, <2>3
  <2>5. (\A n \in 1..i-1 : t[n] \in Blank) /\ \A n \in i+1..Len(t) : t[n] \in Blank
    BY <1>1, <2>3
  <2>6. Trim(t, Blank, Blank) = SubSeq(t, i, i)
    <3>1. Stays(t, Blank, Blank, i, i)
      BY <2>4, <2>5 DEF Stays
    <3> QED BY <2>4, <3>1, TrimLeaves
  <2>7. SubSeq(t, i, i) = <<t[i]>>
    <3>1. i \in 1..Len(t)+1 /\ i \in 0..Len(t) /\ i <= i + 1 /\ i - i + 1 = 1 /\ i + 1 - 1 = i
      BY <2>3, <2>4
    <3>2. /\ SubSeq(t, i, i) \in Text /\ Len(SubSeq(t, i, i)) = i - i + 1
          /\ \A k \in 1..i-i+1 : SubSeq(t, i, i)[k] = t[i+k-1]
      BY <2>3, <3>1, Letters
    <3>3. Len(SubSeq(t, i, i)) = 1 /\ SubSeq(t, i, i)[1] = t[i]
      BY <3>1, <3>2
    <3>4. <<t[i]>> \in Seq(STRING) /\ Len(<<t[i]>>) = 1 /\ <<t[i]>>[1] = t[i]
      BY <2>4, One DEF Text
    <3>5. SubSeq(t, i, i) \in Seq(STRING)
      BY <3>2 DEF Text
    <3> DEFINE x == SubSeq(t, i, i)
               y == <<t[i]>>
    <3>6. x \in Seq(STRING) /\ y \in Seq(STRING) /\ Len(x) = 1 /\ Len(y) = 1 /\ x[1] = y[1]
      BY <3>3, <3>4, <3>5
    <3> HIDE DEF x, y
    <3>7. x = y
      BY <3>6, SeqEqual
    <3> QED BY <3>7 DEF x, y
  <2> QED BY <2>4, <2>6, <2>7 DEF t
<1>7. Trim(SubSeq(s, eq, Len(s)), Blank \cup {"="}, Blank) = val
  <2> DEFINE t == SubSeq(s, eq, Len(s))
             m == Len(s) - eq + 1
  <2>1. eq \in 1..Len(s)+1 /\ Len(s) \in 0..Len(s) /\ eq <= Len(s) + 1
    BY <1>0
  <2>2. t \in Text /\ Len(t) = m /\ \A k \in 1..m : t[k] = s[eq+k-1]
    BY <2>1, Letters
  <2>3. m \in Nat
    BY <1>0
  <2> HIDE DEF t
  <2>4. CASE w = 0
    <3>1. ASSUME NEW n \in 1..m
          PROVE  t[n] \in Blank \cup {"="}
      <4>1. eq + n - 1 \in eq..Len(s) /\ t[n] = s[eq+n-1]
        BY <1>0, <2>2
      <4>2. \/ eq + n - 1 = eq \/ eq + n - 1 \in eq+1..v-1 \/ eq + n - 1 \in end..Len(s)
        BY <1>0, <1>1, <2>4, <4>1
      <4> QED BY <1>1, <4>1, <4>2
    <3>2. DOMAIN t = 1..m
      BY <2>2, <2>3 DEF Text
    <3>3. Trim(t, Blank \cup {"="}, Blank) = <<>>
      BY <3>1, <3>2, TrimNothing
    <3>4. val = <<>>
      BY <1>2, <2>4 DEF Text
    <3> QED BY <3>3, <3>4 DEF t
  <2>5. CASE w # 0
    <3> DEFINE a == v - eq + 1
               b == v - eq + w
    <3>0. val # <<>>
      BY <1>2, <2>5 DEF Text
    <3>1. /\ a \in 1..m /\ b \in 1..m /\ a <= b
          /\ eq + a - 1 = v /\ eq + b - 1 = end - 1
      BY <1>0, <1>1, <1>2, <2>5
    <3>2. \A k \in 1..w : t[a+k-1] = val[k]
      <4> SUFFICES ASSUME NEW k \in 1..w
                   PROVE  t[a+k-1] = val[k]
        OBVIOUS
      <4>1. a + k - 1 \in 1..m /\ eq + (a + k - 1) - 1 = v + k - 1
        BY <1>0, <1>1, <1>2, <3>1
      <4>2. t[a+k-1] = s[v+k-1]
        BY <2>2, <4>1
      <4> QED BY <1>2, <4>2
    <3>3. t[a] = val[1] /\ t[b] = val[w]
      <4>1. 1 \in 1..w /\ w \in 1..w /\ a + 1 - 1 = a /\ a + w - 1 = b
        BY <1>0, <1>1, <1>2, <2>5
      <4>2. t[a+1-1] = val[1] /\ t[a+w-1] = val[w]
        BY <3>2, <4>1
      <4> HIDE DEF a, b
      <4> QED BY <4>1, <4>2
    <3>4. t[a] \notin Blank \cup {"="} /\ t[b] \notin Blank
      BY <1>1, <3>0, <3>3 DEF Trimmed
    <3>5. \A n \in 1..a-1 : t[n] \in Blank \cup {"="}
      <4> SUFFICES ASSUME NEW n \in 1..a-1
                   PROVE  t[n] \in Blank \cup {"="}
        OBVIOUS
      <4>1. n \in 1..m /\ (eq + n - 1 = eq \/ eq + n - 1 \in eq+1..v-1)
        BY <1>0, <1>1, <3>1
      <4> QED BY <1>1, <2>2, <4>1
    <3>6. \A n \in b+1..m : t[n] \in Blank
      <4> SUFFICES ASSUME NEW n \in b+1..m
                   PROVE  t[n] \in Blank
        OBVIOUS
      <4>1. n \in 1..m /\ eq + n - 1 \in end..Len(s)
        BY <1>0, <1>1, <1>2, <3>1
      <4> QED BY <1>1, <2>2, <4>1
    <3>7. b - a + 1 = w
      BY <1>0, <1>1, <1>2
    <3> HIDE DEF a, b, m
    <3>8. Trim(t, Blank \cup {"="}, Blank) = SubSeq(t, a, b)
      <4>1. Stays(t, Blank \cup {"="}, Blank, a, b)
        BY <2>2, <3>1, <3>4, <3>5, <3>6 DEF Stays
      <4>2. t \in Text /\ a \in 1..Len(t) /\ b \in 1..Len(t)
        BY <2>2, <3>1
      <4> QED BY <4>1, <4>2, TrimLeaves
    <3>9. a \in 1..Len(t)+1 /\ b \in 0..Len(t) /\ a <= b + 1
      BY <2>2, <2>3, <3>1
    <3>10. /\ SubSeq(t, a, b) \in Text /\ Len(SubSeq(t, a, b)) = b - a + 1
           /\ \A k \in 1..b-a+1 : SubSeq(t, a, b)[k] = t[a+k-1]
      BY <2>2, <3>9, Letters
    <3>11. Len(SubSeq(t, a, b)) = w /\ \A k \in 1..w : SubSeq(t, a, b)[k] = val[k]
      BY <3>2, <3>7, <3>10
    <3> HIDE DEF w
    <3>12. SubSeq(t, a, b) = val
      BY <1>2, <3>10, <3>11, SeqEqual DEF w, Text
    <3> QED BY <3>8, <3>12 DEF t
  <2> QED BY <2>4, <2>5
<1>8. <<key>> # <<>> /\ eq # 0
  BY <1>0
<1> HIDE DEF w
<1> QED BY <1>4, <1>5, <1>6, <1>7, <1>8 DEF ParseLine

(* A line that assigns nothing is left out.                                *)
LEMMA NothingKept ==
    ASSUME NEW s \in Text, AssignsNothing(s)
    PROVE  ParseLine(s) = NULL
<1>0. Len(s) \in Nat /\ DOMAIN s = 1..Len(s)
  BY DEF Text
<1>1. CASE IsComment(s)
  BY <1>1 DEF ParseLine
<1>2. CASE \A n \in 1..Len(s) : s[n] # "="
  <2> DEFINE I == {i \in 1..Len(s) : s[i] = "="}
  <2>1. SelectInSeq(s, LAMBDA c : c = "=") = IF I # {} THEN Min(I) ELSE 0
    BY DEF SelectInSeq
  <2>2. SelectInSeq(s, LAMBDA c : c = "=") = 0
    BY <1>2, <2>1
  <2> QED BY <2>2 DEF ParseLine
<1>3. ASSUME NEW eq \in 1..Len(s), s[eq] = "=", \A n \in 1..eq-1 : s[n] \in Blank
      PROVE  ParseLine(s) = NULL
  <2>1. SelectInSeq(s, LAMBDA c : c = "=") = eq
    <3>1. \A n \in 1..eq-1 : s[n] # "="
      BY <1>3 DEF Blank
    <3> QED BY <1>3, <3>1, FirstEquals
  <2> DEFINE t == SubSeq(s, 1, eq - 1)
  <2>2. 1 \in 1..Len(s)+1 /\ eq - 1 \in 0..Len(s) /\ 1 <= eq - 1 + 1 /\ eq - 1 - 1 + 1 = eq - 1
    BY <1>0
  <2>3. t \in Text /\ Len(t) = eq - 1 - 1 + 1 /\ \A k \in 1..eq-1-1+1 : t[k] = s[1+k-1]
    BY <2>2, Letters
  <2>4. DOMAIN t = 1..eq-1 /\ \A k \in 1..eq-1 : t[k] = s[k]
    BY <2>2, <2>3 DEF Text
  <2> HIDE DEF t
  <2>5. Trim(t, Blank, Blank) = <<>>
    <3>1. \A n \in DOMAIN t : t[n] \in Blank
      BY <1>3, <2>4
    <3> QED BY <3>1, TrimNothing
  <2> QED BY <2>1, <2>5 DEF ParseLine, t
<1> QED BY <1>0, <1>1, <1>2, <1>3 DEF AssignsNothing

(* Of lines that are short enough nothing is lost.                         *)
LEMMA LinesReadWhole ==
    ASSUME NEW lines \in Seq(Text), \A n \in DOMAIN lines : Len(lines[n]) < LineSize
    PROVE  LinesRead(lines) = lines
<1> DEFINE long == {n \in DOMAIN lines : Len(lines[n]) >= LineSize}
           Piece(n) == SubSeq(lines[n], 1, Min({Len(lines[n]), LineSize - 1}))
<1>1. Len(lines) \in Nat /\ DOMAIN lines = 1..Len(lines) /\ \A n \in 1..Len(lines) : lines[n] \in Text
  OBVIOUS
<1>2. long = {}
  <2>1. \A n \in 1..Len(lines) : Len(lines[n]) \in Nat
    BY <1>1 DEF Text
  <2> QED BY <1>1, <2>1, StartupAssumption
<1>3. Min(long \cup {Len(lines)}) = Len(lines)
  <2> DEFINE T == long \cup {Len(lines)}
  <2>1. T \subseteq Nat /\ T # {} /\ \A x \in T : x = Len(lines)
    BY <1>1, <1>2
  <2> HIDE DEF T
  <2>2. Min(T) \in T
    BY <2>1, MinOfNats
  <2>3. Min(T) = Len(lines)
    BY <2>1, <2>2
  <2> QED BY <2>3 DEF T
<1>4. LinesRead(lines) = [n \in 1..Len(lines) |-> Piece(n)]
  BY <1>3 DEF LinesRead
<1>5. ASSUME NEW n \in 1..Len(lines)
      PROVE  Piece(n) = lines[n]
  <2> DEFINE s == lines[n]
             U == {Len(s), LineSize - 1}
  <2>1. s \in Text /\ Len(s) \in Nat /\ Len(s) <= LineSize - 1 /\ LineSize - 1 \in Nat
    <3>1. s \in Text /\ Len(s) \in Nat
      BY <1>1 DEF Text
    <3>2. Len(s) < LineSize
      BY <1>1
    <3> HIDE DEF s
    <3> QED BY <3>1, <3>2, StartupAssumption
  <2>2. U \subseteq Nat /\ U # {} /\ Len(s) \in U /\ \A x \in U : Len(s) <= x
    <3> HIDE DEF s
    <3> QED BY <2>1
  <2>3. Min(U) = Len(s)
    <3> HIDE DEF U, s
    <3> QED BY <2>2, LeastIs
  <2>4. SubSeq(s, 1, Len(s)) = s
    <3> HIDE DEF s
    <3>1. 1 \in 1..Len(s)+1 /\ Len(s) \in 0..Len(s) /\ 1 <= Len(s) + 1 /\ Len(s) - 1 + 1 = Len(s)
      BY <2>1
    <3>2. /\ SubSeq(s, 1, Len(s)) \in Text /\ Len(SubSeq(s, 1, Len(s))) = Len(s) - 1 + 1
          /\ \A k \in 1..Len(s)-1+1 : SubSeq(s, 1, Len(s))[k] = s[1+k-1]
      BY <2>1, <3>1, Letters
    <3>3. /\ Len(SubSeq(s, 1, Len(s))) = Len(s)
          /\ \A k \in 1..Len(s) : SubSeq(s, 1, Len(s))[k] = s[k]
      BY <3>1, <3>2
    <3> QED BY <2>1, <3>2, <3>3, SeqEqual DEF Text
  <2>5. SubSeq(s, 1, Min(U)) = s
    BY <2>3, <2>4
  <2> QED BY <2>5
<1> HIDE DEF Piece
<1> QED BY <1>1, <1>4, <1>5

-----------------------------------------------------------------------------
(* What incrontab does.                                                    *)

(* Where a process can be.                                                 *)
Stages == {"start", "load", "default", "allow", "deny", "call", "serve", "lock", "run", "end"}

(* No option is the missing one, whatever the program.                     *)
LEMMA NullUnknown ==
    ASSUME NEW c \in Commands
    PROVE  NULL \notin Known(c.program)
<1>1. c.program \in {"incrontab", "incrond", "none"}
  BY DEF Commands
<1>2. CASE c.program \in {"incrontab", "incrond"}
  BY <1>2, KnownAssumption
<1>3. CASE c.program = "none"
  <2>1. Known("none") = Known("incrond")
    BY DEF Known
  <2> QED BY <1>3, <2>1, KnownAssumption
<1> QED BY <1>1, <1>2, <1>3

(* What has been asked and let through.                                    *)
Granted(p) ==
    /\ pc[p] \notin {"serve", "lock", "run"}
    /\ pc[p] \notin {"start", "end"} => ~Invalid(p)
    /\ did[p] # NULL => /\ ~Invalid(p)
                        /\ did[p].op = Operation(p) /\ did[p].user = User(p)
                        /\ Asked(p) = {} => did[p].source = GetValue(Args(p), 0)

(* No incrontab gets to what incrond does, and the other parts hold.       *)
GrantInv ==
    /\ cmd \in [Proc -> Commands]
    /\ pc \in [Proc -> Stages] /\ DOMAIN did = Proc
    /\ \A p \in Proc : cmd[p].program = "incrontab" => Granted(p)

(* At the start nothing is asked or done.                                  *)
LEMMA GrantInit == Init => GrantInv
<1> SUFFICES ASSUME Init
             PROVE  GrantInv
  OBVIOUS
<1>1. cmd \in [Proc -> Commands]
  BY ScenarioAssumption DEF Init
<1>2. pc \in [Proc -> Stages] /\ DOMAIN did = Proc
  BY DEF Init, Stages
<1>3. \A p \in Proc : pc[p] \in {"start", "end"} /\ did[p] = NULL
  BY DEF Init
<1> QED BY <1>1, <1>2, <1>3 DEF GrantInv, Granted

(* Every action keeps it: what is done has been let through, by the command*)
(* line that is still the same.                                            *)
LEMMA GrantStep == GrantInv /\ [Next]_vars => GrantInv'
<1> SUFFICES ASSUME GrantInv, [Next]_vars
             PROVE  GrantInv'
  OBVIOUS
<1>0. /\ cmd \in [Proc -> Commands] /\ pc \in [Proc -> Stages] /\ DOMAIN did = Proc
      /\ \A p \in Proc : cmd[p].program = "incrontab" => Granted(p)
  BY DEF GrantInv
<1>1. ASSUME UNCHANGED cmd, NEW p \in Proc
      PROVE  /\ Invalid(p)' = Invalid(p) /\ Operation(p)' = Operation(p) /\ User(p)' = User(p)
             /\ Asked(p)' = Asked(p) /\ Args(p)' = Args(p)
  BY <1>1 DEF Invalid, Operation, User, ChangesUser, Asked, Args
(* Whoever does nothing more remains where he was let through, or ends.    *)
<1>2. ASSUME UNCHANGED cmd, NEW p \in Proc, did'[p] = did[p], cmd[p].program = "incrontab",
             \/ pc'[p] = pc[p] \/ pc'[p] = "end"
             \/ pc'[p] \notin {"serve", "lock", "run"} /\ (pc[p] \notin {"start", "end"} \/ ~Invalid(p))
      PROVE  Granted(p)'
  <2>1. Granted(p)
    BY <1>0, <1>2
  <2> QED BY <1>1, <1>2, <2>1 DEF Granted
<1>3. ASSUME UNCHANGED <<cmd, did>>, NEW p \in Proc, NEW x \in Stages, Go(p, x),
             cmd[p].program = "incrontab" =>
                x = "end" \/ (x \notin {"serve", "lock", "run"} /\ (pc[p] \notin {"start", "end"} \/ ~Invalid(p)))
      PROVE  GrantInv'
  <2>1. pc' \in [Proc -> Stages] /\ pc'[p] = x /\ \A q \in Proc \ {p} : pc'[q] = pc[q]
    BY <1>0, <1>3 DEF Go
  <2>2. \A q \in Proc : cmd[q].program = "incrontab" => Granted(q)'
    BY <1>2, <1>3, <2>1
  <2> QED BY <1>0, <1>3, <2>1, <2>2 DEF GrantInv
<1>4. ASSUME NEW p \in Proc, Inform(p) \/ Refuse(p) \/ Accept(p)
      PROVE  GrantInv'
  BY <1>3, <1>4 DEF Inform, Refuse, Accept, Stages
<1>5. ASSUME NEW p \in Proc, LoadConfig(p) \/ LoadNothing(p) \/ LoadDefault(p)
      PROVE  GrantInv'
  <2>1. PICK m : Loaded(p, m) /\ pc[p] \in {"load", "default"}
    BY <1>5 DEF LoadConfig, LoadNothing, LoadDefault
  <2> QED BY <1>3, <2>1 DEF Loaded, Stages
<1>6. ASSUME NEW p \in Proc, TryDefault(p)
      PROVE  GrantInv'
  BY <1>3, <1>6 DEF TryDefault, Stages
<1>7. ASSUME NEW p \in Proc, CheckAllowed(p) \/ CheckDenied(p)
      PROVE  GrantInv'
  <2>1. /\ pc[p] \in {"allow", "deny"} /\ UNCHANGED <<cmd, did>>
        /\ \E x \in {"deny", "call", "end"} : Go(p, x)
    BY <1>7 DEF CheckAllowed, CheckDenied, Says
  <2> QED BY <1>3, <2>1 DEF Stages
<1>8. ASSUME NEW p \in Proc, Call(p)
      PROVE  GrantInv'
  <2> DEFINE rec == [op |-> Operation(p), user |-> User(p),
                     source |-> IF Asked(p) = {} THEN GetValue(Args(p), 0) ELSE NULL,
                     table |-> BuildPath(Setting(m_values[p], "user_table_dir"), User(p))]
  <2>1. /\ pc[p] = "call" /\ cmd' = cmd /\ did' = [did EXCEPT ![p] = rec]
        /\ pc' = [pc EXCEPT ![p] = "end"]
    BY <1>8 DEF Call, Go
  <2>2. /\ rec.op = Operation(p) /\ rec.user = User(p)
        /\ Asked(p) = {} => rec.source = GetValue(Args(p), 0)
    OBVIOUS
  <2> HIDE DEF rec
  <2>3. pc' \in [Proc -> Stages] /\ pc'[p] = "end" /\ DOMAIN did' = Proc /\ did'[p] = rec
    BY <1>0, <2>1 DEF Stages
  <2>4. ASSUME cmd[p].program = "incrontab"
        PROVE  Granted(p)'
    <3>1. ~Invalid(p)
      BY <1>0, <2>1, <2>4 DEF Granted
    <3> QED BY <1>1, <2>1, <2>2, <2>3, <3>1 DEF Granted
  <2>5. \A q \in Proc \ {p} : cmd[q].program = "incrontab" => Granted(q)'
    BY <1>0, <1>2, <2>1
  <2> QED BY <1>0, <2>1, <2>3, <2>4, <2>5 DEF GrantInv
<1>9. ASSUME NEW p \in Proc, Kill(p)
      PROVE  GrantInv'
  <2> DEFINE told == {q \in Running(LockPath(p)) : MaySignal(p, q)}
  <2>1. /\ pc[p] = "serve" /\ UNCHANGED cmd /\ DOMAIN did' = Proc /\ \A q \in Proc \ {p} : did'[q] = did[q]
        /\ pc' = [q \in Proc |-> IF q \in {p} \cup told THEN "end" ELSE pc[q]]
    BY <1>0, <1>9 DEF Kill
  <2> HIDE DEF told
  <2>2. /\ pc' \in [Proc -> Stages]
        /\ \A q \in Proc : pc'[q] = pc[q] \/ pc'[q] = "end"
    BY <1>0, <2>1 DEF Stages
  <2>3. cmd[p].program # "incrontab"
    BY <1>0, <2>1 DEF Granted
  <2>4. \A q \in Proc \ {p} : cmd[q].program = "incrontab" => Granted(q)'
    BY <1>2, <2>1, <2>2
  <2> QED BY <1>0, <2>1, <2>2, <2>3, <2>4 DEF GrantInv
<1>10. ASSUME NEW p \in Proc, CheckDirectories(p) \/ Lock(p)
       PROVE  GrantInv'
  <2>1. /\ pc[p] \in {"serve", "lock"} /\ UNCHANGED <<cmd, did>>
        /\ \E x \in {"lock", "run", "end"} : Go(p, x)
    BY <1>10 DEF CheckDirectories, Lock
  <2>2. cmd[p].program # "incrontab"
    BY <1>0, <2>1 DEF Granted
  <2> QED BY <1>3, <2>1, <2>2 DEF Stages
<1>11. ASSUME NEW path, NEW content, Change(path, content)
       PROVE  GrantInv'
  <2>1. UNCHANGED <<cmd, pc, did>>
    BY <1>11 DEF Change
  <2> QED BY <1>0, <1>2, <2>1 DEF GrantInv
<1>12. CASE UNCHANGED vars
  <2>1. UNCHANGED <<cmd, pc, did>>
    BY <1>12 DEF vars
  <2> QED BY <1>0, <1>2, <2>1 DEF GrantInv
<1> QED BY <1>4, <1>5, <1>6, <1>7, <1>8, <1>9, <1>10, <1>11, <1>12 DEF Next, Main

(* What incrontab has done was asked for (ict-main.cpp:443, 518): an       *)
(* operation only if an option names it and no file was left over, a copy  *)
(* only of the first file given and without any operation, and for another *)
(* user only by root.                                                      *)
THEOREM DoneAsAsked == Spec => []AsAsked
<1>1. GrantInv => AsAsked
  <2> SUFFICES ASSUME GrantInv, NEW p \in Proc, cmd[p].program = "incrontab", did[p] # NULL
               PROVE  LET argv == cmd[p].argv
                          free == {n \in DOMAIN argv : /\ argv[n].kind = "value"
                                                       /\ ~Taken(argv, n, Known("incrontab"))}
                      IN  /\ IF did[p].op = "copy"
                             THEN /\ Named(argv) \cap Operations = {}
                                  /\ \E n \in free : /\ \A k \in free : n <= k
                                                     /\ did[p].source = argv[n].val
                             ELSE did[p].op \in Named(argv) /\ free = {}
                          /\ did[p].user # cmd[p].me => cmd[p].me = Root /\ "user" \in Named(argv)
    BY DEF AsAsked
  <2> DEFINE argv  == cmd[p].argv
             known == Known("incrontab")
             args  == Args(p)
             free  == Free(argv, Len(argv), known)
  <2>1. argv \in Seq(Arguments) /\ NULL \notin known /\ args = Parse(argv, known)
    BY KnownAssumption DEF GrantInv, Commands, Args
  <2>2. DOMAIN argv = 1..Len(argv)
    <3> HIDE DEF argv
    <3> QED BY <2>1
  <2>3. free = {n \in DOMAIN argv : argv[n].kind = "value" /\ ~Taken(argv, n, known)}
    BY <2>2 DEF Free
  <2>4. Named(argv) = {argv[n].opt : n \in {k \in 1..Len(argv) : argv[k].kind # "value"}}
    BY <2>2 DEF Named
  <2>5. Operations \subseteq known /\ "user" \in known
    BY DEF Known, Operations
  <2>6. /\ ~Invalid(p) /\ did[p].op = Operation(p) /\ did[p].user = User(p)
        /\ Asked(p) = {} => did[p].source = GetValue(args, 0)
    BY DEF GrantInv, Granted
  <2> HIDE DEF argv, known, args, free
  <2>7. args \in States(known) /\ Knows(args, argv, Len(argv), known)
    BY <2>1, ParseKnows
  <2>8. \A o \in known : args.option[o] # Absent <=> o \in Named(argv)
    BY <2>4, <2>7 DEF Knows
  <2>9. Asked(p) = Named(argv) \cap Operations
    BY <2>5, <2>8 DEF Asked, ExistsOption, args
  <2>10. /\ Asked(p) = {} <=> args.values # <<>>
         /\ ChangesUser(p) => cmd[p].me = Root
    BY <2>6 DEF Invalid, args
  <2>11. /\ args.values = <<>> => free = {}
         /\ args.values # <<>> => \E n \in free : (\A k \in free : n <= k) /\ args.values[1] = argv[n].val
    BY <2>7 DEF Knows, free
  <2>13. ASSUME Asked(p) = {}
         PROVE  /\ did[p].op = "copy" /\ Named(argv) \cap Operations = {}
                /\ \E n \in free : (\A k \in free : n <= k) /\ did[p].source = argv[n].val
    <3>1. did[p].op = "copy" /\ did[p].source = args.values[0 + 1]
      BY <2>6, <2>13 DEF Operation, GetValue
    <3>2. args.values[0 + 1] = args.values[1]
      OBVIOUS
    <3> QED BY <2>9, <2>10, <2>11, <2>13, <3>1, <3>2
  <2>14. ASSUME Asked(p) # {}
         PROVE  did[p].op # "copy" /\ did[p].op \in Named(argv) /\ free = {}
    <3> DEFINE I == {i \in DOMAIN Priority : Priority[i] \in Asked(p)}
    <3>1. DOMAIN Priority = 1..5 /\ \A o \in Operations : \E i \in DOMAIN Priority : Priority[i] = o
      BY DEF Priority, Operations
    <3>2. I \subseteq Nat /\ I # {}
      BY <2>9, <2>14, <3>1
    <3>3. Min(I) \in I
      <4> HIDE DEF I
      <4> QED BY <3>2, MinOfNats
    <3>4. did[p].op = Priority[Min(I)]
      BY <2>6, <2>14 DEF Operation
    <3>5. did[p].op \in Asked(p)
      BY <3>3, <3>4
    <3>6. "copy" \notin Operations
      BY DEF Operations
    <3> QED BY <2>9, <2>10, <2>11, <2>14, <3>5, <3>6
  <2>15. did[p].user # cmd[p].me => cmd[p].me = Root /\ "user" \in Named(argv)
    <3>1. CASE ChangesUser(p)
      <4>1. args.option["user"] # Absent
        BY <3>1 DEF ChangesUser, HasValue, args
      <4> QED BY <2>5, <2>8, <2>10, <3>1, <4>1
    <3>2. CASE ~ChangesUser(p)
      BY <2>6, <3>2 DEF User
    <3> QED BY <3>1, <3>2
  <2>16. /\ IF did[p].op = "copy"
            THEN /\ Named(argv) \cap Operations = {}
                 /\ \E n \in free : /\ \A k \in free : n <= k
                                    /\ did[p].source = argv[n].val
            ELSE did[p].op \in Named(argv) /\ free = {}
         /\ did[p].user # cmd[p].me => cmd[p].me = Root /\ "user" \in Named(argv)
    BY <2>13, <2>14, <2>15
  <2> QED BY <2>3, <2>16 DEF argv, known
<1> QED BY <1>1, GrantInit, GrantStep, PTL DEF Spec

(* The two forms of an option are functionally equivalent (appargs.h:84):  *)
(* unless a value follows a short one, the long forms in their places give *)
(* the same options and values.                                            *)
THEOREM FormsAlike == Spec => []FormsEquivalent
<1>1. GrantInv => FormsEquivalent
  <2> SUFFICES ASSUME GrantInv, NEW p \in Proc,
                      \A n \in DOMAIN cmd[p].argv : ~Taken(cmd[p].argv, n, Known(cmd[p].program))
               PROVE  LET long == Parse(InLongForm(cmd[p].argv), Known(cmd[p].program))
                      IN  Args(p).option = long.option /\ Args(p).values = long.values
    BY DEF FormsEquivalent
  <2>1. cmd[p].argv \in Seq(Arguments) /\ NULL \notin Known(cmd[p].program)
    BY NullUnknown DEF GrantInv, Commands
  <2> QED BY <2>1, FormsSame DEF Args
<1> QED BY <1>1, GrantInit, GrantStep, PTL DEF Spec

-----------------------------------------------------------------------------
(* Types.                                                                  *)

(* The files remain files, and what is loaded is a configuration.          *)
FilesInv ==
    /\ DOMAIN file \subseteq DOMAIN Content
    /\ \A path \in DOMAIN file : file[path] \in Contents
    /\ m_values \in [Proc -> Values]
    /\ touched \in [Proc -> SUBSET DOMAIN file]
    /\ edited \in BOOLEAN /\ env \in 0..MaxEnv

(* The empty configuration is one.                                         *)
LEMMA NoSettings == <<>> \in Values
<1>1. <<>> \in [{} -> Text] /\ DOMAIN <<>> = {}
  OBVIOUS
<1> QED BY <1>1 DEF Values

(* The files of a scenario are files.                                      *)
LEMMA FilesInit == Init => FilesInv
<1> SUFFICES ASSUME Init
             PROVE  FilesInv
  OBVIOUS
<1>1. DOMAIN file \subseteq DOMAIN Content /\ \A path \in DOMAIN file : file[path] \in Contents
  BY ScenarioAssumption DEF Init
<1>2. m_values \in [Proc -> Values]
  BY NoSettings DEF Init
<1>3. touched \in [Proc -> SUBSET DOMAIN file] /\ edited \in BOOLEAN /\ env \in 0..MaxEnv
  <2>1. touched = [p \in Proc |-> {}] /\ edited = FALSE /\ env = 0
    BY DEF Init
  <2>2. 0 \in 0..MaxEnv
    BY StartupAssumption
  <2> QED BY <2>1, <2>2
<1> QED BY <1>1, <1>2, <1>3 DEF FilesInv

(* Every action keeps it: what is loaded has gone through Load.            *)
LEMMA FilesStep == FilesInv /\ [Next]_vars => FilesInv'
<1> SUFFICES ASSUME FilesInv, [Next]_vars
             PROVE  FilesInv'
  OBVIOUS
<1> USE DEF history
<1>1. ASSUME UNCHANGED <<file, m_values, history, env>>
      PROVE  FilesInv'
  BY <1>1 DEF FilesInv
<1>2. ASSUME NEW path, Opens(path)
      PROVE  Load(file[path]) \in Values
  <2>1. file[path] \in Seq(Text)
    BY <1>2 DEF Opens, FilesInv, Contents
  <2> QED BY <2>1, LoadType
<1>3. ASSUME NEW p \in Proc, NEW m \in Values, Loaded(p, m)
      PROVE  FilesInv'
  BY <1>3 DEF Loaded, FilesInv
<1>4. ASSUME NEW p \in Proc, LoadConfig(p) \/ LoadNothing(p) \/ LoadDefault(p)
      PROVE  FilesInv'
  <2>1. PICK m \in Values : Loaded(p, m)
    <3>1. CASE LoadConfig(p)
      BY <1>2, <3>1 DEF LoadConfig
    <3>2. CASE LoadNothing(p)
      BY <3>2, NoSettings DEF LoadNothing
    <3>3. CASE LoadDefault(p)
      BY <1>2, <3>3, NoSettings DEF LoadDefault
    <3> QED BY <1>4, <3>1, <3>2, <3>3
  <2> QED BY <1>3, <2>1
<1>5. ASSUME NEW p \in Proc,
             \/ Inform(p) \/ Refuse(p) \/ Accept(p) \/ TryDefault(p) \/ Call(p) \/ Kill(p)
             \/ CheckDirectories(p) \/ Lock(p)
      PROVE  FilesInv'
  BY <1>1, <1>5 DEF Inform, Refuse, Accept, TryDefault, Call, Kill, CheckDirectories, Lock
<1>6. ASSUME NEW p \in Proc, CheckAllowed(p) \/ CheckDenied(p)
      PROVE  FilesInv'
  BY <1>1, <1>6 DEF CheckAllowed, CheckDenied, Says
<1>7. ASSUME NEW path \in DOMAIN file, NEW content \in Content[path], Change(path, content)
      PROVE  FilesInv'
  <2>1. content \in Contents
    BY <1>7, ContentAssumption DEF FilesInv
  <2>2. /\ DOMAIN file' = DOMAIN file /\ \A x \in DOMAIN file' : file'[x] \in Contents
        /\ m_values' = m_values
    BY <1>7, <2>1 DEF Change, FilesInv
  <2>3. touched' \in [Proc -> SUBSET DOMAIN file]
    BY <1>7 DEF Change, FilesInv
  <2>4. edited' \in BOOLEAN /\ env' \in 0..MaxEnv
    <3>1. env \in 0..MaxEnv /\ env < MaxEnv /\ env' = env + 1 /\ MaxEnv \in Nat
      BY <1>7, StartupAssumption DEF Change, FilesInv
    <3>2. edited' \in BOOLEAN
      BY <1>7 DEF Change
    <3> QED BY <3>1, <3>2
  <2> QED BY <2>2, <2>3, <2>4 DEF FilesInv
<1>8. CASE UNCHANGED vars
  BY <1>1, <1>8 DEF vars
<1> QED BY <1>4, <1>5, <1>6, <1>7, <1>8 DEF Next, Main

(* The first line about an option is the one that counts.                  *)
Says1st(lines, key, n) ==
    /\ n \in DOMAIN lines /\ Meant[lines][n].key = key
    /\ \A k \in 1..n-1 : Meant[lines][k].key # key
Mentions(lines, key, k) == \E n \in 1..k : Meant[lines][n].key = key

(* After k lines the option has the value of the first of them about it.   *)
Follows(m, lines, key, k) ==
    /\ <<key>> \in DOMAIN m <=> Mentions(lines, key, k)
    /\ \A n \in 1..k : Says1st(lines, key, n) => m[<<key>>] = Meant[lines][n].val

(* One line more.                                                          *)
LEMMA LineFollows ==
    ASSUME NEW lines \in Seq(Text), lines \in DOMAIN Meant, NEW key \in DOMAIN Defaults,
           NEW k \in 1..Len(lines), NEW m, Follows(m, lines, key, k - 1)
    PROVE  Follows(Insert(m, ParseLine(lines[k])), lines, key, k)
<1> DEFINE line == Meant[lines][k]
           new == Insert(m, ParseLine(lines[k]))
<1>1. /\ Len(lines) \in Nat /\ DOMAIN lines = 1..Len(lines) /\ lines[k] \in Text
      /\ key # NULL
      /\ IF line.key = NULL THEN AssignsNothing(lines[k]) ELSE Assigns(lines[k], line.key, line.val)
  BY MeantAssumption
<1>2. /\ line.key = NULL => ParseLine(lines[k]) = NULL
      /\ line.key # NULL => ParseLine(lines[k]) = [key |-> <<line.key>>, val |-> line.val]
  <2> HIDE DEF line
  <2> QED BY <1>1, NothingKept, AssignmentKept
<1>3. /\ Mentions(lines, key, k) <=> Mentions(lines, key, k - 1) \/ line.key = key
      /\ \A n \in 1..k : n = k \/ n \in 1..k-1
      /\ Says1st(lines, key, k) <=> line.key = key /\ ~Mentions(lines, key, k - 1)
  <2>1. (\A n \in 1..k : n = k \/ n \in 1..k-1) /\ k \in 1..k /\ \A n \in 1..k-1 : n \in 1..k
    OBVIOUS
  <2> QED BY <1>1, <2>1 DEF Mentions, Says1st
<1> HIDE DEF line
<1>4. CASE line.key = NULL
  <2>1. new = m
    BY <1>2, <1>4 DEF Insert
  <2>2. ~Says1st(lines, key, k)
    BY <1>1, <1>3, <1>4
  <2> QED BY <1>1, <1>3, <1>4, <2>1, <2>2 DEF Follows
<1>5. CASE line.key # NULL /\ <<line.key>> \in DOMAIN m
  <2>1. new = m
    BY <1>2, <1>5 DEF Insert
  <2>2. line.key = key => Mentions(lines, key, k - 1)
    BY <1>5 DEF Follows
  <2> QED BY <1>3, <2>1, <2>2 DEF Follows
<1>6. CASE line.key # NULL /\ <<line.key>> \notin DOMAIN m
  <2> DEFINE e == ParseLine(lines[k])
  <2>1. e.key = <<line.key>> /\ e.val = line.val
    BY <1>2, <1>6
  <2>n. e # NULL
    <3>1. <<line.key>> \in Text /\ line.val \in Text
      BY <1>1, <1>6, AssignsTexts
    <3> QED BY <1>2, <1>6, <3>1, TextAssumption
  <2>2. new = [x \in DOMAIN m \cup {e.key} |-> IF x = e.key THEN e.val ELSE m[x]]
    BY <1>6, <2>1, <2>n DEF Insert
  <2> HIDE DEF new, e
  <2>3. DOMAIN new = DOMAIN m \cup {<<line.key>>} /\ new[<<line.key>>] = line.val
    BY <2>1, <2>2
  <2>4. \A x \in DOMAIN m : x # <<line.key>> => new[x] = m[x]
    BY <2>1, <2>2
  <2>5. CASE line.key = key
    <3>1. ~Mentions(lines, key, k - 1)
      BY <1>6, <2>5 DEF Follows
    <3>2. \A n \in 1..k-1 : ~Says1st(lines, key, n)
      BY <3>1 DEF Mentions, Says1st
    <3>3. \A n \in 1..k : Says1st(lines, key, n) => new[<<key>>] = Meant[lines][n].val
      BY <1>3, <2>3, <2>5, <3>2 DEF line
    <3>4. <<key>> \in DOMAIN new /\ Mentions(lines, key, k)
      BY <1>3, <2>3, <2>5
    <3> QED BY <3>3, <3>4 DEF Follows, new
  <2>6. CASE line.key # key
    <3>1. <<line.key>> # <<key>>
      BY <2>6
    <3>2. \A n \in 1..k-1 : Says1st(lines, key, n) => <<key>> \in DOMAIN m
      BY DEF Follows, Says1st, Mentions
    <3> QED BY <1>3, <2>3, <2>4, <2>6, <3>1, <3>2 DEF Follows, new
  <2> QED BY <2>5, <2>6
<1> QED BY <1>4, <1>5, <1>6

(* Every option of a file has the value its author gives it, or the        *)
(* default.                                                                *)
LEMMA LoadMeans ==
    ASSUME NEW lines \in Seq(Text), lines \in DOMAIN Meant, NEW key \in DOMAIN Defaults
    PROVE  /\ Mentions(lines, key, Len(lines)) <=> <<key>> \in DOMAIN Load(lines)
           /\ \A n \in DOMAIN lines :
                Says1st(lines, key, n) => Load(lines)[<<key>>] = Meant[lines][n].val
<1> DEFINE n == Len(lines)
<1>1. n \in Nat /\ DOMAIN lines = 1..n
  OBVIOUS
<1>2. LinesRead(lines) = lines
  BY MeantAssumption, LinesReadWhole
<1>3. PICK h \in [0..n -> Values] : Grows(h, lines) /\ h[n] = Load(lines)
  BY <1>2, LoadGrows DEF GrowsTo
<1> DEFINE S == {k \in Nat : k <= n => Follows(h[k], lines, key, k)}
<1>4. 0 \in S
  <2>1. h[0] = <<>>
    BY <1>3 DEF Grows
  <2>2. DOMAIN <<>> = {} /\ 1..0 = {}
    OBVIOUS
  <2> QED BY <2>1, <2>2 DEF Follows, Mentions
<1>5. ASSUME NEW k \in Nat, k \in S
      PROVE  k + 1 \in S
  <2> SUFFICES ASSUME k + 1 <= n
               PROVE  Follows(h[k+1], lines, key, k + 1)
    OBVIOUS
  <2> DEFINE j == k + 1
  <2>1. j \in 1..Len(lines) /\ j - 1 = k /\ k <= n
    BY <1>1
  <2>2. Follows(h[j-1], lines, key, j - 1)
    BY <1>5, <2>1
  <2>3. h[j] = Insert(h[j-1], ParseLine(lines[j]))
    BY <1>3, <2>1 DEF Grows
  <2> HIDE DEF j
  <2>4. Follows(h[j], lines, key, j)
    BY <2>1, <2>2, <2>3, LineFollows
  <2> QED BY <2>4 DEF j
<1> HIDE DEF S
<1>6. n \in S
  BY <1>1, <1>4, <1>5, SetInduction
<1> HIDE DEF n
<1>7. Follows(Load(lines), lines, key, n)
  BY <1>1, <1>3, <1>6 DEF S
<1> QED BY <1>1, <1>7 DEF Follows, n

(* As long as no file changes every process that may choose its file, as   *)
(* the help of incrontab has it, runs with the settings that the author of *)
(* the file meant, whatever he wrote in whatever order (IncronCfg::Load,   *)
(* ParseLine, GetValue).                                                   *)
THEOREM ConfigurationCorrect == Spec => []ConfigurationAsWritten
<1>1. ConfInv /\ FilesInv => ConfigurationAsWritten
  <2> SUFFICES ASSUME ConfInv, FilesInv, NEW p \in Proc, NEW key \in DOMAIN Defaults,
                      pc[p] \in {"allow", "deny", "call", "serve", "lock", "run"}, ~edited,
                      LET path == IF Opens(ConfigPath(p)) THEN ConfigPath(p) ELSE Default
                      IN  Opens(path) => file[path] \in DOMAIN Meant
               PROVE  LET path == IF Opens(ConfigPath(p)) THEN ConfigPath(p) ELSE Default
                          meant == IF Opens(path) THEN Meant[file[path]] ELSE <<>>
                          L == {n \in DOMAIN meant : meant[n].key = key}
                      IN  Setting(m_values[p], key) =
                            IF L = {} THEN Defaults[key]
                            ELSE meant[CHOOSE n \in L : \A k \in L : n <= k].val
    BY DEF ConfigurationAsWritten, Judged, AsMeant
  <2> DEFINE path == IF Opens(ConfigPath(p)) THEN ConfigPath(p) ELSE Default
             lines == file[path]
  <2>1. m_values[p] = IF Opens(path) THEN Load(lines) ELSE <<>>
    BY DEF ConfInv, AsConfigured, Conf
  <2>2. CASE ~Opens(path)
    <3>1. DOMAIN <<>> = {}
      OBVIOUS
    <3>2. Setting(m_values[p], key) = Defaults[key]
      BY <2>1, <2>2, <3>1 DEF Setting
    <3> QED BY <2>2, <3>1, <3>2
  <2>3. CASE Opens(path)
    <3> DEFINE L == {n \in DOMAIN Meant[lines] : Meant[lines][n].key = key}
               first == CHOOSE n \in L : \A k \in L : n <= k
    <3>1. lines \in Seq(Text) /\ lines \in DOMAIN Meant
      BY <2>3 DEF Opens, FilesInv, Contents
    <3>2. m_values[p] = Load(lines)
      BY <2>1, <2>3
    <3>3. Setting(m_values[p], key) = IF L = {} THEN Defaults[key] ELSE Meant[lines][first].val
      <4> HIDE DEF path, lines
      <4>1. Len(lines) \in Nat /\ DOMAIN lines = 1..Len(lines) /\ DOMAIN Meant[lines] = DOMAIN lines
        BY <3>1, MeantAssumption
      <4>2. L # {} <=> Mentions(lines, key, Len(lines))
        BY <4>1 DEF Mentions
      <4>3. CASE L = {}
        BY <3>1, <3>2, <4>2, <4>3, LoadMeans DEF Setting
      <4>4. CASE L # {}
        <5>1. L \subseteq Nat
          BY <4>1
        <5>2. \E n \in L : \A k \in L : n <= k
          BY <4>4, <5>1, NatMinimum
        <5>3. first \in L /\ \A k \in L : first <= k
          BY <5>2
        <5>4. Says1st(lines, key, first)
          <6> HIDE DEF first
          <6>1. \A k \in 1..first-1 : k \in DOMAIN lines /\ ~(first <= k)
            BY <4>1, <5>3
          <6> QED BY <4>1, <5>3, <6>1 DEF Says1st
        <5> HIDE DEF first
        <5> QED BY <3>1, <3>2, <4>1, <4>2, <4>4, <5>3, <5>4, LoadMeans DEF Setting
      <4> QED BY <4>3, <4>4
    <3> QED BY <2>3, <3>3
  <2> QED BY <2>2, <2>3
<1> QED BY <1>1, ConfInit, ConfStep, FilesInit, FilesStep, PTL DEF Spec

(* The variables have their types; the options and values in force are     *)
(* trimmed (incroncfg.cpp:145, ParseLine).                                 *)
THEOREM TypeCorrect == Spec => []TypeOK
<1>1. CheckInv /\ FilesInv => TypeOK
  <2> SUFFICES ASSUME CheckInv, FilesInv
               PROVE  TypeOK
    OBVIOUS
  <2>1. \A p \in Proc : \A key \in DOMAIN m_values[p] :
           Trimmed(key) /\ (m_values[p][key] # <<>> => Trimmed(m_values[p][key]))
    BY DEF FilesInv, Values, Neat
  <2> QED BY <2>1 DEF CheckInv, FilesInv, TypeOK
<1> QED BY <1>1, InvInit, InvStep, FilesInit, FilesStep, PTL DEF Spec
=============================================================================
