------------------------------ MODULE Settings ------------------------------
(***************************************************************************)
(* IncronCfg (incroncfg.h/.cpp) and the permission files of                *)
(* IncronTab::CheckUser (incrontab.cpp).  A file is a sequence of lines, a *)
(* line a sequence of letters; blank, tab, hash, equals sign and slash are *)
(* letters, a word that nothing looks into is one too.                     *)
(***************************************************************************)
EXTENDS Naturals, SequencesExt

CONSTANTS
    Defaults,   \* m_defaults
    LineSize,   \* what getline is told (1023 in the source)
    UserSize,   \* what fgets is told in CheckUser (100 in the source)
    NULL

Blank == {" ", "\t"}

(* From the first letter not in l to the last one not in r.                *)
Trim(s, l, r) ==
    LET from == {n \in DOMAIN s : s[n] \notin l}
        to   == {n \in DOMAIN s : s[n] \notin r}
    IN  IF from = {} \/ to = {} THEN <<>> ELSE SubSeq(s, Min(from), Max(to))

-----------------------------------------------------------------------------
(* IncronCfg.                                                              *)

IsComment(s) == \E n \in DOMAIN s : s[n] = "#" /\ \A k \in 1..n-1 : s[k] \in Blank

(* Faulty variant: blanks in front of the equals sign belong to the key.   *)
ParseLineUntrimmed(s) ==
    LET eq  == SelectInSeq(s, LAMBDA c : c = "=")
        key == Trim(SubSeq(s, 1, eq - 1), Blank, {})
    IN  IF IsComment(s) \/ eq = 0 \/ key = <<>> THEN NULL
        ELSE [key |-> key, val |-> Trim(SubSeq(s, eq, Len(s)), Blank \cup {"="}, Blank)]

(* The key is what is in front of the first equals sign; those that follow *)
(* it are dropped with the blanks.                                         *)
ParseLine(s) ==
    LET eq  == SelectInSeq(s, LAMBDA c : c = "=")
        key == Trim(SubSeq(s, 1, eq - 1), Blank, Blank)
    IN  IF IsComment(s) \/ eq = 0 \/ key = <<>> THEN NULL
        ELSE [key |-> key, val |-> Trim(SubSeq(s, eq, Len(s)), Blank \cup {"="}, Blank)]

(* getline cuts a line that is too long and fails: the loop ends with it.  *)
LinesRead(lines) ==
    LET long == {n \in DOMAIN lines : Len(lines[n]) >= LineSize}
    IN  [n \in 1..Min(long \cup {Len(lines)}) |->
            SubSeq(lines[n], 1, Min({Len(lines[n]), LineSize - 1}))]

(* Faulty variant: the last assignment wins.                               *)
InsertOver(m_values, e) == IF e = NULL THEN m_values ELSE (e.key :> e.val) @@ m_values
(* map::insert: the first assignment wins.                                 *)
Insert(m_values, e) ==
    IF e = NULL \/ e.key \in DOMAIN m_values THEN m_values
    ELSE [key \in DOMAIN m_values \cup {e.key} |->
             IF key = e.key THEN e.val ELSE m_values[key]]
Load(lines) ==
    LET read == LinesRead(lines)
    IN  FoldLeft(Insert, <<>>, [n \in DOMAIN read |-> ParseLine(read[n])])

Setting(m_values, key) ==
    IF <<key>> \in DOMAIN m_values THEN m_values[<<key>>] ELSE Defaults[key]

(* rfind and length() - 1 agree on an empty path, too.                     *)
BuildPath(path, name) ==
    IF path = <<>> \/ Last(path) = "/" THEN path \o name ELSE path \o <<"/">> \o name

-----------------------------------------------------------------------------
(* The permission files: fgets cuts lines, and of what it returns the      *)
(* first word counts.                                                      *)

FirstWord(s) ==
    LET t == Trim(s, Blank, Blank)
        e == SelectInSeq(t, LAMBDA c : c \in Blank)
    IN  IF e = 0 THEN t ELSE SubSeq(t, 1, e - 1)
Pieces(line) ==
    {SubSeq(line, k * (UserSize - 1) + 1, Min({(k + 1) * (UserSize - 1), Len(line)})) :
        k \in 0..Len(line) \div (UserSize - 1)}
UsersIn(lines) ==
    UNION {{FirstWord(s) : s \in Pieces(lines[n])} : n \in DOMAIN lines} \ {<<>>}
=============================================================================
