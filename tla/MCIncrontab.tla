---------------------------- MODULE MCIncrontab ----------------------------
(* Instances of Incrontab for TLC.  Every line of a systematic set is      *)
(* imported by one process; a few tables go through everything two         *)
(* processes can do.                                                       *)
EXTENDS Incrontab, TLC

CONSTANTS p1, p2

MCLetter == STRING
MCNumber == "12" :> {"IN_ATTRIB", "IN_CLOSE_WRITE"}

Path  == BoundedSeq({"a", "#", " ", "\\"}, 2)
Field == {<<"IN_CREATE">>, <<"12">>, <<"IN_CLOSE">>,
          <<"IN_MOVE", ",", "IN_CLOSE_WRITE">>,
          <<"IN_MOVE_SELF", ",", "IN_CLOSE_WRITE">>,
          <<"IN_ONESHOT", ",", "IN_ALL_EVENTS">>,
          <<"recursive=false", ",", "x">>,
          <<"loopable=true", ",", "dotdirs=true", ",", "IN_OPEN">>,
          <<"loopable=true", ",", "IN_NO_LOOP">>}
Rest  == {<<>>, <<"\n">>, <<"c", "\n">>, <<" ", "\\", "c">>, <<"c", " ", "#", "\n">>,
          <<"$", "#", "$", "$", "c", "$", "\n">>}
Line  == {p \o <<d>> \o f \o <<"\t">> \o r : p \in Path, d \in {" ", "\t"}, f \in Field, r \in Rest}

T0 == <<"a", " ", "IN_OPEN", " ", "c", "\n">>
T1 == <<"#", "\n", "b", "\t", "12", "\t", "d", "\n", "a", " ", "IN_OPEN", " ", "c">>
T2 == <<"e", " ", "IN_MOVE", ",", "IN_OPEN", " ", "c", "\n">>

Ask(op, text) == [op |-> op, text |-> text]
None == Ask("none", <<>>)

Import == {[before |-> NULL, cmd |-> (p1 :> Ask("replace", l) @@ p2 :> None)] : l \in Line}
Two == {[before |-> b, cmd |-> (p1 :> c @@ p2 :> d)] :
            b \in {NULL, T0},
            c \in {Ask("replace", T1), Ask("edit", T1)},
            d \in {Ask("replace", T2), Ask("edit", T2), Ask("remove", <<>>), Ask("reload", <<>>)}}

MCScenario == Import \cup Two
=============================================================================
