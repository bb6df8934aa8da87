------------------------------- MODULE Options ------------------------------
(***************************************************************************)
(* AppArgs (appargs.h/.cpp): the arguments of a program, sorted into       *)
(* options and values.  An argument is a record:                           *)
(*   [kind |-> "long",  opt, val]   --opt=val, or --opt with val = NULL    *)
(*   [kind |-> "short", opt, val]   -oval, or -o with val = NULL           *)
(*   [kind |-> "value", val]        anything else, a single - included     *)
(* Both forms name an option by its long name, for AddOption ties them;    *)
(* --opt= is --opt, as nothing is left for the tokenizer.                  *)
(***************************************************************************)
EXTENDS Naturals, SequencesExt

CONSTANTS
    NULL,      \* no value
    Absent     \* an option that was not found

Nothing(known) == [option |-> [o \in known |-> Absent], values |-> <<>>, taker |-> NULL]

(* Faulty variants: the value of an earlier occurrence remains; unknown    *)
(* options are values.                                                     *)
ArgumentKeepsValue(st, a) ==
    CASE a.kind = "value" /\ st.taker = NULL ->
            [st EXCEPT !.values = Append(@, a.val)]
      [] a.kind = "value" /\ st.taker # NULL ->
            [st EXCEPT !.option[st.taker] = a.val, !.taker = NULL]
      [] a.kind # "value" /\ a.opt \in DOMAIN st.option ->
            [st EXCEPT !.option[a.opt] =
                            IF a.kind = "short" /\ a.val = NULL /\ @ # Absent THEN @ ELSE a.val,
                       !.taker = IF a.kind = "short" /\ a.val = NULL THEN a.opt ELSE NULL]
      [] OTHER -> [st EXCEPT !.taker = NULL]
ArgumentUnknownIsValue(st, a) ==
    CASE a.kind = "value" /\ st.taker = NULL ->
            [st EXCEPT !.values = Append(@, a.val)]
      [] a.kind = "value" /\ st.taker # NULL ->
            [st EXCEPT !.option[st.taker] = a.val, !.taker = NULL]
      [] a.kind # "value" /\ a.opt \in DOMAIN st.option ->
            [st EXCEPT !.option[a.opt] = a.val,
                       !.taker = IF a.kind = "short" /\ a.val = NULL THEN a.opt ELSE NULL]
      [] OTHER -> [st EXCEPT !.taker = NULL, !.values = Append(@, a.val)]

(* One turn of Parse.  A short option without a value (st.taker) takes the *)
(* next argument unless that is an option, whatever its type says.         *)
Argument(st, a) ==
    CASE a.kind = "value" /\ st.taker = NULL ->
            [st EXCEPT !.values = Append(@, a.val)]
      [] a.kind = "value" /\ st.taker # NULL ->
            [st EXCEPT !.option[st.taker] = a.val, !.taker = NULL]
      [] a.kind # "value" /\ a.opt \in DOMAIN st.option ->
            [st EXCEPT !.option[a.opt] = a.val,
                       !.taker = IF a.kind = "short" /\ a.val = NULL THEN a.opt ELSE NULL]
      [] OTHER -> [st EXCEPT !.taker = NULL]

Parse(argv, known) == FoldLeft(Argument, Nothing(known), argv)

ExistsOption(args, o) == args.option[o] # Absent
HasValue(args, o) == args.option[o] \notin {Absent, NULL}
GetValue(args, index) == args.values[index + 1]

-----------------------------------------------------------------------------
(* What an argument vector says, read without the parser.                  *)

Named(argv) == {argv[n].opt : n \in {k \in DOMAIN argv : argv[k].kind # "value"}}
Taken(argv, n, known) ==
    /\ n > 1 /\ argv[n].kind = "value"
    /\ argv[n-1].kind = "short" /\ argv[n-1].val = NULL /\ argv[n-1].opt \in known
InLongForm(argv) ==
    [n \in DOMAIN argv |-> IF argv[n].kind = "short" THEN [argv[n] EXCEPT !.kind = "long"]
                                                     ELSE argv[n]]
=============================================================================
