---------------------------- MODULE TableSyntax ----------------------------
(***************************************************************************)
(* The text of incron tables: StringTokenizer (strtok.cpp), IncronTabEntry *)
(* and IncronTab (incrontab.cpp) and the mask names of inotify-cxx.cpp.    *)
(* A text is a sequence of letters.  Blank, tab, newline, backslash, hash  *)
(* and comma are letters; so is a symbol of the mask field or a number:    *)
(* nothing looks inside those.                                             *)
(***************************************************************************)
EXTENDS Naturals, SequencesExt

CONSTANTS
    Letter,    \* what texts are made of
    LineMax,   \* what fgets is told (1000 in the source)
    Number     \* the mask each number stands for

ASSUME LineMaxAssumption == LineMax \in Nat \ {0, 1}
ASSUME NumberAssumption == \A n \in DOMAIN Number : n \in Letter /\ Number[n] \in SUBSET Letter

-----------------------------------------------------------------------------
(* Masks: sets of bits.                                                    *)

AllEvents == {"IN_ACCESS", "IN_MODIFY", "IN_ATTRIB", "IN_CLOSE_WRITE", "IN_CLOSE_NOWRITE",
              "IN_OPEN", "IN_MOVED_FROM", "IN_MOVED_TO", "IN_CREATE", "IN_DELETE",
              "IN_DELETE_SELF", "IN_MOVE_SELF"}
Flags == <<"IN_UNMOUNT", "IN_Q_OVERFLOW", "IN_IGNORED", "IN_ISDIR", "IN_ONESHOT",
           "IN_DONT_FOLLOW", "IN_ONLYDIR">>

ASSUME LetterAssumption ==
    /\ {" ", "\t", "\n", "\\", "#", ",", "$", "@", "%", "&"} \subseteq Letter
    /\ {"IN_ALL_EVENTS", "IN_CLOSE", "IN_MOVE"} \cup AllEvents \cup ToSet(Flags) \subseteq Letter
    /\ {"recursive=false", "loopable=true", "dotdirs=true"} \subseteq Letter

\* no symbol of the mask field begins like a number
ASSUME SymbolAssumption ==
    DOMAIN Number \cap ({"IN_ALL_EVENTS", "IN_CLOSE", "IN_MOVE", "recursive=false",
                         "loopable=true", "dotdirs=true"} \cup AllEvents \cup ToSet(Flags)) = {}

GetMaskByName(name) ==
    CASE name = "IN_ALL_EVENTS" -> AllEvents
      [] name = "IN_CLOSE" -> {"IN_CLOSE_WRITE", "IN_CLOSE_NOWRITE"}
      [] name = "IN_MOVE" -> {"IN_MOVED_FROM", "IN_MOVED_TO"}
      [] OTHER -> {name} \cap (AllEvents \cup ToSet(Flags))

Option(on, name) == IF on THEN <<name>> ELSE <<>>

Dump(names, mask) ==
    FlattenSeq([i \in DOMAIN names |-> Option(GetMaskByName(names[i]) \subseteq mask, names[i])])

(* IN_CLOSE has no else: the one there is belongs to IN_MOVE_SELF.         *)
DumpTypes(mask) ==
    (IF AllEvents \subseteq mask
     THEN <<"IN_ALL_EVENTS">>
     ELSE Dump(<<"IN_ACCESS", "IN_MODIFY", "IN_ATTRIB", "IN_CREATE", "IN_DELETE",
                 "IN_DELETE_SELF", "IN_OPEN", "IN_CLOSE">>, mask)
          \o (IF "IN_MOVE_SELF" \in mask
              THEN <<"IN_MOVE_SELF">>
              ELSE Dump(<<"IN_CLOSE_WRITE", "IN_CLOSE_NOWRITE">>, mask))
          \o (IF GetMaskByName("IN_MOVE") \subseteq mask
              THEN <<"IN_MOVE">>
              ELSE Dump(<<"IN_MOVED_FROM", "IN_MOVED_TO">>, mask)))
    \o Dump(Flags, mask)

-----------------------------------------------------------------------------
(* StringTokenizer with the delimiters " \t" and the prefix '\\'.          *)

PrefixRun(s, from, i) == Cardinality({j \in from..i-1 : \A k \in j..i-1 : s[k] = "\\"})

(* Does the token that begins at from end before s[i]?  The loop compares  *)
(* each letter with each delimiter in turn, and flips pref every time: a   *)
(* prefix is flipped twice, and ' ' ends the token, escaped or not.        *)
Ends(s, from, i) ==
    \/ s[i] = " " /\ (2 * PrefixRun(s, from, i)) % 2 = 0
    \/ s[i] = "\t"

(* Of two prefixes in a row one remains, of one none.                      *)
StripPrefix(s) ==
    LET rest[i \in 1..Len(s)+2] ==
            IF i > Len(s) THEN <<>>
            ELSE IF s[i] # "\\" THEN <<s[i]>> \o rest[i+1]
            ELSE IF i < Len(s) /\ s[i+1] = "\\" THEN <<"\\">> \o rest[i+2]
            ELSE rest[i+1]
    IN  rest[1]

(* The token at pos, empty ones skipped, and the position after it.        *)
GetNextToken(s, pos) ==
    LET token[p \in 1..Len(s)+1] ==
            LET end == Min({i \in p..Len(s) : Ends(s, p, i)} \cup {Len(s) + 1})
                t == [text |-> StripPrefix(SubSeq(s, p, end - 1)),
                      pos |-> Min({end, Len(s)} ) + 1]
            IN  IF t.text = <<>> /\ t.pos <= Len(s) THEN token[t.pos] ELSE t
    IN  token[pos]

-----------------------------------------------------------------------------
(* IncronTabEntry.                                                         *)

(* The symbols that stand alone between two commas: others are unknown.    *)
Symbols(s) == {i \in DOMAIN s : /\ s[i] # ","
                                /\ i > 1 => s[i-1] = ","
                                /\ i < Len(s) => s[i+1] = ","}

Entry(path, field, cmd) ==
    LET isnum == field[1] \in DOMAIN Number
        sym == IF isnum THEN {} ELSE Symbols(field)
        On(name) == \E i \in sym : field[i] = name
    IN  [path |-> path, cmd |-> cmd,
         mask |-> IF isnum THEN Number[field[1]]
                  ELSE UNION {GetMaskByName(field[i]) : i \in sym},
         loopable |-> \E i \in sym : /\ field[i] = "loopable=true"
                                     /\ \A j \in sym : j > i => field[j] # "IN_NO_LOOP",
         norec |-> On("recursive=false"),
         dotdirs |-> On("dotdirs=true")]

(* One entry, or none.  The command is what is left, without the newline.  *)
Parse(line) ==
    LET s1 == GetNextToken(line, 1)
        s2 == GetNextToken(line, s1.pos)
        s3 == SubSeq(line, s2.pos, Len(line))
    IN  IF line[1] = "#" \/ s1.pos > Len(line) \/ s2.pos > Len(line)
        THEN <<>>
        ELSE <<Entry(s1.text, s2.text, IF Last(s3) = "\n" THEN Front(s3) ELSE s3)>>

(* Faulty variant: blanks are made safe and backslashes are not.           *)
GetSafePathBlanksOnly(path) ==
    FlattenSeq([i \in DOMAIN path |-> IF path[i] = " " THEN <<"\\", " ">> ELSE <<path[i]>>])

GetSafePath(path) ==
    FlattenSeq([i \in DOMAIN path |-> IF path[i] \in {" ", "\\"} THEN <<"\\", path[i]>>
                                      ELSE <<path[i]>>])

EntryToString(e) ==
    LET names == DumpTypes(e.mask)
                 \o Option(e.norec, "recursive=false")
                 \o Option(e.loopable, "loopable=true")
                 \o Option(e.dotdirs, "dotdirs=true")
        field == IF names = <<>> THEN <<"IN_ALL_EVENTS">>
                 ELSE [i \in 1..2*Len(names)-1 |->
                          IF i % 2 = 1 THEN names[(i + 1) \div 2] ELSE ","]
    IN  GetSafePath(e.path) \o <<"\t">> \o field \o <<"\t">> \o e.cmd

-----------------------------------------------------------------------------
(* IncronTab.                                                              *)

(* What fgets returns: up to a newline or LineMax - 1 letters.             *)
Lines(text) ==
    LET from[i \in 1..Len(text)+1] ==
            IF i > Len(text) THEN <<>>
            ELSE LET end == Min({j \in i..Len(text) : text[j] = "\n"}
                                \cup {i + LineMax - 2, Len(text)})
                 IN  <<SubSeq(text, i, end)>> \o from[end+1]
    IN  from[1]

Load(text) ==
    LET lines == Lines(text) IN FlattenSeq([i \in DOMAIN lines |-> Parse(lines[i])])

Save(tab) == FlattenSeq([i \in DOMAIN tab |-> EntryToString(tab[i]) \o <<"\n">>])

-----------------------------------------------------------------------------
(* The command of an event, from the text of the entry (UserTable::OnEvent).*)

(* Faulty variant: of two dollars the second is looked at again.           *)
ExpandAgain(cs, path, name, types, number) ==
    LET rest[i \in 1..Len(cs)+2] ==
            IF i > Len(cs) THEN <<>>
            ELSE IF cs[i] # "$" THEN <<cs[i]>> \o rest[i+1]
            ELSE CASE i = Len(cs)    -> <<>>
                   [] cs[i+1] = "$"  -> <<"$">> \o rest[i+1]
                   [] cs[i+1] = "@"  -> GetSafePath(path) \o rest[i+2]
                   [] cs[i+1] = "#"  -> GetSafePath(name) \o rest[i+2]
                   [] OTHER          -> rest[i+1]
    IN  rest[1]

(* A dollar that says nothing is left out.                                 *)
Expand(cs, path, name, types, number) ==
    LET rest[i \in 1..Len(cs)+2] ==
            IF i > Len(cs) THEN <<>>
            ELSE IF cs[i] # "$" THEN <<cs[i]>> \o rest[i+1]
            ELSE CASE i = Len(cs)    -> <<>>
                   [] cs[i+1] = "$"  -> <<"$">> \o rest[i+2]
                   [] cs[i+1] = "@"  -> GetSafePath(path) \o rest[i+2]
                   [] cs[i+1] = "#"  -> GetSafePath(name) \o rest[i+2]
                   [] cs[i+1] = "%"  -> types \o rest[i+2]
                   [] cs[i+1] = "&"  -> number \o rest[i+2]
                   [] OTHER          -> rest[i+1]
    IN  rest[1]

Quoted(cs) == FlattenSeq([i \in DOMAIN cs |-> IF cs[i] = "$" THEN <<"$", "$">> ELSE <<cs[i]>>])

-----------------------------------------------------------------------------
(* Entries that cannot be told from others in a file: a path that looks    *)
(* like a comment, no mask at all (written as IN_ALL_EVENTS), a line that  *)
(* got too long, and one of the two IN_CLOSE_ masks beside IN_MOVE_SELF.   *)
MaskWritten(mask) == UNION {GetMaskByName(n) : n \in ToSet(DumpTypes(mask))} = mask
Storable(e) ==
    /\ e.path[1] # "#"
    /\ e.mask # {} \/ e.norec \/ e.loopable \/ e.dotdirs
    /\ Len(EntryToString(e)) + 1 < LineMax
    /\ MaskWritten(e.mask)

ReadsBack(tab) == Load(Save(tab)) = tab
=============================================================================
