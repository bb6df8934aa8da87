-------------------------- MODULE Incrontab_proofs --------------------------
(* Any number of incrontabs and any texts.  What the operators of the      *)
(* table's syntax return; that a command's dollars can be quoted; that what*)
(* is saved is loaded again; the type invariant; that a process's verdict  *)
(* is true of the table; that the daemon ends up with the table that is in *)
(* the file.                                                               *)
EXTENDS Incrontab, Induction, FiniteSetTheorems

-----------------------------------------------------------------------------
(* The syntax of tables: what is read of a text is entries, and what is    *)
(* written of entries a text.  The recursive functions of TableSyntax are  *)
(* total because each calls itself further to the right.                   *)

Text == Seq(Letter)

StripStep(s, g, i) ==
    IF i > Len(s) THEN <<>>
    ELSE IF s[i] # "\\" THEN <<s[i]>> \o g[i+1]
    ELSE IF i < Len(s) /\ s[i+1] = "\\" THEN <<"\\">> \o g[i+2]
    ELSE g[i+1]

(* The recursive function of StripPrefix exists: its value at a letter     *)
(* depends on those at the letters after it.                               *)
LEMMA StripRecursion ==
    ASSUME NEW s \in Text
    PROVE  \E g \in [1..Len(s)+2 -> Text] :
              g = [i \in 1..Len(s)+2 |-> StripStep(s, g, i)] /\ StripPrefix(s) = g[1]
<1> DEFINE n == Len(s) + 2
           F == [i \in 1..n |-> [g \in [1..n -> Text] |-> StripStep(s, g, i)]]
<1>1. n \in Nat /\ Text # {} /\ Len(s) \in Nat /\ \A i \in 1..Len(s) : s[i] \in Letter
  BY DEF Text
<1>2. ASSUME NEW i \in 1..n, NEW g \in [1..n -> Text]
      PROVE  StripStep(s, g, i) \in Text
  <2>1. CASE i > Len(s)
    BY <2>1 DEF StripStep, Text
  <2>2. CASE ~(i > Len(s))
    <3>1. i \in 1..Len(s) /\ i+1 \in 1..n /\ i+2 \in 1..n
      BY <1>1, <2>2
    <3>2. g[i+1] \in Text /\ g[i+2] \in Text
      BY <3>1
    <3>3. <<s[i]>> \in Text /\ <<"\\">> \in Text
      <4>1. s[i] \in Letter /\ "\\" \in Letter
        BY <1>1, <3>1, LetterAssumption
      <4> QED BY <4>1, One DEF Text
    <3> HIDE DEF n
    <3>4. <<s[i]>> \o g[i+1] \in Text /\ <<"\\">> \o g[i+2] \in Text
      BY <3>2, <3>3, ConcatProperties DEF Text
    <3> QED BY <2>2, <3>2, <3>4 DEF StripStep
  <2> QED BY <2>1, <2>2
<1>3. /\ F \in Steps(1..n, Text)
      /\ \A i \in 1..n : \A g \in [1..n -> Text] : F[i][g] = StripStep(s, g, i)
  BY <1>2 DEF Steps
<1>4. LooksAhead(F, Text, n)
  <2> SUFFICES ASSUME NEW i \in 1..n, NEW g \in [1..n -> Text], NEW h \in [1..n -> Text],
                      \A j \in i+1..n : g[j] = h[j]
               PROVE  StripStep(s, g, i) = StripStep(s, h, i)
    BY <1>3 DEF LooksAhead
  <2>1. ~(i > Len(s)) => i+1 \in i+1..n /\ i+2 \in i+1..n
    BY <1>1
  <2> QED BY <2>1 DEF StripStep
<1> HIDE DEF F, n
<1>5. PICK g \in [1..n -> Text] : Solves(g, F, 1..n)
  BY <1>1, <1>3, <1>4, DownwardRecursion
<1>6. g = [i \in 1..n |-> StripStep(s, g, i)]
  BY <1>3, <1>5 DEF Solves
<1> DEFINE rest == CHOOSE h : h = [i \in 1..n |-> StripStep(s, h, i)]
<1>7. rest = [i \in 1..n |-> StripStep(s, rest, i)]
  BY <1>6
<1>8. StripPrefix(s) = rest[1]
  BY DEF StripPrefix, StripStep, n
<1> HIDE DEF rest
<1>9. rest = g
  <2> DEFINE S == {i \in 1..n : rest[i] = g[i]}
  <2>1. ASSUME NEW i \in 1..n, \A j \in i+1..n : j \in S
        PROVE  i \in S
    <3>1. StripStep(s, rest, i) = StripStep(s, g, i)
      <4>1. ~(i > Len(s)) => i+1 \in i+1..n /\ i+2 \in i+1..n
        BY <1>1 DEF n
      <4> QED BY <2>1, <4>1 DEF StripStep
    <3> QED BY <1>6, <1>7, <3>1
  <2> HIDE DEF S
  <2>2. 1..n \subseteq S
    BY <1>1, <2>1, DownwardInduction
  <2> QED BY <1>6, <1>7, <2>2 DEF S
<1> QED BY <1>6, <1>8, <1>9 DEF n

(* Stripping a text of its prefixes leaves a text.                         *)
LEMMA StripPrefixType ==
    ASSUME NEW s \in Text
    PROVE  StripPrefix(s) \in Text
<1>1. PICK g \in [1..Len(s)+2 -> Text] : StripPrefix(s) = g[1]
  BY StripRecursion
<1>2. 1 \in 1..Len(s)+2
  BY DEF Text
<1> QED BY <1>1, <1>2

(* What the tokenizer does where it is: the token's text and what follows. *)
TokenEnd(s, p) == Min({i \in p..Len(s) : Ends(s, p, i)} \cup {Len(s) + 1})
TokenAt(s, p) == [text |-> StripPrefix(SubSeq(s, p, TokenEnd(s, p) - 1)),
                  pos |-> Min({TokenEnd(s, p), Len(s)}) + 1]
TokenStep(s, g, p) ==
    IF TokenAt(s, p).text = <<>> /\ TokenAt(s, p).pos <= Len(s)
    THEN g[TokenAt(s, p).pos] ELSE TokenAt(s, p)
Token(s) == [text : Text, pos : 1..Len(s)+1]

(* A token ends at a position from its beginning on, or behind the last    *)
(* letter.                                                                 *)
LEMMA TokenEnds ==
    ASSUME NEW s \in Text, NEW p \in 1..Len(s)+1
    PROVE  /\ TokenEnd(s, p) \in p..Len(s)+1
           /\ TokenEnd(s, p) = Len(s) + 1 \/ Ends(s, p, TokenEnd(s, p))
           /\ \A i \in p..TokenEnd(s, p)-1 : ~Ends(s, p, i)
<1> DEFINE S == {i \in p..Len(s) : Ends(s, p, i)} \cup {Len(s) + 1}
<1>1. Len(s) \in Nat
  BY DEF Text
<1>2. S \subseteq p..Len(s)+1 /\ S \subseteq Nat /\ S # {}
  BY <1>1
<1>3. /\ \A i \in S : i = Len(s) + 1 \/ Ends(s, p, i)
      /\ \A i \in p..Len(s) : Ends(s, p, i) => i \in S
  OBVIOUS
<1> HIDE DEF S
<1>4. Min(S) \in S /\ \A y \in S : Min(S) <= y
  BY <1>2, MinOfNats
<1>5. TokenEnd(s, p) = Min(S)
  BY DEF TokenEnd, S
<1> DEFINE e == Min(S)
<1> HIDE DEF e
<1>6. e \in p..Len(s)+1 /\ (e = Len(s) + 1 \/ Ends(s, p, e))
  BY <1>2, <1>3, <1>4 DEF e
<1>7. ASSUME NEW i \in p..e-1, Ends(s, p, i)
      PROVE  FALSE
  <2>1. i \in p..Len(s)
    BY <1>1, <1>6
  <2>2. e <= i
    BY <1>3, <1>4, <1>7, <2>1 DEF e
  <2> QED BY <1>1, <1>6, <2>1, <2>2
<1> QED BY <1>5, <1>6, <1>7 DEF e

(* The token at a position is a text, and the next one begins further to   *)
(* the right.                                                              *)
LEMMA TokenAtType ==
    ASSUME NEW s \in Text, NEW p \in 1..Len(s)+1
    PROVE  /\ TokenAt(s, p) \in Token(s)
           /\ TokenAt(s, p).pos = IF TokenEnd(s, p) <= Len(s) THEN TokenEnd(s, p) + 1
                                  ELSE Len(s) + 1
           /\ TokenAt(s, p).pos <= Len(s) => TokenAt(s, p).pos > p
<1> DEFINE e == TokenEnd(s, p)
           m == Min({e, Len(s)})
<1>1. Len(s) \in Nat /\ \A i \in 1..Len(s) : s[i] \in Letter
  BY DEF Text
<1>2. e \in p..Len(s)+1 /\ e \in Nat
  BY <1>1, TokenEnds
<1> HIDE DEF e
<1>3. m = IF e <= Len(s) THEN e ELSE Len(s)
  <2>1. {e, Len(s)} \subseteq Nat /\ {e, Len(s)} # {}
    BY <1>1, <1>2
  <2>2. m \in {e, Len(s)} /\ \A y \in {e, Len(s)} : m <= y
    BY <2>1, MinOfNats
  <2> HIDE DEF m
  <2> QED BY <1>1, <1>2, <2>2
<1> HIDE DEF m
<1>4. SubSeq(s, p, e - 1) \in Text
  <2>1. \A i \in p..e-1 : s[i] \in Letter
    BY <1>1, <1>2
  <2>2. p \in Int /\ e - 1 \in Int
    BY <1>1, <1>2
  <2> QED BY <2>1, <2>2, SubSeqProperties DEF Text
<1>5. StripPrefix(SubSeq(s, p, e - 1)) \in Text
  BY <1>4, StripPrefixType
<1>6. m + 1 \in 1..Len(s)+1 /\ (m + 1 <= Len(s) => m + 1 > p)
  BY <1>1, <1>2, <1>3
<1>7. TokenAt(s, p) = [text |-> StripPrefix(SubSeq(s, p, e - 1)), pos |-> m + 1]
  BY DEF TokenAt, e, m
<1> QED BY <1>1, <1>2, <1>3, <1>5, <1>6, <1>7 DEF Token, e

(* The recursive function of GetNextToken exists, and what it returns is a *)
(* token.                                                                  *)
LEMMA TokenRecursion ==
    ASSUME NEW s \in Text
    PROVE  \E g \in [1..Len(s)+1 -> Token(s)] :
              /\ g = [p \in 1..Len(s)+1 |-> TokenStep(s, g, p)]
              /\ \A pos : GetNextToken(s, pos) = g[pos]
<1> DEFINE n == Len(s) + 1
           V == Token(s)
           F == [p \in 1..n |-> [g \in [1..n -> V] |-> TokenStep(s, g, p)]]
<1>1. n \in Nat /\ Len(s) \in Nat
  BY DEF Text
<1>2. \A p \in 1..n : TokenAt(s, p) \in V /\ (TokenAt(s, p).pos <= Len(s) => TokenAt(s, p).pos \in p+1..n)
  <2> SUFFICES ASSUME NEW p \in 1..n
               PROVE  TokenAt(s, p) \in V /\ (TokenAt(s, p).pos <= Len(s) => TokenAt(s, p).pos \in p+1..n)
    OBVIOUS
  <2>1. TokenAt(s, p) \in V /\ (TokenAt(s, p).pos <= Len(s) => TokenAt(s, p).pos > p)
    BY TokenAtType
  <2>2. TokenAt(s, p).pos \in 1..Len(s)+1
    BY <2>1 DEF Token
  <2> QED BY <1>1, <2>1, <2>2
<1> HIDE DEF V
<1>3. V # {}
  <2>1. 1 \in 1..n
    BY <1>1
  <2> QED BY <1>2, <2>1
<1>4. \A p \in 1..n : \A g \in [1..n -> V] : TokenStep(s, g, p) \in V
  BY <1>1, <1>2 DEF TokenStep
<1>5. /\ F \in Steps(1..n, V)
      /\ \A p \in 1..n : \A g \in [1..n -> V] : F[p][g] = TokenStep(s, g, p)
  BY <1>4 DEF Steps
<1>6. LooksAhead(F, V, n)
  <2> SUFFICES ASSUME NEW p \in 1..n, NEW g \in [1..n -> V], NEW h \in [1..n -> V],
                      \A j \in p+1..n : g[j] = h[j]
               PROVE  TokenStep(s, g, p) = TokenStep(s, h, p)
    BY <1>5 DEF LooksAhead
  <2> QED BY <1>2 DEF TokenStep
<1> HIDE DEF F, n
<1>7. PICK g \in [1..n -> V] : Solves(g, F, 1..n)
  BY <1>1, <1>3, <1>5, <1>6, DownwardRecursion
<1>8. g = [p \in 1..n |-> TokenStep(s, g, p)]
  BY <1>5, <1>7 DEF Solves
<1> DEFINE token == CHOOSE h : h = [p \in 1..n |-> TokenStep(s, h, p)]
<1>9. token = [p \in 1..n |-> TokenStep(s, token, p)]
  BY <1>8
<1>10. \A pos : GetNextToken(s, pos) = token[pos]
  BY DEF GetNextToken, TokenStep, TokenAt, TokenEnd, n
<1> HIDE DEF token
<1>11. token = g
  <2> DEFINE S == {p \in 1..n : token[p] = g[p]}
  <2>1. ASSUME NEW p \in 1..n, \A j \in p+1..n : j \in S
        PROVE  p \in S
    <3>1. TokenStep(s, token, p) = TokenStep(s, g, p)
      BY <1>2, <2>1 DEF TokenStep
    <3> QED BY <1>8, <1>9, <3>1
  <2> HIDE DEF S
  <2>2. 1..n \subseteq S
    BY <1>1, <2>1, DownwardInduction
  <2> QED BY <1>8, <1>9, <2>2 DEF S
<1> QED BY <1>8, <1>10, <1>11 DEF n, V
(* Lines.                                                                  *)
LineEnd(text, i) == Min({j \in i..Len(text) : text[j] = "\n"} \cup {i + LineMax - 2, Len(text)})
LineStep(text, g, i) ==
    IF i > Len(text) THEN <<>>
    ELSE <<SubSeq(text, i, LineEnd(text, i))>> \o g[LineEnd(text, i) + 1]

(* A line ends within the text and has a letter at least.                  *)
LEMMA LineEnds ==
    ASSUME NEW text \in Text, NEW i \in 1..Len(text)
    PROVE  LET e == LineEnd(text, i)
           IN  /\ e \in i..Len(text) /\ e <= i + LineMax - 2
               /\ e = i + LineMax - 2 \/ e = Len(text) \/ text[e] = "\n"
               /\ \A j \in i..e-1 : text[j] # "\n"
<1> DEFINE S == {j \in i..Len(text) : text[j] = "\n"} \cup {i + LineMax - 2, Len(text)}
<1>1. Len(text) \in Nat /\ LineMax \in Nat /\ LineMax >= 2
  BY LineMaxAssumption DEF Text
<1>2. S \subseteq Nat /\ S # {} /\ \A j \in S : j >= i
  BY <1>1
<1>3. /\ Len(text) \in S /\ i + LineMax - 2 \in S
      /\ \A j \in S : j = i + LineMax - 2 \/ j = Len(text) \/ text[j] = "\n"
      /\ \A j \in i..Len(text) : text[j] = "\n" => j \in S
  OBVIOUS
<1> HIDE DEF S
<1> DEFINE e == Min(S)
<1>4. e \in S /\ \A y \in S : e <= y
  BY <1>2, MinOfNats
<1> HIDE DEF e
<1>5. e \in Nat /\ e >= i /\ e <= Len(text) /\ e <= i + LineMax - 2
  BY <1>2, <1>3, <1>4
<1>6. e = i + LineMax - 2 \/ e = Len(text) \/ text[e] = "\n"
  BY <1>3, <1>4
<1>7. \A j \in i..e-1 : text[j] # "\n"
  <2> SUFFICES ASSUME NEW j \in i..e-1, text[j] = "\n"
               PROVE  FALSE
    OBVIOUS
  <2>1. j \in i..Len(text)
    BY <1>1, <1>5
  <2>2. e <= j
    BY <1>3, <1>4, <2>1
  <2> QED BY <1>5, <2>1, <2>2
<1>8. LineEnd(text, i) = e
  BY DEF LineEnd, S, e
<1>9. e \in i..Len(text)
  BY <1>1, <1>5
<1> QED BY <1>5, <1>6, <1>7, <1>8, <1>9

(* The recursive function of Lines exists, and what it returns are texts.  *)
LEMMA LinesRecursion ==
    ASSUME NEW text \in Text
    PROVE  \E g \in [1..Len(text)+1 -> Seq(Text)] :
              g = [i \in 1..Len(text)+1 |-> LineStep(text, g, i)] /\ Lines(text) = g[1]
<1> DEFINE n == Len(text) + 1
           V == Seq(Text)
           F == [i \in 1..n |-> [g \in [1..n -> V] |-> LineStep(text, g, i)]]
<1>1. n \in Nat /\ V # {} /\ Len(text) \in Nat /\ \A i \in 1..Len(text) : text[i] \in Letter
  <2>1. <<>> \in V
    OBVIOUS
  <2> HIDE DEF V
  <2> QED BY <2>1 DEF Text
<1>2. \A i \in 1..n : ~(i > Len(text)) => /\ LineEnd(text, i) + 1 \in i+1..n
                                          /\ SubSeq(text, i, LineEnd(text, i)) \in Text
  <2> SUFFICES ASSUME NEW i \in 1..n, ~(i > Len(text))
               PROVE  /\ LineEnd(text, i) + 1 \in i+1..n
                      /\ SubSeq(text, i, LineEnd(text, i)) \in Text
    OBVIOUS
  <2>1. i \in 1..Len(text)
    BY <1>1
  <2>2. LineEnd(text, i) \in i..Len(text)
    BY <2>1, LineEnds
  <2>3. /\ \A j \in i..LineEnd(text, i) : text[j] \in Letter
        /\ i \in Int /\ LineEnd(text, i) \in Int /\ LineEnd(text, i) + 1 \in i+1..n
    BY <1>1, <2>1, <2>2
  <2> QED BY <2>3, SubSeqProperties DEF Text
<1>3. ASSUME NEW i \in 1..n, NEW g \in [1..n -> V]
      PROVE  LineStep(text, g, i) \in V
  <2>1. CASE i > Len(text)
    BY <2>1 DEF LineStep
  <2>2. CASE ~(i > Len(text))
    <3>1. <<SubSeq(text, i, LineEnd(text, i))>> \in V
      BY <1>2, <2>2, One
    <3>2. LineEnd(text, i) + 1 \in 1..n
      BY <1>1, <1>2, <2>2
    <3>3. g[LineEnd(text, i) + 1] \in V
      BY <3>2
    <3> QED BY <2>2, <3>1, <3>3, ConcatProperties DEF LineStep
  <2> QED BY <2>1, <2>2
<1>4. /\ F \in Steps(1..n, V)
      /\ \A i \in 1..n : \A g \in [1..n -> V] : F[i][g] = LineStep(text, g, i)
  BY <1>3 DEF Steps
<1>5. LooksAhead(F, V, n)
  <2> SUFFICES ASSUME NEW i \in 1..n, NEW g \in [1..n -> V], NEW h \in [1..n -> V],
                      \A j \in i+1..n : g[j] = h[j]
               PROVE  LineStep(text, g, i) = LineStep(text, h, i)
    BY <1>4 DEF LooksAhead
  <2> QED BY <1>2 DEF LineStep
<1> HIDE DEF F, n, V
<1>6. PICK g \in [1..n -> V] : Solves(g, F, 1..n)
  BY <1>1, <1>4, <1>5, DownwardRecursion
<1>7. g = [i \in 1..n |-> LineStep(text, g, i)]
  BY <1>4, <1>6 DEF Solves
<1> DEFINE from == CHOOSE h : h = [i \in 1..n |-> LineStep(text, h, i)]
<1>8. from = [i \in 1..n |-> LineStep(text, from, i)]
  BY <1>7
<1>9. Lines(text) = from[1]
  BY DEF Lines, LineStep, LineEnd, n
<1> HIDE DEF from
<1>10. from = g
  <2> DEFINE S == {i \in 1..n : from[i] = g[i]}
  <2>1. ASSUME NEW i \in 1..n, \A j \in i+1..n : j \in S
        PROVE  i \in S
    <3>1. LineStep(text, from, i) = LineStep(text, g, i)
      BY <1>2, <2>1 DEF LineStep
    <3> QED BY <1>7, <1>8, <3>1
  <2> HIDE DEF S
  <2>2. 1..n \subseteq S
    BY <1>1, <2>1, DownwardInduction
  <2> QED BY <1>7, <1>8, <2>2 DEF S
<1> QED BY <1>7, <1>9, <1>10 DEF n, V
Entries == [path : Text, cmd : Text, mask : SUBSET Letter,
            loopable : BOOLEAN, norec : BOOLEAN, dotdirs : BOOLEAN]

(* GetNextToken returns a text and a position of the line or the one behind*)
(* it.                                                                     *)
LEMMA GetNextTokenType ==
    ASSUME NEW s \in Text, NEW pos \in 1..Len(s)+1
    PROVE  /\ GetNextToken(s, pos).text \in Text
           /\ GetNextToken(s, pos).pos \in 1..Len(s)+1
  BY TokenRecursion DEF Token

(* The bits of a name are letters.                                         *)
LEMMA GetMaskByNameType ==
    ASSUME NEW name
    PROVE  GetMaskByName(name) \in SUBSET Letter
<1>1. {"IN_CLOSE_WRITE", "IN_CLOSE_NOWRITE", "IN_MOVED_FROM", "IN_MOVED_TO"} \subseteq AllEvents
  BY DEF AllEvents
<1>2. AllEvents \subseteq Letter /\ ToSet(Flags) \subseteq Letter
  BY LetterAssumption
<1> HIDE DEF AllEvents, Flags
<1> QED BY <1>1, <1>2 DEF GetMaskByName

(* From texts and a field comes an entry.                                  *)
LEMMA EntryType ==
    ASSUME NEW path \in Text, NEW field, NEW cmd \in Text
    PROVE  Entry(path, field, cmd) \in Entries
  BY GetMaskByNameType, NumberAssumption DEF Entry, Entries

(* A line is parsed into one entry or none.                                *)
LEMMA ParseType ==
    ASSUME NEW line \in Text
    PROVE  Parse(line) \in Seq(Entries)
<1> DEFINE s1 == GetNextToken(line, 1)
           s2 == GetNextToken(line, s1.pos)
           s3 == SubSeq(line, s2.pos, Len(line))
           cmd == IF Last(s3) = "\n" THEN Front(s3) ELSE s3
<1>1. Len(line) \in Nat /\ \A i \in 1..Len(line) : line[i] \in Letter
  BY DEF Text
<1>2. s1.text \in Text /\ s1.pos \in 1..Len(line)+1
  <2>1. 1 \in 1..Len(line)+1
    BY <1>1
  <2> QED BY <2>1, GetNextTokenType
<1> HIDE DEF s1
<1>3. s2.text \in Text /\ s2.pos \in 1..Len(line)+1
  BY <1>2, GetNextTokenType
<1> HIDE DEF s2
<1>4. s3 \in Text
  <2>1. /\ \A i \in s2.pos..Len(line) : line[i] \in Letter
        /\ s2.pos \in Int /\ Len(line) \in Int
    BY <1>1, <1>3
  <2> QED BY <2>1, SubSeqProperties DEF Text
<1> HIDE DEF s3
<1>5. cmd \in Text
  <2>1. Front(s3) \in Text
    <3>1. /\ \A i \in 1..Len(s3)-1 : s3[i] \in Letter
          /\ 1 \in Int /\ Len(s3)-1 \in Int
      BY <1>4 DEF Text
    <3> QED BY <3>1, SubSeqProperties DEF Front, Text
  <2> QED BY <1>4, <2>1
<1> HIDE DEF cmd
<1>6. Entry(s1.text, s2.text, cmd) \in Entries
  BY <1>2, <1>5, EntryType
<1>7. <<Entry(s1.text, s2.text, cmd)>> \in Seq(Entries)
  BY <1>6, One
<1>8. <<>> \in Seq(Entries)
  OBVIOUS
<1>9. Parse(line) \in {<<>>, <<Entry(s1.text, s2.text, cmd)>>}
  BY DEF Parse, s1, s2, s3, cmd
<1> QED BY <1>7, <1>8, <1>9

(* A text is read as a sequence of texts.                                  *)
LEMMA LinesType ==
    ASSUME NEW text \in Text
    PROVE  Lines(text) \in Seq(Text)
<1>1. PICK g \in [1..Len(text)+1 -> Seq(Text)] : Lines(text) = g[1]
  BY LinesRecursion
<1>2. 1 \in 1..Len(text)+1
  BY DEF Text
<1> QED BY <1>1, <1>2

(* What is loaded of a text is entries, whatever the text.                 *)
LEMMA LoadType ==
    ASSUME NEW text \in Text
    PROVE  Load(text) \in Seq(Entries)
<1> DEFINE lines == Lines(text)
           parsed == [i \in DOMAIN lines |-> Parse(lines[i])]
<1>1. lines \in Seq(Text)
  BY LinesType
<1> HIDE DEF lines
<1>2. DOMAIN lines = 1..Len(lines) /\ Len(lines) \in Nat /\ \A i \in DOMAIN lines : lines[i] \in Text
  BY <1>1
<1>3. \A i \in DOMAIN lines : Parse(lines[i]) \in Seq(Entries)
  BY <1>2, ParseType
<1>4. parsed \in Seq(Seq(Entries))
  BY <1>2, <1>3, IsASeq
<1> HIDE DEF parsed
<1>5. Load(text) = FlattenSeq(parsed)
  BY DEF Load, parsed, lines
<1> QED BY <1>4, <1>5, FlattenType

(* A sequence over a set is one over every larger set.                     *)
LEMMA SeqOver ==
    ASSUME NEW S, NEW T, S \subseteq T, NEW s \in Seq(S)
    PROVE  s \in Seq(T)
  OBVIOUS

(* An option is one name or none.                                          *)
LEMMA OptionType ==
    ASSUME NEW on, NEW T, NEW name \in T
    PROVE  Option(on, name) \in Seq(T)
  BY One DEF Option

(* Dump returns some of the names it is given.                             *)
LEMMA DumpType ==
    ASSUME NEW T, NEW names \in Seq(T), NEW mask
    PROVE  Dump(names, mask) \in Seq(T)
<1> DEFINE ss == [i \in DOMAIN names |-> Option(GetMaskByName(names[i]) \subseteq mask, names[i])]
<1>1. DOMAIN names = 1..Len(names) /\ Len(names) \in Nat /\ \A i \in DOMAIN names : names[i] \in T
  OBVIOUS
<1>2. \A i \in DOMAIN names : Option(GetMaskByName(names[i]) \subseteq mask, names[i]) \in Seq(T)
  BY <1>1, OptionType
<1>3. ss \in Seq(Seq(T))
  BY <1>1, <1>2, IsASeq
<1> HIDE DEF ss
<1>4. Dump(names, mask) = FlattenSeq(ss)
  BY DEF Dump, ss
<1> QED BY <1>3, <1>4, FlattenType

(* The names that DumpTypes may return, and those of the options.          *)
MaskNames == {"IN_ALL_EVENTS", "IN_CLOSE", "IN_MOVE"} \cup AllEvents \cup ToSet(Flags)
OptionNames == {"recursive=false", "loopable=true", "dotdirs=true"}

(* The names of masks and options are letters; the flags are names of      *)
(* masks.                                                                  *)
LEMMA Names ==
    /\ MaskNames \cup OptionNames \subseteq Letter
    /\ Flags \in Seq(MaskNames)
<1>1. DOMAIN Flags = 1..7 /\ Len(Flags) = 7
  BY DEF Flags
<1>2. \A i \in 1..7 : Flags[i] \in MaskNames
  <2>1. \A i \in 1..7 : Flags[i] \in ToSet(Flags)
    BY <1>1 DEF ToSet
  <2> QED BY <2>1 DEF MaskNames
<1>3. Flags = [i \in 1..7 |-> Flags[i]]
  BY DEF Flags
<1>4. MaskNames \cup OptionNames \subseteq Letter
  BY LetterAssumption DEF MaskNames, OptionNames
<1> QED BY <1>2, <1>3, <1>4, IsASeq

(* Whatever the mask, DumpTypes returns names of masks.                    *)
LEMMA DumpTypesType ==
    ASSUME NEW mask
    PROVE  DumpTypes(mask) \in Seq(MaskNames)
<1> DEFINE n1 == <<"IN_ACCESS", "IN_MODIFY", "IN_ATTRIB", "IN_CREATE", "IN_DELETE",
                   "IN_DELETE_SELF", "IN_OPEN", "IN_CLOSE">>
           n2 == <<"IN_CLOSE_WRITE", "IN_CLOSE_NOWRITE">>
           n3 == <<"IN_MOVED_FROM", "IN_MOVED_TO">>
           d1 == Dump(n1, mask)
           d2 == Dump(n2, mask)
           d3 == Dump(n3, mask)
           d4 == Dump(Flags, mask)
           c2 == IF "IN_MOVE_SELF" \in mask THEN <<"IN_MOVE_SELF">> ELSE d2
           c3 == IF GetMaskByName("IN_MOVE") \subseteq mask THEN <<"IN_MOVE">> ELSE d3
           all == IF AllEvents \subseteq mask THEN <<"IN_ALL_EVENTS">> ELSE d1 \o c2 \o c3
           T == MaskNames
<1>1. n1 \in Seq(T) /\ n2 \in Seq(T) /\ n3 \in Seq(T)
  <2>1. AllEvents \subseteq T /\ "IN_CLOSE" \in T
    BY DEF MaskNames
  <2> HIDE DEF T
  <2> QED BY <2>1 DEF AllEvents
<1>2. <<"IN_MOVE_SELF">> \in Seq(T) /\ <<"IN_MOVE">> \in Seq(T) /\ <<"IN_ALL_EVENTS">> \in Seq(T)
  <2>1. "IN_MOVE_SELF" \in T /\ "IN_MOVE" \in T /\ "IN_ALL_EVENTS" \in T
    BY DEF AllEvents, MaskNames
  <2> HIDE DEF T
  <2> QED BY <2>1, One
<1> HIDE DEF n1, n2, n3
<1>3. d1 \in Seq(T) /\ d2 \in Seq(T) /\ d3 \in Seq(T) /\ d4 \in Seq(T)
  BY <1>1, Names, DumpType
<1> HIDE DEF d1, d2, d3, d4
<1>4. c2 \in Seq(T) /\ c3 \in Seq(T)
  BY <1>2, <1>3
<1> HIDE DEF c2, c3
<1>5. d1 \o c2 \o c3 \in Seq(T)
  BY <1>3, <1>4, ConcatProperties
<1>6. all \in Seq(T)
  BY <1>2, <1>5
<1>7. DumpTypes(mask) = all \o d4
  BY DEF DumpTypes, all, c2, c3, d1, d2, d3, d4, n1, n2, n3
<1> HIDE DEF all
<1> QED BY <1>3, <1>6, <1>7, ConcatProperties

(* What becomes of one letter.                                             *)
Safe(c) == IF c \in {" ", "\\"} THEN <<"\\", c>> ELSE <<c>>

(* A letter made safe is a text of one or two letters.                     *)
LEMMA SafeType ==
    ASSUME NEW c \in Letter
    PROVE  Safe(c) \in Text
<1>1. "\\" \in Letter
  BY LetterAssumption
<1>2. <<"\\", c>> \in Text /\ <<c>> \in Text
  BY <1>1 DEF Text
<1> QED BY <1>2 DEF Safe

(* A path made safe is a text.                                             *)
LEMMA GetSafePathType ==
    ASSUME NEW path \in Text
    PROVE  GetSafePath(path) \in Text
<1> DEFINE ss == [i \in DOMAIN path |-> Safe(path[i])]
<1>1. DOMAIN path = 1..Len(path) /\ Len(path) \in Nat /\ \A i \in DOMAIN path : path[i] \in Letter
  BY DEF Text
<1>2. \A i \in DOMAIN path : Safe(path[i]) \in Text
  BY <1>1, SafeType
<1>4. ss \in Seq(Text)
  BY <1>1, <1>2, IsASeq
<1> HIDE DEF ss
<1>5. GetSafePath(path) = FlattenSeq(ss)
  BY DEF GetSafePath, Safe, ss
<1> QED BY <1>4, <1>5, FlattenType DEF Text

(* The fields of an entry in a file.                                       *)
EntryNames(e) == DumpTypes(e.mask) \o Option(e.norec, "recursive=false")
                 \o Option(e.loopable, "loopable=true") \o Option(e.dotdirs, "dotdirs=true")
EntryField(e) ==
    LET names == EntryNames(e)
    IN  IF names = <<>> THEN <<"IN_ALL_EVENTS">>
        ELSE [i \in 1..2*Len(names)-1 |-> IF i % 2 = 1 THEN names[(i + 1) \div 2] ELSE ","]

(* The names of an entry are names of masks and options.                   *)
LEMMA EntryNamesType ==
    ASSUME NEW e
    PROVE  EntryNames(e) \in Seq(MaskNames \cup OptionNames)
<1> DEFINE T == MaskNames \cup OptionNames
           d == DumpTypes(e.mask)
           a == Option(e.norec, "recursive=false")
           b == Option(e.loopable, "loopable=true")
           c == Option(e.dotdirs, "dotdirs=true")
<1>1. MaskNames \subseteq T /\ "recursive=false" \in T /\ "loopable=true" \in T /\ "dotdirs=true" \in T
  BY DEF OptionNames
<1>2. d \in Seq(MaskNames)
  BY DumpTypesType
<1> HIDE DEF T
<1>3. d \in Seq(T) /\ a \in Seq(T) /\ b \in Seq(T) /\ c \in Seq(T)
  <2>1. d \in Seq(T)
    <3> HIDE DEF d
    <3> QED BY <1>1, <1>2, SeqOver
  <2> QED BY <1>1, <2>1, OptionType
<1> HIDE DEF a, b, c, d
<1>4. d \o a \o b \o c \in Seq(T)
  BY <1>3, ConcatProperties
<1> QED BY <1>4 DEF EntryNames, a, b, c, d, T

(* The odd numbers up to 2n - 1 are those of the n names between commas.   *)
LEMMA OddNumbers ==
    ASSUME NEW n \in Nat, NEW i \in 1..2*n-1, i % 2 = 1
    PROVE  (i + 1) \div 2 \in 1..n
  OBVIOUS

(* The field of an entry is a text.                                        *)
LEMMA EntryFieldType ==
    ASSUME NEW e
    PROVE  EntryField(e) \in Text
<1> DEFINE names == EntryNames(e)
           n == Len(names)
           m == 2 * n - 1
           Letters(i) == IF i % 2 = 1 THEN names[(i + 1) \div 2] ELSE ","
<1>1. names \in Text
  <2>1. names \in Seq(MaskNames \cup OptionNames) /\ MaskNames \cup OptionNames \subseteq Letter
    BY EntryNamesType, Names
  <2> HIDE DEF names
  <2> QED BY <2>1, SeqOver DEF Text
<1> HIDE DEF names
<1>2. n \in Nat /\ \A i \in 1..n : names[i] \in Letter
  BY <1>1 DEF Text
<1>3. names # <<>> => m \in Nat
  <2>1. names # <<>> => n # 0
    BY <1>1, EmptySeq DEF Text
  <2> QED BY <1>2, <2>1
<1>4. <<"IN_ALL_EVENTS">> \in Text /\ "," \in Letter
  <2>1. "IN_ALL_EVENTS" \in Letter /\ "," \in Letter
    BY LetterAssumption
  <2> QED BY <2>1, One DEF Text
<1>5. \A i \in 1..m : Letters(i) \in Letter
  <2> SUFFICES ASSUME NEW i \in 1..m, i % 2 = 1
               PROVE  names[(i + 1) \div 2] \in Letter
    BY <1>4
  <2>1. (i + 1) \div 2 \in 1..n
    BY <1>2, OddNumbers
  <2> QED BY <1>2, <2>1
<1>6. names # <<>> => [i \in 1..m |-> Letters(i)] \in Text
  <2> HIDE DEF Letters, m
  <2> QED BY <1>3, <1>5, IsASeq DEF Text
<1> QED BY <1>4, <1>6 DEF EntryField, names

(* EntryToString puts its three parts between tabs.                        *)
LEMMA EntryToStringIs ==
    ASSUME NEW e
    PROVE  EntryToString(e) = GetSafePath(e.path) \o <<"\t">> \o EntryField(e) \o <<"\t">> \o e.cmd
  BY DEF EntryToString, EntryField, EntryNames

(* The line of an entry is a text.                                         *)
LEMMA EntryToStringType ==
    ASSUME NEW e \in Entries
    PROVE  EntryToString(e) \in Text
<1> DEFINE a == GetSafePath(e.path)
           t == <<"\t">>
           f == EntryField(e)
           c == e.cmd
<1>1. a \in Text /\ f \in Text /\ c \in Text
  BY GetSafePathType, EntryFieldType DEF Entries
<1>2. t \in Text
  <2>1. "\t" \in Letter
    BY LetterAssumption
  <2> QED BY <2>1, One DEF Text
<1> HIDE DEF a, t, f, c
<1>3. a \o t \o f \o t \o c \in Text
  BY <1>1, <1>2, ConcatProperties DEF Text
<1> QED BY <1>3, EntryToStringIs DEF a, t, f, c

(* What is written of entries is a text.                                   *)
LEMMA SaveType ==
    ASSUME NEW es \in Seq(Entries)
    PROVE  Save(es) \in Text
<1> DEFINE ss == [i \in DOMAIN es |-> EntryToString(es[i]) \o <<"\n">>]
<1>1. DOMAIN es = 1..Len(es) /\ Len(es) \in Nat /\ \A i \in DOMAIN es : es[i] \in Entries
  OBVIOUS
<1>2. <<"\n">> \in Text
  <2>1. "\n" \in Letter
    BY LetterAssumption
  <2> QED BY <2>1, One DEF Text
<1>3. \A i \in DOMAIN es : EntryToString(es[i]) \o <<"\n">> \in Text
  BY <1>1, <1>2, EntryToStringType, ConcatProperties DEF Text
<1>4. ss \in Seq(Text)
  BY <1>1, <1>3, IsASeq
<1> HIDE DEF ss
<1>5. Save(es) = FlattenSeq(ss)
  BY DEF Save, ss
<1> QED BY <1>4, <1>5, FlattenType DEF Text

-----------------------------------------------------------------------------
(* Commands.                                                               *)

(* What is made of the letter at i, if one is made of what follows it and  *)
(* two of what follows the next.                                           *)
ExpandStep(cs, path, name, types, number, i, one, two) ==
    IF i > Len(cs) THEN <<>>
    ELSE IF cs[i] # "$" THEN <<cs[i]>> \o one
    ELSE CASE i = Len(cs)    -> <<>>
           [] cs[i+1] = "$"  -> <<"$">> \o two
           [] cs[i+1] = "@"  -> GetSafePath(path) \o two
           [] cs[i+1] = "#"  -> GetSafePath(name) \o two
           [] cs[i+1] = "%"  -> types \o two
           [] cs[i+1] = "&"  -> number \o two
           [] OTHER          -> one

Expands(g, cs, path, name, types, number) ==
    g = [i \in 1..Len(cs)+2 |-> ExpandStep(cs, path, name, types, number, i, g[i+1], g[i+2])]

Computes(cs, path, name, types, number) ==
    \E g \in [1..Len(cs)+2 -> Text] :
       /\ Expands(g, cs, path, name, types, number)
       /\ Expand(cs, path, name, types, number) = g[1]

(* The recursive function of Expand exists: its value at a letter depends  *)
(* on those at the two letters after it.                                   *)
LEMMA ExpandRecursion ==
    ASSUME NEW cs \in Text, NEW path \in Text, NEW name \in Text, NEW types \in Text, NEW number \in Text
    PROVE  Computes(cs, path, name, types, number)
<1> DEFINE n == Len(cs) + 2
           Body(g, i) == ExpandStep(cs, path, name, types, number, i, g[i+1], g[i+2])
           F == [i \in 1..n |-> [g \in [1..n -> Text] |-> Body(g, i)]]
<1>1. n \in Nat /\ Text # {} /\ Len(cs) \in Nat /\ \A i \in 1..Len(cs) : cs[i] \in Letter
  BY DEF Text
<1>2. ASSUME NEW i \in 1..n, NEW g \in [1..n -> Text]
      PROVE  Body(g, i) \in Text
  <2>1. CASE i > Len(cs)
    BY <2>1 DEF ExpandStep, Text
  <2>2. CASE ~(i > Len(cs))
    <3>1. i \in 1..Len(cs) /\ i+1 \in 1..n /\ i+2 \in 1..n
      BY <1>1, <2>2
    <3> DEFINE a == g[i+1]
               b == g[i+2]
               c == <<cs[i]>>
               d == <<"$">>
               e == GetSafePath(path)
               f == GetSafePath(name)
    <3>2. a \in Text /\ b \in Text
      BY <3>1
    <3>3. c \in Text /\ d \in Text
      <4>1. cs[i] \in Letter /\ "$" \in Letter
        BY <1>1, <3>1, LetterAssumption
      <4> QED BY <4>1, One DEF Text
    <3>4. e \in Text /\ f \in Text /\ <<>> \in Text
      BY GetSafePathType DEF Text
    <3> HIDE DEF n, a, b, c, d, e, f
    <3>5. /\ c \o a \in Text /\ d \o b \in Text /\ e \o b \in Text /\ f \o b \in Text
          /\ types \o b \in Text /\ number \o b \in Text
      BY <3>2, <3>3, <3>4, ConcatProperties DEF Text
    <3>6. Body(g, i) \in {c \o a, d \o b, e \o b, f \o b, types \o b, number \o b, <<>>, a}
      BY <2>2, Zenon DEF ExpandStep, a, b, c, d, e, f
    <3> QED BY <3>2, <3>4, <3>5, <3>6
  <2> QED BY <2>1, <2>2
<1>3. /\ F \in Steps(1..n, Text)
      /\ \A i \in 1..n : \A g \in [1..n -> Text] : F[i][g] = Body(g, i)
  BY <1>2 DEF Steps
<1>4. \A i \in 1..n : ~(i > Len(cs)) => i+1 \in i+1..n /\ i+2 \in i+1..n
  BY <1>1
<1>5. \A i \in 1..n : \A g, h : (\A j \in i+1..n : g[j] = h[j]) => Body(g, i) = Body(h, i)
  <2> SUFFICES ASSUME NEW i \in 1..n, NEW g, NEW h, \A j \in i+1..n : g[j] = h[j]
               PROVE  Body(g, i) = Body(h, i)
    OBVIOUS
  <2> HIDE DEF n
  <2>1. CASE i > Len(cs)
    BY <2>1 DEF ExpandStep
  <2>2. CASE ~(i > Len(cs))
    <3>1. g[i+1] = h[i+1] /\ g[i+2] = h[i+2]
      BY <1>4, <2>2
    <3> QED BY <3>1
  <2> QED BY <2>1, <2>2
<1>6. LooksAhead(F, Text, n)
  BY <1>3, <1>5 DEF LooksAhead
<1> HIDE DEF F, n, Body
<1>7. PICK g \in [1..n -> Text] : Solves(g, F, 1..n)
  BY <1>1, <1>3, <1>6, DownwardRecursion
<1>8. g = [i \in 1..n |-> Body(g, i)]
  BY <1>3, <1>7 DEF Solves
<1> DEFINE rest == CHOOSE h : h = [i \in 1..n |-> Body(h, i)]
<1>9. rest = [i \in 1..n |-> Body(rest, i)]
  BY <1>8
<1>10. Expand(cs, path, name, types, number) = rest[1]
  BY DEF Expand, ExpandStep, Body, n
<1> HIDE DEF rest
<1>11. rest = g
  <2> DEFINE S == {i \in 1..n : rest[i] = g[i]}
  <2>1. ASSUME NEW i \in 1..n, \A j \in i+1..n : j \in S
        PROVE  i \in S
    <3>1. Body(rest, i) = Body(g, i)
      BY <1>5, <2>1
    <3> QED BY <1>8, <1>9, <3>1
  <2> HIDE DEF S
  <2>2. 1..n \subseteq S
    BY <1>1, <2>1, DownwardInduction
  <2> QED BY <1>8, <1>9, <2>2 DEF S
<1> QED BY <1>8, <1>10, <1>11 DEF n, Body, Expands, Computes

(* Twice(c) stands for c in a quoted command.                              *)
Twice(c) == IF c = "$" THEN <<"$", "$">> ELSE <<c>>

(* A quoted text, letter by letter: where each letter of the text is in it.*)
LEMMA QuotedPieces ==
    ASSUME NEW cmd \in Text
    PROVE  /\ Quoted(cmd) \in Text
           /\ \E at \in [1..Len(cmd)+1 -> Nat \ {0}] :
                 /\ at[1] = 1
                 /\ at[Len(cmd)+1] = Len(Quoted(cmd)) + 1
                 /\ \A i \in 1..Len(cmd) :
                       /\ at[i] \in 1..Len(Quoted(cmd)) /\ Quoted(cmd)[at[i]] = cmd[i]
                       /\ cmd[i] # "$" => at[i+1] = at[i] + 1
                       /\ cmd[i] = "$" => /\ at[i+1] = at[i] + 2
                                          /\ at[i] + 1 \in 1..Len(Quoted(cmd))
                                          /\ Quoted(cmd)[at[i] + 1] = "$"
<1> DEFINE n == Len(cmd)
           ss == [i \in DOMAIN cmd |-> Twice(cmd[i])]
           q == FlattenSeq(ss)
<1>1. n \in Nat /\ DOMAIN cmd = 1..n /\ \A i \in 1..n : cmd[i] \in Letter
  BY DEF Text
<1>2. \A i \in 1..n : Twice(cmd[i]) \in Text
  <2> SUFFICES ASSUME NEW c \in Letter
               PROVE  Twice(c) \in Text
    BY <1>1
  <2> HIDE DEF ss, q
  <2>1. "$" \in Letter
    BY LetterAssumption
  <2>2. <<"$", "$">> \in Text /\ <<c>> \in Text
    BY <2>1 DEF Text
  <2> QED BY <2>2 DEF Twice
<1>3. ss \in Seq(Text) /\ Len(ss) = n
  BY <1>1, <1>2, IsASeq
<1>4. \A i \in 1..n : ss[i] = Twice(cmd[i])
  BY <1>1
<1> HIDE DEF ss, n
<1>5. Quoted(cmd) = q
  BY DEF Quoted, Twice, q, ss
<1>6. q \in Text
  BY <1>3, FlattenType DEF Text
<1>7. PICK at \in [1..n+1 -> Nat \ {0}] :
         /\ at[1] = 1
         /\ \A i \in 1..n : at[i+1] = at[i] + Len(ss[i])
         /\ at[n+1] = Len(q) + 1
         /\ \A i \in 1..n : \A k \in 1..Len(ss[i]) :
               /\ at[i] + k - 1 \in 1..Len(q)
               /\ q[at[i] + k - 1] = ss[i][k]
  <2>1. ss \in Seq(Seq(Letter))
    BY <1>3 DEF Text
  <2>2. PICK at \in [1..Len(ss)+1 -> Nat \ {0}] : PiecesAt(at, ss)
    BY <2>1, FlattenPlaces
  <2>3. at \in [1..n+1 -> Nat \ {0}]
    BY <1>3, <2>2
  <2> QED BY <1>3, <2>2, <2>3 DEF PiecesAt
<1> HIDE DEF q
<1>8. ASSUME NEW i \in 1..n
      PROVE  /\ at[i] \in 1..Len(q) /\ q[at[i]] = cmd[i]
             /\ cmd[i] # "$" => at[i+1] = at[i] + 1
             /\ cmd[i] = "$" => /\ at[i+1] = at[i] + 2
                                /\ at[i] + 1 \in 1..Len(q)
                                /\ q[at[i] + 1] = "$"
  <2>1. at[i] \in Nat /\ at[i] + 1 - 1 = at[i] /\ at[i] + 2 - 1 = at[i] + 1
    <3>1. i \in 1..n+1
      BY <1>1
    <3> QED BY <3>1
  <2>2. CASE cmd[i] # "$"
    <3>1. ss[i] = <<cmd[i]>>
      BY <1>4, <2>2 DEF Twice
    <3>2. Len(ss[i]) = 1 /\ 1 \in 1..Len(ss[i]) /\ ss[i][1] = cmd[i]
      BY <3>1
    <3>3. at[i+1] = at[i] + 1
      BY <1>7, <3>2
    <3> QED BY <1>7, <2>1, <2>2, <3>2, <3>3
  <2>3. CASE cmd[i] = "$"
    <3>1. ss[i] = <<"$", "$">>
      BY <1>4, <2>3 DEF Twice
    <3>2. Len(ss[i]) = 2 /\ 1 \in 1..Len(ss[i]) /\ 2 \in 1..Len(ss[i]) /\ ss[i][1] = "$" /\ ss[i][2] = "$"
      BY <3>1
    <3>3. at[i+1] = at[i] + 2
      BY <1>7, <3>2
    <3>4. at[i] + 1 - 1 \in 1..Len(q) /\ q[at[i] + 1 - 1] = "$"
      BY <1>7, <3>2
    <3>5. at[i] + 2 - 1 \in 1..Len(q) /\ q[at[i] + 2 - 1] = "$"
      BY <1>7, <3>2
    <3> QED BY <2>1, <2>3, <3>3, <3>4, <3>5
  <2> QED BY <2>2, <2>3
<1> QED BY <1>5, <1>6, <1>7, <1>8 DEF n
(* A quoted command at the end of a text.                                  *)
EndsIn(cs, m, q) == Len(cs) = m + Len(q) /\ \A k \in 1..Len(q) : cs[m+k] = q[k]

(* From where a quoted command begins, the expansion is the command.       *)
LEMMA QuotedTail ==
    ASSUME NEW cs \in Text, NEW path \in Text, NEW name \in Text, NEW types \in Text, NEW number \in Text,
           NEW g \in [1..Len(cs)+2 -> Text], Expands(g, cs, path, name, types, number),
           NEW cmd \in Text, NEW m \in Nat, EndsIn(cs, m, Quoted(cmd))
    PROVE  g[m+1] = cmd
<1> DEFINE n == Len(cmd)
           q == Quoted(cmd)
           Rest(i) == SubSeq(cmd, i, n)
<1>1. n \in Nat /\ q \in Text /\ Len(q) \in Nat /\ \A i \in 1..n : cmd[i] \in Letter
  <2>1. q \in Text
    BY QuotedPieces
  <2> HIDE DEF q
  <2> QED BY <2>1 DEF Text
<1>2. PICK at \in [1..n+1 -> Nat \ {0}] :
         /\ at[1] = 1
         /\ at[n+1] = Len(q) + 1
         /\ \A i \in 1..n :
               /\ at[i] \in 1..Len(q) /\ q[at[i]] = cmd[i]
               /\ cmd[i] # "$" => at[i+1] = at[i] + 1
               /\ cmd[i] = "$" => /\ at[i+1] = at[i] + 2
                                  /\ at[i] + 1 \in 1..Len(q)
                                  /\ q[at[i] + 1] = "$"
  BY QuotedPieces
<1>3. Len(cs) = m + Len(q) /\ \A k \in 1..Len(q) : cs[m+k] = q[k]
  BY DEF EndsIn
<1> HIDE DEF q, n
<1> DEFINE S == {i \in 1..n+1 : g[m + at[i]] = Rest(i)}
<1>4. ASSUME NEW i \in 1..n+1, \A j \in i+1..n+1 : j \in S
      PROVE  i \in S
  <2>1. CASE i = n + 1
    <3>1. m + at[i] = Len(cs) + 1
      BY <1>1, <1>2, <1>3, <2>1
    <3>2. Len(cs) + 1 \in 1..Len(cs)+2 /\ Len(cs) + 1 > Len(cs)
      BY <1>1, <1>3
    <3>3. g[Len(cs) + 1] = <<>>
      BY <3>2 DEF Expands, ExpandStep
    <3>4. Rest(i) = <<>>
      BY <1>1, <2>1, SubSeqEmpty
    <3> QED BY <3>1, <3>3, <3>4
  <2>2. CASE i # n + 1
    <3>1. i \in 1..n /\ i + 1 \in i+1..n+1
      BY <1>1, <2>2
    <3>2. g[m + at[i+1]] = Rest(i+1)
      BY <1>4, <3>1
    <3>3. at[i] \in 1..Len(q) /\ q[at[i]] = cmd[i]
      BY <1>2, <3>1
    <3> DEFINE p == m + at[i]
    <3>4. p \in 1..Len(cs) /\ p \in 1..Len(cs)+2 /\ ~(p > Len(cs)) /\ cs[p] = cmd[i]
      BY <1>1, <1>3, <3>3
    <3>5. Rest(i) = <<cmd[i]>> \o Rest(i+1)
      <4>1. i \in 1..Len(cmd) /\ n \in i..Len(cmd) /\ cmd \in Seq(Letter)
        BY <1>1, <3>1 DEF n, Text
      <4> QED BY <4>1, SubSeqRecursiveFirst
    <3>6. g[p] = ExpandStep(cs, path, name, types, number, p, g[p+1], g[p+2])
      BY <3>4 DEF Expands
    <3>7. CASE cmd[i] # "$"
      <4>1. m + at[i+1] = p + 1
        BY <1>1, <1>2, <3>1, <3>3, <3>7
      <4>2. g[p] = <<cs[p]>> \o g[p+1]
        BY <3>4, <3>6, <3>7 DEF ExpandStep
      <4> QED BY <3>2, <3>4, <3>5, <4>1, <4>2
    <3>8. CASE cmd[i] = "$"
      <4>1. at[i+1] = at[i] + 2 /\ at[i] + 1 \in 1..Len(q) /\ q[at[i] + 1] = "$"
        BY <1>2, <3>1, <3>8
      <4>2. m + at[i+1] = p + 2 /\ p + 1 = m + (at[i] + 1) /\ p # Len(cs)
        <5> DEFINE a == at[i]
                   b == at[i+1]
                   l == Len(q)
                   k == Len(cs)
        <5>1. a \in Nat /\ b = a + 2 /\ l \in Nat /\ k = m + l /\ a + 1 <= l
          <6>1. a \in Nat /\ l \in Nat /\ k = m + l
            BY <1>1, <1>3, <3>3
          <6>2. b = a + 2 /\ a + 1 <= l
            BY <4>1
          <6> QED BY <6>1, <6>2
        <5> HIDE DEF a, b, l, k
        <5>2. m + b = (m + a) + 2 /\ (m + a) + 1 = m + (a + 1) /\ m + a # k
          BY <5>1
        <5> QED BY <5>2 DEF a, b, l, k
      <4>3. cs[p+1] = "$"
        BY <1>3, <4>1, <4>2
      <4>4. g[p] = <<"$">> \o g[p+2]
        BY <3>4, <3>6, <3>8, <4>2, <4>3 DEF ExpandStep
      <4> QED BY <3>2, <3>5, <3>8, <4>2, <4>4
    <3> QED BY <3>7, <3>8
  <2> QED BY <2>1, <2>2
<1> HIDE DEF S
<1>5. 1..n+1 \subseteq S
  <2>1. n + 1 \in Nat
    BY <1>1
  <2> QED BY <1>4, <2>1, DownwardInduction
<1>6. g[m + 1] = Rest(1)
  <2>1. 1 \in S
    BY <1>1, <1>5
  <2> QED BY <1>2, <2>1 DEF S
<1>7. Rest(1) = cmd
  BY SubSeqFull DEF n, Text
<1> QED BY <1>6, <1>7

(* A command that begins with the name and is quoted from there on.        *)
NameFirst(cmd, path, name, types, number) ==
    Expand(<<"$", "#">> \o Quoted(cmd), path, name, types, number)

NameAnd(name, cmd) == GetSafePath(name) \o cmd

(* A quoted command comes out as it was.                                   *)
LEMMA QuotedExpands ==
    ASSUME NEW path \in Text, NEW name \in Text, NEW types \in Text, NEW number \in Text, NEW cmd \in Text
    PROVE  /\ Expand(Quoted(cmd), path, name, types, number) = cmd
           /\ NameFirst(cmd, path, name, types, number) = NameAnd(name, cmd)
<1> DEFINE q == Quoted(cmd)
           d == <<"$", "#">>
           cs == d \o q
<1>1. q \in Text /\ Len(q) \in Nat
  <2>1. q \in Text
    BY QuotedPieces
  <2> HIDE DEF q
  <2> QED BY <2>1 DEF Text
<1>2. q = Quoted(cmd)
  OBVIOUS
<1> HIDE DEF q
<1>a. Expand(q, path, name, types, number) = cmd
  <2>1. Computes(q, path, name, types, number)
    BY <1>1, ExpandRecursion
  <2>2. PICK g \in [1..Len(q)+2 -> Text] :
           /\ Expands(g, q, path, name, types, number)
           /\ Expand(q, path, name, types, number) = g[1]
    BY <2>1 DEF Computes
  <2>3. EndsIn(q, 0, q) /\ 0 \in Nat
    BY <1>1 DEF EndsIn
  <2>4. g[0+1] = cmd
    BY <1>1, <1>2, <2>2, <2>3, QuotedTail
  <2> QED BY <2>2, <2>4
<1>3. d \in Text /\ Len(d) = 2 /\ d[1] = "$" /\ d[2] = "#"
  <2>1. "$" \in Letter /\ "#" \in Letter
    BY LetterAssumption
  <2> QED BY <2>1 DEF Text
<1> HIDE DEF d
<1>4. /\ cs \in Text /\ Len(cs) = 2 + Len(q) /\ Len(q) \in Nat
      /\ cs[1] = "$" /\ cs[2] = "#" /\ \A k \in 1..Len(q) : cs[2+k] = q[k]
  <2>1. /\ d \o q \in Seq(Letter) /\ Len(d \o q) = Len(d) + Len(q)
        /\ \A i \in 1..Len(d)+Len(q) : (d \o q)[i] = IF i <= Len(d) THEN d[i] ELSE q[i - Len(d)]
    BY <1>1, <1>3, ConcatProperties DEF Text
  <2>2. Len(q) \in Nat
    BY <1>1 DEF Text
  <2> QED BY <1>3, <2>1, <2>2 DEF Text
<1> HIDE DEF cs
<1>b. Computes(cs, path, name, types, number)
  BY <1>4, ExpandRecursion
<1>5. PICK g \in [1..Len(cs)+2 -> Text] :
           /\ Expands(g, cs, path, name, types, number)
           /\ Expand(cs, path, name, types, number) = g[1]
  BY <1>b DEF Computes
<1>6. g[3] = cmd
  <2>1. EndsIn(cs, 2, q) /\ 2 \in Nat
    BY <1>4 DEF EndsIn
  <2>2. g[2+1] = cmd
    BY <1>2, <1>4, <1>5, <2>1, QuotedTail
  <2> QED BY <2>2
<1>7. g[1] = GetSafePath(name) \o g[3]
  <2>1. 1 \in 1..Len(cs)+2 /\ ~(1 > Len(cs)) /\ 1 # Len(cs)
    BY <1>4
  <2>2. cs[1] = "$" /\ cs[1+1] = "#" /\ 1 + 2 = 3
    BY <1>4
  <2>3. g[1] = ExpandStep(cs, path, name, types, number, 1, g[1+1], g[1+2])
    BY <1>5, <2>1 DEF Expands
  <2> QED BY <2>1, <2>2, <2>3 DEF ExpandStep
<1>8. Expand(cs, path, name, types, number) = GetSafePath(name) \o cmd
  BY <1>5, <1>6, <1>7, Zenon
<1> QED BY <1>a, <1>8 DEF NameFirst, NameAnd, cs, d, q

(* A text without blanks and backslashes is safe as it is.                 *)
LEMMA SafeAlready ==
    ASSUME NEW f \in Text, \A i \in 1..Len(f) : f[i] \notin {" ", "\\"}
    PROVE  GetSafePath(f) = f
<1>1. [i \in DOMAIN f |-> Safe(f[i])] = [i \in 1..Len(f) |-> <<f[i]>>]
  <2>1. DOMAIN f = 1..Len(f)
    BY LenProperties DEF Text
  <2>2. \A i \in 1..Len(f) : Safe(f[i]) = <<f[i]>>
    BY DEF Safe
  <2> QED BY <2>1, <2>2
<1>2. FlattenSeq([i \in 1..Len(f) |-> <<f[i]>>]) = f
  BY FlattenOnes DEF Text
<1> QED BY <1>1, <1>2 DEF GetSafePath, Safe

(* Whatever the entry, both of what DollarsQuotable says of it is so.      *)
LEMMA Dollars ==
    ASSUME NEW e \in Entries
    PROVE  /\ \A n \in DOMAIN Number :
                 Expand(Quoted(e.cmd), e.path, <<"$", "@">>, DumpTypes(e.mask), <<n>>) = e.cmd
           /\ Expand(<<"$", "#">> \o Quoted(e.cmd), e.path, <<"$", "@">>, <<>>, <<>>)
                 = <<"$", "@">> \o e.cmd
<1> DEFINE f == <<"$", "@">>
<1>1. f \in Text /\ Len(f) = 2 /\ f[1] = "$" /\ f[2] = "@"
  <2>1. "$" \in Letter /\ "@" \in Letter
    BY LetterAssumption
  <2> QED BY <2>1 DEF Text
<1> HIDE DEF f
<1>2. GetSafePath(f) = f
  <2>1. \A i \in 1..Len(f) : f[i] \notin {" ", "\\"}
    <3>1. \A i \in 1..Len(f) : i = 1 \/ i = 2
      BY <1>1
    <3> QED BY <1>1, <3>1
  <2> QED BY <1>1, <2>1, SafeAlready
<1> DEFINE c == e.cmd
           p == e.path
           t == DumpTypes(e.mask)
<1>3. p \in Text /\ c \in Text /\ t \in Text /\ <<>> \in Text
  <2>1. t \in Seq(MaskNames) /\ MaskNames \subseteq Letter
    BY DumpTypesType, Names
  <2> HIDE DEF t
  <2>2. t \in Text /\ <<>> \in Text
    BY <2>1, SeqOver DEF Text
  <2> QED BY <2>2 DEF Entries
<1> HIDE DEF c, p, t
<1>4. \A n \in DOMAIN Number : <<n>> \in Text
  BY NumberAssumption, One DEF Text
<1>5. \A number \in Text : Expand(Quoted(c), p, f, t, number) = c
  BY <1>1, <1>3, QuotedExpands
<1>6. \A types, number \in Text : NameFirst(c, p, f, types, number) = NameAnd(f, c)
  BY <1>1, <1>3, QuotedExpands
<1> QED BY <1>2, <1>3, <1>4, <1>5, <1>6 DEF NameFirst, NameAnd, f, c, p, t

-----------------------------------------------------------------------------
(* Written and read again.  An entry that was loaded has a path without    *)
(* blanks, tabs or newlines and a command of one line, because a line ends *)
(* at its newline and a token at its blank.  Of such an entry, if it can be*)
(* stored, a line is written that is read as that entry: each of the four  *)
(* parts is found again where it was put.                                  *)

(* What can come out of a table: a path of letters that end no token, a    *)
(* command of one line.                                                    *)
Plain(path) == path # <<>> /\ \A i \in 1..Len(path) : path[i] \notin {" ", "\t", "\n"}
OneLine(cmd) == \A i \in 1..Len(cmd) : cmd[i] # "\n"
Kept == {e \in Entries : Plain(e.path) /\ OneLine(e.cmd)}

(* What fgets may return.                                                  *)
Line == {l \in Text : l # <<>> /\ \A i \in 1..Len(l)-1 : l[i] # "\n"}

(* Stripped of its prefixes a text has no letters it did not have.         *)
LEMMA StripOver ==
    ASSUME NEW s \in Text, NEW C, \A i \in 1..Len(s) : s[i] \in C
    PROVE  StripPrefix(s) \in Seq(C)
<1> DEFINE n == Len(s) + 2
<1>1. PICK g \in [1..Len(s)+2 -> Text] :
         g = [i \in 1..Len(s)+2 |-> StripStep(s, g, i)] /\ StripPrefix(s) = g[1]
  BY StripRecursion
<1>2. Len(s) \in Nat /\ n \in Nat /\ 1 \in 1..n
  BY DEF Text
<1> DEFINE S == {i \in 1..n : g[i] \in Seq(C)}
<1>3. ASSUME NEW i \in 1..n, \A j \in i+1..n : j \in S
      PROVE  i \in S
  <2>1. g[i] = StripStep(s, g, i)
    BY <1>1
  <2>2. CASE i > Len(s)
    <3>1. g[i] = <<>>
      BY <2>1, <2>2 DEF StripStep
    <3> QED BY <3>1
  <2>3. CASE ~(i > Len(s))
    <3>1. i \in 1..Len(s) /\ i+1 \in i+1..n /\ i+2 \in i+1..n
      BY <1>2, <2>3
    <3>2. g[i+1] \in Seq(C) /\ g[i+2] \in Seq(C) /\ s[i] \in C
      BY <1>3, <3>1
    <3>3. <<s[i]>> \in Seq(C)
      BY <3>2, One
    <3> DEFINE a == g[i+1]
               b == g[i+2]
               c == <<s[i]>>
    <3>4. c \o a \in Seq(C) /\ c \o b \in Seq(C)
      <4> HIDE DEF a, b, c
      <4>1. a \in Seq(C) /\ b \in Seq(C) /\ c \in Seq(C)
        BY <3>2, <3>3 DEF a, b, c
      <4> QED BY <4>1, ConcatProperties
    <3>5. StripStep(s, g, i) \in {c \o a, c \o b, a}
      BY <2>3 DEF StripStep
    <3>6. g[i] \in Seq(C)
      BY <2>1, <3>2, <3>4, <3>5
    <3> QED BY <3>6
  <2> QED BY <2>2, <2>3
<1> HIDE DEF S, n
<1>4. 1..n \subseteq S
  BY <1>2, <1>3, DownwardInduction
<1> QED BY <1>1, <1>2, <1>4 DEF S

(* A token ends before every blank and every tab: the loop flips pref twice*)
(* for a prefix, so that a prefix protects nothing.                        *)
LEMMA EndsIs ==
    ASSUME NEW s, NEW p \in Nat, NEW i \in Nat
    PROVE  Ends(s, p, i) <=> s[i] \in {" ", "\t"}
<1> DEFINE J == {j \in p..i-1 : \A k \in j..i-1 : s[k] = "\\"}
<1>1. IsFiniteSet(J)
  <2>1. IsFiniteSet(p..i-1)
    BY FS_Interval
  <2> QED BY <2>1, FS_Subset
<1>2. Cardinality(J) \in Nat
  BY <1>1, FS_CardinalityType
<1>3. PrefixRun(s, p, i) = Cardinality(J)
  BY DEF PrefixRun
<1> DEFINE c == Cardinality(J)
<1> HIDE DEF c
<1>4. (2 * c) % 2 = 0
  BY <1>2 DEF c
<1> QED BY <1>3, <1>4 DEF Ends, c

(* The first token is one that begins somewhere in the line, and is empty  *)
(* only at the line's end.                                                 *)
LEMMA TokenFound ==
    ASSUME NEW s \in Text
    PROVE  \E q \in 1..Len(s)+1 : /\ GetNextToken(s, 1) = TokenAt(s, q)
                                  /\ TokenAt(s, q).text # <<>> \/ TokenAt(s, q).pos > Len(s)
<1> DEFINE n == Len(s) + 1
           Found(t) == \E q \in 1..n : /\ t = TokenAt(s, q)
                                       /\ TokenAt(s, q).text # <<>> \/ TokenAt(s, q).pos > Len(s)
<1>1. PICK g \in [1..Len(s)+1 -> Token(s)] :
         /\ g = [p \in 1..Len(s)+1 |-> TokenStep(s, g, p)]
         /\ \A pos : GetNextToken(s, pos) = g[pos]
  BY TokenRecursion
<1>2. Len(s) \in Nat /\ n \in Nat /\ 1 \in 1..n
  BY DEF Text
<1> DEFINE S == {p \in 1..n : Found(g[p])}
<1>3. ASSUME NEW p \in 1..n, \A j \in p+1..n : j \in S
      PROVE  p \in S
  <2>1. /\ TokenAt(s, p) \in Token(s)
        /\ TokenAt(s, p).pos <= Len(s) => TokenAt(s, p).pos > p
    BY TokenAtType
  <2>2. g[p] = TokenStep(s, g, p)
    BY <1>1
  <2>3. CASE TokenAt(s, p).text = <<>> /\ TokenAt(s, p).pos <= Len(s)
    <3>1. g[p] = g[TokenAt(s, p).pos]
      BY <2>2, <2>3 DEF TokenStep
    <3>2. TokenAt(s, p).pos \in p+1..n
      BY <1>2, <2>1, <2>3 DEF Token
    <3>3. Found(g[TokenAt(s, p).pos])
      BY <1>3, <3>2
    <3> QED BY <3>1, <3>3
  <2>4. CASE ~(TokenAt(s, p).text = <<>> /\ TokenAt(s, p).pos <= Len(s))
    <3>1. g[p] = TokenAt(s, p)
      BY <2>2, <2>4 DEF TokenStep
    <3>2. TokenAt(s, p).text # <<>> \/ TokenAt(s, p).pos > Len(s)
      BY <1>2, <2>1, <2>4 DEF Token
    <3> QED BY <3>1, <3>2
  <2> QED BY <2>3, <2>4
<1> HIDE DEF S
<1>4. 1..n \subseteq S
  <2> HIDE DEF n
  <2> QED BY <1>2, <1>3, DownwardInduction
<1>5. Found(g[1])
  BY <1>2, <1>4 DEF S
<1>6. GetNextToken(s, 1) = g[1]
  BY <1>1
<1> QED BY <1>5, <1>6

(* The first token of a line has no blank, tab or newline in it, if        *)
(* anything follows it.                                                    *)
LEMMA FirstToken ==
    ASSUME NEW line \in Line, GetNextToken(line, 1).pos <= Len(line)
    PROVE  Plain(GetNextToken(line, 1).text)
<1> DEFINE C == {c \in Letter : c \notin {" ", "\t", "\n"}}
           text == GetNextToken(line, 1).text
<1>1. line \in Text /\ Len(line) \in Nat /\ \A i \in 1..Len(line) : line[i] \in Letter
  BY DEF Line, Text
<1>2. PICK q \in 1..Len(line)+1 :
         /\ GetNextToken(line, 1) = TokenAt(line, q)
         /\ TokenAt(line, q).text # <<>> \/ TokenAt(line, q).pos > Len(line)
  BY <1>1, TokenFound
<1> DEFINE e == TokenEnd(line, q)
           part == SubSeq(line, q, e - 1)
<1>3. /\ e \in q..Len(line)+1 /\ \A i \in q..e-1 : ~Ends(line, q, i)
      /\ TokenAt(line, q).pos = IF e <= Len(line) THEN e + 1 ELSE Len(line) + 1
      /\ TokenAt(line, q).pos \in Nat
  <2>1. e \in q..Len(line)+1 /\ \A i \in q..e-1 : ~Ends(line, q, i)
    BY <1>1, TokenEnds
  <2>2. TokenAt(line, q).pos = IF e <= Len(line) THEN e + 1 ELSE Len(line) + 1
    BY <1>1, TokenAtType
  <2> HIDE DEF e
  <2> QED BY <1>1, <2>1, <2>2
<1> HIDE DEF e
<1>4. e + 1 <= Len(line) /\ TokenAt(line, q).text # <<>>
  BY <1>1, <1>2, <1>3
<1>5. \A i \in q..e-1 : line[i] \in C
  <2> SUFFICES ASSUME NEW i \in q..e-1
               PROVE  line[i] \in C
    OBVIOUS
  <2>1. i \in 1..Len(line)-1 /\ i \in Nat /\ q \in Nat /\ i \in 1..Len(line)
    BY <1>1, <1>3, <1>4
  <2>2. line[i] \notin {" ", "\t"}
    BY <1>3, <2>1, EndsIs
  <2>3. line[i] # "\n"
    BY <2>1 DEF Line
  <2> QED BY <1>1, <2>1, <2>2, <2>3
<1> HIDE DEF C
<1>6. part \in Seq(C) /\ part \in Seq(Letter)
  <2>1. q \in Int /\ e - 1 \in Int /\ \A i \in q..e-1 : line[i] \in Letter
    BY <1>1, <1>3, <1>4
  <2> QED BY <1>5, <2>1, SubSeqProperties
<1> HIDE DEF part
<1>7. StripPrefix(part) \in Seq(C)
  <2>1. \A i \in 1..Len(part) : part[i] \in C
    BY <1>6
  <2> QED BY <1>6, <2>1, StripOver DEF Text
<1>8. text = StripPrefix(part)
  BY <1>2 DEF TokenAt, part, e
<1>9. text # <<>>
  BY <1>2, <1>4
<1> HIDE DEF text
<1>10. \A i \in 1..Len(text) : text[i] \in C
  BY <1>7, <1>8
<1> QED BY <1>9, <1>10 DEF Plain, C, text

(* What is parsed of a line can be kept: its path is plain and its command *)
(* of one line.                                                            *)
LEMMA ParseKept ==
    ASSUME NEW line \in Line
    PROVE  Parse(line) \in Seq(Kept)
<1> DEFINE s1 == GetNextToken(line, 1)
           s2 == GetNextToken(line, s1.pos)
           s3 == SubSeq(line, s2.pos, Len(line))
           cmd == IF Last(s3) = "\n" THEN Front(s3) ELSE s3
           none == line[1] = "#" \/ s1.pos > Len(line) \/ s2.pos > Len(line)
<1>1. line \in Text /\ Len(line) \in Nat /\ \A i \in 1..Len(line) : line[i] \in Letter
  BY DEF Line, Text
<1>2. s1.text \in Text /\ s1.pos \in 1..Len(line)+1
  <2>1. 1 \in 1..Len(line)+1
    BY <1>1
  <2> QED BY <1>1, <2>1, GetNextTokenType
<1>3. s1.pos <= Len(line) => Plain(s1.text)
  BY FirstToken
<1> HIDE DEF s1
<1>4. s2.text \in Text /\ s2.pos \in 1..Len(line)+1
  BY <1>1, <1>2, GetNextTokenType
<1> HIDE DEF s2
<1>5. ASSUME ~none
      PROVE  <<Entry(s1.text, s2.text, cmd)>> \in Seq(Kept)
  <2> DEFINE a == s2.pos
             n == Len(line)
             m == n - a + 1
  <2>1. a \in 1..n /\ n \in Nat /\ s1.pos <= n
    BY <1>1, <1>2, <1>4, <1>5
  <2>2. s3 \in Seq(Letter) /\ Len(s3) = m /\ \A i \in 1..m : s3[i] = line[a + i - 1]
    <3> HIDE DEF n, a
    <3>1. a \in Int /\ n \in Int /\ a <= n /\ \A i \in a..n : line[i] \in Letter
      BY <1>1, <2>1 DEF n
    <3>2. s3 = SubSeq(line, a, n)
      BY DEF a, n
    <3> HIDE DEF s3
    <3> QED BY <3>1, <3>2, SubSeqProperties
  <2>3. m \in Nat /\ m >= 1 /\ \A i \in 1..m-1 : s3[i] # "\n"
    <3> HIDE DEF n, a, s3
    <3>1. \A i \in 1..m-1 : a + i - 1 \in 1..n-1 /\ i \in 1..m
      BY <2>1
    <3>2. \A i \in 1..n-1 : line[i] # "\n"
      BY DEF Line, n
    <3> QED BY <2>1, <2>2, <3>1, <3>2
  <2> HIDE DEF s3, m
  <2>4. cmd \in Text /\ OneLine(cmd)
    <3>1. CASE s3[m] = "\n"
      <4>1. cmd = SubSeq(s3, 1, m - 1)
        BY <2>2, <3>1 DEF Last, Front
      <4>2. 1 \in Int /\ m - 1 \in Int /\ m - 1 >= 0 /\ \A i \in 1..m-1 : s3[i] \in Letter
        BY <2>2, <2>3
      <4>3. /\ SubSeq(s3, 1, m - 1) \in Seq(Letter)
            /\ \A i \in 1..Len(SubSeq(s3, 1, m - 1)) : i \in 1..m-1 /\ SubSeq(s3, 1, m - 1)[i] = s3[i]
        <5>1. /\ SubSeq(s3, 1, m - 1) \in Seq(Letter)
              /\ Len(SubSeq(s3, 1, m - 1)) = IF 1 <= m - 1 THEN m - 1 - 1 + 1 ELSE 0
              /\ \A i \in 1..m-1-1+1 : SubSeq(s3, 1, m - 1)[i] = s3[1 + i - 1]
          BY <4>2, SubSeqProperties
        <5>2. m - 1 - 1 + 1 = m - 1 /\ \A i \in 1..m-1 : 1 + i - 1 = i
          BY <2>3
        <5> QED BY <2>3, <5>1, <5>2
      <4> HIDE DEF cmd
      <4> QED BY <2>3, <4>1, <4>3 DEF Text, OneLine
    <3>2. CASE s3[m] # "\n"
      <4>1. cmd = s3
        BY <2>2, <3>2 DEF Last
      <4>2. \A i \in 1..m : s3[i] # "\n"
        <5>1. \A i \in 1..m : i = m \/ i \in 1..m-1
          BY <2>3
        <5> QED BY <2>3, <3>2, <5>1
      <4> HIDE DEF cmd
      <4> QED BY <2>2, <4>1, <4>2 DEF Text, OneLine
    <3> QED BY <3>1, <3>2
  <2> HIDE DEF cmd
  <2>5. Entry(s1.text, s2.text, cmd) \in Entries
    BY <1>2, <2>4, EntryType
  <2>6. Entry(s1.text, s2.text, cmd).path = s1.text /\ Entry(s1.text, s2.text, cmd).cmd = cmd
    BY DEF Entry
  <2>7. Entry(s1.text, s2.text, cmd) \in Kept
    BY <1>3, <2>1, <2>4, <2>5, <2>6 DEF Kept
  <2> QED BY <2>7, One
<1>6. Parse(line) = IF none THEN <<>> ELSE <<Entry(s1.text, s2.text, cmd)>>
  BY DEF Parse, s1, s2
<1>7. <<>> \in Seq(Kept)
  OBVIOUS
<1> HIDE DEF none, cmd
<1> QED BY <1>5, <1>6, <1>7

(* What fgets returns is a line: a newline is its last letter or none.     *)
LEMMA LinesKept ==
    ASSUME NEW text \in Text
    PROVE  Lines(text) \in Seq(Line)
<1> DEFINE n == Len(text) + 1
<1>1. PICK g \in [1..Len(text)+1 -> Seq(Text)] :
         g = [i \in 1..Len(text)+1 |-> LineStep(text, g, i)] /\ Lines(text) = g[1]
  BY LinesRecursion
<1>2. Len(text) \in Nat /\ n \in Nat /\ 1 \in 1..n /\ \A i \in 1..Len(text) : text[i] \in Letter
  BY DEF Text
<1> DEFINE S == {i \in 1..n : g[i] \in Seq(Line)}
<1>3. ASSUME NEW i \in 1..n, \A j \in i+1..n : j \in S
      PROVE  i \in S
  <2>1. g[i] = LineStep(text, g, i)
    BY <1>1
  <2>2. CASE i > Len(text)
    <3>1. g[i] = <<>>
      BY <2>1, <2>2 DEF LineStep
    <3> QED BY <3>1
  <2>3. CASE ~(i > Len(text))
    <3> DEFINE e == LineEnd(text, i)
               l == SubSeq(text, i, e)
    <3>1. i \in 1..Len(text)
      BY <1>2, <2>3
    <3>2. e \in i..Len(text) /\ \A j \in i..e-1 : text[j] # "\n"
      BY <3>1, LineEnds
    <3> HIDE DEF e
    <3>3. l \in Line
      <4>1. i \in Int /\ e \in Int /\ i <= e /\ \A j \in i..e : text[j] \in Letter
        BY <1>2, <3>1, <3>2
      <4>2. l \in Seq(Letter) /\ Len(l) = e - i + 1 /\ \A k \in 1..e-i+1 : l[k] = text[i + k - 1]
        BY <4>1, SubSeqProperties
      <4> HIDE DEF l
      <4>3. l # <<>>
        BY <4>1, <4>2
      <4>4. \A k \in 1..Len(l)-1 : l[k] # "\n"
        <5>1. \A k \in 1..Len(l)-1 : k \in 1..e-i+1 /\ i + k - 1 \in i..e-1
          BY <4>1, <4>2
        <5> QED BY <3>2, <4>2, <5>1
      <4> QED BY <4>2, <4>3, <4>4 DEF Line, Text
    <3>4. e + 1 \in i+1..n
      BY <1>2, <3>1, <3>2
    <3>5. g[e+1] \in Seq(Line)
      BY <1>3, <3>4
    <3>6. g[i] = <<l>> \o g[e+1]
      BY <2>1, <2>3 DEF LineStep, e
    <3>7. <<l>> \in Seq(Line)
      BY <3>3, One
    <3> DEFINE a == <<l>>
               b == g[e+1]
    <3>8. a \o b \in Seq(Line)
      <4> HIDE DEF a, b
      <4>1. a \in Seq(Line) /\ b \in Seq(Line)
        BY <3>5, <3>7 DEF a, b
      <4> QED BY <4>1, ConcatProperties
    <3>9. g[i] \in Seq(Line)
      BY <3>6, <3>8
    <3> QED BY <3>9
  <2> QED BY <2>2, <2>3
<1> HIDE DEF S, n
<1>4. 1..n \subseteq S
  BY <1>2, <1>3, DownwardInduction
<1> QED BY <1>1, <1>2, <1>4 DEF S

(* So what is loaded of any text can be kept.                              *)
LEMMA LoadKept ==
    ASSUME NEW text \in Text
    PROVE  Load(text) \in Seq(Kept)
<1> DEFINE lines == Lines(text)
           parsed == [i \in DOMAIN lines |-> Parse(lines[i])]
<1>1. lines \in Seq(Line)
  BY LinesKept
<1> HIDE DEF lines
<1>2. DOMAIN lines = 1..Len(lines) /\ Len(lines) \in Nat /\ \A i \in DOMAIN lines : lines[i] \in Line
  BY <1>1
<1>3. \A i \in DOMAIN lines : Parse(lines[i]) \in Seq(Kept)
  BY <1>2, ParseKept
<1>4. parsed \in Seq(Seq(Kept))
  BY <1>2, <1>3, IsASeq
<1> HIDE DEF parsed
<1>5. Load(text) = FlattenSeq(parsed)
  BY DEF Load, parsed, lines
<1> QED BY <1>4, <1>5, FlattenType

(* Where the letters of a path are in what GetSafePath makes of it.        *)
LEMMA SafePieces ==
    ASSUME NEW path \in Text
    PROVE  \E at \in [1..Len(path)+1 -> Nat \ {0}] :
              /\ at[1] = 1
              /\ at[Len(path)+1] = Len(GetSafePath(path)) + 1
              /\ \A i \in 1..Len(path) :
                    /\ at[i] \in 1..Len(GetSafePath(path))
                    /\ path[i] \notin {" ", "\\"} => /\ GetSafePath(path)[at[i]] = path[i]
                                                     /\ at[i+1] = at[i] + 1
                    /\ path[i] \in {" ", "\\"} => /\ GetSafePath(path)[at[i]] = "\\"
                                                  /\ at[i+1] = at[i] + 2
                                                  /\ at[i] + 1 \in 1..Len(GetSafePath(path))
                                                  /\ GetSafePath(path)[at[i] + 1] = path[i]
<1> DEFINE n == Len(path)
           ss == [i \in DOMAIN path |-> Safe(path[i])]
           q == FlattenSeq(ss)
<1>1. n \in Nat /\ DOMAIN path = 1..n /\ \A i \in 1..n : path[i] \in Letter
  BY DEF Text
<1>2. \A i \in 1..n : Safe(path[i]) \in Text
  BY <1>1, SafeType
<1>3. ss \in Seq(Text) /\ Len(ss) = n
  BY <1>1, <1>2, IsASeq
<1>4. \A i \in 1..n : ss[i] = Safe(path[i])
  BY <1>1
<1> HIDE DEF ss, n
<1>5. GetSafePath(path) = q
  BY DEF GetSafePath, Safe, q, ss
<1>7. PICK at \in [1..n+1 -> Nat \ {0}] :
         /\ at[1] = 1
         /\ \A i \in 1..n : at[i+1] = at[i] + Len(ss[i])
         /\ at[n+1] = Len(q) + 1
         /\ \A i \in 1..n : \A k \in 1..Len(ss[i]) :
               /\ at[i] + k - 1 \in 1..Len(q)
               /\ q[at[i] + k - 1] = ss[i][k]
  <2>1. ss \in Seq(Seq(Letter))
    BY <1>3 DEF Text
  <2>2. PICK at \in [1..Len(ss)+1 -> Nat \ {0}] : PiecesAt(at, ss)
    BY <2>1, FlattenPlaces
  <2>3. at \in [1..n+1 -> Nat \ {0}]
    BY <1>3, <2>2
  <2> QED BY <1>3, <2>2, <2>3 DEF PiecesAt
<1> HIDE DEF q
<1>8. ASSUME NEW i \in 1..n
      PROVE  /\ at[i] \in 1..Len(q)
             /\ path[i] \notin {" ", "\\"} => q[at[i]] = path[i] /\ at[i+1] = at[i] + 1
             /\ path[i] \in {" ", "\\"} => /\ q[at[i]] = "\\" /\ at[i+1] = at[i] + 2
                                           /\ at[i] + 1 \in 1..Len(q)
                                           /\ q[at[i] + 1] = path[i]
  <2>1. at[i] \in Nat /\ at[i] + 1 - 1 = at[i] /\ at[i] + 2 - 1 = at[i] + 1
    <3>1. i \in 1..n+1
      BY <1>1
    <3> QED BY <3>1
  <2>2. CASE path[i] \notin {" ", "\\"}
    <3>1. ss[i] = <<path[i]>>
      BY <1>4, <2>2 DEF Safe
    <3>2. Len(ss[i]) = 1 /\ 1 \in 1..Len(ss[i]) /\ ss[i][1] = path[i]
      BY <3>1
    <3>3. at[i+1] = at[i] + 1
      BY <1>7, <3>2
    <3>4. at[i] \in 1..Len(q) /\ q[at[i]] = path[i]
      BY <1>7, <2>1, <3>2
    <3> QED BY <2>2, <3>3, <3>4
  <2>3. CASE path[i] \in {" ", "\\"}
    <3>1. ss[i] = <<"\\", path[i]>>
      BY <1>4, <2>3 DEF Safe
    <3>2. Len(ss[i]) = 2 /\ 1 \in 1..Len(ss[i]) /\ 2 \in 1..Len(ss[i]) /\ ss[i][1] = "\\" /\ ss[i][2] = path[i]
      BY <3>1
    <3>3. at[i+1] = at[i] + 2
      BY <1>7, <3>2
    <3>4. at[i] + 1 - 1 \in 1..Len(q) /\ q[at[i] + 1 - 1] = "\\"
      BY <1>7, <3>2
    <3>5. at[i] + 2 - 1 \in 1..Len(q) /\ q[at[i] + 2 - 1] = path[i]
      BY <1>7, <3>2
    <3> QED BY <2>1, <2>3, <3>3, <3>4, <3>5
  <2> QED BY <2>2, <2>3
<1> QED BY <1>5, <1>7, <1>8 DEF n

(* Stripped of its prefixes it is the path again.                          *)
LEMMA StripSafe ==
    ASSUME NEW path \in Text
    PROVE  StripPrefix(GetSafePath(path)) = path
<1> DEFINE n == Len(path)
           q == GetSafePath(path)
           l == Len(q)
           Rest(i) == SubSeq(path, i, n)
<1>1. n \in Nat /\ q \in Text /\ l \in Nat /\ \A i \in 1..n : path[i] \in Letter
  <2>1. q \in Text
    BY GetSafePathType
  <2> HIDE DEF q
  <2> QED BY <2>1 DEF Text
<1>2. PICK at \in [1..n+1 -> Nat \ {0}] :
         /\ at[1] = 1
         /\ at[n+1] = l + 1
         /\ \A i \in 1..n :
               /\ at[i] \in 1..l
               /\ path[i] \notin {" ", "\\"} => q[at[i]] = path[i] /\ at[i+1] = at[i] + 1
               /\ path[i] \in {" ", "\\"} => /\ q[at[i]] = "\\" /\ at[i+1] = at[i] + 2
                                             /\ at[i] + 1 \in 1..l /\ q[at[i] + 1] = path[i]
  BY SafePieces
<1>3. PICK g \in [1..Len(q)+2 -> Text] :
         g = [i \in 1..Len(q)+2 |-> StripStep(q, g, i)] /\ StripPrefix(q) = g[1]
  BY <1>1, StripRecursion
<1> HIDE DEF q, n
<1> DEFINE S == {i \in 1..n+1 : g[at[i]] = Rest(i)}
<1>4. ASSUME NEW i \in 1..n+1, \A j \in i+1..n+1 : j \in S
      PROVE  i \in S
  <2>1. CASE i = n + 1
    <3>1. l + 1 \in 1..l+2 /\ l + 1 > l
      BY <1>1
    <3>2. g[l + 1] = <<>>
      BY <1>3, <3>1 DEF StripStep
    <3>3. Rest(i) = <<>>
      BY <1>1, <2>1, SubSeqEmpty
    <3> QED BY <1>2, <2>1, <3>2, <3>3
  <2>2. CASE i # n + 1
    <3>1. i \in 1..n /\ i + 1 \in i+1..n+1
      BY <1>1, <2>2
    <3>2. g[at[i+1]] = Rest(i+1)
      BY <1>4, <3>1
    <3> DEFINE p == at[i]
    <3>3. p \in 1..l /\ p \in 1..l+2 /\ ~(p > l)
      <4>1. p \in 1..l
        BY <1>2, <3>1
      <4> HIDE DEF p, l
      <4> QED BY <1>1, <4>1
    <3>4. Rest(i) = <<path[i]>> \o Rest(i+1)
      <4>1. i \in 1..Len(path) /\ n \in i..Len(path) /\ path \in Seq(Letter)
        BY <1>1, <3>1 DEF n, Text
      <4> QED BY <4>1, SubSeqRecursiveFirst
    <3>5. g[p] = StripStep(q, g, p)
      BY <1>3, <3>3
    <3>6. CASE path[i] \notin {" ", "\\"}
      <4>1. q[p] = path[i] /\ at[i+1] = p + 1
        BY <1>2, <3>1, <3>6
      <4>2. g[p] = <<q[p]>> \o g[p+1]
        BY <3>3, <3>5, <3>6, <4>1 DEF StripStep
      <4>3. g[p] = Rest(i)
        BY <3>2, <3>4, <4>1, <4>2
      <4> QED BY <4>3
    <3>7. CASE path[i] \in {" ", "\\"}
      <4>1. q[p] = "\\" /\ at[i+1] = p + 2 /\ p + 1 \in 1..l /\ q[p+1] = path[i]
        BY <1>2, <3>1, <3>7
      <4>2. p < l /\ p + 1 \in 1..l+2 /\ ~(p + 1 > l) /\ p + 1 + 1 = p + 2
        BY <1>1, <3>3, <4>1
      <4>3. g[p] = <<path[i]>> \o g[p+2]
        <5>1. CASE path[i] = "\\"
          BY <3>3, <3>5, <4>1, <4>2, <5>1 DEF StripStep
        <5>2. CASE path[i] = " "
          <6>1. g[p] = g[p+1]
            BY <3>3, <3>5, <4>1, <4>2, <5>2 DEF StripStep
          <6>2. g[p+1] = StripStep(q, g, p+1)
            BY <1>3, <4>2
          <6>3. g[p+1] = <<q[p+1]>> \o g[p+1+1]
            BY <4>1, <4>2, <5>2, <6>2 DEF StripStep
          <6> QED BY <4>1, <4>2, <6>1, <6>3
        <5> QED BY <3>7, <5>1, <5>2
      <4>4. g[p] = Rest(i)
        BY <3>2, <3>4, <4>1, <4>3
      <4> QED BY <4>4
    <3> QED BY <3>6, <3>7
  <2> QED BY <2>1, <2>2
<1> HIDE DEF S
<1>5. 1..n+1 \subseteq S
  <2>1. n + 1 \in Nat
    BY <1>1
  <2> QED BY <1>4, <2>1, DownwardInduction
<1>6. g[1] = Rest(1)
  <2>1. 1 \in S
    BY <1>1, <1>5
  <2> QED BY <1>2, <2>1 DEF S
<1>7. Rest(1) = path
  BY SubSeqFull DEF n, Text
<1> QED BY <1>3, <1>6, <1>7 DEF q

(* A path that came out of a table is not split, nor taken for a comment.  *)
LEMMA SafePlain ==
    ASSUME NEW path \in Text, Plain(path), path[1] # "#"
    PROVE  /\ GetSafePath(path) \in Text /\ GetSafePath(path) # <<>>
           /\ GetSafePath(path)[1] # "#"
           /\ \A i \in 1..Len(GetSafePath(path)) : GetSafePath(path)[i] \notin {" ", "\t", "\n"}
<1> DEFINE n == Len(path)
           q == GetSafePath(path)
           C == {c \in Letter : c \notin {" ", "\t", "\n"}}
           ss == [i \in DOMAIN path |-> Safe(path[i])]
<1>1. n \in Nat /\ DOMAIN path = 1..n /\ \A i \in 1..n : path[i] \in C
  <2>1. n \in Nat /\ DOMAIN path = 1..n /\ \A i \in 1..n : path[i] \in Letter
    BY DEF Text
  <2> QED BY <2>1 DEF Plain
<1>2. \A i \in 1..n : Safe(path[i]) \in Seq(C)
  <2> SUFFICES ASSUME NEW c \in C
               PROVE  Safe(c) \in Seq(C)
    BY <1>1
  <2>1. "\\" \in C
    BY LetterAssumption
  <2> HIDE DEF C
  <2>2. <<"\\", c>> \in Seq(C) /\ <<c>> \in Seq(C)
    BY <2>1
  <2> QED BY <2>2 DEF Safe
<1> HIDE DEF C
<1>3. ss \in Seq(Seq(C))
  BY <1>1, <1>2, IsASeq
<1> HIDE DEF ss
<1>4. q = FlattenSeq(ss)
  BY DEF GetSafePath, Safe, ss
<1>5. q \in Seq(C)
  BY <1>3, <1>4, FlattenType
<1>6. \A i \in 1..Len(q) : q[i] \notin {" ", "\t", "\n"}
  <2> HIDE DEF q
  <2>1. \A i \in 1..Len(q) : q[i] \in C
    BY <1>5
  <2> QED BY <2>1 DEF C
<1>7. q \in Text
  BY GetSafePathType
<1>8. 1 \in 1..n
  <2>1. n # 0
    BY EmptySeq DEF Text, Plain
  <2> QED BY <1>1, <2>1
<1>9. 1 \in 1..Len(q) /\ q[1] \in {path[1], "\\"}
  <2>1. PICK at \in [1..Len(path)+1 -> Nat \ {0}] :
              /\ at[1] = 1
              /\ at[Len(path)+1] = Len(GetSafePath(path)) + 1
              /\ \A i \in 1..Len(path) :
                    /\ at[i] \in 1..Len(GetSafePath(path))
                    /\ path[i] \notin {" ", "\\"} => /\ GetSafePath(path)[at[i]] = path[i]
                                                     /\ at[i+1] = at[i] + 1
                    /\ path[i] \in {" ", "\\"} => /\ GetSafePath(path)[at[i]] = "\\"
                                                  /\ at[i+1] = at[i] + 2
                                                  /\ at[i] + 1 \in 1..Len(GetSafePath(path))
                                                  /\ GetSafePath(path)[at[i] + 1] = path[i]
    BY SafePieces
  <2> QED BY <1>8, <2>1
<1>10. q # <<>>
  BY <1>9
<1> HIDE DEF q
<1> QED BY <1>6, <1>7, <1>9, <1>10 DEF q

(* What the two parts of a text contain.                                   *)
LEMMA ToSetConcat ==
    ASSUME NEW T, NEW s \in Seq(T), NEW t \in Seq(T)
    PROVE  ToSet(s \o t) = ToSet(s) \cup ToSet(t)
<1>1. /\ Len(s \o t) = Len(s) + Len(t) /\ Len(s) \in Nat /\ Len(t) \in Nat /\ s \o t \in Seq(T)
      /\ \A i \in 1..Len(s)+Len(t) : (s \o t)[i] = IF i <= Len(s) THEN s[i] ELSE t[i - Len(s)]
  BY ConcatProperties
<1>2. /\ DOMAIN s = 1..Len(s) /\ DOMAIN t = 1..Len(t)
      /\ DOMAIN (s \o t) = 1..Len(s)+Len(t)
  BY <1>1
<1> DEFINE r == s \o t
           m == Len(s)
           n == Len(t)
<1> HIDE DEF r, m, n
<1>3. ASSUME NEW i \in 1..m
      PROVE  i \in 1..m+n /\ r[i] = s[i]
  BY <1>1 DEF r, m, n
<1>4. ASSUME NEW i \in 1..n
      PROVE  m + i \in 1..m+n /\ r[m+i] = t[i]
  <2>1. m + i \in 1..m+n /\ ~(m + i <= m) /\ m + i - m = i
    BY <1>1 DEF m, n
  <2> QED BY <1>1, <2>1 DEF r, m, n
<1>5. ASSUME NEW i \in 1..m+n
      PROVE  r[i] \in {s[j] : j \in 1..m} \cup {t[j] : j \in 1..n}
  <2>1. CASE i <= m
    <3>1. i \in 1..m
      BY <1>1, <2>1 DEF m, n
    <3> QED BY <1>3, <3>1
  <2>2. CASE ~(i <= m)
    <3>1. i - m \in 1..n
      BY <1>1, <2>2 DEF m, n
    <3>2. r[i] = t[i - m]
      BY <1>1, <2>2 DEF r, m, n
    <3> QED BY <3>1, <3>2
  <2> QED BY <2>1, <2>2
<1>6. {r[i] : i \in 1..m+n} = {s[j] : j \in 1..m} \cup {t[j] : j \in 1..n}
  BY <1>3, <1>4, <1>5
<1> QED BY <1>2, <1>6 DEF ToSet, r, m, n

(* The elements of an option.                                              *)
LEMMA ToSetOption ==
    ASSUME NEW on \in BOOLEAN, NEW name
    PROVE  ToSet(Option(on, name)) = IF on THEN {name} ELSE {}
<1>1. CASE on
  <2>1. Option(on, name) = <<name>>
    BY <1>1 DEF Option
  <2>2. DOMAIN <<name>> = {1} /\ <<name>>[1] = name
    OBVIOUS
  <2>3. {<<name>>[n] : n \in DOMAIN <<name>>} = {name}
    BY <2>2
  <2> QED BY <1>1, <2>1, <2>3 DEF ToSet
<1>2. CASE ~on
  <2>1. Option(on, name) = <<>> /\ DOMAIN <<>> = {}
    BY <1>2 DEF Option
  <2> QED BY <1>2, <2>1 DEF ToSet
<1> QED BY <1>1, <1>2

(* The elements of Flags.                                                  *)
LEMMA FlagsAre ==
    ToSet(Flags) = {"IN_UNMOUNT", "IN_Q_OVERFLOW", "IN_IGNORED", "IN_ISDIR", "IN_ONESHOT",
                    "IN_DONT_FOLLOW", "IN_ONLYDIR"}
<1>1. /\ DOMAIN Flags = {1, 2, 3, 4, 5, 6, 7}
      /\ Flags[1] = "IN_UNMOUNT" /\ Flags[2] = "IN_Q_OVERFLOW" /\ Flags[3] = "IN_IGNORED"
      /\ Flags[4] = "IN_ISDIR" /\ Flags[5] = "IN_ONESHOT" /\ Flags[6] = "IN_DONT_FOLLOW"
      /\ Flags[7] = "IN_ONLYDIR"
  BY DEF Flags
<1> QED BY <1>1 DEF ToSet

(* No name of a mask is an option's, none is a delimiter, a prefix, a comma*)
(* or IN_NO_LOOP, and an option stands for no bit.                         *)
LEMMA NamesApart ==
    /\ MaskNames \cap OptionNames = {}
    /\ MaskNames \cap {" ", "\t", "\n", "\\", ",", "IN_NO_LOOP"} = {}
    /\ OptionNames \cap {" ", "\t", "\n", "\\", ",", "IN_NO_LOOP"} = {}
    /\ \A o \in OptionNames : GetMaskByName(o) = {}
<1>1. MaskNames = {"IN_ALL_EVENTS", "IN_CLOSE", "IN_MOVE"} \cup AllEvents
                  \cup {"IN_UNMOUNT", "IN_Q_OVERFLOW", "IN_IGNORED", "IN_ISDIR", "IN_ONESHOT",
                        "IN_DONT_FOLLOW", "IN_ONLYDIR"}
  BY FlagsAre DEF MaskNames
<1>2. MaskNames \cap OptionNames = {}
  BY <1>1 DEF OptionNames, AllEvents
<1>3. MaskNames \cap {" ", "\t", "\n", "\\", ",", "IN_NO_LOOP"} = {}
  BY <1>1 DEF AllEvents
<1>4. OptionNames \cap {" ", "\t", "\n", "\\", ",", "IN_NO_LOOP"} = {}
  BY DEF OptionNames
<1>5. ASSUME NEW o \in OptionNames
      PROVE  GetMaskByName(o) = {}
  <2>1. o \notin MaskNames
    BY <1>2
  <2>2. o \notin {"IN_ALL_EVENTS", "IN_CLOSE", "IN_MOVE"} /\ o \notin AllEvents \cup ToSet(Flags)
    BY <2>1 DEF MaskNames
  <2>3. GetMaskByName(o) = {o} \cap (AllEvents \cup ToSet(Flags))
    BY <2>2 DEF GetMaskByName
  <2> QED BY <2>2, <2>3
<1> QED BY <1>2, <1>3, <1>4, <1>5

(* The names of an entry: those of its mask and those of its options.      *)
LEMMA NamesAre ==
    ASSUME NEW e \in Entries
    PROVE  ToSet(EntryNames(e)) = ToSet(DumpTypes(e.mask))
                                  \cup (IF e.norec THEN {"recursive=false"} ELSE {})
                                  \cup (IF e.loopable THEN {"loopable=true"} ELSE {})
                                  \cup (IF e.dotdirs THEN {"dotdirs=true"} ELSE {})
<1> DEFINE T == MaskNames \cup OptionNames
           d == DumpTypes(e.mask)
           a == Option(e.norec, "recursive=false")
           b == Option(e.loopable, "loopable=true")
           c == Option(e.dotdirs, "dotdirs=true")
<1>1. d \in Seq(T) /\ a \in Seq(T) /\ b \in Seq(T) /\ c \in Seq(T)
  <2>1. d \in Seq(T)
    <3>1. d \in Seq(MaskNames) /\ MaskNames \subseteq T
      BY DumpTypesType
    <3> HIDE DEF d, T
    <3> QED BY <3>1, SeqOver
  <2>2. "recursive=false" \in T /\ "loopable=true" \in T /\ "dotdirs=true" \in T
    BY DEF OptionNames
  <2> HIDE DEF T
  <2> QED BY <2>1, <2>2, OptionType
<1>2. /\ ToSet(a) = IF e.norec THEN {"recursive=false"} ELSE {}
      /\ ToSet(b) = IF e.loopable THEN {"loopable=true"} ELSE {}
      /\ ToSet(c) = IF e.dotdirs THEN {"dotdirs=true"} ELSE {}
  <2>1. e.norec \in BOOLEAN /\ e.loopable \in BOOLEAN /\ e.dotdirs \in BOOLEAN
    BY DEF Entries
  <2> QED BY <2>1, ToSetOption
<1>3. EntryNames(e) = d \o a \o b \o c
  BY DEF EntryNames
<1> HIDE DEF T, a, b, c, d
<1>4. ASSUME NEW u \in Seq(T), NEW v \in Seq(T)
      PROVE  u \o v \in Seq(T) /\ ToSet(u \o v) = ToSet(u) \cup ToSet(v)
  BY ConcatProperties, ToSetConcat
<1>5. /\ ToSet(d \o a) = ToSet(d) \cup ToSet(a)
      /\ ToSet(d \o a \o b) = ToSet(d \o a) \cup ToSet(b)
      /\ ToSet(d \o a \o b \o c) = ToSet(d \o a \o b) \cup ToSet(c)
  <2>1. d \o a \in Seq(T) /\ ToSet(d \o a) = ToSet(d) \cup ToSet(a)
    BY <1>1, <1>4
  <2> DEFINE da == d \o a
  <2> HIDE DEF da
  <2>2. da \o b \in Seq(T) /\ ToSet(da \o b) = ToSet(da) \cup ToSet(b)
    BY <1>1, <1>4, <2>1 DEF da
  <2> DEFINE dab == da \o b
  <2> HIDE DEF dab
  <2>3. ToSet(dab \o c) = ToSet(dab) \cup ToSet(c)
    BY <1>1, <1>4, <2>2 DEF dab
  <2> QED BY <2>1, <2>2, <2>3 DEF da, dab
<1>6. ToSet(EntryNames(e)) = ToSet(d) \cup ToSet(a) \cup ToSet(b) \cup ToSet(c)
  BY <1>3, <1>5
<1> QED BY <1>2, <1>6 DEF d

(* The field of an entry that has names at all.                            *)
LEMMA FieldIs ==
    ASSUME NEW e, EntryNames(e) # <<>>
    PROVE  LET f == EntryField(e)
           IN  /\ f \in Text /\ 1 \in 1..Len(f)
               /\ f[1] \in MaskNames \cup OptionNames
               /\ \A i \in 1..Len(f) : f[i] \notin {" ", "\t", "\n", "\\"}
               /\ \A i \in Symbols(f) : f[i] # "IN_NO_LOOP"
               /\ {f[i] : i \in Symbols(f)} = ToSet(EntryNames(e))
<1> DEFINE T == MaskNames \cup OptionNames
           names == EntryNames(e)
           n == Len(names)
           m == 2 * n - 1
           f == EntryField(e)
<1>1. names \in Seq(T) /\ f \in Text
  BY EntryNamesType, EntryFieldType
<1>2. f = [i \in 1..m |-> IF i % 2 = 1 THEN names[(i + 1) \div 2] ELSE ","]
  BY DEF EntryField
<1> HIDE DEF names, f
<1>3. n \in Nat /\ n >= 1 /\ DOMAIN names = 1..n /\ \A k \in 1..n : names[k] \in T
  <2>1. names # <<>>
    BY DEF names
  <2> HIDE DEF T
  <2> QED BY <1>1, <2>1, EmptySeq
<1> HIDE DEF T
<1>4. m \in Nat /\ m >= 1 /\ Len(f) = m /\ DOMAIN f = 1..m
  <2>1. m \in Nat /\ m >= 1
    BY <1>3
  <2>2. DOMAIN f = 1..m
    BY <1>2
  <2>3. DOMAIN f = 1..Len(f) /\ Len(f) \in Nat
    BY <1>1 DEF Text
  <2> HIDE DEF m
  <2> QED BY <2>1, <2>2, <2>3
<1>5. ASSUME NEW i \in 1..m, i % 2 = 1
      PROVE  /\ (i + 1) \div 2 \in 1..n /\ f[i] = names[(i + 1) \div 2] /\ f[i] \in T
             /\ i > 1 => i - 1 \in 1..m /\ (i - 1) % 2 # 1
             /\ i < m => i + 1 \in 1..m /\ (i + 1) % 2 # 1
  <2>1. (i + 1) \div 2 \in 1..n
    BY <1>3, <1>5, OddNumbers
  <2>2. f[i] = names[(i + 1) \div 2]
    BY <1>2, <1>5
  <2>3. /\ i > 1 => i - 1 \in 1..m /\ (i - 1) % 2 # 1
        /\ i < m => i + 1 \in 1..m /\ (i + 1) % 2 # 1
    <3> HIDE DEF m
    <3> QED BY <1>4, <1>5
  <2> QED BY <1>3, <2>1, <2>2, <2>3
<1>6. \A i \in 1..m : i % 2 # 1 => f[i] = ","
  BY <1>2
<1>7. \A k \in 1..n : 2 * k - 1 \in 1..m /\ (2 * k - 1) % 2 = 1 /\ (2 * k - 1 + 1) \div 2 = k
  BY <1>3
<1>8. \A x \in T : x \notin {" ", "\t", "\n", "\\", ",", "IN_NO_LOOP"}
  BY NamesApart DEF T
<1> HIDE DEF m
<1>9. Symbols(f) = {i \in 1..m : i % 2 = 1}
  <2>1. \A i \in 1..m : i % 2 = 1 => /\ f[i] # "," /\ (i > 1 => f[i-1] = ",") /\ (i < Len(f) => f[i+1] = ",")
    BY <1>4, <1>5, <1>6, <1>8
  <2> QED BY <1>4, <1>6, <2>1 DEF Symbols
<1>10. {f[i] : i \in Symbols(f)} = ToSet(names)
  <2>1. ASSUME NEW i \in Symbols(f)
        PROVE  \E k \in 1..n : f[i] = names[k]
    BY <1>5, <1>9
  <2>2. ASSUME NEW k \in 1..n
        PROVE  \E i \in Symbols(f) : f[i] = names[k]
    <3>1. 2 * k - 1 \in Symbols(f)
      BY <1>7, <1>9
    <3>2. f[2 * k - 1] = names[k]
      BY <1>5, <1>7
    <3> QED BY <3>1, <3>2
  <2>3. ToSet(names) = {names[k] : k \in 1..n}
    BY <1>3 DEF ToSet
  <2> QED BY <2>1, <2>2, <2>3
<1>11. \A i \in 1..m : f[i] \notin {" ", "\t", "\n", "\\"}
  BY <1>5, <1>6, <1>8
<1>12. \A i \in Symbols(f) : f[i] # "IN_NO_LOOP"
  BY <1>5, <1>8, <1>9
<1>13. 1 \in 1..m /\ f[1] \in T
  <2>1. 1 \in 1..m /\ 1 % 2 = 1
    BY <1>4
  <2> QED BY <1>5, <2>1
<1> QED BY <1>1, <1>4, <1>10, <1>11, <1>12, <1>13 DEF f, names, T

(* An entry that can be stored has names, and its field is read as it was. *)
LEMMA FieldReads ==
    ASSUME NEW e \in Entries, e.mask # {} \/ e.norec \/ e.loopable \/ e.dotdirs, MaskWritten(e.mask)
    PROVE  EntryNames(e) # <<>> /\ Entry(e.path, EntryField(e), e.cmd) = e
<1> DEFINE names == EntryNames(e)
           d == DumpTypes(e.mask)
           f == EntryField(e)
           Extra == (IF e.norec THEN {"recursive=false"} ELSE {})
                    \cup (IF e.loopable THEN {"loopable=true"} ELSE {})
                    \cup (IF e.dotdirs THEN {"dotdirs=true"} ELSE {})
<1>1. ToSet(names) = ToSet(d) \cup Extra
  BY NamesAre
<1>2. UNION {GetMaskByName(x) : x \in ToSet(d)} = e.mask
  BY DEF MaskWritten
<1>3. ToSet(d) \subseteq MaskNames
  <2>1. d \in Seq(MaskNames)
    BY DumpTypesType
  <2> HIDE DEF d
  <2> QED BY <2>1 DEF ToSet
<1>4. Extra \subseteq OptionNames /\ \A x \in Extra : GetMaskByName(x) = {}
  <2>1. Extra \subseteq OptionNames
    BY DEF OptionNames
  <2> HIDE DEF Extra
  <2> QED BY <2>1, NamesApart
<1>5. /\ "recursive=false" \in Extra <=> e.norec
      /\ "loopable=true" \in Extra <=> e.loopable
      /\ "dotdirs=true" \in Extra <=> e.dotdirs
  OBVIOUS
<1> HIDE DEF d
<1>6. names # <<>>
  <2> SUFFICES ASSUME names = <<>>
               PROVE  FALSE
    OBVIOUS
  <2>1. ToSet(names) = {}
    <3>1. DOMAIN <<>> = {}
      OBVIOUS
    <3> HIDE DEF names
    <3> QED BY <3>1 DEF ToSet
  <2> HIDE DEF Extra, names
  <2>2. e.mask = {} /\ Extra = {}
    BY <1>1, <1>2, <2>1
  <2> QED BY <1>5, <2>2
<1> DEFINE Sym == {f[i] : i \in Symbols(f)}
<1>7. /\ f[1] \in MaskNames \cup OptionNames
      /\ \A i \in Symbols(f) : f[i] # "IN_NO_LOOP"
      /\ Sym = ToSet(names)
  BY <1>6, FieldIs
<1> HIDE DEF names, f, Extra
<1>8. f[1] \notin DOMAIN Number
  BY <1>7, SymbolAssumption DEF MaskNames, OptionNames
<1>9. UNION {GetMaskByName(f[i]) : i \in Symbols(f)} = e.mask
  <2>1. {GetMaskByName(f[i]) : i \in Symbols(f)} = {GetMaskByName(x) : x \in Sym}
    OBVIOUS
  <2> HIDE DEF Sym
  <2>2. Sym = ToSet(d) \cup Extra
    BY <1>1, <1>7
  <2>3. UNION {GetMaskByName(x) : x \in Sym} = UNION {GetMaskByName(x) : x \in ToSet(d)}
    BY <1>4, <2>2
  <2> QED BY <1>2, <2>1, <2>3
<1>10. ASSUME NEW x \in OptionNames
       PROVE  (\E i \in Symbols(f) : f[i] = x) <=> x \in Extra
  <2>1. (\E i \in Symbols(f) : f[i] = x) <=> x \in Sym
    OBVIOUS
  <2> HIDE DEF Sym
  <2>2. x \notin ToSet(d)
    BY <1>3, NamesApart
  <2> QED BY <1>1, <1>7, <2>1, <2>2
<1>11. "recursive=false" \in OptionNames /\ "loopable=true" \in OptionNames /\ "dotdirs=true" \in OptionNames
  BY DEF OptionNames
<1>12. Entry(e.path, f, e.cmd) =
          [path |-> e.path, cmd |-> e.cmd, mask |-> e.mask, loopable |-> e.loopable,
           norec |-> e.norec, dotdirs |-> e.dotdirs]
  <2> DEFINE r == Entry(e.path, f, e.cmd)
  <2>1. r = [path |-> e.path, cmd |-> e.cmd,
             mask |-> UNION {GetMaskByName(f[i]) : i \in Symbols(f)},
             loopable |-> \E i \in Symbols(f) : /\ f[i] = "loopable=true"
                                                /\ \A j \in Symbols(f) : j > i => f[j] # "IN_NO_LOOP",
             norec |-> \E i \in Symbols(f) : f[i] = "recursive=false",
             dotdirs |-> \E i \in Symbols(f) : f[i] = "dotdirs=true"]
    BY <1>8 DEF Entry
  <2>2. (\E i \in Symbols(f) : /\ f[i] = "loopable=true"
                               /\ \A j \in Symbols(f) : j > i => f[j] # "IN_NO_LOOP") <=> e.loopable
    BY <1>5, <1>7, <1>10, <1>11
  <2>3. (\E i \in Symbols(f) : f[i] = "recursive=false") <=> e.norec
    BY <1>5, <1>10, <1>11
  <2>4. (\E i \in Symbols(f) : f[i] = "dotdirs=true") <=> e.dotdirs
    BY <1>5, <1>10, <1>11
  <2>5. e.norec \in BOOLEAN /\ e.loopable \in BOOLEAN /\ e.dotdirs \in BOOLEAN
    BY DEF Entries
  <2> QED BY <1>9, <2>1, <2>2, <2>3, <2>4, <2>5
<1>13. e = [path |-> e.path, cmd |-> e.cmd, mask |-> e.mask, loopable |-> e.loopable,
            norec |-> e.norec, dotdirs |-> e.dotdirs]
  BY DEF Entries
<1> QED BY <1>6, <1>12, <1>13 DEF names, f

(* Where the elements of two sequences are in the one made of them.        *)
LEMMA ConcatParts ==
    ASSUME NEW T, NEW u \in Seq(T), NEW v \in Seq(T)
    PROVE  /\ u \o v \in Seq(T) /\ Len(u \o v) = Len(u) + Len(v)
           /\ Len(u) \in Nat /\ Len(v) \in Nat
           /\ \A i \in 1..Len(u) : (u \o v)[i] = u[i]
           /\ \A i \in 1..Len(v) : (u \o v)[Len(u) + i] = v[i]
<1>1. /\ u \o v \in Seq(T) /\ Len(u \o v) = Len(u) + Len(v)
      /\ Len(u) \in Nat /\ Len(v) \in Nat
      /\ \A i \in 1..Len(u)+Len(v) : (u \o v)[i] = IF i <= Len(u) THEN u[i] ELSE v[i - Len(u)]
  BY ConcatProperties
<1> DEFINE w == u \o v
           m == Len(u)
           n == Len(v)
<1> HIDE DEF w, m, n
<1>2. \A i \in 1..m : w[i] = u[i]
  BY <1>1 DEF w, m, n
<1>3. ASSUME NEW i \in 1..n
      PROVE  w[m + i] = v[i]
  <2>1. m + i \in 1..m+n /\ ~(m + i <= m) /\ m + i - m = i
    BY <1>1 DEF m, n
  <2> QED BY <1>1, <2>1 DEF w, m, n
<1> QED BY <1>1, <1>2, <1>3 DEF w, m, n

(* A part that looks like a sequence is that sequence.                     *)
LEMMA PartIs ==
    ASSUME NEW T, NEW w \in Seq(T), NEW u \in Seq(T), NEW m \in Nat,
           m + Len(u) <= Len(w), \A i \in 1..Len(u) : w[m + i] = u[i]
    PROVE  SubSeq(w, m + 1, m + Len(u)) = u
<1> DEFINE n == Len(u)
           r == SubSeq(w, m + 1, m + n)
<1>1. n \in Nat /\ Len(w) \in Nat /\ \A i \in 1..Len(w) : w[i] \in T
  OBVIOUS
<1>2. m + 1 \in Int /\ m + n \in Int /\ \A i \in m+1..m+n : w[i] \in T
  BY <1>1
<1>3. /\ r \in Seq(T) /\ Len(r) = IF m + 1 <= m + n THEN (m + n) - (m + 1) + 1 ELSE 0
      /\ \A i \in 1..(m+n)-(m+1)+1 : r[i] = w[m + 1 + i - 1]
  BY <1>2, SubSeqProperties
<1> HIDE DEF r, n
<1>4. Len(r) = n
  BY <1>1, <1>3
<1>5. \A i \in 1..n : r[i] = u[i]
  <2>1. (m + n) - (m + 1) + 1 = n /\ \A i \in 1..n : m + 1 + i - 1 = m + i
    BY <1>1
  <2> QED BY <1>3, <2>1 DEF n
<1>6. r = u
  BY <1>3, <1>4, <1>5, SeqEqual DEF n
<1> QED BY <1>6 DEF r, n

(* A token before a tab.                                                   *)
Stripped(s, p, q) == StripPrefix(SubSeq(s, p, q - 1))

TabAfter(s, p, q) ==
    /\ 1 <= p /\ p <= q /\ q <= Len(s)
    /\ s[q] = "\t" /\ \A i \in p..q-1 : s[i] \notin {" ", "\t"}

(* If a tab is the first delimiter after p, and what is before it is not   *)
(* empty when stripped, that is the token at p.                            *)
LEMMA TokenBefore ==
    ASSUME NEW s \in Text, NEW p \in Nat, NEW q \in Nat, TabAfter(s, p, q),
           NEW tok \in Text, tok # <<>>, Stripped(s, p, q) = tok
    PROVE  GetNextToken(s, p) = [text |-> tok, pos |-> q + 1]
<1> DEFINE e == TokenEnd(s, p)
<1>a. Len(s) \in Nat
  BY DEF Text
<1>c. 1 <= p /\ p <= q /\ q <= Len(s)
  BY DEF TabAfter
<1>b. s[q] \in {" ", "\t"} /\ \A i \in p..q-1 : s[i] \notin {" ", "\t"}
  BY DEF TabAfter
<1>1. Len(s) \in Nat /\ p \in 1..Len(s)+1 /\ 1 <= p /\ p <= q /\ q <= Len(s)
  BY <1>a, <1>c
<1>2. /\ e \in p..Len(s)+1 /\ (e = Len(s) + 1 \/ Ends(s, p, e))
      /\ \A i \in p..e-1 : ~Ends(s, p, i)
  BY <1>1, TokenEnds
<1>3. TokenAt(s, p).pos = IF e <= Len(s) THEN e + 1 ELSE Len(s) + 1
  BY <1>1, TokenAtType
<1> HIDE DEF e
<1>4. e = q
  <2>1. Ends(s, p, q)
    BY <1>b, EndsIs
  <2>2. ~(q < e)
    <3>1. q < e => q \in p..e-1
      BY <1>1, <1>2
    <3> QED BY <1>2, <2>1, <3>1
  <2>3. ~(e < q)
    <3> SUFFICES ASSUME e < q
                 PROVE  FALSE
      OBVIOUS
    <3>1. e \in p..q-1 /\ e # Len(s) + 1 /\ e \in Nat
      BY <1>1, <1>2
    <3>2. s[e] \in {" ", "\t"}
      BY <1>1, <1>2, <3>1, EndsIs
    <3> QED BY <1>b, <3>1, <3>2
  <2> QED BY <1>1, <1>2, <2>2, <2>3
<1>5. TokenAt(s, p).text = Stripped(s, p, q) /\ TokenAt(s, p).pos = q + 1
  <2>1. e <= Len(s)
    BY <1>1, <1>4
  <2>2. TokenAt(s, p).text = Stripped(s, p, e)
    BY DEF TokenAt, Stripped, e
  <2> QED BY <1>3, <1>4, <2>1, <2>2
<1>6. TokenAt(s, p) = [text |-> Stripped(s, p, q), pos |-> q + 1]
  BY <1>5 DEF TokenAt
<1>7. PICK g \in [1..Len(s)+1 -> Token(s)] :
         /\ g = [r \in 1..Len(s)+1 |-> TokenStep(s, g, r)]
         /\ \A pos : GetNextToken(s, pos) = g[pos]
  BY TokenRecursion
<1>8. g[p] = TokenStep(s, g, p)
  BY <1>1, <1>7
<1>9. TokenStep(s, g, p) = TokenAt(s, p)
  BY <1>5 DEF TokenStep
<1> QED BY <1>6, <1>7, <1>8, <1>9

(* The line of an entry, letter by letter.                                 *)
Written(s, f, c) == s \o <<"\t">> \o f \o <<"\t">> \o c \o <<"\n">>
Layout(line, s, f, c) ==
    LET a == Len(s)
        b == Len(s) + Len(f) + 2
    IN  /\ Len(line) = b + Len(c) + 1
        /\ \A i \in 1..a : line[i] = s[i]
        /\ line[a + 1] = "\t"
        /\ \A i \in 1..Len(f) : line[a + 1 + i] = f[i]
        /\ line[b] = "\t"
        /\ \A i \in 1..Len(c) : line[b + i] = c[i]
        /\ line[b + Len(c) + 1] = "\n"

Joined(w, u, v) ==
    /\ w \in Text /\ Len(w) = Len(u) + Len(v) /\ Len(u) \in Nat /\ Len(v) \in Nat
    /\ \A i \in 1..Len(u) : w[i] = u[i]
    /\ \A i \in 1..Len(v) : w[Len(u) + i] = v[i]

(* A text made of two.                                                     *)
LEMMA Parts ==
    ASSUME NEW u \in Text, NEW v \in Text, NEW w, w = u \o v
    PROVE  Joined(w, u, v)
<1>1. u \in Seq(Letter) /\ v \in Seq(Letter)
  BY DEF Text
<1> QED BY <1>1, ConcatParts DEF Text, Joined

(* What is written of an entry's parts has them in their places.           *)
LEMMA LineIs ==
    ASSUME NEW s \in Text, NEW f \in Text, NEW c \in Text, NEW line,
           line = Written(s, f, c)
    PROVE  line \in Text /\ Layout(line, s, f, c)
<1> DEFINE t == <<"\t">>
           n == <<"\n">>
           w1 == s \o t
           w2 == w1 \o f
           w3 == w2 \o t
           w4 == w3 \o c
           w5 == w4 \o n
           a == Len(s)
           b == Len(f)
           k == Len(c)
<1>1. /\ t \in Text /\ Len(t) = 1 /\ t[1] = "\t"
      /\ n \in Text /\ Len(n) = 1 /\ n[1] = "\n"
  <2>1. "\t" \in Letter /\ "\n" \in Letter
    BY LetterAssumption
  <2> QED BY <2>1, One DEF Text
<1>2. line = w5
  BY DEF Written
<1>a. w1 = s \o t
  OBVIOUS
<1>b. w2 = w1 \o f
  OBVIOUS
<1>c. w3 = w2 \o t
  OBVIOUS
<1>d. w4 = w3 \o c
  OBVIOUS
<1>e. w5 = w4 \o n
  OBVIOUS
<1> HIDE DEF t, n, w1, w2, w3, w4, w5
<1>3. a \in Nat /\ b \in Nat /\ k \in Nat
  BY DEF Text
<1>4. /\ w1 \in Text /\ Len(w1) = a + 1
      /\ \A i \in 1..a : w1[i] = s[i]
      /\ w1[a+1] = "\t"
  <2>0. Joined(w1, s, t)
    BY <1>1, <1>a, Parts
  <2>1. /\ w1 \in Text /\ Len(w1) = a + Len(t) /\ \A i \in 1..a : w1[i] = s[i]
        /\ \A i \in 1..Len(t) : w1[a + i] = t[i]
    BY <2>0 DEF Joined
  <2> QED BY <1>1, <2>1
<1>5. /\ w2 \in Text /\ Len(w2) = a + 1 + b
      /\ \A i \in 1..a+1 : w2[i] = w1[i]
      /\ \A i \in 1..b : w2[a + 1 + i] = f[i]
  <2>0. Joined(w2, w1, f)
    BY <1>b, <1>4, Parts
  <2>1. /\ w2 \in Text /\ Len(w2) = Len(w1) + b /\ \A i \in 1..Len(w1) : w2[i] = w1[i]
        /\ \A i \in 1..b : w2[Len(w1) + i] = f[i]
    BY <2>0 DEF Joined
  <2> QED BY <1>4, <2>1
<1>6. /\ w3 \in Text /\ Len(w3) = a + 1 + b + 1
      /\ \A i \in 1..a+1+b : w3[i] = w2[i]
      /\ w3[a + 1 + b + 1] = "\t"
  <2>0. Joined(w3, w2, t)
    BY <1>1, <1>c, <1>5, Parts
  <2>1. /\ w3 \in Text /\ Len(w3) = Len(w2) + Len(t) /\ \A i \in 1..Len(w2) : w3[i] = w2[i]
        /\ \A i \in 1..Len(t) : w3[Len(w2) + i] = t[i]
    BY <2>0 DEF Joined
  <2> QED BY <1>1, <1>5, <2>1
<1>7. /\ w4 \in Text /\ Len(w4) = a + 1 + b + 1 + k
      /\ \A i \in 1..a+1+b+1 : w4[i] = w3[i]
      /\ \A i \in 1..k : w4[a + 1 + b + 1 + i] = c[i]
  <2>0. Joined(w4, w3, c)
    BY <1>d, <1>6, Parts
  <2>1. /\ w4 \in Text /\ Len(w4) = Len(w3) + k /\ \A i \in 1..Len(w3) : w4[i] = w3[i]
        /\ \A i \in 1..k : w4[Len(w3) + i] = c[i]
    BY <2>0 DEF Joined
  <2> QED BY <1>6, <2>1
<1>8. /\ w5 \in Text /\ Len(w5) = a + 1 + b + 1 + k + 1
      /\ \A i \in 1..a+1+b+1+k : w5[i] = w4[i]
      /\ w5[a + 1 + b + 1 + k + 1] = "\n"
  <2>0. Joined(w5, w4, n)
    BY <1>1, <1>e, <1>7, Parts
  <2>1. /\ w5 \in Text /\ Len(w5) = Len(w4) + Len(n) /\ \A i \in 1..Len(w4) : w5[i] = w4[i]
        /\ \A i \in 1..Len(n) : w5[Len(w4) + i] = n[i]
    BY <2>0 DEF Joined
  <2> QED BY <1>1, <1>7, <2>1
<1> HIDE DEF a, b, k
<1>9. /\ a + b + 2 = a + 1 + b + 1 /\ a + b + 2 + k + 1 = a + 1 + b + 1 + k + 1
      /\ \A i \in 1..a : i \in 1..a+1 /\ i \in 1..a+1+b /\ i \in 1..a+1+b+1 /\ i \in 1..a+1+b+1+k
      /\ a + 1 \in 1..a+1 /\ a + 1 \in 1..a+1+b /\ a + 1 \in 1..a+1+b+1 /\ a + 1 \in 1..a+1+b+1+k
      /\ \A i \in 1..b : a + 1 + i \in 1..a+1+b /\ a + 1 + i \in 1..a+1+b+1 /\ a + 1 + i \in 1..a+1+b+1+k
      /\ a + 1 + b + 1 \in 1..a+1+b+1 /\ a + 1 + b + 1 \in 1..a+1+b+1+k
      /\ \A i \in 1..k : a + 1 + b + 1 + i \in 1..a+1+b+1+k
  BY <1>3
<1>10. \A i \in 1..a : w5[i] = s[i]
  BY <1>4, <1>5, <1>6, <1>7, <1>8, <1>9
<1>11. w5[a+1] = "\t"
  BY <1>4, <1>5, <1>6, <1>7, <1>8, <1>9
<1>12. \A i \in 1..b : w5[a + 1 + i] = f[i]
  BY <1>5, <1>6, <1>7, <1>8, <1>9
<1>13. w5[a + 1 + b + 1] = "\t"
  BY <1>6, <1>7, <1>8, <1>9
<1>14. \A i \in 1..k : w5[a + 1 + b + 1 + i] = c[i]
  BY <1>7, <1>8, <1>9
<1>15. Layout(w5, s, f, c)
  BY <1>8, <1>9, <1>10, <1>11, <1>12, <1>13, <1>14 DEF Layout, a, b, k
<1> QED BY <1>2, <1>8, <1>15

(* The line of an entry that can be stored is read as that entry.          *)
LEMMA LineParses ==
    ASSUME NEW e \in Kept, Storable(e), NEW line, line = EntryToString(e) \o <<"\n">>
    PROVE  /\ Parse(line) = <<e>>
           /\ line \in Text /\ Len(line) \in Nat /\ 1 <= Len(line) /\ Len(line) < LineMax
           /\ line[Len(line)] = "\n" /\ \A i \in 1..Len(line)-1 : line[i] # "\n"
<1> DEFINE s == GetSafePath(e.path)
           f == EntryField(e)
           c == e.cmd
           a == Len(s)
           b == Len(f)
           k == Len(c)
           n == Len(line)
           p2 == a + 2
           p3 == a + b + 3
<1>1. /\ e \in Entries /\ e.path \in Text /\ Plain(e.path) /\ e.path # <<>> /\ c \in Text
      /\ \A i \in 1..k : c[i] # "\n"
  BY DEF Kept, Entries, OneLine, Plain
<1>2. /\ e.path[1] # "#" /\ Len(EntryToString(e)) + 1 < LineMax
      /\ e.mask # {} \/ e.norec \/ e.loopable \/ e.dotdirs
      /\ MaskWritten(e.mask)
  BY DEF Storable
<1>3. /\ s \in Text /\ s # <<>> /\ s[1] # "#"
      /\ \A i \in 1..a : s[i] \notin {" ", "\t", "\n"}
  BY <1>1, <1>2, SafePlain
<1>4. EntryNames(e) # <<>> /\ Entry(e.path, f, c) = e
  BY <1>1, <1>2, FieldReads
<1>5. /\ f \in Text /\ 1 \in 1..b
      /\ \A i \in 1..b : f[i] \notin {" ", "\t", "\n", "\\"}
  BY <1>4, FieldIs
<1>t. s \in Text /\ f \in Text /\ c \in Text
  BY <1>1, <1>3, <1>5
<1>u. 1 \in 1..b
  BY <1>5
<1>6. line = Written(s, f, c)
  BY EntryToStringIs DEF Written
<1>7. StripPrefix(s) = e.path
  BY <1>1, StripSafe
<1>8. StripPrefix(f) = f
  <2>1. GetSafePath(f) = f
    <3> HIDE DEF f
    <3>1. \A i \in 1..Len(f) : f[i] \notin {" ", "\\"}
      BY <1>5
    <3> QED BY <1>5, <3>1, SafeAlready
  <2> HIDE DEF f
  <2> QED BY <1>5, <2>1, StripSafe
<1>len. n = Len(EntryToString(e)) + 1
  <2> DEFINE w == EntryToString(e)
             t == <<"\n">>
  <2>1. w \in Text /\ t \in Text /\ Len(t) = 1
    <3>1. w \in Text
      BY <1>1, EntryToStringType
    <3>2. "\n" \in Letter
      BY LetterAssumption
    <3> HIDE DEF w
    <3> QED BY <3>1, <3>2, One DEF Text
  <2>2. line = w \o t
    OBVIOUS
  <2> HIDE DEF w, t
  <2>3. Joined(line, w, t)
    BY <2>1, <2>2, Parts
  <2>4. n = Len(w) + 1
    BY <2>1, <2>3 DEF Joined
  <2> QED BY <2>4 DEF w
<1>v. s # <<>>
  BY <1>3
<1> HIDE DEF s, f, c
<1>9. line \in Text /\ Layout(line, s, f, c)
  BY <1>t, <1>6, LineIs
<1>10. a \in Nat /\ b \in Nat /\ k \in Nat /\ a >= 1 /\ b >= 1
  <2>1. a \in Nat /\ b \in Nat /\ k \in Nat
    BY <1>t DEF Text
  <2>2. a # 0
    BY <1>t, <1>v, EmptySeq DEF Text
  <2>3. 1 \in 1..b
    BY <1>u
  <2> HIDE DEF a, b, k
  <2> QED BY <2>1, <2>2, <2>3
<1>11. /\ n = a + b + 2 + k + 1
       /\ \A i \in 1..a : line[i] = s[i]
       /\ line[a + 1] = "\t"
       /\ \A i \in 1..b : line[a + 1 + i] = f[i]
       /\ line[a + b + 2] = "\t"
       /\ \A i \in 1..k : line[a + b + 2 + i] = c[i]
       /\ line[a + b + 2 + k + 1] = "\n"
  BY <1>9 DEF Layout
<1> HIDE DEF a, b, k, n
<1>12. line[n] = "\n" /\ n \in Nat /\ 1 <= n /\ n < LineMax
  <2>1. n < LineMax
    <3>1. Len(EntryToString(e)) + 1 < LineMax
      BY <1>2
    <3> QED BY <3>1, <1>len
  <2>2. line[n] = "\n" /\ n = a + b + 2 + k + 1
    BY <1>11
  <2>3. n \in Nat /\ 1 <= n
    BY <1>10, <2>2
  <2> QED BY <2>1, <2>2, <2>3
(* Only the last letter is a newline.                                      *)
<1>13. ASSUME NEW i \in 1..n-1
       PROVE  line[i] # "\n"
  <2>1. CASE i \in 1..a
    BY <1>3, <1>11, <2>1 DEF a
  <2>2. CASE i = a + 1
    BY <1>11, <2>2
  <2>3. CASE i - (a + 1) \in 1..b
    <3>1. a + 1 + (i - (a + 1)) = i
      BY <1>10
    <3>2. line[i] = f[i - (a + 1)]
      BY <1>11, <2>3, <3>1
    <3> QED BY <1>5, <2>3, <3>2 DEF b
  <2>4. CASE i = a + b + 2
    BY <1>11, <2>4
  <2>5. CASE i - (a + b + 2) \in 1..k
    <3>1. a + b + 2 + (i - (a + b + 2)) = i
      BY <1>10
    <3>2. line[i] = c[i - (a + b + 2)]
      BY <1>11, <2>5, <3>1
    <3> QED BY <1>1, <2>5, <3>2 DEF k
  <2>6. \/ i \in 1..a \/ i = a + 1 \/ i - (a + 1) \in 1..b \/ i = a + b + 2
        \/ i - (a + b + 2) \in 1..k
    BY <1>10, <1>11
  <2> QED BY <2>1, <2>2, <2>3, <2>4, <2>5, <2>6
(* The first token is the path.                                            *)
<1>14. GetNextToken(line, 1) = [text |-> e.path, pos |-> p2]
  <2> DEFINE q == a + 1
  <2>1. q \in Nat /\ 1 \in Nat /\ 1 <= q /\ q <= n /\ q - 1 = a /\ q + 1 = p2
    BY <1>10, <1>11
  <2>2. \A i \in 1..q-1 : line[i] \notin {" ", "\t"}
    BY <1>3, <1>11, <2>1 DEF a
  <2>3. line[q] = "\t"
    BY <1>11
  <2> HIDE DEF q
  <2>4. TabAfter(line, 1, q)
    <3>1. 1 <= 1 /\ 1 <= q /\ q <= Len(line)
      BY <2>1 DEF n
    <3> QED BY <2>2, <2>3, <3>1 DEF TabAfter
  <2>5. SubSeq(line, 1, a) = s
    <3>1. s \in Seq(Letter) /\ line \in Seq(Letter) /\ 0 \in Nat
      BY <1>3, <1>9 DEF Text
    <3>2. 0 + Len(s) <= Len(line) /\ 0 + 1 = 1 /\ 0 + Len(s) = a
      BY <1>10, <2>1 DEF a, n
    <3>3. \A i \in 1..Len(s) : line[0 + i] = s[i]
      <4>1. \A i \in 1..a : 0 + i = i
        BY <1>10
      <4> QED BY <1>11, <4>1 DEF a
    <3>4. SubSeq(line, 0 + 1, 0 + Len(s)) = s
      BY <3>1, <3>2, <3>3, PartIs
    <3> QED BY <3>2, <3>4
  <2>6. Stripped(line, 1, q) = e.path
    BY <1>7, <2>1, <2>5 DEF Stripped
  <2>7. GetNextToken(line, 1) = [text |-> e.path, pos |-> q + 1]
    BY <1>1, <1>9, <2>1, <2>4, <2>6, TokenBefore
  <2> QED BY <2>1, <2>7
(* The second one is the field.                                            *)
<1>15. GetNextToken(line, p2) = [text |-> f, pos |-> p3]
  <2> DEFINE q == a + b + 2
  <2>1. /\ q \in Nat /\ p2 \in Nat /\ 1 <= p2 /\ p2 <= q /\ q <= n /\ q - 1 = a + 1 + b /\ q + 1 = p3
        /\ p2 = a + 1 + 1
    BY <1>10, <1>11
  <2>2. \A i \in p2..q-1 : line[i] \notin {" ", "\t"}
    <3> SUFFICES ASSUME NEW i \in p2..q-1
                 PROVE  line[i] \notin {" ", "\t"}
      OBVIOUS
    <3> DEFINE j == i - (a + 1)
    <3>1. j \in 1..b /\ a + 1 + j = i
      BY <1>10
    <3> HIDE DEF j
    <3>2. line[i] = f[j]
      BY <1>11, <3>1
    <3> QED BY <1>5, <3>1, <3>2 DEF b
  <2>3. line[q] = "\t"
    BY <1>11
  <2> HIDE DEF q, p2, p3
  <2>4. TabAfter(line, p2, q)
    BY <2>1, <2>2, <2>3 DEF TabAfter, n
  <2>5. SubSeq(line, p2, a + 1 + b) = f
    <3> DEFINE m == a + 1
    <3>1. f \in Seq(Letter) /\ line \in Seq(Letter) /\ m \in Nat
      BY <1>t, <1>9, <1>10 DEF Text
    <3>2. m + Len(f) <= Len(line) /\ m + 1 = p2 /\ m + Len(f) = a + 1 + b
      BY <1>10, <1>11, <2>1 DEF b, n
    <3>3. \A i \in 1..Len(f) : line[m + i] = f[i]
      BY <1>11 DEF b
    <3> HIDE DEF m
    <3>4. SubSeq(line, m + 1, m + Len(f)) = f
      BY <3>1, <3>2, <3>3, PartIs
    <3> QED BY <3>2, <3>4
  <2>6. Stripped(line, p2, q) = f
    BY <1>8, <2>1, <2>5 DEF Stripped
  <2>7. f # <<>>
    BY <1>10 DEF b
  <2>8. GetNextToken(line, p2) = [text |-> f, pos |-> q + 1]
    <3>1. f \in Text /\ line \in Text /\ p2 \in Nat /\ q \in Nat
      BY <1>t, <1>9, <2>1
    <3> QED BY <2>4, <2>6, <2>7, <3>1, TokenBefore
  <2> QED BY <2>1, <2>8
(* The rest is the command and a newline.                                  *)
<1> DEFINE s3 == SubSeq(line, p3, n)
<1>16. IF Last(s3) = "\n" THEN Front(s3) = c ELSE FALSE
  <2> DEFINE m == a + b + 2
             u == c \o <<"\n">>
  <2>1. <<"\n">> \in Text /\ Len(<<"\n">>) = 1 /\ <<"\n">>[1] = "\n"
    <3>1. "\n" \in Letter
      BY LetterAssumption
    <3> QED BY <3>1, One DEF Text
  <2>2. /\ u \in Text /\ Len(u) = k + 1 /\ u[k + 1] = "\n"
        /\ \A i \in 1..k : u[i] = c[i]
    <3> DEFINE t == <<"\n">>
    <3>1. t \in Text /\ Len(t) = 1 /\ t[1] = "\n" /\ u = c \o t
      BY <2>1
    <3> HIDE DEF t, u
    <3>2. Joined(u, c, t)
      BY <1>1, <3>1, Parts
    <3> QED BY <1>10, <3>1, <3>2 DEF Joined, k
  <2> HIDE DEF u
  <2>3. s3 = u
    <3>1. u \in Seq(Letter) /\ line \in Seq(Letter) /\ m \in Nat
      BY <1>9, <1>10, <2>2 DEF Text
    <3>2. m + Len(u) <= Len(line) /\ m + 1 = p3 /\ m + Len(u) = n
      BY <1>10, <1>11, <2>2 DEF n
    <3>3. \A i \in 1..Len(u) : line[m + i] = u[i]
      <4> SUFFICES ASSUME NEW i \in 1..k+1
                   PROVE  line[m + i] = u[i]
        BY <2>2
      <4>1. CASE i \in 1..k
        BY <1>11, <2>2, <4>1
      <4>2. CASE i = k + 1
        <5>1. m + (k + 1) = a + b + 2 + k + 1
          BY <1>10
        <5> QED BY <1>11, <2>2, <4>2, <5>1
      <4>3. i \in 1..k \/ i = k + 1
        BY <1>10
      <4> QED BY <4>1, <4>2, <4>3
    <3> HIDE DEF m, p3
    <3>4. SubSeq(line, m + 1, m + Len(u)) = u
      BY <3>1, <3>2, <3>3, PartIs
    <3> QED BY <3>2, <3>4
  <2>4. Last(u) = "\n"
    BY <2>2 DEF Last
  <2>5. Front(u) = c
    <3>1. u \in Seq(Letter) /\ c \in Seq(Letter) /\ 0 \in Nat
      BY <1>1, <2>2 DEF Text
    <3>2. 0 + Len(c) <= Len(u) /\ 0 + 1 = 1 /\ 0 + Len(c) = Len(u) - 1
      BY <1>10, <2>2 DEF k
    <3>3. \A i \in 1..Len(c) : u[0 + i] = c[i]
      <4>1. \A i \in 1..k : 0 + i = i
        BY <1>10
      <4> QED BY <2>2, <4>1 DEF k
    <3>4. SubSeq(u, 0 + 1, 0 + Len(c)) = c
      BY <3>1, <3>2, <3>3, PartIs
    <3>5. SubSeq(u, 1, Len(u) - 1) = c
      BY <3>2, <3>4
    <3> QED BY <3>5 DEF Front
  <2> QED BY <2>3, <2>4, <2>5
<1>17. line[1] # "#"
  <2>1. 1 \in 1..a
    BY <1>10
  <2> QED BY <1>3, <1>11, <2>1
<1>18. ~(p2 > n) /\ ~(p3 > n)
  BY <1>10, <1>11
<1> HIDE DEF p2, p3, s3
<1>19. Parse(line) = <<Entry(e.path, f, c)>>
  <2>1. GetNextToken(line, 1).text = e.path /\ GetNextToken(line, 1).pos = p2
    BY <1>14
  <2>2. GetNextToken(line, p2).text = f /\ GetNextToken(line, p2).pos = p3
    BY <1>15
  <2> QED BY <1>16, <1>17, <1>18, <2>1, <2>2 DEF Parse, s3, n
<1> QED BY <1>4, <1>9, <1>12, <1>13, <1>19 DEF n

(* A line that fgets returns as a whole.                                   *)
Whole(l) == /\ l \in Text /\ Len(l) \in Nat /\ 1 <= Len(l) /\ Len(l) < LineMax
            /\ l[Len(l)] = "\n" /\ \A i \in 1..Len(l)-1 : l[i] # "\n"

(* A text made of such lines is read line by line.                         *)
LEMMA LinesOf ==
    ASSUME NEW ss \in Seq(Text), \A i \in 1..Len(ss) : Whole(ss[i])
    PROVE  Lines(FlattenSeq(ss)) = ss
<1> DEFINE n == Len(ss)
           text == FlattenSeq(ss)
           l == Len(text)
           Rest(i) == SubSeq(ss, i, n)
<1>1. text \in Text
  BY FlattenType DEF Text
<1>2. PICK at \in [1..n+1 -> Nat \ {0}] :
         /\ at[1] = 1
         /\ \A i \in 1..n : at[i+1] = at[i] + Len(ss[i])
         /\ at[n+1] = l + 1
         /\ \A i \in 1..n : \A k \in 1..Len(ss[i]) :
               at[i] + k - 1 \in 1..l /\ text[at[i] + k - 1] = ss[i][k]
  <2>1. ss \in Seq(Seq(Letter))
    BY DEF Text
  <2>2. PICK at \in [1..Len(ss)+1 -> Nat \ {0}] : PiecesAt(at, ss)
    BY <2>1, FlattenPlaces
  <2> QED BY <2>2 DEF PiecesAt
<1> HIDE DEF text
<1>3. PICK g \in [1..Len(text)+1 -> Seq(Text)] :
         g = [i \in 1..Len(text)+1 |-> LineStep(text, g, i)] /\ Lines(text) = g[1]
  BY <1>1, LinesRecursion
<1>4. l \in Nat /\ n \in Nat /\ LineMax \in Nat
  BY <1>1, LineMaxAssumption DEF Text
<1> HIDE DEF n
(* Where a piece ends fgets returns.                                       *)
<1>5. ASSUME NEW i \in 1..n
      PROVE  /\ at[i] \in 1..l /\ LineEnd(text, at[i]) + 1 = at[i+1]
             /\ SubSeq(text, at[i], LineEnd(text, at[i])) = ss[i]
  <2> DEFINE p == at[i]
             m == Len(ss[i])
             z == p + m - 1
             e == LineEnd(text, p)
  <2>1. Whole(ss[i]) /\ ss[i] \in Text
    BY DEF n
  <2>2. /\ m \in Nat /\ 1 <= m /\ m < LineMax /\ ss[i][m] = "\n"
        /\ \A k \in 1..m-1 : ss[i][k] # "\n"
    BY <2>1 DEF Whole
  <2>3. at[i+1] = p + m /\ \A k \in 1..m : p + k - 1 \in 1..l /\ text[p + k - 1] = ss[i][k]
    BY <1>2
  <2>4. p \in Nat
    <3>1. i \in 1..n+1
      BY <1>4
    <3> QED BY <1>2, <3>1
  <2> HIDE DEF m, p
  <2>5. p \in 1..l /\ z \in 1..l /\ text[z] = "\n" /\ p <= z /\ z \in Nat
    <3>1. 1 \in 1..m /\ m \in 1..m /\ p + 1 - 1 = p
      BY <2>2, <2>4
    <3>2. p + 1 - 1 \in 1..l /\ z \in 1..l /\ text[z] = ss[i][m]
      BY <2>3, <3>1
    <3> QED BY <1>4, <2>2, <2>4, <3>1, <3>2
  <2>6. \A j \in p..z-1 : text[j] # "\n"
    <3> SUFFICES ASSUME NEW j \in p..z-1
                 PROVE  text[j] # "\n"
      OBVIOUS
    <3> DEFINE k == j - p + 1
    <3>1. k \in 1..m-1 /\ k \in 1..m /\ p + k - 1 = j
      BY <2>2, <2>4
    <3> HIDE DEF k
    <3>2. text[j] = ss[i][k]
      BY <2>3, <3>1
    <3> QED BY <2>2, <3>1, <3>2
  <2>7. /\ e \in p..l /\ e <= p + LineMax - 2
        /\ e = p + LineMax - 2 \/ e = l \/ text[e] = "\n"
        /\ \A j \in p..e-1 : text[j] # "\n"
    BY <1>1, <2>5, LineEnds
  <2> HIDE DEF e
  <2>8. e = z
    <3>1. ~(z < e)
      <4>1. z < e => z \in p..e-1
        BY <1>4, <2>4, <2>5, <2>7
      <4> QED BY <2>5, <2>7, <4>1
    <3>2. ~(e < z)
      <4> SUFFICES ASSUME e < z
                   PROVE  FALSE
        OBVIOUS
      <4>1. e \in p..z-1 /\ e # l
        BY <1>4, <2>4, <2>5, <2>7
      <4>2. e = p + LineMax - 2
        BY <2>6, <2>7, <4>1
      <4> QED BY <1>4, <2>2, <2>4, <4>2
    <3> QED BY <1>4, <2>4, <2>5, <2>7, <3>1, <3>2
  <2>9. e + 1 = at[i+1]
    BY <2>2, <2>3, <2>4, <2>8
  <2>10. SubSeq(text, p, e) = ss[i]
    <3> DEFINE d == p - 1
    <3>1. text \in Seq(Letter) /\ ss[i] \in Seq(Letter) /\ d \in Nat /\ d + 1 = p /\ d + Len(ss[i]) = e
      <4>1. text \in Seq(Letter) /\ ss[i] \in Seq(Letter)
        BY <1>1, <2>1 DEF Text
      <4>2. d \in Nat /\ d + 1 = p
        BY <2>5
      <4>3. d + m = e
        BY <2>2, <2>4, <2>8
      <4> QED BY <4>1, <4>2, <4>3 DEF m
    <3>2. \A k \in 1..Len(ss[i]) : text[d + k] = ss[i][k]
      <4>1. \A k \in 1..m : d + k = p + k - 1
        BY <2>2, <2>4
      <4> QED BY <2>3, <4>1 DEF m
    <3>3. d + Len(ss[i]) <= Len(text)
      BY <1>4, <2>7, <3>1
    <3> HIDE DEF d
    <3>4. SubSeq(text, d + 1, d + Len(ss[i])) = ss[i]
      BY <3>1, <3>2, <3>3, PartIs
    <3> QED BY <3>1, <3>4
  <2> QED BY <2>5, <2>9, <2>10 DEF p, e
<1> DEFINE S == {i \in 1..n+1 : g[at[i]] = Rest(i)}
<1>6. ASSUME NEW i \in 1..n+1, \A j \in i+1..n+1 : j \in S
      PROVE  i \in S
  <2>1. CASE i = n + 1
    <3>1. l + 1 \in 1..l+1 /\ l + 1 > l
      BY <1>4
    <3>2. g[l + 1] = <<>>
      BY <1>3, <3>1 DEF LineStep
    <3>3. Rest(i) = <<>>
      BY <1>4, <2>1, SubSeqEmpty
    <3> QED BY <1>2, <2>1, <3>2, <3>3
  <2>2. CASE i # n + 1
    <3>1. i \in 1..n /\ i + 1 \in i+1..n+1
      BY <1>4, <2>2
    <3>2. g[at[i+1]] = Rest(i+1)
      BY <1>6, <3>1
    <3> DEFINE p == at[i]
    <3>3. /\ p \in 1..l /\ LineEnd(text, p) + 1 = at[i+1]
          /\ SubSeq(text, p, LineEnd(text, p)) = ss[i]
      BY <1>5, <3>1
    <3> HIDE DEF p
    <3>4. p \in 1..l+1 /\ ~(p > l)
      BY <1>4, <3>3
    <3>5. g[p] = LineStep(text, g, p)
      BY <1>3, <3>4
    <3>6. g[p] = <<ss[i]>> \o Rest(i+1)
      BY <3>2, <3>3, <3>4, <3>5 DEF LineStep
    <3>7. Rest(i) = <<ss[i]>> \o Rest(i+1)
      <4>1. i \in 1..Len(ss) /\ n \in i..Len(ss)
        BY <1>4, <3>1 DEF n
      <4> QED BY <4>1, SubSeqRecursiveFirst
    <3> QED BY <3>6, <3>7 DEF p
  <2> QED BY <2>1, <2>2
<1> HIDE DEF S
<1>7. 1..n+1 \subseteq S
  <2>1. n + 1 \in Nat
    BY <1>4
  <2> QED BY <1>6, <2>1, DownwardInduction
<1>8. g[1] = Rest(1)
  <2>1. 1 \in S
    BY <1>4, <1>7
  <2> QED BY <1>2, <2>1 DEF S
<1>9. Rest(1) = ss
  BY SubSeqFull DEF n
<1> QED BY <1>3, <1>8, <1>9 DEF text

(* What was saved is loaded again.                                         *)
LEMMA SavedLoads ==
    ASSUME NEW es \in Seq(Kept), \A i \in DOMAIN es : Storable(es[i])
    PROVE  Load(Save(es)) = es
<1> DEFINE n == Len(es)
           ss == [i \in DOMAIN es |-> EntryToString(es[i]) \o <<"\n">>]
           parsed == [i \in DOMAIN ss |-> Parse(ss[i])]
<1>1. n \in Nat /\ DOMAIN es = 1..n /\ \A i \in 1..n : es[i] \in Kept
  OBVIOUS
<1>2. DOMAIN ss = 1..n /\ \A i \in 1..n : ss[i] = EntryToString(es[i]) \o <<"\n">>
  BY <1>1
<1> HIDE DEF ss
<1>3. \A i \in 1..n : Parse(ss[i]) = <<es[i]>> /\ Whole(ss[i]) /\ ss[i] \in Text
  <2> SUFFICES ASSUME NEW i \in 1..n
               PROVE  Parse(ss[i]) = <<es[i]>> /\ Whole(ss[i]) /\ ss[i] \in Text
    OBVIOUS
  <2> DEFINE e == es[i]
             line == ss[i]
  <2>1. e \in Kept /\ Storable(e) /\ line = EntryToString(e) \o <<"\n">>
    BY <1>1, <1>2
  <2> HIDE DEF e, line
  <2>2. Parse(line) = <<e>> /\ Whole(line)
    BY <2>1, LineParses DEF Whole
  <2> QED BY <2>2 DEF Whole, e, line
<1>4. ss \in Seq(Text) /\ Len(ss) = n
  <2>1. ss = [i \in 1..n |-> EntryToString(es[i]) \o <<"\n">>]
    BY <1>1 DEF ss
  <2>2. ss = [i \in 1..n |-> ss[i]]
    BY <2>1
  <2> QED BY <1>1, <1>3, <2>2, IsASeq
<1>5. Lines(FlattenSeq(ss)) = ss
  BY <1>3, <1>4, LinesOf
<1>6. Save(es) = FlattenSeq(ss)
  BY DEF Save, ss
<1>7. Load(Save(es)) = FlattenSeq(parsed)
  BY <1>5, <1>6 DEF Load
<1>8. parsed = [i \in 1..Len(es) |-> <<es[i]>>]
  BY <1>2, <1>3
<1>9. FlattenSeq([i \in 1..Len(es) |-> <<es[i]>>]) = es
  BY FlattenOnes
<1> QED BY <1>7, <1>8, <1>9

-----------------------------------------------------------------------------
(* Types.                                                                  *)

EventType == {"IN_CLOSE_WRITE", "IN_DELETE"}
Place == {"start", "editor", "check", "open", "write", "close", "chown", "done"}

Types ==
    /\ scenario \in Scenario
    /\ table \in File \cup {NULL}
    /\ content \in [File -> Text]
    /\ pc \in [Proc -> Place]
    /\ result \in [Proc -> {NULL, "true", "false", "crashed"}]
    /\ tab \in [Proc -> Seq(Entries)]
    /\ fd \in [Proc -> File \cup {NULL}]
    /\ temp \in [Proc -> Text \cup {NULL}]
    /\ mtime \in [Proc -> Nat] /\ mt \in [Proc -> Nat]
    /\ time \in 0..MaxTime

Phase(p) ==
    /\ result[p] = NULL <=> pc[p] # "done"
    /\ fd[p] # NULL <=> pc[p] \in {"write", "close"}
    /\ pc[p] \in {"editor", "check"} => temp[p] # NULL /\ Cmd(p).op = "edit"
    /\ pc[p] \in {"open", "write"} => Cmd(p).op \in {"replace", "edit"}
    /\ pc[p] = "close" => Cmd(p).op \in {"replace", "edit", "reload"}
    /\ pc[p] = "chown" => Cmd(p).op = "replace"
    /\ pc[p] = "start" => temp[p] = NULL
    /\ temp[p] # NULL => Cmd(p).op = "edit" /\ result[p] \notin {"true", "false"}
    /\ mt[p] <= mtime[p] /\ mtime[p] <= time

Alternate ==
    /\ events \in Seq(EventType)
    /\ \A i \in 2..Len(events) : events[i] # events[i-1]

(* The type invariant as it is inductive: types of the texts too, and in   *)
(* each place what a process has open, in its temporary file and on its    *)
(* command line.                                                           *)
TypeInv == Types /\ Alternate /\ \A p \in Proc : Phase(p)

(* What the constants say of a scenario.                                   *)
LEMMA Asked ==
    ASSUME Types, NEW p \in Proc
    PROVE  Cmd(p).op \in Op /\ Cmd(p).text \in Text
  BY ScenarioAssumption DEF Types, Cmd, Text

(* NULL is neither an inode nor a text nor a verdict.                      *)
LEMMA NullApart ==
    /\ NULL \notin File /\ NULL \notin Text
    /\ NULL # "true" /\ NULL # "false" /\ NULL # "crashed"
  BY NullAssumption DEF Text

(* There is an inode.                                                      *)
LEMMA SomeFile == \E f \in File : TRUE
<1>1. [p \in Proc |-> NULL] \in [Proc -> File \cup {NULL}]
  OBVIOUS
<1> QED BY <1>1, FileAssumption

(* There is one that nobody has open.                                      *)
LEMMA FreeFile ==
    ASSUME Types
    PROVE  (CHOOSE g \in File : \A q \in Proc : fd[q] # g) \in File
  BY FileAssumption DEF Types

(* The initial states are of the right type.                               *)
LEMMA TypeInit == Init => TypeInv
<1> SUFFICES ASSUME Init
             PROVE  TypeInv
  OBVIOUS
<1> DEFINE f == CHOOSE g \in File : TRUE
<1>1. f \in File
  BY SomeFile
<1> HIDE DEF f
<1>2. /\ scenario \in Scenario
      /\ table = IF scenario.before = NULL THEN NULL ELSE f
      /\ content = [g \in File |-> IF g = table THEN scenario.before ELSE <<>>]
  BY DEF Init, f
<1>3. scenario.before = NULL \/ scenario.before \in Text
  BY <1>2, ScenarioAssumption DEF Text
<1>4. table \in File \cup {NULL} /\ content \in [File -> Text]
  <2>1. \A g \in File : g = table => scenario.before \in Text
    BY <1>2, <1>3, NullApart
  <2>2. <<>> \in Text
    BY DEF Text
  <2> QED BY <1>1, <1>2, <2>1, <2>2
<1>5. Types
  <2>1. <<>> \in Seq(Entries) /\ 0 \in 0..MaxTime
    BY TimeAssumption
  <2> QED BY <1>2, <1>4, <2>1 DEF Init, Types, Place
<1>6. Alternate
  BY DEF Init, Alternate
<1>7. ASSUME NEW p \in Proc
      PROVE  Phase(p)
  BY DEF Init, Phase
<1> QED BY <1>5, <1>6, <1>7 DEF TypeInv

(* An event that is announced differs from the one before it.              *)
LEMMA AnnounceAlternates ==
    ASSUME NEW type \in EventType, Alternate, Announce(type)
    PROVE  Alternate'
<1>1. events \in Seq(EventType) /\ \A i \in 2..Len(events) : events[i] # events[i-1]
  BY DEF Alternate
<1>2. CASE events # <<>> /\ Last(events) = type
  BY <1>1, <1>2 DEF Announce, Alternate
<1>3. CASE ~(events # <<>> /\ Last(events) = type)
  <2> DEFINE n == Len(events)
             e == Append(events, type)
  <2>1. events' = e
    BY <1>3 DEF Announce
  <2>2. /\ e \in Seq(EventType) /\ Len(e) = n + 1 /\ n \in Nat
        /\ \A i \in 1..n : e[i] = events[i]
        /\ e[n+1] = type
    BY <1>1
  <2> HIDE DEF e
  <2>3. n # 0 => events[n] # type
    BY <1>1, <1>3, EmptySeq DEF Last
  <2> HIDE DEF n
  <2>4. ASSUME NEW i \in 2..n+1
        PROVE  e[i] # e[i-1]
    <3>1. CASE i = n + 1
      <4>1. i - 1 = n /\ n \in 1..n /\ n # 0
        BY <2>2, <3>1
      <4> QED BY <2>2, <2>3, <3>1, <4>1
    <3>2. CASE i # n + 1
      <4>1. i \in 2..n /\ i \in 1..n /\ i - 1 \in 1..n
        BY <2>2, <3>2
      <4> QED BY <1>1, <2>2, <4>1 DEF n
    <3> QED BY <3>1, <3>2
  <2> QED BY <2>1, <2>2, <2>4 DEF Alternate
<1> QED BY <1>2, <1>3

(* So do those that are left when the first is handled.                    *)
LEMMA TailAlternates ==
    ASSUME Alternate, events # <<>>, events' = Tail(events)
    PROVE  Alternate'
<1>1. events \in Seq(EventType) /\ \A i \in 2..Len(events) : events[i] # events[i-1]
  BY DEF Alternate
<1>2. /\ Tail(events) \in Seq(EventType) /\ Len(Tail(events)) = Len(events) - 1 /\ Len(events) \in Nat
      /\ \A i \in 1..Len(Tail(events)) : Tail(events)[i] = events[i+1]
  BY <1>1, HeadTailProperties
<1>3. ASSUME NEW i \in 2..Len(Tail(events))
      PROVE  Tail(events)[i] # Tail(events)[i-1]
  <2>1. /\ i \in 1..Len(Tail(events)) /\ i - 1 \in 1..Len(Tail(events))
        /\ i + 1 \in 2..Len(events) /\ i + 1 - 1 = i /\ i - 1 + 1 = i
    BY <1>2
  <2>2. Tail(events)[i] = events[i+1] /\ Tail(events)[i-1] = events[i]
    BY <1>2, <2>1
  <2> QED BY <1>1, <2>1, <2>2
<1> QED BY <1>2, <1>3 DEF Alternate

(* A step of one process says nothing of the others.                       *)
Only(p) ==
    /\ UNCHANGED <<scenario, time>>
    /\ \A q \in Proc \ {p} : /\ pc'[q] = pc[q] /\ result'[q] = result[q] /\ fd'[q] = fd[q]
                             /\ temp'[q] = temp[q] /\ mtime'[q] = mtime[q] /\ mt'[q] = mt[q]

(* When a process steps, only its own part of the invariant is in question.*)
LEMMA OneSteps ==
    ASSUME TypeInv, NEW p \in Proc, Only(p), Types', Alternate', Phase(p)'
    PROVE  TypeInv'
<1>1. ASSUME NEW q \in Proc \ {p}
      PROVE  Phase(q)'
  BY DEF TypeInv, Only, Phase, Cmd
<1> QED BY <1>1 DEF TypeInv

(* Every step keeps the types, and each process where it may be.           *)
LEMMA TypeStep == TypeInv /\ [Next]_vars => TypeInv'
<1> SUFFICES ASSUME TypeInv, [Next]_vars
             PROVE  TypeInv'
  OBVIOUS
<1>0. Types /\ Alternate /\ \A p \in Proc : Phase(p)
  BY DEF TypeInv
<1> USE DEF Go, Return, private, shared, world
<1>1. ASSUME NEW p \in Proc, Refused(p)
      PROVE  TypeInv'
  <2>1. Types'
    BY <1>0, <1>1, NullApart DEF Refused, Types, Place, Phase
  <2>2. Alternate'
    BY <1>0, <1>1 DEF Refused, Alternate
  <2>3. Phase(p)'
    BY <1>0, <1>1, NullApart DEF Refused, Types, Phase, Place, Cmd
  <2>4. Only(p)
    BY <1>0, <1>1 DEF Refused, Types, Only
  <2> QED BY <2>1, <2>2, <2>3, <2>4, OneSteps
<1>2. ASSUME NEW p \in Proc, LoadSource(p)
      PROVE  TypeInv'
  <2>1. Types'
    BY <1>0, <1>2, NullApart, Asked, LoadType DEF LoadSource, Types, Place, Phase
  <2>2. Alternate'
    BY <1>0, <1>2 DEF LoadSource, Alternate
  <2>3. Phase(p)'
    BY <1>0, <1>2, NullApart DEF LoadSource, Types, Phase, Place, Cmd
  <2>4. Only(p)
    BY <1>0, <1>2 DEF LoadSource, Types, Only
  <2> QED BY <2>1, <2>2, <2>3, <2>4, OneSteps
<1>3. ASSUME NEW p \in Proc, MakeTemp(p)
      PROVE  TypeInv'
  <2>1. Types'
    <3> DEFINE copy == IF table = NULL THEN <<>> ELSE content[table]
    <3>1. copy \in Text /\ time \in Nat
      <4>1. <<>> \in Text
        BY DEF Text
      <4> QED BY <1>0, <4>1, TimeAssumption DEF Types
    <3>2. /\ temp' = [temp EXCEPT ![p] = copy]
          /\ UNCHANGED <<scenario, table, content, tab, fd, result, time>>
          /\ pc' = [pc EXCEPT ![p] = "editor"]
          /\ mtime' = [mtime EXCEPT ![p] = time] /\ mt' = [mt EXCEPT ![p] = time]
      BY <1>3 DEF MakeTemp
    <3> HIDE DEF copy
    <3> QED BY <1>0, <3>1, <3>2 DEF Types, Place
  <2>2. Alternate'
    BY <1>0, <1>3 DEF MakeTemp, Alternate
  <2>3. Phase(p)'
    <3> DEFINE copy == IF table = NULL THEN <<>> ELSE content[table]
    <3>1. copy # NULL /\ time \in Nat
      <4>1. <<>> \in Text
        BY DEF Text
      <4> QED BY <1>0, <4>1, NullApart, TimeAssumption DEF Types
    <3>2. /\ temp' = [temp EXCEPT ![p] = copy]
          /\ UNCHANGED <<scenario, fd, result, time>>
          /\ pc[p] = "start" /\ Cmd(p).op = "edit"
          /\ pc' = [pc EXCEPT ![p] = "editor"]
          /\ mtime' = [mtime EXCEPT ![p] = time] /\ mt' = [mt EXCEPT ![p] = time]
      BY <1>3 DEF MakeTemp
    <3> HIDE DEF copy
    <3>3. /\ pc'[p] = "editor" /\ temp'[p] = copy /\ mtime'[p] = time /\ mt'[p] = time
          /\ result'[p] = result[p] /\ fd'[p] = fd[p] /\ time' = time /\ Cmd(p)' = Cmd(p)
      BY <1>0, <3>2 DEF Types, Cmd
    <3> QED BY <1>0, <3>1, <3>2, <3>3, NullApart DEF Phase
  <2>4. Only(p)
    BY <1>0, <1>3 DEF MakeTemp, Types, Only
  <2> QED BY <2>1, <2>2, <2>3, <2>4, OneSteps
<1>4. ASSUME NEW p \in Proc, EditorSaves(p)
      PROVE  TypeInv'
  <2>1. Types'
    BY <1>0, <1>4, Asked, TimeAssumption DEF EditorSaves, Types, Place, Phase
  <2>2. Alternate'
    BY <1>0, <1>4 DEF EditorSaves, Alternate
  <2>3. Phase(p)'
    <3>1. /\ pc[p] = "editor" /\ pc'[p] = "editor" /\ temp'[p] = Cmd(p).text /\ mtime'[p] = time
          /\ mt'[p] = mt[p] /\ result'[p] = result[p] /\ fd'[p] = fd[p] /\ time' = time /\ Cmd(p)' = Cmd(p)
      BY <1>0, <1>4 DEF EditorSaves, Types, Cmd
    <3>2. Cmd(p).text # NULL /\ mt[p] <= time /\ time <= time
      <4>1. mt[p] \in Nat /\ mtime[p] \in Nat /\ time \in Nat /\ mt[p] <= mtime[p] /\ mtime[p] <= time
        BY <1>0, TimeAssumption DEF Types, Phase
      <4>2. mt[p] <= time /\ time <= time
        BY <4>1
      <4> QED BY <1>0, <4>2, Asked, NullApart
    <3> QED BY <1>0, <3>1, <3>2 DEF Phase
  <2>4. Only(p)
    BY <1>0, <1>4 DEF EditorSaves, Types, Only
  <2> QED BY <2>1, <2>2, <2>3, <2>4, OneSteps
<1>5. ASSUME NEW p \in Proc, EditorEnds(p)
      PROVE  TypeInv'
  <2>1. Types'
    BY <1>0, <1>5, NullApart DEF EditorEnds, Types, Place, Phase
  <2>2. Alternate'
    BY <1>0, <1>5 DEF EditorEnds, Alternate
  <2>3. Phase(p)'
    BY <1>0, <1>5, NullApart DEF EditorEnds, Types, Phase, Place, Cmd
  <2>4. Only(p)
    BY <1>0, <1>5 DEF EditorEnds, Types, Only
  <2> QED BY <2>1, <2>2, <2>3, <2>4, OneSteps
<1>6. ASSUME NEW p \in Proc, EditFails(p)
      PROVE  TypeInv'
  <2>1. Types'
    BY <1>0, <1>6, NullApart DEF EditFails, Types, Place, Phase
  <2>2. Alternate'
    BY <1>0, <1>6 DEF EditFails, Alternate
  <2>3. Phase(p)'
    BY <1>0, <1>6, NullApart DEF EditFails, Types, Phase, Place, Cmd
  <2>4. Only(p)
    BY <1>0, <1>6 DEF EditFails, Types, Only
  <2> QED BY <2>1, <2>2, <2>3, <2>4, OneSteps
<1>7. ASSUME NEW p \in Proc, CheckTime(p)
      PROVE  TypeInv'
  <2>1. Types'
    <3>1. pc[p] = "check" /\ temp[p] \in Text
      BY <1>0, <1>7 DEF CheckTime, Types, Phase
    <3>2. Load(temp[p]) \in Seq(Entries)
      BY <3>1, LoadType
    <3> DEFINE loadedTab == Load(temp[p])
    <3>3. /\ loadedTab \in Seq(Entries) /\ UNCHANGED <<scenario, time, fd, mtime, mt, table, content>>
          /\ \/ /\ temp' = [temp EXCEPT ![p] = NULL] /\ tab' = tab
                /\ pc' = [pc EXCEPT ![p] = "done"] /\ result' = [result EXCEPT ![p] = "true"]
             \/ /\ tab' = [tab EXCEPT ![p] = loadedTab] /\ temp' = temp
                /\ pc' = [pc EXCEPT ![p] = "open"] /\ result' = result
      BY <1>7, <3>2 DEF CheckTime
    <3> HIDE DEF loadedTab
    <3> QED BY <1>0, <3>3 DEF Types, Place
  <2>2. Alternate'
    BY <1>0, <1>7 DEF CheckTime, Alternate
  <2>3. Phase(p)'
    BY <1>0, <1>7, NullApart DEF CheckTime, Types, Phase, Place, Cmd
  <2>4. Only(p)
    BY <1>0, <1>7 DEF CheckTime, Types, Only
  <2> QED BY <2>1, <2>2, <2>3, <2>4, OneSteps
<1>8. ASSUME NEW p \in Proc, OpenTable(p)
      PROVE  TypeInv'
  <2>1. Types'
    <3> DEFINE f == IF table # NULL THEN table ELSE CHOOSE g \in File : \A q \in Proc : fd[q] # g
    <3>1. f \in File
      BY <1>0, FreeFile DEF Types
    <3>2. /\ table' = f /\ content' = [content EXCEPT ![f] = <<>>] /\ fd' = [fd EXCEPT ![p] = f]
          /\ pc' = [pc EXCEPT ![p] = "write"] /\ UNCHANGED <<scenario, time, tab, temp, mtime, mt, result>>
      BY <1>8 DEF OpenTable
    <3>3. <<>> \in Text
      BY DEF Text
    <3> HIDE DEF f
    <3> QED BY <1>0, <3>1, <3>2, <3>3 DEF Types, Place
  <2>2. Alternate'
    BY <1>0, <1>8 DEF OpenTable, Alternate
  <2>3. Phase(p)'
    <3>1. fd'[p] = table' /\ table' # NULL
      BY <1>0, <1>8, FreeFile, NullApart DEF OpenTable, Types
    <3> QED BY <1>0, <1>8, <3>1 DEF OpenTable, Types, Phase, Place, Cmd
  <2>4. Only(p)
    BY <1>0, <1>8 DEF OpenTable, Types, Only
  <2> QED BY <2>1, <2>2, <2>3, <2>4, OneSteps
<1>9. ASSUME NEW p \in Proc, OpenFails(p)
      PROVE  TypeInv'
  <2>1. Types'
    BY <1>0, <1>9, NullApart DEF OpenFails, Types, Place, Phase
  <2>2. Alternate'
    BY <1>0, <1>9 DEF OpenFails, Alternate
  <2>3. Phase(p)'
    BY <1>0, <1>9, NullApart DEF OpenFails, Types, Phase, Place, Cmd
  <2>4. Only(p)
    BY <1>0, <1>9 DEF OpenFails, Types, Only
  <2> QED BY <2>1, <2>2, <2>3, <2>4, OneSteps
<1>10. ASSUME NEW p \in Proc, WriteTable(p)
      PROVE  TypeInv'
  <2>1. Types'
    <3> DEFINE old == content[fd[p]]
               text == Save(tab[p])
    <3>1. fd[p] \in File /\ old \in Text /\ text \in Text
      BY <1>0, <1>10, SaveType DEF WriteTable, Types, Phase
    <3>2. PICK n \in 0..Len(text) :
             content' = [content EXCEPT ![fd[p]] = SubSeq(text, 1, n) \o SubSeq(old, n + 1, Len(old))]
      BY <1>10 DEF WriteTable
    <3> HIDE DEF old, text
    <3>3. SubSeq(text, 1, n) \in Text /\ SubSeq(old, n + 1, Len(old)) \in Text
      <4>1. /\ \A i \in 1..n : text[i] \in Letter
            /\ \A i \in n+1..Len(old) : old[i] \in Letter
            /\ 1 \in Int /\ n \in Int /\ n + 1 \in Int /\ Len(old) \in Int
        BY <3>1 DEF Text
      <4> QED BY <4>1, SubSeqProperties DEF Text
    <3>4. SubSeq(text, 1, n) \o SubSeq(old, n + 1, Len(old)) \in Text
      BY <3>3, ConcatProperties DEF Text
    <3>5. content' \in [File -> Text]
      BY <1>0, <3>1, <3>2, <3>4 DEF Types
    <3>6. pc' = [pc EXCEPT ![p] = "close"] /\ UNCHANGED <<scenario, time, tab, temp, mtime, mt, table, fd, result>>
      BY <1>10 DEF WriteTable
    <3> QED BY <1>0, <3>5, <3>6 DEF Types, Place
  <2>2. Alternate'
    BY <1>0, <1>10 DEF WriteTable, Alternate
  <2>3. Phase(p)'
    BY <1>0, <1>10, NullApart DEF WriteTable, Types, Phase, Place, Cmd
  <2>4. Only(p)
    BY <1>0, <1>10 DEF WriteTable, Types, Only
  <2> QED BY <2>1, <2>2, <2>3, <2>4, OneSteps
<1>11. ASSUME NEW p \in Proc, CloseTable(p)
      PROVE  TypeInv'
  <2>1. Types'
    BY <1>0, <1>11, NullApart DEF CloseTable, Types, Place, Phase
  <2>2. Alternate'
    BY <1>0, <1>11, AnnounceAlternates DEF CloseTable, Alternate, EventType
  <2>3. Phase(p)'
    BY <1>0, <1>11, NullApart DEF CloseTable, Types, Phase, Place, Cmd
  <2>4. Only(p)
    BY <1>0, <1>11 DEF CloseTable, Types, Only
  <2> QED BY <2>1, <2>2, <2>3, <2>4, OneSteps
<1>12. ASSUME NEW p \in Proc, Chown(p)
      PROVE  TypeInv'
  <2>1. Types'
    BY <1>0, <1>12, NullApart DEF Chown, Types, Place, Phase
  <2>2. Alternate'
    BY <1>0, <1>12 DEF Chown, Alternate
  <2>3. Phase(p)'
    BY <1>0, <1>12, NullApart DEF Chown, Types, Phase, Place, Cmd
  <2>4. Only(p)
    BY <1>0, <1>12 DEF Chown, Types, Only
  <2> QED BY <2>1, <2>2, <2>3, <2>4, OneSteps
<1>13. ASSUME NEW p \in Proc, RemoveTable(p)
      PROVE  TypeInv'
  <2>1. Types'
    BY <1>0, <1>13, NullApart DEF RemoveTable, Types, Place, Phase
  <2>2. Alternate'
    BY <1>0, <1>13, AnnounceAlternates DEF RemoveTable, Alternate, EventType
  <2>3. Phase(p)'
    BY <1>0, <1>13, NullApart DEF RemoveTable, Types, Phase, Place, Cmd
  <2>4. Only(p)
    BY <1>0, <1>13 DEF RemoveTable, Types, Only
  <2> QED BY <2>1, <2>2, <2>3, <2>4, OneSteps
<1>14. ASSUME NEW p \in Proc, ReloadTable(p)
      PROVE  TypeInv'
  <2>1. Types'
    BY <1>0, <1>14, NullApart DEF ReloadTable, Types, Place, Phase
  <2>2. Alternate'
    BY <1>0, <1>14 DEF ReloadTable, Alternate
  <2>3. Phase(p)'
    BY <1>0, <1>14, NullApart DEF ReloadTable, Types, Phase, Place, Cmd
  <2>4. Only(p)
    BY <1>0, <1>14 DEF ReloadTable, Types, Only
  <2> QED BY <2>1, <2>2, <2>3, <2>4, OneSteps
<1>15. ASSUME NEW p \in Proc, Crash(p)
      PROVE  TypeInv'
  <2>1. Types'
    BY <1>0, <1>15, NullApart DEF Crash, Types, Place, Phase
  <2>2. Alternate'
    BY <1>0, <1>15, AnnounceAlternates DEF Crash, Alternate, EventType
  <2>3. Phase(p)'
    BY <1>0, <1>15, NullApart DEF Crash, Types, Phase, Place, Cmd
  <2>4. Only(p)
    BY <1>0, <1>15 DEF Crash, Types, Only
  <2> QED BY <2>1, <2>2, <2>3, <2>4, OneSteps
<1>16. CASE Tick
  <2>1. time \in Nat /\ time + 1 \in 0..MaxTime
    BY <1>0, <1>16, TimeAssumption DEF Tick, Types
  <2>2. Types'
    BY <1>0, <1>16, <2>1 DEF Tick, Types
  <2>3. Alternate'
    BY <1>0, <1>16 DEF Tick, Alternate
  <2>4. ASSUME NEW p \in Proc
        PROVE  Phase(p)'
    <3>1. mtime[p] \in Nat /\ mtime[p] <= time
      BY <1>0 DEF Types, Phase
    <3>2. mtime[p] <= time + 1
      BY <2>1, <3>1
    <3> QED BY <1>0, <1>16, <3>2 DEF Tick, Phase, Cmd
  <2> QED BY <2>2, <2>3, <2>4 DEF TypeInv
<1>17. CASE HandleEvent
  BY <1>0, <1>17, TailAlternates DEF HandleEvent, TypeInv, Types, Phase, Cmd
<1>18. CASE UNCHANGED vars
  BY <1>0, <1>18 DEF vars, TypeInv, Types, Alternate, Phase, Cmd
<1> QED BY <1>1, <1>2, <1>3, <1>4, <1>5, <1>6, <1>7, <1>8, <1>9, <1>10, <1>11, <1>12, <1>13, <1>14, <1>15, <1>16, <1>17, <1>18 DEF Next

(* Whatever the texts and however many the processes: a process has a      *)
(* verdict when it has ended and not before, an open file only while it    *)
(* saves or touches the table, a temporary file only while it edits (or    *)
(* after a crash); the queue merges equal events; and no process knows a   *)
(* modification time later than the clock (ict-main.cpp, edit_table and the*)
(* rest; incrontab.cpp, Save).                                             *)
THEOREM TypeCorrect == Spec => []TypeOK
<1>1. Init => TypeInv
  BY TypeInit
<1>2. TypeInv /\ [Next]_vars => TypeInv'
  BY TypeStep
<1>3. TypeInv => TypeOK
  <2> SUFFICES ASSUME TypeInv
               PROVE  TypeOK
    OBVIOUS
  <2>1. \A i \in DOMAIN events : events[i] \in {"IN_CLOSE_WRITE", "IN_DELETE"}
                                /\ (i > 1 => events[i] # events[i-1])
    <3>1. events \in Seq(EventType) /\ \A i \in 2..Len(events) : events[i] # events[i-1]
      BY DEF TypeInv, Alternate
    <3>2. \A i \in DOMAIN events : events[i] \in EventType /\ (i > 1 => i \in 2..Len(events))
      BY <3>1
    <3> QED BY <3>1, <3>2 DEF EventType
  <2> QED BY <2>1 DEF TypeInv, Types, Phase, Place, TypeOK
<1> QED BY <1>1, <1>2, <1>3, PTL DEF Spec

(* Every process has loaded entries that can be kept.                      *)
KeptInv == tab \in [Proc -> Seq(Kept)]

(* In the beginning it has loaded nothing.                                 *)
LEMMA KeptInit == Init => KeptInv
  BY DEF Init, KeptInv

(* A step that changes the table of a process loads it from a text.        *)
LEMMA KeptStep == TypeInv /\ KeptInv /\ [Next]_vars => KeptInv'
<1> SUFFICES ASSUME TypeInv, KeptInv, [Next]_vars
             PROVE  KeptInv'
  OBVIOUS
<1>1. CASE UNCHANGED tab
  BY <1>1 DEF KeptInv
<1>2. ASSUME NEW p \in Proc, NEW text \in Text, tab' = [tab EXCEPT ![p] = Load(text)]
      PROVE  KeptInv'
  BY <1>2, LoadKept DEF KeptInv
<1>3. ASSUME NEW p \in Proc, LoadSource(p)
      PROVE  KeptInv'
  <2>1. Cmd(p).text \in Text
    BY Asked DEF TypeInv
  <2> QED BY <1>2, <1>3, <2>1 DEF LoadSource
<1>4. ASSUME NEW p \in Proc, CheckTime(p)
      PROVE  KeptInv'
  <2>1. pc[p] = "check" /\ temp[p] # NULL /\ temp[p] \in Text \cup {NULL}
    BY <1>4 DEF CheckTime, TypeInv, Types, Phase
  <2>2. temp[p] \in Text
    BY <2>1
  <2> QED BY <1>1, <1>2, <1>4, <2>2 DEF CheckTime
<1>5. ASSUME NEW p \in Proc,
             \/ Refused(p) \/ MakeTemp(p) \/ EditorSaves(p) \/ EditorEnds(p) \/ EditFails(p)
             \/ OpenTable(p) \/ OpenFails(p) \/ WriteTable(p) \/ CloseTable(p)
             \/ Chown(p) \/ RemoveTable(p) \/ ReloadTable(p) \/ Crash(p)
      PROVE  UNCHANGED tab
  BY <1>5 DEF Refused, MakeTemp, EditorSaves, EditorEnds, EditFails, OpenTable, OpenFails,
              WriteTable, CloseTable, Chown, RemoveTable, ReloadTable, Crash, private
<1>6. CASE Tick \/ HandleEvent \/ UNCHANGED vars
  BY <1>1, <1>6 DEF Tick, HandleEvent, vars, private
<1> QED BY <1>1, <1>3, <1>4, <1>5, <1>6 DEF Next

(* What Save writes of a loaded table Load reads entry for entry, whatever *)
(* text it was loaded from, if its entries can be stored: the escaping of  *)
(* paths, the names of masks and options and the newlines lose nothing     *)
(* (IncronTab::Load and Save, incrontab.cpp:185-234;                       *)
(* IncronTabEntry::ToString and Parse, incrontab.cpp:69-183).              *)
THEOREM SavedCorrect == Spec => []SavedReadsBack
<1>1. KeptInv => SavedReadsBack
  <2> SUFFICES ASSUME KeptInv, NEW p \in Proc, \A i \in DOMAIN tab[p] : Storable(tab[p][i])
               PROVE  ReadsBack(tab[p])
    BY DEF SavedReadsBack
  <2>1. tab[p] \in Seq(Kept)
    BY DEF KeptInv
  <2> QED BY <2>1, SavedLoads DEF ReadsBack
<1>2. TypeInv /\ KeptInv /\ [Next]_vars => (TypeInv /\ KeptInv)'
  BY TypeStep, KeptStep
<1> QED BY <1>1, <1>2, TypeInit, KeptInit, PTL DEF Spec

-----------------------------------------------------------------------------
(* Verdicts.                                                               *)

(* A command whose dollars are doubled comes through the expansion as it   *)
(* was, whatever stands in front of it, and an event's name gets into it   *)
(* without being looked at again: of any entry that was ever loaded from   *)
(* any text (usertable.cpp, UserTable::OnEvent; incrontab.5, "$$ dollar    *)
(* sign").                                                                 *)
THEOREM CommandsQuotable == Spec => []DollarsQuotable
<1>1. TypeInv => DollarsQuotable
  <2> SUFFICES ASSUME TypeInv, NEW p \in Proc, NEW i \in DOMAIN tab[p]
               PROVE  tab[p][i] \in Entries
    BY Dollars DEF DollarsQuotable
  <2>1. tab[p] \in Seq(Entries)
    BY DEF TypeInv, Types
  <2> QED BY <2>1
<1> QED BY <1>1, TypeInit, TypeStep, PTL DEF Spec

(* What a process that saves is about, wherever it is on the way.          *)
Saves(p) ==
    /\ pc[p] \in {"open", "write"} => tab[p] = Load(Cmd(p).text)
    /\ pc[p] \in {"editor", "check"} /\ mtime[p] # mt[p] => temp[p] = Cmd(p).text
    /\ pc[p] \in {"open", "write", "close"} /\ Cmd(p).op = "edit" => mtime[p] # mt[p]

(* What the file is, while nobody else has come to it.                     *)
Sound(p) ==
    /\ pc[p] \in {"start", "editor", "check", "open"} => Unchanged
    /\ pc[p] = "write" => table # NULL /\ fd[p] = table /\ content[table] = <<>>
    /\ pc[p] = "close" => IF Cmd(p).op = "reload" THEN Unchanged ELSE Stored(p)
    /\ pc[p] = "chown" => Stored(p)
    /\ result[p] = "false" => Unchanged \/ (Cmd(p).op = "replace" /\ Stored(p))
    /\ result[p] = "true" /\ Cmd(p).op = "remove" => table = NULL
    /\ result[p] = "true" /\ (Cmd(p).op = "reload" \/ (Cmd(p).op = "edit" /\ mtime[p] = mt[p]))
         => Unchanged
    /\ result[p] = "true" /\ Cmd(p).op \in {"replace", "edit"}
          /\ ~(Cmd(p).op = "edit" /\ mtime[p] = mt[p]) => Stored(p)
    /\ result[p] = "crashed" => Unchanged \/ (Cmd(p).op \in {"replace", "edit"} /\ Stored(p))
    /\ result[p] = "true" => Cmd(p).op # "none"

(* Both of every process.                                                  *)
VerdictInv == \A p \in Proc : Saves(p) /\ (Undisturbed(p) => Sound(p))

(* Nothing has been done and the file is as it was.                        *)
LEMMA VerdictInit == Init => VerdictInv
<1> SUFFICES ASSUME Init, NEW p \in Proc
             PROVE  Saves(p) /\ Sound(p)
  BY DEF VerdictInv
<1> DEFINE f == CHOOSE g \in File : TRUE
<1>1. f \in File
  BY SomeFile
<1>2. Unchanged
  <2> HIDE DEF f
  <2>1. /\ table = IF scenario.before = NULL THEN NULL ELSE f
        /\ content = [g \in File |-> IF g = table THEN scenario.before ELSE <<>>]
    BY DEF Init, f
  <2> QED BY <1>1, <2>1, NullApart DEF Unchanged
<1>3. pc[p] = "start" /\ result[p] = NULL
  BY DEF Init
<1> QED BY <1>2, <1>3, NullApart DEF Saves, Sound

(* q has not come to the table, or not to write it.                        *)
Harmless(q) ==
    \/ pc[q] \in {"start", "editor", "check", "open"}
    \/ Cmd(q).op = "reload"
    \/ Cmd(q).op # "replace" /\ result[q] = "false"
    \/ Cmd(q).op = "edit" /\ result[q] = "true" /\ mtime[q] = mt[q]

(* Undisturbed, by the other processes one at a time.                      *)
LEMMA UndisturbedIs ==
    ASSUME NEW p \in Proc
    PROVE  Undisturbed(p) <=> \A q \in Proc \ {p} : Harmless(q)
  BY DEF Undisturbed, Harmless

(* Somebody else's step that does not disturb p changes nothing p has said.*)
Apart(p) ==
    /\ UNCHANGED scenario
    /\ \A q \in Proc \ {p} : /\ pc'[q] = pc[q] /\ result'[q] = result[q] /\ fd'[q] = fd[q]
                             /\ temp'[q] = temp[q] /\ tab'[q] = tab[q]
                             /\ mtime'[q] = mtime[q] /\ mt'[q] = mt[q]

(* When a process steps, the others are disturbed or do not notice.        *)
LEMMA OneSpeaks ==
    ASSUME VerdictInv, NEW p \in Proc, Apart(p),
           Harmless(p)' => Harmless(p) /\ UNCHANGED <<table, content>>,
           Saves(p)', Sound(p) => Sound(p)'
    PROVE  VerdictInv'
<1>1. ASSUME NEW q \in Proc \ {p}
      PROVE  Saves(q)' /\ (Undisturbed(q)' => Sound(q)')
  <2>1. Saves(q) /\ (Undisturbed(q) => Sound(q))
    BY DEF VerdictInv
  <2>2. Saves(q)'
    BY <2>1 DEF Apart, Saves, Cmd
  <2>3. ASSUME Undisturbed(q)'
        PROVE  Sound(q)'
    <3>1. \A r \in Proc \ {q} : Harmless(r)'
      BY <2>3 DEF Undisturbed, Harmless
    <3>2. Harmless(p) /\ UNCHANGED <<table, content>>
      BY <3>1
    <3>3. \A r \in Proc \ {q, p} : Harmless(r)
      BY <3>1 DEF Harmless, Apart, Cmd
    <3>4. Undisturbed(q)
      BY <3>2, <3>3, UndisturbedIs
    <3>5. Sound(q)
      BY <2>1, <3>4
    <3> QED BY <3>2, <3>5 DEF Apart, Sound, Unchanged, Stored, Cmd
  <2> QED BY <2>2, <2>3
<1>2. ASSUME Undisturbed(p)'
      PROVE  Sound(p)'
  <2>1. Undisturbed(p)
    BY <1>2 DEF Undisturbed, Apart, Cmd
  <2> QED BY <2>1 DEF VerdictInv
<1> QED BY <1>1, <1>2 DEF VerdictInv

(* A beginning of what is written is left in an empty file.                *)
LEMMA Beginning ==
    ASSUME NEW text \in Text, NEW n \in 0..Len(text)
    PROVE  /\ IsPrefix(SubSeq(text, 1, n) \o SubSeq(<<>>, n + 1, Len(<<>>)), text)
           /\ IsPrefix(<<>>, text)
<1> DEFINE s == SubSeq(text, 1, n)
<1>1. n \in Int /\ n + 1 \in Int /\ 0 \in Int /\ 0 < n + 1 /\ Len(text) \in Nat
  BY DEF Text
<1>2. \A i \in 1..n : text[i] \in Letter
  BY DEF Text
<1>3. s \in Seq(Letter) /\ Len(s) = n /\ \A i \in 1..n : s[i] = text[i]
  BY <1>1, <1>2, SubSeqProperties
<1> HIDE DEF s
<1>4. SubSeq(<<>>, n + 1, Len(<<>>)) = <<>>
  <2>1. Len(<<>>) = 0
    OBVIOUS
  <2> QED BY <1>1, <2>1, SubSeqEmpty
<1>5. s \o <<>> = s
  BY <1>3, ConcatEmptySeq
<1>6. SubSeq(s, 1, Len(s)) = SubSeq(text, 1, Len(s))
  <2>1. SubSeq(s, 1, Len(s)) = s
    BY <1>3, SubSeqFull
  <2> QED BY <1>3, <2>1 DEF s
<1>7. IsPrefix(s, text)
  BY <1>1, <1>3, <1>6 DEF IsPrefix
<1>8. IsPrefix(<<>>, text)
  <2>1. Len(<<>>) = 0 /\ 0 <= Len(text) /\ 0 < 1
    BY <1>1
  <2>2. SubSeq(<<>>, 1, 0) = <<>> /\ SubSeq(text, 1, 0) = <<>>
    BY SubSeqEmpty
  <2> QED BY <2>1, <2>2 DEF IsPrefix
<1> QED BY <1>4, <1>5, <1>7, <1>8 DEF s

(* A process that has not ended has saved a beginning of the new table, or *)
(* nothing yet.                                                            *)
LEMMA OnTheWay ==
    ASSUME TypeInv, NEW p \in Proc, Sound(p), pc[p] # "done"
    PROVE  Unchanged \/ (Cmd(p).op \in {"replace", "edit"} /\ Stored(p))
<1>0. Types /\ Phase(p)
  BY DEF TypeInv
<1>1. CASE pc[p] = "write"
  <2>1. table # NULL /\ content[table] = <<>> /\ Cmd(p).op \in {"replace", "edit"}
    BY <1>0, <1>1 DEF Phase, Sound
  <2>2. Save(Load(Cmd(p).text)) \in Text
    BY <1>0, Asked, LoadType, SaveType
  <2>3. IsPrefix(<<>>, Save(Load(Cmd(p).text)))
    <3>1. 0 \in 0..Len(Save(Load(Cmd(p).text)))
      BY <2>2 DEF Text
    <3> QED BY <2>2, <3>1, Beginning
  <2> QED BY <2>1, <2>3 DEF Stored
<1>2. CASE pc[p] # "write"
  BY <1>0, <1>2 DEF Types, Phase, Sound, Place
<1> QED BY <1>1, <1>2

(* Every step keeps what is sound of its process, and is no news to those  *)
(* who remain undisturbed.                                                 *)
LEMMA VerdictStep == TypeInv /\ VerdictInv /\ [Next]_vars => VerdictInv'
<1> SUFFICES ASSUME TypeInv, VerdictInv, [Next]_vars
             PROVE  VerdictInv'
  OBVIOUS
<1>0. Types /\ (\A p \in Proc : Phase(p)) /\ (\A p \in Proc : Saves(p))
  BY DEF TypeInv, VerdictInv
<1> USE DEF Go, Return, private, shared, world
<1>1. ASSUME NEW p \in Proc, Refused(p)
      PROVE  VerdictInv'
  <2>1. Saves(p)'
    BY <1>0, <1>1, NullApart DEF Refused, Types, Phase, Saves, Cmd
  <2>2. ASSUME Sound(p)
        PROVE  Sound(p)'
    BY <1>0, <1>1, <2>2, NullApart DEF Refused, Types, Phase, Saves, Sound, Unchanged, Stored, Cmd
  <2>3. Harmless(p)' => Harmless(p) /\ UNCHANGED <<table, content>>
    BY <1>0, <1>1, NullApart DEF Refused, Types, Phase, Saves, Harmless, Cmd
  <2>4. Apart(p)
    BY <1>0, <1>1 DEF Refused, Types, Apart
  <2> QED BY <2>1, <2>2, <2>3, <2>4, OneSpeaks
<1>2. ASSUME NEW p \in Proc, LoadSource(p)
      PROVE  VerdictInv'
  <2>1. Saves(p)'
    BY <1>0, <1>2, NullApart DEF LoadSource, Types, Phase, Saves, Cmd
  <2>2. ASSUME Sound(p)
        PROVE  Sound(p)'
    BY <1>0, <1>2, <2>2, NullApart DEF LoadSource, Types, Phase, Saves, Sound, Unchanged, Stored, Cmd
  <2>3. Harmless(p)' => Harmless(p) /\ UNCHANGED <<table, content>>
    BY <1>0, <1>2, NullApart DEF LoadSource, Types, Phase, Saves, Harmless, Cmd
  <2>4. Apart(p)
    BY <1>0, <1>2 DEF LoadSource, Types, Apart
  <2> QED BY <2>1, <2>2, <2>3, <2>4, OneSpeaks
<1>3. ASSUME NEW p \in Proc, MakeTemp(p)
      PROVE  VerdictInv'
  <2>1. Saves(p)'
    BY <1>0, <1>3, NullApart DEF MakeTemp, Types, Phase, Saves, Cmd
  <2>2. ASSUME Sound(p)
        PROVE  Sound(p)'
    BY <1>0, <1>3, <2>2, NullApart DEF MakeTemp, Types, Phase, Saves, Sound, Unchanged, Stored, Cmd
  <2>3. Harmless(p)' => Harmless(p) /\ UNCHANGED <<table, content>>
    BY <1>0, <1>3, NullApart DEF MakeTemp, Types, Phase, Saves, Harmless, Cmd
  <2>4. Apart(p)
    BY <1>0, <1>3 DEF MakeTemp, Types, Apart
  <2> QED BY <2>1, <2>2, <2>3, <2>4, OneSpeaks
<1>4. ASSUME NEW p \in Proc, EditorSaves(p)
      PROVE  VerdictInv'
  <2>1. Saves(p)'
    BY <1>0, <1>4, NullApart DEF EditorSaves, Types, Phase, Saves, Cmd
  <2>2. ASSUME Sound(p)
        PROVE  Sound(p)'
    BY <1>0, <1>4, <2>2, NullApart DEF EditorSaves, Types, Phase, Saves, Sound, Unchanged, Stored, Cmd
  <2>3. Harmless(p)' => Harmless(p) /\ UNCHANGED <<table, content>>
    BY <1>0, <1>4, NullApart DEF EditorSaves, Types, Phase, Saves, Harmless, Cmd
  <2>4. Apart(p)
    BY <1>0, <1>4 DEF EditorSaves, Types, Apart
  <2> QED BY <2>1, <2>2, <2>3, <2>4, OneSpeaks
<1>5. ASSUME NEW p \in Proc, EditorEnds(p)
      PROVE  VerdictInv'
  <2>1. Saves(p)'
    BY <1>0, <1>5, NullApart DEF EditorEnds, Types, Phase, Saves, Cmd
  <2>2. ASSUME Sound(p)
        PROVE  Sound(p)'
    BY <1>0, <1>5, <2>2, NullApart DEF EditorEnds, Types, Phase, Saves, Sound, Unchanged, Stored, Cmd
  <2>3. Harmless(p)' => Harmless(p) /\ UNCHANGED <<table, content>>
    BY <1>0, <1>5, NullApart DEF EditorEnds, Types, Phase, Saves, Harmless, Cmd
  <2>4. Apart(p)
    BY <1>0, <1>5 DEF EditorEnds, Types, Apart
  <2> QED BY <2>1, <2>2, <2>3, <2>4, OneSpeaks
<1>6. ASSUME NEW p \in Proc, EditFails(p)
      PROVE  VerdictInv'
  <2>1. Saves(p)'
    BY <1>0, <1>6, NullApart DEF EditFails, Types, Phase, Saves, Cmd
  <2>2. ASSUME Sound(p)
        PROVE  Sound(p)'
    BY <1>0, <1>6, <2>2, NullApart DEF EditFails, Types, Phase, Saves, Sound, Unchanged, Stored, Cmd
  <2>3. Harmless(p)' => Harmless(p) /\ UNCHANGED <<table, content>>
    BY <1>0, <1>6, NullApart DEF EditFails, Types, Phase, Saves, Harmless, Cmd
  <2>4. Apart(p)
    BY <1>0, <1>6 DEF EditFails, Types, Apart
  <2> QED BY <2>1, <2>2, <2>3, <2>4, OneSpeaks
<1>7. ASSUME NEW p \in Proc, CheckTime(p)
      PROVE  VerdictInv'
  <2>1. Saves(p)'
    BY <1>0, <1>7, NullApart DEF CheckTime, Types, Phase, Saves, Cmd
  <2>2. ASSUME Sound(p)
        PROVE  Sound(p)'
    BY <1>0, <1>7, <2>2, NullApart DEF CheckTime, Types, Phase, Saves, Sound, Unchanged, Stored, Cmd
  <2>3. Harmless(p)' => Harmless(p) /\ UNCHANGED <<table, content>>
    BY <1>0, <1>7, NullApart DEF CheckTime, Types, Phase, Saves, Harmless, Cmd
  <2>4. Apart(p)
    BY <1>0, <1>7 DEF CheckTime, Types, Apart
  <2> QED BY <2>1, <2>2, <2>3, <2>4, OneSpeaks
<1>8. ASSUME NEW p \in Proc, OpenTable(p)
      PROVE  VerdictInv'
  <2>1. Saves(p)'
    BY <1>0, <1>8, NullApart DEF OpenTable, Types, Phase, Saves, Cmd
  <2>2. ASSUME Sound(p)
        PROVE  Sound(p)'
    <3>1. table' \in File /\ fd' = [fd EXCEPT ![p] = table'] /\ content' = [content EXCEPT ![table'] = <<>>]
      BY <1>0, <1>8, FreeFile DEF OpenTable, Types
    <3>2. table' # NULL /\ fd'[p] = table' /\ content'[table'] = <<>>
      BY <1>0, <3>1, NullApart DEF Types
    <3>3. pc'[p] = "write" /\ result'[p] = NULL
      BY <1>0, <1>8 DEF OpenTable, Types, Phase
    <3> QED BY <3>2, <3>3, NullApart DEF Sound
  <2>3. Harmless(p)' => Harmless(p) /\ UNCHANGED <<table, content>>
    BY <1>0, <1>8, NullApart DEF OpenTable, Types, Phase, Saves, Harmless, Cmd
  <2>4. Apart(p)
    BY <1>0, <1>8 DEF OpenTable, Types, Apart
  <2> QED BY <2>1, <2>2, <2>3, <2>4, OneSpeaks
<1>9. ASSUME NEW p \in Proc, OpenFails(p)
      PROVE  VerdictInv'
  <2>1. Saves(p)'
    BY <1>0, <1>9, NullApart DEF OpenFails, Types, Phase, Saves, Cmd
  <2>2. ASSUME Sound(p)
        PROVE  Sound(p)'
    BY <1>0, <1>9, <2>2, NullApart DEF OpenFails, Types, Phase, Saves, Sound, Unchanged, Stored, Cmd
  <2>3. Harmless(p)' => Harmless(p) /\ UNCHANGED <<table, content>>
    BY <1>0, <1>9, NullApart DEF OpenFails, Types, Phase, Saves, Harmless, Cmd
  <2>4. Apart(p)
    BY <1>0, <1>9 DEF OpenFails, Types, Apart
  <2> QED BY <2>1, <2>2, <2>3, <2>4, OneSpeaks
<1>10. ASSUME NEW p \in Proc, WriteTable(p)
      PROVE  VerdictInv'
  <2>1. Saves(p)'
    BY <1>0, <1>10, NullApart DEF WriteTable, Types, Phase, Saves, Cmd
  <2>2. ASSUME Sound(p)
        PROVE  Sound(p)'
    <3> DEFINE text == Save(tab[p])
               written(n) == SubSeq(text, 1, n) \o SubSeq(<<>>, n + 1, Len(<<>>))
    <3>1. /\ pc[p] = "write" /\ table \in File /\ table # NULL /\ fd[p] = table /\ content[table] = <<>>
          /\ Cmd(p).op \in {"replace", "edit"} /\ tab[p] = Load(Cmd(p).text) /\ result[p] = NULL
      BY <1>0, <1>10, <2>2 DEF WriteTable, Types, Phase, Saves, Sound
    <3>2. text \in Text
      BY <1>0, SaveType DEF Types
    <3>3. PICK n \in 0..Len(text) : content' = [content EXCEPT ![table] = written(n)]
      BY <1>10, <3>1 DEF WriteTable
    <3>4. IsPrefix(written(n), text)
      <4> HIDE DEF text
      <4> QED BY <3>2, Beginning
    <3> HIDE DEF written
    <3>5. content'[table] = written(n)
      BY <1>0, <3>1, <3>3 DEF Types
    <3>6. /\ table' = table /\ pc'[p] = "close" /\ result'[p] = NULL /\ Cmd(p)' = Cmd(p)
      BY <1>0, <1>10, <3>1 DEF WriteTable, Types, Cmd
    <3>7. Stored(p)'
      BY <3>1, <3>4, <3>5, <3>6 DEF Stored
    <3> QED BY <3>1, <3>6, <3>7, NullApart DEF Sound
  <2>3. Harmless(p)' => Harmless(p) /\ UNCHANGED <<table, content>>
    BY <1>0, <1>10, NullApart DEF WriteTable, Types, Phase, Saves, Harmless, Cmd
  <2>4. Apart(p)
    BY <1>0, <1>10 DEF WriteTable, Types, Apart
  <2> QED BY <2>1, <2>2, <2>3, <2>4, OneSpeaks
<1>11. ASSUME NEW p \in Proc, CloseTable(p)
      PROVE  VerdictInv'
  <2>1. Saves(p)'
    BY <1>0, <1>11, NullApart DEF CloseTable, Types, Phase, Saves, Cmd
  <2>2. ASSUME Sound(p)
        PROVE  Sound(p)'
    BY <1>0, <1>11, <2>2, NullApart DEF CloseTable, Types, Phase, Saves, Sound, Unchanged, Stored, Cmd
  <2>3. Harmless(p)' => Harmless(p) /\ UNCHANGED <<table, content>>
    BY <1>0, <1>11, NullApart DEF CloseTable, Types, Phase, Saves, Harmless, Cmd
  <2>4. Apart(p)
    BY <1>0, <1>11 DEF CloseTable, Types, Apart
  <2> QED BY <2>1, <2>2, <2>3, <2>4, OneSpeaks
<1>12. ASSUME NEW p \in Proc, Chown(p)
      PROVE  VerdictInv'
  <2>1. Saves(p)'
    BY <1>0, <1>12, NullApart DEF Chown, Types, Phase, Saves, Cmd
  <2>2. ASSUME Sound(p)
        PROVE  Sound(p)'
    BY <1>0, <1>12, <2>2, NullApart DEF Chown, Types, Phase, Saves, Sound, Unchanged, Stored, Cmd
  <2>3. Harmless(p)' => Harmless(p) /\ UNCHANGED <<table, content>>
    BY <1>0, <1>12, NullApart DEF Chown, Types, Phase, Saves, Harmless, Cmd
  <2>4. Apart(p)
    BY <1>0, <1>12 DEF Chown, Types, Apart
  <2> QED BY <2>1, <2>2, <2>3, <2>4, OneSpeaks
<1>13. ASSUME NEW p \in Proc, RemoveTable(p)
      PROVE  VerdictInv'
  <2>1. Saves(p)'
    BY <1>0, <1>13, NullApart DEF RemoveTable, Types, Phase, Saves, Cmd
  <2>2. ASSUME Sound(p)
        PROVE  Sound(p)'
    BY <1>0, <1>13, <2>2, NullApart DEF RemoveTable, Types, Phase, Saves, Sound, Unchanged, Stored, Cmd
  <2>3. Harmless(p)' => Harmless(p) /\ UNCHANGED <<table, content>>
    BY <1>0, <1>13, NullApart DEF RemoveTable, Types, Phase, Saves, Harmless, Cmd
  <2>4. Apart(p)
    BY <1>0, <1>13 DEF RemoveTable, Types, Apart
  <2> QED BY <2>1, <2>2, <2>3, <2>4, OneSpeaks
<1>14. ASSUME NEW p \in Proc, ReloadTable(p)
      PROVE  VerdictInv'
  <2>1. Saves(p)'
    BY <1>0, <1>14, NullApart DEF ReloadTable, Types, Phase, Saves, Cmd
  <2>2. ASSUME Sound(p)
        PROVE  Sound(p)'
    BY <1>0, <1>14, <2>2, NullApart DEF ReloadTable, Types, Phase, Saves, Sound, Unchanged, Stored, Cmd
  <2>3. Harmless(p)' => Harmless(p) /\ UNCHANGED <<table, content>>
    BY <1>0, <1>14, NullApart DEF ReloadTable, Types, Phase, Saves, Harmless, Cmd
  <2>4. Apart(p)
    BY <1>0, <1>14 DEF ReloadTable, Types, Apart
  <2> QED BY <2>1, <2>2, <2>3, <2>4, OneSpeaks
<1>15. ASSUME NEW p \in Proc, Crash(p)
      PROVE  VerdictInv'
  <2>1. Saves(p)'
    BY <1>0, <1>15, NullApart DEF Crash, Types, Phase, Saves, Cmd
  <2>2. ASSUME Sound(p)
        PROVE  Sound(p)'
    <3>1. /\ pc[p] \in Place /\ pc[p] \notin {"start", "done"} /\ pc'[p] = "done" /\ result'[p] = "crashed"
          /\ UNCHANGED <<table, content, scenario>>
      BY <1>0, <1>15 DEF Crash, Types
    <3>2. Unchanged \/ (Cmd(p).op \in {"replace", "edit"} /\ Stored(p))
      BY <2>2, <3>1, OnTheWay
    <3>3. Unchanged' = Unchanged /\ Stored(p)' = Stored(p) /\ Cmd(p)' = Cmd(p)
      BY <3>1 DEF Unchanged, Stored, Cmd
    <3> QED BY <3>1, <3>2, <3>3 DEF Sound
  <2>3. Harmless(p)' => Harmless(p) /\ UNCHANGED <<table, content>>
    BY <1>0, <1>15, NullApart DEF Crash, Types, Phase, Saves, Harmless, Cmd
  <2>4. Apart(p)
    BY <1>0, <1>15 DEF Crash, Types, Apart
  <2> QED BY <2>1, <2>2, <2>3, <2>4, OneSpeaks
<1>16. CASE Tick
  BY <1>16 DEF Tick, VerdictInv, Saves, Sound, Undisturbed, Unchanged, Stored, Cmd
<1>17. CASE HandleEvent
  BY <1>17 DEF HandleEvent, VerdictInv, Saves, Sound, Undisturbed, Unchanged, Stored, Cmd
<1>18. CASE UNCHANGED vars
  BY <1>18 DEF vars, VerdictInv, Saves, Sound, Undisturbed, Unchanged, Stored, Cmd
<1> QED BY <1>1, <1>2, <1>3, <1>4, <1>5, <1>6, <1>7, <1>8, <1>9, <1>10, <1>11, <1>12, <1>13, <1>14, <1>15, <1>16, <1>17, <1>18 DEF Next

(* The verdict of an incrontab is true of the table, whatever other        *)
(* incrontabs have in their editors, give up or reload meanwhile: "failed" *)
(* has changed nothing, or has stored an import and not set its owner; a   *)
(* removal has removed, and a save has left a                              *)
(* beginning of what it read and nothing of the old text, wherever the     *)
(* process was killed or the disk was full (ict-main.cpp, copy_from_file,  *)
(* remove_table, edit_table, reload_table; incrontab.cpp, IncronTab::Save).*)
THEOREM VerdictsTrue == Spec => []VerdictTrue
<1>1. TypeInv /\ VerdictInv => VerdictTrue
  <2> SUFFICES ASSUME TypeInv, VerdictInv, NEW p \in Proc, Undisturbed(p)
               PROVE  CASE result[p] = "false" -> Unchanged \/ (Cmd(p).op = "replace" /\ Stored(p))
                        [] result[p] = "true" ->
                              CASE Cmd(p).op = "remove" -> table = NULL
                                [] Cmd(p).op = "reload" -> Unchanged
                                [] Cmd(p).op = "edit" /\ mtime[p] = mt[p] -> Unchanged
                                [] OTHER -> Stored(p)
                        [] OTHER -> Unchanged \/ (Cmd(p).op \in {"replace", "edit"} /\ Stored(p))
    BY DEF VerdictTrue
  <2>1. Sound(p) /\ Phase(p) /\ Types /\ Saves(p)
    BY DEF VerdictInv, TypeInv
  <2>2. CASE result[p] = "false"
    BY <2>1, <2>2 DEF Sound
  <2>3. CASE result[p] = "true"
    <3>1. Cmd(p).op \in {"replace", "edit", "remove", "reload"}
      BY <2>1, <2>3, Asked DEF Sound, Op
    <3>2. \/ Cmd(p).op = "remove" /\ table = NULL
          \/ Cmd(p).op = "reload" /\ Unchanged
          \/ Cmd(p).op = "edit" /\ mtime[p] = mt[p] /\ Unchanged
          \/ /\ Cmd(p).op # "remove" /\ Cmd(p).op # "reload"
             /\ ~(Cmd(p).op = "edit" /\ mtime[p] = mt[p]) /\ Stored(p)
      BY <2>1, <2>3, <3>1 DEF Sound
    <3>3. "true" # "false" /\ "remove" # "reload" /\ "remove" # "edit" /\ "reload" # "edit"
      OBVIOUS
    <3> QED BY <2>3, <3>2, <3>3, Zenon
  <2>4. CASE result[p] \notin {"true", "false"}
    <3>1. Unchanged \/ (Cmd(p).op \in {"replace", "edit"} /\ Stored(p))
      <4>1. CASE result[p] = "crashed"
        BY <2>1, <4>1 DEF Sound
      <4>2. CASE result[p] # "crashed"
        BY <2>1, <2>4, <4>2, OnTheWay DEF Types, Phase
      <4> QED BY <4>1, <4>2
    <3> QED BY <2>4, <3>1, Zenon
  <2> QED BY <2>2, <2>3, <2>4
<1>2. TypeInv /\ VerdictInv /\ [Next]_vars => (TypeInv /\ VerdictInv)'
  BY TypeStep, VerdictStep
<1> QED BY <1>1, <1>2, TypeInit, VerdictInit, PTL DEF Spec

-----------------------------------------------------------------------------
(* The daemon.                                                             *)

(* If the daemon's table is not that of the file, it will hear of it: the  *)
(* last event it will see tells of a file that was written, or the file is *)
(* still open and its close will tell.                                     *)
WillHear ==
    \/ events # <<>> /\ events[Len(events)] = "IN_CLOSE_WRITE"
    \/ \E p \in Proc : fd[p] = table

HearInv ==
    /\ events \in Seq(EventType)
    /\ fd = [p \in Proc |-> fd[p]]
    /\ table # NULL => WillHear \/ (events = <<>> /\ loaded = Load(content[table]))
    /\ table = NULL => events # <<>> \/ loaded \in {NULL, <<>>}

(* In the beginning the daemon has the table.                              *)
LEMMA HearInit == Init => HearInv
  BY DEF Init, HearInv, WillHear

(* The last element of a sequence, and what is left of it without the      *)
(* first.                                                                  *)
LEMMA Announced ==
    ASSUME NEW type \in EventType, events \in Seq(EventType), Announce(type)
    PROVE  /\ events' \in Seq(EventType)
           /\ events' # <<>> /\ events'[Len(events')] = type
<1>1. CASE events # <<>> /\ Last(events) = type
  BY <1>1 DEF Announce, Last
<1>2. CASE ~(events # <<>> /\ Last(events) = type)
  <2>1. events' = Append(events, type)
    BY <1>2 DEF Announce
  <2> QED BY <2>1
<1> QED BY <1>1, <1>2

(* What is left of a sequence without the first element ends as it did.    *)
LEMMA TailLast ==
    ASSUME NEW S, NEW s \in Seq(S), s # <<>>
    PROVE  /\ Tail(s) \in Seq(S)
           /\ Tail(s) = <<>> => s[Len(s)] = Head(s)
           /\ Tail(s) # <<>> => Tail(s)[Len(Tail(s))] = s[Len(s)]
<1>1. /\ Len(s) \in Nat \ {0} /\ Tail(s) \in Seq(S) /\ Len(Tail(s)) = Len(s) - 1
      /\ \A i \in 1..Len(Tail(s)) : Tail(s)[i] = s[i + 1]
      /\ Head(s) = s[1]
  BY HeadTailProperties, EmptySeq, LenProperties
<1>2. CASE Tail(s) = <<>>
  BY <1>1, <1>2
<1>3. CASE Tail(s) # <<>>
  <2>1. Len(Tail(s)) # 0
    BY <1>1, <1>3, EmptySeq
  <2>2. Len(Tail(s)) \in 1..Len(Tail(s)) /\ Len(Tail(s)) + 1 = Len(s)
    BY <1>1, <2>1
  <2>3. Tail(s)[Len(Tail(s))] = s[Len(Tail(s)) + 1]
    BY <1>1, <2>2
  <2> QED BY <1>1, <1>3, <2>2, <2>3
<1> QED BY <1>1, <1>2, <1>3

(* Every step that changes the file leaves an event on the way, or a       *)
(* descriptor whose close will announce one.                               *)
LEMMA HearStep == HearInv /\ [Next]_vars => HearInv'
<1> SUFFICES ASSUME HearInv, [Next]_vars
             PROVE  HearInv'
  OBVIOUS
<1>0. events \in Seq(EventType)
  BY DEF HearInv
(* A close is announced.                                                   *)
<1>1. ASSUME Announce("IN_CLOSE_WRITE"), NEW p \in Proc, fd' = [fd EXCEPT ![p] = NULL]
      PROVE  HearInv'
  BY <1>0, <1>1, Announced DEF HearInv, WillHear, EventType
(* Steps that change no file and none of the descriptors.                  *)
<1>2. ASSUME UNCHANGED <<table, content, events, fd, loaded>>
      PROVE  HearInv'
  BY <1>2 DEF HearInv, WillHear
<1>3. ASSUME NEW p \in Proc,
             \/ Refused(p) \/ LoadSource(p) \/ MakeTemp(p) \/ EditorSaves(p) \/ EditorEnds(p)
             \/ EditFails(p) \/ CheckTime(p) \/ OpenFails(p) \/ Chown(p)
      PROVE  HearInv'
  BY <1>2, <1>3 DEF Refused, LoadSource, MakeTemp, EditorSaves, EditorEnds, EditFails, CheckTime,
                    OpenFails, Chown, shared, world
<1>4. ASSUME NEW p \in Proc, OpenTable(p)
      PROVE  HearInv'
  <2>1. /\ events' = events /\ loaded' = loaded
        /\ fd' = [fd EXCEPT ![p] = table'] /\ (table # NULL => table' = table)
    BY <1>4 DEF OpenTable, world
  <2>2. fd' = [q \in Proc |-> fd'[q]] /\ fd'[p] = table'
    BY <2>1 DEF HearInv
  <2>3. WillHear'
    BY <2>2 DEF WillHear
  <2> QED BY <2>1, <2>2, <2>3 DEF HearInv
<1>5. ASSUME NEW p \in Proc, WriteTable(p)
      PROVE  HearInv'
  BY <1>5 DEF WriteTable, HearInv, WillHear, world
<1>6. ASSUME NEW p \in Proc, CloseTable(p)
      PROVE  HearInv'
  BY <1>1, <1>6 DEF CloseTable
<1>7. ASSUME NEW p \in Proc, RemoveTable(p)
      PROVE  HearInv'
  BY <1>0, <1>7, Announced DEF RemoveTable, HearInv, world, EventType
<1>8. ASSUME NEW p \in Proc, ReloadTable(p)
      PROVE  HearInv'
  BY <1>8 DEF ReloadTable, HearInv, WillHear, shared, world
<1>9. ASSUME NEW p \in Proc, Crash(p)
      PROVE  HearInv'
  <2>1. fd' = [fd EXCEPT ![p] = NULL] /\ UNCHANGED <<table, content, loaded>>
    BY <1>9 DEF Crash, world
  <2>2. CASE fd[p] = NULL
    BY <1>2, <1>9, <2>1, <2>2 DEF Crash, HearInv
  <2>3. CASE fd[p] # NULL
    BY <1>1, <1>9, <2>1, <2>3 DEF Crash
  <2> QED BY <2>2, <2>3
<1>10. CASE Tick
  BY <1>2, <1>10 DEF Tick, shared
<1>11. CASE HandleEvent
  BY <1>0, <1>11, TailLast DEF HandleEvent, HearInv, WillHear
<1>12. CASE UNCHANGED vars
  BY <1>2, <1>12 DEF vars
<1> QED BY <1>3, <1>4, <1>5, <1>6, <1>7, <1>8, <1>9, <1>10, <1>11, <1>12 DEF Next

(* However many incrontabs write, remove, touch and crash over a user's    *)
(* table at once, the daemon that has seen it all runs what is in the file *)
(* (icd-main.cpp, ProcessMgmtEvents; ict-main.cpp).                        *)
THEOREM DaemonFollowsTheFile == Spec => []DaemonHasTheFile
<1>1. Init => HearInv
  BY HearInit
<1>2. HearInv /\ [Next]_vars => HearInv'
  BY HearStep
<1>3. HearInv => DaemonHasTheFile
  BY DEF HearInv, WillHear, DaemonHasTheFile
<1> QED BY <1>1, <1>2, <1>3, PTL DEF Spec
=============================================================================
