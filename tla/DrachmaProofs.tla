--------------------------- MODULE DrachmaProofs ---------------------------
(***************************************************************************)
(* For every collection of files, wallet and command line.                 *)
(***************************************************************************)
EXTENDS Drachma, RecursionLaws

----------------------------------------------------------------------------
\* The lines of a text file.

\* The loop of parseContent from one line to the next (fileHandler.cpp:58-76).
LEMMA BlockSteps ==
  ASSUME NEW T, NEW s \in Seq(T)
  PROVE  /\ InBlock(s) \in [0 .. Len(s) -> BOOLEAN] /\ ~InBlock(s)[0]
         /\ \A n \in Nat : n < Len(s) =>
              (InBlock(s)[n + 1] <=> IF InBlock(s)[n] THEN s[n + 1].start # "#/"
                                                      ELSE s[n + 1].start = "/#")
<1> DEFINE Opens(i, n) == s[i].start = "/#" /\ \A j \in i + 1 .. n : s[j].start # "#/"
<1>1. \A n \in 0 .. Len(s) : InBlock(s)[n] <=> \E i \in 1 .. n : Opens(i, n)
  BY DEF InBlock
<1>2. InBlock(s) \in [0 .. Len(s) -> BOOLEAN] /\ ~InBlock(s)[0]
  BY DEF InBlock
<1>3. ASSUME NEW n \in Nat, n < Len(s)
      PROVE  InBlock(s)[n + 1] <=> IF InBlock(s)[n] THEN s[n + 1].start # "#/"
                                                    ELSE s[n + 1].start = "/#"
  <2>1. n \in 0 .. Len(s) /\ n + 1 \in 0 .. Len(s)
    BY <1>3
  <2>2. ASSUME NEW i \in 1 .. n PROVE Opens(i, n + 1) <=> Opens(i, n) /\ s[n + 1].start # "#/"
    <3>1. \A j \in Int : j \in i + 1 .. n + 1 <=> j \in i + 1 .. n \/ j = n + 1
      OBVIOUS
    <3> QED
      BY <3>1
  <2>3. Opens(n + 1, n + 1) <=> s[n + 1].start = "/#"
    OBVIOUS
  <2>4. "/#" # "#/"
    OBVIOUS
  <2>5. \A i \in Int : i \in 1 .. n + 1 <=> i \in 1 .. n \/ i = n + 1
    OBVIOUS
  <2> HIDE DEF Opens
  <2> QED
    BY <1>1, <2>1, <2>2, <2>3, <2>4, <2>5
<1> QED
  BY <1>2, <1>3

\* Whether a block is open after a line depends on the lines up to it.
LEMMA BlockOfPrefix ==
  ASSUME NEW T, NEW s \in Seq(T), NEW t \in Seq(T), NEW n \in Nat, n <= Len(s), n <= Len(t),
         \A i \in 1 .. n : s[i] = t[i]
  PROVE  InBlock(s)[n] <=> InBlock(t)[n]
<1> DEFINE Opens(u, i) == u[i].start = "/#" /\ \A j \in i + 1 .. n : u[j].start # "#/"
<1>1. /\ InBlock(s)[n] <=> \E i \in 1 .. n : Opens(s, i)
      /\ InBlock(t)[n] <=> \E i \in 1 .. n : Opens(t, i)
  BY DEF InBlock
<1>2. ASSUME NEW i \in 1 .. n PROVE Opens(s, i) <=> Opens(t, i)
  <2>1. \A j \in i + 1 .. n : j \in 1 .. n
    OBVIOUS
  <2> QED
    BY <2>1
<1> HIDE DEF Opens
<1> QED
  BY <1>1, <1>2

\* Where the i-th line of a text without its k-th line comes from.
Beyond(k, i) == IF i < k THEN i ELSE i + 1

LEMMA RemoveAtIs ==
  ASSUME NEW T, NEW s \in Seq(T), NEW k \in 1 .. Len(s)
  PROVE  /\ RemoveAt(s, k) \in Seq(T) /\ Len(RemoveAt(s, k)) = Len(s) - 1
         /\ \A i \in 1 .. Len(s) - 1 : RemoveAt(s, k)[i] = s[Beyond(k, i)]
<1> DEFINE head == SubSeq(s, 1, k - 1)
           tail == SubSeq(s, k + 1, Len(s))
<1>1. /\ head \in Seq(T) /\ Len(head) = k - 1
      /\ \A i \in 1 .. k - 1 : head[i] = s[i]
  OBVIOUS
<1>2. /\ tail \in Seq(T) /\ Len(tail) = Len(s) - k
      /\ \A i \in 1 .. Len(s) - k : tail[i] = s[k + i]
  OBVIOUS
<1> HIDE DEF head, tail
<1> DEFINE r == head \o tail
<1>3. r \in Seq(T) /\ Len(r) = Len(head) + Len(tail)
  BY <1>1, <1>2, ConcatProperties
<1>4. ASSUME NEW i \in 1 .. Len(head) + Len(tail)
      PROVE  r[i] = IF i <= Len(head) THEN head[i] ELSE tail[i - Len(head)]
  BY <1>1, <1>2, ConcatProperties
<1>5. r = RemoveAt(s, k)
  BY DEF RemoveAt, head, tail
<1> HIDE DEF r
<1>6. Len(s) \in Nat /\ k \in Int
  OBVIOUS
<1>7. ASSUME NEW i \in 1 .. Len(s) - 1 PROVE r[i] = s[Beyond(k, i)]
  <2>1. i \in 1 .. Len(head) + Len(tail)
    BY <1>1, <1>2
  <2>2. r[i] = IF i <= Len(head) THEN head[i] ELSE tail[i - Len(head)]
    BY <1>4, <2>1
  <2>3. CASE i < k
    <3>1. i \in 1 .. k - 1 /\ i <= Len(head)
      BY <1>1, <2>3
    <3> QED
      BY <1>1, <2>2, <2>3, <3>1 DEF Beyond
  <2>4. CASE ~(i < k)
    <3>1. i - Len(head) \in 1 .. Len(s) - k /\ ~(i <= Len(head)) /\ k + (i - Len(head)) = i + 1
      BY <1>1, <2>4
    <3>2. tail[i - Len(head)] = s[i + 1]
      BY <1>2, <3>1
    <3> QED
      BY <2>2, <2>4, <3>1, <3>2 DEF Beyond
  <2> QED
    BY <2>3, <2>4
<1>8. Len(r) = Len(s) - 1
  BY <1>1, <1>2, <1>3, <1>6
<1> QED
  BY <1>3, <1>5, <1>7, <1>8

\* A line of text can be removed: it neither opens nor ends a block.
LEMMA BlockRemove ==
  ASSUME NEW T, NEW s \in Seq(T), NEW k \in 1 .. Len(s), s[k].start = "text"
  PROVE  \A i \in 0 .. Len(s) - 1 : InBlock(RemoveAt(s, k))[i] <=> InBlock(s)[IF i < k THEN i ELSE i + 1]
<1> DEFINE r == RemoveAt(s, k)
           Same == {i \in Nat : i < Len(s) =>
                      (InBlock(r)[i] <=> InBlock(s)[IF i < k THEN i ELSE i + 1])}
<1>1. /\ r \in Seq(T) /\ Len(r) = Len(s) - 1
      /\ \A i \in 1 .. Len(s) - 1 : r[i] = s[Beyond(k, i)]
  BY RemoveAtIs
<1> HIDE DEF r
<1>2. 0 \in Same
  BY <1>1, BlockSteps
<1>3. InBlock(s)[k] <=> InBlock(s)[k - 1]
  <2>1. k - 1 \in Nat /\ k - 1 < Len(s) /\ k - 1 + 1 = k
    OBVIOUS
  <2> QED
    BY <2>1, BlockSteps
<1>4. ASSUME NEW n \in Nat, n \in Same PROVE n + 1 \in Same
  <2> SUFFICES ASSUME n + 1 < Len(s)
               PROVE  InBlock(r)[n + 1] <=> InBlock(s)[IF n + 1 < k THEN n + 1 ELSE n + 2]
    OBVIOUS
  <2>1. InBlock(r)[n] <=> InBlock(s)[IF n < k THEN n ELSE n + 1]
    BY <1>4
  <2>2. r[n + 1] = s[IF n + 1 < k THEN n + 1 ELSE n + 2]
    BY <1>1 DEF Beyond
  <2>3. InBlock(r)[n + 1] <=> IF InBlock(r)[n] THEN r[n + 1].start # "#/" ELSE r[n + 1].start = "/#"
    BY <1>1, BlockSteps
  <2>4. InBlock(s)[n + 1] <=> IF InBlock(s)[n] THEN s[n + 1].start # "#/" ELSE s[n + 1].start = "/#"
    BY BlockSteps
  <2>5. InBlock(s)[n + 2] <=> IF InBlock(s)[n + 1] THEN s[n + 2].start # "#/" ELSE s[n + 2].start = "/#"
    <3>1. n + 1 \in Nat /\ n + 1 + 1 = n + 2
      OBVIOUS
    <3> QED
      BY <3>1, BlockSteps
  <2>6. CASE n + 1 < k
    BY <2>1, <2>2, <2>3, <2>4, <2>6
  <2>7. CASE n + 1 = k
    BY <1>3, <2>1, <2>2, <2>3, <2>5, <2>7
  <2>8. CASE n + 1 > k
    BY <2>1, <2>2, <2>3, <2>5, <2>8
  <2> QED
    BY <2>6, <2>7, <2>8
<1>5. Nat \subseteq Same
  <2> HIDE DEF Same
  <2> QED
    BY <1>2, <1>4, SetInduction
<1> QED
  BY <1>5 DEF r

\* The type of a line, given whether a block is open before it.
LineType(line, in, rules) ==
  IF in \/ line.start \in {"/#", "#/", "#"} THEN "COMMENT"
  ELSE IF line.start = "" THEN "WHITE" ELSE EntryType(line, rules)

LineTypes == {"COMMENT", "WHITE", "PARAMETER", "DATA", "INVALID"}

LEMMA LineTypeType ==
  ASSUME NEW line, NEW in, NEW rules
  PROVE  LineType(line, in, rules) \in LineTypes /\ LineType(line, in, rules) # "UNKNOWN"
  BY DEF LineType, LineTypes, EntryType

ParsedLines(T) == [line : T, type : LineTypes]

ParsedLine(s, i, rules) == [line |-> s[i], type |-> LineType(s[i], InBlock(s)[i - 1], rules)]

LEMMA ParsedIs ==
  ASSUME NEW T, NEW s \in Seq(T), NEW rules
  PROVE  /\ Parsed(s, rules) \in Seq(ParsedLines(T)) /\ Len(Parsed(s, rules)) = Len(s)
         /\ \A i \in 1 .. Len(s) : Parsed(s, rules)[i] = ParsedLine(s, i, rules)
<1> DEFINE p == Parsed(s, rules)
<1>1. DOMAIN s = 1 .. Len(s) /\ Len(s) \in Nat
  OBVIOUS
<1>2. ASSUME NEW i \in 1 .. Len(s)
      PROVE  (IF ContentType(s)[i] = "UNKNOWN" THEN EntryType(s[i], rules) ELSE ContentType(s)[i])
               = LineType(s[i], InBlock(s)[i - 1], rules)
  <2>1. ContentType(s)[i] =
          IF InBlock(s)[i - 1] \/ s[i].start \in {"/#", "#/", "#"} THEN "COMMENT"
          ELSE IF s[i].start = "" THEN "WHITE" ELSE "UNKNOWN"
    BY <1>1 DEF ContentType
  <2> QED
    BY <2>1 DEF LineType
<1>3. p = [i \in 1 .. Len(s) |-> ParsedLine(s, i, rules)]
  BY <1>1, <1>2 DEF Parsed, ParsedLine
<1>4. \A i \in 1 .. Len(s) : ParsedLine(s, i, rules) \in ParsedLines(T)
  BY LineTypeType DEF ParsedLine, ParsedLines
<1> HIDE DEF p
<1>5. p \in [1 .. Len(s) -> ParsedLines(T)]
  BY <1>3, <1>4
<1>6. p \in Seq(ParsedLines(T)) /\ Len(p) = Len(s)
  BY <1>1, <1>5
<1>7. \A i \in 1 .. Len(s) : p[i] = ParsedLine(s, i, rules)
  BY <1>3
<1> QED
  BY <1>6, <1>7 DEF p

\* isFileValid, line by line.
LEMMA ValidIs ==
  ASSUME NEW T, NEW s \in Seq(T), NEW rules
  PROVE  IsFileValid(s, rules)
           <=> \A i \in 1 .. Len(s) : LineType(s[i], InBlock(s)[i - 1], rules) # "INVALID"
<1> DEFINE p == Parsed(s, rules)
<1>1. IsFileValid(s, rules) <=> \A i \in DOMAIN p : p[i].type # "INVALID"
  BY DEF IsFileValid, ToSet
<1>2. p \in Seq(ParsedLines(T)) /\ Len(p) = Len(s)
  BY ParsedIs
<1>3. ASSUME NEW i \in 1 .. Len(s) PROVE p[i].type = LineType(s[i], InBlock(s)[i - 1], rules)
  <2>1. p[i] = ParsedLine(s, i, rules)
    BY ParsedIs
  <2> QED
    BY <2>1 DEF ParsedLine
<1> HIDE DEF p
<1>4. DOMAIN p = 1 .. Len(s)
  BY <1>2
<1> QED
  BY <1>1, <1>3, <1>4

\* Adding a line leaves what comes before it as it is.
LEMMA BlockAppend ==
  ASSUME NEW T, NEW s \in Seq(T), NEW x \in T
  PROVE  /\ \A n \in 0 .. Len(s) : InBlock(Append(s, x))[n] <=> InBlock(s)[n]
         /\ \A i \in 1 .. Len(s) : \A rules :
              ParsedLine(Append(s, x), i, rules) = ParsedLine(s, i, rules)
         /\ \A rules : ParsedLine(Append(s, x), Len(s) + 1, rules) =
              [line |-> x, type |-> LineType(x, InBlock(s)[Len(s)], rules)]
<1> DEFINE t == Append(s, x)
<1>1. t \in Seq(T) /\ Len(t) = Len(s) + 1 /\ t[Len(s) + 1] = x /\ \A i \in 1 .. Len(s) : t[i] = s[i]
  OBVIOUS
<1> HIDE DEF t
<1>2. ASSUME NEW n \in 0 .. Len(s) PROVE InBlock(t)[n] <=> InBlock(s)[n]
  <2>1. n \in Nat /\ n <= Len(s) /\ n <= Len(t) /\ \A i \in 1 .. n : t[i] = s[i]
    BY <1>1
  <2> QED
    BY <1>1, <2>1, BlockOfPrefix
<1>3. ASSUME NEW i \in 1 .. Len(s), NEW rules PROVE ParsedLine(t, i, rules) = ParsedLine(s, i, rules)
  <2>1. i - 1 \in 0 .. Len(s)
    OBVIOUS
  <2> QED
    BY <1>1, <1>2, <2>1 DEF ParsedLine, LineType
<1>4. ASSUME NEW rules
      PROVE  ParsedLine(t, Len(s) + 1, rules) = [line |-> x, type |-> LineType(x, InBlock(s)[Len(s)], rules)]
  <2>1. Len(s) + 1 - 1 = Len(s) /\ Len(s) \in 0 .. Len(s)
    OBVIOUS
  <2>2. InBlock(t)[Len(s)] <=> InBlock(s)[Len(s)]
    BY <1>2, <2>1
  <2>3. LineType(x, InBlock(t)[Len(s)], rules) = LineType(x, InBlock(s)[Len(s)], rules)
    BY <2>2 DEF LineType
  <2>4. ParsedLine(t, Len(s) + 1, rules) = [line |-> x, type |-> LineType(x, InBlock(t)[Len(s)], rules)]
    BY <1>1, <2>1 DEF ParsedLine
  <2> QED
    BY <2>3, <2>4
<1> QED
  BY <1>2, <1>3, <1>4 DEF t

LEMMA ParsedAppend ==
  ASSUME NEW T, NEW s \in Seq(T), NEW x \in T, NEW rules
  PROVE  Parsed(Append(s, x), rules) =
           Append(Parsed(s, rules), [line |-> x, type |-> LineType(x, InBlock(s)[Len(s)], rules)])
<1> DEFINE t == Append(s, x)
           e == [line |-> x, type |-> LineType(x, InBlock(s)[Len(s)], rules)]
           p == Parsed(s, rules)
           q == Parsed(t, rules)
<1>1. t \in Seq(T) /\ Len(t) = Len(s) + 1 /\ Len(s) \in Nat
  OBVIOUS
<1>2. e \in ParsedLines(T)
  BY LineTypeType DEF ParsedLines
<1>3. /\ \A i \in 1 .. Len(s) : ParsedLine(t, i, rules) = ParsedLine(s, i, rules)
      /\ ParsedLine(t, Len(s) + 1, rules) = e
  BY BlockAppend
<1> HIDE DEF t, e
<1>4. /\ p \in Seq(ParsedLines(T)) /\ Len(p) = Len(s)
      /\ \A i \in 1 .. Len(s) : p[i] = ParsedLine(s, i, rules)
  BY ParsedIs
<1>5. /\ q \in Seq(ParsedLines(T)) /\ Len(q) = Len(t)
      /\ \A i \in 1 .. Len(t) : q[i] = ParsedLine(t, i, rules)
  BY <1>1, ParsedIs
<1> HIDE DEF p, q
<1>6. /\ Append(p, e) \in Seq(ParsedLines(T)) /\ Len(Append(p, e)) = Len(s) + 1
      /\ Append(p, e)[Len(s) + 1] = e /\ \A i \in 1 .. Len(s) : Append(p, e)[i] = p[i]
  BY <1>2, <1>4
<1>7. ASSUME NEW i \in 1 .. Len(q) PROVE q[i] = Append(p, e)[i]
  <2>1. i \in 1 .. Len(t)
    BY <1>5
  <2>2. i \in 1 .. Len(s) \/ i = Len(s) + 1
    BY <1>1, <2>1
  <2> QED
    BY <1>3, <1>4, <1>5, <1>6, <2>1, <2>2
<1>8. q = Append(p, e)
  BY <1>1, <1>5, <1>6, <1>7, SeqEqual
<1> QED
  BY <1>8 DEF p, q, t, e

LEMMA ValidAppend ==
  ASSUME NEW T, NEW s \in Seq(T), NEW x \in T, NEW rules, IsFileValid(s, rules),
         LineType(x, InBlock(s)[Len(s)], rules) # "INVALID"
  PROVE  Append(s, x) \in Seq(T) /\ IsFileValid(Append(s, x), rules)
<1> DEFINE t == Append(s, x)
<1>1. t \in Seq(T) /\ Len(t) = Len(s) + 1
  OBVIOUS
<1>2. ASSUME NEW i \in 1 .. Len(s) PROVE ParsedLine(t, i, rules).type # "INVALID"
  <2>1. ParsedLine(t, i, rules) = ParsedLine(s, i, rules)
    BY BlockAppend
  <2>2. LineType(s[i], InBlock(s)[i - 1], rules) # "INVALID"
    BY ValidIs
  <2> QED
    BY <2>1, <2>2 DEF ParsedLine
<1>3. ParsedLine(t, Len(s) + 1, rules).type # "INVALID"
  <2>1. ParsedLine(t, Len(s) + 1, rules) = [line |-> x, type |-> LineType(x, InBlock(s)[Len(s)], rules)]
    BY BlockAppend
  <2> QED
    BY <2>1
<1> HIDE DEF t
<1>4. \A i \in 1 .. Len(t) : i \in 1 .. Len(s) \/ i = Len(s) + 1
  BY <1>1
<1>5. \A i \in 1 .. Len(t) : LineType(t[i], InBlock(t)[i - 1], rules) # "INVALID"
  BY <1>2, <1>3, <1>4 DEF ParsedLine
<1>6. IsFileValid(t, rules)
  BY <1>1, <1>5, ValidIs
<1> QED
  BY <1>1, <1>6 DEF t

----------------------------------------------------------------------------
\* The files that a text lists.

LEMMA ToSetAppend ==
  ASSUME NEW T, NEW s \in Seq(T), NEW x \in T
  PROVE  ToSet(Append(s, x)) = ToSet(s) \cup {x}
<1>1. /\ DOMAIN s = 1 .. Len(s) /\ DOMAIN Append(s, x) = 1 .. Len(s) + 1 /\ Len(s) \in Nat
      /\ Append(s, x)[Len(s) + 1] = x /\ \A i \in 1 .. Len(s) : Append(s, x)[i] = s[i]
  OBVIOUS
<1>2. \A i \in Int : i \in 1 .. Len(s) + 1 <=> i \in 1 .. Len(s) \/ i = Len(s) + 1
  BY <1>1
<1>3. ASSUME NEW y
      PROVE  (\E i \in 1 .. Len(s) + 1 : Append(s, x)[i] = y) <=> (\E i \in 1 .. Len(s) : s[i] = y) \/ y = x
  BY <1>1, <1>2
<1> QED
  BY <1>1, <1>3 DEF ToSet

IsParam(p, key) == p.type = "PARAMETER" /\ p.line.key = key

LEMMA ParamsAppend ==
  ASSUME NEW T, NEW s \in Seq(T), NEW x \in T, NEW rules, NEW key,
         NEW e, e = [line |-> x, type |-> LineType(x, InBlock(s)[Len(s)], rules)]
  PROVE  /\ ParamsWithKey(s, rules, key) \in Seq(ParsedLines(T))
         /\ ParamsWithKey(Append(s, x), rules, key) =
              IF IsParam(e, key) THEN Append(ParamsWithKey(s, rules, key), e)
                                 ELSE ParamsWithKey(s, rules, key)
<1> DEFINE t == Append(s, x)
           p == Parsed(s, rules)
           q == Parsed(t, rules)
           S == {y \in ToSet(p) : IsParam(y, key)}
           R == {y \in ToSet(q) : IsParam(y, key)}
<1>1. p \in Seq(ParsedLines(T)) /\ e \in ParsedLines(T)
  BY ParsedIs, LineTypeType DEF ParsedLines
<1>2. q = Append(p, e)
  BY ParsedAppend
<1>3. ParamsWithKey(s, rules, key) = Kept(p, S) /\ ParamsWithKey(t, rules, key) = Kept(q, R)
  BY DEF ParamsWithKey, IsParam
<1> HIDE DEF t, p, q
<1>4. ASSUME NEW i \in 1 .. Len(p) PROVE p[i] \in R <=> p[i] \in S
  <2>1. i \in DOMAIN p /\ i \in DOMAIN q /\ q[i] = p[i]
    BY <1>1, <1>2
  <2> QED
    BY <2>1 DEF ToSet
<1>5. e \in R <=> IsParam(e, key)
  <2>1. Len(p) + 1 \in DOMAIN q /\ q[Len(p) + 1] = e
    BY <1>1, <1>2
  <2> QED
    BY <2>1 DEF ToSet
<1> HIDE DEF S, R
<1>6. Kept(q, R) = IF e \in R THEN Append(Kept(p, R), e) ELSE Kept(p, R)
  BY <1>1, <1>2, KeptAppend
<1>7. Kept(p, R) = Kept(p, S)
  BY <1>1, <1>4, KeptCongruence
<1>8. Kept(p, S) \in Seq(ParsedLines(T))
  BY <1>1, KeptType
<1> QED
  BY <1>3, <1>5, <1>6, <1>7, <1>8 DEF t

\* A line that is added lists at most its own file, as the last one.
LEMMA ListedAppend ==
  ASSUME NEW T, NEW s \in Seq(T), NEW x \in T, NEW kind
  PROVE  Listed(Append(s, x), kind) =
           IF LineType(x, InBlock(s)[Len(s)], WalletRules) = "PARAMETER" /\ x.key = kind
           THEN Append(Listed(s, kind), x.arg) ELSE Listed(s, kind)
<1> DEFINE e == [line |-> x, type |-> LineType(x, InBlock(s)[Len(s)], WalletRules)]
           p == ParamsWithKey(s, WalletRules, kind)
           q == ParamsWithKey(Append(s, x), WalletRules, kind)
<1>1. /\ p \in Seq(ParsedLines(T))
      /\ q = IF IsParam(e, kind) THEN Append(p, e) ELSE p
  BY ParamsAppend
<1>2. /\ Listed(s, kind) = [n \in DOMAIN p |-> p[n].line.arg]
      /\ Listed(Append(s, x), kind) = [n \in DOMAIN q |-> q[n].line.arg]
  BY DEF Listed, ParamArgs
<1>3. IsParam(e, kind) <=> LineType(x, InBlock(s)[Len(s)], WalletRules) = "PARAMETER" /\ x.key = kind
  BY DEF IsParam
<1>4. e.line.arg = x.arg
  OBVIOUS
<1> HIDE DEF e, p, q
<1>5. CASE IsParam(e, kind)
  <2> DEFINE old == [n \in DOMAIN p |-> p[n].line.arg]
             new == [n \in DOMAIN q |-> q[n].line.arg]
             args == {y.line.arg : y \in ParsedLines(T) \cup {e}}
  <2>1. DOMAIN p = 1 .. Len(p) /\ Len(p) \in Nat /\ q = Append(p, e)
    BY <1>1, <1>5
  <2>2. DOMAIN q = 1 .. Len(p) + 1 /\ q[Len(p) + 1] = e /\ \A n \in 1 .. Len(p) : q[n] = p[n]
    BY <1>1, <2>1
  <2>3. old \in [1 .. Len(p) -> args]
    BY <1>1, <2>1
  <2>4. old \in Seq(args) /\ Len(old) = Len(p)
    BY <2>1, <2>3
  <2>5. new = Append(old, x.arg)
    <3>1. \A n \in 1 .. Len(p) : new[n] = old[n]
      BY <2>1, <2>2
    <3>2. new[Len(p) + 1] = x.arg
      BY <1>4, <2>1, <2>2
    <3>3. x.arg \in args
      BY <1>4
    <3>4. new \in [1 .. Len(p) + 1 -> args]
      <4>1. \A n \in 1 .. Len(p) + 1 : n \in 1 .. Len(p) \/ n = Len(p) + 1
        BY <2>1
      <4>2. \A n \in 1 .. Len(p) + 1 : new[n] \in args
        BY <2>3, <3>1, <3>2, <3>3, <4>1
      <4> QED
        BY <2>2, <4>2
    <3> HIDE DEF old, new, args
    <3>5. new \in Seq(args) /\ Len(new) = Len(p) + 1
      BY <2>1, <3>4
    <3>6. /\ Append(old, x.arg) \in Seq(args) /\ Len(Append(old, x.arg)) = Len(p) + 1
          /\ Append(old, x.arg)[Len(p) + 1] = x.arg /\ \A n \in 1 .. Len(p) : Append(old, x.arg)[n] = old[n]
      BY <2>4, <3>3
    <3>7. \A n \in 1 .. Len(p) + 1 : n \in 1 .. Len(p) \/ n = Len(p) + 1
      BY <2>1
    <3>8. \A n \in 1 .. Len(new) : new[n] = Append(old, x.arg)[n]
      BY <3>1, <3>2, <3>5, <3>6, <3>7
    <3> QED
      BY <3>5, <3>6, <3>8, SeqEqual
  <2> QED
    BY <1>2, <1>3, <1>5, <2>5
<1>6. CASE ~IsParam(e, kind)
  BY <1>1, <1>2, <1>3, <1>6
<1> QED
  BY <1>5, <1>6

\* An entry is in force outside of comments only.
LEMMA EntryFacts ==
  ASSUME NEW kind \in Kinds, NEW f \in FileNames, NEW in
  PROVE  /\ Entry(kind, f) \in Entries /\ Entry(kind, f) \in WalletLines
         /\ Entry(kind, f).start = "text" /\ Entry(kind, f).key = kind /\ Entry(kind, f).arg = f
         /\ LineType(Entry(kind, f), in, WalletRules) = IF in THEN "COMMENT" ELSE "PARAMETER"
<1> DEFINE e == Entry(kind, f)
<1>1. e \in Entries /\ e \in WalletLines
  <2>1. e \in Entries
    BY DEF Entries
  <2> QED
    BY <2>1 DEF WalletLines
<1>2. e.start = "text" /\ e.key = kind /\ e.arg = f /\ e.colon = TRUE
  BY DEF Entry, Param
<1> HIDE DEF e
<1>3. f # NoArg
  BY FileNamesAssumption
<1>4. WalletRules.params = Kinds \cup {"name"}
  BY DEF WalletRules, Rules
<1>5. EntryType(e, WalletRules) = "PARAMETER"
  BY <1>2, <1>3, <1>4 DEF EntryType
<1>6. LineType(e, in, WalletRules) = IF in THEN "COMMENT" ELSE "PARAMETER"
  BY <1>2, <1>5 DEF LineType
<1> QED
  BY <1>1, <1>2, <1>6 DEF e

\* Nothing else in a wallet gives a file.
LEMMA ParamIsEntry ==
  ASSUME NEW x \in WalletLines, NEW in, x.key \in Kinds, LineType(x, in, WalletRules) = "PARAMETER"
  PROVE  ~in /\ x.arg \in FileNames /\ x = Entry(x.key, x.arg)
<1>1. ~in
  BY DEF LineType
<1>2. x.colon => x.arg # NoArg
  BY DEF LineType, EntryType
<1>3. CASE x \in Entries
  BY <1>1, <1>3 DEF Entries, Entry, Param
<1>4. CASE \E kind \in Kinds : x = Param(kind, NoArg)
  BY <1>2, <1>4 DEF Param
<1>5. CASE x \in [start : Starts, key : {"name", ""}, level : {0}, colon : BOOLEAN, arg : {NoArg, Word}]
  BY <1>5 DEF Kinds
<1> QED
  BY <1>3, <1>4, <1>5 DEF WalletLines

\* A blank line is neither an entry nor a comment.
LEMMA BlankFacts ==
  ASSUME NEW in
  PROVE  /\ Blank \in WalletLines /\ Blank \notin Entries
         /\ Blank.start = "" /\ LineType(Blank, in, WalletRules) \in {"COMMENT", "WHITE"}
<1> DEFINE b == Blank
<1>1. b = [start |-> "", key |-> "", level |-> 0, colon |-> FALSE, arg |-> NoArg]
  BY DEF Blank, Tagged
<1>2. b.start = ""
  BY <1>1
<1>3. b \in WalletLines
  BY <1>1 DEF WalletLines, Starts
<1> HIDE DEF b
<1>4. b \notin Entries
  <2> SUFFICES ASSUME NEW kind \in Kinds, NEW f \in FileNames, b = Entry(kind, f) PROVE FALSE
    BY DEF Entries
  <2> QED
    BY <1>2, EntryFacts
<1>5. LineType(b, in, WalletRules) \in {"COMMENT", "WHITE"}
  BY <1>2 DEF LineType
<1> QED
  BY <1>2, <1>3, <1>4, <1>5 DEF b

LEMMA ListedEmpty ==
  ASSUME NEW kind
  PROVE  Listed(<<>>, kind) = <<>>
<1>1. Parsed(<<>>, WalletRules) = <<>>
  <2>1. <<>> \in Seq({}) /\ Len(<<>>) = 0
    OBVIOUS
  <2>2. Parsed(<<>>, WalletRules) \in Seq(ParsedLines({})) /\ Len(Parsed(<<>>, WalletRules)) = 0
    BY <2>1, ParsedIs
  <2> QED
    BY <2>2, EmptySeq
<1>2. ParamsWithKey(<<>>, WalletRules, kind) = <<>>
  BY <1>1, KeptEmpty DEF ParamsWithKey
<1> QED
  BY <1>2 DEF Listed, ParamArgs

\* The line n of a text lists the file f.
Lists(s, n, kind, f) == s[n] = Entry(kind, f) /\ ~InBlock(s)[n - 1]

\* The files listed are those of the entries in force.
LEMMA ListedIs ==
  ASSUME NEW s \in Seq(WalletLines), NEW kind \in Kinds
  PROVE  /\ Listed(s, kind) \in Seq(FileNames)
         /\ \A f \in FileNames :
              f \in ToSet(Listed(s, kind)) <=> \E n \in 1 .. Len(s) : Lists(s, n, kind, f)
<1> DEFINE Right(u) ==
             /\ Listed(u, kind) \in Seq(FileNames)
             /\ \A f \in FileNames :
                  f \in ToSet(Listed(u, kind)) <=> \E n \in 1 .. Len(u) : Lists(u, n, kind, f)
           Q == {u \in Seq(WalletLines) : Right(u)}
<1>1. <<>> \in Q
  <2>1. <<>> \in Seq(WalletLines) /\ <<>> \in Seq(FileNames) /\ ToSet(<<>>) = {} /\ 1 .. Len(<<>>) = {}
    BY DEF ToSet
  <2> QED
    BY <2>1, ListedEmpty
<1>2. ASSUME NEW u \in Seq(WalletLines), NEW x \in WalletLines, Right(u) PROVE Right(Append(u, x))
  <2> DEFINE t == Append(u, x)
             new == LineType(x, InBlock(u)[Len(u)], WalletRules) = "PARAMETER" /\ x.key = kind
  <2>1. Listed(t, kind) = IF new THEN Append(Listed(u, kind), x.arg) ELSE Listed(u, kind)
    BY ListedAppend
  <2>2. Len(t) = Len(u) + 1 /\ t[Len(u) + 1] = x /\ \A n \in 1 .. Len(u) : t[n] = u[n]
    OBVIOUS
  <2>3. new => x.arg \in FileNames /\ x = Entry(kind, x.arg) /\ ~InBlock(u)[Len(u)]
    BY ParamIsEntry
  <2>4. ASSUME NEW f \in FileNames
        PROVE  Lists(t, Len(u) + 1, kind, f) <=> new /\ x.arg = f
    <3>1. InBlock(t)[Len(u)] <=> InBlock(u)[Len(u)]
      BY BlockAppend
    <3>2. Lists(t, Len(u) + 1, kind, f) <=> x = Entry(kind, f) /\ ~InBlock(u)[Len(u)]
      BY <2>2, <3>1 DEF Lists
    <3>3. x = Entry(kind, f) /\ ~InBlock(u)[Len(u)] => new /\ x.arg = f
      BY EntryFacts
    <3> QED
      BY <2>3, <3>2, <3>3
  <2>5. ASSUME NEW f \in FileNames, NEW n \in 1 .. Len(u)
        PROVE  Lists(t, n, kind, f) <=> Lists(u, n, kind, f)
    <3>1. n - 1 \in 0 .. Len(u)
      OBVIOUS
    <3>2. InBlock(t)[n - 1] <=> InBlock(u)[n - 1]
      BY <3>1, BlockAppend
    <3> QED
      BY <2>2, <3>2 DEF Lists
  <2> HIDE DEF t
  <2>6. ASSUME NEW f \in FileNames
        PROVE  (\E n \in 1 .. Len(t) : Lists(t, n, kind, f))
                 <=> (\E n \in 1 .. Len(u) : Lists(u, n, kind, f)) \/ (new /\ x.arg = f)
    <3>1. \A n \in Int : n \in 1 .. Len(t) <=> n \in 1 .. Len(u) \/ n = Len(u) + 1
      BY <2>2
    <3> HIDE DEF new
    <3> QED
      BY <2>4, <2>5, <3>1
  <2> HIDE DEF new
  <2>7. Listed(t, kind) \in Seq(FileNames)
    BY <1>2, <2>1, <2>3
  <2>8. ASSUME NEW f \in FileNames
        PROVE  f \in ToSet(Listed(t, kind)) <=> f \in ToSet(Listed(u, kind)) \/ (new /\ x.arg = f)
    <3>1. CASE new
      <4>1. ToSet(Append(Listed(u, kind), x.arg)) = ToSet(Listed(u, kind)) \cup {x.arg}
        BY <1>2, <2>3, <3>1, ToSetAppend
      <4> QED
        BY <2>1, <3>1, <4>1
    <3> QED
      BY <2>1, <3>1
  <2> QED
    BY <1>2, <2>6, <2>7, <2>8 DEF t
<1>3. ASSUME NEW u \in Seq(WalletLines), NEW x \in WalletLines, u \in Q PROVE Append(u, x) \in Q
  BY <1>2, <1>3
<1>4. IsSeqInductive(WalletLines, Q)
  <2> HIDE DEF Right
  <2> QED
    BY <1>1, <1>3 DEF IsSeqInductive
<1>5. s \in Q
  <2> HIDE DEF Q
  <2> QED
    BY <1>4, SeqInduction
<1> QED
  BY <1>5

----------------------------------------------------------------------------
\* What the constructor of wallet makes of the files.

EntryErrors == {"user error", "exception"}

LEMMA EntryErrorType ==
  ASSUME NEW kind \in Kinds, NEW f \in FileNames, disk \in [FileNames -> Contents \cup {Absent}]
  PROVE  EntryError(kind, f) \in EntryErrors \cup {"none"}
<1>1. CASE disk[f] = Absent
  BY <1>1 DEF EntryError, EntryErrors
<1>2. CASE disk[f] # Absent
  <2>1. disk[f] \in Contents
    BY <1>2
  <2>2. /\ MemoryError(LinesOf[disk[f]]) \in EntryErrors \cup {"none"}
        /\ DecodeError(DocumentOf[disk[f]]) \in EntryErrors \cup {"none"}
    BY DEF MemoryError, DecodeError, EntryErrors
  <2>3. ContentError[kind][disk[f]] =
          CASE kind = "m" -> MemoryError(LinesOf[disk[f]])
            [] kind = "a" -> DecodeError(DocumentOf[disk[f]])
            [] kind = "t" -> IF IsGraph[disk[f]] THEN "none" ELSE "exception"
    BY <2>1 DEF ContentError
  <2>4. ContentError[kind][disk[f]] \in EntryErrors \cup {"none"}
    <3>1. CASE kind = "m"
      BY <2>2, <2>3, <3>1
    <3>2. CASE kind = "a"
      BY <2>2, <2>3, <3>2
    <3>3. CASE kind = "t"
      BY <2>3, <3>3 DEF EntryErrors
    <3> QED
      BY <3>1, <3>2, <3>3 DEF Kinds
  <2> QED
    BY <1>2, <2>4 DEF EntryError
<1> QED
  BY <1>1, <1>2

LEMMA ErrorsOfIs ==
  ASSUME NEW kind \in Kinds, disk \in [FileNames -> Contents \cup {Absent}],
         wallet_file \in Seq(WalletLines)
  PROVE  /\ ErrorsOf(kind) \in Seq(EntryErrors)
         /\ ErrorsOf(kind) = <<>> =>
              \A f \in ToSet(Listed(wallet_file, kind)) : EntryError(kind, f) = "none"
<1> DEFINE files == Listed(wallet_file, kind)
           errors == [n \in DOMAIN files |-> EntryError(kind, files[n])]
           T == EntryErrors \cup {"none"}
<1>1. files \in Seq(FileNames) /\ DOMAIN files = 1 .. Len(files) /\ Len(files) \in Nat
  BY ListedIs
<1>2. ErrorsOf(kind) = Kept(errors, EntryErrors)
  BY DEF ErrorsOf, EntryErrors
<1>3. ToSet(files) = {files[n] : n \in 1 .. Len(files)}
  BY <1>1 DEF ToSet
<1> HIDE DEF files
<1>4. \A n \in 1 .. Len(files) : EntryError(kind, files[n]) \in T
  BY <1>1, EntryErrorType
<1>5. errors \in [1 .. Len(files) -> T]
  BY <1>1, <1>4
<1>6. errors \in Seq(T) /\ Len(errors) = Len(files)
  BY <1>1, <1>5
<1>7. \A n \in 1 .. Len(files) : errors[n] = EntryError(kind, files[n])
  BY <1>1
<1> HIDE DEF errors, T
<1>8. Kept(errors, EntryErrors) \in Seq(T \cap EntryErrors)
  BY <1>6, KeptElements
<1>9. T \cap EntryErrors = EntryErrors
  BY DEF T
<1>10. ASSUME Kept(errors, EntryErrors) = <<>>, NEW n \in 1 .. Len(files)
       PROVE  EntryError(kind, files[n]) = "none"
  <2> DEFINE e == errors[n]
  <2>1. \E i \in 1 .. Len(errors) : errors[i] = e
    BY <1>6
  <2> HIDE DEF e
  <2>2. ~\E i \in 1 .. Len(Kept(errors, EntryErrors)) : Kept(errors, EntryErrors)[i] = e
    BY <1>10
  <2>3. e \notin EntryErrors
    BY <1>6, <2>1, <2>2, KeptRange
  <2> QED
    BY <1>4, <1>7, <2>3 DEF T, e
<1> QED
  BY <1>2, <1>3, <1>8, <1>9, <1>10 DEF files

\* The constructor succeeds only on a wallet it can read, all of whose files load.
LEMMA LoadErrorIs ==
  ASSUME disk \in [FileNames -> Contents \cup {Absent}], wallet_file \in Seq(WalletLines) \cup {Absent}
  PROVE  /\ LoadError \in EntryErrors \cup {"none"}
         /\ LoadError = "none" =>
              /\ wallet_file \in Seq(WalletLines) /\ wallet_file # Absent
              /\ IsFileValid(wallet_file, WalletRules)
              /\ \A kind \in Kinds : \A f \in ToSet(Listed(wallet_file, kind)) :
                   EntryError(kind, f) = "none"
<1>1. CASE wallet_file = Absent \/ ~IsFileValid(wallet_file, WalletRules)
  BY <1>1 DEF LoadError, EntryErrors
<1>2. CASE wallet_file # Absent /\ IsFileValid(wallet_file, WalletRules)
  <2> DEFINE a == ErrorsOf("a")
             m == ErrorsOf("m")
             t == ErrorsOf("t")
  <2>1. wallet_file \in Seq(WalletLines)
    BY <1>2
  <2>2. a \in Seq(EntryErrors) /\ m \in Seq(EntryErrors) /\ t \in Seq(EntryErrors)
    BY <2>1, ErrorsOfIs DEF Kinds
  <2>3. LoadError = Head(a \o m \o t \o <<"none">>)
    BY <1>2 DEF LoadError
  <2>4. ASSUME a = <<>>, m = <<>>, t = <<>>
        PROVE  \A kind \in Kinds : \A f \in ToSet(Listed(wallet_file, kind)) : EntryError(kind, f) = "none"
    BY <2>1, <2>4, ErrorsOfIs DEF Kinds
  <2> HIDE DEF a, m, t
  <2> DEFINE all == a \o m \o t
  <2>5. all \in Seq(EntryErrors)
    BY <2>2
  <2>6. all = <<>> => a = <<>> /\ m = <<>> /\ t = <<>>
    BY <2>2
  <2> HIDE DEF all
  <2>7. Head(all \o <<"none">>) = IF all = <<>> THEN "none" ELSE all[1]
    BY <2>5
  <2>8. all # <<>> => all[1] \in EntryErrors
    BY <2>5
  <2>9. "none" \notin EntryErrors
    BY DEF EntryErrors
  <2>10. LoadError = Head(all \o <<"none">>)
    BY <2>3 DEF all
  <2> QED
    BY <1>2, <2>1, <2>4, <2>6, <2>7, <2>8, <2>9, <2>10
<1> QED
  BY <1>1, <1>2

----------------------------------------------------------------------------
\* Type correctness, with what a command relies on at each stage.

LEMMA FindIs ==
  ASSUME NEW T, NEW s \in Seq(T), NEW x, NEW k, k = FindInFile(s, x)
  PROVE  /\ k = 0 => \A i \in 1 .. Len(s) : s[i] # x
         /\ k # 0 => k \in 1 .. Len(s) /\ s[k] = x /\ \A i \in 1 .. Len(s) : s[i] = x => k <= i
<1> DEFINE found == {i \in DOMAIN s : s[i] = x}
           size == [i \in found |-> i]
<1>1. DOMAIN s = 1 .. Len(s) /\ Len(s) \in Nat
  OBVIOUS
<1>2. k = IF found = {} THEN 0 ELSE CHOOSE i \in found : \A j \in found : i <= j
  BY DEF FindInFile
<1>3. CASE found = {}
  BY <1>1, <1>2, <1>3
<1>4. CASE found # {}
  <2>1. size \in [found -> Nat]
    BY <1>1
  <2> HIDE DEF found
  <2>2. \E i \in found : \A j \in found : size[i] <= size[j]
    <3> HIDE DEF size
    <3> QED
      BY <1>4, <2>1, MinimumExists
  <2>3. \E i \in found : \A j \in found : i <= j
    BY <2>2
  <2>4. k \in found /\ \A j \in found : k <= j
    BY <1>2, <1>4, <2>3
  <2> USE DEF found
  <2> QED
    BY <1>1, <2>4
<1> QED
  BY <1>3, <1>4

\* A loaded wallet can be read, and the lists are what it says.
Loaded ==
  pc = "loaded" =>
    /\ wallet_file # Absent /\ file_body = wallet_file /\ IsFileValid(wallet_file, WalletRules)
    /\ \A kind \in Kinds : Names(kind) = Listed(wallet_file, kind)

\* An entry is added to a wallet that can be read.
Appending ==
  pc = "appending" =>
    /\ wallet_file # Absent /\ IsFileValid(wallet_file, WalletRules)
    /\ ActiveSwitch(command.switches) \in Kinds /\ command.file \in FileNames

\* Of a wallet that can be read all lines but the one to remove are written back,
\* up to the loop's index (fileHandler.cpp:196-198).
Rewriting ==
  pc = "rewriting" =>
    LET k == FindInFile(file_body, TheEntry(command))
    IN  /\ wallet_file # Absent /\ IsFileValid(file_body, WalletRules)
        /\ ActiveSwitch(command.switches) \in Kinds /\ command.file \in FileNames
        /\ k # 0 /\ next_line # 0
        /\ Len(wallet_file) = IF next_line <= k THEN next_line - 1 ELSE next_line - 2
        /\ \A i \in 1 .. Len(wallet_file) : wallet_file[i] = file_body[Beyond(k, i)]

Stages == Loaded /\ Appending /\ Rewriting /\ (pc # "rewriting" => next_line = 0)

LEMMA OperationIs ==
  ASSUME NEW c \in Commands, Operation(c.switches) \in {"add", "remove"}, c.file # NoFile
  PROVE  /\ ActiveSwitch(c.switches) \in Kinds /\ c.file \in FileNames
         /\ TheEntry(c) = Entry(ActiveSwitch(c.switches), c.file)
<1>1. ActiveSwitch(c.switches) \in Kinds
  BY DEF Operation
<1>2. c.file \in FileNames
  BY CommandsAssumption
<1> QED
  BY <1>1, <1>2 DEF TheEntry

\* However the process ends, nothing of it is left but the file.
LEMMA EndTyped ==
  ASSUME disk' \in [FileNames -> Contents \cup {Absent}], edited' \subseteq Entries,
         wallet_file' \in Seq(WalletLines) \cup {Absent}, at_line_start' \in BOOLEAN,
         NEW r \in Outcomes, End(r)
  PROVE  TypeOK' /\ Stages'
<1>1. /\ pc' = "ended" /\ command' = NoCommand /\ next_line' = 0
      /\ file_body' = <<>> /\ outcome' = r
  BY DEF End, Forget
<1>2. <<>> \in Seq(WalletLines) /\ next_line' \in 0 .. Len(file_body') + 1
  BY <1>1
<1> QED
  BY <1>1, <1>2 DEF TypeOK, Stages, Loaded, Appending, Rewriting

LEMMA LoadTyped ==
  ASSUME TypeOK, LoadError = "none", Load
  PROVE  /\ file_body' \in Seq(WalletLines)
         /\ \A kind \in Kinds : Names(kind)' = Listed(wallet_file, kind)
<1>1. /\ wallet_file \in Seq(WalletLines)
      /\ \A kind \in Kinds : Listed(wallet_file, kind) \in Seq(FileNames)
  BY LoadErrorIs, ListedIs DEF TypeOK
<1>2. /\ "m" \in Kinds /\ "a" \in Kinds /\ "t" \in Kinds
      /\ \A kind \in Kinds : kind = "m" \/ kind = "a" \/ kind = "t"
  BY DEF Kinds
<1> DEFINE mem == Listed(wallet_file, "m")
           app == Listed(wallet_file, "a")
<1>3. /\ memories' = [n \in DOMAIN mem |-> [file |-> mem[n], unit |-> Hierarchy[disk[mem[n]]]]]
      /\ task_graphs' = Listed(wallet_file, "t") /\ file_body' = wallet_file
  BY DEF Load
<1>4. PICK garbage \in GarbageSpeeds :
        applications' = [n \in DOMAIN app |-> [file |-> app[n], app |-> Decoded[disk[app[n]]][garbage]]]
  BY DEF Load
<1>5. mem \in Seq(FileNames) /\ app \in Seq(FileNames)
  BY <1>1, <1>2
<1> HIDE DEF mem, app
<1>6. Names("m")' = mem
  <2>1. Names("m")' = [n \in DOMAIN memories' |-> memories'[n].file]
    BY DEF Names
  <2>2. Names("m")' = [n \in DOMAIN mem |-> mem[n]]
    BY <1>3, <2>1
  <2> QED
    BY <1>5, <2>2
<1>7. Names("a")' = app
  <2>1. Names("a")' = [n \in DOMAIN applications' |-> applications'[n].file]
    BY DEF Names
  <2>2. Names("a")' = [n \in DOMAIN app |-> app[n]]
    BY <1>4, <2>1
  <2> QED
    BY <1>5, <2>2
<1>8. Names("t")' = Listed(wallet_file, "t")
  BY <1>3 DEF Names
<1> QED
  BY <1>1, <1>2, <1>3, <1>6, <1>7, <1>8 DEF mem, app

LEMMA InitTyped == Init => TypeOK /\ Stages
<1> SUFFICES ASSUME Init PROVE TypeOK /\ Stages
  OBVIOUS
<1>1. disk \in [FileNames -> Contents \cup {Absent}]
  BY DiskAssumption DEF Init
<1>2. wallet_file \in Seq(WalletLines) \cup {Absent} /\ at_line_start \in BOOLEAN
  BY WalletsAssumption DEF Init
<1>3. file_body \in Seq(WalletLines) /\ next_line \in 0 .. Len(file_body) + 1
  <2>1. file_body = <<>> /\ next_line = 0 /\ <<>> \in Seq(WalletLines)
    BY DEF Init
  <2> QED
    BY <2>1
<1>4. pc = "none" /\ command = NoCommand /\ outcome = "none" /\ next_line = 0 /\ edited \subseteq Entries
  BY DEF Init
<1> QED
  BY <1>1, <1>2, <1>3, <1>4 DEF TypeOK, Stages, Loaded, Appending, Rewriting, Outcomes

LEMMA InvokeTyped ==
  ASSUME TypeOK, Stages, Invoke
  PROVE  TypeOK' /\ Stages'
<1>1. UNCHANGED <<disk, wallet_file, at_line_start, edited>> /\ pc = "none"
  BY DEF Invoke, fileVars, historyVars
<1>2. CASE LoadError = "none"
  <2>1. Load /\ pc' = "loaded" /\ UNCHANGED <<command, next_line, outcome, device>>
    BY <1>2 DEF Invoke
  <2>2. /\ wallet_file # Absent /\ IsFileValid(wallet_file, WalletRules)
        /\ wallet_file \in Seq(WalletLines)
    BY <1>2, LoadErrorIs DEF TypeOK
  <2>3. file_body' = wallet_file /\ \A kind \in Kinds : Names(kind)' = Listed(wallet_file, kind)
    BY <1>2, <2>1, LoadTyped DEF Load
  <2>4. Stages'
    BY <1>1, <2>1, <2>2, <2>3 DEF Stages, Loaded, Appending, Rewriting
  <2>5. next_line' \in 0 .. Len(file_body') + 1
    <3>1. next_line' = 0
      BY <1>1, <2>1 DEF Stages
    <3> QED
      BY <2>2, <2>3, <3>1
  <2> QED
    BY <1>1, <2>1, <2>2, <2>3, <2>4, <2>5 DEF TypeOK
<1>3. CASE LoadError # "none"
  <2>1. End(LoadError) /\ LoadError \in Outcomes
    BY <1>3, LoadErrorIs DEF Invoke, EndWithoutDevice, EntryErrors, Outcomes, TypeOK
  <2> QED
    BY <1>1, <2>1, EndTyped DEF TypeOK
<1> QED
  BY <1>2, <1>3

LEMMA BeginAddTyped ==
  ASSUME TypeOK, Stages, NEW c \in Commands, BeginAdd(c)
  PROVE  TypeOK' /\ Stages'
<1>1. /\ pc = "loaded" /\ Operation(c.switches) = "add" /\ c.file # NoFile
      /\ pc' = "appending" /\ command' = c /\ at_line_start' = TRUE
      /\ wallet_file' = IF at_line_start THEN Append(wallet_file, Blank) ELSE wallet_file
      /\ edited' = edited \ {TheEntry(c)}
      /\ UNCHANGED <<disk, next_line, outcome, file_body>>
  BY DEF BeginAdd, CanAdd, ForgetLists
<1>2. ActiveSwitch(c.switches) \in Kinds /\ c.file \in FileNames
  BY <1>1, OperationIs
<1>3. wallet_file \in Seq(WalletLines) /\ IsFileValid(wallet_file, WalletRules)
  BY <1>1 DEF TypeOK, Stages, Loaded
<1>4. Append(wallet_file, Blank) \in Seq(WalletLines) /\ IsFileValid(Append(wallet_file, Blank), WalletRules)
  <2>1. Blank \in WalletLines /\ LineType(Blank, InBlock(wallet_file)[Len(wallet_file)], WalletRules) # "INVALID"
    BY BlankFacts
  <2> QED
    BY <1>3, <2>1, ValidAppend
<1>5. wallet_file' \in Seq(WalletLines) /\ IsFileValid(wallet_file', WalletRules)
  BY <1>1, <1>3, <1>4
<1>6. wallet_file' # Absent
  BY <1>5, WalletsAssumption
<1>7. TypeOK'
  BY <1>1, <1>5 DEF TypeOK
<1>8. Stages'
  BY <1>1, <1>2, <1>5, <1>6 DEF Stages, Loaded, Appending, Rewriting
<1> QED
  BY <1>7, <1>8

LEMMA AppendEntryTyped ==
  ASSUME TypeOK, Stages, AppendEntry
  PROVE  TypeOK' /\ Stages'
<1>1. /\ pc = "appending" /\ wallet_file' = Append(wallet_file, TheEntry(command))
      /\ at_line_start' = FALSE /\ End("done") /\ UNCHANGED <<disk, edited>>
  BY DEF AppendEntry, EndWithoutDevice, historyVars
<1>2. TheEntry(command) \in WalletLines
  BY <1>1, EntryFacts DEF Stages, Appending, TheEntry
<1>3. wallet_file \in Seq(WalletLines)
  BY <1>1 DEF TypeOK, Stages, Appending
<1>4. wallet_file' \in Seq(WalletLines)
  BY <1>1, <1>2, <1>3
<1> QED
  BY <1>1, <1>4, EndTyped DEF TypeOK, Outcomes

LEMMA BeginRemoveTyped ==
  ASSUME TypeOK, Stages, NEW c \in Commands, BeginRemove(c)
  PROVE  TypeOK' /\ Stages'
<1>1. /\ pc = "loaded" /\ Operation(c.switches) = "remove" /\ c.file # NoFile
      /\ FindInFile(file_body, TheEntry(c)) # 0
      /\ pc' = "rewriting" /\ command' = c /\ next_line' = 1
      /\ wallet_file' = <<>> /\ at_line_start' = TRUE
      /\ UNCHANGED <<disk, outcome, edited, file_body>>
  BY DEF BeginRemove, ForgetLists
<1>2. ActiveSwitch(c.switches) \in Kinds /\ c.file \in FileNames
  BY <1>1, OperationIs
<1>3. IsFileValid(file_body, WalletRules) /\ file_body \in Seq(WalletLines)
  BY <1>1 DEF TypeOK, Stages, Loaded
<1>4. wallet_file' \in Seq(WalletLines) /\ wallet_file' # Absent
  <2>1. <<>> \in Seq(WalletLines)
    OBVIOUS
  <2> QED
    BY <1>1, <2>1, WalletsAssumption
<1>5. TypeOK'
  BY <1>1, <1>3, <1>4 DEF TypeOK
<1>6. Rewriting'
  <2> DEFINE k == FindInFile(file_body, TheEntry(c))
  <2>1. k \in 1 .. Len(file_body) /\ TheEntry(command)' = TheEntry(c)
    BY <1>1, <1>3, FindIs DEF TheEntry
  <2>2. Len(wallet_file') = 0
    BY <1>1
  <2> HIDE DEF k
  <2>3. FindInFile(file_body, TheEntry(command))' = k
    BY <1>1, <2>1 DEF k
  <2>4. k # 0 /\ next_line' # 0 /\ Len(wallet_file') = IF next_line' <= k THEN next_line' - 1 ELSE next_line' - 2
    BY <1>1, <2>1, <2>2
  <2> QED
    BY <1>1, <1>2, <1>3, <1>4, <2>2, <2>3, <2>4 DEF Rewriting
<1> QED
  BY <1>1, <1>5, <1>6 DEF Stages, Loaded, Appending

LEMMA RewriteLineTyped ==
  ASSUME TypeOK, Stages, RewriteLine
  PROVE  TypeOK' /\ Stages'
<1> DEFINE k == FindInFile(file_body, TheEntry(command))
           n == next_line
<1>1. /\ pc = "rewriting" /\ n <= Len(file_body) /\ next_line' = n + 1
      /\ wallet_file' = IF n = k THEN wallet_file ELSE Append(wallet_file, file_body[n])
      /\ UNCHANGED <<disk, at_line_start, file_body, pc, command, outcome, edited>>
  BY DEF RewriteLine, libraryVars, historyVars
<1>2. file_body \in Seq(WalletLines) /\ n \in 1 .. Len(file_body)
  BY <1>1 DEF TypeOK, Stages, Rewriting
<1>3. /\ wallet_file \in Seq(WalletLines) /\ k # 0
      /\ Len(wallet_file) = IF n <= k THEN n - 1 ELSE n - 2
      /\ \A i \in 1 .. Len(wallet_file) : wallet_file[i] = file_body[Beyond(k, i)]
  BY <1>1 DEF TypeOK, Stages, Rewriting
<1>4. k \in 1 .. Len(file_body)
  BY <1>2, <1>3, FindIs
<1>5. FindInFile(file_body, TheEntry(command))' = k
  BY <1>1 DEF TheEntry
<1> HIDE DEF k, n
<1>6. /\ wallet_file' \in Seq(WalletLines)
      /\ Len(wallet_file') = IF n + 1 <= k THEN n ELSE n - 1
      /\ \A i \in 1 .. Len(wallet_file') : wallet_file'[i] = file_body[Beyond(k, i)]
  <2>1. CASE n = k
    BY <1>1, <1>2, <1>3, <1>4, <2>1
  <2>2. CASE n # k
    <3> DEFINE w == Append(wallet_file, file_body[n])
    <3>1. file_body[n] \in WalletLines
      BY <1>2
    <3>2. /\ w \in Seq(WalletLines) /\ Len(w) = Len(wallet_file) + 1 /\ w[Len(wallet_file) + 1] = file_body[n]
          /\ \A i \in 1 .. Len(wallet_file) : w[i] = wallet_file[i]
      BY <1>3, <3>1
    <3>3. wallet_file' = w
      BY <1>1, <2>2
    <3> HIDE DEF w
    <3>4. Len(w) = IF n + 1 <= k THEN n ELSE n - 1
      BY <1>2, <1>3, <1>4, <2>2, <3>2
    <3>5. Beyond(k, Len(wallet_file) + 1) = n
      BY <1>2, <1>3, <1>4, <2>2 DEF Beyond
    <3>6. ASSUME NEW i \in 1 .. Len(w) PROVE w[i] = file_body[Beyond(k, i)]
      <4>1. CASE i = Len(wallet_file) + 1
        BY <3>2, <3>5, <4>1
      <4>2. CASE i # Len(wallet_file) + 1
        <5>1. i \in 1 .. Len(wallet_file)
          BY <1>3, <3>2, <4>2
        <5> QED
          BY <1>3, <3>2, <5>1
      <4> QED
        BY <4>1, <4>2
    <3> QED
      BY <3>2, <3>3, <3>4, <3>6
  <2> QED
    BY <2>1, <2>2
<1>7. wallet_file' # Absent
  BY <1>6, WalletsAssumption
<1>8. next_line' \in 1 .. Len(file_body) + 1
  BY <1>1, <1>2
<1>9. TypeOK'
  BY <1>1, <1>6, <1>8 DEF TypeOK
<1>10. Rewriting'
  <2>1. /\ IsFileValid(file_body, WalletRules)
        /\ ActiveSwitch(command.switches) \in Kinds /\ command.file \in FileNames
    BY <1>1 DEF Stages, Rewriting
  <2>2. Len(wallet_file') = IF next_line' <= k THEN next_line' - 1 ELSE next_line' - 2
    BY <1>1, <1>2, <1>4, <1>6
  <2> QED
    BY <1>1, <1>3, <1>5, <1>6, <1>7, <1>8, <2>1, <2>2 DEF Rewriting
<1> QED
  BY <1>1, <1>9, <1>10 DEF Stages, Loaded, Appending

\* The commands that end the process at once.
Immediate(c) ==
  \/ RefuseToAdd(c) \/ NothingToRemove(c) \/ NoFileGiven(c)
  \/ List(c) \/ HelpOrMisuse(c) \/ StartFails(c) \/ Start(c)

LEMMA GetErrorType ==
  ASSUME NEW list, NEW id
  PROVE  GetError(list, id) \in {"none", "user error", "undefined"}
  BY DEF GetError

StartErrors == {"user error", "undefined"}

LEMMA ThreeErrors ==
  ASSUME NEW T, NEW m \in T, NEW a \in T, NEW t \in T, NEW s, s = <<m, a, t>>
  PROVE  s \in Seq(T) /\ Len(s) = 3 /\ s[1] = m /\ s[2] = a /\ s[3] = t /\ ToSet(s) = {m, a, t}
<1>1. s \in Seq(T) /\ Len(s) = 3 /\ s[1] = m /\ s[2] = a /\ s[3] = t
  OBVIOUS
<1>2. DOMAIN s = 1 .. 3 /\ \A i \in 1 .. 3 : i = 1 \/ i = 2 \/ i = 3
  BY <1>1
<1>3. ToSet(s) = {s[i] : i \in 1 .. 3}
  BY <1>2 DEF ToSet
<1>4. {s[i] : i \in 1 .. 3} = {m, a, t}
  <2>1. 1 \in 1 .. 3 /\ 2 \in 1 .. 3 /\ 3 \in 1 .. 3
    OBVIOUS
  <2> QED
    BY <1>1, <1>2, <2>1
<1> QED
  BY <1>1, <1>3, <1>4

\* Which errors there are, and that the first of them is reported.
LEMMA StartErrorIs ==
  ASSUME NEW ids
  PROVE  /\ StartError(ids) \in {"none", "user error", "undefined", "exception"}
         /\ StartError(ids) = "undefined" =>
              /\ Len(ids) \in {3, 4}
              /\ \/ GetError(memories, ids[1]) = "undefined"
                 \/ GetError(applications, ids[2]) = "undefined"
                 \/ GetError(task_graphs, ids[3]) = "undefined"
         /\ StartError(ids) = "none" =>
              /\ Len(ids) \in {3, 4}
              /\ GetError(memories, ids[1]) = "none" /\ GetError(applications, ids[2]) = "none"
              /\ ~SomeModuleWithoutTasks(applications[ids[2] + 1].app.rr_spec_map)
<1> DEFINE m == GetError(memories, ids[1])
           a == GetError(applications, ids[2])
           t == GetError(task_graphs, ids[3])
           errors == <<m, a, t>>
           T == {"none"} \cup StartErrors
<1>1. m \in T /\ a \in T /\ t \in T
  BY GetErrorType DEF StartErrors
<1>2. StartError(ids) =
        IF Len(ids) \notin {3, 4} THEN "user error"
        ELSE IF ToSet(errors) # {"none"} THEN Head(Kept(errors, StartErrors))
        ELSE IF SomeModuleWithoutTasks(applications[ids[2] + 1].app.rr_spec_map)
        THEN "exception" ELSE "none"
  BY DEF StartError, StartErrors
<1> HIDE DEF m, a, t, T
<1>3. errors \in Seq(T) /\ Len(errors) = 3 /\ ToSet(errors) = {m, a, t}
      /\ errors[1] = m /\ errors[2] = a /\ errors[3] = t
  BY <1>1, ThreeErrors
<1> HIDE DEF errors
<1>4. ASSUME ToSet(errors) # {"none"}
      PROVE  Head(Kept(errors, StartErrors)) \in {m, a, t} \cap StartErrors
  <2>1. \E i \in 1 .. 3 : errors[i] # "none"
    BY <1>3, <1>4
  <2>2. PICK i \in 1 .. Len(errors) : errors[i] \in StartErrors
    BY <1>1, <1>3, <2>1 DEF T
  <2>3. /\ Head(Kept(errors, StartErrors)) \in StartErrors
        /\ \E j \in 1 .. Len(errors) : errors[j] = Head(Kept(errors, StartErrors))
    BY <1>3, <2>2, KeptHead
  <2>4. \A j \in 1 .. 3 : j = 1 \/ j = 2 \/ j = 3
    OBVIOUS
  <2> QED
    BY <1>3, <2>3, <2>4
<1>5. CASE Len(ids) \notin {3, 4}
  BY <1>2, <1>5
<1>6. CASE Len(ids) \in {3, 4} /\ ToSet(errors) # {"none"}
  <2>1. StartError(ids) = Head(Kept(errors, StartErrors))
    BY <1>2, <1>6
  <2>2. StartError(ids) \in {m, a, t} \cap StartErrors
    BY <1>4, <1>6, <2>1
  <2> QED
    BY <1>6, <2>2 DEF StartErrors, m, a, t
<1>7. CASE Len(ids) \in {3, 4} /\ ToSet(errors) = {"none"}
  <2>1. m = "none" /\ a = "none"
    BY <1>3, <1>7
  <2> QED
    BY <1>2, <1>7, <2>1 DEF m, a
<1> QED
  BY <1>5, <1>6, <1>7

\* They touch neither the disk nor the wallet.
LEMMA ImmediateEnds ==
  ASSUME TypeOK, NEW c \in Commands, Immediate(c)
  PROVE  /\ pc = "loaded" /\ UNCHANGED <<disk, wallet_file, at_line_start, edited>>
         /\ \E r \in Outcomes : End(r)
<1>1. CASE RefuseToAdd(c) \/ NothingToRemove(c) \/ NoFileGiven(c) \/ List(c) \/ HelpOrMisuse(c)
  BY <1>1 DEF RefuseToAdd, NothingToRemove, NoFileGiven, List, HelpOrMisuse, EndWithoutDevice,
              fileVars, historyVars, Outcomes
<1>2. CASE StartFails(c)
  BY <1>2, StartErrorIs DEF StartFails, EndWithoutDevice, fileVars, historyVars, Outcomes
<1>3. CASE Start(c)
  <2>1. pc = "loaded" /\ UNCHANGED <<disk, wallet_file, at_line_start, edited>> /\ End(ResultOf(device', c.ids))
    BY <1>3 DEF Start, fileVars, historyVars
  <2>2. ResultOf(device', c.ids) \in Outcomes
    BY DEF ResultOf, Outcomes
  <2> QED
    BY <2>1, <2>2
<1> QED
  BY <1>1, <1>2, <1>3 DEF Immediate

\* The ends that no command asks for, and that of a removal.
LEMMA OtherEnds ==
  ASSUME InvokeWithoutSwitches \/ EndRemove \/ Kill
  PROVE  /\ UNCHANGED <<disk, wallet_file, at_line_start, historyVars>> /\ device' = NoDevice
         /\ \E r \in {"user error", "done", "killed"} : End(r)
  BY DEF InvokeWithoutSwitches, EndRemove, Kill, EndWithoutDevice, fileVars

LEMMA EditTyped ==
  ASSUME TypeOK, Stages, NEW f \in FileNames, Edit(f)
  PROVE  TypeOK' /\ Stages'
<1>1. /\ \E content \in MayContain[f] : disk' = [disk EXCEPT ![f] = content]
      /\ edited' = edited \cup {Entry(kind, f) : kind \in Kinds}
      /\ UNCHANGED <<wallet_file, at_line_start, file_body, pc, command, next_line, outcome>>
      /\ UNCHANGED <<memories, applications, task_graphs>>
  BY DEF Edit, fileVars, libraryVars, controlVars
<1>2. MayContain[f] \subseteq Contents \cup {Absent}
  BY DiskAssumption
<1>3. disk' \in [FileNames -> Contents \cup {Absent}]
  BY <1>1, <1>2 DEF TypeOK
<1>4. edited' \subseteq Entries
  BY <1>1, EntryFacts DEF TypeOK
<1>5. \A kind : Names(kind)' = Names(kind)
  BY <1>1 DEF Names
<1> QED
  BY <1>1, <1>3, <1>4, <1>5 DEF TypeOK, Stages, Loaded, Appending, Rewriting, TheEntry

LEMMA ReturnTyped ==
  ASSUME TypeOK, Stages, Return
  PROVE  TypeOK' /\ Stages'
  BY DEF Return, TypeOK, Stages, Loaded, Appending, Rewriting, Outcomes, fileVars, libraryVars, historyVars

LEMMA NextTyped == TypeOK /\ Stages /\ [Next]_vars => TypeOK' /\ Stages'
<1>1. ASSUME TypeOK, Stages, NEW c \in Commands, Immediate(c) PROVE TypeOK' /\ Stages'
  <2>1. PICK r \in Outcomes : End(r)
    BY <1>1, ImmediateEnds
  <2> QED
    BY <1>1, <2>1, ImmediateEnds, EndTyped DEF TypeOK
<1>2. ASSUME TypeOK, Stages, InvokeWithoutSwitches \/ EndRemove \/ Kill PROVE TypeOK' /\ Stages'
  <2>1. PICK r \in {"user error", "done", "killed"} : End(r)
    BY <1>2, OtherEnds
  <2>2. r \in Outcomes /\ UNCHANGED <<disk, wallet_file, at_line_start, edited>>
    BY <1>2, OtherEnds DEF Outcomes, historyVars
  <2> QED
    BY <1>2, <2>1, <2>2, EndTyped DEF TypeOK
<1>3. ASSUME TypeOK, Stages, UNCHANGED vars PROVE TypeOK' /\ Stages'
  <2>1. \A kind : Names(kind)' = Names(kind)
    BY <1>3 DEF Names, vars, libraryVars
  <2> QED
    BY <1>3, <2>1
       DEF vars, fileVars, libraryVars, controlVars, historyVars, TypeOK, Stages, Loaded, Appending,
           Rewriting, TheEntry
<1>4. ASSUME Next
      PROVE  \/ Invoke \/ InvokeWithoutSwitches \/ EndRemove \/ Kill
             \/ \E c \in Commands : Immediate(c) \/ BeginAdd(c) \/ BeginRemove(c)
             \/ AppendEntry \/ RewriteLine \/ Return \/ \E f \in FileNames : Edit(f)
  BY <1>4 DEF Next, RunCommand, Immediate
<1> QED
  BY <1>1, <1>2, <1>3, <1>4, InvokeTyped, BeginAddTyped, BeginRemoveTyped, AppendEntryTyped,
     RewriteLineTyped, ReturnTyped, EditTyped

\* Type correctness of the wallet, the file it keeps and the command line
\* (main.cpp:95-364).
THEOREM DrachmaTypeCorrect == Spec => []TypeOK
  BY InitTyped, NextTyped, PTL DEF Spec

----------------------------------------------------------------------------
\* What the lists of a loaded wallet hold.

Units == {Hierarchy[content] : content \in DOMAIN Hierarchy}

Apps == {Decoded[content][garbage] : content \in DOMAIN Decoded, garbage \in GarbageSpeeds}

\* Every file a list names is there, and its content was accepted.
FromFiles ==
  /\ memories \in Seq([file : FileNames, unit : Units])
  /\ applications \in Seq([file : FileNames, app : Apps])
  /\ task_graphs \in Seq(FileNames)

Sourced == pc = "loaded" => FromFiles

LEMMA SeqOfFunction ==
  ASSUME NEW S, NEW names \in Seq(S), NEW T, NEW s, s = [n \in DOMAIN names |-> s[n]],
         \A n \in DOMAIN names : s[n] \in T
  PROVE  s \in Seq(T)
<1>1. DOMAIN names = 1 .. Len(names) /\ Len(names) \in Nat
  OBVIOUS
<1>2. s \in [1 .. Len(names) -> T]
  BY <1>1
<1> QED
  BY <1>1, <1>2

LEMMA LoadSourced ==
  ASSUME TypeOK, LoadError = "none", Load
  PROVE  FromFiles'
<1>1. /\ wallet_file \in Seq(WalletLines)
      /\ \A kind \in Kinds : Listed(wallet_file, kind) \in Seq(FileNames)
      /\ \A kind \in Kinds : \A f \in ToSet(Listed(wallet_file, kind)) : EntryError(kind, f) = "none"
  BY LoadErrorIs, ListedIs DEF TypeOK
<1>2. "m" \in Kinds /\ "a" \in Kinds /\ "t" \in Kinds
  BY DEF Kinds
<1> DEFINE mem == Listed(wallet_file, "m")
           app == Listed(wallet_file, "a")
<1>3. /\ memories' = [n \in DOMAIN mem |-> [file |-> mem[n], unit |-> Hierarchy[disk[mem[n]]]]]
      /\ task_graphs' = Listed(wallet_file, "t")
  BY DEF Load
<1>4. PICK garbage \in GarbageSpeeds :
        applications' = [n \in DOMAIN app |-> [file |-> app[n], app |-> Decoded[disk[app[n]]][garbage]]]
  BY DEF Load
<1>5. ASSUME NEW kind \in Kinds, NEW n \in DOMAIN Listed(wallet_file, kind)
      PROVE  LET c == disk[Listed(wallet_file, kind)[n]]
             IN  c \in Contents /\ ContentError[kind][c] = "none"
  <2> DEFINE f == Listed(wallet_file, kind)[n]
  <2>1. f \in ToSet(Listed(wallet_file, kind)) /\ f \in FileNames
    BY <1>1 DEF ToSet
  <2> HIDE DEF f
  <2>2. EntryError(kind, f) = "none"
    BY <1>1, <2>1
  <2>3. disk[f] # Absent /\ ContentError[kind][disk[f]] = "none"
    BY <2>2 DEF EntryError
  <2>4. disk[f] \in Contents
    BY <2>1, <2>3 DEF TypeOK
  <2> QED
    BY <2>3, <2>4 DEF f
<1>6. \A n \in DOMAIN mem : Hierarchy[disk[mem[n]]] \in Units
  <2> SUFFICES ASSUME NEW n \in DOMAIN mem PROVE Hierarchy[disk[mem[n]]] \in Units
    OBVIOUS
  <2>1. disk[mem[n]] \in DOMAIN Hierarchy
    BY <1>2, <1>5 DEF Hierarchy
  <2> QED
    BY <2>1 DEF Units
<1>7. \A n \in DOMAIN app : Decoded[disk[app[n]]][garbage] \in Apps
  <2> SUFFICES ASSUME NEW n \in DOMAIN app PROVE Decoded[disk[app[n]]][garbage] \in Apps
    OBVIOUS
  <2>1. disk[app[n]] \in DOMAIN Decoded
    BY <1>2, <1>5 DEF Decoded
  <2> QED
    BY <2>1 DEF Apps
<1>8. mem \in Seq(FileNames) /\ app \in Seq(FileNames) /\ Listed(wallet_file, "t") \in Seq(FileNames)
  BY <1>1, <1>2
<1> HIDE DEF mem, app
<1>9. memories' \in Seq([file : FileNames, unit : Units])
  <2>1. \A n \in DOMAIN mem : memories'[n] \in [file : FileNames, unit : Units]
    BY <1>3, <1>6, <1>8
  <2>2. memories' = [n \in DOMAIN mem |-> memories'[n]]
    BY <1>3
  <2> HIDE DEF Units
  <2> QED
    BY <1>8, <2>1, <2>2, SeqOfFunction
<1>10. applications' \in Seq([file : FileNames, app : Apps])
  <2>1. \A n \in DOMAIN app : applications'[n] \in [file : FileNames, app : Apps]
    BY <1>4, <1>7, <1>8
  <2>2. applications' = [n \in DOMAIN app |-> applications'[n]]
    BY <1>4
  <2> QED
    BY <1>8, <2>1, <2>2, SeqOfFunction
<1>11. Units' = Units /\ Apps' = Apps
  BY DEF Units, Apps, Hierarchy, Decoded
<1> QED
  BY <1>3, <1>8, <1>9, <1>10, <1>11 DEF FromFiles

\* Only the constructor makes an invocation that has loaded its wallet.
LEMMA LoadedSteps ==
  ASSUME TypeOK, [Next]_vars, pc' = "loaded"
  PROVE  \/ pc = "none" /\ LoadError = "none" /\ Load
            /\ UNCHANGED <<disk, fileVars, historyVars, outcome, device>>
         \/ pc = "loaded" /\ UNCHANGED <<fileVars, libraryVars, listed, outcome, device>>
            /\ (UNCHANGED <<disk, edited>> \/ \E f \in FileNames : Edit(f))
<1>1. CASE UNCHANGED vars
  BY <1>1 DEF vars, controlVars, historyVars
<1>2. CASE Next
  <2>1. ~\E r : End(r)
    BY DEF End
  <2>2. \A c \in Commands : ~Immediate(c)
    BY <2>1, ImmediateEnds
  <2>3. ~InvokeWithoutSwitches /\ ~EndRemove /\ ~Kill
    BY <2>1, OtherEnds
  <2>4. ~AppendEntry /\ ~Return /\ ~RewriteLine /\ \A c \in Commands : ~BeginAdd(c) /\ ~BeginRemove(c)
    BY DEF AppendEntry, EndWithoutDevice, End, Return, BeginAdd, BeginRemove, RewriteLine
  <2>5. CASE Invoke
    BY <2>1, <2>5 DEF Invoke, EndWithoutDevice, fileVars, historyVars
  <2>6. CASE \E f \in FileNames : Edit(f)
    BY <2>6 DEF Edit, controlVars
  <2> QED
    BY <1>2, <2>2, <2>3, <2>4, <2>5, <2>6 DEF Next, RunCommand, Immediate
<1> QED
  BY <1>1, <1>2

LEMMA SourcedInitially == Init => Sourced
  BY DEF Init, Sourced

LEMMA SourcedNext == TypeOK /\ Sourced /\ [Next]_vars => Sourced'
<1> SUFFICES ASSUME TypeOK, Sourced, [Next]_vars, pc' = "loaded" PROVE FromFiles'
  BY DEF Sourced
<1>1. CASE pc = "none"
  BY <1>1, LoadedSteps, LoadSourced
<1>2. CASE pc = "loaded"
  <2>1. FromFiles /\ UNCHANGED <<memories, applications, task_graphs>>
    BY <1>2, LoadedSteps DEF Sourced, libraryVars
  <2>2. Units' = Units /\ Apps' = Apps
    BY DEF Units, Apps, Hierarchy, Decoded
  <2> HIDE DEF Units, Apps
  <2> QED
    BY <2>1, <2>2 DEF FromFiles
<1> QED
  BY <1>1, <1>2, LoadedSteps

\* size() - 1 is a valid index, unless the list is empty.
LEMMA OverreadIs ==
  ASSUME NEW T, NEW list \in Seq(T), NEW id \in Nat, GetError(list, id) = "undefined"
  PROVE  list = <<>>
<1> SUFFICES ASSUME list # <<>> PROVE FALSE
  OBVIOUS
<1> DEFINE n == Len(list)
<1>1. n \in Nat /\ n # 0
  OBVIOUS
<1>2. ~((n - 1) % SizeRange < id) /\ id >= n
  BY DEF GetError
<1> HIDE DEF n
<1>3. n - 1 \in Nat /\ SizeRange \in Nat \ {0}
  BY <1>1, SizeRangeAssumption
<1>4. (n - 1) % SizeRange <= n - 1
  BY <1>3, Z3
<1>5. (n - 1) % SizeRange \in Nat
  BY <1>3, Z3
<1> QED
  BY <1>1, <1>2, <1>4, <1>5

LEMMA OverreadStep ==
  ASSUME TypeOK, Stages, Sourced, [Next]_vars, outcome' = "undefined", outcome # "undefined"
  PROVE  \E kind \in Kinds : Names(kind) = <<>>
<1>1. \A r : End(r) => r = "undefined"
  BY DEF End
<1>2. PICK c \in Commands : StartFails(c) /\ StartError(c.ids) = "undefined"
  <2>1. \A c \in Commands :
          ~(RefuseToAdd(c) \/ NothingToRemove(c) \/ NoFileGiven(c) \/ List(c) \/ HelpOrMisuse(c))
    BY <1>1 DEF RefuseToAdd, NothingToRemove, NoFileGiven, List, HelpOrMisuse, EndWithoutDevice
  <2>2. \A c \in Commands : ~Start(c)
    BY <1>1 DEF Start, ResultOf
  <2>3. \A c \in Commands : StartFails(c) => StartError(c.ids) = "undefined"
    BY <1>1 DEF StartFails, EndWithoutDevice
  <2>4. ~(InvokeWithoutSwitches \/ EndRemove \/ Kill)
    BY <1>1, OtherEnds
  <2>5. ~AppendEntry /\ ~Return
    BY <1>1 DEF AppendEntry, EndWithoutDevice, Return
  <2>6. ~Invoke
    <3>1. LoadError # "undefined"
      BY LoadErrorIs DEF TypeOK, EntryErrors
    <3> QED
      BY <1>1, <3>1 DEF Invoke, EndWithoutDevice
  <2>7. ~RewriteLine /\ ~(UNCHANGED vars) /\ \A c \in Commands : ~BeginAdd(c) /\ ~BeginRemove(c)
    BY DEF RewriteLine, BeginAdd, BeginRemove, vars
  <2>8. \A f \in FileNames : ~Edit(f)
    BY DEF Edit
  <2> QED
    BY <2>1, <2>2, <2>3, <2>4, <2>5, <2>6, <2>7, <2>8 DEF Next, RunCommand
<1>3. c.ids \in Seq(Nat) /\ pc = "loaded"
  BY <1>2, CommandsAssumption DEF StartFails
<1> DEFINE ids == c.ids
<1>4. Len(ids) \in {3, 4}
  BY <1>2, StartErrorIs
<1>5. ids[1] \in Nat /\ ids[2] \in Nat /\ ids[3] \in Nat
  <2>1. ids \in Seq(Nat)
    BY <1>3
  <2> HIDE DEF ids
  <2> QED
    BY <1>4, <2>1
<1>6. memories = <<>> \/ applications = <<>> \/ task_graphs = <<>>
  <2>1. FromFiles
    BY <1>3 DEF Sourced
  <2>2. \/ GetError(memories, ids[1]) = "undefined"
        \/ GetError(applications, ids[2]) = "undefined"
        \/ GetError(task_graphs, ids[3]) = "undefined"
    BY <1>2, StartErrorIs
  <2> HIDE DEF ids
  <2> QED
    BY <1>5, <2>1, <2>2, OverreadIs DEF FromFiles
<1> QED
  BY <1>6 DEF Names, Kinds

\* An index beyond the end of a list is used only if the list is empty, however
\* the wallet came about (wallet.cpp:254, 269, 284).
THEOREM DrachmaOverreads == Spec => OverreadsOnlyEmptyLists
<1>1. TypeOK /\ Stages /\ Sourced /\ [Next]_vars =>
        [outcome' = "undefined" /\ outcome # "undefined" => \E kind \in Kinds : Names(kind) = <<>>]_vars
  BY OverreadStep
<1> QED
  BY <1>1, InitTyped, NextTyped, SourcedInitially, SourcedNext, PTL DEF Spec, OverreadsOnlyEmptyLists

----------------------------------------------------------------------------
\* A wallet stays readable, and why an entry would not load.

\* The text w is as much as has been written of the text s without its k-th line.
PartOfRemoval(w, s, k) ==
  /\ k \in 1 .. Len(s) /\ s[k].start = "text"
  /\ Len(w) <= Len(s) - 1 /\ \A i \in 1 .. Len(w) : w[i] = s[Beyond(k, i)]

\* Every line of it counts as it did before.
LEMMA PartBlock ==
  ASSUME NEW T, NEW s \in Seq(T), NEW w \in Seq(T), NEW k, PartOfRemoval(w, s, k)
  PROVE  \A i \in 1 .. Len(w) : InBlock(w)[i - 1] <=> InBlock(s)[Beyond(k, i) - 1]
<1> SUFFICES ASSUME NEW i \in 1 .. Len(w) PROVE InBlock(w)[i - 1] <=> InBlock(s)[Beyond(k, i) - 1]
  OBVIOUS
<1> DEFINE r == RemoveAt(s, k)
           n == i - 1
<1>1. k \in 1 .. Len(s) /\ Len(w) <= Len(s) - 1 /\ \A j \in 1 .. Len(w) : w[j] = s[Beyond(k, j)]
  BY DEF PartOfRemoval
<1>2. r \in Seq(T) /\ Len(r) = Len(s) - 1 /\ \A j \in 1 .. Len(s) - 1 : r[j] = s[Beyond(k, j)]
  BY <1>1, RemoveAtIs
<1>3. \A j \in 0 .. Len(s) - 1 : InBlock(r)[j] <=> InBlock(s)[IF j < k THEN j ELSE j + 1]
  BY <1>1, BlockRemove DEF PartOfRemoval
<1> HIDE DEF r
<1>4. n \in Nat /\ n <= Len(w) /\ n <= Len(r) /\ n \in 0 .. Len(s) - 1
  BY <1>1, <1>2
<1>5. \A j \in 1 .. n : w[j] = r[j]
  BY <1>1, <1>2
<1>6. InBlock(w)[n] <=> InBlock(r)[n]
  <2> HIDE DEF n
  <2> QED
    BY <1>2, <1>4, <1>5, BlockOfPrefix
<1>7. InBlock(w)[n] <=> InBlock(s)[IF n < k THEN n ELSE n + 1]
  BY <1>3, <1>4, <1>6
<1>8. InBlock(s)[k] <=> InBlock(s)[k - 1]
  <2>1. k - 1 \in Nat /\ k - 1 < Len(s) /\ k - 1 + 1 = k
    BY <1>1
  <2>2. InBlock(s)[k - 1 + 1] <=> IF InBlock(s)[k - 1] THEN s[k - 1 + 1].start # "#/"
                                                        ELSE s[k - 1 + 1].start = "/#"
    BY <2>1, BlockSteps
  <2> QED
    BY <2>1, <2>2 DEF PartOfRemoval
<1>9. CASE i < k
  BY <1>1, <1>7, <1>9 DEF Beyond
<1>10. CASE i = k
  BY <1>1, <1>7, <1>8, <1>10 DEF Beyond
<1>11. CASE i > k
  BY <1>1, <1>7, <1>11 DEF Beyond
<1> QED
  BY <1>1, <1>9, <1>10, <1>11

LEMMA PartValid ==
  ASSUME NEW T, NEW s \in Seq(T), NEW w \in Seq(T), NEW k, NEW rules,
         PartOfRemoval(w, s, k), IsFileValid(s, rules)
  PROVE  IsFileValid(w, rules)
<1>1. ASSUME NEW i \in 1 .. Len(w) PROVE LineType(w[i], InBlock(w)[i - 1], rules) # "INVALID"
  <2> DEFINE j == Beyond(k, i)
  <2>1. k \in 1 .. Len(s) /\ Len(w) <= Len(s) - 1 /\ w[i] = s[j]
    BY DEF PartOfRemoval
  <2>2. j \in 1 .. Len(s)
    BY <2>1 DEF Beyond
  <2>3. InBlock(w)[i - 1] <=> InBlock(s)[j - 1]
    BY PartBlock
  <2> HIDE DEF j
  <2>4. LineType(s[j], InBlock(s)[j - 1], rules) # "INVALID"
    BY <2>2, ValidIs
  <2> QED
    BY <2>1, <2>3, <2>4 DEF LineType
<1> QED
  BY <1>1, ValidIs

\* A removal under way has written some lines of the text without the entry.
UnderWay ==
  pc = "rewriting" =>
    /\ wallet_file \in Seq(WalletLines) /\ file_body \in Seq(WalletLines)
    /\ TheEntry(command) \in Entries
    /\ PartOfRemoval(wallet_file, file_body, FindInFile(file_body, TheEntry(command)))
    /\ IsFileValid(file_body, WalletRules)

LEMMA RewritingIs == TypeOK /\ Stages => UnderWay
<1> SUFFICES ASSUME TypeOK, Stages, pc = "rewriting" PROVE UnderWay
  BY DEF UnderWay
<1> DEFINE k == FindInFile(file_body, TheEntry(command))
<1>1. /\ wallet_file # Absent /\ IsFileValid(file_body, WalletRules)
      /\ ActiveSwitch(command.switches) \in Kinds /\ command.file \in FileNames
      /\ k # 0 /\ next_line # 0
      /\ Len(wallet_file) = IF next_line <= k THEN next_line - 1 ELSE next_line - 2
      /\ \A i \in 1 .. Len(wallet_file) : wallet_file[i] = file_body[Beyond(k, i)]
  BY DEF Stages, Rewriting
<1>2. /\ wallet_file \in Seq(WalletLines) /\ file_body \in Seq(WalletLines)
      /\ next_line \in 0 .. Len(file_body) + 1
  BY <1>1 DEF TypeOK
<1>3. TheEntry(command) \in Entries /\ TheEntry(command).start = "text"
  BY <1>1, EntryFacts DEF TheEntry
<1>4. k \in 1 .. Len(file_body) /\ file_body[k] = TheEntry(command)
  BY <1>1, <1>2, FindIs
<1> HIDE DEF k
<1>5. Len(wallet_file) <= Len(file_body) - 1
  BY <1>1, <1>2, <1>4
<1>6. PartOfRemoval(wallet_file, file_body, k)
  BY <1>1, <1>3, <1>4, <1>5 DEF PartOfRemoval
<1> QED
  BY <1>1, <1>2, <1>3, <1>6 DEF k, UnderWay

\* Whatever happens to the process, what it leaves can be read.
Readable ==
  wallet_file # Absent =>
    IsFileValid(wallet_file, WalletRules) \/ wallet_file \in {w.lines : w \in Wallets}

\* The cases of a property of the wallet's text alone.
LEMMA TextSteps ==
  ASSUME TypeOK, Stages, [Next]_vars
  PROVE  \/ UNCHANGED wallet_file
         \/ \E c \in Commands : BeginAdd(c) \/ BeginRemove(c)
         \/ AppendEntry \/ RewriteLine
<1>1. CASE UNCHANGED vars
  BY <1>1 DEF vars, fileVars
<1>2. \A c \in Commands : Immediate(c) => UNCHANGED wallet_file
  BY ImmediateEnds
<1>3. InvokeWithoutSwitches \/ EndRemove \/ Kill => UNCHANGED wallet_file
  BY OtherEnds
<1>4. Invoke \/ Return \/ (\E f \in FileNames : Edit(f)) => UNCHANGED wallet_file
  BY DEF Invoke, Return, Edit, fileVars
<1> QED
  BY <1>1, <1>2, <1>3, <1>4 DEF Next, RunCommand, Immediate

LEMMA ReadableNext == TypeOK /\ Stages /\ Readable /\ [Next]_vars => Readable'
<1> SUFFICES ASSUME TypeOK, Stages, Readable, [Next]_vars PROVE Readable'
  OBVIOUS
<1>1. CASE UNCHANGED wallet_file
  BY <1>1 DEF Readable
<1>2. CASE \E c \in Commands : BeginAdd(c)
  <2>1. pc' = "appending"
    BY <1>2 DEF BeginAdd
  <2> QED
    BY <2>1, NextTyped DEF Stages, Appending, Readable
<1>3. CASE AppendEntry
  <2>1. wallet_file' = Append(wallet_file, TheEntry(command)) /\ pc = "appending"
    BY <1>3 DEF AppendEntry
  <2>2. /\ wallet_file \in Seq(WalletLines) /\ IsFileValid(wallet_file, WalletRules)
        /\ ActiveSwitch(command.switches) \in Kinds /\ command.file \in FileNames
    BY <2>1 DEF TypeOK, Stages, Appending
  <2>3. /\ TheEntry(command) \in WalletLines
        /\ LineType(TheEntry(command), InBlock(wallet_file)[Len(wallet_file)], WalletRules) # "INVALID"
    BY <2>2, EntryFacts DEF TheEntry
  <2>4. IsFileValid(Append(wallet_file, TheEntry(command)), WalletRules)
    BY <2>2, <2>3, ValidAppend
  <2> QED
    BY <2>1, <2>4 DEF Readable
<1>4. ASSUME pc' = "rewriting" PROVE Readable'
  <2>1. TypeOK' /\ Stages'
    BY NextTyped
  <2>2. UnderWay'
    BY <2>1, RewritingIs, PTL
  <2> DEFINE w == wallet_file'
             s == file_body'
             k == FindInFile(s, TheEntry(command)')
  <2>3. /\ w \in Seq(WalletLines) /\ s \in Seq(WalletLines)
        /\ PartOfRemoval(w, s, k) /\ IsFileValid(s, WalletRules)
    BY <1>4, <2>2 DEF UnderWay
  <2> HIDE DEF w, s, k
  <2>4. IsFileValid(w, WalletRules)
    BY <2>3, PartValid
  <2> QED
    BY <2>4 DEF Readable, w
<1>5. CASE RewriteLine \/ \E c \in Commands : BeginRemove(c)
  BY <1>4, <1>5 DEF RewriteLine, BeginRemove
<1> QED
  BY <1>1, <1>2, <1>3, <1>5, TextSteps

\* An entry that does not load has been edited since it was added, or was
\* accepted for its lines alone.
Fine(kind, f) ==
  \/ EntryError(kind, f) = "none" \/ Entry(kind, f) \in edited
  \/ kind \in {"m", "t"} /\ Passes(kind, f)

AllFine == \A kind \in Kinds : \A f \in FileNames : Fine(kind, f)

LEMMA FineInitially == Init => Readable /\ AllFine
<1> SUFFICES ASSUME Init PROVE Readable /\ AllFine
  OBVIOUS
<1>1. Readable
  BY DEF Init, Readable
<1>2. ASSUME NEW kind \in Kinds, NEW f \in FileNames PROVE Fine(kind, f)
  <2> DEFINE e == Entry(kind, f)
  <2>1. e \in Entries /\ e.key = kind /\ e.arg = f
    BY EntryFacts
  <2>2. edited = {x \in Entries : EntryError(x.key, x.arg) # "none"}
    BY DEF Init
  <2> HIDE DEF e
  <2>3. EntryError(kind, f) # "none" => e \in edited
    BY <2>1, <2>2
  <2> QED
    BY <2>3 DEF Fine, e
<1> QED
  BY <1>1, <1>2 DEF AllFine

\* What -aa accepts is what the constructor decodes.
LEMMA AcceptedAppLoads ==
  ASSUME TypeOK, NEW f \in FileNames, Passes("a", f)
  PROVE  EntryError("a", f) = "none"
<1>1. disk[f] # Absent /\ disk[f] \in Contents
  BY DEF TypeOK, Passes
<1>2. DecodeError(DocumentOf[disk[f]]) = "none"
  BY DEF Passes, Accepts, IsValidAppFile
<1>3. "a" \in Kinds
  BY DEF Kinds
<1>4. ContentError["a"][disk[f]] = DecodeError(DocumentOf[disk[f]])
  BY <1>1, <1>3 DEF ContentError
<1> QED
  BY <1>1, <1>2, <1>4 DEF EntryError

LEMMA FineNext == TypeOK /\ AllFine /\ [Next]_vars => AllFine'
<1> SUFFICES ASSUME TypeOK, AllFine, [Next]_vars, NEW kind \in Kinds, NEW f \in FileNames
             PROVE  Fine(kind, f)'
  BY DEF AllFine
<1>1. Fine(kind, f)
  BY DEF AllFine
<1>2. ASSUME disk'[f] = disk[f]
      PROVE  EntryError(kind, f)' = EntryError(kind, f) /\ (Passes(kind, f)' <=> Passes(kind, f))
  BY <1>2 DEF EntryError, Passes, Accepts, ContentError
<1>3. CASE UNCHANGED disk /\ edited \subseteq edited'
  BY <1>1, <1>2, <1>3 DEF Fine
<1>4. ASSUME NEW c \in Commands, BeginAdd(c) PROVE Fine(kind, f)'
  <2>1. /\ UNCHANGED disk /\ edited' = edited \ {TheEntry(c)} /\ CanAdd(c)
        /\ Operation(c.switches) = "add" /\ c.file # NoFile
    BY <1>4 DEF BeginAdd, CanAdd
  <2>2. /\ ActiveSwitch(c.switches) \in Kinds /\ c.file \in FileNames
        /\ TheEntry(c) = Entry(ActiveSwitch(c.switches), c.file)
    BY <2>1, OperationIs
  <2>3. CASE Entry(kind, f) # TheEntry(c)
    BY <1>1, <1>2, <2>1, <2>3 DEF Fine
  <2>4. CASE Entry(kind, f) = TheEntry(c)
    <3>1. ActiveSwitch(c.switches) = kind /\ c.file = f
      BY <2>2, <2>4, EntryFacts
    <3>2. Passes(kind, f)
      BY <2>1, <3>1 DEF CanAdd
    <3>3. kind = "a" => EntryError(kind, f) = "none"
      BY <3>2, AcceptedAppLoads
    <3>4. kind = "a" \/ kind \in {"m", "t"}
      BY DEF Kinds
    <3> QED
      BY <1>2, <2>1, <3>2, <3>3, <3>4 DEF Fine
  <2> QED
    BY <2>3, <2>4
<1>5. ASSUME NEW g \in FileNames, Edit(g) PROVE Fine(kind, f)'
  <2>1. /\ \E content : disk' = [disk EXCEPT ![g] = content]
        /\ edited' = edited \cup {Entry(k, g) : k \in Kinds}
    BY <1>5 DEF Edit
  <2>2. CASE f = g
    BY <2>1, <2>2 DEF Fine
  <2>3. CASE f # g
    <3>1. disk'[f] = disk[f]
      BY <2>1, <2>3 DEF TypeOK
    <3> QED
      BY <1>1, <1>2, <2>1, <3>1 DEF Fine
  <2> QED
    BY <2>2, <2>3
<1>6. CASE UNCHANGED vars
  BY <1>3, <1>6 DEF vars, historyVars
<1>7. \A c \in Commands : Immediate(c) => UNCHANGED <<disk, edited>>
  BY ImmediateEnds
<1>8. InvokeWithoutSwitches \/ EndRemove \/ Kill => UNCHANGED <<disk, edited>>
  BY OtherEnds DEF historyVars
<1>9. Invoke \/ Return \/ AppendEntry \/ RewriteLine \/ (\E c \in Commands : BeginRemove(c))
        => UNCHANGED <<disk, edited>>
  BY DEF Invoke, Return, AppendEntry, RewriteLine, BeginRemove, historyVars
<1> QED
  BY <1>3, <1>4, <1>5, <1>6, <1>7, <1>8, <1>9 DEF Next, RunCommand, Immediate

\* Neither an addition, nor a removal that is cut short anywhere, leaves a
\* wallet that cannot be read; and an entry that keeps the program from starting
\* is there because its file was edited since, or is a memory file or a task
\* graph, which are accepted by the wrong check (main.cpp:151-182, 209-221,
\* 260-275, fileHandler.cpp:174-210).
THEOREM DrachmaEntriesLoad == Spec => []EntriesLoad
<1>1. TypeOK /\ Readable /\ AllFine => EntriesLoad
  <2> SUFFICES ASSUME TypeOK, Readable, AllFine, wallet_file # Absent,
                      NEW kind \in Kinds, NEW f \in ToSet(Listed(wallet_file, kind))
               PROVE  Fine(kind, f)
    BY DEF EntriesLoad, Readable, Fine
  <2>1. Listed(wallet_file, kind) \in Seq(FileNames)
    BY ListedIs DEF TypeOK
  <2>2. f \in FileNames
    BY <2>1 DEF ToSet
  <2> QED
    BY <2>2 DEF AllFine
<1> QED
  BY <1>1, InitTyped, NextTyped, FineInitially, ReadableNext, FineNext, PTL DEF Spec

----------------------------------------------------------------------------
\* What -w printed.

LEMMA PrefixSelf ==
  ASSUME NEW T, NEW s \in Seq(T)
  PROVE  IsPrefix(s, s)
BY DEF IsPrefix

LEMMA PrefixAppend ==
  ASSUME NEW T, NEW t \in Seq(T), NEW x \in T, NEW s, IsPrefix(s, t), Len(s) \in Nat
  PROVE  IsPrefix(s, Append(t, x))
<1> DEFINE n == Len(s)
           u == Append(t, x)
<1>1. n <= Len(t) /\ SubSeq(s, 1, n) = SubSeq(t, 1, n)
  BY DEF IsPrefix
<1>2. u \in Seq(T) /\ Len(u) = Len(t) + 1 /\ \A i \in 1 .. Len(t) : u[i] = t[i]
  OBVIOUS
<1> HIDE DEF u
<1>3. n \in Nat
  OBVIOUS
<1> HIDE DEF n
<1>4. /\ SubSeq(t, 1, n) \in Seq(T) /\ Len(SubSeq(t, 1, n)) = n
      /\ SubSeq(u, 1, n) \in Seq(T) /\ Len(SubSeq(u, 1, n)) = n
  BY <1>1, <1>2, <1>3
<1>5. \A i \in 1 .. n : SubSeq(t, 1, n)[i] = SubSeq(u, 1, n)[i]
  BY <1>1, <1>2, <1>3
<1>6. SubSeq(t, 1, n) = SubSeq(u, 1, n)
  BY <1>4, <1>5, SeqEqual
<1> QED
  BY <1>1, <1>2, <1>3, <1>6 DEF IsPrefix, n, u

\* A removal makes the printed ids void; anything else leaves the files in their
\* places, whether or not an invocation is under way.
Shown ==
  listed # NoListing =>
    /\ wallet_file # Absent /\ pc # "rewriting"
    /\ \A kind \in Kinds : Len(listed[kind]) \in Nat /\ IsPrefix(listed[kind], Listed(wallet_file, kind))

LEMMA ShownInitially == Init => Shown
  BY DEF Init, Shown

LEMMA ShownNext == TypeOK /\ Stages /\ Shown /\ [Next]_vars => Shown'
<1> SUFFICES ASSUME TypeOK, Stages, Shown, [Next]_vars, listed' # NoListing PROVE Shown'
  BY DEF Shown
<1>1. CASE UNCHANGED <<wallet_file, listed>> /\ (pc' = "rewriting" => pc = "rewriting")
  BY <1>1 DEF Shown
<1>2. ASSUME NEW x \in WalletLines, wallet_file \in Seq(WalletLines),
             wallet_file' = Append(wallet_file, x), UNCHANGED listed, pc' # "rewriting"
      PROVE  Shown'
  <2>1. wallet_file' \in Seq(WalletLines)
    BY <1>2
  <2>2. wallet_file' # Absent
    BY <2>1, WalletsAssumption
  <2>3. ASSUME NEW kind \in Kinds
        PROVE  Len(listed[kind]) \in Nat /\ IsPrefix(listed[kind], Listed(Append(wallet_file, x), kind))
    <3> DEFINE l == Listed(wallet_file, kind)
    <3>1. l \in Seq(FileNames)
      BY <1>2, ListedIs
    <3>2. \/ Listed(Append(wallet_file, x), kind) = Append(l, x.arg) /\ x.arg \in FileNames
          \/ Listed(Append(wallet_file, x), kind) = l
      BY <1>2, ListedAppend, ParamIsEntry
    <3>3. IsPrefix(listed[kind], l) /\ Len(listed[kind]) \in Nat
      BY <1>2 DEF Shown
    <3> HIDE DEF l
    <3> QED
      BY <3>1, <3>2, <3>3, PrefixAppend
  <2> QED
    BY <1>2, <2>2, <2>3 DEF Shown
<1>3. ASSUME NEW c \in Commands, BeginAdd(c) PROVE Shown'
  <2>1. /\ pc = "loaded" /\ pc' = "appending" /\ UNCHANGED listed
        /\ wallet_file' = IF at_line_start THEN Append(wallet_file, Blank) ELSE wallet_file
    BY <1>3 DEF BeginAdd
  <2>2. wallet_file \in Seq(WalletLines)
    BY <2>1 DEF TypeOK, Stages, Loaded
  <2> QED
    BY <1>1, <1>2, <2>1, <2>2, BlankFacts
<1>4. ASSUME AppendEntry PROVE Shown'
  <2>1. pc = "appending" /\ pc' = "ended" /\ UNCHANGED listed /\ wallet_file' = Append(wallet_file, TheEntry(command))
    BY <1>4 DEF AppendEntry, EndWithoutDevice, End, historyVars
  <2>2. wallet_file \in Seq(WalletLines) /\ TheEntry(command) \in WalletLines
    BY <2>1, EntryFacts DEF TypeOK, Stages, Appending, TheEntry
  <2> QED
    BY <1>2, <2>1, <2>2
<1>5. ASSUME NEW c \in Commands, List(c) PROVE Shown'
  <2>1. /\ pc = "loaded" /\ pc' = "ended" /\ UNCHANGED wallet_file
        /\ listed' = [kind \in Kinds |-> Names(kind)]
    BY <1>5 DEF List, EndWithoutDevice, End, fileVars
  <2>2. /\ wallet_file # Absent /\ wallet_file \in Seq(WalletLines)
        /\ \A kind \in Kinds : Names(kind) = Listed(wallet_file, kind)
    BY <2>1 DEF TypeOK, Stages, Loaded
  <2>3. \A kind \in Kinds : listed'[kind] = Listed(wallet_file, kind)
    BY <2>1, <2>2
  <2>4. ASSUME NEW kind \in Kinds
        PROVE  Len(Listed(wallet_file, kind)) \in Nat
               /\ IsPrefix(Listed(wallet_file, kind), Listed(wallet_file, kind))
    <3>1. Listed(wallet_file, kind) \in Seq(FileNames)
      BY <2>2, ListedIs
    <3> QED
      BY <3>1, PrefixSelf
  <2> QED
    BY <2>1, <2>2, <2>3, <2>4 DEF Shown
<1>6. \A c \in Commands : ~BeginRemove(c)
  BY DEF BeginRemove
<1>7. ASSUME RewriteLine PROVE Shown'
  BY <1>7 DEF RewriteLine, historyVars, Shown
<1>8. ASSUME NEW c \in Commands, Immediate(c), ~List(c) PROVE Shown'
  <2>1. UNCHANGED <<wallet_file, listed>> /\ pc' = "ended"
    BY <1>8 DEF Immediate, RefuseToAdd, NothingToRemove, NoFileGiven, HelpOrMisuse, StartFails, Start,
                EndWithoutDevice, End, fileVars, historyVars
  <2> QED
    BY <1>1, <2>1
<1>9. ASSUME InvokeWithoutSwitches \/ EndRemove \/ Kill PROVE Shown'
  <2>1. UNCHANGED <<wallet_file, listed>> /\ pc' = "ended"
    BY <1>9, OtherEnds DEF End, historyVars
  <2> QED
    BY <1>1, <2>1
<1>10. ASSUME Invoke \/ Return \/ (\E f \in FileNames : Edit(f)) \/ UNCHANGED vars PROVE Shown'
  <2>1. UNCHANGED <<wallet_file, listed>> /\ (pc' = "rewriting" => pc = "rewriting")
    BY <1>10 DEF Invoke, Return, Edit, vars, fileVars, controlVars, historyVars, EndWithoutDevice, End
  <2> QED
    BY <1>1, <2>1
<1> QED
  BY <1>3, <1>4, <1>5, <1>6, <1>7, <1>8, <1>9, <1>10 DEF Next, RunCommand, Immediate

\* The ids that -w printed denote the same files in every later invocation until
\* something is removed, however many additions were made, or cut short
\* (wallet.cpp:9-40, 298-337).
THEOREM DrachmaIdsAsListed == Spec => []IdsAsListed
<1>1. TypeOK /\ Stages /\ Shown => IdsAsListed
  BY DEF Stages, Loaded, Shown, IdsAsListed
<1> QED
  BY <1>1, InitTyped, NextTyped, ShownInitially, ShownNext, PTL DEF Spec

----------------------------------------------------------------------------
\* What becomes of a file that is accepted.

\* The image of a finite set is finite.
LEMMA ImageFinite ==
  ASSUME NEW S, IsFiniteSet(S), NEW f, NEW T, T = {f[x] : x \in S}
  PROVE  IsFiniteSet(T)
<1> DEFINE g == [x \in S |-> f[x]]
<1>1. g \in [S -> T] /\ \A y \in T : \E x \in S : g[x] = y
  OBVIOUS
<1>2. g \in Surjection(S, T)
  BY <1>1 DEF Surjection
<1> QED
  BY <1>2, FS_Surjection

\* The values of a sequence are finitely many.
LEMMA RangeFinite ==
  ASSUME NEW T, NEW s \in Seq(T)
  PROVE  IsFiniteSet(ToSet(s)) /\ ToSet(s) \subseteq T
<1>1. DOMAIN s = 1 .. Len(s) /\ Len(s) \in Nat
  OBVIOUS
<1>2. IsFiniteSet(1 .. Len(s))
  BY <1>1, FS_Interval
<1>3. ToSet(s) = {s[i] : i \in 1 .. Len(s)}
  BY <1>1 DEF ToSet
<1>4. IsFiniteSet(ToSet(s))
  BY <1>2, <1>3, ImageFinite
<1>5. ToSet(s) \subseteq T
  BY <1>1, <1>3
<1> QED
  BY <1>4, <1>5

\* The maximum of finitely many numbers and one that may be negative.
LEMMA MaxIs ==
  ASSUME NEW S, IsFiniteSet(S), S \subseteq Nat, NEW g \in Int, NEW T, T = S \cup {g}
  PROVE  Max(T) \in T /\ \A y \in T : y <= Max(T)
<1> DEFINE low == IF g < 0 THEN 0 - g ELSE 0
           size == [x \in T |-> x + low]
<1>1. IsFiniteSet(T) /\ T # {} /\ T \subseteq Int
  BY FS_AddElement
<1>2. low \in Nat /\ \A x \in T : x + low \in Nat
  OBVIOUS
<1> HIDE DEF low
<1>3. size \in [T -> Nat] /\ \A x \in T : size[x] = x + low
  BY <1>2
<1> HIDE DEF size
<1>4. PICK x \in T : \A y \in T : size[y] <= size[x]
  BY <1>1, <1>3, MaximumExists
<1>5. \A y \in T : y <= x
  BY <1>1, <1>2, <1>3, <1>4
<1>6. \E z \in T : \A y \in T : z >= y
  BY <1>1, <1>5
<1>7. Max(T) \in T /\ \A y \in T : Max(T) >= y
  BY <1>6 DEF Max
<1> QED
  BY <1>1, <1>7

\* Of finitely many places one is the last.
LEMMA LatestIs ==
  ASSUME NEW S, IsFiniteSet(S), S # {}, \A p \in S : p[1] \in Nat /\ p[2] \in Nat
  PROVE  Latest(S) \in S
<1> DEFINE first == [p \in S |-> p[1]]
<1>1. PICK p \in S : \A q \in S : first[q] <= first[p]
  <2>1. first \in [S -> Nat]
    OBVIOUS
  <2> HIDE DEF first
  <2> QED
    BY <2>1, MaximumExists
<1> DEFINE R == {q \in S : q[1] = p[1]}
           second == [q \in R |-> q[2]]
<1>2. PICK r \in R : \A q \in R : second[q] <= second[r]
  <2>1. second \in [R -> Nat] /\ R # {} /\ IsFiniteSet(R)
    BY FS_Subset
  <2> HIDE DEF R, second
  <2> QED
    BY <2>1, MaximumExists
<1>3. r \in S /\ \A q \in S : q[1] < r[1] \/ (q[1] = r[1] /\ q[2] <= r[2])
  <2>1. \A q \in S : q[1] <= r[1]
    BY <1>1
  <2>2. \A q \in S : q[1] = r[1] => q[2] <= r[2]
    BY <1>2
  <2> QED
    BY <2>1, <2>2
<1> QED
  BY <1>3 DEF Latest

LEMMA PlacesAre ==
  ASSUME NEW document \in Document
  PROVE  /\ IsFiniteSet(Places(document))
         /\ \A p \in Places(document) :
              /\ p[1] \in Nat /\ p[2] \in Nat
              /\ RegionAt(document, p) \in RegionNode /\ NodeAt(document, p) \in ModuleNode
<1> DEFINE regions == document.regions
           In(r) == {<<r, m>> : m \in DOMAIN regions[r].modules}
<1>1. regions \in Seq(RegionNode)
  BY DEF Document
<1>2. DOMAIN regions = 1 .. Len(regions) /\ Len(regions) \in Nat /\ \A r \in DOMAIN regions : regions[r] \in RegionNode
  BY <1>1
<1>3. Places(document) = UNION {In(r) : r \in DOMAIN regions}
  BY DEF Places
<1> HIDE DEF regions
<1>4. ASSUME NEW r \in DOMAIN regions
      PROVE  /\ regions[r].modules \in Seq(ModuleNode)
             /\ DOMAIN regions[r].modules = 1 .. Len(regions[r].modules) /\ Len(regions[r].modules) \in Nat
  <2>1. regions[r].modules \in Seq(ModuleNode)
    BY <1>2 DEF RegionNode
  <2> QED
    BY <2>1
<1>5. ASSUME NEW r \in DOMAIN regions PROVE IsFiniteSet(In(r))
  <2> DEFINE D == DOMAIN regions[r].modules
             f == [m \in D |-> <<r, m>>]
  <2>1. IsFiniteSet(D)
    BY <1>4, FS_Interval
  <2>2. In(r) = {f[m] : m \in D}
    OBVIOUS
  <2> HIDE DEF f, D
  <2> QED
    BY <2>1, <2>2, ImageFinite
<1>6. IsFiniteSet(Places(document))
  <2> DEFINE f == [r \in DOMAIN regions |-> In(r)]
             All == {In(r) : r \in DOMAIN regions}
  <2>1. IsFiniteSet(DOMAIN regions)
    BY <1>2, FS_Interval
  <2>2. All = {f[r] : r \in DOMAIN regions}
    OBVIOUS
  <2>3. \A T \in All : IsFiniteSet(T)
    BY <1>5
  <2>4. Places(document) = UNION All
    BY <1>3
  <2> HIDE DEF f, All, In
  <2>5. IsFiniteSet(All)
    BY <2>1, <2>2, ImageFinite
  <2> QED
    BY <2>3, <2>4, <2>5, FS_UNION
<1>7. ASSUME NEW p \in Places(document)
      PROVE  /\ p[1] \in Nat /\ p[2] \in Nat
             /\ RegionAt(document, p) \in RegionNode /\ NodeAt(document, p) \in ModuleNode
  <2>1. PICK r \in DOMAIN regions : p \in In(r)
    BY <1>3
  <2>2. PICK m \in DOMAIN regions[r].modules : p = <<r, m>>
    BY <2>1
  <2>3. p[1] = r /\ p[2] = m
    BY <2>2
  <2>4. RegionAt(document, p) = regions[r] /\ NodeAt(document, p) = regions[r].modules[m]
    BY <2>3 DEF RegionAt, NodeAt, regions
  <2>5. regions[r].modules[m] \in ModuleNode
    BY <1>4
  <2> QED
    BY <1>2, <1>4, <2>3, <2>4, <2>5
<1> QED
  BY <1>6, <1>7

\* What a run needs of rr_spec_map.
IsSpecMap(map) ==
  /\ IsFiniteSet(DOMAIN map) /\ DOMAIN map \subseteq Nat
  /\ \A rr \in DOMAIN map :
       /\ IsFiniteSet(DOMAIN map[rr]) /\ DOMAIN map[rr] \subseteq Nat /\ DOMAIN map[rr] # {}
       /\ \A id \in DOMAIN map[rr] :
            map[rr][id].bitstream_width \in Nat /\ map[rr][id].tasks \in Seq(TaskNode)

IsNotFaster(map, speed) ==
  \A rr \in DOMAIN map : \A id \in DOMAIN map[rr] : \A task \in ToSet(map[rr][id].tasks) : task.speed <= speed

LEMMA SpecOfIs ==
  ASSUME NEW document \in Document, NEW p \in Places(document), NEW rr, NEW id,
         RegionAt(document, p).id = rr, NodeAt(document, p).id = id
  PROVE  \E q \in Places(document) :
           /\ SpecOf(document, rr, id).bitstream_width = RegionAt(document, q).width
           /\ SpecOf(document, rr, id).tasks = NodeAt(document, q).tasks
<1> DEFINE S == {q \in PlacesOf(document, rr) : NodeAt(document, q).id = id}
<1>1. p \in S /\ S \subseteq Places(document)
  BY DEF PlacesOf
<1>2. SpecOf(document, rr, id) =
        [bitstream_width |-> RegionAt(document, Latest(S)).width, tasks |-> NodeAt(document, Latest(S)).tasks]
  BY DEF SpecOf
<1> HIDE DEF S
<1>3. IsFiniteSet(S) /\ \A q \in S : q[1] \in Nat /\ q[2] \in Nat
  BY <1>1, PlacesAre, FS_Subset
<1>4. Latest(S) \in S
  BY <1>1, <1>3, LatestIs
<1> QED
  BY <1>1, <1>2, <1>4

LEMMA RrSpecMapIs ==
  ASSUME NEW document \in Document
  PROVE  /\ IsSpecMap(RrSpecMap(document))
         /\ \A rr \in DOMAIN RrSpecMap(document) : \A id \in DOMAIN RrSpecMap(document)[rr] :
              \E q \in Places(document) : RrSpecMap(document)[rr][id].tasks = NodeAt(document, q).tasks
<1> DEFINE map == RrSpecMap(document)
           rrs == {RegionAt(document, p).id : p \in Places(document)}
           IdsOf(rr) == {NodeAt(document, p).id : p \in PlacesOf(document, rr)}
<1>1. DOMAIN map = rrs /\ \A rr \in rrs : DOMAIN map[rr] = IdsOf(rr)
  BY DEF RrSpecMap
<1>2. \A rr \in rrs : \A id \in IdsOf(rr) : map[rr][id] = SpecOf(document, rr, id)
  BY DEF RrSpecMap
<1> HIDE DEF map
<1>3. IsFiniteSet(rrs) /\ rrs \subseteq Nat
  <2> DEFINE f == [p \in Places(document) |-> RegionAt(document, p).id]
  <2>1. rrs = {f[p] : p \in Places(document)}
    OBVIOUS
  <2>2. rrs \subseteq Nat
    BY PlacesAre DEF RegionNode
  <2> HIDE DEF f, rrs
  <2>3. IsFiniteSet(rrs)
    BY <2>1, PlacesAre, ImageFinite
  <2> QED
    BY <2>2, <2>3
<1>4. ASSUME NEW rr \in rrs PROVE IsFiniteSet(IdsOf(rr)) /\ IdsOf(rr) \subseteq Nat /\ IdsOf(rr) # {}
  <2> DEFINE places == PlacesOf(document, rr)
             f == [p \in places |-> NodeAt(document, p).id]
             ids == IdsOf(rr)
  <2>1. places \subseteq Places(document) /\ places # {}
    BY DEF PlacesOf
  <2>2. ids = {f[p] : p \in places} /\ ids # {}
    BY <2>1
  <2>3. ids \subseteq Nat
    BY <2>1, PlacesAre DEF ModuleNode
  <2> HIDE DEF places, f, ids
  <2>4. IsFiniteSet(places)
    BY <2>1, PlacesAre, FS_Subset
  <2>5. IsFiniteSet(ids)
    BY <2>2, <2>4, ImageFinite
  <2> QED
    BY <2>2, <2>3, <2>5 DEF ids
<1>5. ASSUME NEW rr \in rrs, NEW id \in IdsOf(rr)
      PROVE  /\ map[rr][id].bitstream_width \in Nat /\ map[rr][id].tasks \in Seq(TaskNode)
             /\ \E q \in Places(document) : map[rr][id].tasks = NodeAt(document, q).tasks
  <2>1. PICK p \in Places(document) : RegionAt(document, p).id = rr /\ NodeAt(document, p).id = id
    BY DEF PlacesOf
  <2>2. PICK q \in Places(document) :
          /\ SpecOf(document, rr, id).bitstream_width = RegionAt(document, q).width
          /\ SpecOf(document, rr, id).tasks = NodeAt(document, q).tasks
    BY <2>1, SpecOfIs
  <2>3. RegionAt(document, q).width \in Nat /\ NodeAt(document, q).tasks \in Seq(TaskNode)
    BY PlacesAre DEF RegionNode, ModuleNode
  <2> QED
    BY <1>2, <2>2, <2>3
<1> HIDE DEF rrs, IdsOf
<1> QED
  BY <1>1, <1>3, <1>4, <1>5 DEF IsSpecMap, map

LEMMA SpeedsAre ==
  ASSUME NEW document \in Document
  PROVE  /\ IsFiniteSet(TaskSpeeds(document)) /\ TaskSpeeds(document) \subseteq Nat
         /\ \A q \in Places(document) : \A task \in ToSet(NodeAt(document, q).tasks) :
              task.speed \in TaskSpeeds(document)
<1> DEFINE tasks(q) == NodeAt(document, q).tasks
           Of(q) == {task.speed : task \in ToSet(tasks(q))}
           All == {Of(q) : q \in Places(document)}
<1>1. TaskSpeeds(document) = UNION All
  BY DEF TaskSpeeds
<1>2. ASSUME NEW q \in Places(document) PROVE IsFiniteSet(Of(q)) /\ Of(q) \subseteq Nat
  <2> DEFINE S == ToSet(tasks(q))
             f == [task \in S |-> task.speed]
             T == Of(q)
  <2>1. tasks(q) \in Seq(TaskNode)
    BY PlacesAre DEF ModuleNode
  <2>2. IsFiniteSet(S) /\ S \subseteq TaskNode
    BY <2>1, RangeFinite
  <2>3. T = {f[task] : task \in S}
    OBVIOUS
  <2>4. T \subseteq Nat
    BY <2>2 DEF TaskNode
  <2> HIDE DEF S, f, T
  <2>5. IsFiniteSet(T)
    BY <2>2, <2>3, ImageFinite
  <2> QED
    BY <2>4, <2>5 DEF T
<1>3. IsFiniteSet(All)
  <2> DEFINE f == [q \in Places(document) |-> Of(q)]
  <2>1. All = {f[q] : q \in Places(document)}
    OBVIOUS
  <2> HIDE DEF f, All, Of
  <2> QED
    BY <2>1, PlacesAre, ImageFinite
<1>4. \A T \in All : IsFiniteSet(T) /\ T \subseteq Nat
  BY <1>2
<1>5. ASSUME NEW q \in Places(document), NEW task \in ToSet(tasks(q))
      PROVE  task.speed \in UNION All
  OBVIOUS
<1> HIDE DEF All
<1>6. IsFiniteSet(UNION All)
  BY <1>3, <1>4, FS_UNION
<1>7. UNION All \subseteq Nat
  BY <1>4
<1> QED
  BY <1>1, <1>5, <1>6, <1>7

\* What decode makes of a document can be run, unless a module is without tasks.
LEMMA AppsAre ==
  ASSUME NEW app \in Apps
  PROVE  /\ IsSpecMap(app.rr_spec_map)
         /\ app.simulator_speed = NaN \/ IsNotFaster(app.rr_spec_map, app.simulator_speed)
<1>1. PICK content \in DOMAIN Decoded, garbage \in GarbageSpeeds : app = Decoded[content][garbage]
  BY DEF Apps
<1>2. content \in Contents /\ ContentError["a"][content] = "none"
  BY DEF Decoded
<1> DEFINE document == DocumentOf[content]
<1>3. document \in Document
  <2>1. "a" \in Kinds
    BY DEF Kinds
  <2>2. ContentError["a"][content] = DecodeError(document)
    BY <1>2, <2>1 DEF ContentError
  <2>3. document # NoDocument
    BY <1>2, <2>2 DEF DecodeError
  <2> QED
    BY <1>2, <2>3, ContentsAssumption
<1>4. app = Decode(document, garbage)
  BY <1>1, <1>2 DEF Decoded
<1> HIDE DEF document
<1>5. /\ app.rr_spec_map = RrSpecMap(document)
      /\ app.simulator_speed = IF garbage = NaN THEN NaN ELSE Max(TaskSpeeds(document) \cup {garbage})
  BY <1>4 DEF Decode, FastestModuleSpeed
<1>6. garbage # NaN => garbage \in Int
  BY GarbageAssumption
<1>7. ASSUME garbage # NaN PROVE IsNotFaster(app.rr_spec_map, app.simulator_speed)
  <2> DEFINE T == TaskSpeeds(document) \cup {garbage}
  <2>1. \A y \in TaskSpeeds(document) : y <= app.simulator_speed
    <3>1. T = TaskSpeeds(document) \cup {garbage} /\ garbage \in Int
      BY <1>6, <1>7
    <3>2. app.simulator_speed = Max(T)
      BY <1>5, <1>7
    <3> HIDE DEF T
    <3>3. IsFiniteSet(TaskSpeeds(document)) /\ TaskSpeeds(document) \subseteq Nat
      BY <1>3, SpeedsAre
    <3>4. \A y \in T : y <= Max(T)
      BY <3>1, <3>3, MaxIs
    <3> QED
      BY <3>1, <3>2, <3>4
  <2> DEFINE map == RrSpecMap(document)
  <2>2. ASSUME NEW rr \in DOMAIN map, NEW id \in DOMAIN map[rr], NEW task \in ToSet(map[rr][id].tasks)
        PROVE  task.speed <= app.simulator_speed
    <3>1. PICK q \in Places(document) : map[rr][id].tasks = NodeAt(document, q).tasks
      BY <1>3, RrSpecMapIs
    <3>2. task.speed \in TaskSpeeds(document)
      BY <1>3, <3>1, SpeedsAre
    <3> QED
      BY <2>1, <3>2
  <2> QED
    BY <1>5, <2>2 DEF IsNotFaster
<1> QED
  BY <1>3, <1>5, <1>7, RrSpecMapIs

LEMMA ModuloIs ==
  ASSUME NEW n \in Nat, NEW m \in Nat, m > 0
  PROVE  /\ n % m \in Nat /\ n % m < m /\ n % m <= n
         /\ n < m => n % m = n
  BY Z3

\* What buildMemoryHierarchy makes of a memory file: at least the regions and
\* main memory.
LEMMA UnitsAre ==
  ASSUME NEW unit \in Units
  PROVE  unit.main_size \in Nat /\ unit.depth \in Nat /\ unit.depth >= 2
<1>1. PICK content \in DOMAIN Hierarchy : unit = Hierarchy[content]
  BY DEF Units
<1>2. content \in Contents /\ ContentError["m"][content] = "none"
  BY DEF Hierarchy
<1> DEFINE lines == LinesOf[content]
<1>3. unit = BuildMemoryHierarchy(lines)
  BY <1>1, <1>2 DEF Hierarchy
<1>4. lines \in Seq(ToSet(lines)) /\ \A line \in ToSet(lines) : line.level \in Nat
  BY <1>2, ContentsAssumption
<1>5. MemoryError(lines) = "none"
  <2>1. "m" \in Kinds
    BY DEF Kinds
  <2> QED
    BY <1>2, <2>1 DEF ContentError
<1> HIDE DEF lines
<1>6. LastArg(lines, "main size") \in Nat
  BY <1>5 DEF MemoryError
<1>7. UIntRange \in Nat /\ UIntRange > 0
  BY RangesAssumption
<1>8. unit.main_size \in Nat
  BY <1>3, <1>6, <1>7, ModuloIs DEF BuildMemoryHierarchy
<1> DEFINE levels == {line.level : line \in Data(lines, MemoryRules)}
           T == levels \cup {0}
<1>9. levels \subseteq {line.level : line \in ToSet(lines)}
  <2>1. ASSUME NEW line \in Data(lines, MemoryRules) PROVE line \in ToSet(lines)
    <3> DEFINE p == Parsed(lines, MemoryRules)
    <3>1. \E i \in DOMAIN p : line = p[i].line
      BY DEF Data, ToSet
    <3>2. p \in Seq(ParsedLines(ToSet(lines)))
      BY <1>4, ParsedIs
    <3> HIDE DEF p
    <3>3. \A i \in DOMAIN p : p[i] \in ParsedLines(ToSet(lines))
      BY <3>2
    <3> QED
      BY <3>1, <3>3 DEF ParsedLines
  <2> QED
    BY <2>1
<1>10. IsFiniteSet(levels) /\ levels \subseteq Nat
  <2> DEFINE S == ToSet(lines)
             f == [line \in S |-> line.level]
             L == {line.level : line \in S}
  <2>1. L = {f[line] : line \in S} /\ L \subseteq Nat
    BY <1>4
  <2>2. levels \subseteq L
    BY <1>9
  <2>3. IsFiniteSet(S)
    BY <1>4, RangeFinite
  <2> HIDE DEF S, f, L, levels
  <2>4. IsFiniteSet(L)
    BY <2>1, <2>3, ImageFinite
  <2> QED
    BY <2>1, <2>2, <2>4, FS_Subset
<1>11. Max(T) \in T /\ \A y \in T : y <= Max(T)
  <2>1. T = levels \cup {0} /\ 0 \in Int
    OBVIOUS
  <2> HIDE DEF levels, T
  <2> QED
    BY <1>10, <2>1, MaxIs
<1>12. unit.depth = 2 + Max(T)
  <2>1. T = {0} \cup levels
    OBVIOUS
  <2> QED
    BY <1>3, <2>1 DEF BuildMemoryHierarchy, Depth
<1>13. Max(T) \in Nat
  BY <1>10, <1>11
<1> HIDE DEF T
<1> QED
  BY <1>8, <1>12, <1>13

----------------------------------------------------------------------------
\* The device that is simulated.

\* How it came about: from files that were accepted, with every check passed.
Prepared ==
  \E app \in Apps : \E memory \in Units : \E width \in WidthChoices(app.rr_spec_map) :
    /\ device = PreparedDevice(app, memory, width)
    /\ ~SomeModuleWithoutTasks(app.rr_spec_map)
    /\ LibraryFits(device) /\ EveryControllerHasRegion(device)

PreparedIfSimulated == outcome = "simulated" => Prepared

LEMMA ListIndexed ==
  ASSUME NEW T, NEW list \in Seq(T), NEW id \in Nat, GetError(list, id) = "none"
  PROVE  list[id + 1] \in T
<1>1. ~(id >= Len(list)) /\ Len(list) \in Nat
  BY DEF GetError
<1>2. id + 1 \in 1 .. Len(list)
  BY <1>1
<1> QED
  BY <1>2

LEMMA StartPrepares ==
  ASSUME TypeOK, Sourced, NEW c \in Commands, Start(c), outcome' = "simulated"
  PROVE  Prepared'
<1> DEFINE ids == c.ids
<1>1. pc = "loaded" /\ StartError(ids) = "none"
  BY DEF Start
<1>2. /\ Len(ids) \in {3, 4}
      /\ GetError(memories, ids[1]) = "none" /\ GetError(applications, ids[2]) = "none"
      /\ ~SomeModuleWithoutTasks(applications[ids[2] + 1].app.rr_spec_map)
  BY <1>1, StartErrorIs
<1>3. ids[1] \in Nat /\ ids[2] \in Nat
  <2>1. ids \in Seq(Nat)
    BY CommandsAssumption
  <2> HIDE DEF ids
  <2> QED
    BY <1>2, <2>1
<1> DEFINE app == applications[ids[2] + 1].app
           memory == memories[ids[1] + 1].unit
<1>4. PICK width \in WidthChoices(app.rr_spec_map) :
        device' = PreparedDevice(app, memory, width) /\ End(ResultOf(device', ids))
  BY DEF Start
<1> HIDE DEF ids
<1>5. FromFiles
  BY <1>1 DEF Sourced
<1>6. applications[ids[2] + 1] \in [file : FileNames, app : Apps]
  BY <1>2, <1>3, <1>5, ListIndexed DEF FromFiles
<1>7. memories[ids[1] + 1] \in [file : FileNames, unit : Units]
  BY <1>2, <1>3, <1>5, ListIndexed DEF FromFiles
<1>8. app \in Apps /\ memory \in Units
  <2> HIDE DEF Apps, Units
  <2> QED
    BY <1>6, <1>7
<1>9. LibraryFits(device') /\ EveryControllerHasRegion(device')
  BY <1>4 DEF End, ResultOf
<1>10. ~SomeModuleWithoutTasks(app.rr_spec_map)
  BY <1>2
<1>11. /\ Apps' = Apps /\ Units' = Units
       /\ (\A a, b, w : PreparedDevice(a, b, w)' = PreparedDevice(a, b, w))
  BY DEF Apps, Units, Hierarchy, Decoded, PreparedDevice
<1> HIDE DEF app, memory
<1> QED
  BY <1>4, <1>8, <1>9, <1>10 DEF Prepared

\* The outcome of a simulation and its device come together.
LEMMA PreparedNext ==
  TypeOK /\ Sourced /\ PreparedIfSimulated /\ [Next]_vars => PreparedIfSimulated'
<1> SUFFICES ASSUME TypeOK, Sourced, PreparedIfSimulated, [Next]_vars, outcome' = "simulated"
             PROVE  Prepared'
  BY DEF PreparedIfSimulated
<1>1. CASE UNCHANGED <<outcome, device>>
  BY <1>1 DEF PreparedIfSimulated, Prepared
<1>2. \A r : End(r) => r = "simulated"
  BY DEF End
<1>3. \A c \in Commands :
        ~(RefuseToAdd(c) \/ NothingToRemove(c) \/ NoFileGiven(c) \/ List(c) \/ HelpOrMisuse(c))
  BY <1>2 DEF RefuseToAdd, NothingToRemove, NoFileGiven, List, HelpOrMisuse, EndWithoutDevice
<1>4. \A c \in Commands : ~StartFails(c)
  BY <1>2, StartErrorIs DEF StartFails, EndWithoutDevice
<1>5. ~(InvokeWithoutSwitches \/ EndRemove \/ Kill) /\ ~AppendEntry /\ ~Return
  BY <1>2, OtherEnds DEF AppendEntry, EndWithoutDevice, Return
<1>6. CASE Invoke
  <2>1. LoadError # "simulated"
    BY LoadErrorIs DEF TypeOK, EntryErrors
  <2> QED
    BY <1>1, <1>2, <1>6, <2>1 DEF Invoke, EndWithoutDevice
<1>7. RewriteLine \/ UNCHANGED vars \/ (\E c \in Commands : BeginAdd(c) \/ BeginRemove(c))
        \/ (\E f \in FileNames : Edit(f)) => UNCHANGED <<outcome, device>>
  BY DEF RewriteLine, BeginAdd, BeginRemove, Edit, vars
<1> QED
  BY <1>1, <1>3, <1>4, <1>5, <1>6, <1>7, StartPrepares DEF Next, RunCommand

LEMMA RequiredIs ==
  ASSUME NEW map, IsSpecMap(map), NEW width \in WidthChoices(map)
  PROVE  RequiredSpace(map, width) \in Nat
<1> DEFINE D == DOMAIN map
           f == [rr \in D |-> Cardinality(DOMAIN map[rr]) * width[rr]]
<1>1. IsFiniteSet(D)
  BY DEF IsSpecMap
<1>2. ASSUME NEW rr \in D PROVE f[rr] \in Nat
  <2>1. Cardinality(DOMAIN map[rr]) \in Nat
    BY FS_CardinalityType DEF IsSpecMap
  <2>2. \E id \in DOMAIN map[rr] : width[rr] = map[rr][id].bitstream_width
    BY DEF WidthChoices
  <2>3. width[rr] \in Nat
    BY <2>2 DEF IsSpecMap
  <2> QED
    BY <2>1, <2>3
<1>3. RequiredSpace(map, width) = SumFunctionOnSet(f, D)
  BY DEF RequiredSpace
<1> HIDE DEF f, D
<1> QED
  BY <1>1, <1>2, <1>3, SumType

\* A library that fits, as far as its space was summed up, is no larger than main
\* memory, whose size may count for less than it is.
LEMMA FitsIs ==
  ASSUME NEW d, d.main_size \in Nat, d.required \in Nat, LibraryFits(d)
  PROVE  d.required % UIntRange <= d.main_size
<1> DEFINE size == d.main_size
           required == d.required
<1>1. size \in Nat /\ required \in Nat /\ size % UShortRange >= required % UIntRange
  BY DEF LibraryFits, GetSize
<1> HIDE DEF size, required
<1>2. UShortRange \in Nat /\ UShortRange > 0 /\ UIntRange \in Nat /\ UIntRange > 0
  BY RangesAssumption
<1>3. size % UShortRange \in Nat /\ size % UShortRange <= size
  BY <1>1, <1>2, ModuloIs
<1>4. required % UIntRange \in Nat
  BY <1>1, <1>2, ModuloIs
<1>5. required % UIntRange <= size
  BY <1>1, <1>3, <1>4
<1> QED
  BY <1>5 DEF size, required

LEMMA WellFormed ==
  ASSUME Prepared
  PROVE  outcome = "simulated" => SimulatedIsWellFormed
<1>1. PICK app \in Apps, memory \in Units : \E width \in WidthChoices(app.rr_spec_map) :
        /\ device = PreparedDevice(app, memory, width)
        /\ ~SomeModuleWithoutTasks(app.rr_spec_map)
        /\ LibraryFits(device) /\ EveryControllerHasRegion(device)
  BY DEF Prepared
<1>2. PICK width \in WidthChoices(app.rr_spec_map) : device = PreparedDevice(app, memory, width)
  BY <1>1
<1> DEFINE map == app.rr_spec_map
           D == DOMAIN map
           n == Cardinality(D)
<1>3. /\ device.rr_spec_map = map /\ device.simulator_speed = app.simulator_speed
      /\ device.capabilities = TaskCapabilities(map) /\ device.depth = memory.depth
      /\ device.main_size = memory.main_size /\ device.required = RequiredSpace(map, width)
  BY <1>2 DEF PreparedDevice
<1>4. IsSpecMap(map) /\ (app.simulator_speed = NaN \/ IsNotFaster(map, app.simulator_speed))
  BY AppsAre
<1>5. LibraryFits(device) /\ EveryControllerHasRegion(device) /\ ~SomeModuleWithoutTasks(map)
  BY <1>1
<1>6. device.depth >= 2 /\ device.required % UIntRange <= device.main_size
  <2>1. memory.main_size \in Nat /\ memory.depth \in Nat /\ memory.depth >= 2
    BY UnitsAre
  <2>2. RequiredSpace(map, width) \in Nat
    BY <1>4, RequiredIs
  <2> QED
    BY <1>3, <1>5, <2>1, <2>2, FitsIs
<1> HIDE DEF map
<1>7. n \in Nat /\ D = 0 .. n - 1
  <2> DEFINE T == 0 .. n - 1
  <2>1. IsFiniteSet(D) /\ n \in Nat
    BY <1>4, FS_CardinalityType DEF IsSpecMap
  <2>2. T \subseteq D
    BY <1>3, <1>5 DEF EveryControllerHasRegion
  <2> HIDE DEF n
  <2>3. Cardinality(T) = n
    BY <2>1, FS_Interval
  <2> HIDE DEF T, D
  <2>4. D = T
    BY <2>1, <2>2, <2>3, FS_Subset DEF n
  <2> QED
    BY <2>1, <2>4 DEF T
<1>8. Simulated!RrIds = D
  BY <1>3, <1>7 DEF Simulated!RrIds
<1>9. DeviceBitstreams = UNION {{[region_id |-> rr, id |-> id] : id \in DOMAIN map[rr]} : rr \in D}
  BY <1>3 DEF DeviceBitstreams
<1>10. ASSUME NEW rr \in D, NEW id \in DOMAIN map[rr]
       PROVE  /\ [region_id |-> rr, id |-> id] \in DeviceBitstreams
              /\ TasksOf([region_id |-> rr, id |-> id]) = ToSet(map[rr][id].tasks)
  BY <1>3, <1>9 DEF TasksOf
<1>11. ASSUME NEW bs \in DeviceBitstreams
       PROVE  \E rr \in D : \E id \in DOMAIN map[rr] : bs = [region_id |-> rr, id |-> id]
  BY <1>9
<1> HIDE DEF D
<1>12. DeviceBitstreams \subseteq Simulated!BitstreamId
  <2> SUFFICES ASSUME NEW bs \in DeviceBitstreams PROVE bs \in Simulated!BitstreamId
    OBVIOUS
  <2>0. PICK rr \in D : \E id \in DOMAIN map[rr] : bs = [region_id |-> rr, id |-> id]
    BY <1>11
  <2>1. PICK id \in DOMAIN map[rr] : bs = [region_id |-> rr, id |-> id]
    BY <2>0
  <2>2. id \in Nat
    BY <1>4 DEF IsSpecMap, D
  <2> QED
    BY <1>8, <2>1, <2>2 DEF Simulated!BitstreamId
<1>13. \A rr \in Simulated!RrIds : \E bs \in DeviceBitstreams : bs.region_id = rr
  <2> SUFFICES ASSUME NEW rr \in D PROVE \E bs \in DeviceBitstreams : bs.region_id = rr
    BY <1>8
  <2>1. PICK id \in DOMAIN map[rr] : TRUE
    BY <1>4 DEF IsSpecMap, D
  <2> QED
    BY <1>10, <2>1
<1>14. \A bs \in DeviceBitstreams : TasksOf(bs) # {}
  <2> SUFFICES ASSUME NEW bs \in DeviceBitstreams PROVE TasksOf(bs) # {}
    OBVIOUS
  <2>0. PICK rr \in D : \E id \in DOMAIN map[rr] : bs = [region_id |-> rr, id |-> id]
    BY <1>11
  <2>1. PICK id \in DOMAIN map[rr] : bs = [region_id |-> rr, id |-> id]
    BY <2>0
  <2> DEFINE tasks == map[rr][id].tasks
  <2>2. tasks # <<>>
    BY <1>5 DEF SomeModuleWithoutTasks, D
  <2>3. tasks \in Seq(TaskNode)
    BY <1>4 DEF IsSpecMap, D
  <2>4. TasksOf(bs) = ToSet(tasks)
    BY <1>10, <2>1
  <2> HIDE DEF tasks
  <2>5. 1 \in DOMAIN tasks
    BY <2>2, <2>3
  <2> QED
    BY <2>4, <2>5 DEF ToSet
<1>15. device.simulator_speed = NaN
       \/ \A bs \in DeviceBitstreams : \A task \in TasksOf(bs) : task.speed <= device.simulator_speed
  <2> SUFFICES ASSUME device.simulator_speed # NaN, NEW bs \in DeviceBitstreams, NEW task \in TasksOf(bs)
               PROVE  task.speed <= device.simulator_speed
    OBVIOUS
  <2>0. PICK rr \in D : \E id \in DOMAIN map[rr] : bs = [region_id |-> rr, id |-> id]
    BY <1>11
  <2>1. PICK id \in DOMAIN map[rr] : bs = [region_id |-> rr, id |-> id]
    BY <2>0
  <2>2. task \in ToSet(map[rr][id].tasks)
    BY <1>10, <2>1
  <2> QED
    BY <1>3, <1>4, <2>2 DEF IsNotFaster, D
<1> DEFINE Types(rr, id) == {task.type : task \in ToSet(map[rr][id].tasks)}
<1>16. /\ \A type \in DOMAIN device.capabilities :
            device.capabilities[type] = {rr \in D : \E id \in DOMAIN map[rr] : type \in Types(rr, id)}
  <2> DEFINE TypesIn(rr) == UNION {Types(rr, id) : id \in DOMAIN map[rr]}
  <2>1. TaskCapabilities(map) =
          [type \in UNION {TypesIn(rr) : rr \in D} |-> {rr \in D : type \in TypesIn(rr)}]
    BY DEF TaskCapabilities, D
  <2>2. \A type : \A rr \in D : type \in TypesIn(rr) <=> \E id \in DOMAIN map[rr] : type \in Types(rr, id)
    OBVIOUS
  <2> HIDE DEF TypesIn
  <2> QED
    BY <1>3, <2>1, <2>2
<1>17. ASSUME NEW type
       PROVE  Simulated!CapableRrs(type) = {rr \in D : \E id \in DOMAIN map[rr] : type \in Types(rr, id)}
  <2> DEFINE Tasks == [bs \in DeviceBitstreams |-> [t \in {task.type : task \in TasksOf(bs)} |-> bs]]
  <2>1. \A rr : Simulated!Implementations(rr, type) =
                  {bs \in DeviceBitstreams : bs.region_id = rr /\ type \in DOMAIN Tasks[bs]}
    BY DEF Simulated!Implementations
  <2>2. ASSUME NEW bs \in DeviceBitstreams PROVE DOMAIN Tasks[bs] = {task.type : task \in TasksOf(bs)}
    OBVIOUS
  <2> HIDE DEF Tasks
  <2>3. ASSUME NEW rr \in D
        PROVE  Simulated!Implementations(rr, type) # {} <=> \E id \in DOMAIN map[rr] : type \in Types(rr, id)
    <3>1. ASSUME NEW id \in DOMAIN map[rr], type \in Types(rr, id)
          PROVE  Simulated!Implementations(rr, type) # {}
      <4> DEFINE bs == [region_id |-> rr, id |-> id]
      <4>1. bs \in DeviceBitstreams /\ bs.region_id = rr /\ TasksOf(bs) = ToSet(map[rr][id].tasks)
        BY <1>10
      <4> HIDE DEF bs
      <4> QED
        BY <2>1, <2>2, <3>1, <4>1
    <3>2. ASSUME NEW bs \in Simulated!Implementations(rr, type)
          PROVE  \E id \in DOMAIN map[rr] : type \in Types(rr, id)
      <4>1. bs \in DeviceBitstreams /\ bs.region_id = rr /\ type \in {task.type : task \in TasksOf(bs)}
        BY <2>1, <2>2
      <4>0. PICK r \in D : \E id \in DOMAIN map[r] : bs = [region_id |-> r, id |-> id]
        BY <1>11, <4>1
      <4>2. PICK id \in DOMAIN map[r] : bs = [region_id |-> r, id |-> id]
        BY <4>0
      <4>3. r = rr
        BY <4>1, <4>2
      <4>4. TasksOf(bs) = ToSet(map[rr][id].tasks)
        BY <1>10, <4>2, <4>3
      <4> QED
        BY <4>1, <4>2, <4>3, <4>4
    <3> QED
      BY <3>1, <3>2
  <2> HIDE DEF Types
  <2> QED
    BY <1>8, <2>3 DEF Simulated!CapableRrs
<1>18. \A type \in DOMAIN device.capabilities :
         device.capabilities[type] = Simulated!CapableRrs(type)
  <2> HIDE DEF Types
  <2> QED
    BY <1>16, <1>17
<1> QED
  BY <1>6, <1>12, <1>13, <1>14, <1>15, <1>18 DEF SimulatedIsWellFormed

\* A simulation that gets through its first cycle has an application and a
\* memory hierarchy as the modules of the simulation assume them, whatever the
\* files hold (device.cpp:46-95, 111-114, yaml/application.cpp:58-99).
THEOREM DrachmaSimulates == Spec => []SimulatedIsWellFormed
<1>1. PreparedIfSimulated => SimulatedIsWellFormed
  BY WellFormed DEF PreparedIfSimulated, SimulatedIsWellFormed
<1>2. Init => PreparedIfSimulated
  BY DEF Init, PreparedIfSimulated
<1> QED
  BY <1>1, <1>2, InitTyped, NextTyped, SourcedInitially, SourcedNext, PreparedNext, PTL DEF Spec

----------------------------------------------------------------------------
\* Selections of parts of a sequence.

LEMMA SeqSplit ==
  ASSUME NEW T, NEW u \in Seq(T), NEW n \in 0 .. Len(u)
  PROVE  /\ SubSeq(u, 1, n) \in Seq(T) /\ Len(SubSeq(u, 1, n)) = n
         /\ SubSeq(u, n + 1, Len(u)) \in Seq(T)
         /\ u = SubSeq(u, 1, n) \o SubSeq(u, n + 1, Len(u))
<1> DEFINE a == SubSeq(u, 1, n)
           b == SubSeq(u, n + 1, Len(u))
           m == Len(u)
<1>1. m \in Nat /\ n \in Int
  OBVIOUS
<1>2. /\ a \in Seq(T) /\ Len(a) = n /\ \A i \in 1 .. n : a[i] = u[i]
      /\ b \in Seq(T) /\ Len(b) = m - n /\ \A i \in 1 .. m - n : b[i] = u[n + i]
  OBVIOUS
<1>3. SubSeq(u, 1, n) \o SubSeq(u, n + 1, m) = SubSeq(u, 1, m)
  <2> DEFINE one == 1
  <2>1. one \in 1 .. m + 1 /\ n \in one - 1 .. m /\ m \in n .. m
    OBVIOUS
  <2> HIDE DEF one, m
  <2>2. SubSeq(u, one, n) \o SubSeq(u, n + 1, m) = SubSeq(u, one, m)
    BY <2>1, ConcatAdjacentSubSeq DEF m
  <2> QED
    BY <2>2 DEF one
<1>4. u = a \o b
  BY <1>3, SubSeqFull
<1> QED
  BY <1>2, <1>4

\* The beginning of a concatenation.
LEMMA ConcatHead ==
  ASSUME NEW T, NEW a \in Seq(T), NEW b \in Seq(T)
  PROVE  Len(a) <= Len(a \o b) /\ SubSeq(a \o b, 1, Len(a)) = a
<1> DEFINE c == a \o b
           n == Len(a)
<1>1. c \in Seq(T) /\ Len(c) = n + Len(b) /\ Len(b) \in Nat /\ n \in Nat /\ \A i \in 1 .. n : c[i] = a[i]
  OBVIOUS
<1> HIDE DEF c, n
<1>2. SubSeq(c, 1, n) \in Seq(T) /\ Len(SubSeq(c, 1, n)) = n /\ \A i \in 1 .. n : SubSeq(c, 1, n)[i] = a[i]
  BY <1>1
<1>3. SubSeq(c, 1, n) = a
  BY <1>2, SeqEqual DEF n
<1> QED
  BY <1>1, <1>3 DEF c, n

\* What is kept of a sequence's head is the head of what is kept of it.
LEMMA KeptHeadOf ==
  ASSUME NEW T, NEW u \in Seq(T), NEW n \in 0 .. Len(u), NEW S
  PROVE  \E m \in 0 .. Len(Kept(u, S)) : Kept(SubSeq(u, 1, n), S) = SubSeq(Kept(u, S), 1, m)
<1> DEFINE a == SubSeq(u, 1, n)
           b == SubSeq(u, n + 1, Len(u))
<1>1. a \in Seq(T) /\ b \in Seq(T) /\ u = a \o b
  BY SeqSplit
<1> HIDE DEF a, b
<1>2. Kept(a, S) \in Seq(T) /\ Kept(b, S) \in Seq(T) /\ Kept(u, S) \in Seq(T)
  BY <1>1, KeptType
<1>3. Kept(u, S) = Kept(a, S) \o Kept(b, S)
  BY <1>1, KeptConcat
<1>4. Len(Kept(a, S)) <= Len(Kept(u, S)) /\ SubSeq(Kept(u, S), 1, Len(Kept(a, S))) = Kept(a, S)
  BY <1>2, <1>3, ConcatHead
<1>5. Len(Kept(a, S)) \in 0 .. Len(Kept(u, S))
  BY <1>2, <1>4
<1> QED
  BY <1>4, <1>5 DEF a

\* To remove an element that is kept is to remove it from what is kept, at a
\* place that only elements before it precede.
KeptAt(u, k, S, p) ==
  /\ p \in 1 .. Len(Kept(u, S)) /\ Kept(u, S)[p] = u[k]
  /\ Kept(RemoveAt(u, k), S) = RemoveAt(Kept(u, S), p)
  /\ \A q \in 1 .. p - 1 : \E i \in 1 .. k - 1 : Kept(u, S)[q] = u[i]

LEMMA KeptRemove ==
  ASSUME NEW T, NEW u \in Seq(T), NEW k \in 1 .. Len(u), NEW S, u[k] \in S
  PROVE  \E p : KeptAt(u, k, S, p)
<1> DEFINE e == u[k]
           a == SubSeq(u, 1, k - 1)
           b == SubSeq(u, k + 1, Len(u))
           ka == Kept(a, S)
           kb == Kept(b, S)
           kept == Kept(u, S)
           p == Len(ka) + 1
<1>1. /\ a \in Seq(T) /\ Len(a) = k - 1 /\ \A i \in 1 .. k - 1 : a[i] = u[i]
      /\ b \in Seq(T) /\ e \in T
  OBVIOUS
<1>2. u = Append(a, e) \o b
  <2>1. k \in 0 .. Len(u)
    OBVIOUS
  <2>2. u = SubSeq(u, 1, k) \o b
    BY <2>1, SeqSplit
  <2>3. SubSeq(u, 1, k) = Append(a, e)
    <3>1. SubSeq(u, 1, k) \in Seq(T) /\ Len(SubSeq(u, 1, k)) = k /\ \A i \in 1 .. k : SubSeq(u, 1, k)[i] = u[i]
      OBVIOUS
    <3> HIDE DEF a, e
    <3>2. /\ Append(a, e) \in Seq(T) /\ Len(Append(a, e)) = k /\ Append(a, e)[k] = e
          /\ \A i \in 1 .. k - 1 : Append(a, e)[i] = a[i]
      BY <1>1
    <3>3. \A i \in 1 .. k : i \in 1 .. k - 1 \/ i = k
      OBVIOUS
    <3>4. \A i \in 1 .. k : SubSeq(u, 1, k)[i] = Append(a, e)[i]
      BY <1>1, <3>1, <3>2, <3>3 DEF e
    <3> QED
      BY <3>1, <3>2, <3>4, SeqEqual
  <2> QED
    BY <2>2, <2>3
<1>3. RemoveAt(u, k) = a \o b
  BY DEF RemoveAt
<1>4. e \in S
  OBVIOUS
<1> HIDE DEF a, b, e
<1>5. ka \in Seq(T) /\ kb \in Seq(T) /\ kept \in Seq(T)
  BY <1>1, KeptType
<1>6. kept = Append(ka, e) \o kb
  <2> DEFINE c == Append(a, e)
  <2>1. c \in Seq(T) /\ b \in Seq(T) /\ u = c \o b
    BY <1>1, <1>2
  <2>2. Kept(c, S) = Append(ka, e)
    BY <1>1, <1>4, KeptAppend
  <2> HIDE DEF c
  <2>3. Kept(c \o b, S) = Kept(c, S) \o kb
    BY <2>1, KeptConcat
  <2> QED
    BY <2>1, <2>2, <2>3
<1>7. Kept(RemoveAt(u, k), S) = ka \o kb
  BY <1>1, <1>3, KeptConcat
<1>8. ASSUME NEW q \in 1 .. Len(ka) PROVE \E i \in 1 .. k - 1 : ka[q] = u[i]
  <2> HIDE DEF ka
  <2>1. \E i \in 1 .. Len(a) : a[i] = ka[q]
    BY <1>1, KeptFrom DEF ka
  <2> QED
    BY <1>1, <2>1
<1> HIDE DEF ka, kb, kept
<1>9. /\ Len(kept) = Len(ka) + 1 + Len(kb) /\ Len(ka) \in Nat /\ Len(kb) \in Nat
      /\ kept[p] = e /\ \A q \in 1 .. Len(ka) : kept[q] = ka[q]
      /\ \A q \in 1 .. Len(kb) : kept[p + q] = kb[q]
  <2> DEFINE c == Append(ka, e)
  <2>1. /\ c \in Seq(T) /\ Len(c) = Len(ka) + 1 /\ c[Len(ka) + 1] = e /\ \A q \in 1 .. Len(ka) : c[q] = ka[q]
        /\ Len(ka) \in Nat /\ Len(kb) \in Nat
    BY <1>1, <1>5
  <2> HIDE DEF c
  <2>2. kept = c \o kb
    BY <1>6 DEF c
  <2>3. /\ Len(kept) = Len(c) + Len(kb)
        /\ \A q \in 1 .. Len(c) + Len(kb) : kept[q] = IF q <= Len(c) THEN c[q] ELSE kb[q - Len(c)]
    <3>1. c \in Seq(T)
      BY <2>1
    <3>2. kb \in Seq(T)
      BY <1>5
    <3>3. /\ Len(c \o kb) = Len(c) + Len(kb)
          /\ \A q \in 1 .. Len(c) + Len(kb) : (c \o kb)[q] = IF q <= Len(c) THEN c[q] ELSE kb[q - Len(c)]
      BY <3>1, <3>2, ConcatProperties
    <3> QED
      BY <2>2, <3>3
  <2>4. ASSUME NEW q \in 1 .. Len(kb) PROVE kept[p + q] = kb[q]
    <3>1. p + q \in 1 .. Len(c) + Len(kb) /\ ~(p + q <= Len(c)) /\ p + q - Len(c) = q
      BY <2>1
    <3> QED
      BY <2>3, <3>1
  <2>5. kept[p] = e
    <3>1. p \in 1 .. Len(c) + Len(kb) /\ p <= Len(c) /\ p = Len(ka) + 1
      BY <2>1
    <3> QED
      BY <2>1, <2>3, <3>1
  <2>6. ASSUME NEW q \in 1 .. Len(ka) PROVE kept[q] = ka[q]
    <3>1. q \in 1 .. Len(c) + Len(kb) /\ q <= Len(c)
      BY <2>1
    <3> QED
      BY <2>1, <2>3, <3>1
  <2> QED
    BY <2>1, <2>3, <2>4, <2>5, <2>6
<1>10. RemoveAt(kept, p) = ka \o kb
  <2>1. p \in 1 .. Len(kept)
    BY <1>9
  <2>2. SubSeq(kept, 1, p - 1) = ka
    <3>1. /\ SubSeq(kept, 1, p - 1) \in Seq(T) /\ Len(SubSeq(kept, 1, p - 1)) = p - 1
          /\ \A q \in 1 .. p - 1 : SubSeq(kept, 1, p - 1)[q] = kept[q]
      BY <1>5, <1>9
    <3>2. p - 1 = Len(ka)
      BY <1>9
    <3> QED
      BY <1>5, <1>9, <3>1, <3>2, SeqEqual
  <2>3. SubSeq(kept, p + 1, Len(kept)) = kb
    <3>1. /\ SubSeq(kept, p + 1, Len(kept)) \in Seq(T) /\ Len(SubSeq(kept, p + 1, Len(kept))) = Len(kb)
          /\ \A q \in 1 .. Len(kb) : SubSeq(kept, p + 1, Len(kept))[q] = kept[p + q]
      BY <1>5, <1>9
    <3> QED
      BY <1>5, <1>9, <3>1, SeqEqual
  <2> QED
    BY <2>2, <2>3 DEF RemoveAt
<1>11. p \in 1 .. Len(kept) /\ \A q \in 1 .. p - 1 : \E i \in 1 .. k - 1 : kept[q] = u[i]
  <2>1. p \in 1 .. Len(kept) /\ p - 1 = Len(ka)
    BY <1>9
  <2> QED
    BY <1>8, <1>9, <2>1
<1>12. KeptAt(u, k, S, p)
  BY <1>7, <1>9, <1>10, <1>11 DEF KeptAt, kept, e
<1> QED
  BY <1>12

----------------------------------------------------------------------------
\* The entries of a text, in force and commented out.

Items == [entry : Entries, in_force : BOOLEAN]
Marks(T) == [entry : T, in_force : BOOLEAN]

Mark(s, i) == [entry |-> s[i], in_force |-> ~InBlock(s)[i]]

LEMMA MarkedIs ==
  ASSUME NEW T, NEW s \in Seq(T)
  PROVE  /\ Marked(s) \in Seq(Marks(T)) /\ Len(Marked(s)) = Len(s)
         /\ \A i \in 1 .. Len(s) : Marked(s)[i] = Mark(s, i)
<1> DEFINE m == Marked(s)
<1>1. DOMAIN s = 1 .. Len(s) /\ Len(s) \in Nat
  OBVIOUS
<1>2. m = [i \in 1 .. Len(s) |-> Mark(s, i)]
  BY <1>1 DEF Marked, Mark
<1>3. ASSUME NEW i \in 1 .. Len(s) PROVE Mark(s, i) \in Marks(T)
  <2>1. s[i] \in T /\ (~InBlock(s)[i]) \in BOOLEAN
    OBVIOUS
  <2> QED
    BY <2>1 DEF Mark, Marks
<1> HIDE DEF m
<1>4. m \in [1 .. Len(s) -> Marks(T)]
  BY <1>2, <1>3
<1>5. m \in Seq(Marks(T)) /\ Len(m) = Len(s)
  BY <1>1, <1>4
<1>6. \A i \in 1 .. Len(s) : m[i] = Mark(s, i)
  BY <1>2
<1> QED
  BY <1>5, <1>6 DEF m

LEMMA ItemsType ==
  ASSUME NEW T, NEW s \in Seq(T)
  PROVE  ItemsOf(s) \in Seq(Items)
<1> DEFINE m == Marked(s)
           kept == Kept(m, Items)
<1>1. m \in Seq(Marks(T))
  BY MarkedIs
<1> HIDE DEF m
<1>2. kept \in Seq(Marks(T))
  BY <1>1, KeptType
<1>3. ASSUME NEW i \in 1 .. Len(kept) PROVE kept[i] \in Items
  BY <1>1, KeptFrom
<1>4. ItemsOf(s) = kept
  BY DEF ItemsOf, Items, m
<1> HIDE DEF kept
<1>5. kept \in Seq(Items)
  BY <1>2, <1>3
<1> QED
  BY <1>4, <1>5

\* The block a text ends in goes on after a line that is no comment.
LEMMA BlockAfter ==
  ASSUME NEW T, NEW s \in Seq(T), NEW x \in T, x.start \notin {"/#", "#/"}
  PROVE  InBlock(Append(s, x))[Len(s) + 1] <=> InBlock(s)[Len(s)]
<1> DEFINE t == Append(s, x)
           n == Len(s)
<1>1. t \in Seq(T) /\ Len(t) = n + 1 /\ t[n + 1] = x /\ n \in Nat /\ n < Len(t) /\ n \in 0 .. n
  OBVIOUS
<1>2. InBlock(t)[n] <=> InBlock(s)[n]
  BY <1>1, BlockAppend
<1> HIDE DEF t, n
<1>3. InBlock(t)[n + 1] <=> IF InBlock(t)[n] THEN t[n + 1].start # "#/" ELSE t[n + 1].start = "/#"
  BY <1>1, BlockSteps
<1> QED
  BY <1>1, <1>2, <1>3 DEF t, n

LEMMA BlockTruth ==
  ASSUME NEW T, NEW s \in Seq(T), NEW i \in 0 .. Len(s)
  PROVE  InBlock(s)[i] \in BOOLEAN
  BY BlockSteps

LEMMA SameBlock ==
  ASSUME NEW T, NEW s \in Seq(T), NEW t \in Seq(T), NEW i \in 0 .. Len(s), NEW j \in 0 .. Len(t),
         InBlock(s)[i] <=> InBlock(t)[j]
  PROVE  InBlock(s)[i] = InBlock(t)[j]
<1> DEFINE x == InBlock(s)[i]
           y == InBlock(t)[j]
<1>1. x \in BOOLEAN
  BY BlockTruth
<1>2. y \in BOOLEAN
  BY BlockTruth
<1>3. x <=> y
  OBVIOUS
<1> HIDE DEF x, y
<1>4. x = y
  BY <1>1, <1>2, <1>3, Zenon
<1> QED
  BY <1>4 DEF x, y

LEMMA MarkedAppend ==
  ASSUME NEW T, NEW s \in Seq(T), NEW x \in T, x.start \notin {"/#", "#/"}
  PROVE  Marked(Append(s, x)) = Append(Marked(s), [entry |-> x, in_force |-> ~InBlock(s)[Len(s)]])
<1> DEFINE t == Append(s, x)
           e == [entry |-> x, in_force |-> ~InBlock(s)[Len(s)]]
           p == Marked(s)
           q == Marked(t)
<1>1. /\ t \in Seq(T) /\ Len(t) = Len(s) + 1 /\ Len(s) \in Nat
      /\ t[Len(s) + 1] = x /\ \A i \in 1 .. Len(s) : t[i] = s[i]
  OBVIOUS
<1>2. e \in Marks(T)
  BY DEF Marks
<1>3. InBlock(t)[Len(s) + 1] = InBlock(s)[Len(s)]
  <2>1. InBlock(t)[Len(s) + 1] <=> InBlock(s)[Len(s)]
    BY BlockAfter
  <2>2. Len(s) + 1 \in 0 .. Len(t) /\ Len(s) \in 0 .. Len(s)
    BY <1>1
  <2> HIDE DEF t
  <2> QED
    BY <1>1, <2>1, <2>2, SameBlock
<1>4. ASSUME NEW i \in 1 .. Len(s) PROVE InBlock(t)[i] = InBlock(s)[i]
  <2>1. InBlock(t)[i] <=> InBlock(s)[i]
    BY BlockAppend
  <2>2. i \in 0 .. Len(t) /\ i \in 0 .. Len(s)
    BY <1>1
  <2> HIDE DEF t
  <2> QED
    BY <1>1, <2>1, <2>2, SameBlock
<1>5. Mark(t, Len(s) + 1) = e /\ \A i \in 1 .. Len(s) : Mark(t, i) = Mark(s, i)
  <2> HIDE DEF t
  <2> QED
    BY <1>1, <1>3, <1>4 DEF Mark
<1> HIDE DEF t, e
<1>6. /\ p \in Seq(Marks(T)) /\ Len(p) = Len(s) /\ \A i \in 1 .. Len(s) : p[i] = Mark(s, i)
  BY MarkedIs
<1>7. /\ q \in Seq(Marks(T)) /\ Len(q) = Len(t) /\ \A i \in 1 .. Len(t) : q[i] = Mark(t, i)
  BY <1>1, MarkedIs
<1> HIDE DEF p, q
<1>8. /\ Append(p, e) \in Seq(Marks(T)) /\ Len(Append(p, e)) = Len(s) + 1
      /\ Append(p, e)[Len(s) + 1] = e /\ \A i \in 1 .. Len(s) : Append(p, e)[i] = p[i]
  BY <1>2, <1>6
<1>9. ASSUME NEW i \in 1 .. Len(q) PROVE q[i] = Append(p, e)[i]
  <2>1. i \in 1 .. Len(t)
    BY <1>7
  <2>2. i \in 1 .. Len(s) \/ i = Len(s) + 1
    BY <1>1, <2>1
  <2> QED
    BY <1>5, <1>6, <1>7, <1>8, <2>1, <2>2
<1>10. q = Append(p, e)
  BY <1>1, <1>7, <1>8, <1>9, SeqEqual
<1> QED
  BY <1>10 DEF p, q, t, e

\* An entry that is written becomes the last one, another line none.
LEMMA ItemsAppend ==
  ASSUME NEW T, NEW s \in Seq(T), NEW x \in T, x.start \notin {"/#", "#/"}
  PROVE  ItemsOf(Append(s, x)) =
           IF x \in Entries THEN Append(ItemsOf(s), [entry |-> x, in_force |-> ~InBlock(s)[Len(s)]])
                            ELSE ItemsOf(s)
<1> DEFINE e == [entry |-> x, in_force |-> ~InBlock(s)[Len(s)]]
           m == Marked(s)
<1>1. Marked(Append(s, x)) = Append(m, e)
  BY MarkedAppend
<1>2. m \in Seq(Marks(T)) /\ e \in Marks(T)
  BY MarkedIs DEF Marks
<1>3. e \in Items <=> x \in Entries
  BY DEF Items
<1>4. ItemsOf(Append(s, x)) = Kept(Append(m, e), Items) /\ ItemsOf(s) = Kept(m, Items)
  BY <1>1 DEF ItemsOf, Items
<1> HIDE DEF e, m
<1>5. Kept(Append(m, e), Items) = IF e \in Items THEN Append(Kept(m, Items), e) ELSE Kept(m, Items)
  BY <1>2, KeptAppend
<1> QED
  BY <1>3, <1>4, <1>5 DEF e

LEMMA MarkIs ==
  ASSUME NEW s, NEW i
  PROVE  Mark(s, i).entry = s[i] /\ (Mark(s, i) \in Items <=> s[i] \in Entries)
<1> DEFINE b == ~InBlock(s)[i]
           x == s[i]
<1>1. b \in BOOLEAN
  OBVIOUS
<1>2. Mark(s, i) = [entry |-> x, in_force |-> b]
  BY DEF Mark
<1> HIDE DEF b, x
<1>3. Mark(s, i).entry = x
  BY <1>2
<1>4. Mark(s, i) \in Items <=> x \in Entries
  BY <1>1, <1>2 DEF Items
<1> QED
  BY <1>3, <1>4 DEF x

LEMMA MarkedHead ==
  ASSUME NEW T, NEW s \in Seq(T), NEW n \in 0 .. Len(s)
  PROVE  Marked(SubSeq(s, 1, n)) = SubSeq(Marked(s), 1, n)
<1> DEFINE t == SubSeq(s, 1, n)
           m == Marked(s)
           p == SubSeq(m, 1, n)
           q == Marked(t)
<1>1. t \in Seq(T) /\ Len(t) = n /\ n \in Nat /\ n <= Len(s) /\ \A i \in 1 .. n : t[i] = s[i]
  OBVIOUS
<1> HIDE DEF t
<1>2. ASSUME NEW i \in 1 .. n PROVE Mark(t, i) = Mark(s, i)
  <2>1. i \in Nat /\ i <= Len(s) /\ i <= Len(t) /\ \A j \in 1 .. i : t[j] = s[j]
    BY <1>1
  <2>2. InBlock(t)[i] <=> InBlock(s)[i]
    BY <1>1, <2>1, BlockOfPrefix
  <2>3. i \in 0 .. Len(t) /\ i \in 0 .. Len(s)
    BY <1>1
  <2>4. InBlock(t)[i] = InBlock(s)[i]
    BY <1>1, <2>2, <2>3, SameBlock
  <2> QED
    BY <1>1, <2>4 DEF Mark
<1>3. m \in Seq(Marks(T)) /\ Len(m) = Len(s) /\ \A i \in 1 .. Len(s) : m[i] = Mark(s, i)
  BY MarkedIs
<1>4. q \in Seq(Marks(T)) /\ Len(q) = n /\ \A i \in 1 .. n : q[i] = Mark(t, i)
  BY <1>1, MarkedIs
<1> HIDE DEF m, q
<1>5. p \in Seq(Marks(T)) /\ Len(p) = n /\ \A i \in 1 .. n : p[i] = m[i]
  BY <1>1, <1>3
<1> HIDE DEF p
<1>6. \A i \in 1 .. n : i \in 1 .. Len(s)
  BY <1>1
<1>7. \A i \in 1 .. n : q[i] = p[i]
  BY <1>2, <1>3, <1>4, <1>5, <1>6
<1>8. q = p
  BY <1>4, <1>5, <1>7, SeqEqual
<1> QED
  BY <1>8 DEF q, p, m, t

LEMMA MarkedRemove ==
  ASSUME NEW T, NEW s \in Seq(T), NEW k \in 1 .. Len(s), s[k].start = "text"
  PROVE  Marked(RemoveAt(s, k)) = RemoveAt(Marked(s), k)
<1> DEFINE r == RemoveAt(s, k)
           m == Marked(s)
           p == RemoveAt(m, k)
           q == Marked(r)
           n == Len(s) - 1
<1>1. r \in Seq(T) /\ Len(r) = n /\ \A i \in 1 .. n : r[i] = s[Beyond(k, i)]
  BY RemoveAtIs
<1>2. \A i \in 0 .. n : InBlock(r)[i] <=> InBlock(s)[IF i < k THEN i ELSE i + 1]
  BY BlockRemove
<1>3. n \in Nat /\ k \in 1 .. n + 1 /\ Len(s) = n + 1
  OBVIOUS
<1> HIDE DEF r, n
<1>4. ASSUME NEW i \in 1 .. n PROVE Beyond(k, i) \in 1 .. n + 1 /\ Mark(r, i) = Mark(s, Beyond(k, i))
  <2> DEFINE j == Beyond(k, i)
  <2>1. j = (IF i < k THEN i ELSE i + 1) /\ j \in 1 .. n + 1 /\ i \in 0 .. n /\ j \in 0 .. n + 1
    BY <1>3 DEF Beyond
  <2>2. r[i] = s[j]
    BY <1>1
  <2> HIDE DEF j
  <2>3. InBlock(r)[i] <=> InBlock(s)[j]
    BY <1>2, <2>1
  <2>4. InBlock(r)[i] = InBlock(s)[j]
    BY <1>1, <1>3, <2>1, <2>3, SameBlock
  <2>5. Mark(r, i) = Mark(s, j)
    BY <2>2, <2>4 DEF Mark
  <2> QED
    BY <2>1, <2>5 DEF j
<1>5. m \in Seq(Marks(T)) /\ Len(m) = n + 1 /\ \A i \in 1 .. n + 1 : m[i] = Mark(s, i)
  BY <1>3, MarkedIs
<1>6. q \in Seq(Marks(T)) /\ Len(q) = n /\ \A i \in 1 .. n : q[i] = Mark(r, i)
  BY <1>1, MarkedIs
<1> HIDE DEF m, q
<1>7. p \in Seq(Marks(T)) /\ Len(p) = n /\ \A i \in 1 .. n : p[i] = m[Beyond(k, i)]
  <2>1. k \in 1 .. Len(m) /\ Len(m) - 1 = n
    BY <1>3, <1>5
  <2> QED
    BY <1>5, <2>1, RemoveAtIs
<1> HIDE DEF p
<1>8. \A i \in 1 .. n : q[i] = p[i]
  BY <1>4, <1>5, <1>6, <1>7
<1>9. q = p
  BY <1>6, <1>7, <1>8, SeqEqual
<1> QED
  BY <1>9 DEF q, p, m, r

\* The place of the first entry of a text among its entries.
IsPlace(s, k, p) ==
  /\ p \in 1 .. Len(ItemsOf(s)) /\ ItemsOf(s)[p].entry = s[k]
  /\ \A q \in 1 .. Len(ItemsOf(s)) : ItemsOf(s)[q].entry = s[k] => p <= q

\* What a part of a text without an entry lists.
LEMMA ItemsPart ==
  ASSUME NEW T, NEW s \in Seq(T), NEW w \in Seq(T), NEW k,
         PartOfRemoval(w, s, k), s[k] \in Entries, \A i \in 1 .. Len(s) : s[i] = s[k] => k <= i
  PROVE  \E p : /\ IsPlace(s, k, p)
                /\ \E n \in 0 .. Len(ItemsOf(s)) - 1 : ItemsOf(w) = SubSeq(RemoveAt(ItemsOf(s), p), 1, n)
                /\ Len(w) = Len(s) - 1 => /\ ItemsOf(w) = RemoveAt(ItemsOf(s), p)
                                          /\ InBlock(w)[Len(w)] = InBlock(s)[Len(s)]
<1> DEFINE m == Marked(s)
           items == ItemsOf(s)
           r == RemoveAt(s, k)
           rm == Marked(r)
           n == Len(w)
<1>1. k \in 1 .. Len(s) /\ s[k].start = "text" /\ n <= Len(s) - 1 /\ \A i \in 1 .. n : w[i] = s[Beyond(k, i)]
  BY DEF PartOfRemoval
<1>2. m \in Seq(Marks(T)) /\ Len(m) = Len(s) /\ \A i \in 1 .. Len(s) : m[i] = Mark(s, i)
  BY MarkedIs
<1>3. m[k] \in Items
  BY <1>1, <1>2, MarkIs
<1>4. items = Kept(m, Items) /\ \A t : ItemsOf(t) = Kept(Marked(t), Items)
  BY DEF ItemsOf, Items
<1>5. r \in Seq(T) /\ Len(r) = Len(s) - 1 /\ \A i \in 1 .. Len(s) - 1 : r[i] = s[Beyond(k, i)]
  BY <1>1, RemoveAtIs
<1>6. rm = RemoveAt(m, k)
  BY <1>1, MarkedRemove
<1>7. items \in Seq(Items)
  BY ItemsType
<1> HIDE DEF m, items, r
<1>8. PICK p : KeptAt(m, k, Items, p)
  <2>1. k \in 1 .. Len(m)
    BY <1>1, <1>2
  <2> QED
    BY <1>2, <1>3, <2>1, KeptRemove
<1>9. /\ p \in 1 .. Len(items) /\ items[p] = m[k] /\ Kept(rm, Items) = RemoveAt(items, p)
      /\ \A q \in 1 .. p - 1 : \E i \in 1 .. k - 1 : items[q] = m[i]
  BY <1>4, <1>6, <1>8 DEF KeptAt
<1> HIDE DEF rm
<1>10. IsPlace(s, k, p)
  <2>1. items[p].entry = s[k]
    BY <1>1, <1>2, <1>9, MarkIs
  <2>2. ASSUME NEW q \in 1 .. Len(items), items[q].entry = s[k], ~(p <= q) PROVE FALSE
    <3>1. q \in 1 .. p - 1
      BY <1>9, <2>2
    <3>2. PICK i \in 1 .. k - 1 : items[q] = m[i]
      BY <1>9, <3>1
    <3>3. i \in 1 .. Len(s) /\ ~(k <= i)
      BY <1>1
    <3>4. items[q].entry = s[i]
      BY <1>2, <3>2, <3>3, MarkIs
    <3> QED
      BY <2>2, <3>3, <3>4
  <2> QED
    BY <1>9, <2>1, <2>2 DEF IsPlace, items
<1>11. w = SubSeq(r, 1, n)
  <2>1. n \in 0 .. Len(r)
    BY <1>1, <1>5
  <2> DEFINE h == SubSeq(r, 1, n)
  <2>2. h \in Seq(T) /\ Len(h) = n /\ \A i \in 1 .. n : h[i] = r[i]
    BY <1>5, <2>1
  <2> HIDE DEF h
  <2>3. \A i \in 1 .. n : i \in 1 .. Len(s) - 1
    BY <1>1
  <2>4. \A i \in 1 .. n : w[i] = h[i]
    BY <1>1, <1>5, <2>2, <2>3
  <2>5. w = h
    BY <2>2, <2>4, SeqEqual
  <2> QED
    BY <2>5 DEF h
<1>12. Marked(w) = SubSeq(rm, 1, n) /\ rm \in Seq(Marks(T)) /\ n \in 0 .. Len(rm) /\ Len(rm) = Len(s) - 1
  <2>1. n \in 0 .. Len(r)
    BY <1>1, <1>5
  <2>2. Marked(SubSeq(r, 1, n)) = SubSeq(Marked(r), 1, n)
    <3> HIDE DEF n
    <3> QED
      BY <1>5, <2>1, MarkedHead
  <2>3. Marked(r) \in Seq(Marks(T)) /\ Len(Marked(r)) = Len(r)
    BY <1>5, MarkedIs
  <2> QED
    BY <1>5, <1>11, <2>1, <2>2, <2>3 DEF rm
<1>13. RemoveAt(items, p) \in Seq(Items) /\ Len(RemoveAt(items, p)) = Len(items) - 1
  BY <1>7, <1>9, RemoveAtIs
<1>14. \E l \in 0 .. Len(items) - 1 : ItemsOf(w) = SubSeq(RemoveAt(items, p), 1, l)
  <2>1. \E l \in 0 .. Len(Kept(rm, Items)) : Kept(SubSeq(rm, 1, n), Items) = SubSeq(Kept(rm, Items), 1, l)
    <3> HIDE DEF n
    <3> QED
      BY <1>12, KeptHeadOf
  <2> QED
    BY <1>4, <1>9, <1>12, <1>13, <2>1
<1>15. ASSUME n = Len(s) - 1
       PROVE  ItemsOf(w) = RemoveAt(items, p) /\ InBlock(w)[n] = InBlock(s)[Len(s)]
  <2>1. SubSeq(r, 1, Len(r)) = r
    BY <1>5, SubSeqFull
  <2>2. w = r
    BY <1>5, <1>11, <1>15, <2>1
  <2>3. ItemsOf(w) = RemoveAt(items, p)
    BY <1>4, <1>9, <2>2 DEF rm
  <2>4. InBlock(r)[n] <=> InBlock(s)[IF n < k THEN n ELSE n + 1]
    <3>1. n \in 0 .. Len(s) - 1
      BY <1>1, <1>15
    <3> QED
      BY <1>1, <3>1, BlockRemove DEF r
  <2>5. InBlock(s)[k] <=> InBlock(s)[k - 1]
    <3>1. k - 1 \in Nat /\ k - 1 < Len(s) /\ k - 1 + 1 = k
      BY <1>1
    <3>2. InBlock(s)[k - 1 + 1] <=> IF InBlock(s)[k - 1] THEN s[k - 1 + 1].start # "#/"
                                                          ELSE s[k - 1 + 1].start = "/#"
      BY <3>1, BlockSteps
    <3> QED
      BY <1>1, <3>1, <3>2
  <2>6. n < k => n = k - 1 /\ k = Len(s)
    BY <1>1, <1>15
  <2>7. n + 1 = Len(s)
    BY <1>1, <1>15
  <2>8. InBlock(w)[n] <=> InBlock(s)[Len(s)]
    BY <2>2, <2>4, <2>5, <2>6, <2>7
  <2>9. n \in 0 .. Len(w) /\ Len(s) \in 0 .. Len(s)
    OBVIOUS
  <2>10. InBlock(w)[n] = InBlock(s)[Len(s)]
    <3> HIDE DEF n
    <3> QED
      BY <2>8, <2>9, SameBlock
  <2> QED
    BY <2>3, <2>10
<1> QED
  BY <1>10, <1>14, <1>15 DEF items

----------------------------------------------------------------------------
\* The wallet implements Library.

NotARequest == pc \notin {"appending", "rewriting"}

\* Library's variables.
Held == ItemsOf(Text)
Open == InBlock(Text)[Len(Text)]

LEMMA TextType ==
  ASSUME TypeOK
  PROVE  Text \in Seq(WalletLines)
<1>1. <<>> \in Seq(WalletLines)
  OBVIOUS
<1> QED
  BY <1>1 DEF TypeOK, Text

LEMMA AskedIs ==
  /\ NotARequest => Asked = NoCommand
  /\ pc = "appending" => Asked = [op |-> "add", entry |-> TheEntry(command)]
  /\ pc = "rewriting" => Asked = [op |-> "remove", entry |-> TheEntry(command)]
  /\ (\A e : [op |-> "add", entry |-> e] # NoCommand)
  /\ (\A e : [op |-> "remove", entry |-> e] # NoCommand)
<1>1. ASSUME NEW o, NEW e PROVE [op |-> o, entry |-> e] # NoCommand
  <2>1. "op" \in DOMAIN [op |-> o, entry |-> e]
    OBVIOUS
  <2>2. "op" \notin DOMAIN NoCommand
    BY DEF NoCommand
  <2> QED
    BY <2>1, <2>2
<1>2. /\ NotARequest => Asked = NoCommand
      /\ pc = "appending" => Asked = [op |-> "add", entry |-> TheEntry(command)]
      /\ pc = "rewriting" => Asked = [op |-> "remove", entry |-> TheEntry(command)]
  BY DEF Asked, NotARequest
<1> QED
  BY <1>1, <1>2

LEMMA NothingChanges ==
  ASSUME Text' = Text, Asked' = Asked
  PROVE  UNCHANGED TheLibrary!vars
<1>1. Held' = Held /\ Open' = Open
  BY DEF Held, Open
<1> QED
  BY <1>1 DEF TheLibrary!vars, Held, Open

LEMMA LibraryInit ==
  ASSUME Init
  PROVE  TheLibrary!Init
<1>1. TypeOK
  BY InitTyped
<1>2. Text \in Seq(WalletLines)
  BY <1>1, TextType
<1>3. Held \in Seq(Items)
  BY <1>2, ItemsType DEF Held
<1>4. Open \in BOOLEAN
  <2>1. Len(Text) \in 0 .. Len(Text)
    BY <1>2
  <2> QED
    BY <1>2, <2>1, BlockTruth DEF Open
<1>5. Asked = NoCommand
  BY AskedIs DEF Init, NotARequest
<1> QED
  BY <1>3, <1>4, <1>5 DEF TheLibrary!Init, Held, Open, Items

\* The steps in which the library does not change.
LEMMA QuietSteps ==
  ASSUME TypeOK, Stages, [Next]_vars
  PROVE  \/ Text' = Text /\ Asked' = Asked
         \/ \E c \in Commands : BeginAdd(c) \/ BeginRemove(c)
         \/ AppendEntry \/ EndRemove
         \/ Kill /\ pc \in {"appending", "rewriting"}
<1>1. ASSUME NotARequest, NotARequest', UNCHANGED wallet_file PROVE Text' = Text /\ Asked' = Asked
  <2>1. Asked = NoCommand
    BY <1>1, AskedIs
  <2>2. Asked' = NoCommand
    BY <1>1 DEF Asked, NotARequest, NoCommand
  <2>3. Text' = Text
    BY <1>1 DEF Text, NotARequest
  <2> QED
    BY <2>1, <2>2, <2>3
<1>2. ASSUME UNCHANGED <<pc, command, wallet_file, file_body>> PROVE Text' = Text /\ Asked' = Asked
  BY <1>2 DEF Text, Asked, TheEntry, NoCommand
<1>3. CASE RewriteLine
  BY <1>3 DEF RewriteLine, libraryVars, Text, Asked, TheEntry, NoCommand
<1>4. CASE UNCHANGED vars \/ (\E f \in FileNames : Edit(f))
  BY <1>2, <1>4 DEF vars, fileVars, libraryVars, controlVars, Edit
<1>5. ASSUME NEW c \in Commands, Immediate(c) PROVE NotARequest /\ NotARequest' /\ UNCHANGED wallet_file
  BY <1>5, ImmediateEnds DEF NotARequest, End
<1>6. CASE Invoke \/ InvokeWithoutSwitches \/ Return
  <2>1. NotARequest /\ NotARequest' /\ UNCHANGED wallet_file
    BY <1>6 DEF Invoke, InvokeWithoutSwitches, Return, EndWithoutDevice, End, NotARequest, fileVars
  <2> QED
    BY <1>1, <2>1
<1>7. CASE Kill /\ NotARequest
  <2>1. NotARequest' /\ UNCHANGED wallet_file
    BY <1>7 DEF Kill, EndWithoutDevice, End, NotARequest, fileVars
  <2> QED
    BY <1>1, <1>7, <2>1
<1>8. Kill => pc \in {"appending", "rewriting"} \/ NotARequest
  BY DEF NotARequest
<1> QED
  BY <1>1, <1>3, <1>4, <1>5, <1>6, <1>7, <1>8 DEF Next, RunCommand, Immediate

\* A line that is no comment leaves the end of the text in the same block.
LEMMA OpenAfter ==
  ASSUME NEW T, NEW s \in Seq(T), NEW x \in T, x.start \notin {"/#", "#/"}
  PROVE  InBlock(Append(s, x))[Len(Append(s, x))] = InBlock(s)[Len(s)]
<1> DEFINE t == Append(s, x)
<1>1. /\ t \in Seq(T) /\ Len(t) = Len(s) + 1
      /\ Len(s) \in 0 .. Len(s) /\ Len(t) \in 0 .. Len(t)
  OBVIOUS
<1>2. InBlock(t)[Len(s) + 1] <=> InBlock(s)[Len(s)]
  BY BlockAfter
<1> HIDE DEF t
<1>3. InBlock(t)[Len(t)] <=> InBlock(s)[Len(s)]
  BY <1>1, <1>2
<1>4. InBlock(t)[Len(t)] = InBlock(s)[Len(s)]
  BY <1>1, <1>3, SameBlock
<1> QED
  BY <1>4 DEF t

LEMMA AskToAdd ==
  ASSUME TypeOK, Stages, NEW c \in Commands, BeginAdd(c)
  PROVE  TheLibrary!Ask
<1>1. /\ pc = "loaded" /\ Operation(c.switches) = "add" /\ c.file # NoFile
      /\ pc' = "appending" /\ command' = c
      /\ wallet_file' = IF at_line_start THEN Append(wallet_file, Blank) ELSE wallet_file
  BY DEF BeginAdd, CanAdd
<1>2. TheEntry(c) \in Entries
  BY <1>1, OperationIs, EntryFacts
<1>3. wallet_file # Absent /\ wallet_file \in Seq(WalletLines)
  BY <1>1 DEF TypeOK, Stages, Loaded
<1> DEFINE longer == Append(wallet_file, Blank)
<1>4. Blank \in WalletLines /\ Blank \notin Entries /\ Blank.start \notin {"/#", "#/"}
  BY BlankFacts
<1>5. longer \in Seq(WalletLines) /\ ItemsOf(longer) = ItemsOf(wallet_file)
      /\ InBlock(longer)[Len(longer)] = InBlock(wallet_file)[Len(wallet_file)]
  <2>1. longer \in Seq(WalletLines)
    BY <1>3, <1>4
  <2>2. ItemsOf(longer) = ItemsOf(wallet_file)
    BY <1>3, <1>4, ItemsAppend
  <2>3. InBlock(longer)[Len(longer)] = InBlock(wallet_file)[Len(wallet_file)]
    BY <1>3, <1>4, OpenAfter
  <2> QED
    BY <2>1, <2>2, <2>3
<1>6. wallet_file' # Absent
  BY <1>1, <1>3, <1>5, WalletsAssumption
<1>7. Text = wallet_file /\ Text' = wallet_file'
  BY <1>1, <1>3, <1>6 DEF Text
<1> HIDE DEF longer
<1>8. Held' = Held /\ Open' = Open
  <2>1. Held = ItemsOf(wallet_file) /\ Held' = ItemsOf(wallet_file')
    BY <1>7 DEF Held
  <2>2. Open = InBlock(wallet_file)[Len(wallet_file)] /\ Open' = InBlock(wallet_file')[Len(wallet_file')]
    BY <1>7 DEF Open
  <2>3. wallet_file' = longer \/ wallet_file' = wallet_file
    BY <1>1 DEF longer
  <2>4. CASE wallet_file' = longer
    BY <1>5, <2>1, <2>2, <2>4
  <2>5. CASE wallet_file' = wallet_file
    BY <2>1, <2>2, <2>5
  <2> QED
    BY <2>3, <2>4, <2>5
<1>9. Asked = NoCommand
  BY <1>1, AskedIs DEF NotARequest
<1>10. Asked' = [op |-> "add", entry |-> TheEntry(c)]
  BY <1>1 DEF Asked, TheEntry
<1> HIDE DEF Held, Open
<1>11. Asked' \in TheLibrary!Request /\ Asked'.op # "remove"
  BY <1>2, <1>10 DEF TheLibrary!Request
<1> QED
  BY <1>8, <1>9, <1>11 DEF TheLibrary!Ask, Held, Open

LEMMA AskToRemove ==
  ASSUME TypeOK, Stages, NEW c \in Commands, BeginRemove(c)
  PROVE  TheLibrary!Ask
<1>1. /\ pc = "loaded" /\ pc' = "rewriting" /\ command' = c /\ file_body' = file_body
      /\ Operation(c.switches) = "remove" /\ c.file # NoFile
      /\ FindInFile(file_body, TheEntry(c)) # 0
  BY DEF BeginRemove, ForgetLists
<1>2. TheEntry(c) \in Entries
  BY <1>1, OperationIs, EntryFacts
<1>3. wallet_file # Absent /\ wallet_file \in Seq(WalletLines) /\ file_body = wallet_file
  BY <1>1 DEF TypeOK, Stages, Loaded
<1>4. Text = file_body /\ Text' = file_body
  BY <1>1, <1>3 DEF Text
<1>5. Held' = Held /\ Open' = Open
  BY <1>4 DEF Held, Open
<1>6. Asked = NoCommand
  BY <1>1, AskedIs DEF NotARequest
<1>7. Asked' = [op |-> "remove", entry |-> TheEntry(c)]
  BY <1>1 DEF Asked, TheEntry
<1> DEFINE places == {i \in DOMAIN Held : Held[i].entry = TheEntry(c)}
<1>8. places # {}
  <2> DEFINE m == Marked(file_body)
             k == FindInFile(file_body, TheEntry(c))
  <2>1. k \in 1 .. Len(file_body) /\ file_body[k] = TheEntry(c)
    BY <1>1, <1>3, FindIs
  <2>2. m \in Seq(Marks(WalletLines)) /\ k \in 1 .. Len(m) /\ m[k] = Mark(file_body, k)
    BY <1>3, <2>1, MarkedIs
  <2> HIDE DEF k, m
  <2>3. m[k] \in Items /\ m[k].entry = TheEntry(c)
    BY <1>2, <2>1, <2>2, MarkIs
  <2>4. \E p : KeptAt(m, k, Items, p)
    BY <2>2, <2>3, KeptRemove
  <2>5. PICK p : p \in 1 .. Len(Kept(m, Items)) /\ Kept(m, Items)[p] = m[k]
    BY <2>4 DEF KeptAt
  <2>6. Held = Kept(m, Items)
    BY <1>4 DEF Held, ItemsOf, Items, m
  <2>7. Held \in Seq(Items)
    BY <1>3, <1>4, ItemsType DEF Held
  <2> HIDE DEF Held
  <2>8. p \in DOMAIN Held /\ Held[p].entry = TheEntry(c)
    BY <2>3, <2>5, <2>6, <2>7
  <2> QED
    BY <2>8
<1>9. TheLibrary!PlacesOf(TheEntry(c)) = places
  BY DEF TheLibrary!PlacesOf, Held
<1> HIDE DEF places
<1>10. Asked' \in TheLibrary!Request /\ Asked'.entry = TheEntry(c)
  BY <1>2, <1>7 DEF TheLibrary!Request
<1>11. TheLibrary!PlacesOf(Asked'.entry) # {}
  BY <1>8, <1>9, <1>10
<1> HIDE DEF Held, Open
<1> QED
  BY <1>5, <1>6, <1>10, <1>11 DEF TheLibrary!Ask, Held, Open

LEMMA EntryAdded ==
  ASSUME TypeOK, Stages, AppendEntry
  PROVE  TheLibrary!AddEntry
<1> DEFINE e == TheEntry(command)
<1>1. pc = "appending" /\ wallet_file' = Append(wallet_file, e) /\ pc' = "ended"
  BY DEF AppendEntry, EndWithoutDevice, End
<1>2. /\ wallet_file # Absent /\ wallet_file \in Seq(WalletLines)
      /\ ActiveSwitch(command.switches) \in Kinds /\ command.file \in FileNames
  BY <1>1 DEF TypeOK, Stages, Appending
<1>3. e \in Entries /\ e \in WalletLines /\ e.start \notin {"/#", "#/"}
  BY <1>2, EntryFacts DEF TheEntry
<1>4. Asked = [op |-> "add", entry |-> e] /\ Asked # NoCommand
  BY <1>1, AskedIs
<1> HIDE DEF e
<1>5. wallet_file' \in Seq(WalletLines) /\ wallet_file' # Absent
  <2>1. Append(wallet_file, e) \in Seq(WalletLines)
    BY <1>2, <1>3
  <2> QED
    BY <1>1, <2>1, WalletsAssumption
<1>6. Text = wallet_file /\ Text' = wallet_file'
  BY <1>1, <1>2, <1>5 DEF Text
<1>7. ItemsOf(wallet_file') =
        Append(ItemsOf(wallet_file), [entry |-> e, in_force |-> ~InBlock(wallet_file)[Len(wallet_file)]])
  BY <1>1, <1>2, <1>3, ItemsAppend
<1>8. InBlock(wallet_file')[Len(wallet_file')] = InBlock(wallet_file)[Len(wallet_file)]
  BY <1>1, <1>2, <1>3, OpenAfter
<1>9. Held' = Append(Held, [entry |-> e, in_force |-> ~Open]) /\ Open' = Open
  BY <1>6, <1>7, <1>8 DEF Held, Open
<1>10. Asked' = NoCommand
  BY <1>1 DEF Asked, NoCommand
<1>11. Asked.op = "add" /\ Asked.entry = e
  BY <1>4
<1> HIDE DEF Held, Open
<1> QED
  BY <1>4, <1>9, <1>10, <1>11 DEF TheLibrary!AddEntry, Held, Open

\* What is left of a removal when the process ends.
LEMMA RemovalEnds ==
  ASSUME TypeOK, Stages, pc = "rewriting", pc' = "ended", wallet_file' = wallet_file
  PROVE  LET p == TheLibrary!First(TheLibrary!PlacesOf(Asked.entry))
         IN  /\ Asked' = NoCommand /\ Asked # NoCommand /\ Asked.op = "remove" /\ Open' \in BOOLEAN
             /\ \E n \in 0 .. Len(Held) - 1 : Held' = SubSeq(RemoveAt(Held, p), 1, n)
             /\ Len(wallet_file) = Len(file_body) - 1 => Held' = RemoveAt(Held, p) /\ Open' = Open
<1> DEFINE e == TheEntry(command)
           s == file_body
           w == wallet_file
           k == FindInFile(s, e)
<1>1. Asked = [op |-> "remove", entry |-> e] /\ Asked # NoCommand
  BY AskedIs
<1>2. /\ w \in Seq(WalletLines) /\ s \in Seq(WalletLines) /\ e \in Entries /\ PartOfRemoval(w, s, k)
  BY RewritingIs DEF UnderWay
<1>3. k # 0 /\ w # Absent
  BY DEF Stages, Rewriting
<1>4. s[k] = e /\ \A i \in 1 .. Len(s) : s[i] = s[k] => k <= i
  BY <1>2, <1>3, FindIs
<1>5. Asked' = NoCommand
  BY DEF Asked, NoCommand
<1>6. Text = s /\ Text' = w
  BY <1>3 DEF Text
<1> HIDE DEF e, s, w, k
<1>7. Asked.op = "remove" /\ Asked.entry = e
  BY <1>1
<1>8. Held = ItemsOf(s) /\ Held' = ItemsOf(w)
  BY <1>6 DEF Held
<1>9. Open = InBlock(s)[Len(s)] /\ Open' = InBlock(w)[Len(w)]
  BY <1>6 DEF Open
<1>10. PICK p : /\ IsPlace(s, k, p)
                /\ \E n \in 0 .. Len(ItemsOf(s)) - 1 : ItemsOf(w) = SubSeq(RemoveAt(ItemsOf(s), p), 1, n)
                /\ Len(w) = Len(s) - 1 => /\ ItemsOf(w) = RemoveAt(ItemsOf(s), p)
                                          /\ InBlock(w)[Len(w)] = InBlock(s)[Len(s)]
  BY <1>2, <1>4, ItemsPart
<1>11. Open' \in BOOLEAN
  <2>1. Len(w) \in 0 .. Len(w)
    BY <1>2
  <2> QED
    BY <1>2, <1>9, <2>1, BlockTruth
<1> DEFINE places == {i \in DOMAIN Held : Held[i].entry = e}
<1>12. TheLibrary!PlacesOf(Asked.entry) = places
  BY <1>7 DEF TheLibrary!PlacesOf, Held
<1>13. Held \in Seq(Items)
  BY <1>2, <1>8, ItemsType
<1> HIDE DEF Held, Open
<1>14. p \in places /\ (\A q \in places : p <= q) /\ places \subseteq Nat
  BY <1>4, <1>8, <1>10, <1>13 DEF IsPlace
<1> HIDE DEF places
<1>15. TheLibrary!First(places) = p
  <2>1. \A q \in places : (\A j \in places : q <= j) => q = p
    BY <1>14
  <2> QED
    BY <1>14, <2>1 DEF TheLibrary!First
<1>16. TheLibrary!First(TheLibrary!PlacesOf(Asked.entry)) = p
  BY <1>12, <1>15
<1>17. \E n \in 0 .. Len(Held) - 1 : Held' = SubSeq(RemoveAt(Held, p), 1, n)
  BY <1>8, <1>10
<1>18. Len(w) = Len(s) - 1 => Held' = RemoveAt(Held, p) /\ Open' = Open
  BY <1>8, <1>9, <1>10
<1> QED
  BY <1>1, <1>5, <1>7, <1>11, <1>16, <1>17, <1>18 DEF w, s

LEMMA LibraryNext == TypeOK /\ Stages /\ [Next]_vars => [TheLibrary!Next]_(TheLibrary!vars)
<1> SUFFICES ASSUME TypeOK, Stages, [Next]_vars
             PROVE  TheLibrary!Next \/ UNCHANGED TheLibrary!vars
  OBVIOUS
<1>1. CASE Text' = Text /\ Asked' = Asked
  BY <1>1, NothingChanges
<1>2. CASE \E c \in Commands : BeginAdd(c) \/ BeginRemove(c)
  BY <1>2, AskToAdd, AskToRemove DEF TheLibrary!Next
<1>3. CASE AppendEntry
  BY <1>3, EntryAdded DEF TheLibrary!Next
<1>4. CASE EndRemove
  <2>1. pc = "rewriting" /\ next_line > Len(file_body) /\ pc' = "ended" /\ wallet_file' = wallet_file
    BY <1>4 DEF EndRemove, EndWithoutDevice, End, fileVars
  <2> DEFINE k == FindInFile(file_body, TheEntry(command))
  <2>2. /\ k # 0 /\ next_line \in 0 .. Len(file_body) + 1 /\ file_body \in Seq(WalletLines)
        /\ Len(wallet_file) = IF next_line <= k THEN next_line - 1 ELSE next_line - 2
    BY <2>1 DEF TypeOK, Stages, Rewriting
  <2>3. k \in 1 .. Len(file_body)
    BY <2>2, FindIs
  <2> HIDE DEF k
  <2>4. Len(wallet_file) = Len(file_body) - 1
    BY <2>1, <2>2, <2>3
  <2>5. TheLibrary!RemoveEntry
    BY <2>1, <2>4, RemovalEnds
       DEF TheLibrary!RemoveEntry, TheLibrary!RemoveAt, RemoveAt, Held, Open
  <2> QED
    BY <2>5 DEF TheLibrary!Next
<1>5. CASE Kill /\ pc = "rewriting"
  <2>1. pc' = "ended" /\ wallet_file' = wallet_file
    BY <1>5 DEF Kill, EndWithoutDevice, End, fileVars
  <2>2. TheLibrary!RemoveLost
    BY <1>5, <2>1, RemovalEnds
       DEF TheLibrary!RemoveLost, TheLibrary!RemoveAt, RemoveAt, Held, Open
  <2> QED
    BY <2>2 DEF TheLibrary!Next
<1>6. CASE Kill /\ pc = "appending"
  <2>1. pc' = "ended" /\ wallet_file' = wallet_file
    BY <1>6 DEF Kill, EndWithoutDevice, End, fileVars
  <2>2. Text' = Text
    BY <1>6, <2>1 DEF Text
  <2>3. Asked' = NoCommand
    BY <2>1 DEF Asked, NoCommand
  <2>4. Asked # NoCommand /\ Asked.op = "add"
    BY <1>6, AskedIs
  <2>5. Held' = Held /\ Open' = Open
    BY <2>2 DEF Held, Open
  <2>6. TheLibrary!AddLost
    BY <2>3, <2>4, <2>5 DEF TheLibrary!AddLost, Held, Open
  <2> QED
    BY <2>6 DEF TheLibrary!Next
<1> QED
  BY <1>1, <1>2, <1>3, <1>4, <1>5, <1>6, QuietSteps

\* The wallet is a list of entries that one request at a time changes, wherever
\* the process is killed: what is added comes last, what is removed was the first
\* of its text, and only a removal cut short loses anything
\* (fileHandler.cpp:174-210, wallet.cpp:9-40).
THEOREM DrachmaImplementsLibrary == Spec => ImplementsLibrary
  BY LibraryInit, LibraryNext, InitTyped, NextTyped, PTL DEF Spec, ImplementsLibrary, TheLibrary!Spec
=============================================================================
