----------------------------- MODULE FileHandler -----------------------------
(***************************************************************************)
(* fileHandler: reading the simulator's text files.  A file is a sequence  *)
(* of lines.  Of a line it matters how it starts, the text before its      *)
(* first colon, whether there is a colon, and what follows it, trimmed;    *)
(* two lines with equal parts are the same text.                           *)
(***************************************************************************)
EXTENDS Integers, SequencesExt, Selection

CONSTANTS
  NoArg,   \* nothing but blanks after the colon, or no colon
  Word     \* an argument that is not a number

\* LONG_COMMENT_TAG then COMMENT_TAG, the reverse, COMMENT_TAG alone, an empty
\* line, any other line.
Starts == {"/#", "#/", "#", "", "text"}

\* A line "l<level> <rest>" has key "l <rest>" and that level; others have level 0.
Tagged(start) == [start |-> start, key |-> "", level |-> 0, colon |-> FALSE, arg |-> NoArg]
Blank == Tagged("")
Param(key, arg) == [start |-> "text", key |-> key, level |-> 0, colon |-> TRUE, arg |-> arg]

\* The rules a file is read with: the acceptable parameters, and the keys of
\* the lines that match one of the regular expressions, with or without colon.
Rules(params, data) == [params |-> params, data |-> data]

\* comment_block after each line: "/#" opens a block, or changes nothing in one,
\* and only "#/" ends it.
InBlock(lines) ==
  [i \in 0 .. Len(lines) |->
     \E open \in 1 .. i :
       lines[open].start = "/#" /\ \A j \in open + 1 .. i : lines[j].start # "#/"]

\* parseContent: the type of every line.
ContentType(lines) ==
  LET in == InBlock(lines)
  IN  [i \in DOMAIN lines |->
         IF in[i - 1] \/ lines[i].start \in {"/#", "#/", "#"} THEN "COMMENT"
         ELSE IF lines[i].start = "" THEN "WHITE" ELSE "UNKNOWN"]

\* What parseEntries makes of a line of unknown type.
EntryType(line, rules) ==
  IF line.colon /\ line.arg = NoArg THEN "INVALID"
  ELSE IF line.colon /\ line.key \in rules.params THEN "PARAMETER"
  ELSE IF <<line.key, line.colon>> \in rules.data THEN "DATA" ELSE "INVALID"

\* Every line with its type; of an invalid file only the first invalid line has
\* its final one, but then nothing else of the file is used.
Parsed(lines, rules) ==
  LET content == ContentType(lines)
  IN  [i \in DOMAIN lines |->
         [line |-> lines[i],
          type |-> IF content[i] = "UNKNOWN" THEN EntryType(lines[i], rules) ELSE content[i]]]

\* isFileValid
IsFileValid(lines, rules) == \A p \in ToSet(Parsed(lines, rules)) : p.type # "INVALID"

ParamsWithKey(lines, rules, key) ==
  LET parsed == Parsed(lines, rules)
  IN  Kept(parsed, {p \in ToSet(parsed) : p.type = "PARAMETER" /\ p.line.key = key})

\* Mutant: entries with the same key come out in reverse order.
ParamArgsReversed(lines, rules, key) ==
  LET params == Reverse(ParamsWithKey(lines, rules, key))
  IN  [n \in DOMAIN params |-> params[n].line.arg]

\* getParams: the arguments of a key, in the order a multimap keeps them, which
\* is the order of insertion.
ParamArgs(lines, rules, key) ==
  LET params == ParamsWithKey(lines, rules, key)
  IN  [n \in DOMAIN params |-> params[n].line.arg]

\* getData
Data(lines, rules) ==
  {p.line : p \in {q \in ToSet(Parsed(lines, rules)) : q.type = "DATA"}}

\* Mutant: the last equal line is found.
FindLastInFile(lines, line) ==
  LET found == {i \in DOMAIN lines : lines[i] = line}
  IN  IF found = {} THEN 0 ELSE CHOOSE i \in found : \A j \in found : j <= i

\* findInFile: the first line with this text, comments included, or 0.
FindInFile(lines, line) ==
  LET found == {i \in DOMAIN lines : lines[i] = line}
  IN  IF found = {} THEN 0 ELSE CHOOSE i \in found : \A j \in found : i <= j
=============================================================================
