------------------------------- MODULE Wallet -------------------------------
(***************************************************************************)
(* wallet: the simulator's list of memory, application and task graph      *)
(* files, kept in the text file wallet.wal between invocations, and what   *)
(* one invocation reads of it and of the files it lists.                   *)
(***************************************************************************)
EXTENDS AppResources

CONSTANTS
  FileNames,   \* the files an entry can name
  Contents,    \* what a file can contain
  Absent,      \* the content of a file that does not exist
  LinesOf,     \* LinesOf[c]: the content as lines
  DocumentOf,  \* DocumentOf[c]: the content as a YAML document
  IsGraph      \* IsGraph[c]: the JSON graph library accepts the content

ASSUME AbsentAssumption == Absent \notin Contents

\* An entry names a file: something follows its colon.
ASSUME FileNamesAssumption == NoArg \notin FileNames

\* Every content is a sequence of lines; as YAML it is an application or nothing.
ASSUME ContentsAssumption ==
  \A c \in Contents :
    /\ LinesOf[c] \in Seq(ToSet(LinesOf[c]))
    /\ \A line \in ToSet(LinesOf[c]) : line.level \in Nat
    /\ DocumentOf[c] \in Document \cup {NoDocument}

VARIABLES
  disk,            \* the listed files: name -> content
  wallet_file,     \* the lines of wallet.wal, or Absent
  at_line_start,   \* whether wallet.wal is empty or ends with a newline
  file_body,       \* the invocation's copy of the lines, fileHandler::file_body_
  memories,        \* memories_, applications_ and task_graphs_files_
  applications,
  task_graphs

fileVars == <<wallet_file, at_line_start>>
libraryVars == <<file_body, memories, applications, task_graphs>>

Kinds == {"a", "m", "t"}

WalletRules == Rules(Kinds \cup {"name"}, {})

\* A line "<kind>: <file>".
Entry(kind, file) == Param(kind, file)

Entries == {Entry(kind, f) : kind \in Kinds, f \in FileNames}

\* What a line of wallet.wal can be: an entry, one without a file, or anything
\* else, of which it matters how it starts and whether it gives a name.
WalletLines ==
  Entries \cup {Param(kind, NoArg) : kind \in Kinds}
  \cup [start : Starts, key : {"name", ""}, level : {0}, colon : BOOLEAN, arg : {NoArg, Word}]

\* The files of a kind that the wallet's lines list, in the order of their ids.
Listed(lines, kind) == ParamArgs(lines, WalletRules, kind)

----------------------------------------------------------------------------
\* How the constructor fails on a listed file, if it does.
ContentError ==
  [kind \in Kinds |-> [content \in Contents |->
     CASE kind = "m" -> MemoryError(LinesOf[content])
       [] kind = "a" -> DecodeError(DocumentOf[content])
       [] kind = "t" -> IF IsGraph[content] THEN "none" ELSE "exception"]]

EntryError(kind, file) ==
  IF disk[file] = Absent THEN "user error" ELSE ContentError[kind][disk[file]]

ErrorsOf(kind) ==
  LET files == Listed(wallet_file, kind)
  IN  Kept([n \in DOMAIN files |-> EntryError(kind, files[n])], {"user error", "exception"})

\* How the constructor fails: entries are visited in the order of
\* their keys.
LoadError ==
  IF wallet_file = Absent THEN "exception"
  ELSE IF ~IsFileValid(wallet_file, WalletRules) THEN "user error"
  ELSE Head(ErrorsOf("a") \o ErrorsOf("m") \o ErrorsOf("t") \o <<"none">>)

\* What it makes of the files that do not fail.
Hierarchy ==
  [content \in {c \in Contents : ContentError["m"][c] = "none"} |->
     BuildMemoryHierarchy(LinesOf[content])]

Decoded ==
  [content \in {c \in Contents : ContentError["a"][c] = "none"} |->
     [garbage \in GarbageSpeeds |-> Decode(DocumentOf[content], garbage)]]

\* The constructor.  One choice of garbage stands for those of all the files it
\* decodes: an invocation uses one application.
Load ==
  LET mem == Listed(wallet_file, "m")
      app == Listed(wallet_file, "a")
  IN  /\ file_body' = wallet_file
      /\ memories' = [n \in DOMAIN mem |-> [file |-> mem[n], unit |-> Hierarchy[disk[mem[n]]]]]
      /\ \E garbage \in GarbageSpeeds :
           applications' =
             [n \in DOMAIN app |-> [file |-> app[n], app |-> Decoded[disk[app[n]]][garbage]]]
      /\ task_graphs' = Listed(wallet_file, "t")

\* The end of the process.
Forget ==
  file_body' = <<>> /\ memories' = <<>> /\ applications' = <<>> /\ task_graphs' = <<>>
=============================================================================
