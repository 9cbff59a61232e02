------------------------------ MODULE MCDrachma ------------------------------
EXTENDS Drachma

\* Two designs in region 0, one in region 1.
Task(type, speed) == [type |-> type, speed |-> speed]
Node(id, tasks) == [id |-> id, tasks |-> tasks]
Region(id, width, modules) == [id |-> id, width |-> width, modules |-> modules]
App(regions) == [scheduling |-> "fcfs", selection |-> "lft", regions |-> regions]

R0 == Region(0, 1, <<Node(0, <<Task("fft", 2), Task("fir", 1)>>), Node(1, <<Task("fft", 3)>>)>>)
R1 == Region(1, 2, <<Node(0, <<Task("fft", 1)>>)>>)

\* Regions 0 and 1; a gap in the ids; a module without tasks; a region without
\* modules (which disappears); a region listed twice, with different widths and
\* a module that replaces another; a library larger than what a size is cut to,
\* and one whose size wraps; a policy there is not.
MCDocuments ==
  [app   |-> App(<<R0, R1>>),
   gap   |-> App(<<R0, Region(2, 2, R1.modules)>>),
   bare  |-> App(<<R0, Region(1, 2, <<Node(0, <<>>)>>)>>),
   none  |-> App(<<Region(0, 1, <<>>)>>),
   twice |-> App(<<R0, Region(0, 2, <<Node(1, <<Task("fir", 1)>>)>>)>>),
   large |-> App(<<Region(0, 3, R0.modules)>>),
   huge  |-> App(<<Region(0, 17, R0.modules)>>),
   odd   |-> [App(<<R0, R1>>) EXCEPT !.scheduling = "sjn"]]

\* What an uninitialised double may be: less than any speed, or no number.
MCGarbageSpeeds == {0, NaN}

\* Memory files: with a cache of two levels; small; without the latencies.
Level(n, key, arg) == [Param("l " \o key, arg) EXCEPT !.level = n]
MainMemory(size) ==
  <<Param("name", Word), Param("main size", size),
    Param("main read latency", 8), Param("main search latency", 32)>>
MCMemories ==
  [memory  |-> <<Tagged("/#"), Param("main size", 1), Tagged("#/")>> \o MainMemory(20)
               \o <<Blank, Level(2, "size", 4), Tagged("#"), [Tagged("text") EXCEPT !.key = "l has LUT", !.level = 2]>>,
   small   |-> MainMemory(7),
   partial |-> SubSeq(MainMemory(7), 1, 2)]

Json == <<[Tagged("text") EXCEPT !.key = "{"]>>
MCTrace == <<Tagged("#"), Blank, Param("name", Word), [Tagged("text") EXCEPT !.key = "trace"]>>

MCContents == DOMAIN MCDocuments \cup DOMAIN MCMemories \cup {"graph", "trace"}
MCLinesOf ==
  [c \in MCContents |->
     IF c \in DOMAIN MCMemories THEN MCMemories[c]
     ELSE IF c = "trace" THEN MCTrace ELSE Json]
MCDocumentOf == [c \in MCContents |-> IF c \in DOMAIN MCDocuments THEN MCDocuments[c] ELSE NoDocument]
MCIsGraph == [c \in MCContents |-> c = "graph"]

\* Three files that are edited, and files that are not, one for each document.
Fixed == (DOMAIN MCDocuments \ {"app"}) \cup {"small"}
MCFileNames == {"m1", "a1", "t1"} \cup Fixed
MCMayContain ==
  [f \in MCFileNames |->
     CASE f = "m1" -> {"memory", "partial", Absent}
       [] f = "a1" -> {"app", Absent}
       [] f = "t1" -> {"graph", "trace"}
       [] OTHER -> {f}]
MCInitialDisk ==
  [f \in MCFileNames |->
     CASE f = "m1" -> "memory" [] f = "a1" -> "app" [] f = "t1" -> "graph" [] OTHER -> f]

\* No wallet; an empty one; one that cannot be read; one with an entry that is
\* also in a comment; one with a comment that does not end; one with everything.
Wal(lines, at_start) == [lines |-> lines, at_line_start |-> at_start]
MCWallets ==
  {Wal(Absent, FALSE), Wal(<<>>, TRUE), Wal(<<Param("m", NoArg)>>, TRUE),
   Wal(<<Tagged("/#"), Entry("m", "m1"), Tagged("#/"), Entry("m", "m1"), Entry("t", "t1"),
         Entry("m", "small")>>, FALSE),
   Wal(<<Param("name", Word), Tagged("#"), Entry("m", "small"), Tagged("/#"), Entry("a", "a1")>>, TRUE),
   Wal(<<Entry("m", "m1"), Entry("m", "small"), Entry("a", "a1")>>
       \o [n \in 1 .. 6 |-> Entry("a", <<"gap", "bare", "none", "twice", "large", "huge">>[n])]
       \o <<Entry("t", "t1")>>, FALSE)}

Cmd(switches, file, ids) == [switches |-> switches, file |-> file, ids |-> ids]
MCCommands ==
  {Cmd(<<c[1], c[2]>>, c[3], <<>>) :
     c \in {<<"m", "a", "m1">>, <<"m", "a", "small">>, <<"a", "a", "a1">>, <<"t", "a", "t1">>,
            <<"m", "a", "a1">>, <<"a", "a", "m1">>, <<"a", "a", "odd">>, <<"m", "a", NoFile>>,
            <<"m", "r", "m1">>, <<"a", "r", "a1">>, <<"t", "r", "t1">>}}
  \cup {Cmd(s, f, <<>>) : s \in {<<"h">>, <<"w">>, <<"h", "w">>, <<"a">>, <<"t", "x">>, <<"h", "a">>, <<"x">>},
                          f \in {"a1"}}
  \cup {Cmd(<<"s">>, NoFile, <<m, a, 0>>) : m \in 0 .. 1, a \in 0 .. 6}
  \cup {Cmd(<<"s">>, NoFile, ids) : ids \in {<<0>>, <<2, 0, 0>>, <<0, 0, 1>>, <<0, 1, 0, 0>>, <<0, 1, 0, 5>>}}
=============================================================================
