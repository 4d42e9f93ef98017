------------------------------- MODULE MCShell -------------------------------
(***************************************************************************)
(* The scenes of the shell run.  Free input over five small alphabets shows *)
(* how bytes are cut into commands; fixed scripts fill the dynamic store    *)
(* and the session log up to their caps, with each write to the log failing *)
(* in turn; archives and a host directory are loaded in every order.        *)
(***************************************************************************)
EXTENDS Shell

Dir(name) == [name |-> name, kind |-> "dir", size |-> 0, body |-> 0, meta |-> 0, bytes |-> 1]
File(name) == [name |-> name, kind |-> "file", size |-> 1, body |-> 1, meta |-> 0, bytes |-> 1]

Embedded == [type |-> "embedded", host |-> <<>>, headers |-> <<Dir(<<<<".">>>>), Dir(<<<<"d">>>>)>>]
Session == [source |-> Embedded, enable |-> FALSE, broken |-> FALSE, failAt |-> 0, bytes |-> {}, script |-> <<>>]

Typing == {[Session EXCEPT !.bytes = b] :
             b \in {{"a", ";", "nl", "\\", "|"}, {"a", ";", "nl", "sq", "#"}, {"x", ";", "dq", "\\", "nl"},
                    {"a", "u", "x", "&", "|"}, {"a", " ", ">", "="}}}

MCHome == <<"/", "d">>

\* t f;a;t g;a;a;a and so on: the dynamic store and the log at their limits, the
\* current directory and the environment, redirections of both streams, what is too
\* long, and a refused line longer than the buffer
Scripts == {<<"t", " ", "f", ";", "a", ";", "t", " ", "g", ";", "a", ";", "a", ";", "a">>,
            <<"a", " ", "f", ";", "a", ">", "f", ";", "a", ">", "g", ";", "a", ">", "h", ";", "t", " ", "f">>,
            <<"c", " ", "/", "nl", "t", " ", "f", ";", "a", ">", "d", ";", "c", ";", "a", ">", "f", ";", "x">>,
            <<"b", "=", "v", ";", "b", "=", "w", ";", "f", "=", "v", ";", "a", ";", "g", "=", "v">>,
            <<"P", "=", "d", " ", "t", " ", "f", ";", "p", "=", "/", ";", "t", " ", "f", ";",
              "P", "=", " ", "c", " ", "d", ";", "t", " ", "f", ";", "c", " ", "d", ";", "b", "=", "v">>,
            <<"q", " ", "2", ">", "f", ";", "q", ">", "f", " ", "2", ">", "&", "1", ";",
              "q", " ", "2", ">", "&", "1", ">", "g", ";", "q", " ", "1", ">", "f">>,
            <<"t", " ", "f", "f", ";", "a", ">", "f", "f">>,
            <<"a", " ", "*", ";", "a", " ", "sq", "*", "sq", ";", "a", ">", "*", ";", "a", ">", "f", "f", "f", "f">>,
            <<"a", ">", "f", ">", "g", ">">>,
            <<"a", ">", "f", ">", "g", ">", "h">>,
            <<"a", ";", "a", ";", "a", ";", "a", ";", "a", ";", "a">>,
            <<"dq", ";", "a", "a", "a", "a", "a", "a", "a", "a", "a">>,
            <<"|", ";", "a", "a", "a", "a", "a", "a", "a", "a", "a", "a", "nl", "a">>}
Logging == {[Session EXCEPT !.script = s, !.enable = TRUE, !.failAt = f] : s \in Scripts, f \in 0..6}
             \cup {[Session EXCEPT !.enable = TRUE, !.broken = TRUE]}

Headers == {Dir(<<<<".">>>>), Dir(<<<<"p">>>>), File(<<<<"p">>, <<"q">>, <<"r">>>>), File(<<<<"s">>>>),
            File(<<<<"s">>, <<"..">>, <<"p">>>>), File(<<<<"">>, <<"s">>>>), [File(<<<<"s">>>>) EXCEPT !.kind = "symlink"],
            [File(<<<<".">>>>) EXCEPT !.size = 3, !.body = 3], [File(<<<<"s">>>>) EXCEPT !.size = 2],
            [Dir(<<<<"p">>>>) EXCEPT !.meta = 9]}
Object(i, k) == [ino |-> i, kind |-> k]
ArchiveFile == <<>> :> Object(1, "file")
Tars == {[type |-> "tar", host |-> ArchiveFile, headers |-> h] : h \in UNION {[1..n -> Headers] : n \in 0..3}}
Zips == {[type |-> "zip", host |-> ArchiveFile,
          zip |-> [entries |-> e, total |-> t, cdSize |-> c, atEnd |-> "end" \notin odd,
                   zip64 |-> "zip64" \in odd, disks |-> "disks" \in odd]] :
           e \in UNION {[1..n -> {Dir(<<<<"p">>>>), File(<<<<"p">>, <<"q">>, <<"r">>>>), File(<<<<"s">>>>)}] : n \in 0..3},
           t \in 0..3, c \in 0..3, odd \in {{}, {"end"}, {"zip64"}, {"disks"}}}
Top == <<>> :> Object(1, "dir")
Trees == {Top @@ (<<<<"p">>>> :> Object(2, "dir")) @@ (<<<<"p">>, <<"q">>>> :> Object(3, "file")) @@ (<<<<"s">>>> :> Object(4, "file")),
          Top @@ (<<<<"p">>>> :> Object(2, "dir")) @@ (<<<<"p">>, <<"q">>>> :> Object(3, "dir"))
              @@ (<<<<"p">>, <<"q">>, <<"r">>>> :> Object(4, "file")),
          Top @@ (<<<<"p">>>> :> Object(2, "dir")) @@ (<<<<"p">>, <<"q">>>> :> Object(3, "file"))
              @@ (<<<<"s">>>> :> Object(4, "dir")) @@ (<<<<"s">>, <<"q">>>> :> Object(5, "file")),
          Top @@ (<<<<"bad">>>> :> Object(2, "file")),
          <<>> :> Object(1, "symlink"), <<>>}
Loading == {[Session EXCEPT !.source = s] :
              s \in Tars \cup Zips \cup {[type |-> "dir", host |-> t] : t \in Trees}}

MCScenes == UNION {Typing, Logging, Loading}
=============================================================================
