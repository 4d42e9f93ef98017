----------------------------- MODULE ShellSyntax -----------------------------
(***************************************************************************)
(* How the fake shell cuts its input into commands                          *)
(* (modules/fakeshell/input.go) and parses one of them (syntax.go).  A line *)
(* is a sequence of byte classes: the bytes the code tells apart are        *)
(* themselves ("nl" is the newline, " " every shell space, "(" every byte   *)
(* validateSyntaxWord refuses), any other string is an ordinary letter.     *)
(* An unquoted "*" stands for a glob the code cannot expand: one in the     *)
(* directory part of a word, or a redirection's that matches several names. *)
(* "<" stands for here-documents and process substitution too, which are    *)
(* refused like it.                                                         *)
(***************************************************************************)
EXTENDS Integers, Sequences, FiniteSets, SequencesExt

CONSTANTS MaxSyntaxTokens, MaxSyntaxOperators, MaxRedirectionsPerCommand

IsShellSpace(c) == c = " "
IsOperatorStart(c) == c \in {"&", "|", "<", ">"}
Digits == {"1", "2"}

\* consumePhysicalInputLine: up to and with the first newline, else everything.
PhysicalLineEnd(s) ==
  IF Contains(s, "nl") THEN SelectInSeq(s, LAMBDA c : c = "nl") ELSE Len(s)

RECURSIVE ScanSeparator(_, _, _, _)
\* The loop of findCommandSeparator from byte i on, inside quote q ("" is none);
\* start says that a # here would begin a comment.  0 is "no separator".
ScanSeparator(s, i, q, start) ==
  IF i > Len(s) THEN 0
  ELSE LET c == s[i]
           escaped == c = "\\" /\ (q = "" \/ (q = "dq" /\ i < Len(s)))
       IN IF c = "nl" THEN i
          ELSE IF escaped /\ i < Len(s) /\ s[i + 1] = "nl" THEN i + 1
          ELSE IF escaped THEN ScanSeparator(s, i + 2, q, start /\ q # "")
          ELSE IF q # "" THEN ScanSeparator(s, i + 1, IF c = q THEN "" ELSE q, start)
          ELSE IF c \in {"sq", "dq"} THEN ScanSeparator(s, i + 1, c, FALSE)
          ELSE IF c = "#" /\ start
          THEN IF \E j \in i..Len(s) : s[j] = "nl"
               THEN CHOOSE j \in i..Len(s) : s[j] = "nl" /\ \A k \in i..(j - 1) : s[k] # "nl"
               ELSE 0
          ELSE IF c = ";" THEN i
          ELSE ScanSeparator(s, i + 1, q,
                 IF c = "#" THEN start ELSE IsShellSpace(c) \/ IsOperatorStart(c))

FindCommandSeparator(s) == ScanSeparator(s, 1, "", TRUE)

-----------------------------------------------------------------------------
(* Words are sequences of <<byte, quote>>: "u" unquoted, "s" and "d" within  *)
(* quotes, "e" escaped.                                                      *)

Failure(e) == [err |-> e, word |-> <<>>, next |-> 0]

RECURSIVE ScanWord(_, _, _, _)
\* scanSyntaxWord from byte i on, with w read so far, inside quote q.
ScanWord(s, i, w, q) ==
  IF i > Len(s)
  THEN IF q = "" THEN [err |-> "none", word |-> w, next |-> i] ELSE Failure("parse")
  ELSE LET c == s[i]
       IN CASE q = "" /\ (IsShellSpace(c) \/ c \in {";", "nl"} \/ IsOperatorStart(c)) ->
                 [err |-> "none", word |-> w, next |-> i]
            [] q = c -> ScanWord(s, i + 1, w, "")
            [] q = "" /\ c \in {"sq", "dq"} -> ScanWord(s, i + 1, w, c)
            [] c = "\\" /\ q # "sq" /\ i < Len(s) ->
                 ScanWord(s, i + 2, Append(w, <<s[i + 1], "e">>), q)
            [] OTHER -> ScanWord(s, i + 1,
                 Append(w, <<c, CASE q = "sq" -> "s" [] q = "dq" -> "d"
                                  [] OTHER -> IF c = "\\" THEN "e" ELSE "u">>), q)

\* validateSyntaxWord: nothing the shell does not support outside '...' and \.
WordSupported(w) ==
  \A i \in DOMAIN w : w[i][2] \in {"u", "d"} => w[i][1] \notin {"(", "&"}

Text(w) == [i \in DOMAIN w |-> w[i][1]]

\* isEnvAssignment and validateLiteralEnvAssignment
IsEnvAssignment(w) ==
  \E e \in 2..Len(w) : /\ w[e][1] = "=" /\ w[1][1] \notin Digits
                       /\ \A i \in 1..(e - 1) : w[i][1] \notin {"=", "$", "*", "/", ".", "\\", "#", " ", "(", ";", "|", "&", ">"}
LiteralAssignment(w) == \A i \in DOMAIN w : w[i][2] = "u" /\ w[i][1] \notin {"$", "*"}

Token(kind, w) == [kind |-> kind, word |-> w]
Operators(toks) == SelectSeq(toks, LAMBDA t : t.kind \in {"&&", "||", "|"})

HasPrefixAt(s, i, prefix) == i + Len(prefix) - 1 <= Len(s) /\ SubSeq(s, i, i + Len(prefix) - 1) = prefix
IsTokenBoundary(s, i) == i > Len(s) \/ IsShellSpace(s[i]) \/ s[i] \in {";", "nl"} \/ IsOperatorStart(s[i])
\* A redirection of another descriptor begins at byte i.
OtherDescriptor(s, i) ==
  \E j \in (i + 1)..Len(s) : s[j] \in {"<", ">"} /\ \A k \in i..(j - 1) : s[k] \in Digits

RECURSIVE TokenizeFrom(_, _, _)
\* tokenizeShellSegment from byte i on, after toks; appendToken's limits come first.
TokenizeFrom(s, i, toks) ==
  LET c == s[i]
      twice == i < Len(s) /\ s[i + 1] = c
      word == ScanWord(s, i, <<>>, "")
  IN IF Len(toks) > MaxSyntaxTokens \/ Len(Operators(toks)) > MaxSyntaxOperators
     THEN [err |-> "limit", toks |-> <<>>]
     ELSE IF i > Len(s) THEN [err |-> "none", toks |-> toks]
     ELSE IF IsShellSpace(c) THEN TokenizeFrom(s, i + 1, toks)
     ELSE IF c = "#" THEN [err |-> "none", toks |-> toks]
     ELSE IF c \in {";", "nl"}
     THEN [err |-> IF \A j \in (i + 1)..Len(s) : IsShellSpace(s[j]) THEN "none" ELSE "parse",
           toks |-> toks]
     ELSE IF c \in {"&", "|"} /\ twice
     THEN TokenizeFrom(s, i + 2, Append(toks, Token(IF c = "&" THEN "&&" ELSE "||", <<>>)))
     ELSE IF c = "|" \/ (c = ">" /\ ~twice) THEN TokenizeFrom(s, i + 1, Append(toks, Token(c, <<>>)))
     ELSE IF HasPrefixAt(s, i, <<"2", ">", "&", "1">>) /\ IsTokenBoundary(s, i + 4)
     THEN TokenizeFrom(s, i + 4, Append(toks, Token("2>&1", <<>>)))
     ELSE IF HasPrefixAt(s, i, <<"2", ">">>) /\ ~HasPrefixAt(s, i, <<"2", ">", ">">>)
     THEN TokenizeFrom(s, i + 2, Append(toks, Token("2>", <<>>)))
     ELSE IF IsOperatorStart(c) \/ OtherDescriptor(s, i) \/ word.err = "parse" \/ ~WordSupported(word.word)
     THEN [err |-> "parse", toks |-> <<>>]
     ELSE TokenizeFrom(s, word.next, Append(toks, Token("word", word.word)))

\* trimShellSegment drops the separator the segment was cut at.
TrimSegment(s) ==
  LET sep == FindCommandSeparator(s)
  IN IF sep # 0 /\ \A j \in (sep + 1)..Len(s) : IsShellSpace(s[j]) THEN SubSeq(s, 1, sep - 1) ELSE s

-----------------------------------------------------------------------------
(* parseShellLine over the tokens                                            *)

\* The pieces of toks between its tokens of the given kinds, and those tokens.
SplitAt(toks, kinds) ==
  LET cuts == <<0>> \o SetToSortSeq({i \in DOMAIN toks : toks[i].kind \in kinds}, <) \o <<Len(toks) + 1>>
  IN [pieces |-> [k \in 1..(Len(cuts) - 1) |-> SubSeq(toks, cuts[k] + 1, cuts[k + 1] - 1)],
      ops |-> [k \in 1..(Len(cuts) - 2) |-> toks[cuts[k + 1]].kind]]

\* parseRedirect: a function from the places of the redirections; a word behind
\* > or 2> is its target, 2>&1 has none.
IsTarget(toks, i) == i > 1 /\ toks[i - 1].kind \in {">", "2>"}
Redirects(toks) ==
  [k \in {i \in DOMAIN toks : toks[i].kind \in {">", "2>", "2>&1"}} |->
     [op |-> toks[k].kind,
      target |-> IF k < Len(toks) /\ IsTarget(toks, k + 1) /\ toks[k + 1].kind = "word" THEN toks[k + 1].word ELSE <<>>]]
Words(toks) == LET at == SetToSortSeq({i \in DOMAIN toks : toks[i].kind = "word" /\ ~IsTarget(toks, i)}, <)
               IN [k \in DOMAIN at |-> toks[at[k]].word]
\* How many leading words are assignments
EnvCount(ws) == CHOOSE n \in 0..Len(ws) : /\ \A i \in 1..n : IsEnvAssignment(ws[i])
                                          /\ n < Len(ws) => ~IsEnvAssignment(ws[n + 1])

\* parseSimpleCommandTokens: the first of its errors, left to right
CommandError(redirects, ws) ==
  LET over == {k \in DOMAIN redirects :
                 Cardinality({j \in DOMAIN redirects : j < k}) >= MaxRedirectionsPerCommand}
      missing == {k \in DOMAIN redirects : redirects[k].op # "2>&1" /\ redirects[k].target = <<>>}
  IN IF \E k \in over : \A j \in missing : k <= j THEN "limit"
     ELSE IF missing # {} THEN "parse"
     ELSE IF \E i \in 1..EnvCount(ws) : ~LiteralAssignment(ws[i]) THEN "parse"
     ELSE IF redirects # <<>> /\ EnvCount(ws) = 0 /\ (ws = <<>> \/ ws[1] = <<>>) THEN "parse"
     ELSE "none"

\* words is what expandSimpleCommand expands, in its order.
SimpleCommand(redirects, ws, n) ==
  LET at == SetToSortSeq(DOMAIN redirects, <)
      plain == SelectSeq(at, LAMBDA k : redirects[k].op # "2>&1")
      rest == SubSeq(ws, n + 1, Len(ws))
  IN [env |-> [i \in 1..n |-> Text(ws[i])],
      name |-> IF rest = <<>> THEN <<>> ELSE Text(rest[1]),
      args |-> [i \in 1..(Len(rest) - 1) |-> Text(rest[1 + i])],
      redirects |-> [k \in DOMAIN at |-> [op |-> redirects[at[k]].op, target |-> Text(redirects[at[k]].target)]],
      words |-> rest \o [k \in DOMAIN plain |-> redirects[plain[k]].target]]

ParseCommand(redirects, ws) ==
  [err |-> CommandError(redirects, ws), cmd |-> SimpleCommand(redirects, ws, EnvCount(ws))]

\* parsePipelineTokens: an empty place between operators is a missing command.
JoinParts(parsed) ==
  [errs |-> [k \in DOMAIN parsed |-> parsed[k].err], parts |-> [k \in DOMAIN parsed |-> parsed[k].cmd]]
PipelineOf(pieces) ==
  JoinParts([k \in DOMAIN pieces |->
               IF pieces[k] = <<>> THEN [err |-> "parse", cmd |-> <<>>]
               ELSE ParseCommand(Redirects(pieces[k]), Words(pieces[k]))])
Pipeline(toks) == PipelineOf(SplitAt(toks, {"|"}).pieces)

\* parseShellLine: [err, pipelines, ops]; the leftmost error is the one reported.
Line(err, pipes, ops) == [err |-> err, pipelines |-> pipes, ops |-> ops]

FirstError(errs) ==
  LET k == SelectInSeq(errs, LAMBDA e : e # "none") IN IF k = 0 THEN "none" ELSE errs[k]

JoinPipelines(pipes, ops) ==
  Line(FirstError(FlattenSeq([k \in DOMAIN pipes |-> pipes[k].errs])),
       [k \in DOMAIN pipes |-> pipes[k].parts], ops)

ParsePipelines(split) ==
  JoinPipelines([k \in DOMAIN split.pieces |-> Pipeline(split.pieces[k])], split.ops)

ParseTokens(lexed) ==
  IF lexed.err # "none" \/ lexed.toks = <<>> THEN Line(lexed.err, <<>>, <<>>)
  ELSE ParsePipelines(SplitAt(lexed.toks, {"&&", "||"}))

ParseShellLine(s) == ParseTokens(TokenizeFrom(TrimSegment(s), 1, <<>>))
=============================================================================
