---------------------------- MODULE ShellCommands ----------------------------
(***************************************************************************)
(* What a line of the fake shell does (modules/fakeshell/fakeshell.go,      *)
(* syntax_expand.go, cmds/): && and ||, pipelines, assignments,             *)
(* redirections into the dynamic store, and the built-ins that change       *)
(* state.  The state of a session is a record                               *)
(*   status   lastStatus                                                    *)
(*   dyn      DynamicStore: [path, size] in insertion order                 *)
(*   env      TempEnv: a function from upper-case names to values           *)
(*   events   the command events given to the session log                   *)
(*   over     "no", "exit" (ErrExit) or "limit" (a syntax limit)            *)
(* Built-ins have one-letter names: "a" writes its arguments (echo; every   *)
(* command that only prints is one), "t" is touch, "c" is cd, "x" is exit;  *)
(* any other name is unknown.  The variable PWD has the name "P", as "p"    *)
(* has, and HOME the name "H".  Variables are not expanded.                 *)
(***************************************************************************)
EXTENDS ShellSyntax

CONSTANTS MaxInputArgs, MaxInputTokenBytes, MaxSessionEnvEntries, MaxSessionEnvBytes,
          MaxDynamicEntries, MaxDynamicPathLen,
          Home                \* the configured home directory, an absolute path

FreshSession == [status |-> 0, dyn |-> <<>>, env |-> <<>>, events |-> <<>>, over |-> "no"]

EnvPWD == <<"P">>
EnvHOME == <<"H">>
\* GetEnv: TempEnv first, then what the configuration gives PWD and HOME
GetEnv(env, key) ==
  IF key \in DOMAIN env THEN env[key] ELSE IF key \in {EnvPWD, EnvHOME} THEN Home ELSE <<>>

\* cmds.ResolvePath: relative to the current directory unless it begins with a
\* slash; a path is the sequence of its names, <<>> is the root.  A backslash in the
\* argument and ".." anywhere are refused.
Names(text) ==
  LET cuts == <<0>> \o SetToSortSeq({i \in DOMAIN text : text[i] = "/"}, <) \o <<Len(text) + 1>>
  IN [k \in 1..(Len(cuts) - 1) |-> SubSeq(text, cuts[k] + 1, cuts[k + 1] - 1)]
Joined(cwd, arg) == IF arg # <<>> /\ arg[1] = "/" THEN arg ELSE cwd \o <<"/">> \o arg
PathAllowed(cwd, arg) == ~Contains(arg, "\\") /\ ~Contains(Names(Joined(cwd, arg)), <<".", ".">>)
ResolvePath(cwd, arg) == SelectSeq(Names(Joined(cwd, arg)), LAMBDA name : name \notin {<<>>, <<".">>})
PathText(path) == IF path = <<>> THEN <<"/">> ELSE FlattenSeq([k \in DOMAIN path |-> <<"/">> \o path[k]])
ParentOf(path) == IF path = <<>> THEN <<>> ELSE Front(path)
\* fakeDirExists and parentExists: the root, or a directory of the loaded file
\* system (no command records a dynamic directory).
IsDirectory(fs, path) == path = <<>> \/ [path |-> path, kind |-> "dir"] \in fs

-----------------------------------------------------------------------------
(* DynamicStore.Record: a known path is always updated in place, a new one   *)
(* only while there is room.                                                 *)

DynPaths(dyn) == {dyn[i].path : i \in DOMAIN dyn}
RecordFits(dyn, path) ==
  Len(PathText(path)) <= MaxDynamicPathLen /\ (path \in DynPaths(dyn) \/ Len(dyn) < MaxDynamicEntries)
Record(dyn, path, size) ==
  IF path \in DynPaths(dyn)
  THEN [i \in DOMAIN dyn |-> IF dyn[i].path = path THEN [path |-> path, size |-> size] ELSE dyn[i]]
  ELSE Append(dyn, [path |-> path, size |-> size])

-----------------------------------------------------------------------------
(* runCmd: what one built-in leaves behind.  out and err are what it writes  *)
(* to its two streams.                                                       *)

Done(sh, out) == [ok |-> TRUE, out |-> out, err |-> 0, dyn |-> sh.dyn, env |-> sh.env]
Complains(sh) == [ok |-> FALSE, out |-> 0, err |-> 1, dyn |-> sh.dyn, env |-> sh.env]

Touch(sh, fs, args) ==
  LET cwd == GetEnv(sh.env, EnvPWD)
      path == ResolvePath(cwd, args[1])
  IN IF Len(args) # 1 THEN Complains(sh)
     ELSE IF ~PathAllowed(cwd, args[1]) \/ ~IsDirectory(fs, ParentOf(path)) \/ ~RecordFits(sh.dyn, path)
     THEN Complains(sh)
     ELSE [Done(sh, 0) EXCEPT !.dyn = Record(@, path, 0)]

\* cd without an argument goes home, and the root is home when HOME is empty.
Cd(sh, fs, args) ==
  LET cwd == GetEnv(sh.env, EnvPWD)
      home == IF GetEnv(sh.env, EnvHOME) = <<>> THEN <<"/">> ELSE GetEnv(sh.env, EnvHOME)
      target == IF args = <<>> \/ args[1] = <<>> THEN home ELSE args[1]
      path == ResolvePath(cwd, target)
  IN IF ~PathAllowed(cwd, target) \/ ~IsDirectory(fs, path) THEN Complains(sh)
     ELSE [Done(sh, 0) EXCEPT !.env = (EnvPWD :> PathText(path)) @@ @]

RunCmd(sh, fs, cmd) ==
  CASE cmd.name = <<"a">> -> Done(sh, 1 + Len(cmd.args))
    [] cmd.name = <<"t">> -> Touch(sh, fs, cmd.args)
    [] cmd.name = <<"c">> -> Cd(sh, fs, cmd.args)
    [] cmd.name = <<"x">> -> Done(sh, 0)
    [] OTHER -> Complains(sh)

-----------------------------------------------------------------------------
(* executeSimpleCommand                                                      *)

Limited(sh) == [sh EXCEPT !.over = "limit"]

\* logCommand: the event carries every entry of the dynamic store.
LogCommand(sh, cmd) ==
  [sh EXCEPT !.events = Append(@, [type |-> "command", args |-> Len(cmd.args), metadata |-> Len(sh.dyn)])]

\* splitEnvAssignment and SetEnv: names are kept in upper case.
EnvKey(text) ==
  [i \in 1..(SelectInSeq(text, LAMBDA c : c = "=") - 1) |-> IF text[i] = "p" THEN "P" ELSE text[i]]
EnvValue(text) == SubSeq(text, SelectInSeq(text, LAMBDA c : c = "=") + 1, Len(text))
Assign(env, texts) == FoldLeft(LAMBDA e, text : (EnvKey(text) :> EnvValue(text)) @@ e, env, texts)
EnvBytes(env) == FoldFunction(LAMBDA n, sum : sum + n, 0, [key \in DOMAIN env |-> Len(key) + Len(env[key])])

\* The bounds on assignments of validateAssignmentOnlyEnv and of
\* validateExpandedSimpleCommandBounds
AssignmentsFit(texts) ==
  Len(texts) <= MaxInputArgs /\ \A i \in DOMAIN texts : Len(texts[i]) <= MaxInputTokenBytes

\* executeAssignmentOnly: all of the assignments, or none and the session ends.
AssignmentOnly(sh, texts) ==
  LET env == Assign(sh.env, texts)
  IN IF /\ AssignmentsFit(texts)
        /\ Cardinality(DOMAIN env) <= MaxSessionEnvEntries /\ EnvBytes(env) <= MaxSessionEnvBytes
     THEN [sh EXCEPT !.env = env, !.status = 0] ELSE Limited(sh)

\* The first error of expandSimpleCommand: a "limit" ends the session, of a word that
\* cannot be expanded ("refused") the user is told.
ExpansionError(cmd) ==
  LET WordError(w) == IF Len(w) > MaxInputTokenBytes THEN "limit"
                      ELSE IF Contains(w, <<"*", "u">>) THEN "refused" ELSE "none"
      first == FirstError([k \in DOMAIN cmd.words |-> WordError(cmd.words[k])])
  IN IF first = "none" /\ (Len(cmd.args) > MaxInputArgs \/ ~AssignmentsFit(cmd.env)) THEN "limit" ELSE first

\* preflightOutputRedirectionTargets and validateFakeOutputRedirection
OutputPath(sh, redirect) == ResolvePath(GetEnv(sh.env, EnvPWD), redirect.target)
Outputs(cmd) == {k \in DOMAIN cmd.redirects : cmd.redirects[k].op # "2>&1"}
RedirectError(sh, fs, cmd) ==
  LET ErrorOf(path, target) ==
        IF ~PathAllowed(GetEnv(sh.env, EnvPWD), target) THEN "refused"
        ELSE IF Len(PathText(path)) > MaxDynamicPathLen THEN "limit"
        ELSE IF IsDirectory(fs, ParentOf(path)) /\ ~IsDirectory(fs, path) /\ RecordFits(sh.dyn, path)
        THEN "none" ELSE "refused"
      errs == [k \in DOMAIN cmd.redirects |->
                 IF k \in Outputs(cmd) THEN ErrorOf(OutputPath(sh, cmd.redirects[k]), cmd.redirects[k].target) ELSE "none"]
      paths == {OutputPath(sh, cmd.redirects[k]) : k \in Outputs(cmd)}
  IN IF FirstError(errs) = "none" /\ Cardinality(DynPaths(sh.dyn) \cup paths) > MaxDynamicEntries
     THEN "refused" ELSE FirstError(errs)

\* applyFakeRedirections reserves every target with size 0 before the command runs.
Reserve(sh, cmd) ==
  LET Put(dyn, k) == IF k \in Outputs(cmd) THEN Record(dyn, OutputPath(sh, cmd.redirects[k]), 0) ELSE dyn
  IN [sh EXCEPT !.dyn = FoldLeftDomain(LAMBDA dyn, k : Put(dyn, k), @, cmd.redirects)]

\* Where the streams go, 0 for the terminal: to the last redirection of each; 2>&1
\* sends errors where the output goes at that place.
LastOf(ks) == IF ks = {} THEN 0 ELSE Max(ks)
OutputTo(cmd, n) == LastOf({k \in 1..n : cmd.redirects[k].op = ">"})
ErrorsTo(cmd) ==
  LET last == LastOf({k \in DOMAIN cmd.redirects : cmd.redirects[k].op # ">"})
  IN IF last > 0 /\ cmd.redirects[last].op = "2>&1" THEN OutputTo(cmd, last) ELSE last

\* Its clean-up records for each target the most that one of its writers counted;
\* the targets were resolved before the command ran.
RedirCleanup(sh, before, cmd, done) ==
  LET Path(k) == OutputPath(before, cmd.redirects[k])
      Count(k) == (IF k = OutputTo(cmd, Len(cmd.redirects)) THEN done.out ELSE 0) + (IF k = ErrorsTo(cmd) THEN done.err ELSE 0)
      Size(path) == Max({Count(k) : k \in {j \in Outputs(cmd) : Path(j) = path}})
      Put(dyn, k) == IF k \in Outputs(cmd) THEN Record(dyn, Path(k), Size(Path(k))) ELSE dyn
  IN [sh EXCEPT !.dyn = FoldLeftDomain(LAMBDA dyn, k : Put(dyn, k), @, cmd.redirects)]

\* The clean-up of applyCommandEnv: what the command's own assignments hid is back,
\* whatever the command did to it.
RestoreEnv(env, before, texts) ==
  LET own == {EnvKey(texts[i]) : i \in DOMAIN texts}
  IN [key \in (DOMAIN env \ own) \cup (DOMAIN before \cap own) |-> IF key \in own THEN before[key] ELSE env[key]]

\* reserved is the state the command runs in, done what the built-in left behind.
AfterCommand(sh, reserved, cmd, done) ==
  [LogCommand(RedirCleanup([reserved EXCEPT !.dyn = done.dyn], reserved, cmd, done), cmd)
     EXCEPT !.env = RestoreEnv(done.env, sh.env, cmd.env),
            !.status = IF done.ok THEN 0 ELSE 1,
            !.over = IF cmd.name = <<"x">> THEN "exit" ELSE "no"]
RunReserved(sh, reserved, fs, cmd) == AfterCommand(sh, reserved, cmd, RunCmd(reserved, fs, cmd))

\* applyFakeRedirections and the command, in its own environment
RunRedirected(sh, own, fs, cmd) ==
  CASE RedirectError(own, fs, cmd) = "limit" -> Limited(sh)
    [] RedirectError(own, fs, cmd) = "refused" -> [LogCommand(sh, cmd) EXCEPT !.status = 1]
    [] OTHER -> RunReserved(sh, Reserve(own, cmd), fs, cmd)

ExecuteSimpleCommand(sh, fs, cmd) ==
  IF cmd.name = <<>> THEN AssignmentOnly(sh, cmd.env)
  ELSE CASE ExpansionError(cmd) = "limit" -> Limited(sh)
         [] ExpansionError(cmd) = "refused" -> [sh EXCEPT !.status = 1]
         [] OTHER -> RunRedirected(sh, [sh EXCEPT !.env = Assign(@, cmd.env)], fs, cmd)

\* executePipeline: every part runs, in order; the status is the last one's, and
\* parts read lastStatus of before the pipeline (no part of the state uses it).
ExecutePipeline(sh, fs, parts) ==
  FoldLeft(LAMBDA s, cmd : IF s.over = "no" THEN ExecuteSimpleCommand(s, fs, cmd) ELSE s, sh, parts)

\* executeShellLine: && and || look at the status of what ran last.
ExecuteLine(sh, fs, line) ==
  LET Skipped(s, k) == k > 1 /\ \/ line.ops[k - 1] = "&&" /\ s.status # 0
                                \/ line.ops[k - 1] = "||" /\ s.status = 0
      Do(s, k) == IF s.over # "no" \/ Skipped(s, k) THEN s
                  ELSE ExecutePipeline(s, fs, line.pipelines[k])
  IN CASE line.err = "limit" -> Limited(sh)
       [] line.err = "parse" -> [sh EXCEPT !.status = 2]
       [] OTHER -> FoldLeftDomain(LAMBDA s, k : Do(s, k), sh, line.pipelines)

ExecuteShellLine(sh, fs, segment) == ExecuteLine(sh, fs, ParseShellLine(segment))
=============================================================================
