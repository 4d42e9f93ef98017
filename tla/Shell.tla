-------------------------------- MODULE Shell --------------------------------
(***************************************************************************)
(* One session of the fake shell (modules/fakeshell/fakeshell.go): NewShell *)
(* loads the root file system and opens the session log, RunLoop reads      *)
(* bytes in whatever pieces the channel delivers, cuts them into commands   *)
(* and runs these.  The prompt is left out: nothing depends on it.          *)
(* How a session begins is chosen in Init as a scene                        *)
(*   source   where the root file system comes from                         *)
(*   enable   whether the log is enabled; broken, that it cannot be created *)
(*   failAt   the write to the log that fails (0: none)                     *)
(*   bytes    what may be typed, and script, if not <<>>, the only input    *)
(***************************************************************************)
EXTENDS ShellCommands, SessionLog, RootFS

CONSTANTS MaxInputLineBytes, MaxCommandsPerReadCycle,
          MaxTyped,       \* a bound on the bytes the peer types
          Scenes

VARIABLES scene,
          phase,    \* "load", "loop", "read" or "end"
          why,      \* what RunLoop returned
          typed,    \* every byte read so far (history)
          buf, eof, discard, cycle,   \* RunLoop's variables
          sh,       \* the state commands see: ShellCommands
          log       \* SessionLog

vars == <<scene, phase, why, typed, buf, eof, discard, cycle, sh, log, rootVars>>
loopVars == <<typed, buf, eof, discard, cycle, sh>>

Init ==
  /\ scene \in Scenes
  /\ phase = "load" /\ why = "none"
  /\ typed = <<>> /\ buf = <<>> /\ eof = FALSE /\ discard = FALSE /\ cycle = 0
  /\ sh = FreshSession
  /\ log = NewSessionLogger(scene.enable)
  /\ host = scene.source.host
  /\ walk = NoWalk
  /\ seen = {} /\ nodes = {} /\ loadErr = "loading"

\* LoadRootFS from an archive: the embedded one (always the same small tree), or a
\* file of the host, which is opened and checked first.  What reads a directory in
\* its place fails, and so does a file put where a directory was; of another file
\* with its number the archive is read.
LoadArchive ==
  /\ phase = "load" /\ loadErr = "loading"
  /\ scene.source.type # "embedded" => walk.root.state = "file"
  /\ LET opened == scene.source.type # "embedded" => SameObject(<<>>, walk.root.ino) /\ host[<<>>].kind = "file"
         loaded == CASE opened /\ scene.source.type \in {"embedded", "tar"} -> LoadTar(scene.source.headers)
                     [] opened /\ scene.source.type = "zip" -> LoadZip(scene.source.zip)
                     [] OTHER -> Failed
     IN /\ loadErr' = IF loaded.ok THEN "no" ELSE "failed"
        /\ seen' = loaded.seen /\ nodes' = loaded.nodes
  /\ UNCHANGED <<scene, phase, why, loopVars, log, host, walk>>

LoadFromHost ==
  /\ phase = "load" /\ scene.source.type # "embedded"
  /\ WalkStep
  /\ UNCHANGED <<scene, phase, why, loopVars, log>>

SessionStart == [type |-> "session_start", args |-> 0, metadata |-> 0]
SessionEnd == [type |-> "session_end", args |-> 0, metadata |-> 0]

\* RunLoop returns: its deferred logSessionEnd writes the last event and closes.
Return(reason, l) ==
  /\ phase' = "end" /\ why' = reason
  /\ log' = Close(Log(l, SessionEnd, scene.failAt))

\* The end of NewShell and the beginning of RunLoop: no prompt without a root file
\* system, none without the log that was asked for.
Start ==
  /\ phase = "load" /\ loadErr # "loading"
  /\ IF loadErr = "failed" \/ scene.broken
     THEN /\ phase' = "end" /\ why' = IF loadErr = "failed" THEN "rootfs" ELSE "logger"
          /\ UNCHANGED log
     ELSE /\ phase' = "loop" /\ log' = Log(log, SessionStart, scene.failAt)
          /\ UNCHANGED why
  /\ UNCHANGED <<scene, loopVars, rootVars>>

-----------------------------------------------------------------------------
(* processBufferedInput                                                      *)

\* What is left of the buffer behind its physical line.
BehindLine(b) == SubSeq(b, PhysicalLineEnd(b) + 1, Len(b))

\* What is left of a line being discarded: the buffer behind it, and whether the
\* line goes on.
AfterDiscard(b, d, atEOF) ==
  LET whole == Contains(b, "nl")
  IN IF ~d THEN [buf |-> b, discard |-> FALSE]
     ELSE [buf |-> BehindLine(b), discard |-> ~whole /\ ~atEOF]

\* The end of the next segment to run, 0 if there is none: at a separator, or at
\* the end of the input.
SegmentEnd(b, sep, atEOF) == IF sep = 0 /\ atEOF THEN Len(b) ELSE sep

\* A mutant of Consume: what arrives later of a line that did not parse is not
\* discarded.
ConsumeForgetful(b, n, err, atEOF) ==
  [buf |-> IF err = "none" THEN SubSeq(b, n + 1, Len(b)) ELSE BehindLine(b), discard |-> FALSE]

\* What a segment takes out of the buffer: one that does not parse takes the rest
\* of its physical line with it, which may still have to arrive.
Consume(b, n, err, atEOF) ==
  IF err = "none"
  THEN [buf |-> SubSeq(b, n + 1, Len(b)), discard |-> FALSE]
  ELSE [buf |-> BehindLine(b), discard |-> ~Contains(b, "nl") /\ ~atEOF]

\* The state of the root file system that commands look at
LoadedFS == {[path |-> n.path, kind |-> n.kind] : n \in nodes}

\* The command events the run of a segment added go to the log, in order.
LogNew(l, old, new) ==
  FoldLeft(LAMBDA acc, ev : Log(acc, ev, scene.failAt), l, SubSeq(new, Len(old) + 1, Len(new)))

\* What processBufferedInput does with the first n bytes of b, which parsed as line.
RunLine(b, n, line) ==
  LET left == Consume(b, n, line.err, eof)
  IN /\ sh' = ExecuteLine(sh, LoadedFS, line)
     /\ IF line.err = "limit"
        THEN buf' = b /\ discard' = FALSE /\ cycle' = cycle
        ELSE buf' = left.buf /\ discard' = left.discard /\ cycle' = cycle + 1

\* One turn of RunLoop that runs a segment.
RunSegment ==
  /\ phase = "loop" /\ cycle < MaxCommandsPerReadCycle
  /\ LET rest == AfterDiscard(buf, discard, eof)
         n == SegmentEnd(rest.buf, FindCommandSeparator(rest.buf), eof)
     IN /\ ~rest.discard /\ n > 0
        /\ RunLine(rest.buf, n, ParseShellLine(SubSeq(rest.buf, 1, n)))
  /\ LET logged == LogNew(log, sh.events, sh'.events)
     IN IF sh'.over = "no" THEN log' = logged /\ UNCHANGED <<phase, why>>
        ELSE Return(sh'.over, logged)
  /\ UNCHANGED <<scene, typed, eof, rootVars>>

\* A turn that only discards, or finds nothing to run: the session ends at the end
\* of the input, else more is read.
NothingToRun ==
  /\ phase = "loop" /\ cycle < MaxCommandsPerReadCycle
  /\ LET rest == AfterDiscard(buf, discard, eof)
     IN /\ rest.discard \/ SegmentEnd(rest.buf, FindCommandSeparator(rest.buf), eof) = 0
        /\ buf' = rest.buf /\ discard' = rest.discard
  /\ IF eof THEN Return("eof", log) ELSE phase' = "read" /\ UNCHANGED <<why, log>>
  /\ UNCHANGED <<scene, typed, eof, cycle, sh, rootVars>>

\* After MaxCommandsPerReadCycle commands the loop begins a new cycle.
NewCycle ==
  /\ phase = "loop" /\ cycle >= MaxCommandsPerReadCycle
  /\ cycle' = 0
  /\ UNCHANGED <<scene, phase, why, typed, buf, eof, discard, sh, log, rootVars>>

\* The context is looked at when a turn begins.
Cancelled ==
  /\ phase = "loop"
  /\ Return("cancelled", log)
  /\ UNCHANGED <<scene, loopVars, rootVars>>

\* readInput: at most so many bytes that the buffer shows an overlong line.
Room == MaxInputLineBytes + 1 - Len(buf)

\* The line in b is too long: no separator within what a line may hold.
TooLong(b) == Len(b) > MaxInputLineBytes /\ FindCommandSeparator(b) = 0

\* What the peer may send next: the script's next bytes, or any.
Chunks ==
  LET most == IF scene.script # <<>> THEN Len(scene.script) - Len(typed) ELSE MaxTyped - Len(typed)
      n == IF Room < most THEN Room ELSE most
  IN IF scene.script # <<>>
     THEN {SubSeq(scene.script, Len(typed) + 1, Len(typed) + k) : k \in 1..n}
     ELSE UNION {[1..k -> scene.bytes] : k \in 1..n}

\* Read returns a chunk, perhaps with the end of the input.
ReadInput(chunk, atEOF) ==
  /\ phase = "read"
  /\ buf' = buf \o chunk /\ typed' = typed \o chunk
  /\ eof' = atEOF /\ cycle' = 0
  /\ IF TooLong(buf') THEN Return("toolong", log) ELSE phase' = "loop" /\ UNCHANGED <<why, log>>
  /\ UNCHANGED <<scene, discard, sh, rootVars>>

\* Read, or the write of the prompt before it, fails.
ReadFails ==
  /\ phase = "read"
  /\ Return("io", log)
  /\ UNCHANGED <<scene, loopVars, rootVars>>

Next ==
  \/ LoadArchive \/ LoadFromHost \/ Start
  \/ RunSegment \/ NothingToRun \/ NewCycle \/ Cancelled
  \/ \E chunk \in Chunks, atEOF \in BOOLEAN : ReadInput(chunk, atEOF)
  \/ ReadInput(<<>>, TRUE) \/ ReadFails

Spec == Init /\ [][Next]_vars

-----------------------------------------------------------------------------
(* The input without its pieces: what the bytes typed so far mean            *)

\* The lexical mode after each prefix of s, one byte at a time.
ModeAfter(mode, c) ==
  CASE c = "nl" -> "start"
    [] c # "nl" /\ mode = "comment" -> "comment"
    [] c # "nl" /\ mode = "sq" -> IF c = "sq" THEN "word" ELSE "sq"
    [] c # "nl" /\ mode = "dq" -> IF c = "dq" THEN "word" ELSE IF c = "\\" THEN "dqesc" ELSE "dq"
    [] c # "nl" /\ mode = "dqesc" -> "dq"
    [] c # "nl" /\ mode = "esc" -> "word"
    [] OTHER -> IF c = "\\" THEN "esc"
                ELSE IF c \in {"sq", "dq"} THEN c
                ELSE IF c = "#" THEN (IF mode = "start" THEN "comment" ELSE "word")
                ELSE IF c = ";" \/ IsShellSpace(c) \/ IsOperatorStart(c) THEN "start" ELSE "word"

Modes(s) ==
  LET mode[n \in 0..Len(s)] == IF n = 0 THEN "start" ELSE ModeAfter(mode[n - 1], s[n])
  IN mode

\* The ends of the segments of s: newlines, and semicolons that are neither quoted,
\* escaped nor in a comment; at the end of the input also its last byte.
Ends(s, atEOF) ==
  LET mode == Modes(s)
  IN {i \in 1..Len(s) : \/ s[i] = "nl"
                        \/ s[i] = ";" /\ mode[i - 1] \in {"start", "word"}
                        \/ atEOF /\ i = Len(s)}

\* The segments of s that are to run, in order: all but those behind one on the
\* same physical line that does not parse.
Segments(s, ends) ==
  [k \in DOMAIN ends |-> SubSeq(s, (IF k = 1 THEN 1 ELSE ends[k - 1] + 1), ends[k])]
KeepUntilError(segs, errs) ==
  LET SameLine(j, k) == \A i \in j..(k - 1) : ~Contains(segs[i], "nl")
      kept == {k \in DOMAIN segs : \A j \in 1..(k - 1) : SameLine(j, k) => errs[j] # "parse"}
      order == SetToSortSeq(kept, <)
  IN [n \in DOMAIN order |-> segs[order[n]]]
ParsedApart(segs) == KeepUntilError(segs, [k \in DOMAIN segs |-> ParseShellLine(segs[k]).err])
Meant(s, atEOF) == ParsedApart(Segments(s, SetToSortSeq(Ends(s, atEOF), <)))

\* The states of a session that runs segs one after the other, from its first.
Sessions(segs) ==
  LET after[n \in 0..Len(segs)] ==
        IF n = 0 THEN FreshSession
        ELSE IF after[n - 1].over = "no" THEN ExecuteShellLine(after[n - 1], LoadedFS, segs[n])
        ELSE after[n - 1]
  IN after

\* However the bytes were cut into reads, discarded lines and cycles: when the
\* shell waits for input, and when it ended with it, it has run exactly the
\* segments the bytes mean, in order; when it ended early, a first part of them.
RanAllOf(after) ==
  IF phase = "read" \/ why \in {"eof", "exit", "limit"}
  THEN sh = after[Max(DOMAIN after)]
  ELSE \E n \in DOMAIN after : sh = after[n]
CommandsAsTyped == RanAllOf(Sessions(Meant(typed, eof)))

\* The session log: LogSound at every step of a session, and a session that began
\* one has closed it behind its last event.
LogTellsAll ==
  /\ LogSound(log)
  /\ log.on /\ phase = "end" /\ why \notin {"rootfs", "logger"} =>
       log.closed /\ log.given[Len(log.given)] = SessionEnd

\* The file system a session sees loaded completely and within its bound, every
\* ancestor counted.  Whatever others put under its names meanwhile, each was made
\* for a regular file or a directory; it has that object's kind, unless the object
\* has the number of one that was gone before it; and a directory of a session that
\* has its prompt was one on the host.
RootFSSound ==
  /\ Cardinality(nodes) <= MaxRootFSEntries
  /\ \A n \in nodes : n.was \in {"none", "file", "dir"} /\ (n.was \in {"none", n.kind} \/ n.ino \in walk.again)
  /\ {n.path : n \in nodes} \subseteq seen
  /\ phase \in {"loop", "read"} =>
       /\ loadErr = "no" /\ {n.path : n \in nodes} = seen /\ walk.stack = <<>> /\ walk.left = {}
       /\ \A n \in nodes : n.kind = "dir" => n.was \in {"none", "dir"}
=============================================================================
