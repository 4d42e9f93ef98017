-------------------------------- MODULE RootFS --------------------------------
(***************************************************************************)
(* Loading the fake root file system (modules/fakeshell/rootfs.go) from a   *)
(* tar stream, a zip archive or a host directory, before a session's first  *)
(* prompt.  The loader keeps names only: a node is [path, kind], kind       *)
(* "file" or "dir".  What the configuration names on the host, an archive   *)
(* or a directory, may be changed by others while it is loaded: changing it *)
(* puts another object, or none, under a name.  An object has a number, its *)
(* inode's, and a kind that never changes; the number of an object that is  *)
(* gone and not held open may be given to a later one.  A symlink's target  *)
(* is left out: os.Root follows one that stays below it, and then accepts   *)
(* the object Lstat reported only, which is as if it had not moved.         *)
(***************************************************************************)
EXTENDS Integers, Sequences, FiniteSets, SequencesExt

CONSTANTS MaxRootFSEntries, MaxRootFSFileBodyBytes, MaxRootFSTotalBodyBytes,
          MaxRootFSTarStreamBytes, HeaderBytes,
          MaxRootFSZipCentralDirectoryBytes,
          MaxHostChanges      \* a bound on what others change during the walk

VARIABLES host,      \* path -> [ino, kind], <<>> the configured path; a path not in
                     \* its domain does not exist
          walk,      \* LoadRootFS and loadRootFSFromDir: [root, stack, dir, left, pending],
                     \* and what others did: [changes, free, again], free the numbers of
                     \* objects that are gone, again those given a second time
          seen,      \* nodeCounter.seen
          nodes,     \* what was materialized: [path, kind, was, ino], was and ino those of the
                     \* host object that was opened for it ("none" in an archive)
          loadErr    \* "no", "loading" or "failed"

rootVars == <<host, walk, seen, nodes, loadErr>>

\* nodeCounter.add: the path and those of its ancestors not counted yet
Ancestors(path) == {SubSeq(path, 1, n) : n \in 1..Len(path)}
AddNode(counted, path) == counted \cup Ancestors(path)

\* MkdirAll and Create in the memory file system make the missing parents.  (How
\* afero merges two entries of one name and different kinds is its own; the
\* archives considered have none.)
NoObject == [ino |-> 0, kind |-> "none"]
Materialize(fs, path, kind, object) ==
  LET known == {n.path : n \in fs}
      Node(p, k, o) == [path |-> p, kind |-> k, was |-> o.kind, ino |-> o.ino]
  IN fs \cup {Node(p, "dir", NoObject) : p \in (Ancestors(path) \ {path}) \ known}
        \cup (IF path \in known THEN {} ELSE {Node(path, kind, object)})

-----------------------------------------------------------------------------
(* loadRootFSFromReader: a header is [name, kind, size, body, meta]: the     *)
(* segments of its name, the body's length in the header and in the stream,  *)
(* and the bytes of PAX and GNU headers that Next consumes before this one.  *)

\* cleanArchivePath: an empty or absolute name (its first segment is <<"">>), one
\* with a byte that is not allowed (<<"bad">>) or with "..", is refused; "." and
\* repeated slashes vanish, and <<>> is the root.
NameRefused(name) == name = <<>> \/ name[1] = <<"">> \/ \E i \in DOMAIN name : name[i] \in {<<"..">>, <<"bad">>}
CleanPath(name) == SelectSeq(name, LAMBDA seg : seg \notin {<<".">>, <<"">>})

Failed == [ok |-> FALSE, seen |-> {}, nodes |-> {}]

\* drainTarBody
BodyDrains(h, total) ==
  \/ h.size = 0
  \/ /\ h.size <= MaxRootFSFileBodyBytes /\ total + h.size <= MaxRootFSTotalBodyBytes
     /\ h.body >= h.size

RECURSIVE ReadTar(_, _, _, _, _, _)
ReadTar(hs, n, total, stream, counted, fs) ==
  IF n > Len(hs) THEN [ok |-> TRUE, seen |-> counted, nodes |-> fs]
  ELSE LET h == hs[n]
           read == stream + HeaderBytes + h.meta + (IF h.kind = "file" THEN h.size ELSE 0)
           path == CleanPath(h.name)
           added == AddNode(counted, path)
           body == IF h.kind = "file" THEN h.size ELSE 0
       IN IF \/ read > MaxRootFSTarStreamBytes      \* limitedRootFSTarReader
             \/ n > MaxRootFSEntries                \* rawHeaders
             \/ NameRefused(h.name)
             \/ h.kind \notin {"file", "dir"}       \* links, devices, fifos, sparse files
             \/ h.kind = "file" /\ ~BodyDrains(h, total)
             \/ Cardinality(added) > MaxRootFSEntries
          THEN Failed
          ELSE ReadTar(hs, n + 1, total + body, read, added,
                       IF path = <<>> THEN fs ELSE Materialize(fs, path, h.kind, NoObject))

LoadTar(hs) == ReadTar(hs, 1, 0, 0, {}, {})

-----------------------------------------------------------------------------
(* loadRootFSFromZip: an archive is [entries, total, cdSize, atEnd, zip64,   *)
(* disks]: the entries of its central directory, each [name, kind,           *)
(* bytes], and what its end record claims.                                   *)

DirectoryBytes(es) == FoldSeq(LAMBDA e, sum : sum + e.bytes, 0, es)

\* preflightZipDirectory and scanZipCentralDirectory: the headers that are really
\* there must be as many, and as long, as the end record says.
Preflight(z) ==
  /\ ~z.zip64 /\ ~z.disks
  /\ z.total <= MaxRootFSEntries /\ z.cdSize <= MaxRootFSZipCentralDirectoryBytes
  /\ z.atEnd
  /\ z.cdSize = DirectoryBytes(z.entries) /\ Len(z.entries) = z.total

RECURSIVE ReadZip(_, _, _, _)
ReadZip(es, n, counted, fs) ==
  IF n > Len(es) THEN [ok |-> TRUE, seen |-> counted, nodes |-> fs]
  ELSE LET e == es[n]  path == CleanPath(e.name)  added == AddNode(counted, path)
       IN IF NameRefused(e.name) \/ (path # <<>> /\ (e.kind \notin {"file", "dir"} \/ Cardinality(added) > MaxRootFSEntries))
          THEN Failed
          ELSE ReadZip(es, n + 1, added, IF path = <<>> THEN fs ELSE Materialize(fs, path, e.kind, NoObject))

LoadZip(z) == IF Preflight(z) THEN ReadZip(z.entries, 1, {}, {}) ELSE Failed

-----------------------------------------------------------------------------
(* LoadRootFS from the host, and loadRootFSFromDir                           *)

Children(path) == {p \in DOMAIN host : Len(p) = Len(path) + 1 /\ IsPrefix(path, p)}
Idle == [path |-> <<>>, ino |-> 0]
NoWalk == [root |-> [state |-> "named", ino |-> 0], stack |-> <<>>, dir |-> Idle, left |-> {}, pending |-> Idle,
           changes |-> 0, free |-> {}, again |-> {}]

WalkFails == loadErr' = "failed" /\ UNCHANGED <<host, walk, seen, nodes>>

\* rejectSpecial
NotSpecial(path) == path \in DOMAIN host /\ host[path].kind \in {"file", "dir"}

\* A mutant of SameObject: the identity is not compared with that of Lstat.
SameObjectUnchecked(path, ino) == NotSpecial(path)

\* checkRootFSFile on what an open of path gives: not special, and os.SameFile says
\* it is what Lstat reported, which is to have the same number.  The kinds are not
\* compared.
SameObject(path, ino) == NotSpecial(path) /\ host[path].ino = ino

\* The configured path is Lstat'ed, and what it is decides how it is loaded.
LstatRoot ==
  /\ loadErr = "loading" /\ walk.root.state = "named"
  /\ IF ~NotSpecial(<<>>) THEN WalkFails
     ELSE /\ walk' = [walk EXCEPT !.root = [state |-> host[<<>>].kind, ino |-> host[<<>>].ino]]
          /\ UNCHANGED <<host, seen, nodes, loadErr>>

\* OpenRoot of the path with a final dot opens directories only; from now on the
\* walk goes by this handle.
PinRoot ==
  /\ loadErr = "loading" /\ walk.root.state = "dir"
  /\ IF <<>> \notin DOMAIN host \/ host[<<>>].kind # "dir" THEN WalkFails
     ELSE /\ walk' = [walk EXCEPT !.root.state = "pinned", !.stack = <<[path |-> <<>>, ino |-> walk.root.ino]>>]
          /\ UNCHANGED <<host, seen, nodes, loadErr>>

\* Take the next directory of the stack, open it and check it; only then is it
\* materialized.
OpenDirectory ==
  /\ loadErr = "loading" /\ walk.dir = Idle /\ walk.stack # <<>>
  /\ LET item == Last(walk.stack)
     IN IF ~SameObject(item.path, item.ino) THEN WalkFails
        ELSE /\ nodes' = (IF item.path = <<>> THEN nodes
                          ELSE Materialize(nodes, item.path, "dir", host[item.path]))
             /\ walk' = [walk EXCEPT !.stack = Front(@), !.dir = item, !.left = Children(item.path)]
             /\ loadErr' = IF host[item.path].kind = "dir" THEN loadErr ELSE "failed"    \* ReadDir
             /\ UNCHANGED <<host, seen>>

\* Lstat one entry that ReadDir returned; it may be gone or special by now.
LstatEntry(p) ==
  /\ loadErr = "loading" /\ walk.dir # Idle /\ walk.pending = Idle /\ p \in walk.left
  /\ IF ~NotSpecial(p) \/ NameRefused(p) \/ Cardinality(AddNode(seen, p)) > MaxRootFSEntries THEN WalkFails
     ELSE /\ seen' = AddNode(seen, p)
          /\ walk' = [walk EXCEPT !.left = @ \ {p},
                        !.stack = IF host[p].kind = "dir" THEN Append(@, [path |-> p, ino |-> host[p].ino]) ELSE @,
                        !.pending = IF host[p].kind = "file" THEN [path |-> p, ino |-> host[p].ino] ELSE @]
          /\ UNCHANGED <<host, nodes, loadErr>>

\* A regular file is opened, without waiting for a writer, and checked before its
\* name is created.
OpenFile ==
  /\ loadErr = "loading" /\ walk.pending # Idle
  /\ IF ~SameObject(walk.pending.path, walk.pending.ino) THEN WalkFails
     ELSE /\ nodes' = Materialize(nodes, walk.pending.path, "file", host[walk.pending.path])
          /\ walk' = [walk EXCEPT !.pending = Idle]
          /\ UNCHANGED <<host, seen, loadErr>>

CloseDirectory ==
  /\ loadErr = "loading" /\ walk.dir # Idle /\ walk.pending = Idle /\ walk.left = {}
  /\ walk' = [walk EXCEPT !.dir = Idle]
  /\ loadErr' = (IF walk.stack = <<>> THEN "no" ELSE "loading")
  /\ UNCHANGED <<host, seen, nodes>>

\* Where others may put an object: under a name there is, or a new one of a
\* directory.  The root's own name matters no more once it is pinned.
Places ==
  {p \in DOMAIN host \cup {Append(d, <<"n">>) : d \in {q \in DOMAIN host : host[q].kind = "dir"}} :
     walk.root.state = "pinned" => p # <<>>}

\* The numbers a new object may get when the objects below p go: one never used, or
\* one given back, unless a handle of the walk holds its object.
FreeNumbers(p) == walk.free \cup {host[q].ino : q \in {r \in DOMAIN host : IsPrefix(p, r)}}
Held == {walk.dir.ino} \cup (IF walk.root.state = "pinned" THEN {host[<<>>].ino} ELSE {})
NewNumber == 100 + walk.changes

\* Somebody else puts another object under a name, or removes what is there; what
\* was below it is then not reached by that name any more.
HostChanges(p, kind, ino) ==
  /\ loadErr = "loading" /\ walk.changes < MaxHostChanges
  /\ LET kept == {q \in DOMAIN host : ~IsPrefix(p, q)}
         put == IF kind = "none" THEN {} ELSE {p}
     IN /\ host' = [q \in kept \cup put |-> IF q = p THEN [ino |-> ino, kind |-> kind] ELSE host[q]]
        /\ walk' = [walk EXCEPT !.changes = @ + 1,
                      !.free = FreeNumbers(p) \ {ino},
                      !.again = IF ino = NewNumber THEN @ ELSE @ \cup {ino}]
  /\ UNCHANGED <<seen, nodes, loadErr>>

WalkStep ==
  \/ LstatRoot \/ PinRoot
  \/ OpenDirectory
  \/ \E p \in walk.left : LstatEntry(p)
  \/ OpenFile
  \/ CloseDirectory
  \/ \E p \in Places, kind \in {"file", "dir", "symlink"} :
       \E ino \in (FreeNumbers(p) \ Held) \cup {NewNumber} : HostChanges(p, kind, ino)
  \/ \E p \in Places \cap DOMAIN host : HostChanges(p, "none", NewNumber)
=============================================================================
