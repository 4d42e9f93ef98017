------------------------------- MODULE GitAuth -------------------------------
(***************************************************************************)
(* PublicKeyCallback of the Git server (modules/gitserver/auth.go) as      *)
(* called by several logins at once, while an operator edits               *)
(* authorized_keys.  With WatchKeys every call reads the file again, under *)
(* watchMu; without it the file is read once, by NewServer.                *)
(*                                                                         *)
(* The file is a sequence of lines, of which only what                     *)
(* parseAuthorizedKeys makes of them is kept: a key, a comment, or a line  *)
(* it refuses (unparsable, with options, with trailing content).           *)
(*                                                                         *)
(* call[l] is the place of login l in the callback:                        *)
(*   idle, lock, read, store, lookup, and its result: granted, refused     *)
(***************************************************************************)
EXTENDS Integers, Sequences

CONSTANTS
    Logins,         \* connections that call PublicKeyCallback
    GitKeys,        \* public keys
    GitUser,        \* ssh_user
    MaxEdits,       \* bound: edits of authorized_keys
    Files           \* contents the operator may give the file

ASSUME LoginsAssumption == "free" \notin Logins
ASSUME EditsAssumption == MaxEdits \in Nat
ASSUME FilesAssumption == Files \subseteq Seq(GitKeys \cup {"comment", "bad"})

VARIABLES
    watch,          \* config.WatchKeys
    file, edits,
    keysByFP,       \* what the server has in memory
    watchMu,        \* the login that holds it, or "free"
    call, offered,  \* where login l is, and the key it offers
    snapshot,       \* the entries login l has parsed
    listed          \* history: keys that were in the file at some time since
                    \* login l called

gitVars == <<watch, file, edits, keysByFP, watchMu, call, offered, snapshot, listed>>

Lines(f) == {f[i] : i \in DOMAIN f}

\* parseAuthorizedKeys: one refused line refuses the file; duplicates and
\* comments do not matter.
ParseAuthorizedKeys(f) ==
    [ok |-> "bad" \notin Lines(f), keys |-> Lines(f) \cap GitKeys]

\* A server that does not watch has parsed the file, or it did not start.
GitInit ==
    /\ watch \in BOOLEAN
    /\ file \in Files /\ edits = 0
    /\ watch \/ ParseAuthorizedKeys(file).ok
    /\ keysByFP = IF watch THEN {} ELSE ParseAuthorizedKeys(file).keys
    /\ watchMu = "free"
    /\ call = [l \in Logins |-> "idle"]
    /\ offered = [l \in Logins |-> CHOOSE k \in GitKeys : TRUE]
    /\ snapshot = [l \in Logins |-> {}]
    /\ listed = [l \in Logins |-> {}]

\* The operator replaces the file.  A reader sees one version of it.
EditFile ==
    /\ edits < MaxEdits
    /\ \E f \in Files \ {file} :
        /\ file' = f
        /\ listed' = [l \in Logins |-> listed[l] \cup Lines(f)]
    /\ edits' = edits + 1
    /\ UNCHANGED <<watch, keysByFP, watchMu, call, offered, snapshot>>

\* Login l offers key k for the account u.  Certificates (no raw keys) are
\* refused whatever the file says.
CallGit(l, u, k) ==
    /\ call[l] \notin {"lock", "read", "store", "lookup"}
    /\ offered' = [offered EXCEPT ![l] = k]
    /\ listed' = [listed EXCEPT ![l] = Lines(file)]
    /\ call' = [call EXCEPT ![l] =
                    IF u # GitUser \/ k \notin GitKeys THEN "refused"
                    ELSE IF watch THEN "lock" ELSE "lookup"]
    /\ UNCHANGED <<watch, file, edits, keysByFP, watchMu, snapshot>>

\* Mutant: the callbacks do not exclude each other.
WatchLockMissing(l) ==
    /\ call[l] = "lock"
    /\ call' = [call EXCEPT ![l] = "read"]
    /\ UNCHANGED <<watch, file, edits, keysByFP, watchMu, offered, snapshot, listed>>

WatchLock(l) ==
    /\ call[l] = "lock" /\ watchMu = "free"
    /\ watchMu' = l
    /\ call' = [call EXCEPT ![l] = "read"]
    /\ UNCHANGED <<watch, file, edits, keysByFP, offered, snapshot, listed>>

\* the deferred watchMu.Unlock
Unlocked(l) == IF watchMu = l THEN "free" ELSE watchMu

\* loadAuthorizedKeys: read and parse.  A file that cannot be read or parsed
\* refuses the login and leaves the keys in memory alone.
ReadFile(l) ==
    /\ call[l] = "read"
    /\ \/ /\ ParseAuthorizedKeys(file).ok
          /\ snapshot' = [snapshot EXCEPT ![l] = ParseAuthorizedKeys(file).keys]
          /\ call' = [call EXCEPT ![l] = "store"]
          /\ UNCHANGED watchMu
       \/ /\ ~ParseAuthorizedKeys(file).ok
          /\ call' = [call EXCEPT ![l] = "refused"]
          /\ watchMu' = Unlocked(l)
          /\ UNCHANGED snapshot
    /\ UNCHANGED <<watch, file, edits, keysByFP, offered, listed>>

StoreKeys(l) ==
    /\ call[l] = "store"
    /\ keysByFP' = snapshot[l]
    /\ snapshot' = [snapshot EXCEPT ![l] = {}]
    /\ call' = [call EXCEPT ![l] = "lookup"]
    /\ UNCHANGED <<watch, file, edits, watchMu, offered, listed>>

Lookup(l) ==
    /\ call[l] = "lookup"
    /\ call' = [call EXCEPT ![l] =
                    IF offered[l] \in keysByFP THEN "granted" ELSE "refused"]
    /\ watchMu' = Unlocked(l)
    /\ UNCHANGED <<watch, file, edits, keysByFP, offered, snapshot, listed>>

GitStep(l) == WatchLock(l) \/ ReadFile(l) \/ StoreKeys(l) \/ Lookup(l)

-----------------------------------------------------------------------------
\* A watching server grants a key only if the file listed it at some moment of
\* the call: a slower, older read by another login brings no removed key back.
SnapshotFresh ==
    \A l \in Logins :
        watch /\ call[l] = "granted" => offered[l] \in listed[l]
=============================================================================
