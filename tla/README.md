# TLA+ specification of fakessh

fakessh is an SSH honeypot: it accepts SSH connections, limits them, lets some
of them "log in", gives those a fake shell, and can serve real Git repositories
to a configured user. It carries its own copy of `golang.org/x/crypto/ssh`. This
directory specifies the parts of it where goroutines, timers, processes, peers
and limits meet, checks them with TLC on small instances, and proves the main
safety properties of most of them with TLAPS for every value of the parameters.

## 1. Inventory

| Component | State it keeps | Operations | Talks to |
| --- | --- | --- | --- |
| Accept loop and accounting (`ssh.go`) | two atomic counters, the limits computed from the options | accept, count, drop, rate-limit, handshake, leave one counter and enter the other, deferred give-back | rate limiter (call), one goroutine per connection (shared atomics) |
| Rate limiter (`rate.go`, cleaner in `ssh.go`) | global buckets, map of per-IP buckets, its mutex, ticker period | `Allow`, `AllowPerIP`, `CleanEmpty`, `Reservation.Cancel` | accept loop; cleaner goroutine on a ticker |
| User authentication (`third/ssh/server.go`, `client_auth.go`, `certs.go`; callbacks in `main.go`, `antiscan.go`) | stage, failures, key cache, banner; on the client methods tried, keys left | identification, service request, every method, partial success | callbacks, Git keys, the peer |
| Git authentication (`gitserver/auth.go`) | authorized keys, watch mutex | reload, look up, grant | authentication, file system |
| Connection loop (`handleConn` after authentication) | idle timer, deadlines, connection context, session-done signal, transport grace timer | accept the one session channel, answer global requests, reject further channels, tear down | Git session or fake shell (goroutine), SSH library |
| Git session (`gitserver/server.go`) | pre-exec timer, env accepted or not, backend result, request stream | env, exec, refuse, drain, exit-status, close | SSH channel, backend (goroutine), connection context |
| Local backend (`backend_local_*.go`, slots in `auth.go`) | process slots, git-shell process group, observer, two output copiers | acquire, start, observe, copy, kill, drain, reap, release | operating system, SSH channel, other sessions (slots) |
| Remote backend (`backend_ssh.go`) | client connection, session, copying goroutines | dial, handshake, open, setenv, run; each cancellable | remote server, SSH channel |
| Git command and path (`request.go`, `path.go`) | none | parse, normalize, resolve | file system (symlinks) |
| Fake shell (`modules/fakeshell`) | input buffer, discard flag, cwd, environment, virtual files, session log, root file system | load, read, split, parse, execute, log | SSH channel, log file, host directory |
| Connection protocol (`third/ssh/mux.go`, `channel.go`) | channel list, windows, buffers, pending requests | open, accept, write, read, request, reply, close | transport, application goroutines |
| Transport (`third/ssh/handshake.go`, `transport.go`, `kex.go`, `cipher.go`) | keys and counters per direction, exchange under way, queued packets | read, write, exchange keys, rekey, close | the peer, mux |
| Configuration (`conf`, `utils`), host keys, logging | read once at start | merge, validate | - |

What is hard in it, and hard to test:

* counters shared by the accept loop, the drop goroutines and the connection
  goroutines, with a give-back on every path through `handleConn`;
* a map whose entries one goroutine charges and another deletes;
* a process group that is signalled by number, while the number can be reused
  as soon as the leader is reaped, with exit, cancellation, observer failure
  and two output streams racing;
* selects with several ready cases, where Go picks one at random and the
  others are dropped (backend result, closed stream, cancelled context);
* five ways to close one TCP connection, among them timers that may fire late;
* a key cache and a file of keys that change between the steps of one login;
* keys that both ends must change at the same packet, with packets under way
  and both ends free to begin;
* window accounting between goroutines that read, write and discard;
* input that arrives in any pieces; caps that are reached in the middle;
* clients that do nothing, backends that ignore their context, children that
  outlive git-shell.

`PROJECT.json` lists the components with their source files, and under `hazards`
each of these points at the line where it bites, with the properties that cover
it.

## 2. Modules

| Module | Models |
| --- | --- |
| `ConnLimits` | how the limits are computed and `checkMaxConnections` |
| `SSHServer` (extends it) | `StartSSHServer`'s accept loop, `handleConn`'s accounting |
| `Buckets`, `RateLimiter` | token buckets as `rate.go` uses them; `SSHRateLimiter` and the cleaner |
| `PermanentBuckets` | abstract: one bucket per address, kept for ever |
| `RateWindow` (extends `RateLimiter`) | an observer that counts what passes in a window |
| `Certs`, `Callbacks` | `CertChecker`; the callbacks of `main.go` |
| `GitAuth` | `PublicKeyCallback` called by several logins |
| `AuthServer` (extends `GitAuth`), `AuthClient` (extends that) | `serverAuthenticate`; `clientAuthenticate` |
| `UserAuth` | a login: the server against either client |
| `SSHChannel`, `Mux` | one end of a channel; two ends of the connection protocol |
| `PacketCipher`, `Kex`, `Transport` | one direction of the packet layer; negotiation and exchange methods; two ends of the transport |
| `TransportInvariants` | the inductive invariants of `Transport` |
| `ConnHandler` | `handleConn` after authentication, `serveFakeShell`, `transportClosingChannel` |
| `SSHBackend` | `serveSSH` and the client session it drives |
| `GitConnection` | `ConnHandler` and `SSHBackend` composed |
| `GitSession` | `HandleSession` |
| `LocalBackend` | `serveLocal` |
| `ShellSyntax`, `ShellCommands`, `SessionLog`, `RootFS` | separators and parsing; execution; the log; loading the root file system |
| `Shell` (extends these) | `NewShell` and `RunLoop` |
| `SSHServerProofs`, `RateLimiterProofs`, `LocalBackendProofs`, `GitSessionProofs`, `GitConnectionProofs`, `UserAuthProofs`, `TransportProofs`, `MuxProofs` | theorems |
| `MCSSHServer`, `MCRateWindow`, `MCUserAuth`, `MCMux`, `MCTransport`, `MCShell` | constants and scenarios for TLC |

Definitions whose comment begins with "Mutant" are wrong variants of the
definition that follows them, kept to show that the properties notice.

### SSHServer

`pc[c]` is the place of connection `c` in the accept loop or in its goroutine;
`connections` and `succConnections` are the atomics. One action is one atomic
operation on a counter together with the decision taken from the value it
returned: `Add(1)` and the comparison are one step, because the code compares
the value `Add` returned. Deferred calls are steps of their own in the order Go
runs them. The random loss is a choice: `MayAdmit` holds when the probability of
loss is below 1, `MayRefuse` when it is above 0; ratios are in percent, the
linear increase between `max` and `hard_max` is exact integer arithmetic
(`LossNum`, `LossDen`). The rate limiter is a yes or no here. What happens inside
a session is one step, `ShellEnds` or `GitEnds`; whether a connection is a Git
one is decided when it enters, although the code knows only when the session
channel is opened - before that it is under the idle timer like any other. A
client of a shell may also jam the mux loop of its connection (`ShellJams`, see
Mux below): then the deadline reaches nobody, and `JammedEnds` may or may not
come. `SlotsRecovered` speaks of the other connections.

### RateLimiter, PermanentBuckets, RateWindow

A bucket's level is kept in units of refill time, so that refill is `+1` per
tick up to the cap and a token of limiter `l` costs `Every[l]`. `Allow` is the
global step (`AllowGlobal`), taking the mutex and finding or making the entry
(`LockAndLoad`), charging it (`GrantPerIP`, `RefusePerIP`) and giving the global
reservation back. `Reservation.Cancel` refunds only if the clock has not moved
since the reservation (`CancelInTime`): with a later clock the library takes the
reservation to be used already (`CancelLate`). The cleaner takes the mutex,
visits the keys in any order, deletes the full ones in two steps (check, delete)
and computes its next period. The refinement mapping sends a missing entry to a
full bucket, and the cleaner's steps to stuttering. `RateWindow` opens a window
at any moment, counts in it for up to `Horizon` ticks and closes it.

### UserAuth

The policy of a server is chosen in `Init`: fakessh's own callbacks with the Git
server, two factors, certificates, questions and GSS, `none`, and callbacks that
misuse partial success. A packet is reduced to method, account, credential and
whether its signature, token or algorithm holds. `srv` is the server's place
between two packets, `cli` the client's. Everything between receiving a request
and answering it is one step, except the Git callback: its lock, read, store and
look-up interleave with other logins and with edits of the file. The other
client sends any packet of a finite set at any point. `Entitled` says who is
meant to get in and is independent of the callbacks' code. A policy with 0 tries
is given the library's default of 6 (`MaxAuthTries`), as `NewServerConn` does; a
negative number is no bound. Key exchange lies
outside; `certs.go`'s times are unsigned numbers of `Width` bits that the code
compares as signed ones.

### Mux

`ch[e]` is the list of channels of end `e`, each a record of `SSHChannel`;
`loop[e]` is `mux.loop`. The steps of an application goroutine are those between
which the library's locks are free: reserve window, write a packet, take data,
send the adjustment. Data are byte numbers, so that order and loss show. Between
loop and application there are Go channels of capacity `ChanSize` (16 in the
code): for new channels, for the requests of each channel, for global requests.
An element beyond the capacity is the one the loop is blocked sending: until
somebody takes it the loop neither reads the next packet nor notices that the
connection is closed (`Blocked`). A channel is in the list before the loop sends
it to the application, as in `handleChannelOpen`. The `default` case of sending to
`ch.msg` is left out: what it drops is nobody's answer. The global requests of one
end share one queue. The loop's end has three steps (`err`, `dropped`, `ended`), because calls may come in
between. Stray packets are those of a peer that is not this library: replies and
answers nobody waits for, packets for channels that do not exist, data, window
updates and closes at the wrong time. `WindowsAgree` and `DeliveredInOrder` speak
of behaviours without them, `ChannelsSound` of all. `CallsReturn` speaks of all
too, but a peer that breaks the protocol can keep a call waiting in two ways, and
the property names them. Requests for a channel that nobody has - not accepted
yet, or rejected - fill its queue, and the loop stays in that send for good
(`Jammed`). A close that comes before the application decides frees the channel's
number; when the application then rejects it, `chanList.remove` takes the number
away from the channel that has it by now, and neither packets nor `dropAll` reach
that one any more (`Disowned`).

### Transport

Each end has `rl` (readLoop), `kl` (kexLoop) and `app`. A key is named by its
direction and by the exchange it comes from, as each end saw it; a packet carries
a tag - key and position - and can be read only by a reader with the same one
(`Opens`), which is what ciphers and MACs enforce. The reply that a server which
imitates OpenSSH sends in the clear before it gives up on a corrupt packet is left
out: it goes to a peer whose packet did not open, and the connection ends. The methods of `Kex` are the
sequences of messages each side sends and expects, with what can be wrong in
them. Writing is one step under `t.mu`; `writeCond.Wait` is `app[e].blocked`.

### ConnHandler, SSHBackend, GitConnection

`pc` is `handleConn`, `sess` the session's goroutine (of `HandleSession` only
what holds the connection: `GitSession` has the rest), `closing` the goroutine of
`transportClosingChannel.Close`, `closeOnCancel` the AfterFunc. `tcp`, `mux` and
`channel` are the three things that get closed. Writes block while the client
does not read (`stall`). In `SSHBackend`, `at` is the call `serveSSH` waits for,
`call` the goroutine it runs in, `draining` that the context was seen; `pipe`,
`in` and `out` are the copiers. They meet in the backend's context, the frontend
channel and the result. The mux loop may get stuck in a send (`MuxBlocks`), with a
request for a channel nobody has, or with what `handleConn` no longer takes after
the session. Closing TCP does not wake it, `chs` and `reqs` are never closed, and
what waits for that stays: `handleConn` with its slot, the shell, a backend's
copying (`Jammed`). What gets out all the same - the idle timer before a session,
the context, the pre-exec timer - is modelled, so `Jammed` is no wider than that.
The first write after the transport failed is not reported to its caller
(`handshakeTransport.writePacket`), and the timer of `transportClosingChannel.Close`
may win or lose against a write that could return. Abstractions: control packets to the remote server are
few and never block; the base context is cancelled at any time, although
production code passes a background context. `late` marks a pre-session deadline
that struck between Accept and `SetDeadline`: such a connection is lost, and
`GitSessionNotCut` does not speak of it.

### GitSession

Requests are numbered as sent; of a request only what `HandleSession` makes of
it is kept. The handler and the drain goroutine are separate; `reply[i]` is what
the client got for request `i`. After either side has closed the channel the
library drops what is written (`Writable`). Receiving a request and answering it
are two steps, for the handler (`Receive`, `Reply`) and for the drain goroutine,
which may be overtaken by the end of the session in between. The client may stop
reading (`ClientStalls`) and never start again: these writes have no deadline, and
one that waits returns only when the client reads, the channel is closed, or the
context ends and the connection with it (`CanWrite`). `SessionEnds` says what of the
session ends although the client stalls, and `Unread` is the rest: the handler in a
reply or in the exit-status. The backend is any runner: it may return at any time
or never.

### LocalBackend

`pc[s]` is the waiter of session `s` (`serveLocal`, `waitLocalProcess`); the
observer, the two copiers, git-shell and its descendants are state of their own.
`leader` tells a running process, a zombie (exited, its PID still reserved) and
a reaped one apart; `stray` records a signal sent when the PID was no longer
ours. Each select is the set of actions whose cases are ready. The setting
`refuseWhenBusy` is chosen in `Init`. The stdin copy is left out: nothing waits
for it. `terminateGroup`'s fall-back to killing the leader alone is left out too.
`Forget` reuses a session's name, so that two names stand for any number of
sessions one after the other.

### Shell

A session begins with a scene: where the root file system comes from, whether
the log is enabled, which of its writes fails, what may be typed. `buf`, `eof`,
`discard`, `cycle` are `RunLoop`'s variables; `sh` is what commands see. Input is a
sequence of byte classes: the bytes the lexer tells apart are themselves, all
others are letters. Words stand for their text; variables are not expanded, and
an unquoted `*` is a pattern that cannot be. Commands have one letter: `a` (echo)
stands for those that only print, `t` is touch, `c` cd, `x` exit, any other is
unknown; they succeed or fail, change state or end the session. Standard output
and standard error can be redirected (`>`, `2>`, `2>&1`) in the order written, and
descriptor 2 decides where a failing command's message goes. The environment holds
`PWD` (`P`, or `p` in small letters, as keys are upper-cased) and `HOME` (`H`)
beside the session's own names: an assignment to `PWD` moves the session, one in
front of a command is undone after it, and entries and bytes are capped. What is
too long (a word, a redirection's target, a path) ends the session or fails the
command as in the code. A log line is its length, with metadata that grows with
the dynamic store.

`RootFS` is given the path of an archive or a directory, and other processes
change what is there between the loader's steps. An archive is looked at (Lstat),
opened and compared, then read in one step, as an open file is nobody else's to
replace. A directory is looked at, opened, compared and held open; below it the
walk is in the code's steps (open, read, Lstat, open, compare, close). A host
object has an inode number and a kind. The number of an object that is gone and not
open may be given to the next one, of any kind, and the comparison
(`os.SameFile`) sees numbers only: `RootFSSound` says that what was loaded is what
was opened, a file for a file and a directory for a directory, except under a number
that was used again (`walk.again`). A reused number can turn a file's name into
a file made from a directory's object; it cannot give a session a directory that
was none.

`CommandsAsTyped` compares the session with a definition that sees the whole
input at once (`Meant`): lexical modes by prefix, segments, and no segment behind
one on the same line that did not parse.

## 3. What TLC checks

Each run is listed in `PROJECT.json` and is started with
`tlc -config <cfg> <module>`.

| Run (cfg, module) | Shows |
| --- | --- |
| `ssh_server` (`SSHServer.cfg`, `MCSSHServer`) | `CountersExact`, `HardLimitsHold`, `NoLossBelowMax`, `SlotsRecovered` for 4 connections; soft and hard limit before authentication, hard limit alone after it |
| `ssh_loss_doc` (`SSHServer_LossDoc.cfg`, `MCSSHServer`) | violated: `LossReachesOneAtHardMax`, see findings |
| `rate` (`RateWindow.cfg`, `MCRateWindow`) | `NoDetachedBucket`, refinement of `PermanentBuckets`, `PerIPRateHolds`, `GlobalRateHolds`, `IdleForgotten`, `AllowReturns` for 2 addresses, one global and two per-IP limits |
| `rate_cancel` (`RateWindow_Cancel.cfg`, `MCRateWindow`) | violated: `RefusedUsesNothing`, see findings |
| `user_auth` (`UserAuth.cfg`, `MCUserAuth`) | `AuthSound`: a login that succeeds passed every stage with credentials meant for it; `CapableGetsIn`: a client that has them is not turned away; `SnapshotFresh`: no login is decided by keys older than its call; `AuthEnds` |
| `git_connection` (`GitConnection.cfg`, `GitConnection`) | `GitSessionNotCut`: the connection's timers and closes do not cut a Git session; `ConnectionReleased`: nothing of a connection is left behind |
| `git_session` (`GitSession.cfg`, `GitSession`) | `AnswersInOrder`, `OneBackend`, `ExitStatusTrue`, `CompletedIsReported`, `SessionEnds` (the drain goroutine too), `RequestsServed` for 3 requests of any kind |
| `local_backend` (`LocalBackend.cfg`, `LocalBackend`) | `ProcessLimit`, `NoStraySignal`, `ObserverJoined`, `OkMeansDelivered`, `CompletionWins`, `NoOrphans`, `CancelReturns` for 2 sessions and 1 slot, waiting or refusing |
| `mux` (`Mux.cfg`, `MCMux`) | `ChannelsSound`: the channels withstand any packets, stray ones included; `WindowsAgree`, `DeliveredInOrder`, `CallsReturn`, in eleven scenarios |
| `transport` (`Transport.cfg`, `MCTransport`) | `KeysInStep`, `PacketsInOrder`, `RekeyHasCause`, `Settles` |
| `transport_close_doc` (`Transport_CloseDoc.cfg`, `MCTransport`) | violated: `CloseWakesReader`, see findings |
| `shell` (`Shell.cfg`, `MCShell`) | `CommandsAsTyped`, `LogTellsAll`, `RootFSSound` |

### Bounds, and why they suffice

* `Conns` (4): one connection more than `hard_max`, so that all three bands of
  the limit - below `max`, between, at `hard_max` - and a refused one occur
  together; a closed connection may come again, so behaviours are unbounded.
* `IPs` (2), one global and two per-IP limiters: one address can be served while
  the cleaner deletes the other, and limiters disagree. `Horizon` (3 ticks): the
  window spans more than one refill period of every limiter, and may be opened
  in any reachable state. `MaxDuration`, `BackoffAfter` are the code's own values
  (in units of 5 minutes and rounds).
* `Sessions` (2), one slot: one holds it while the other waits, is refused or
  cancelled.
* `MaxRequests` (3): an env, an exec and one request after it, or two requests
  in the drain goroutine's hands one after the other, with the client stalling
  once anywhere. Requests the session does not take any more are the business of
  `Mux` and `GitConnection`.
* `user_auth`: two logins at once and one edit of the file are what a stale read
  takes. `MaxPackets` (5) lets an arbitrary client query a key, change the
  account, pass a first factor and sign; `MaxAttempts` (6) is not below any
  policy's number of tries, which are 1 to 3, 6 (configured as 0) and no bound
  (-1). Times
  have 3 bits, so every sign and order occurs.
* `mux`: a window of 2 bytes and packets of 1 make every write but the first wait
  for an adjustment in some order; each scenario opens at most two channels and
  writes at most 3 bytes a stream. `ChanSize` is 1, and two stray requests are one
  more than a queue takes, so that the loop blocks on a channel that is undecided,
  rejected or served; a stray close makes a number be used again. Scenarios are separate because they are
  independent in the code: what is shared is the loop.
* `transport`: `Threshold`, `ChanSize` and `MaxPending` of 1 make every packet ask
  for a rekey and every queue full at once. Up to 4 packets are written, so
  several exchanges follow each other, begun by either end or by both. The
  scenarios vary what is negotiated; that each is run in every interleaving is
  what matters. Overflow of the 32-bit sequence number is not reached: the code
  rekeys at 2^31 packets.
* `git_connection`: `MaxOffers` (2) is the session and one more channel, global
  request or jam, `MaxChunks` (1) a block each way that may get stuck, `MaxFaults` (1)
  one of client, context, remote server leaving, besides a client that stops
  reading.
* `shell`: free input of up to `MaxTyped` (5) bytes of five alphabets, two commands
  per read cycle and a buffer of `MaxInputLineBytes` (9); thirteen scripts of up to 31
  bytes that overrun the buffer, use the redirections and the environment, and fill
  the dynamic store (2) and the log (5 events, 18 bytes) with each write failing in
  turn; archives of up to three entries against caps of 3; six host paths, among them
  a symlink and one that is missing, and two changes: one to take an object away and
  one to give its number again.

Deadlock is not checked where the system may stop: a session, a login, a
connection or a shell ends, and that is all.

### Fairness, and why the code justifies it

* `SSHServer`: a connection goroutine runs; the handshake and non-Git sessions
  end because `SetDeadline` bounds them, so these two are fair although a client
  would have to act. Nothing is assumed of Git sessions, nor of a shell whose mux
  loop is jammed: the deadline wakes a read of the connection, not a loop that is in
  a send to a Go channel.
* `RateWindow`: both goroutines run and the ticker keeps firing. Taking
  `peripMu` is strongly fair: `sync.Mutex` hands the lock to a waiter that was
  overtaken for a millisecond.
* `UserAuth`: server, client and the other logins run. The library's client does
  not stop by itself; for an arbitrary one nothing is claimed (`handleConn`'s
  deadline ends it, see `SlotsRecovered`).
* `Mux`, `Transport`: goroutines of both ends run and applications read what
  arrives. Nobody has to close, open or send strays, and nobody has to take the
  requests of a channel that was not accepted. In `Transport_CloseDoc` the
  application stops reading and closes: that is the point of it.
* `GitConnection`: one weak fairness of everything the program does by itself,
  timers included. Nothing is assumed of the client, of the remote server or of
  the context.
* `LocalBackend`: waiter and observer run, and SIGKILL kills. Nothing is assumed
  of git-shell, its descendants, the copiers or the client.
* `GitSession`: handler and drain goroutine run, the timer fires. Nothing is
  assumed of the client, the context or the backend. A write completes only when
  `CanWrite` holds, so fairness of the handler does not make a stalled client read.

## 4. What TLAPS proves

All proofs hold for arbitrary finite sets and arbitrary configurations, from the
named assumptions on the constants only. Each is in the module that declares the
constants, and TLC evaluates it in every run: `ConnsAssumption`,
`LimitsAssumption`, `BucketsAssumption`, `IPsAssumption`, `HorizonAssumption`,
`SessionsAssumption`, `SlotsAssumption`, `RequestsAssumption`, and for the modules
of the SSH library

* `PoliciesAssumption`, `PacketsAssumption` (`UserAuth`): what a policy and a packet
  look like; `CallbacksAssumption`: the callbacks of a policy pass only whom they
  are meant to pass, which is all the library cannot know. It does not cover the
  keys of a Git server: those are decided by `GitAuth`, step by step;
* `ScenariosAssumption` (`Transport`): an application writes no init and no newkeys
  (`writePacket` refuses them), and a server does not guess: the client speaks first
  in every method, so a server has no packet to send on a guess.
  `AlgorithmsAssumption`: the methods and ciphers known are among those of
  `kexAlgoMap` and `cipherModes`;
* `MuxAssumption`, `WindowAssumption`, `PacketsAssumption` (`Mux`): a decoded packet
  carries sizes of `Width` bits. Nothing is said about which packets come.
  `CallersAssumption`: the name for "no caller" is no caller's.

* `SSHServerProofs`: `TypeCorrect`, `CountersCorrect`, `HardLimitsCorrect`,
  `NoLossBelowMaxCorrect`. `CountersExact` is inductive on top of the types: each
  action moves one connection, and `MoveIn`, `MoveOut`, `MoveSame` say how a move
  changes the number of connections in a set of places. The hard limits need it,
  because an admitting step compares the limit with a counter, and only the
  invariant makes that counter a number of connections. `HardMaxAboveMax` is the
  fact about the configuration they rest on.
* `RateLimiterProofs`: `RateTypeCorrect`, `NoDetachedBucketCorrect`,
  `Refinement`, `PerIPRateCorrect`, `GlobalRateCorrect`. The inductive invariant
  adds to the types that the mutex is held exactly where the code holds it. The
  rate theorems rest on an accounting invariant: what passed in the window plus
  what is in the bucket now is at most a full bucket plus the time elapsed; for
  the global limit a call under way counts as passed.
* `LocalBackendProofs`: `BackendTypeCorrect`, `ProcessLimitCorrect`,
  `NoStraySignalCorrect`, `ObserverJoinedCorrect`, `OkMeansDeliveredCorrect`,
  `CompletionWinsCorrect`, `NoOrphansCorrect`. Three layers: `Lifecycle` ties the
  waiter's place to the leader's PID and the observer; `Outcome` ties the result
  to output, exit status and signals; `SlotsExact` counts slot holders, and an
  unreaped leader belongs to one.
* `GitSessionProofs`: `SessionTypeCorrect`, `AnswersInOrderCorrect`,
  `OneBackendCorrect`, `ExitStatusCorrect`, `CompletedIsReportedCorrect`.
  `Answering` follows the hand-over of the stream from the handler to the drain
  goroutine; `Reporting` says what the handler knows when it leaves.

* `GitConnectionProofs`: `GitSessionNotCutCorrect`. `Loops` ties the place of
  `handleConn` to its timers and deadlines, `Quiet` says what has not happened yet
  while the session is young, and `Working` what keeps the connection up while it
  works.
* `UserAuthProofs`: `SnapshotFreshCorrect` and `AuthSoundCorrect`. The first needs
  that `watchMu` is held exactly between a read of the file and the look-up
  (`LockHeld`) and that what was read is among what the file listed since the call
  (`Fresh`). The second follows a request through the server: `Underway` (what is
  asked of the callbacks belongs to the request), `Asked` (a callback that runs was
  configured for the stage), `CacheRight` (the key cache holds an answer for this
  account and key), `ChainRight` (every step taken rested on what it should, and
  the stages are passed in order) and `Belief` (the client believes in a success
  only after one was sent).
* `TransportProofs`: `PacketsInOrderCorrect`, `KeysInStepCorrect` and
  `RekeyHasCauseCorrect`, with the invariants of `TransportInvariants`. For the first,
  the packets of one direction lie in six places: the application's buffer of read
  ones, `t.incoming`, `readLoop`'s hand, the wire, the queue of an exchange, and the
  sequence still to be written.
  `InOrder` cuts the numbers written at one point for each; every step moves a cut.
  It needs that a guessed packet which is skipped is no data (`Guess`), that the
  queue is empty outside an exchange (`Queued`), which goroutine may read
  (`Turns`), and that a blocked writer has something to write (`Waiting`).

  The second spans both ends. `KeysInStep` itself speaks only of the next packet to
  be opened, and says nothing of the key that comes into use with a newkeys still on
  the way, so `KeysInv` has three more layers. `Local`: at each end, the keys in use
  and the pending one come from the exchange hash the end has computed (`Sourced`),
  and its exchange is the one begun by its own last init (`Begun`; the cookie of an
  init makes a key newer than all before it). `Wired`: what an end has on the way
  uses up positions of its key (`FreshTags`), and nothing of the application lies
  behind an init (`Alone`). `Stepped`: reading all that is on the way takes the
  reader's state to the writer's (`Linked`, a path of reader states along the wire); a
  newkeys on the way belongs to an exchange that its reader has not ended (`Once`);
  a reply on the way, and a client that has had it, agree with the server about the
  hash (`Agreement`, `SameSession`). Every action of an end is shown to be one of
  five moves (`Sends`, `Reads`, `Keys`, `Takes`, `Shuts`), which is all the other
  end sees of it, and each move is shown to keep `Stepped` once.

  The third counts inits, on top of `KeysInv` (`CountInv`). That an exchange has a
  cause is true of both ends together only: an end whose request is on the way may be
  answered by an exchange that the other end began on its own. The inits carry their
  number as the cookie, so what is on the way can be told from what was answered: an
  end is at most one init ahead, and by one it has had no answer to (`Ahead`), the
  inits on the way are those not yet answered, oldest first (`InitsDue`), and an init
  that was not answered is on the way or in the peer's hand (`InitSeen`,
  `NewkeysDue`). `Causes` then says that whatever can make an end begin (the token of
  `requestKeyExchange`, a queued packet, a data packet on the way that may use up the
  threshold) exists only while fewer exchanges were begun than packets written. What
  `readLoop` counts must therefore be data or an init: `MethodsFramed`,
  `ExtUncounted` and `StrictWaits` say why it counts no packet of a method, no
  ext-info and no ignored packet at the threshold.
* `MuxProofs`: `ChannelsSoundCorrect` and `DeliveredInOrderCorrect`. For the first,
  the invariant adds to the property that every packet on the way is a decoded one
  (`Wires`), what a channel record is (`Sound`), and the ranges of the list (`Shape`).
  A step changes one channel and removes entries of the list at most (`ChanStep`), or
  adds a new one (`NewStep`).

  The second spans both ends, and holds of a connection without stray packets, so its
  invariant is `DInv`: the first one, and `strays = 0 => Good`. `DeliveredInOrder`
  compares what was read with what was written, and says nothing of what is between
  them; `Good` does. A channel is found by its number, and numbers are used again
  once the list has let a channel go, so the invariant must say whose a packet is:
  `Places` is how each channel record comes to its state, `Pairs` which two channels
  are the ends of one (`rid` is the number the other end gave), `Opens` and `Queue`
  that a channel is opened and handed to the application once. `Dir` is about what is
  on the way to one end: every packet is addressed to a channel in its list (`Aimed`),
  one whose opening is undecided gets none (`Hushed`), and reading all of it takes the
  reader from what it has got (`At`) to what the writer has sent (`Sender`), along a
  path of states for each pair (`Carried`, by `Carries`); a channel stays in the list
  while its peer may send (`Heard`, `Kept`), and one that has left it with an end of
  stream has got everything (`Ended`). `Dir` is claimed only while the loop reads.
  `Tokens` follows a request: there is at most one in flight under `sentRequestMu`, on
  the way there, at its server, on the way back or in `ch.msg`, and its caller holds
  the mutex, which is why a reply cannot reach another caller. A step of the loop pops
  a packet and applies it (`InKeeps`, `InPops`, `InOpens`, `InJoins`, `InRejects`,
  `InCloses`), a step of an application appends a packet or none (`OutKeeps`,
  `OutSends`, `OutJoins`), and every action is shown to be one of these moves.

The strengthened invariants were also checked with TLC on the instances above,
except for what TLC cannot enumerate: what a record's fields are, the cuts of
`InOrder` and the paths of `Linked` and `Carried`. Types are proved and not repeated as invariants
of the runs.

Only model-checked are

* liveness (`SlotsRecovered`, `IdleForgotten`, `AllowReturns`, `CancelReturns`,
  `SessionEnds`, `RequestsServed`, `AuthEnds`, `CallsReturn`, `Settles`,
  `ConnectionReleased`): it needs fairness and ENABLED, which the prover does not
  handle;
* `Shell`'s properties: `ShellSyntax` uses recursive operators, and the prover does
  not work in a module that reaches one;
* `WindowsAgree` (`Mux`): it adds up the bytes of the packets on the way, a sum over
  the wire whose laws need induction over data;
* `CapableGetsIn` (`UserAuth`): that the client goes on until it gets in depends on
  the methods it has left to try, through the alternation of both ends; see the plan.

## 5. Findings

* `ssh_loss_doc`: README.md says that at `hard_max` connections the loss ratio
  reaches 1.0, and describes `loss_ratio >= 0` as increasing up to it.
  `connectionLossProbability` keeps a ratio of 0 at 0, so the connection that
  makes the count equal to `hard_max` is admitted. The hard limit itself holds.
* `rate_cancel`: `Allow` cancels the global reservation of a connection that the
  per-IP limit refuses, and `rate_test.go` expects the global limit untouched.
  The cancellation uses a later clock than the reservation, and then the library
  refunds nothing: refused connections eat into everybody's global budget.
* `transport_close_doc`: the comment in `handshakeTransport.Close` says that
  closing the connection wakes `readLoop`. It does not wake it from
  `t.incoming <- p`; when the one goroutine that reads `t.incoming` is the one
  that closes, Close waits for ever.

The liveness properties exclude four more states without an end, each listed as a
hazard:

* HandleSession writing a reply or the exit-status to a client that stopped reading
  (`Unread` in `GitSession` and `GitConnection`): these writes have no deadline;
* a mux loop stuck in a send to a full Go channel whose receiver is gone (`Jammed` in
  `Mux` and `GitConnection`, `jammed` in `SSHServer`): neither a deadline nor closing
  the connection wakes it, and the connection's slot is not given back;
* a channel that lost its number to the Reject of an earlier one (`Disowned` in `Mux`);
* an OpenChannel between `dropAll` and the closing of the connection (`late` in `Mux`).

The comment at `logging.go:374-377` allows for a marker that overshoots the byte cap.
That state cannot be reached: `byteCeiling` always keeps the marker's reserve free, and
`LogTellsAll` claims the cap without the allowance.

## 6. Not modelled

* Cryptography and wire encodings: what they decide is kept (a signature
  verifies, a tag opens, a packet parses), how is not. `keys.go`, `mac.go`,
  `messages.go` beyond the fields used, and the arithmetic of `kex.go`.
* `third/ssh/agent`, `terminal`, `tcpip.go`, `streamlocal.go`: nothing in fakessh
  uses them. `knownhosts` is an answer of the remote handshake.
* Git command lines and repository paths: pure functions of one string, whose
  answers are choices in `GitSession`. Pack data, environment values.
* In the shell: expansion of variables and globs, the prompt, the text commands
  print, archives that give one name two kinds, compression, where a symlink on the
  host points.
  A line the parser rejects is not an event of the session log in the code
  either. A discarded line longer than `MaxInputLineBytes` ends the session only
  if a read fills the buffer with it; `CommandsAsTyped` allows an early end.
* Delays, the reply to a corrupt packet (`transport.go:145-151`) and further imitation of OpenSSH in the anti-scan code.
* Configurations the validation rejects, and rates so high that the interval per
  token rounds to zero nanoseconds (the library then treats them as unlimited).
* Start-up (configuration, host keys, logging) and build variants.

## 7. Plan

1. `WindowsAgree`, once the sum over the wire has laws to cite, and `CapableGetsIn`.
2. `SSHServer`'s `ShellEnds` and `GitEnds` refined by `ConnHandler`, and
   `GitSession`'s handler by the session of `GitConnection`.
3. `LocalBackend` as the other backend of `GitConnection`.
