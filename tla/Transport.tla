------------------------------ MODULE Transport ------------------------------
(***************************************************************************)
(* Key exchange and rekeying (third/ssh/handshake.go) between two ends     *)
(* that run the library, over the packet layer of PacketCipher.  Each end  *)
(* has three goroutines: readLoop, kexLoop and an application that waits   *)
(* for the session, then reads and writes packets, and may Close.  A peer  *)
(* that is not this library differs in what its client offers, in guessing *)
(* the first key exchange packet, in its gex request, in ignore packets    *)
(* during an exchange, and in public values that are out of range.         *)
(*                                                                         *)
(* rl[e].pc   read; push, a packet waits for room in t.incoming; start and *)
(*            wait, the two halves of handing an init to kexLoop; err,     *)
(*            t.incoming is closed; ended, t.startKex too                  *)
(* kl[e].pc   select; kex, enterKeyExchange; close; drain; done            *)
(* app[e].pc  wait (for the session), use, quit (no more reads),           *)
(*            close (in Close), end                                        *)
(***************************************************************************)
EXTENDS PacketCipher, Kex

CONSTANTS
    ChanSize,       \* capacity of t.incoming
    MaxPending,     \* maxPendingPackets
    Threshold,      \* packets (or bytes) before a rekey, in packets
    Scenarios       \* see MCTransport

ASSUME TransportAssumption ==
    ChanSize \in Nat \ {0} /\ MaxPending \in Nat \ {0} /\ Threshold \in Nat \ {0}

\* what kexAlgoMap and cipherModes hold
ASSUME AlgorithmsAssumption ==
    /\ KnownKex \subseteq {"dh", "ecdh", "curve25519", "curve25519-libssh", "mlkem", "gex"}
    /\ KnownCiphers \subseteq {"stream", "cbc", "gcm", "chacha"}

Ends == {"c", "s"}

\* writePacket refuses msgKexInit and msgNewKeys from its caller; in every
\* method of kexAlgoMap the client speaks first, so a server has no packet to
\* send on a guess
ASSUME ScenariosAssumption ==
    \A s \in Scenarios :
        /\ \A e \in Ends : s[e].write \in Seq({"data", "ignore", "disconnect"})
        /\ ~s["s"].guess

Peer(e) == IF e = "c" THEN "s" ELSE "c"
OutDir(e) == IF e = "c" THEN "cs" ELSE "sc"

VARIABLES
    scene,
    wire,       \* packets on the way to an end
    up,         \* this end has not closed the connection
    rd, wr,     \* the two connectionStates of an end
    hs,         \* fields of handshakeTransport
    rl, kl, app

vars == <<scene, wire, up, rd, wr, hs, rl, kl, app>>

\* a packet: an init or a message of a method has a body, data a number
P(t, n) == [t |-> t, n |-> n, body |-> <<>>]
B(t, body) == [t |-> t, n |-> 0, body |-> <<body>>]

\* newHandshakeTransport: a key exchange is asked for from the start
Init ==
    /\ scene \in Scenarios
    /\ wire = [e \in Ends |-> <<>>] /\ up = [e \in Ends |-> TRUE]
    /\ rd = [e \in Ends |-> FreshState] /\ wr = [e \in Ends |-> FreshState]
    /\ hs = [e \in Ends |->
                [token |-> TRUE, sent |-> <<>>, inits |-> 0, werr |-> FALSE, queue |-> <<>>,
                 sid |-> <<>>, strict |-> FALSE, kexDone |-> FALSE,
                 wleft |-> Threshold, rleft |-> Threshold]]
    /\ rl = [e \in Ends |-> [pc |-> "read", first |-> TRUE, pkt |-> <<>>, done |-> "none"]]
    /\ kl = [e \in Ends |-> [pc |-> "select", req |-> <<>>, sent |-> FALSE, script |-> <<>>,
                             alg |-> <<>>, group |-> 0, skip |-> FALSE]]
    /\ app = [e \in Ends |-> [pc |-> "wait", wrote |-> 0, blocked |-> FALSE, got |-> <<>>, inq |-> <<>>]]

-----------------------------------------------------------------------------
(* The packet layer                                                        *)

\* writePacket of the transport: lost if the peer has closed
Put(e, ps) ==
    LET w == WriteAll(wr[e], ps, hs[e].strict) IN
    /\ wr' = [wr EXCEPT ![e] = w.state]
    /\ wire' = IF up[Peer(e)] THEN [wire EXCEPT ![Peer(e)] = @ \o w.out] ELSE wire

\* there is something to read, or an error
Readable(e) == wire[e] # <<>> \/ ~up[e] \/ ~up[Peer(e)]
Failed(e) == ~up[e] \/ wire[e] = <<>> \/ ReadRefuses(rd[e], Head(wire[e]))
Incoming(e) == Head(wire[e])

\* readPacket drops these, but not in a strict initial exchange
Skipped(e) == Incoming(e).t = "ignore" /\ ~(hs[e].strict /\ ~hs[e].kexDone)

Consume(e) ==
    /\ wire' = [wire EXCEPT ![e] = Tail(@)]
    /\ rd' = [rd EXCEPT ![e] = Advance(@, Incoming(e), hs[e].strict)]

-----------------------------------------------------------------------------
(* readLoop                                                                *)

\* what readOnePacket makes of a packet p
ReadOutcome(e, p) ==
    LET r == [rl[e] EXCEPT !.first = FALSE] IN
    IF r.first # rl[e].first /\ p.t # "init" THEN [r EXCEPT !.pc = "err"]
    ELSE IF p.t = "init" THEN [r EXCEPT !.pc = "start", !.pkt = <<p>>]
    ELSE IF p.t = "ignore" /\ ~(hs[e].sid = <<>> /\ hs[e].strict) THEN r
    ELSE [r EXCEPT !.pc = "push", !.pkt = <<P(p.t, p.n)>>]

ReadPacket(e) ==
    /\ rl[e].pc = "read" /\ Readable(e)
    /\ IF Failed(e)
       THEN /\ rl' = [rl EXCEPT ![e].pc = "err"] /\ UNCHANGED <<wire, rd, hs>>
       ELSE /\ Consume(e)
            /\ IF Skipped(e) THEN UNCHANGED <<rl, hs>>
               ELSE /\ rl' = [rl EXCEPT ![e] = ReadOutcome(e, Incoming(e))]
                    /\ hs' = IF hs[e].rleft > 0 THEN [hs EXCEPT ![e].rleft = @ - 1]
                             ELSE [hs EXCEPT ![e].token = TRUE]
    /\ UNCHANGED <<scene, up, wr, kl, app>>

\* t.incoming <- p
PushIncoming(e) ==
    /\ rl[e].pc = "push" /\ Len(app[e].inq) < ChanSize
    /\ app' = [app EXCEPT ![e].inq = @ \o rl[e].pkt]
    /\ rl' = [rl EXCEPT ![e].pc = "read", ![e].pkt = <<>>]
    /\ UNCHANGED <<scene, wire, up, rd, wr, hs, kl>>

\* <-kex.done: the exchange shows as newkeys the first time, as nothing later
ExchangeSeen(e) ==
    /\ rl[e].pc = "wait" /\ rl[e].done # "none"
    /\ IF rl[e].done = "err"
       THEN rl' = [rl EXCEPT ![e].pc = "err"] /\ UNCHANGED hs
       ELSE /\ hs' = [hs EXCEPT ![e].rleft = Threshold]
            /\ rl' = [rl EXCEPT ![e].done = "none",
                                ![e].pkt = IF rl[e].done = "first" THEN <<P("newkeys", 0)>> ELSE <<>>,
                                ![e].pc = IF rl[e].done = "first" THEN "push" ELSE "read"]
    /\ UNCHANGED <<scene, wire, up, rd, wr, kl, app>>

\* recordWriteError and close(t.startKex), after t.incoming was closed
ReadLoopEnds(e) ==
    /\ rl[e].pc = "err"
    /\ rl' = [rl EXCEPT ![e].pc = "ended"]
    /\ hs' = [hs EXCEPT ![e].werr = TRUE]
    /\ UNCHANGED <<scene, wire, up, rd, wr, kl, app>>

-----------------------------------------------------------------------------
(* kexLoop: the wait for a request, ours or the peer's                     *)

\* sendKexInit: our lists, and in the first exchange the extensions.
Offer(e) ==
    LET s == scene[e]  first == hs[e].sid = <<>> IN
    [cookie |-> hs[e].inits + 1,
     kex |-> EffectiveKex(s.kex), ciphers |-> [d \in Directions |-> Effective(s.ciphers[d], KnownCiphers, DefaultCiphers)],
     macs |-> s.macs, host |-> IF e = "s" THEN HostKeyAlgos(s.host) ELSE s.host,
     strict |-> first /\ s.strict, ext |-> first /\ e = "c" /\ s.ext, follows |-> first /\ s.guess]

\* a guessing client sends the first packet of the method it prefers
OfferPackets(e, init) ==
    <<B("init", init)>> \o
    IF init.follows THEN <<B("kex", [m |-> Head(KexScript(Head(init.kex), TRUE)).m,
                                     ok |-> ~scene[e].bad, req |-> scene[e].gex, h |-> <<>>])>>
    ELSE <<>>

\* what follows once an init was received (req) and one sent: enter the
\* exchange, unless a write has failed meanwhile
Enter(e, req) ==
    IF req = <<>> THEN [kl[e] EXCEPT !.sent = TRUE]
    ELSE [kl[e] EXCEPT !.pc = "kex", !.req = req, !.sent = TRUE, !.script = <<>>, !.alg = <<>>,
                       !.group = 0]

\* One turn of the select: the init that was received, or the token, and
\* sendKexInit.  (A packet written between the two goes out before the init
\* as it does here when it is written before the turn.)
Turn(e, req, r, h) ==
    LET send == h.sent = <<>> /\ ~kl[e].sent
        init == Offer(e)
        h1 == IF send /\ up[e] THEN [h EXCEPT !.sent = <<init>>, !.inits = @ + 1]
              ELSE IF send THEN [h EXCEPT !.werr = TRUE] ELSE h
        all == req \o kl[e].req
    IN
    /\ hs' = [hs EXCEPT ![e] = h1]
    /\ IF send /\ up[e] THEN Put(e, OfferPackets(e, init)) ELSE UNCHANGED <<wire, wr>>
    /\ IF (send /\ ~up[e]) \/ (all # <<>> /\ h1.werr)
       THEN /\ kl' = [kl EXCEPT ![e].pc = "close"]
            /\ rl' = [rl EXCEPT ![e] = IF all # <<>> THEN [r EXCEPT !.done = "err"] ELSE r]
       ELSE /\ kl' = [kl EXCEPT ![e] = Enter(e, all)]
            /\ rl' = [rl EXCEPT ![e] = r]
    /\ UNCHANGED <<scene, up, rd, app>>

SelectRequest(e) ==
    /\ kl[e].pc = "select" /\ hs[e].token
    /\ Turn(e, <<>>, rl[e], [hs[e] EXCEPT !.token = FALSE])

SelectStart(e) ==
    /\ kl[e].pc = "select" /\ rl[e].pc = "start"
    /\ Turn(e, <<rl[e].pkt[1].body[1]>>, [rl[e] EXCEPT !.pc = "wait", !.pkt = <<>>], hs[e])

SelectClosed(e) ==
    /\ kl[e].pc = "select" /\ rl[e].pc = "ended"
    /\ kl' = [kl EXCEPT ![e].pc = "close"]
    /\ UNCHANGED <<scene, wire, up, rd, wr, hs, rl, app>>

-----------------------------------------------------------------------------
(* enterKeyExchange                                                        *)

ClientInit(e) == IF e = "c" THEN hs[e].sent[1] ELSE kl[e].req[1]
ServerInit(e) == IF e = "c" THEN kl[e].req[1] ELSE hs[e].sent[1]
Hash(e, group) == ExchangeHash(ClientInit(e), ServerInit(e), group)

\* Mutant: requests made during the exchange are kept.
FlushTokenKept(e, ok) ==
    [hs[e] EXCEPT !.sent = <<>>, !.wleft = Threshold, !.queue = <<>>,
                  !.werr = IF hs[e].queue = <<>> THEN ~ok ELSE ~up[e]]

\* Mutant: the queue is not emptied.
FlushQueueKept(e, ok) ==
    [hs[e] EXCEPT !.sent = <<>>, !.wleft = Threshold, !.token = FALSE,
                  !.werr = IF hs[e].queue = <<>> THEN ~ok ELSE ~up[e]]

\* the fields after an exchange: queued packets are sent whether it went well
\* or not, and what comes of that replaces the error of the exchange
Flush(e, ok) ==
    [hs[e] EXCEPT !.sent = <<>>, !.wleft = Threshold, !.queue = <<>>, !.token = FALSE,
                  !.werr = IF hs[e].queue = <<>> THEN ~ok ELSE ~up[e]]

\* ... and of kexLoop, which looks at that error
AfterExchange(e, h) ==
    [kl[e] EXCEPT !.pc = IF h.werr THEN "close" ELSE "select", !.req = <<>>, !.sent = FALSE,
                  !.script = <<>>, !.alg = <<>>, !.group = 0, !.skip = FALSE]

\* The exchange has failed.  (A queued packet that cannot be sent is lost.)
ExchangeFails(e) ==
    LET h == Flush(e, FALSE) IN
    /\ hs' = [hs EXCEPT ![e] = h]
    /\ IF up[e] THEN Put(e, hs[e].queue) ELSE UNCHANGED <<wire, wr>>
    /\ rl' = [rl EXCEPT ![e].done = "err"]
    /\ kl' = [kl EXCEPT ![e] = AfterExchange(e, h)]

\* Mutant: a wrong guess is not skipped.
WrongGuessNever(e) == FALSE

\* the peer has guessed and is wrong: its packet is to be skipped
WrongGuess(e) ==
    /\ kl[e].req[1].follows
    /\ \/ Head(ClientInit(e).kex) # Head(ServerInit(e).kex)
       \/ Head(ClientInit(e).host) # Head(ServerInit(e).host)

\* a client that has guessed right has sent its first packet
GuessedRight(e) ==
    /\ hs[e].sent[1].follows
    /\ Head(ClientInit(e).kex) = Head(ServerInit(e).kex)
    /\ Head(ClientInit(e).host) = Head(ServerInit(e).host)

\* negotiation; strict mode is for the first exchange, and for a peer that has
\* sent nothing but its init (this library always announces it)
Negotiate(e) ==
    /\ kl[e].pc = "kex" /\ kl[e].alg = <<>>
    /\ LET a == FindAgreed(ClientInit(e), ServerInit(e))
           strict == hs[e].sid = <<>> /\ kl[e].req[1].strict /\ hs[e].sent[1].strict
           script == KexScript(a.kex, e = "c")
       IN
       IF \/ ~Agreed(a) \/ (strict /\ rd[e].seq # 1) \/ a.kex \notin KnownKex
          \/ (e = "s" /\ PickHostKey(scene[e].host, a.host) = 0)
       THEN ExchangeFails(e)
       ELSE /\ hs' = [hs EXCEPT ![e].strict = @ \/ strict]
            /\ kl' = [kl EXCEPT ![e].alg = <<a>>, ![e].skip = WrongGuess(e),
                                ![e].script = IF GuessedRight(e) THEN Tail(script) ELSE script]
            /\ UNCHANGED <<wire, wr, rl>>
    /\ UNCHANGED <<scene, up, rd, app>>

\* a packet for enterKeyExchange; ignored ones are dropped by the transport
KexReads(e) == kl[e].pc = "kex" /\ kl[e].alg # <<>> /\ Readable(e)

KexIgnores(e) ==
    /\ KexReads(e) /\ ~Failed(e) /\ Skipped(e)
    /\ \/ kl[e].skip
       \/ kl[e].script # <<>> /\ Head(kl[e].script).dir = "in"
       \/ kl[e].script = <<>> /\ rd[e].pending # <<>>
    /\ Consume(e)
    /\ UNCHANGED <<scene, up, wr, hs, rl, kl, app>>

SkipGuess(e) ==
    /\ KexReads(e) /\ kl[e].skip
    /\ IF Failed(e) THEN ExchangeFails(e) /\ UNCHANGED rd
       ELSE /\ ~Skipped(e) /\ Consume(e)
            /\ kl' = [kl EXCEPT ![e].skip = FALSE]
            /\ UNCHANGED <<wr, hs, rl>>
    /\ UNCHANGED <<scene, up, app>>

KexMessage(e, m) ==
    B("kex", [m |-> m, ok |-> ~scene[e].bad,
              req |-> IF m = "gexgroup" THEN [GexRequest EXCEPT !.pref = kl[e].group] ELSE scene[e].gex,
              h |-> IF m \in Replies THEN Hash(e, kl[e].group) ELSE <<>>])

\* another library may send ignore packets at any time
Noise(e) == IF scene[e].noise THEN <<P("ignore", 0)>> ELSE <<>>

\* Client, Server of a method: send the next message
KexSends(e) ==
    /\ kl[e].pc = "kex" /\ ~kl[e].skip /\ kl[e].script # <<>> /\ Head(kl[e].script).dir = "out"
    /\ IF ~up[e] THEN ExchangeFails(e)
       ELSE /\ Put(e, Noise(e) \o <<KexMessage(e, Head(kl[e].script).m)>>)
            /\ kl' = [kl EXCEPT ![e].script = Tail(@)]
            /\ UNCHANGED <<hs, rl>>
    /\ UNCHANGED <<scene, up, rd, app>>

\* whether a message is acceptable: its type, its values, and the host key's
\* signature and the callback's verdict on it (hostKeyCallback, external)
Acceptable(e, m, p) ==
    /\ p.t = "kex" /\ p.body[1].m = m /\ p.body[1].ok
    /\ m = "gexrequest" => GexInRange(p.body[1].req) /\ ChooseDH(p.body[1].req) # 0
    /\ m = "gexgroup" => p.body[1].req.pref \in 2 .. 8
    /\ m \in Replies => p.body[1].h = Hash(e, kl[e].group) /\ hs[e].inits \notin scene.reject

KexReceives(e) ==
    /\ KexReads(e) /\ ~kl[e].skip /\ kl[e].script # <<>> /\ Head(kl[e].script).dir = "in"
    /\ IF Failed(e) THEN ExchangeFails(e) /\ UNCHANGED rd
       ELSE /\ ~Skipped(e)
            /\ LET m == Head(kl[e].script).m  p == Incoming(e) IN
               IF Acceptable(e, m, p)
               THEN /\ Consume(e)
                    /\ kl' = [kl EXCEPT ![e].script = Tail(@),
                                        ![e].group = IF m = "gexrequest" THEN ChooseDH(p.body[1].req)
                                                     ELSE IF m = "gexgroup" THEN p.body[1].req.pref ELSE @]
                    /\ UNCHANGED <<wr, hs, rl>>
               ELSE \* the connection is of no use any more: what was read is not looked at again
                    ExchangeFails(e) /\ UNCHANGED rd
    /\ UNCHANGED <<scene, up, app>>

\* prepareKeyChange, then newkeys and, from the server the first time, ext-info
SendNewKeys(e) ==
    LET h == Hash(e, kl[e].group)  a == kl[e].alg[1]
        extra == IF e = "s" /\ hs[e].sid = <<>> /\ kl[e].req[1].ext THEN <<P("extinfo", 0)>> ELSE <<>>
        In1 == NewCipher(a.cipher[OutDir(Peer(e))], OutDir(Peer(e)), h)
        Out1 == NewCipher(a.cipher[OutDir(e)], OutDir(e), h)
        w == WriteAll([wr[e] EXCEPT !.pending = <<Out1>>], <<P("newkeys", 0)>> \o extra, hs[e].strict)
    IN
    /\ kl[e].pc = "kex" /\ kl[e].alg # <<>> /\ kl[e].script = <<>> /\ ~kl[e].skip /\ rd[e].pending = <<>>
    /\ IF ~up[e] \/ \E d \in Directions : a.cipher[d] \notin KnownCiphers
       THEN ExchangeFails(e) /\ UNCHANGED rd
       ELSE /\ hs' = [hs EXCEPT ![e].sid = IF @ = <<>> THEN h ELSE @]
            /\ rd' = [rd EXCEPT ![e].pending = <<In1>>]
            /\ wr' = [wr EXCEPT ![e] = w.state]
            /\ wire' = IF up[Peer(e)] THEN [wire EXCEPT ![Peer(e)] = @ \o w.out] ELSE wire
            /\ UNCHANGED <<rl, kl>>
    /\ UNCHANGED <<scene, up, app>>

\* the peer's newkeys ends the exchange; then kexLoop's section under t.mu
TakeNewKeys(e) ==
    /\ KexReads(e) /\ kl[e].script = <<>> /\ ~kl[e].skip /\ rd[e].pending # <<>>
    /\ IF Failed(e) THEN ExchangeFails(e) /\ UNCHANGED rd
       ELSE /\ ~Skipped(e)
            /\ IF Incoming(e).t # "newkeys" THEN ExchangeFails(e) /\ UNCHANGED rd
               ELSE LET h == Flush(e, TRUE)
                        w == WriteAll(wr[e], hs[e].queue, hs[e].strict)
                    IN
                    /\ rd' = [rd EXCEPT ![e] = Advance(@, Incoming(e), hs[e].strict)]
                    /\ hs' = [hs EXCEPT ![e] = [h EXCEPT !.kexDone = TRUE]]
                    /\ wr' = IF up[e] THEN [wr EXCEPT ![e] = w.state] ELSE wr
                    /\ wire' = [f \in Ends |-> IF f = e THEN Tail(wire[e])
                                               ELSE IF up[e] /\ up[f] THEN wire[f] \o w.out ELSE wire[f]]
                    /\ rl' = [rl EXCEPT ![e].done = IF hs[e].kexDone THEN "again" ELSE "first"]
                    /\ kl' = [kl EXCEPT ![e] = AfterExchange(e, h)]
    /\ UNCHANGED <<scene, up, app>>

-----------------------------------------------------------------------------
(* the end of kexLoop                                                      *)

CloseConn(e) ==
    /\ kl[e].pc = "close"
    /\ up' = [up EXCEPT ![e] = FALSE] /\ wire' = [wire EXCEPT ![e] = <<>>]
    /\ kl' = [kl EXCEPT ![e].pc = "drain"]
    /\ UNCHANGED <<scene, rd, wr, hs, rl, app>>

DrainStart(e) ==
    /\ kl[e].pc = "drain" /\ rl[e].pc = "start"
    /\ rl' = [rl EXCEPT ![e].pc = "wait", ![e].done = "err"]
    /\ UNCHANGED <<scene, wire, up, rd, wr, hs, kl, app>>

KexLoopDone(e) ==
    /\ kl[e].pc = "drain" /\ rl[e].pc = "ended"
    /\ kl' = [kl EXCEPT ![e].pc = "done"]
    /\ UNCHANGED <<scene, wire, up, rd, wr, hs, rl, app>>

-----------------------------------------------------------------------------
(* The application                                                         *)

\* readPacket: waitSession wants newkeys first; a reader that meets an error of
\* its own reads no more
AppReads(e) ==
    /\ app[e].pc \in {"wait", "use", "close"} /\ app[e].inq # <<>>
    /\ LET p == Head(app[e].inq) IN
        app' = [app EXCEPT ![e].inq = Tail(@),
                           ![e].pc = IF app[e].pc = "wait" THEN (IF p.t = "newkeys" THEN "use" ELSE "quit")
                                     ELSE IF p.t = "data" /\ e \in scene.quits /\ app[e].pc = "use" THEN "quit" ELSE @,
                           ![e].got = IF p.t = "data" THEN Append(@, p.n) ELSE @]
    /\ UNCHANGED <<scene, wire, up, rd, wr, hs, rl, kl>>

\* an error, its own or the transport's, makes it Close; others Close when they like
AppCloses(e) ==
    /\ \/ app[e].pc = "quit"
       \/ app[e].pc \in {"wait", "use"} /\ app[e].inq = <<>> /\ rl[e].pc \in {"err", "ended"}
       \/ app[e].pc = "use" /\ e \in scene.closes
    /\ app' = [app EXCEPT ![e].pc = IF app[e].pc = "quit" THEN "quitclose" ELSE "close"]
    /\ up' = [up EXCEPT ![e] = FALSE] /\ wire' = [wire EXCEPT ![e] = <<>>]
    /\ UNCHANGED <<scene, rd, wr, hs, rl, kl>>

\* <-t.kexLoopDone
CloseReturns(e) ==
    /\ app[e].pc \in {"close", "quitclose"} /\ kl[e].pc = "done"
    /\ app' = [app EXCEPT ![e].pc = "end"]
    /\ UNCHANGED <<scene, wire, up, rd, wr, hs, rl, kl>>

\* the next packet that an application writes
NextWrite(e) == P(scene[e].write[app[e].wrote + 1], app[e].wrote + 1)
HasWrite(e) == app[e].wrote < Len(scene[e].write)

\* writePacket from where it does not (or no longer) wait: the thresholds, then
\* the packet; a failure is recorded and not returned
PushPacket(e) ==
    /\ IF up[e] THEN Put(e, <<NextWrite(e)>>) ELSE UNCHANGED <<wire, wr>>
    /\ hs' = [hs EXCEPT ![e].wleft = IF @ > 0 THEN @ - 1 ELSE @,
                        ![e].token = @ \/ hs[e].wleft = 0,
                        ![e].werr = ~up[e]]
    /\ app' = [app EXCEPT ![e].wrote = @ + 1, ![e].blocked = FALSE]

\* the rest is not written after an error
GiveUp(e) ==
    /\ app' = [app EXCEPT ![e].wrote = Len(scene[e].write), ![e].blocked = FALSE]
    /\ UNCHANGED <<wire, wr, hs>>

WritePacket(e) ==
    /\ app[e].pc # "wait" /\ hs[e].sid # <<>> /\ HasWrite(e) /\ ~app[e].blocked
    /\ IF hs[e].werr THEN GiveUp(e)
       ELSE IF hs[e].sent = <<>> THEN PushPacket(e)
       ELSE IF Len(hs[e].queue) < MaxPending
       THEN /\ hs' = [hs EXCEPT ![e].queue = Append(@, NextWrite(e))]
            /\ app' = [app EXCEPT ![e].wrote = @ + 1]
            /\ UNCHANGED <<wire, wr>>
       ELSE /\ app' = [app EXCEPT ![e].blocked = TRUE]
            /\ UNCHANGED <<wire, wr, hs>>
    /\ UNCHANGED <<scene, up, rd, rl, kl>>

\* writeCond.Wait is over
WriteResumes(e) ==
    /\ app[e].blocked
    /\ \/ hs[e].werr /\ GiveUp(e)
       \/ ~hs[e].werr /\ hs[e].sent = <<>> /\ PushPacket(e)
    /\ UNCHANGED <<scene, up, rd, rl, kl>>

-----------------------------------------------------------------------------
Library(e) ==
    \/ ReadPacket(e) \/ PushIncoming(e) \/ ExchangeSeen(e) \/ ReadLoopEnds(e)
    \/ SelectRequest(e) \/ SelectStart(e) \/ SelectClosed(e)
    \/ Negotiate(e) \/ KexIgnores(e) \/ SkipGuess(e) \/ KexSends(e) \/ KexReceives(e)
    \/ SendNewKeys(e) \/ TakeNewKeys(e)
    \/ CloseConn(e) \/ DrainStart(e) \/ KexLoopDone(e)

Next == \E e \in Ends :
    \/ Library(e)
    \/ AppReads(e) \/ AppCloses(e) \/ CloseReturns(e) \/ WritePacket(e) \/ WriteResumes(e)

\* The goroutines run.  A behaviour is finite, so that fairness of the whole is
\* fairness of each.
Spec == Init /\ [][Next]_vars /\ WF_vars(Next)

-----------------------------------------------------------------------------
Failing(e) == rl[e].done = "err" \/ rl[e].pc \in {"err", "ended"} \/ kl[e].pc \in {"close", "drain", "done"}

\* transport.go, handshake.go: the two directions change keys and sequence
\* numbers in step, whichever side began and whatever was on the way: the next
\* packet is one that its reader can read, no two are bound to one position of
\* a key, and from its init to its newkeys an end sends nothing else (unless
\* the exchange failed: then its queued packets still go out).
KeysInStep ==
    \A e \in Ends :
        LET w == wire[e] IN
        /\ w # <<>> => Opens(rd[e], w[1].tag)
        /\ \A i, j \in DOMAIN w : i < j => w[i].tag # w[j].tag \/ w[i].tag.key = Plain
        /\ \A i, j \in DOMAIN w :
            i < j /\ w[i].t = "init" /\ ~Failing(Peer(e)) /\ (\A k \in i .. j : w[k].t # "newkeys")
                => w[j].t = "kex" \/ (scene[Peer(e)].noise /\ w[j].t = "ignore")

DataNumbers(e) == SelectSeq([i \in 1 .. Len(scene[e].write) |-> i], LAMBDA i : scene[e].write[i] = "data")

DataAt(e) == {n \in 1 .. Len(scene[e].write) : scene[e].write[n] = "data"}

\* writePacket, kexLoop: packets arrive in the order they were written and none
\* is left out or doubled, though some were queued during an exchange, some
\* waited for its end and some were sent at once: the numbers read are those of
\* the data packets up to some point, in rising order.
PacketsInOrder ==
    \A e \in Ends :
        LET got == app[e].got IN
        \E last \in 0 .. Len(scene[Peer(e)].write) :
            /\ {got[i] : i \in DOMAIN got} = {n \in DataAt(Peer(e)) : n <= last}
            /\ \A i, j \in DOMAIN got : i < j => got[i] < got[j]

\* kexLoop ("clear"): no exchange causes another.  There are no more of them
\* than packets written, besides the first, and both ends agree to within the
\* one that is under way.
RekeyHasCause ==
    /\ \A e \in Ends : hs[e].inits <= 1 + app["c"].wrote + app["s"].wrote
    /\ hs["c"].inits - hs["s"].inits \in {-1, 0, 1}

Quiet(e) ==
    /\ up[e] /\ wire[e] = <<>> /\ ~app[e].blocked /\ ~HasWrite(e)
    /\ app[e].pc = "use" /\ app[e].got = DataNumbers(Peer(e))
    /\ hs[e].sent = <<>> /\ hs[e].queue = <<>> /\ ~hs[e].werr /\ ~hs[e].token

\* Every exchange ends, no writer waits for ever and everything written
\* arrives, when nothing goes wrong; when something does (no common algorithm,
\* a refused host key, a disconnect, a Close), both ends come to know and every
\* Close returns, provided packets are read until then.
Settles == <>[](IF scene.well THEN \A e \in Ends : Quiet(e) ELSE \A e \in Ends : app[e].pc = "end")

\* "This should cause the readLoop goroutine to wake up and close t.startKex,
\* which will shut down kexLoop" (Close, handshake.go): Close returns, also to
\* a caller that has stopped reading.
CloseWakesReader == <>[](\A e \in Ends : app[e].pc # "quitclose")
=============================================================================
