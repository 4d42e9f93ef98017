--------------------------------- MODULE Mux ---------------------------------
(***************************************************************************)
(* The SSH connection protocol between two ends that both run the library  *)
(* (third/ssh/mux.go, channel.go): each has the loop over incoming packets *)
(* and, on every channel, application goroutines that open, accept or      *)
(* reject, write, read, send and serve requests, and close.                *)
(*                                                                         *)
(* Packets travel in order.  Either end may close the connection, and      *)
(* stray packets may come in between, as from a peer that does not keep    *)
(* to the protocol.                                                        *)
(*                                                                         *)
(* loop[e]:  run; err, onePacket has failed; dropped, the channels are     *)
(* closed; ended, the connection too.                                      *)
(*                                                                         *)
(* The loop hands requests and channels to the application through Go      *)
(* channels of capacity ChanSize.  What it is still trying to send is kept *)
(* as the element beyond the capacity: until that is taken, the loop does  *)
(* not read, and closing the connection does not wake it.                  *)
(***************************************************************************)
EXTENDS SSHChannel

LOCAL INSTANCE Functions

CONSTANTS
    Opener,         \* the end that opens channels; the other one accepts
    Other,
    MaxChannels,    \* bound: channels opened
    ChanSize,       \* capacity of the Go channels between loop and application
    Callers,        \* goroutines of Opener that send a request with reply
    StrayPackets,
    Scenarios       \* bounds of a behaviour: channels opened, bytes written to a
                    \* channel by end and stream, callers, global requests, the
                    \* ends that may close, the number of stray packets, and which

ASSUME MuxAssumption ==
    Opener # Other /\ MaxChannels \in Nat \ {0} /\ ChanSize \in Nat \ {0}

\* "nobody" stands for no caller.
ASSUME CallersAssumption == "nobody" \notin Callers

Ends == {Opener, Other}

\* what any packet is once decoded: sizes are Width bits wide; -1 stands for a
\* MaxPacketSize that is out of range
Decoded(p) ==
    /\ p.win \in -1 .. 2 ^ Width - 1 /\ (p.win = -1 => p.t \in {"open", "confirm"})
    /\ p.x \in Streams /\ p.bytes \in Seq(Int)

ASSUME PacketsAssumption ==
    /\ \A p \in StrayPackets : Decoded(p)
    /\ \A s \in Scenarios, e \in Ends : s.write[e] \in [Streams -> Nat]

Peer(e) == IF e = Opener THEN Other ELSE Opener
Chans == 1 .. MaxChannels

VARIABLES
    scene,          \* the scenario
    wire,           \* packets on the way to an end
    conn,           \* "up", or "down" once this end has closed
    loop,
    slots,          \* chanList
    ch,             \* the channels of an end, in order of creation
    inChans,        \* incomingChannels
    call,           \* SendRequest on channel 1: idle, open, wait, ok, eof
    holder,         \* the caller that has sentRequestMu, or "nobody"
    answer,         \* history: the request whose reply a caller got
    gcall, gpend,   \* mux.SendRequest of Opener, and globalSentPending
    gresp, greqs,   \* globalResponses of Opener, incomingRequests of an end
    strays,
    late            \* history: channels created after dropAll

calls == <<call, holder, answer>>
global == <<gcall, gpend, gresp, greqs>>
history == <<scene, strays, late>>
vars == <<wire, conn, loop, slots, ch, inChans, calls, global, history>>

Pkt(t, to) == [t |-> t, to |-> to, id |-> 0, win |-> 0, x |-> 0, bytes |-> <<>>, tag |-> "none", from |-> 0]

Init ==
    /\ scene \in Scenarios
    /\ wire = [e \in Ends |-> <<>>] /\ conn = [e \in Ends |-> "up"]
    /\ loop = [e \in Ends |-> "run"]
    /\ slots = [e \in Ends |-> [i \in 0 .. MaxChannels - 1 |-> 0]]
    /\ ch = [e \in Ends |-> [o \in Chans |-> FreeChannel]]
    /\ inChans = [e \in Ends |-> <<>>]
    /\ call = [r \in Callers |-> "idle"] /\ holder = "nobody"
    /\ answer = [r \in Callers |-> r]
    /\ gcall = "idle" /\ gpend = FALSE /\ gresp = 0 /\ greqs = [e \in Ends |-> 0]
    /\ strays = 0 /\ late = {}

\* mux.sendMessage; a packet for an end that has closed is lost
Sends(e, ps) == wire' = IF conn[e] = "up" /\ conn[Peer(e)] = "up"
                        THEN [wire EXCEPT ![Peer(e)] = @ \o ps] ELSE wire

\* channel.writePacket refuses once a close was sent
MaySend(e, o) == ~ch[e][o].sentClose /\ conn[e] = "up"
ChanSends(e, o, p) == Sends(e, IF MaySend(e, o) THEN <<p>> ELSE <<>>)

-----------------------------------------------------------------------------
(* Opening                                                                 *)

FirstFree(e, o) == ch[e][o].st = "free" /\ \A q \in Chans : ch[e][q].st = "free" => o <= q
HasFresh(e) == \E o \in Chans : FirstFree(e, o)
Fresh(e) == CHOOSE o \in Chans : FirstFree(e, o)

\* chanList.add: the first free slot
FreeSlot(e) == CHOOSE i \in DOMAIN slots[e] : /\ slots[e][i] = 0
                                              /\ \A j \in DOMAIN slots[e] : slots[e][j] = 0 => i <= j

NewChannel(e, state) == [FreeChannel EXCEPT !.st = state, !.id = FreeSlot(e), !.left = scene.write[e]]

\* openChannel up to its wait
OpenChannel ==
    /\ HasFresh(Opener) /\ Fresh(Opener) <= scene.opens
    /\ LET e == Opener  o == Fresh(e)  c == NewChannel(e, "opening") IN
        /\ slots' = [slots EXCEPT ![e][c.id] = o]
        /\ ch' = [ch EXCEPT ![e][o] = IF conn[e] = "up" THEN c ELSE [c EXCEPT !.st = "failed"]]
        /\ Sends(e, <<[Pkt("open", 0) EXCEPT !.id = c.id, !.win = WindowSize, !.from = o]>>)
        /\ late' = IF loop[e] \in {"dropped", "ended"} THEN late \cup {o} ELSE late
    /\ UNCHANGED <<conn, loop, inChans, calls, global, strays, scene>>

\* ... and its end: confirmed, refused, or the channel was closed
OpenReturns(o) ==
    LET c == ch[Opener][o] IN
    /\ c.st = "opening" /\ (c.msg # <<>> \/ c.closed)
    /\ ch' = [ch EXCEPT ![Opener][o] =
                IF c.msg # <<>> /\ Head(c.msg) = "confirm" THEN [c EXCEPT !.st = "open", !.msg = <<>>]
                ELSE [c EXCEPT !.st = "failed", !.msg = <<>>]]
    /\ UNCHANGED <<wire, conn, loop, slots, inChans, calls, global, history>>

\* Accept (its confirmation may fail: then the application has no channel)
Accept(e) ==
    /\ inChans[e] # <<>>
    /\ LET o == Head(inChans[e])  c == ch[e][o] IN
        /\ ch' = [ch EXCEPT ![e][o].decided = TRUE,
                            ![e][o].st = IF MaySend(e, o) THEN "open" ELSE "failed"]
        /\ ChanSends(e, o, [Pkt("confirm", c.rid) EXCEPT !.id = c.id, !.win = c.myWin, !.from = o])
    /\ inChans' = [inChans EXCEPT ![e] = Tail(@)]
    /\ UNCHANGED <<conn, loop, slots, calls, global, history>>

Reject(e) ==
    /\ inChans[e] # <<>>
    /\ LET o == Head(inChans[e]) IN
        /\ ch' = [ch EXCEPT ![e][o].decided = TRUE, ![e][o].st = "rejected"]
        /\ ChanSends(e, o, Pkt("failure", ch[e][o].rid))
        /\ slots' = [slots EXCEPT ![e][ch[e][o].id] = 0]
    /\ inChans' = [inChans EXCEPT ![e] = Tail(@)]
    /\ UNCHANGED <<conn, loop, calls, global, history>>

-----------------------------------------------------------------------------
(* Writing and reading                                                     *)

\* Mutant: what is reserved is not taken off the window.
ReserveUncharged(e, o, x) ==
    LET c == ch[e][o] IN
    /\ c.st = "open" /\ c.left[x] > 0 /\ c.hold[x] = 0 /\ ~c.sentEOF
    /\ c.rWin > 0 \/ c.closed
    /\ ch' = [ch EXCEPT ![e][o] =
                IF c.closed THEN [c EXCEPT !.left[x] = 0] ELSE [c EXCEPT !.hold[x] = Space(c, x)]]
    /\ UNCHANGED <<wire, conn, loop, slots, inChans, calls, global, history>>

\* WriteExtended, first half: wait for window and reserve it.  A write that is
\* refused gives up what is left.
Reserve(e, o, x) ==
    LET c == ch[e][o] IN
    /\ c.st = "open" /\ c.left[x] > 0 /\ c.hold[x] = 0 /\ ~c.sentEOF
    /\ c.rWin > 0 \/ c.closed
    /\ ch' = [ch EXCEPT ![e][o] =
                IF c.closed THEN [c EXCEPT !.left[x] = 0]
                ELSE [c EXCEPT !.hold[x] = Space(c, x), !.rWin = @ - Space(c, x)]]
    /\ UNCHANGED <<wire, conn, loop, slots, inChans, calls, global, history>>

\* the numbers of the bytes that are reserved
Bytes(e, c, x) == [i \in 1 .. c.hold[x] |-> scene.write[e][x] - c.left[x] + i]

\* Mutant: the slice is not moved on after a packet.
WriteDataAgain(e, o, x) ==
    LET c == ch[e][o] IN
    /\ c.hold[x] > 0
    /\ ChanSends(e, o, [Pkt("data", c.rid) EXCEPT !.x = x, !.bytes = [i \in 1 .. c.hold[x] |-> i]])
    /\ ch' = [ch EXCEPT ![e][o] =
                [c EXCEPT !.left[x] = IF MaySend(e, o) THEN @ - c.hold[x] ELSE 0,
                          !.hold[x] = 0,
                          !.out[x] = IF MaySend(e, o) THEN @ + c.hold[x] ELSE @]]
    /\ UNCHANGED <<conn, loop, slots, inChans, calls, global, history>>

\* second half: the packet
WriteData(e, o, x) ==
    LET c == ch[e][o] IN
    /\ c.hold[x] > 0
    /\ ChanSends(e, o, [Pkt("data", c.rid) EXCEPT !.x = x, !.bytes = Bytes(e, c, x)])
    /\ ch' = [ch EXCEPT ![e][o] =
                [c EXCEPT !.left[x] = IF MaySend(e, o) THEN @ - c.hold[x] ELSE 0,
                          !.hold[x] = 0,
                          !.out[x] = IF MaySend(e, o) THEN @ + c.hold[x] ELSE @]]
    /\ UNCHANGED <<conn, loop, slots, inChans, calls, global, history>>

\* CloseWrite, by an application that has written everything
CloseWrite(e, o) ==
    /\ e \in scene.closers /\ ch[e][o].st = "open" /\ ~ch[e][o].sentEOF
    /\ \A x \in Streams : ch[e][o].left[x] = 0
    /\ ch' = [ch EXCEPT ![e][o].sentEOF = TRUE]
    /\ ChanSends(e, o, Pkt("eof", ch[e][o].rid))
    /\ UNCHANGED <<conn, loop, slots, inChans, calls, global, history>>

\* Close; later writes are refused, the end stays in the list
Close(e, o) ==
    /\ e \in scene.closers /\ ch[e][o].st = "open" /\ ~ch[e][o].sentClose
    /\ ch' = [ch EXCEPT ![e][o].sentClose = TRUE]
    /\ ChanSends(e, o, Pkt("close", ch[e][o].rid))
    /\ UNCHANGED <<conn, loop, slots, inChans, calls, global, history>>

\* ReadExtended, and the window that it frees
Read(e, o, x) ==
    LET c == ch[e][o]  n == Len(c.buf[x]) IN
    /\ c.st = "open" /\ n > 0
    /\ ch' = [ch EXCEPT ![e][o] = [Consumed(c, n) EXCEPT !.buf[x] = <<>>, !.got[x] = @ \o c.buf[x]]]
    /\ IF Raise(c, n) = 0 THEN UNCHANGED wire
       ELSE ChanSends(e, o, [Pkt("adjust", c.rid) EXCEPT !.win = Raise(c, n)])
    /\ UNCHANGED <<conn, loop, slots, inChans, calls, global, history>>

-----------------------------------------------------------------------------
(* Requests on Opener's first channel                                      *)

\* SendRequest: sentRequestMu, the gate, the drain
CallBegins(r) ==
    /\ r \in scene.callers /\ ch[Opener][1].st = "open" /\ call[r] = "idle" /\ holder = "nobody"
    /\ holder' = r /\ call' = [call EXCEPT ![r] = "open"]
    /\ ch' = [ch EXCEPT ![Opener][1].pend = TRUE, ![Opener][1].msg = <<>>]
    /\ UNCHANGED <<wire, conn, loop, slots, inChans, answer, global, history>>

CallSends(r) ==
    /\ call[r] = "open"
    /\ ChanSends(Opener, 1, [Pkt("request", ch[Opener][1].rid) EXCEPT !.tag = r])
    /\ IF MaySend(Opener, 1)
       THEN /\ call' = [call EXCEPT ![r] = "wait"]
            /\ UNCHANGED <<holder, ch>>
       ELSE /\ call' = [call EXCEPT ![r] = "eof"] /\ holder' = "nobody"
            /\ ch' = [ch EXCEPT ![Opener][1].pend = FALSE]
    /\ UNCHANGED <<conn, loop, slots, inChans, answer, global, history>>

CallReturns(r) ==
    LET c == ch[Opener][1] IN
    /\ call[r] = "wait" /\ (c.msg # <<>> \/ c.closed)
    /\ IF c.msg # <<>>
       THEN /\ call' = [call EXCEPT ![r] = "ok"] /\ answer' = [answer EXCEPT ![r] = Head(c.msg)]
            /\ ch' = [ch EXCEPT ![Opener][1].msg = Tail(@), ![Opener][1].pend = FALSE]
       ELSE /\ call' = [call EXCEPT ![r] = "eof"]
            /\ ch' = [ch EXCEPT ![Opener][1].pend = FALSE]
            /\ UNCHANGED answer
    /\ holder' = "nobody"
    /\ UNCHANGED <<wire, conn, loop, slots, inChans, global, history>>

\* the application serves the requests of a channel in order: Reply
Serve(e, o) ==
    /\ ch[e][o].st = "open" /\ ch[e][o].reqs # <<>>
    /\ ChanSends(e, o, [Pkt("reply", ch[e][o].rid) EXCEPT !.tag = Head(ch[e][o].reqs)])
    /\ ch' = [ch EXCEPT ![e][o].reqs = Tail(@)]
    /\ UNCHANGED <<conn, loop, slots, inChans, calls, global, history>>

\* mux.SendRequest, the same without a channel (globalSentMu is not contended
\* by one caller)
GlobalBegins ==
    /\ scene.global /\ gcall = "idle"
    /\ gcall' = "open" /\ gpend' = TRUE /\ gresp' = 0
    /\ UNCHANGED <<wire, conn, loop, slots, ch, inChans, calls, greqs, history>>

GlobalSends ==
    /\ gcall = "open"
    /\ Sends(Opener, <<Pkt("global", 0)>>)
    /\ gcall' = IF conn[Opener] = "up" THEN "wait" ELSE "eof"
    /\ gpend' = (conn[Opener] = "up")
    /\ UNCHANGED <<conn, loop, slots, ch, inChans, calls, gresp, greqs, history>>

GlobalReturns ==
    /\ gcall = "wait" /\ (gresp > 0 \/ loop[Opener] \in {"dropped", "ended"})
    /\ gcall' = IF gresp > 0 THEN "ok" ELSE "eof"
    /\ gpend' = FALSE /\ gresp' = 0
    /\ UNCHANGED <<wire, conn, loop, slots, ch, inChans, calls, greqs, history>>

ServeGlobal ==
    /\ \E e \in Ends :
        /\ greqs[e] > 0
        /\ greqs' = [greqs EXCEPT ![e] = @ - 1]
        /\ Sends(e, <<Pkt("greply", 0)>>)
    /\ UNCHANGED <<conn, loop, slots, ch, inChans, calls, gcall, gpend, gresp, history>>

-----------------------------------------------------------------------------
(* The loop over incoming packets                                          *)

Next1(e) == Head(wire[e])

\* the loop is in a send to a Go channel that is full
Blocked(e) ==
    \/ Len(inChans[e]) > ChanSize \/ greqs[e] > ChanSize
    \/ \E o \in Chans : Len(ch[e][o].reqs) > ChanSize

Running(e, t) == loop[e] = "run" /\ conn[e] = "up" /\ wire[e] # <<>> /\ Next1(e).t = t /\ ~Blocked(e)
Pop(e) == [wire EXCEPT ![e] = Tail(@)]

\* the packet is taken from e's wire, and ps go back
PopAndSend(e, ps) ==
    wire' = [wire EXCEPT ![e] = Tail(@),
                         ![Peer(e)] = IF conn[Peer(e)] = "up" THEN @ \o ps ELSE @]

\* onePacket returns an error
Fails(e) == loop' = [loop EXCEPT ![e] = "err"]
            /\ wire' = Pop(e) /\ UNCHANGED <<ch, slots>>

\* the channel an incoming packet is for: getChan
Target(e) == LET i == Next1(e).to IN IF i \in DOMAIN slots[e] THEN slots[e][i] ELSE 0

\* the channel is in the list before the application has room for it
RecvOpen(e) ==
    /\ Running(e, "open")
    /\ \/ /\ Next1(e).win = -1      \* MaxPacketSize out of range
          /\ PopAndSend(e, <<Pkt("failure", Next1(e).id)>>)
          /\ UNCHANGED <<ch, slots, inChans>>
       \/ /\ Next1(e).win >= 0 /\ HasFresh(e)
          /\ LET o == Fresh(e)  c == NewChannel(e, "asked") IN
             /\ ch' = [ch EXCEPT ![e][o] = [c EXCEPT !.rid = Next1(e).id, !.rWin = Next1(e).win,
                                                     !.pair = Next1(e).from]]
             /\ slots' = [slots EXCEPT ![e][c.id] = o]
             /\ inChans' = [inChans EXCEPT ![e] = Append(@, o)]
          /\ wire' = Pop(e)
    /\ UNCHANGED <<conn, loop, calls, global, history>>

\* packets for no channel: a request is answered, anything else is an error
RecvUnknown(e) ==
    /\ loop[e] = "run" /\ conn[e] = "up" /\ wire[e] # <<>> /\ ~Blocked(e)
    /\ Next1(e).t \notin {"open", "ping", "global", "greply"} /\ Target(e) = 0
    /\ \/ /\ Next1(e).t = "request"
          /\ PopAndSend(e, <<Pkt("reply", Next1(e).to)>>) /\ UNCHANGED <<loop, ch, slots>>
       \/ Next1(e).t # "request" /\ Fails(e)
    /\ UNCHANGED <<conn, inChans, calls, global, history>>

RecvPing(e) ==
    /\ Running(e, "ping")
    /\ PopAndSend(e, <<Pkt("pong", -1)>>)
    /\ UNCHANGED <<conn, loop, slots, ch, inChans, calls, global, history>>

\* handleGlobalPacket: a request is queued, a reply needs a waiting call and
\* room, or is dropped
RecvGlobal(e) ==
    /\ \/ Running(e, "global") /\ greqs' = [greqs EXCEPT ![e] = @ + 1] /\ UNCHANGED gresp
       \/ /\ Running(e, "greply")
          /\ gresp' = IF e = Opener /\ gpend THEN 1 ELSE gresp
          /\ UNCHANGED greqs
    /\ wire' = Pop(e)
    /\ UNCHANGED <<conn, loop, slots, ch, inChans, calls, gcall, gpend, history>>

\* an answer to openChannel: only one, and only for a channel opened here
OpenAnswer(e) ==
    /\ Running(e, "confirm") \/ Running(e, "failure")
    /\ Target(e) # 0
    /\ LET o == Target(e)  c == ch[e][o]  p == Next1(e) IN
       \/ (c.decided \/ c.st = "asked" \/ (p.t = "confirm" /\ p.win = -1)) /\ Fails(e)
       \/ /\ ~c.decided /\ c.st # "asked" /\ Len(c.msg) < ChanSize
          /\ \/ /\ p.t = "confirm" /\ p.win >= 0
                /\ ch' = [ch EXCEPT ![e][o] =
                            [c EXCEPT !.decided = TRUE, !.rid = p.id, !.rWin = AddWindow(@, p.win),
                                      !.msg = Append(@, p.t), !.pair = p.from]]
                /\ UNCHANGED slots
             \/ /\ p.t = "failure"
                /\ ch' = [ch EXCEPT ![e][o] = [c EXCEPT !.decided = TRUE, !.msg = Append(@, p.t)]]
                /\ slots' = [slots EXCEPT ![e][c.id] = 0]
          /\ wire' = Pop(e) /\ UNCHANGED loop
    /\ UNCHANGED <<conn, inChans, calls, global, history>>

RecvData(e) ==
    /\ Running(e, "data") /\ Target(e) # 0
    /\ LET o == Target(e)  c == ch[e][o]  p == Next1(e)  n == Len(p.bytes)
           back == IF p.x \in Buffered \/ n = 0 \/ c.sentClose THEN 0
                   ELSE Raise([c EXCEPT !.myWin = @ - n], n)
       IN
       \/ ~DataFits(c, n) /\ Fails(e)
       \/ /\ DataFits(c, n)
          /\ ch' = [ch EXCEPT ![e][o] = TakeData(c, p.x, p.bytes)]
          /\ PopAndSend(e, IF back = 0 THEN <<>> ELSE <<[Pkt("adjust", c.rid) EXCEPT !.win = back]>>)
          /\ UNCHANGED <<loop, slots>>
    /\ UNCHANGED <<conn, inChans, calls, global, history>>

RecvAdjust(e) ==
    /\ Running(e, "adjust") /\ Target(e) # 0
    /\ LET o == Target(e)  n == Next1(e).win IN
       \/ ~WindowFits(ch[e][o].rWin, n) /\ Fails(e)
       \/ /\ WindowFits(ch[e][o].rWin, n)
          /\ ch' = [ch EXCEPT ![e][o].rWin = @ + n]
          /\ wire' = Pop(e) /\ UNCHANGED <<loop, slots>>
    /\ UNCHANGED <<conn, inChans, calls, global, history>>

RecvEOF(e) ==
    /\ Running(e, "eof") /\ Target(e) # 0
    /\ ch' = [ch EXCEPT ![e][Target(e)].eof = TRUE]
    /\ wire' = Pop(e)
    /\ UNCHANGED <<conn, loop, slots, inChans, calls, global, history>>

\* Mutant: the channel stays in the list.
RecvCloseKept(e) ==
    /\ Running(e, "close") /\ Target(e) # 0
    /\ LET o == Target(e)  c == ch[e][o] IN
        /\ PopAndSend(e, IF c.sentClose THEN <<>> ELSE <<Pkt("close", c.rid)>>)
        /\ ch' = [ch EXCEPT ![e][o] = CloseChannel(c)]
    /\ UNCHANGED <<slots, conn, loop, inChans, calls, global, history>>

\* a close is answered by one, unless that was sent before
RecvClose(e) ==
    /\ Running(e, "close") /\ Target(e) # 0
    /\ LET o == Target(e)  c == ch[e][o] IN
        /\ PopAndSend(e, IF c.sentClose THEN <<>> ELSE <<Pkt("close", c.rid)>>)
        /\ slots' = [slots EXCEPT ![e][c.id] = 0]
        /\ ch' = [ch EXCEPT ![e][o] = CloseChannel(c)]
    /\ UNCHANGED <<conn, loop, inChans, calls, global, history>>

\* whoever has the channel, and whether anybody does: the loop waits with a
\* request the queue has no room for
RecvRequest(e) ==
    /\ Running(e, "request") /\ Target(e) # 0
    /\ ch' = [ch EXCEPT ![e][Target(e)].reqs = Append(@, Next1(e).tag)]
    /\ wire' = Pop(e)
    /\ UNCHANGED <<conn, loop, slots, inChans, calls, global, history>>

\* ... but never for a reply: kept only while a call waits and there is room
RecvReply(e) ==
    /\ Running(e, "reply") /\ Target(e) # 0
    /\ LET c == ch[e][Target(e)] IN
        ch' = IF c.pend /\ Len(c.msg) < ChanSize
              THEN [ch EXCEPT ![e][Target(e)].msg = Append(@, Next1(e).tag)] ELSE ch
    /\ wire' = Pop(e)
    /\ UNCHANGED <<conn, loop, slots, inChans, calls, global, history>>

-----------------------------------------------------------------------------
(* The end of the connection                                               *)

\* the peer has closed and everything was read, or this end has closed, and the
\* loop is back at its read
ReadFails(e) ==
    /\ loop[e] = "run" /\ ~Blocked(e)
    /\ conn[e] = "down" \/ (wire[e] = <<>> /\ conn[Peer(e)] = "down")
    /\ loop' = [loop EXCEPT ![e] = "err"]
    /\ UNCHANGED <<wire, conn, slots, ch, inChans, calls, global, history>>

\* dropAll and close of every channel in the list
DropAll(e) ==
    /\ loop[e] = "err"
    /\ loop' = [loop EXCEPT ![e] = "dropped"]
    /\ ch' = [ch EXCEPT ![e] = [o \in Chans |-> IF \E i \in DOMAIN slots[e] : slots[e][i] = o
                                                THEN CloseChannel(ch[e][o]) ELSE ch[e][o]]]
    /\ slots' = [slots EXCEPT ![e] = [i \in DOMAIN slots[e] |-> 0]]
    /\ UNCHANGED <<wire, conn, inChans, calls, global, history>>

CloseConn(e) ==
    /\ \/ loop[e] = "dropped" /\ loop' = [loop EXCEPT ![e] = "ended"]
       \/ loop[e] = "run" /\ conn[e] = "up" /\ e \in scene.closers    \* mux.Close, at any time
          /\ UNCHANGED loop
    /\ conn' = [conn EXCEPT ![e] = "down"]
    /\ wire' = [wire EXCEPT ![e] = <<>>]
    /\ UNCHANGED <<slots, ch, inChans, calls, global, history>>

Stray(e) ==
    /\ strays < scene.strays /\ conn[e] = "up"
    /\ \E p \in StrayPackets \cap scene.stray : wire' = [wire EXCEPT ![e] = Append(@, p)]
    /\ strays' = strays + 1
    /\ UNCHANGED <<conn, loop, slots, ch, inChans, calls, global, late, scene>>

Loop(e) ==
    \/ RecvOpen(e) \/ RecvGlobal(e) \/ RecvUnknown(e) \/ RecvPing(e) \/ OpenAnswer(e) \/ RecvData(e)
    \/ RecvAdjust(e) \/ RecvEOF(e) \/ RecvClose(e) \/ RecvRequest(e) \/ RecvReply(e)
    \/ ReadFails(e) \/ DropAll(e) \/ (loop[e] = "dropped" /\ CloseConn(e))

Writer(e, o, x) == Reserve(e, o, x) \/ WriteData(e, o, x)

Caller(r) == CallBegins(r) \/ CallSends(r) \/ CallReturns(r)

Next ==
    \/ OpenChannel
    \/ \E o \in Chans : OpenReturns(o)
    \/ \E r \in Callers : Caller(r)
    \/ GlobalBegins \/ GlobalSends \/ GlobalReturns \/ ServeGlobal
    \/ \E e \in Ends :
        \/ Loop(e) \/ Accept(e) \/ Reject(e) \/ CloseConn(e) \/ Stray(e)
        \/ \E o \in Chans :
            \/ CloseWrite(e, o) \/ Close(e, o) \/ Serve(e, o)
            \/ \E x \in Streams : Writer(e, o, x)
            \/ \E x \in Buffered : Read(e, o, x)

\* What goes on by itself: the loops, calls in progress, and application
\* goroutines that read, serve requests and accept as the library demands;
\* nobody need open, close or send anything.  A behaviour has finitely many
\* steps (every bound is finite), so fairness of the whole is fairness of each.
Progress ==
    \/ \E o \in Chans : OpenReturns(o)
    \/ \E r \in Callers : CallSends(r) \/ CallReturns(r)
    \/ GlobalSends \/ GlobalReturns \/ ServeGlobal
    \/ \E e \in Ends :
        \/ Loop(e) \/ Accept(e) \/ Reject(e)
        \/ \E o \in Chans :
            \/ Serve(e, o)
            \/ \E x \in Streams : Writer(e, o, x)
            \/ \E x \in Buffered : Read(e, o, x)

Spec == Init /\ [][Next]_vars /\ WF_vars(Progress)

-----------------------------------------------------------------------------
\* Bytes, and window, on the way from one end to channel o of the other
Total(f) == FoldFunction(+, 0, f)

OnTheWay(e, i, t) ==
    LET w == wire[e] IN
    Total([k \in DOMAIN w |-> IF w[k].t = t /\ w[k].to = i
                              THEN (IF t = "data" THEN Len(w[k].bytes) ELSE w[k].win) ELSE 0])

Live(e, o) == LET c == ch[e][o] IN c.st = "open" /\ ~c.sentClose /\ ~c.closed /\ loop[e] = "run"
                                   /\ conn[e] = "up"

\* adjustWindow ("myConsumed and myWindow ... can never exceed the initial window
\* setting, we don't worry about overflow"), handleData: what the peer may send,
\* what is buffered and what was read but not yet told add up to the initial
\* window, so that no peer can make an end buffer more; and its window updates,
\* however large, never wrap remoteWin.
WindowsKept ==
    \A e \in Ends, o \in Chans :
        LET c == ch[e][o] IN
        /\ c.myWin >= 0 /\ c.myCons >= 0 /\ c.rWin \in 0 .. 2 ^ Width - 1
        /\ c.myWin + c.myCons + Len(c.buf[0]) + Len(c.buf[1]) = WindowSize

\* chanList, channel.close: a packet finds the channel of its number, and never
\* one that is closed: its Go channels are, and a send on them panics.
ListedOpen ==
    \A e \in Ends : \A i \in DOMAIN slots[e] :
        slots[e][i] # 0 => LET c == ch[e][slots[e][i]] IN c.id = i /\ ~c.closed /\ c.st # "free"

\* The loop and its channels withstand any packets, also those of a peer that
\* does not keep to the protocol.
ChannelsSound == WindowsKept /\ ListedOpen

\* channel.go (reserve, handleData, adjustWindow): on a channel that is open at
\* both ends, what the writer may send, has reserved or has sent, and what the
\* reader has granted but not yet told, add up to the reader's window.  So a
\* writer never overruns the window, and none of it is lost.
WindowsAgree ==
    strays = 0 =>
    /\ \A e \in Ends, o \in Chans :
        LET c == ch[e][o]  f == Peer(e)  q == c.pair  d == ch[f][q] IN
        Live(e, o) /\ q # 0 /\ Live(f, q) /\ d.pair = o =>
            c.rWin + Total(c.hold)
                  + OnTheWay(f, d.id, "data") + OnTheWay(e, c.id, "adjust") = d.myWin
    /\ \A e \in Ends : loop[e] = "err" => \E f \in Ends : conn[f] = "down"

\* What is read on a stream is what was written to it, from the first byte on,
\* in order; when the stream ends while the connection lives, it is all that
\* was written.  A request gets the reply to itself, not another's.
DeliveredInOrder ==
    strays = 0 =>
    /\ \A e \in Ends, o \in Chans, x \in Buffered :
        LET c == ch[e][o]  s == c.got[x] \o c.buf[x]
            w == ch[Peer(e)][c.pair]
        IN  /\ s = [i \in 1 .. Len(s) |-> i]
            /\ c.pair # 0 /\ c.eof /\ loop[e] = "run" /\ conn[e] = "up" => Len(s) = w.out[x]
    /\ \A r \in Callers : answer[r] = r

\* Requests of a channel that nobody has fill its queue, and e's loop waits
\* there for good: the application never got the channel, or turned it down.
Jammed(e) ==
    \E o \in Chans : /\ ch[e][o].st \in {"opening", "failed", "rejected"}
                      /\ Len(ch[e][o].reqs) > ChanSize

\* Reject, on a channel that the peer has closed before, takes the number away
\* from the channel that has it since: no packet, and no dropAll, finds that one.
Disowned(e, o) == ~ch[e][o].closed /\ \A i \in DOMAIN slots[e] : slots[e][i] # o

\* mux.go, channel.go: what e's application waits for
Returned(e) ==
    /\ e = Opener =>
        /\ \A o \in Chans : ch[e][o].st = "opening" => o \in late
        /\ gcall # "wait" /\ \A r \in Callers : call[r] # "wait"
    /\ \A o \in Chans, x \in Streams :
        ch[e][o].st = "open" =>
            ch[e][o].left[x] = 0 \/ ch[e][o].sentEOF \/ (strays > 0 /\ Disowned(e, o))

\* Every call that waits for the loop returns, whether the peer answers, closes
\* the channel or the connection is lost, whatever stray replies there were, and
\* however full the queues between loop and application get - except an
\* OpenChannel that comes between dropAll and the close.  It takes a peer that
\* does not keep to the protocol to leave a call waiting: by filling the queue
\* of a channel nobody has (closing the connection helps the other end then, not
\* the one whose loop is stuck), or by closing a channel before it is rejected.
CallsReturn ==
    <>[]\A e \in Ends :
        Returned(e) \/ (strays > 0 /\ (Jammed(e) \/ (Jammed(Peer(e)) /\ conn[e] = "up")))
=============================================================================
