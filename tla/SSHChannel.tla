------------------------------ MODULE SSHChannel -----------------------------
(***************************************************************************)
(* One end of an SSH channel (third/ssh/channel.go), as a record:          *)
(*   st       free, opening, asked (opened by the peer), open, failed,     *)
(*            rejected                                                     *)
(*   decided  confirmed or rejected                                        *)
(*   id, rid  localId and remoteId                                         *)
(*   myWin, myCons      what the peer may still send; what was consumed    *)
(*                      since that was last raised                         *)
(*   rWin     remoteWin                                                    *)
(*   sentEOF, sentClose, closed (close has run)                            *)
(*   buf, eof           the two buffers, by stream: byte numbers           *)
(*   got      history: the byte numbers the application has read           *)
(*   msg      replies from the mux loop to a waiting call                  *)
(*   reqs     requests of the peer                                         *)
(*   pend     sentRequestPending                                           *)
(*   left, hold         bytes the application has still to write, and of   *)
(*                      them those for which window is reserved            *)
(*   out      history: bytes sent                                          *)
(*   pair     history: the peer's end                                      *)
(* Payload is abstracted to the numbers of its bytes.  Stream 2 stands for *)
(* extended data other than stderr, which is discarded.                    *)
(***************************************************************************)
EXTENDS Integers, Sequences

CONSTANTS
    WindowSize,     \* channelWindowSize
    MaxPacket,      \* channelMaxPacket
    Width           \* bits of a window (32 in the code)

ASSUME WindowAssumption ==
    /\ MaxPacket \in Nat \ {0} /\ WindowSize \in Nat /\ 2 ^ Width \in Nat
    /\ WindowSize >= MaxPacket /\ WindowSize < 2 ^ Width

Streams == {0, 1, 2}
Buffered == {0, 1}

FreeChannel ==
    [st |-> "free", decided |-> FALSE, id |-> 0, rid |-> 0,
     myWin |-> WindowSize, myCons |-> 0, rWin |-> 0,
     sentEOF |-> FALSE, sentClose |-> FALSE, closed |-> FALSE,
     buf |-> [x \in Buffered |-> <<>>], got |-> [x \in Buffered |-> <<>>], eof |-> FALSE,
     msg |-> <<>>, reqs |-> <<>>, pend |-> FALSE,
     left |-> [x \in Streams |-> 0], hold |-> [x \in Streams |-> 0],
     out |-> [x \in Streams |-> 0], pair |-> 0]

MinOf(a, b) == IF a < b THEN a ELSE b

\* window.add: an addition that wraps is refused
WindowFits(w, n) == n = 0 \/ (w + n) % 2 ^ Width >= n

AddWindow(w, n) == IF WindowFits(w, n) THEN w + n ELSE w

\* Mutant: the window is announced only once it is all used up and read.
RaiseDueLate(c) == c.myWin < 0

\* adjustWindow: enough of the window is gone to tell the peer
RaiseDue(c) == WindowSize - c.myWin > 3 * MaxPacket \/ c.myWin < WindowSize \div 2

\* the message to send (0: none), and the channel after it
Raise(c, n) == IF RaiseDue(c) THEN c.myCons + n ELSE 0

Consumed(c, n) ==
    IF RaiseDue(c) THEN [c EXCEPT !.myWin = @ + c.myCons + n, !.myCons = 0]
    ELSE [c EXCEPT !.myCons = @ + n]

\* close, for a channel of the mux's list: once
CloseChannel(c) ==
    [c EXCEPT !.closed = TRUE, !.eof = TRUE, !.sentClose = TRUE]

\* WriteExtended: how much of stream x goes into the next packet
Space(c, x) == MinOf(MinOf(MaxPacket, c.left[x]), c.rWin)

\* handleData: too much for the window ends the connection
DataFits(c, n) == n <= MaxPacket /\ n <= c.myWin

\* Data of other streams is discarded, and consumed at once.
TakeData(c, x, bytes) ==
    LET d == [c EXCEPT !.myWin = @ - Len(bytes)] IN
    IF x \in Buffered THEN [d EXCEPT !.buf[x] = @ \o bytes]
    ELSE IF bytes = <<>> THEN c ELSE Consumed(d, Len(bytes))
=============================================================================
