------------------------------ MODULE MuxProofs ------------------------------
(***************************************************************************)
(* The channels of a connection withstand any packets (Mux): windows are   *)
(* kept, and the loop meets no closed channel.  Between two ends that keep *)
(* to the protocol, everything arrives, in order, and a request gets its   *)
(* own reply.                                                              *)
(***************************************************************************)
EXTENDS Mux, FiniteSetTheorems, TLAPS

IsASeq(s) == \E S : s \in Seq(S)

LEMMA EmptySeq == IsASeq(<<>>) /\ DOMAIN <<>> = {}
<1>1. <<>> \in Seq({})
  OBVIOUS
<1> QED
  BY <1>1 DEF IsASeq

LEMMA SingleSeq ==
    ASSUME NEW p
    PROVE  IsASeq(<<p>>) /\ DOMAIN <<p>> = {1} /\ <<p>>[1] = p
<1>1. <<p>> \in Seq({p})
  OBVIOUS
<1>2. DOMAIN <<p>> = {1} /\ <<p>>[1] = p
  OBVIOUS
<1> QED
  BY <1>1, <1>2 DEF IsASeq

LEMMA ConcatSeq ==
    ASSUME NEW s, NEW t, IsASeq(s), IsASeq(t)
    PROVE  /\ IsASeq(s \o t)
           /\ \A i \in DOMAIN (s \o t) :
                \/ i \in DOMAIN s /\ (s \o t)[i] = s[i]
                \/ \E j \in DOMAIN t : (s \o t)[i] = t[j]
<1>1. PICK A, B : s \in Seq(A) /\ t \in Seq(B)
  BY DEF IsASeq
<1> PICK U : U = A \cup B
  OBVIOUS
<1>2. s \in Seq(U) /\ t \in Seq(U)
  BY <1>1
<1>3. s \o t \in Seq(U) /\ Len(s \o t) = Len(s) + Len(t)
  BY <1>2
<1>4. DOMAIN (s \o t) = 1 .. Len(s) + Len(t) /\ DOMAIN s = 1 .. Len(s) /\ DOMAIN t = 1 .. Len(t)
  BY <1>2, <1>3
<1>5. ASSUME NEW i \in DOMAIN (s \o t)
      PROVE  \/ i \in DOMAIN s /\ (s \o t)[i] = s[i]
             \/ \E j \in DOMAIN t : (s \o t)[i] = t[j]
  <2>1. CASE i <= Len(s)
    BY <1>2, <1>4, <1>5, <2>1
  <2>2. CASE i > Len(s)
    <3>1. i - Len(s) \in DOMAIN t /\ (s \o t)[i] = t[i - Len(s)]
      BY <1>2, <1>4, <1>5, <2>2
    <3> QED
      BY <3>1
  <2> QED
    BY <1>2, <1>4, <1>5, <2>1, <2>2
<1> QED
  BY <1>3, <1>5 DEF IsASeq

LEMMA TailSeq ==
    ASSUME NEW s, IsASeq(s), s # <<>>
    PROVE  /\ 1 \in DOMAIN s /\ Head(s) = s[1] /\ IsASeq(Tail(s))
           /\ \A i \in DOMAIN Tail(s) : i + 1 \in DOMAIN s /\ Tail(s)[i] = s[i + 1]
<1>1. PICK A : s \in Seq(A)
  BY DEF IsASeq
<1>2. 1 \in DOMAIN s /\ Head(s) = s[1] /\ Tail(s) \in Seq(A)
  BY <1>1
<1>3. \A i \in DOMAIN Tail(s) : i + 1 \in DOMAIN s /\ Tail(s)[i] = s[i + 1]
  BY <1>1
<1> QED
  BY <1>2, <1>3 DEF IsASeq

-----------------------------------------------------------------------------
(* The arithmetic of a window                                              *)

Limit == 2 ^ Width

LEMMA Sizes == Limit \in Nat /\ Limit > 0 /\ WindowSize \in Nat /\ WindowSize < Limit /\ MaxPacket \in Nat
  BY WindowAssumption DEF Limit

\* What add accepts does not wrap.
LEMMA Fits ==
    ASSUME NEW w \in 0 .. Limit - 1, NEW n \in 0 .. Limit - 1, WindowFits(w, n)
    PROVE  w + n \in 0 .. Limit - 1
<1>1. PICK l \in Nat : l = Limit /\ l > 0
  BY Sizes
<1>2. w + n < l
  <2> SUFFICES ASSUME w + n >= l PROVE FALSE
    BY <1>1
  <2>1. (w + n) % l = w + n - l
    BY <1>1, Z3
  <2>2. n = 0 \/ (w + n) % l >= n
    BY <1>1 DEF WindowFits, Limit
  <2> QED
    BY <1>1, <2>1, <2>2
<1> QED
  BY <1>1, <1>2

-----------------------------------------------------------------------------
(* One end of a channel                                                    *)

ChanFields == {"st", "decided", "id", "rid", "myWin", "myCons", "rWin", "sentEOF", "sentClose", "closed",
               "buf", "got", "eof", "msg", "reqs", "pend", "left", "hold", "out", "pair"}

\* what is buffered
Held(b) == Len(b[0]) + Len(b[1])

LEMMA HeldIs ==
    ASSUME NEW b, NEW l0 \in Nat, NEW l1 \in Nat, Len(b[0]) = l0, Len(b[1]) = l1
    PROVE  Held(b) = l0 + l1
  BY DEF Held

Sound(c) ==
    /\ DOMAIN c = ChanFields
    /\ c.myWin \in Nat /\ c.myCons \in Nat /\ c.rWin \in 0 .. Limit - 1
    /\ DOMAIN c.buf = Buffered /\ c.buf[0] \in Seq(Int) /\ c.buf[1] \in Seq(Int)
    /\ Held(c.buf) \in Nat /\ c.myWin + c.myCons + Held(c.buf) = WindowSize
    /\ DOMAIN c.left = Streams /\ DOMAIN c.hold = Streams
    /\ \A x \in Streams : c.left[x] \in Int /\ c.hold[x] \in Int

\* d differs from c only in what the windows do not depend on ...
Like(d, c) ==
    /\ DOMAIN d = ChanFields
    /\ d.myWin = c.myWin /\ d.myCons = c.myCons /\ d.rWin = c.rWin /\ d.buf = c.buf /\ d.left = c.left /\ d.hold = c.hold

\* ... and in what the list does not
Stays(d, c) == d.id = c.id /\ d.closed = c.closed /\ (c.st # "free" => d.st # "free")

LEMMA LikeSound == ASSUME NEW c, NEW d, Sound(c), Like(d, c) PROVE Sound(d)
  BY DEF Sound, Like

LEMMA FreeSound == Sound(FreeChannel)
<1>1. Len(<<>>) = 0 /\ <<>> \in Seq(Int)
  OBVIOUS
<1>2. Held(FreeChannel.buf) = 0
  <2>1. Len(FreeChannel.buf[0]) = 0 /\ Len(FreeChannel.buf[1]) = 0
    BY <1>1 DEF FreeChannel, Buffered
  <2> QED
    BY <2>1, HeldIs
<1> QED
  BY <1>1, <1>2, Sizes DEF Sound, FreeChannel, ChanFields, Buffered, Streams

\* adjustWindow
LEMMA ConsumedSound ==
    ASSUME NEW c, DOMAIN c = ChanFields, c.myWin \in Int, c.myCons \in Int, NEW n \in Nat
    PROVE  /\ DOMAIN Consumed(c, n) = ChanFields
           /\ Consumed(c, n).myWin + Consumed(c, n).myCons = c.myWin + c.myCons + n
           /\ Consumed(c, n).myWin \in Int /\ Consumed(c, n).myCons \in Int
           /\ c.myWin >= 0 /\ c.myCons >= 0 => Consumed(c, n).myWin >= 0 /\ Consumed(c, n).myCons >= 0
           /\ Consumed(c, n).rWin = c.rWin /\ Consumed(c, n).buf = c.buf /\ Consumed(c, n).left = c.left /\ Consumed(c, n).hold = c.hold
           /\ Consumed(c, n).got = c.got /\ Stays(Consumed(c, n), c)
           /\ Raise(c, n) \in {0, c.myCons + n}
<1>1. CASE RaiseDue(c)
  <2>1. Consumed(c, n) = [c EXCEPT !.myWin = @ + c.myCons + n, !.myCons = 0] /\ Raise(c, n) = c.myCons + n
    BY <1>1 DEF Consumed, Raise
  <2> QED
    BY <2>1 DEF ChanFields, Stays
<1>2. CASE ~RaiseDue(c)
  <2>1. Consumed(c, n) = [c EXCEPT !.myCons = @ + n] /\ Raise(c, n) = 0
    BY <1>2 DEF Consumed, Raise
  <2> QED
    BY <2>1 DEF ChanFields, Stays
<1> QED
  BY <1>1, <1>2


\* One of the two buffers is replaced.
LEMMA BufferLengths ==
    ASSUME NEW f, DOMAIN f = Buffered, f[0] \in Seq(Int), f[1] \in Seq(Int), NEW x \in Buffered,
           NEW g \in Seq(Int), NEW b, b[x] = g, \A y \in Buffered \ {x} : b[y] = f[y]
    PROVE  /\ b[0] \in Seq(Int) /\ b[1] \in Seq(Int)
           /\ Held(b) \in Nat /\ Len(f[x]) \in Nat /\ Len(g) \in Nat
           /\ Held(b) + Len(f[x]) = Held(f) + Len(g)
<1>1. f[0] \in Seq(Int) /\ f[1] \in Seq(Int) /\ g \in Seq(Int)
  OBVIOUS
<1>2. \A s \in Seq(Int) : Len(s) \in Nat
  OBVIOUS
<1>3. PICK l0 \in Nat : l0 = Len(f[0])
  BY <1>1, <1>2
<1>4. PICK l1 \in Nat : l1 = Len(f[1])
  BY <1>1, <1>2
<1>5. PICK lg \in Nat : lg = Len(g)
  BY <1>1, <1>2
<1>6. Held(f) = l0 + l1
  BY <1>3, <1>4, HeldIs
<1>7. CASE x = 0
  <2>1. b[0] = g /\ b[1] = f[1]
    BY <1>7 DEF Buffered
  <2>2. Len(b[0]) = lg /\ Len(b[1]) = l1 /\ Len(f[x]) = l0
    BY <1>3, <1>4, <1>5, <1>7, <2>1
  <2>3. Held(b) = lg + l1
    BY <2>2, HeldIs
  <2> QED
    BY <1>1, <1>5, <1>6, <2>1, <2>2, <2>3
<1>8. CASE x = 1
  <2>1. b[1] = g /\ b[0] = f[0]
    BY <1>8 DEF Buffered
  <2>2. Len(b[1]) = lg /\ Len(b[0]) = l0 /\ Len(f[x]) = l1
    BY <1>3, <1>4, <1>5, <1>8, <2>1
  <2>3. Held(b) = l0 + lg
    BY <2>2, HeldIs
  <2> QED
    BY <1>1, <1>5, <1>6, <2>1, <2>2, <2>3
<1> QED
  BY <1>7, <1>8 DEF Buffered

\* ReadExtended of all that is buffered
LEMMA ReadSound ==
    ASSUME NEW c, Sound(c), NEW x \in Buffered, NEW n, n = Len(c.buf[x]), NEW g,
           NEW d, d = [Consumed(c, n) EXCEPT !.buf[x] = <<>>, !.got[x] = @ \o g]
    PROVE  Sound(d) /\ Stays(d, c) /\ Raise(c, n) \in 0 .. Limit - 1
<1>b. DOMAIN c.buf = Buffered /\ c.buf[0] \in Seq(Int) /\ c.buf[1] \in Seq(Int)
  BY DEF Sound
<1> PICK b : b = [c.buf EXCEPT ![x] = <<>>]
  OBVIOUS
<1>3. /\ DOMAIN b = Buffered /\ b[0] \in Seq(Int) /\ b[1] \in Seq(Int)
      /\ Held(b) \in Nat /\ n \in Nat /\ Held(b) + n = Held(c.buf)
  <2>1. <<>> \in Seq(Int) /\ Len(<<>>) = 0
    OBVIOUS
  <2> PICK f : f = c.buf
    OBVIOUS
  <2>a. DOMAIN b = Buffered /\ b[x] = <<>> /\ \A y \in Buffered \ {x} : b[y] = f[y]
    BY <1>b
  <2>2. /\ b[0] \in Seq(Int) /\ b[1] \in Seq(Int)
        /\ Held(b) \in Nat /\ Len(f[x]) \in Nat
        /\ Held(b) + Len(f[x]) = Held(f) + Len(<<>>)
    <3>1. DOMAIN f = Buffered /\ f[0] \in Seq(Int) /\ f[1] \in Seq(Int) /\ <<>> \in Seq(Int) /\ x \in Buffered
      BY <1>b
    <3> QED
      BY ONLY <2>a, <3>1, BufferLengths, ZenonT(40)
  <2>3. Held(c.buf) \in Nat
    BY DEF Sound
  <2> QED
    BY <2>1, <2>a, <2>2, <2>3
<1>0. /\ DOMAIN c = ChanFields /\ c.myWin \in Nat /\ c.myCons \in Nat
      /\ Held(c.buf) \in Nat /\ c.myWin + c.myCons + Held(c.buf) = WindowSize
  BY DEF Sound
<1> PICK k : k = Consumed(c, n)
  OBVIOUS
<1>1. /\ DOMAIN k = ChanFields /\ k.myWin + k.myCons = c.myWin + c.myCons + n
      /\ k.myWin \in Nat /\ k.myCons \in Nat
      /\ k.rWin = c.rWin /\ k.buf = c.buf /\ k.left = c.left /\ k.hold = c.hold /\ Stays(k, c)
      /\ Raise(c, n) \in {0, c.myCons + n}
  <2>1. c.myWin \in Int /\ c.myCons \in Int /\ c.myWin >= 0 /\ c.myCons >= 0 /\ n \in Nat
    BY <1>0, <1>3
  <2>2. /\ DOMAIN k = ChanFields /\ k.myWin + k.myCons = c.myWin + c.myCons + n
        /\ k.myWin \in Int /\ k.myCons \in Int /\ k.myWin >= 0 /\ k.myCons >= 0
        /\ k.rWin = c.rWin /\ k.buf = c.buf /\ k.left = c.left /\ k.hold = c.hold /\ Stays(k, c)
        /\ Raise(c, n) \in {0, c.myCons + n}
    BY <1>0, <2>1, ConsumedSound, Zenon
  <2> QED
    BY <2>2
<1>2. /\ DOMAIN d = ChanFields /\ d.myWin = k.myWin /\ d.myCons = k.myCons /\ d.rWin = k.rWin
      /\ d.left = k.left /\ d.hold = k.hold /\ d.id = k.id /\ d.closed = k.closed /\ d.st = k.st /\ d.buf = b
  BY <1>1 DEF ChanFields
<1>5. d.myWin + d.myCons + Held(d.buf) = WindowSize
  BY <1>0, <1>1, <1>2, <1>3, SMTT(30)
<1>6. Sound(d)
  BY <1>1, <1>2, <1>3, <1>5 DEF Sound
<1>7. c.myCons + n \in 0 .. Limit - 1
  <2>1. c.myCons + n <= WindowSize
    <3> PICK w, m, h, i \in Nat : w = c.myWin /\ m = c.myCons /\ h = Held(c.buf) /\ i = Held(b)
      BY <1>0, <1>3
    <3> QED
      BY <1>0, <1>3, SMTT(30)
  <2> QED
    BY <1>0, <2>1, Sizes, SMTT(30)
<1> QED
  BY <1>1, <1>2, <1>6, <1>7, Sizes DEF Stays

\* handleData of data that fits
LEMMA TakeDataSound ==
    ASSUME NEW c, Sound(c), NEW x \in Streams, NEW bytes \in Seq(Int), DataFits(c, Len(bytes)),
           NEW d, d = TakeData(c, x, bytes)
    PROVE  /\ Sound(d) /\ Stays(d, c)
           /\ Raise([c EXCEPT !.myWin = @ - Len(bytes)], Len(bytes)) \in 0 .. Limit - 1
<1> PICK n \in Nat : n = Len(bytes)
  OBVIOUS
<1>0. /\ DOMAIN c = ChanFields /\ c.myWin \in Nat /\ c.myCons \in Nat /\ n <= c.myWin
      /\ c.buf[0] \in Seq(Int) /\ c.buf[1] \in Seq(Int) /\ DOMAIN c.buf = Buffered
      /\ Held(c.buf) \in Nat /\ c.myWin + c.myCons + Held(c.buf) = WindowSize
  BY DEF Sound, DataFits
<1> PICK k : k = [c EXCEPT !.myWin = @ - n]
  OBVIOUS
<1>1. /\ DOMAIN k = ChanFields /\ k.myWin = c.myWin - n /\ k.myCons = c.myCons /\ k.rWin = c.rWin
      /\ k.left = c.left /\ k.hold = c.hold /\ k.id = c.id /\ k.closed = c.closed /\ k.st = c.st /\ k.buf = c.buf
  BY <1>0 DEF ChanFields
<1>2. k.myWin \in Nat
  BY <1>0, <1>1
<1>3. Raise(k, n) \in 0 .. Limit - 1
  <2>1. Raise(k, n) \in {0, c.myCons + n}
    <3>1. k.myWin \in Int /\ k.myCons \in Int /\ n \in Nat
      BY <1>0, <1>1, <1>2
    <3>2. Raise(k, n) \in {0, k.myCons + n}
      BY <1>1, <3>1, ConsumedSound
    <3> QED
      BY <1>1, <3>2
  <2>2. c.myCons + n <= WindowSize
    BY <1>0
  <2> QED
    BY <1>0, <2>1, <2>2, Sizes
<1>4. CASE x \in Buffered
  <2> PICK b : b = [c.buf EXCEPT ![x] = @ \o bytes]
    OBVIOUS
  <2>1. d = [k EXCEPT !.buf[x] = @ \o bytes]
    BY <1>4 DEF TakeData
  <2>2. /\ DOMAIN d = ChanFields /\ d.myWin = k.myWin /\ d.myCons = k.myCons /\ d.rWin = k.rWin
        /\ d.left = k.left /\ d.hold = k.hold /\ d.id = k.id /\ d.closed = k.closed /\ d.st = k.st /\ d.buf = b
    BY <1>1, <2>1 DEF ChanFields
  <2>3. /\ DOMAIN b = Buffered /\ b[0] \in Seq(Int) /\ b[1] \in Seq(Int)
        /\ Held(b) \in Nat /\ Held(b) = Held(c.buf) + n
    <3> PICK f, g : f = c.buf[x] /\ g = f \o bytes
      OBVIOUS
    <3>1. f \in Seq(Int)
      BY <1>0, <1>4 DEF Buffered
    <3>2. g \in Seq(Int) /\ Len(g) = Len(f) + n /\ Len(f) \in Nat
      BY <3>1
    <3> PICK h : h = c.buf
      OBVIOUS
    <3>3. DOMAIN b = Buffered /\ b[x] = g /\ \A y \in Buffered \ {x} : b[y] = h[y]
      BY <1>0, <1>4
    <3>4. /\ b[0] \in Seq(Int) /\ b[1] \in Seq(Int)
          /\ Held(b) \in Nat /\ Held(b) + Len(f) = Held(h) + Len(g)
      <4>1. DOMAIN h = Buffered /\ h[0] \in Seq(Int) /\ h[1] \in Seq(Int) /\ x \in Buffered /\ f = h[x]
        BY <1>0, <1>4
      <4>2. /\ b[0] \in Seq(Int) /\ b[1] \in Seq(Int)
            /\ Held(b) \in Nat /\ Held(b) + Len(h[x]) = Held(h) + Len(g)
        <5>1. g \in Seq(Int)
          BY <3>2
        <5> QED
          BY ONLY <3>3, <4>1, <5>1, BufferLengths
      <4> QED
        BY <4>1, <4>2
    <3> QED
      <4> PICK lf, hb, hh \in Nat : lf = Len(f) /\ hb = Held(b) /\ hh = Held(h)
        BY <1>0, <3>2, <3>4
      <4>1. hb + lf = hh + (lf + n)
        BY <3>2, <3>4
      <4>2. hb = hh + n
        BY <4>1
      <4> QED
        BY <3>3, <3>4, <4>2
  <2>5. d.myWin + d.myCons + Held(d.buf) = WindowSize
    BY <1>0, <1>1, <2>2, <2>3
  <2>6. Sound(d)
    BY <1>1, <1>2, <2>2, <2>3, <2>5 DEF Sound
  <2> QED
    BY <1>1, <1>3, <2>2, <2>6 DEF Stays
<1>5. CASE x \notin Buffered /\ bytes = <<>>
  BY <1>3, <1>5 DEF TakeData, Stays
<1>6. CASE x \notin Buffered /\ bytes # <<>>
  <2>1. d = Consumed(k, n)
    BY <1>6 DEF TakeData
  <2>2. /\ DOMAIN d = ChanFields /\ d.myWin + d.myCons = k.myWin + k.myCons + n
        /\ d.myWin \in Nat /\ d.myCons \in Nat
        /\ d.rWin = k.rWin /\ d.buf = k.buf /\ d.left = k.left /\ d.hold = k.hold /\ Stays(d, k)
    <3>1. k.myWin \in Int /\ k.myCons \in Int /\ k.myWin >= 0 /\ k.myCons >= 0 /\ n \in Nat
      BY <1>0, <1>1, <1>2
    <3>2. /\ DOMAIN d = ChanFields /\ d.myWin + d.myCons = k.myWin + k.myCons + n
          /\ d.myWin \in Int /\ d.myCons \in Int /\ d.myWin >= 0 /\ d.myCons >= 0
          /\ d.rWin = k.rWin /\ d.buf = k.buf /\ d.left = k.left /\ d.hold = k.hold /\ Stays(d, k)
      <4>1. DOMAIN k = ChanFields
        BY <1>1
      <4>j. PICK j : j = Consumed(k, n)
        OBVIOUS
      <4>2. /\ DOMAIN j = ChanFields /\ j.myWin + j.myCons = k.myWin + k.myCons + n
            /\ j.myWin \in Int /\ j.myCons \in Int /\ j.myWin >= 0 /\ j.myCons >= 0
            /\ j.rWin = k.rWin /\ j.buf = k.buf /\ j.left = k.left /\ j.hold = k.hold /\ Stays(j, k)
        BY ONLY <3>1, <4>1, <4>j, ConsumedSound
      <4> QED
        BY <2>1, <4>j, <4>2
    <3> QED
      BY <3>2
  <2>3. d.myWin + d.myCons + Held(d.buf) = WindowSize
    BY <1>0, <1>1, <2>2
  <2>4. Sound(d)
    BY <1>1, <2>2, <2>3 DEF Sound
  <2> QED
    BY <1>1, <1>3, <2>2, <2>4 DEF Stays
<1> QED
  BY <1>4, <1>5, <1>6

\* reserve
LEMMA ReserveSound ==
    ASSUME NEW c, Sound(c), NEW x \in Streams, c.left[x] > 0, c.rWin > 0,
           NEW d, d = [c EXCEPT !.hold[x] = Space(c, x), !.rWin = @ - Space(c, x)]
    PROVE  Sound(d) /\ Stays(d, c)
<1>0. DOMAIN c = ChanFields /\ c.left[x] \in Int /\ c.rWin \in 0 .. Limit - 1 /\ DOMAIN c.hold = Streams
  BY DEF Sound
<1> PICK n : n = Space(c, x)
  OBVIOUS
<1>1. n \in Nat /\ n <= c.rWin
  BY <1>0, Sizes DEF Space, MinOf
<1> PICK h : h = [c.hold EXCEPT ![x] = n]
  OBVIOUS
<1>2. /\ DOMAIN d = ChanFields /\ d.myWin = c.myWin /\ d.myCons = c.myCons /\ d.rWin = c.rWin - n
      /\ d.buf = c.buf /\ d.left = c.left /\ d.hold = h /\ d.id = c.id /\ d.closed = c.closed /\ d.st = c.st
  BY <1>0 DEF ChanFields
<1>3. d.rWin \in 0 .. Limit - 1
  BY <1>0, <1>1, <1>2, Sizes
<1>4. DOMAIN h = Streams /\ \A y \in Streams : h[y] \in Int
  BY <1>0, <1>1 DEF Sound
<1> QED
  BY <1>2, <1>3, <1>4 DEF Sound, Stays

\* a write is given up, or its packet is sent
LEMMA WrittenSound ==
    ASSUME NEW c, Sound(c), NEW x \in Streams, NEW m \in Int, NEW n \in Int, NEW out,
           NEW d, d = [c EXCEPT !.left[x] = m, !.hold[x] = n, !.out[x] = out]
    PROVE  Sound(d) /\ Stays(d, c)
<1>0. DOMAIN c = ChanFields /\ DOMAIN c.left = Streams /\ DOMAIN c.hold = Streams
  BY DEF Sound
<1> PICK l, h : l = [c.left EXCEPT ![x] = m] /\ h = [c.hold EXCEPT ![x] = n]
  OBVIOUS
<1>1. /\ DOMAIN d = ChanFields /\ d.myWin = c.myWin /\ d.myCons = c.myCons /\ d.rWin = c.rWin
      /\ d.buf = c.buf /\ d.left = l /\ d.hold = h /\ d.id = c.id /\ d.closed = c.closed /\ d.st = c.st
  BY <1>0 DEF ChanFields
<1>2. DOMAIN l = Streams /\ DOMAIN h = Streams /\ \A y \in Streams : l[y] \in Int /\ h[y] \in Int
  BY <1>0 DEF Sound
<1> QED
  BY <1>1, <1>2 DEF Sound, Stays

\* The peer's window is raised.
LEMMA WindowSound ==
    ASSUME NEW c, Sound(c), NEW d, DOMAIN d = ChanFields,
           d.myWin = c.myWin, d.myCons = c.myCons, d.buf = c.buf, d.left = c.left, d.hold = c.hold,
           d.rWin \in 0 .. Limit - 1
    PROVE  Sound(d)
  BY DEF Sound


-----------------------------------------------------------------------------
(* The invariant                                                           *)

WireOK(w) == IsASeq(w) /\ \A i \in DOMAIN w : Decoded(w[i])

Wires == DOMAIN wire = Ends /\ \A e \in Ends : WireOK(wire[e])

Shape ==
    /\ scene \in Scenarios
    /\ DOMAIN ch = Ends /\ DOMAIN slots = Ends /\ DOMAIN inChans = Ends
    /\ \A e \in Ends :
        /\ DOMAIN ch[e] = Chans /\ DOMAIN slots[e] = 0 .. MaxChannels - 1
        /\ \A i \in DOMAIN slots[e] : slots[e][i] \in 0 .. MaxChannels
        /\ inChans[e] \in Seq(Chans)

AllSound == \A e \in Ends, o \in Chans : Sound(ch[e][o])

Inv == Shape /\ Wires /\ AllSound /\ ListedOpen

LEMMA PeerFacts == ASSUME NEW e \in Ends PROVE Peer(e) \in Ends /\ Peer(e) # e
  BY MuxAssumption DEF Peer, Ends

-----------------------------------------------------------------------------
(* The packets                                                             *)

LEMMA PktDecoded ==
    ASSUME NEW t, NEW to
    PROVE  /\ Decoded(Pkt(t, to)) /\ DOMAIN Pkt(t, to) = {"t", "to", "id", "win", "x", "bytes", "tag", "from"}
           /\ Pkt(t, to).win = 0 /\ Pkt(t, to).x = 0 /\ Pkt(t, to).bytes = <<>>
<1>1. <<>> \in Seq(Int) /\ 0 \in -1 .. Limit - 1
  BY Sizes
<1> QED
  BY <1>1 DEF Pkt, Decoded, Streams, Limit

LEMMA WinDecoded ==
    ASSUME NEW p, p.win \in 0 .. Limit - 1, p.x = 0, p.bytes = <<>>
    PROVE  Decoded(p)
<1>1. PICK w \in 0 .. Limit - 1 : w = p.win
  OBVIOUS
<1>2. w \in -1 .. Limit - 1
  BY Sizes
<1>3. <<>> \in Seq(Int)
  OBVIOUS
<1> QED
  BY <1>1, <1>2, <1>3, Sizes DEF Decoded, Limit, Streams

LEMMA NothingSent == WireOK(<<>>)
  BY EmptySeq DEF WireOK

LEMMA OneSent == ASSUME NEW p, Decoded(p) PROVE WireOK(<<p>>)
  BY SingleSeq DEF WireOK

LEMMA WireConcat == ASSUME NEW v, NEW w, WireOK(v), WireOK(w) PROVE WireOK(v \o w)
<1>0. IsASeq(v) /\ IsASeq(w) /\ (\A i \in DOMAIN v : Decoded(v[i])) /\ \A i \in DOMAIN w : Decoded(w[i])
  BY DEF WireOK
<1> PICK vw : vw = v \o w
  OBVIOUS
<1>1. /\ IsASeq(vw)
      /\ \A i \in DOMAIN vw : \/ i \in DOMAIN v /\ vw[i] = v[i]
                             \/ \E j \in DOMAIN w : vw[i] = w[j]
  BY <1>0, ConcatSeq
<1>2. \A i \in DOMAIN vw : Decoded(vw[i])
  BY <1>0, <1>1
<1> QED
  BY <1>1, <1>2 DEF WireOK

LEMMA WireTail == ASSUME NEW w, WireOK(w), w # <<>> PROVE WireOK(Tail(w)) /\ Decoded(Head(w))
  BY TailSeq DEF WireOK

LEMMA SendsOK ==
    ASSUME Wires, NEW e \in Ends, NEW ps, WireOK(ps), Sends(e, ps)
    PROVE  Wires'
<1>1. CASE wire' = wire
  BY <1>1 DEF Wires
<1>2. CASE wire' = [wire EXCEPT ![Peer(e)] = @ \o ps]
  <2>1. WireOK(wire[Peer(e)] \o ps)
    BY PeerFacts, WireConcat DEF Wires
  <2> QED
    BY <1>2, <2>1, PeerFacts DEF Wires
<1> QED
  BY <1>1, <1>2 DEF Sends

LEMMA ChanSendsOK ==
    ASSUME Wires, NEW e \in Ends, NEW o, NEW p, Decoded(p), ChanSends(e, o, p)
    PROVE  Wires'
<1>1. WireOK(IF MaySend(e, o) THEN <<p>> ELSE <<>>)
  BY NothingSent, OneSent
<1> QED
  BY <1>1, SendsOK DEF ChanSends

LEMMA PopOK == ASSUME Wires, NEW e \in Ends, wire[e] # <<>>, wire' = Pop(e) PROVE Wires'
<1>1. WireOK(Tail(wire[e]))
  BY WireTail DEF Wires
<1> QED
  BY <1>1 DEF Wires, Pop

LEMMA PopAndSendOK ==
    ASSUME Wires, NEW e \in Ends, wire[e] # <<>>, NEW ps, WireOK(ps), PopAndSend(e, ps)
    PROVE  Wires'
<1> PICK o : o = Peer(e)
  OBVIOUS
<1>0. o \in Ends /\ o # e
  BY PeerFacts
<1>1. WireOK(Tail(wire[e])) /\ WireOK(wire[o]) /\ WireOK(wire[o] \o ps)
  BY <1>0, WireTail, WireConcat DEF Wires
<1> PICK w : w = IF conn[o] = "up" THEN wire[o] \o ps ELSE wire[o]
  OBVIOUS
<1>2. wire' = [wire EXCEPT ![e] = Tail(@), ![o] = w]
  BY <1>0 DEF PopAndSend, Wires
<1>3. WireOK(w)
  BY <1>1
<1> QED
  BY <1>0, <1>1, <1>2, <1>3 DEF Wires

LEMMA NextDecoded == ASSUME Wires, NEW e \in Ends, wire[e] # <<>> PROVE Decoded(Next1(e))
  BY WireTail DEF Wires, Next1

-----------------------------------------------------------------------------
(* The list of channels                                                    *)

LEMMA SlotRange ==
    ASSUME Shape, NEW e \in Ends, NEW i \in DOMAIN slots[e], slots[e][i] # 0
    PROVE  slots[e][i] \in Chans
<1>1. slots[e][i] \in 0 .. MaxChannels
  BY DEF Shape
<1> QED
  BY <1>1, MuxAssumption DEF Chans

LEMMA TargetListed ==
    ASSUME Inv, NEW e \in Ends, Target(e) # 0
    PROVE  /\ Target(e) \in Chans /\ Next1(e).to \in DOMAIN slots[e] /\ slots[e][Next1(e).to] = Target(e)
           /\ ch[e][Target(e)].id = Next1(e).to /\ ~ch[e][Target(e)].closed /\ ch[e][Target(e)].st # "free"
           /\ Sound(ch[e][Target(e)])
<1>1. Next1(e).to \in DOMAIN slots[e] /\ slots[e][Next1(e).to] = Target(e)
  BY DEF Target
<1>2. Target(e) \in Chans
  BY <1>1, SlotRange DEF Inv
<1> QED
  BY <1>1, <1>2 DEF Inv, ListedOpen, AllSound

\* Channel o of e becomes d.
LEMMA Becomes ==
    ASSUME Inv, NEW e \in Ends, NEW o \in Chans, NEW d, ch' = [ch EXCEPT ![e][o] = d]
    PROVE  /\ DOMAIN ch' = Ends /\ \A f \in Ends : DOMAIN ch'[f] = Chans
           /\ ch'[e][o] = d
           /\ \A f \in Ends, q \in Chans : f # e \/ q # o => ch'[f][q] = ch[f][q]
<1>1. DOMAIN ch = Ends /\ DOMAIN ch[e] = Chans /\ \A f \in Ends : DOMAIN ch[f] = Chans
  BY DEF Inv, Shape
<1>2. DOMAIN ch' = Ends /\ (\A f \in Ends : DOMAIN ch'[f] = Chans) /\ ch'[e][o] = d
  BY <1>1
<1>3. \A f \in Ends, q \in Chans : f # e \/ q # o => ch'[f][q] = ch[f][q]
  BY <1>1
<1> QED
  BY <1>2, <1>3

\* The list loses channels at most.
Shrinks ==
    /\ DOMAIN slots' = Ends
    /\ \A f \in Ends : /\ DOMAIN slots'[f] = DOMAIN slots[f]
                       /\ \A i \in DOMAIN slots[f] : slots'[f][i] \in {0, slots[f][i]}

LEMMA SlotCleared ==
    ASSUME Shape, NEW e \in Ends, NEW i, slots' = [slots EXCEPT ![e][i] = 0]
    PROVE  Shrinks /\ (i \in DOMAIN slots[e] => slots'[e][i] = 0)
  BY DEF Shape, Shrinks

LEMMA SlotsKept == ASSUME Shape, slots' = slots PROVE Shrinks
  BY DEF Shape, Shrinks

\* A step that changes a channel which stays what it is to the list, or leaves it.
LEMMA ChanStep ==
    ASSUME Inv, NEW e \in Ends, NEW o \in Chans, NEW d, ch' = [ch EXCEPT ![e][o] = d], Sound(d),
           scene' = scene, Wires', Shrinks,
           DOMAIN inChans' = Ends, \A f \in Ends : inChans'[f] \in Seq(Chans),
           Stays(d, ch[e][o]) \/ \A i \in DOMAIN slots[e] : slots'[e][i] # o
    PROVE  Inv'
<1>1. /\ DOMAIN ch' = Ends /\ \A f \in Ends : DOMAIN ch'[f] = Chans
      /\ ch'[e][o] = d /\ AllSound'
      /\ \A f \in Ends, q \in Chans : f # e \/ q # o => ch'[f][q] = ch[f][q]
  <2>1. DOMAIN ch' = Ends /\ \A f \in Ends : DOMAIN ch'[f] = Chans
    BY Becomes
  <2>2. ch'[e][o] = d
    BY Becomes, ZenonT(40)
  <2>3. \A f \in Ends, q \in Chans : f # e \/ q # o => ch'[f][q] = ch[f][q]
    BY Becomes
  <2>4. AllSound'
    BY <2>2, <2>3 DEF Inv, AllSound
  <2> QED
    BY <2>1, <2>2, <2>3, <2>4
<1>2. Shape'
  <2>1. ASSUME NEW f \in Ends
        PROVE  /\ DOMAIN slots'[f] = 0 .. MaxChannels - 1
               /\ \A i \in DOMAIN slots'[f] : slots'[f][i] \in 0 .. MaxChannels
    <3>1. DOMAIN slots[f] = 0 .. MaxChannels - 1 /\ \A i \in DOMAIN slots[f] : slots[f][i] \in 0 .. MaxChannels
      BY DEF Inv, Shape
    <3>2. DOMAIN slots'[f] = DOMAIN slots[f] /\ \A i \in DOMAIN slots[f] : slots'[f][i] \in {0, slots[f][i]}
      BY DEF Shrinks
    <3>3. 0 \in 0 .. MaxChannels
      BY MuxAssumption
    <3> QED
      BY <3>1, <3>2, <3>3
  <2>2. scene' \in Scenarios /\ DOMAIN slots' = Ends
    BY DEF Shrinks, Inv, Shape
  <2> QED
    BY <1>1, <2>1, <2>2 DEF Shape
<1>3. ListedOpen'
  <2> SUFFICES ASSUME NEW f \in Ends, NEW i \in DOMAIN slots'[f], slots'[f][i] # 0
               PROVE  /\ ch'[f][slots'[f][i]].id = i /\ ~ch'[f][slots'[f][i]].closed
                      /\ ch'[f][slots'[f][i]].st # "free"
    BY DEF ListedOpen
  <2> PICK q : q = slots[f][i]
    OBVIOUS
  <2>1. i \in DOMAIN slots[f] /\ slots'[f][i] = q /\ q # 0
    BY DEF Shrinks
  <2>2. q \in Chans /\ ch[f][q].id = i /\ ~ch[f][q].closed /\ ch[f][q].st # "free"
    BY <2>1, SlotRange DEF Inv, ListedOpen
  <2>3. CASE f = e /\ q = o
    <3>1. Stays(d, ch[e][o])
      BY <2>1, <2>3
    <3> QED
      BY <1>1, <2>1, <2>2, <2>3, <3>1 DEF Stays
  <2>4. CASE f # e \/ q # o
    BY <1>1, <2>1, <2>2, <2>4
  <2> QED
    BY <2>3, <2>4
<1> QED
  BY <1>1, <1>2, <1>3 DEF Inv

\* A new channel enters the list.
LEMMA NewStep ==
    ASSUME Inv, NEW e \in Ends, NEW o \in Chans, NEW d, ch' = [ch EXCEPT ![e][o] = d], Sound(d),
           scene' = scene, Wires', slots' = [slots EXCEPT ![e][d.id] = o],
           DOMAIN inChans' = Ends, \A f \in Ends : inChans'[f] \in Seq(Chans),
           ch[e][o].st = "free", ~d.closed, d.st # "free"
    PROVE  Inv'
<1>1. /\ DOMAIN ch' = Ends /\ \A f \in Ends : DOMAIN ch'[f] = Chans
      /\ ch'[e][o] = d /\ AllSound'
      /\ \A f \in Ends, q \in Chans : f # e \/ q # o => ch'[f][q] = ch[f][q]
  <2>1. DOMAIN ch' = Ends /\ \A f \in Ends : DOMAIN ch'[f] = Chans
    BY Becomes
  <2>2. ch'[e][o] = d
    BY Becomes, ZenonT(40)
  <2>3. \A f \in Ends, q \in Chans : f # e \/ q # o => ch'[f][q] = ch[f][q]
    BY Becomes
  <2>4. AllSound'
    BY <2>2, <2>3 DEF Inv, AllSound
  <2> QED
    BY <2>1, <2>2, <2>3, <2>4
<1>2. /\ DOMAIN slots' = Ends
      /\ \A f \in Ends :
            /\ DOMAIN slots'[f] = DOMAIN slots[f]
            /\ \A i \in DOMAIN slots[f] : slots'[f][i] = IF f = e /\ i = d.id THEN o ELSE slots[f][i]
  BY DEF Inv, Shape
<1>3. Shape'
  <2>1. ASSUME NEW f \in Ends
        PROVE  /\ DOMAIN slots'[f] = 0 .. MaxChannels - 1
               /\ \A i \in DOMAIN slots'[f] : slots'[f][i] \in 0 .. MaxChannels
    BY <1>2, MuxAssumption DEF Inv, Shape, Chans
  <2>2. scene' \in Scenarios /\ DOMAIN slots' = Ends
    BY <1>2 DEF Inv, Shape
  <2> QED
    BY <1>1, <2>1, <2>2 DEF Shape
<1>4. ListedOpen'
  <2> SUFFICES ASSUME NEW f \in Ends, NEW i \in DOMAIN slots'[f], slots'[f][i] # 0
               PROVE  /\ ch'[f][slots'[f][i]].id = i /\ ~ch'[f][slots'[f][i]].closed
                      /\ ch'[f][slots'[f][i]].st # "free"
    BY DEF ListedOpen
  <2>1. CASE f = e /\ i = d.id
    <3>1. slots'[f][i] = o
      BY <1>2, <2>1
    <3> QED
      BY <1>1, <2>1, <3>1
  <2>2. CASE ~(f = e /\ i = d.id)
    <3> PICK q : q = slots[f][i]
      OBVIOUS
    <3>1. i \in DOMAIN slots[f] /\ slots'[f][i] = q /\ q # 0
      BY <1>2, <2>2
    <3>2. q \in Chans /\ ch[f][q].id = i /\ ~ch[f][q].closed /\ ch[f][q].st # "free"
      BY <3>1, SlotRange DEF Inv, ListedOpen
    <3>3. f # e \/ q # o
      BY <3>2
    <3> QED
      BY <1>1, <3>1, <3>2, <3>3
  <2> QED
    BY <2>1, <2>2
<1> QED
  BY <1>1, <1>3, <1>4 DEF Inv

\* A step that leaves the channels alone.
LEMMA QuietStep ==
    ASSUME Inv, UNCHANGED <<scene, ch, slots>>, Wires', inChans' = inChans
    PROVE  Inv'
  BY DEF Inv, Shape, AllSound, ListedOpen


-----------------------------------------------------------------------------
(* The steps                                                               *)

LEMMA Lists ==
    ASSUME Inv
    PROVE  DOMAIN inChans = Ends /\ \A f \in Ends : inChans[f] \in Seq(Chans)
  BY DEF Inv, Shape

\* A step that changes only fields of a channel that neither the windows nor the
\* list depend on.
LEMMA FieldStep ==
    ASSUME Inv, NEW e \in Ends, NEW o \in Chans, NEW d, ch' = [ch EXCEPT ![e][o] = d],
           Like(d, ch[e][o]), Stays(d, ch[e][o]), UNCHANGED <<scene, slots, inChans>>, Wires'
    PROVE  Inv'
<1>1. Sound(d)
  BY LikeSound DEF Inv, AllSound
<1>2. Shrinks
  BY SlotsKept DEF Inv
<1>3. DOMAIN inChans' = Ends /\ \A f \in Ends : inChans'[f] \in Seq(Chans)
  BY Lists
<1> QED
  BY <1>1, <1>2, <1>3, ChanStep

LEMMA ChanDomain == ASSUME Inv, NEW e \in Ends, NEW o \in Chans PROVE DOMAIN ch[e][o] = ChanFields /\ Sound(ch[e][o])
  BY DEF Inv, AllSound, Sound

LEMMA FreshFree ==
    ASSUME NEW e \in Ends, HasFresh(e)
    PROVE  Fresh(e) \in Chans /\ ch[e][Fresh(e)].st = "free"
  BY DEF HasFresh, Fresh, FirstFree

LEMMA NewSound ==
    ASSUME Inv, NEW e \in Ends, NEW st, NEW c, c = NewChannel(e, st)
    PROVE  Sound(c) /\ c.st = st /\ ~c.closed /\ c.id = FreeSlot(e)
<1>1. scene.write[e] \in [Streams -> Nat]
  BY PacketsAssumption DEF Inv, Shape
<1> PICK f, l, i : f = FreeChannel /\ l = scene.write[e] /\ i = FreeSlot(e)
  OBVIOUS
<1>2. Sound(f) /\ ~f.closed
  BY FreeSound DEF FreeChannel
<1>3. DOMAIN f = ChanFields
  BY <1>2 DEF Sound
<1>4. c = [f EXCEPT !.st = st, !.id = i, !.left = l]
  BY DEF NewChannel
<1>5. /\ DOMAIN c = ChanFields /\ c.myWin = f.myWin /\ c.myCons = f.myCons /\ c.rWin = f.rWin /\ c.buf = f.buf
      /\ c.hold = f.hold /\ c.left = l /\ c.st = st /\ c.closed = f.closed /\ c.id = i
  BY <1>3, <1>4 DEF ChanFields
<1>6. DOMAIN l = Streams /\ \A x \in Streams : l[x] \in Int
  BY <1>1
<1> QED
  BY <1>2, <1>5, <1>6 DEF Sound

LEMMA OpenChannelInv == ASSUME Inv, OpenChannel PROVE Inv'
<1> PICK e, o, c : e = Opener /\ o = Fresh(e) /\ c = NewChannel(e, "opening")
  OBVIOUS
<1> PICK d, p : /\ d = IF conn[e] = "up" THEN c ELSE [c EXCEPT !.st = "failed"]
                /\ p = [Pkt("open", 0) EXCEPT !.id = c.id, !.win = WindowSize, !.from = o]
  OBVIOUS
<1>1. /\ slots' = [slots EXCEPT ![e][c.id] = o] /\ ch' = [ch EXCEPT ![e][o] = d] /\ Sends(e, <<p>>)
      /\ HasFresh(e) /\ UNCHANGED <<scene, inChans>>
  BY DEF OpenChannel
<1>2. e \in Ends
  BY DEF Ends
<1>3. o \in Chans /\ ch[e][o].st = "free"
  BY <1>1, <1>2, FreshFree
<1>4. Sound(c) /\ c.st = "opening" /\ ~c.closed
  BY <1>2, NewSound
<1>5. Sound(d) /\ d.st # "free" /\ ~d.closed /\ d.id = c.id
  <2>1. CASE conn[e] = "up"
    BY <1>4, <2>1
  <2>2. CASE conn[e] # "up"
    <3>1. DOMAIN c = ChanFields
      BY <1>4 DEF Sound
    <3>2. Like(d, c) /\ d.st = "failed" /\ d.closed = c.closed /\ d.id = c.id
      BY <2>2, <3>1 DEF Like, ChanFields
    <3> QED
      BY <1>4, <3>2, LikeSound
  <2> QED
    BY <2>1, <2>2
<1>6. Decoded(p)
  BY PktDecoded, Sizes DEF Decoded, Limit
<1>7. Wires'
  BY <1>1, <1>2, <1>6, OneSent, SendsOK DEF Inv
<1>8. DOMAIN inChans' = Ends /\ \A f \in Ends : inChans'[f] \in Seq(Chans)
  BY <1>1, Lists
<1> QED
  BY <1>1, <1>2, <1>3, <1>5, <1>7, <1>8, NewStep

LEMMA OpenReturnsInv == ASSUME Inv, NEW o \in Chans, OpenReturns(o) PROVE Inv'
<1> PICK e, c : e = Opener /\ c = ch[e][o]
  OBVIOUS
<1>0. e \in Ends
  BY DEF Ends
<1> PICK d : d = IF c.msg # <<>> /\ Head(c.msg) = "confirm" THEN [c EXCEPT !.st = "open", !.msg = <<>>]
                 ELSE [c EXCEPT !.st = "failed", !.msg = <<>>]
  OBVIOUS
<1>1. ch' = [ch EXCEPT ![e][o] = d] /\ UNCHANGED <<scene, wire, slots, inChans>>
  BY DEF OpenReturns, history
<1>2. DOMAIN c = ChanFields
  BY <1>0, ChanDomain
<1>3. Like(d, c) /\ Stays(d, c)
  BY <1>2 DEF Like, Stays, ChanFields
<1>4. Wires'
  BY <1>1 DEF Inv, Wires
<1> QED
  BY <1>0, <1>1, <1>3, <1>4, FieldStep

LEMMA HeadOf == ASSUME Inv, NEW e \in Ends, inChans[e] # <<>>
    PROVE /\ Head(inChans[e]) \in Chans
          /\ DOMAIN [inChans EXCEPT ![e] = Tail(@)] = Ends
          /\ \A f \in Ends : [inChans EXCEPT ![e] = Tail(@)][f] \in Seq(Chans)
<1>1. DOMAIN inChans = Ends /\ \A f \in Ends : inChans[f] \in Seq(Chans)
  BY Lists
<1>2. Head(inChans[e]) \in Chans /\ Tail(inChans[e]) \in Seq(Chans)
  BY <1>1
<1> QED
  BY <1>1, <1>2

LEMMA AcceptInv == ASSUME Inv, NEW e \in Ends, Accept(e) PROVE Inv'
<1> PICK o, c : o = Head(inChans[e]) /\ c = ch[e][o]
  OBVIOUS
<1> PICK st, p : /\ st = IF MaySend(e, o) THEN "open" ELSE "failed"
                 /\ p = [Pkt("confirm", c.rid) EXCEPT !.id = c.id, !.win = c.myWin, !.from = o]
  OBVIOUS
<1>1. /\ ch' = [ch EXCEPT ![e][o].decided = TRUE, ![e][o].st = st] /\ ChanSends(e, o, p)
      /\ inChans[e] # <<>> /\ UNCHANGED <<scene, slots>> /\ inChans' = [inChans EXCEPT ![e] = Tail(@)]
  BY DEF Accept, history
<1>2. o \in Chans /\ DOMAIN inChans' = Ends /\ \A f \in Ends : inChans'[f] \in Seq(Chans)
  BY <1>1, HeadOf
<1>3. DOMAIN c = ChanFields /\ Sound(c)
  BY <1>2, ChanDomain
<1> PICK d : d = [c EXCEPT !.decided = TRUE, !.st = st]
  BY Zenon
<1>4. ch' = [ch EXCEPT ![e][o] = d]
  BY <1>1, <1>2 DEF Inv, Shape
<1>5. Like(d, c) /\ Stays(d, c)
  BY <1>3 DEF Like, Stays, ChanFields
<1>6. c.myWin \in 0 .. Limit - 1
  <2>1. c.myWin \in Nat /\ c.myCons \in Nat /\ Held(c.buf) \in Nat /\ c.myWin + c.myCons + Held(c.buf) = WindowSize
    BY <1>3, Zenon DEF Sound
  <2> QED
    BY <2>1, Sizes, SMTT(40)
<1>7. Decoded(p)
  <2>1. p.win = c.myWin /\ p.x = 0 /\ p.bytes = <<>>
    BY PktDecoded
  <2> QED
    BY <1>6, <2>1, WinDecoded
<1>8. Wires'
  BY <1>1, <1>7, ChanSendsOK, Zenon DEF Inv
<1>9. Shrinks /\ Sound(d)
  BY <1>1, <1>3, <1>5, SlotsKept, LikeSound, ZenonT(60) DEF Inv
<1>10. scene' = scene /\ Stays(d, ch[e][o])
  BY <1>1, <1>5
<1> QED
  BY <1>2, <1>4, <1>8, <1>9, <1>10, ChanStep


LEMMA RejectInv == ASSUME Inv, NEW e \in Ends, Reject(e) PROVE Inv'
<1> PICK o, c : o = Head(inChans[e]) /\ c = ch[e][o]
  OBVIOUS
<1>1. /\ ch' = [ch EXCEPT ![e][o].decided = TRUE, ![e][o].st = "rejected"]
      /\ ChanSends(e, o, Pkt("failure", c.rid)) /\ slots' = [slots EXCEPT ![e][c.id] = 0]
      /\ inChans[e] # <<>> /\ scene' = scene /\ inChans' = [inChans EXCEPT ![e] = Tail(@)]
  BY DEF Reject, history
<1>2. o \in Chans /\ DOMAIN inChans' = Ends /\ \A f \in Ends : inChans'[f] \in Seq(Chans)
  BY <1>1, HeadOf
<1>3. DOMAIN c = ChanFields /\ Sound(c)
  BY <1>2, ChanDomain
<1> PICK d : d = [c EXCEPT !.decided = TRUE, !.st = "rejected"]
  OBVIOUS
<1>4. ch' = [ch EXCEPT ![e][o] = d]
  BY <1>1, <1>2, ZenonT(60) DEF Inv, Shape
<1>5. Like(d, c) /\ Stays(d, ch[e][o])
  BY <1>3 DEF Like, Stays, ChanFields
<1>6. Wires'
  BY <1>1, PktDecoded, ChanSendsOK DEF Inv
<1>7. Shrinks /\ Sound(d)
  BY <1>1, <1>3, <1>5, SlotCleared, LikeSound, ZenonT(60) DEF Inv
<1>8. scene' = scene
  BY <1>1
<1> QED
  BY <1>2, <1>4, <1>5, <1>6, <1>7, <1>8, ChanStep

\* The same with nothing but the channel and the wire changed.
LEMMA SoundStep ==
    ASSUME Inv, NEW e \in Ends, NEW o \in Chans, NEW d, ch' = [ch EXCEPT ![e][o] = d],
           Sound(d), Stays(d, ch[e][o]), UNCHANGED <<scene, slots, inChans>>, Wires'
    PROVE  Inv'
<1>1. Shrinks
  BY SlotsKept DEF Inv
<1>2. DOMAIN inChans' = Ends /\ \A f \in Ends : inChans'[f] \in Seq(Chans)
  BY Lists
<1> QED
  BY <1>1, <1>2, ChanStep

LEMMA ReserveInv == ASSUME Inv, NEW e \in Ends, NEW o \in Chans, NEW x \in Streams, Reserve(e, o, x) PROVE Inv'
<1> PICK c : c = ch[e][o]
  OBVIOUS
<1>0. Sound(c) /\ Wires'
  BY ChanDomain DEF Inv, Wires, Reserve
<1> PICK d : d = IF c.closed THEN [c EXCEPT !.left[x] = 0]
                 ELSE [c EXCEPT !.hold[x] = Space(c, x), !.rWin = @ - Space(c, x)]
  OBVIOUS
<1>1. /\ ch' = [ch EXCEPT ![e][o] = d] /\ UNCHANGED <<scene, slots, inChans>>
      /\ c.left[x] > 0 /\ (c.rWin > 0 \/ c.closed)
  BY DEF Reserve, history
<1>2. Sound(d) /\ Stays(d, c)
  <2>1. CASE c.closed
    <3>1. c.left[x] \in Int /\ c.hold[x] \in Int /\ DOMAIN c = ChanFields /\ DOMAIN c.left = Streams
      BY <1>0 DEF Sound
    <3> PICK l : l = [c.left EXCEPT ![x] = 0]
      OBVIOUS
    <3>2. /\ DOMAIN d = ChanFields /\ d.myWin = c.myWin /\ d.myCons = c.myCons /\ d.rWin = c.rWin
          /\ d.buf = c.buf /\ d.left = l /\ d.hold = c.hold
          /\ d.id = c.id /\ d.closed = c.closed /\ d.st = c.st
      BY <2>1, <3>1 DEF ChanFields
    <3>3. DOMAIN l = Streams /\ \A y \in Streams : l[y] \in Int
      BY <1>0, <3>1 DEF Sound
    <3> QED
      BY <1>0, <3>2, <3>3 DEF Sound, Stays
  <2>2. CASE ~c.closed
    BY <1>0, <1>1, <2>2, ReserveSound, ZenonT(60)
  <2> QED
    BY <2>1, <2>2
<1> QED
  BY <1>0, <1>1, <1>2, SoundStep

LEMMA WriteDataInv == ASSUME Inv, NEW e \in Ends, NEW o \in Chans, NEW x \in Streams, WriteData(e, o, x) PROVE Inv'
<1> PICK c : c = ch[e][o]
  OBVIOUS
<1>0. Sound(c)
  BY ChanDomain
<1> PICK may, p, m, out :
        /\ may = MaySend(e, o) /\ p = [Pkt("data", c.rid) EXCEPT !.x = x, !.bytes = Bytes(e, c, x)]
        /\ m = (IF MaySend(e, o) THEN c.left[x] - c.hold[x] ELSE 0)
        /\ out = (IF MaySend(e, o) THEN c.out[x] + c.hold[x] ELSE c.out[x])
  OBVIOUS
<1> PICK d : d = [c EXCEPT !.left[x] = m, !.hold[x] = 0, !.out[x] = out]
  OBVIOUS
<1>1. /\ ChanSends(e, o, p) /\ c.hold[x] > 0 /\ UNCHANGED <<scene, slots, inChans>>
      /\ ch' = [ch EXCEPT ![e][o] = [c EXCEPT !.left[x] = IF MaySend(e, o) THEN @ - c.hold[x] ELSE 0,
                                              !.hold[x] = 0,
                                              !.out[x] = IF MaySend(e, o) THEN @ + c.hold[x] ELSE @]]
  BY DEF WriteData, history
<1>2. ch' = [ch EXCEPT ![e][o] = d]
  BY <1>0, <1>1 DEF Sound, ChanFields
<1>3. c.left[x] \in Int /\ c.hold[x] \in Int
  BY <1>0 DEF Sound
<1>4. m \in Int
  BY <1>3
<1>5. Sound(d) /\ Stays(d, c)
  <2>1. 0 \in Int /\ x \in Streams /\ d = [c EXCEPT !.left[x] = m, !.hold[x] = 0, !.out[x] = out]
    OBVIOUS
  <2> QED
    BY ONLY <1>0, <1>4, <2>1, WrittenSound
<1>6. Decoded(p)
  <2> PICK n, l, w : n = c.hold[x] /\ l = c.left[x] /\ w = scene.write[e][x]
    OBVIOUS
  <2>1. n \in Nat /\ l \in Int /\ w \in Nat
    <3>1. scene.write[e] \in [Streams -> Nat]
      BY PacketsAssumption DEF Inv, Shape
    <3> QED
      BY <1>1, <1>3, <3>1
  <2> PICK bs : bs = [i \in 1 .. n |-> w - l + i]
    OBVIOUS
  <2>2. bs \in Seq(Int)
    BY <2>1, SMTT(30)
  <2>3. p.win = 0 /\ p.x = x /\ p.bytes = bs
    BY PktDecoded DEF Bytes
  <2>4. 0 \in -1 .. Limit - 1
    BY Sizes
  <2> QED
    BY <2>2, <2>3, <2>4, SMTT(30) DEF Decoded, Limit
<1>7. Wires'
  BY <1>1, <1>6, ChanSendsOK DEF Inv
<1>8. UNCHANGED <<scene, slots, inChans>> /\ Stays(d, ch[e][o])
  BY <1>1, <1>5
<1> QED
  BY <1>2, <1>5, <1>7, <1>8, SoundStep, ZenonT(60)

LEMMA CloseWriteInv == ASSUME Inv, NEW e \in Ends, NEW o \in Chans, CloseWrite(e, o) PROVE Inv'
<1> PICK c : c = ch[e][o]
  OBVIOUS
<1>1. /\ ch' = [ch EXCEPT ![e][o].sentEOF = TRUE] /\ ChanSends(e, o, Pkt("eof", c.rid))
      /\ UNCHANGED <<scene, slots, inChans>>
  BY DEF CloseWrite, history
<1> PICK d : d = [c EXCEPT !.sentEOF = TRUE]
  OBVIOUS
<1>2. ch' = [ch EXCEPT ![e][o] = d]
  BY <1>1 DEF Inv, Shape
<1>3. Like(d, c) /\ Stays(d, c)
  BY ChanDomain DEF Like, Stays, ChanFields
<1>4. Wires'
  BY <1>1, PktDecoded, ChanSendsOK DEF Inv
<1> QED
  BY <1>1, <1>2, <1>3, <1>4, FieldStep

LEMMA CloseInv == ASSUME Inv, NEW e \in Ends, NEW o \in Chans, Close(e, o) PROVE Inv'
<1> PICK c : c = ch[e][o]
  OBVIOUS
<1>1. /\ ch' = [ch EXCEPT ![e][o].sentClose = TRUE] /\ ChanSends(e, o, Pkt("close", c.rid))
      /\ UNCHANGED <<scene, slots, inChans>>
  BY DEF Close, history
<1> PICK d : d = [c EXCEPT !.sentClose = TRUE]
  BY ZenonT(60)
<1>2. ch' = [ch EXCEPT ![e][o] = d]
  BY <1>1 DEF Inv, Shape
<1>3. Like(d, c) /\ Stays(d, c)
  BY ChanDomain DEF Like, Stays, ChanFields
<1>4. Wires'
  BY <1>1, PktDecoded, ChanSendsOK DEF Inv
<1> QED
  BY <1>1, <1>2, <1>3, <1>4, FieldStep

LEMMA ReadInv == ASSUME Inv, NEW e \in Ends, NEW o \in Chans, NEW x \in Buffered, Read(e, o, x) PROVE Inv'
<1> PICK c : c = ch[e][o]
  OBVIOUS
<1> PICK n : n = Len(c.buf[x])
  OBVIOUS
<1> PICK r : r = Raise(c, n)
  OBVIOUS
<1> PICK d, p : /\ d = [Consumed(c, n) EXCEPT !.buf[x] = <<>>, !.got[x] = @ \o c.buf[x]]
                /\ p = [Pkt("adjust", c.rid) EXCEPT !.win = r]
  OBVIOUS
<1>1. /\ ch' = [ch EXCEPT ![e][o] = d] /\ UNCHANGED <<scene, slots, inChans>>
      /\ IF r = 0 THEN UNCHANGED wire ELSE ChanSends(e, o, p)
  BY DEF Read, history
<1>2. Sound(c)
  BY ChanDomain, Zenon
<1>3. Sound(d) /\ Stays(d, c) /\ r \in 0 .. Limit - 1
  <2>1. x \in Buffered /\ n = Len(c.buf[x]) /\ d = [Consumed(c, n) EXCEPT !.buf[x] = <<>>, !.got[x] = @ \o c.buf[x]]
    OBVIOUS
  <2>2. Sound(d) /\ Stays(d, c) /\ Raise(c, n) \in 0 .. Limit - 1
    BY ONLY <1>2, <2>1, ReadSound, ZenonT(60)
  <2> QED
    BY <2>2, ZenonT(60)
<1>4. Decoded(p)
  <2>1. p.win = r /\ p.x = 0 /\ p.bytes = <<>>
    BY PktDecoded
  <2> QED
    BY <1>3, <2>1, WinDecoded, ZenonT(60)
<1>5. Wires'
  <2>1. CASE r = 0
    BY <1>1, <2>1, Zenon DEF Inv, Wires
  <2>2. CASE r # 0
    BY <1>1, <1>4, <2>2, ChanSendsOK DEF Inv
  <2> QED
    BY <2>1, <2>2, Zenon
<1> QED
  BY <1>1, <1>3, <1>5, SoundStep, ZenonT(60)


LEMMA FirstChannel == Opener \in Ends /\ Other \in Ends /\ 1 \in Chans
  BY MuxAssumption DEF Ends, Chans

LEMMA SameWires == ASSUME Inv, wire' = wire PROVE Wires'
  BY DEF Inv, Wires

LEMMA CallerInv == ASSUME Inv, NEW r \in Callers, Caller(r) PROVE Inv'
<1> PICK e, c : e = Opener /\ c = ch[e][1]
  OBVIOUS
<1>0. e \in Ends /\ 1 \in Chans /\ DOMAIN c = ChanFields
  BY FirstChannel, ChanDomain
<1>1. CASE CallBegins(r)
  <2> PICK d : d = [c EXCEPT !.pend = TRUE, !.msg = <<>>]
    OBVIOUS
  <2>1. /\ ch' = [ch EXCEPT ![e][1].pend = TRUE, ![e][1].msg = <<>>]
        /\ UNCHANGED <<wire, scene, slots, inChans>>
    BY <1>1 DEF CallBegins, history
  <2>2. ch' = [ch EXCEPT ![e][1] = d]
    BY <1>0, <2>1 DEF Inv, Shape
  <2>3. Like(d, c) /\ Stays(d, c)
    BY <1>0 DEF Like, Stays, ChanFields
  <2> QED
    BY <1>0, <2>1, <2>2, <2>3, SameWires, FieldStep
<1>2. CASE CallSends(r)
  <2> PICK p : p = [Pkt("request", c.rid) EXCEPT !.tag = r]
    OBVIOUS
  <2>1. ChanSends(e, 1, p) /\ UNCHANGED <<scene, slots, inChans>>
        /\ (ch' = ch \/ ch' = [ch EXCEPT ![e][1].pend = FALSE])
    BY <1>2 DEF CallSends, history
  <2>2. Decoded(p)
    BY PktDecoded DEF Decoded
  <2>3. Wires'
    BY <1>0, <2>1, <2>2, ChanSendsOK DEF Inv
  <2>4. CASE ch' = ch
    BY <2>1, <2>3, <2>4, QuietStep
  <2>5. CASE ch' = [ch EXCEPT ![e][1].pend = FALSE]
    <3> PICK d : d = [c EXCEPT !.pend = FALSE]
      OBVIOUS
    <3>1. ch' = [ch EXCEPT ![e][1] = d]
      BY <1>0, <2>5 DEF Inv, Shape
    <3>2. Like(d, c) /\ Stays(d, c)
      BY <1>0 DEF Like, Stays, ChanFields
    <3> QED
      BY <1>0, <2>1, <2>3, <3>1, <3>2, FieldStep
  <2> QED
    BY <2>1, <2>4, <2>5
<1>3. CASE CallReturns(r)
  <2>1. /\ UNCHANGED <<wire, scene, slots, inChans>>
        /\ \/ ch' = [ch EXCEPT ![e][1].msg = Tail(@), ![e][1].pend = FALSE]
           \/ ch' = [ch EXCEPT ![e][1].pend = FALSE]
    BY <1>3 DEF CallReturns, history
  <2>2. CASE ch' = [ch EXCEPT ![e][1].msg = Tail(@), ![e][1].pend = FALSE]
    <3> PICK d : d = [c EXCEPT !.msg = Tail(@), !.pend = FALSE]
      OBVIOUS
    <3>1. ch' = [ch EXCEPT ![e][1] = d]
      BY <1>0, <2>2 DEF Inv, Shape
    <3>2. Like(d, c) /\ Stays(d, c)
      BY <1>0 DEF Like, Stays, ChanFields
    <3> QED
      BY <1>0, <2>1, <3>1, <3>2, SameWires, FieldStep
  <2>3. CASE ch' = [ch EXCEPT ![e][1].pend = FALSE]
    <3> PICK d : d = [c EXCEPT !.pend = FALSE]
      OBVIOUS
    <3>1. ch' = [ch EXCEPT ![e][1] = d]
      BY <1>0, <2>3 DEF Inv, Shape
    <3>2. Like(d, c) /\ Stays(d, c)
      BY <1>0 DEF Like, Stays, ChanFields
    <3> QED
      BY <1>0, <2>1, <3>1, <3>2, SameWires, FieldStep
  <2> QED
    BY <2>1, <2>2, <2>3
<1> QED
  BY <1>1, <1>2, <1>3 DEF Caller

LEMMA ServeInv == ASSUME Inv, NEW e \in Ends, NEW o \in Chans, Serve(e, o) PROVE Inv'
<1> PICK c : c = ch[e][o]
  OBVIOUS
<1> PICK d, p : d = [c EXCEPT !.reqs = Tail(@)] /\ p = [Pkt("reply", c.rid) EXCEPT !.tag = Head(c.reqs)]
  OBVIOUS
<1>1. /\ ch' = [ch EXCEPT ![e][o].reqs = Tail(@)] /\ ChanSends(e, o, p) /\ UNCHANGED <<scene, slots, inChans>>
  BY DEF Serve, history
<1>2. ch' = [ch EXCEPT ![e][o] = d]
  BY <1>1 DEF Inv, Shape
<1>3. Like(d, c) /\ Stays(d, c)
  BY ChanDomain DEF Like, Stays, ChanFields
<1>4. Decoded(p)
  BY PktDecoded DEF Decoded
<1>5. Wires'
  BY <1>1, <1>4, ChanSendsOK DEF Inv
<1> QED
  BY <1>1, <1>2, <1>3, <1>5, FieldStep

LEMMA GlobalInv == ASSUME Inv, GlobalBegins \/ GlobalSends \/ GlobalReturns \/ ServeGlobal PROVE Inv'
<1>1. UNCHANGED <<scene, ch, slots, inChans>>
  BY DEF GlobalBegins, GlobalSends, GlobalReturns, ServeGlobal, history
<1>2. \/ wire' = wire
      \/ Sends(Opener, <<Pkt("global", 0)>>)
      \/ \E e \in Ends : Sends(e, <<Pkt("greply", 0)>>)
  BY Zenon DEF GlobalBegins, GlobalSends, GlobalReturns, ServeGlobal
<1>3. Wires'
  BY <1>2, SameWires, FirstChannel, PktDecoded, OneSent, SendsOK DEF Inv
<1> QED
  BY <1>1, <1>3, QuietStep

-----------------------------------------------------------------------------
(* The loop                                                                *)

LEMMA FailsInv ==
    ASSUME Inv, NEW e \in Ends, wire[e] # <<>>, Fails(e), UNCHANGED <<scene, inChans>>
    PROVE  Inv'
  BY PopOK, QuietStep DEF Fails, Inv

LEMMA RecvOpenInv == ASSUME Inv, NEW e \in Ends, RecvOpen(e) PROVE Inv'
<1>0. wire[e] # <<>> /\ scene' = scene
  BY DEF RecvOpen, Running, history
<1> PICK p : p = Next1(e)
  OBVIOUS
<1>1. Decoded(p)
  BY <1>0, NextDecoded DEF Inv
<1>2. CASE p.win = -1 /\ PopAndSend(e, <<Pkt("failure", p.id)>>) /\ UNCHANGED <<ch, slots, inChans>>
  BY <1>0, <1>2, PktDecoded, OneSent, PopAndSendOK, QuietStep DEF Inv
<1>3. CASE p.win >= 0
  <2> PICK o, c : o = Fresh(e) /\ c = NewChannel(e, "asked")
    OBVIOUS
  <2> PICK d : d = [c EXCEPT !.rid = p.id, !.rWin = p.win, !.pair = p.from]
    OBVIOUS
  <2>1. /\ ch' = [ch EXCEPT ![e][o] = d] /\ slots' = [slots EXCEPT ![e][c.id] = o]
        /\ inChans' = [inChans EXCEPT ![e] = Append(@, o)] /\ wire' = Pop(e) /\ HasFresh(e)
    BY <1>3 DEF RecvOpen
  <2>2. o \in Chans /\ ch[e][o].st = "free"
    BY <2>1, FreshFree
  <2>3. Sound(c) /\ c.st = "asked" /\ ~c.closed
    BY NewSound
  <2>4. p.win \in 0 .. Limit - 1
    BY <1>1, <1>3, Sizes DEF Decoded, Limit
  <2>5. Sound(d) /\ d.st = "asked" /\ ~d.closed /\ d.id = c.id
    <3>1. DOMAIN c = ChanFields
      BY <2>3 DEF Sound
    <3>2. /\ DOMAIN d = ChanFields /\ d.myWin = c.myWin /\ d.myCons = c.myCons /\ d.buf = c.buf
          /\ d.left = c.left /\ d.hold = c.hold /\ d.rWin = p.win
          /\ d.st = c.st /\ d.closed = c.closed /\ d.id = c.id
      BY <3>1 DEF ChanFields
    <3> QED
      BY <2>3, <2>4, <3>2, WindowSound
  <2>6. DOMAIN inChans' = Ends /\ \A f \in Ends : inChans'[f] \in Seq(Chans)
    <3>1. DOMAIN inChans = Ends /\ \A f \in Ends : inChans[f] \in Seq(Chans)
      BY Lists
    <3>2. Append(inChans[e], o) \in Seq(Chans)
      BY <2>2, <3>1
    <3> QED
      BY <2>1, <3>1, <3>2
  <2>7. Wires'
    BY <1>0, <2>1, PopOK DEF Inv
  <2>8. slots' = [slots EXCEPT ![e][d.id] = o] /\ d.st # "free"
    BY <2>1, <2>5
  <2> QED
    BY <1>0, <2>1, <2>2, <2>5, <2>6, <2>7, <2>8, NewStep, ZenonT(40)
<1> QED
  BY <1>2, <1>3 DEF RecvOpen

LEMMA RecvUnknownInv == ASSUME Inv, NEW e \in Ends, RecvUnknown(e) PROVE Inv'
<1>0. wire[e] # <<>> /\ UNCHANGED <<scene, inChans>>
  BY DEF RecvUnknown, history
<1>1. CASE PopAndSend(e, <<Pkt("reply", Next1(e).to)>>) /\ UNCHANGED <<loop, ch, slots>>
  BY <1>0, <1>1, PktDecoded, OneSent, PopAndSendOK, QuietStep DEF Inv
<1>2. CASE Fails(e)
  BY <1>0, <1>2, FailsInv
<1> QED
  BY <1>1, <1>2 DEF RecvUnknown

LEMMA RecvPingInv == ASSUME Inv, NEW e \in Ends, RecvPing(e) PROVE Inv'
<1>0. wire[e] # <<>> /\ UNCHANGED <<scene, ch, slots, inChans>> /\ PopAndSend(e, <<Pkt("pong", -1)>>)
  BY DEF RecvPing, Running, history
<1> QED
  BY <1>0, PktDecoded, OneSent, PopAndSendOK, QuietStep DEF Inv

LEMMA RecvGlobalInv == ASSUME Inv, NEW e \in Ends, RecvGlobal(e) PROVE Inv'
<1>0. wire[e] # <<>> /\ UNCHANGED <<scene, ch, slots, inChans>> /\ wire' = Pop(e)
  BY DEF RecvGlobal, Running, history
<1> QED
  BY <1>0, PopOK, QuietStep DEF Inv


\* A step of the loop on the channel that a packet is for.
LEMMA LoopStep ==
    ASSUME Inv, NEW e \in Ends, Target(e) # 0, NEW d, ch' = [ch EXCEPT ![e][Target(e)] = d],
           Sound(d), Stays(d, ch[e][Target(e)]), UNCHANGED <<scene, inChans>>, Shrinks, Wires'
    PROVE  Inv'
<1> PICK o : o = Target(e)
  OBVIOUS
<1>1. o \in Chans
  BY TargetListed
<1>2. DOMAIN inChans' = Ends /\ \A f \in Ends : inChans'[f] \in Seq(Chans)
  BY Lists
<1>3. ch' = [ch EXCEPT ![e][o] = d] /\ Stays(d, ch[e][o]) /\ scene' = scene
  OBVIOUS
<1> QED
  BY <1>1, <1>2, <1>3, ChanStep

LEMMA OpenAnswerInv == ASSUME Inv, NEW e \in Ends, OpenAnswer(e) PROVE Inv'
<1>0. wire[e] # <<>> /\ UNCHANGED <<scene, inChans>> /\ Target(e) # 0
  BY DEF OpenAnswer, Running, history
<1> PICK o, p : o = Target(e) /\ p = Next1(e)
  OBVIOUS
<1> PICK c : c = ch[e][o]
  OBVIOUS
<1>1. Sound(c) /\ Decoded(p) /\ DOMAIN c = ChanFields
  BY <1>0, NextDecoded, TargetListed DEF Inv, Sound
<1>2. CASE Fails(e)
  BY <1>0, <1>2, FailsInv
<1>3. CASE ~Fails(e)
  <2>1. /\ wire' = Pop(e)
        /\ \/ /\ p.t = "confirm" /\ p.win >= 0
              /\ ch' = [ch EXCEPT ![e][o] =
                          [c EXCEPT !.decided = TRUE, !.rid = p.id, !.rWin = AddWindow(@, p.win),
                                    !.msg = Append(@, p.t), !.pair = p.from]]
              /\ UNCHANGED slots
           \/ /\ p.t = "failure"
              /\ ch' = [ch EXCEPT ![e][o] = [c EXCEPT !.decided = TRUE, !.msg = Append(@, p.t)]]
              /\ slots' = [slots EXCEPT ![e][c.id] = 0]
    BY <1>3 DEF OpenAnswer
  <2>2. Wires'
    BY <1>0, <2>1, PopOK DEF Inv
  <2>3. CASE p.t = "failure"
    <3> PICK d : d = [c EXCEPT !.decided = TRUE, !.msg = Append(@, p.t)]
      OBVIOUS
    <3>1. Like(d, c) /\ Stays(d, c)
      BY <1>1 DEF Like, Stays, ChanFields
    <3>2. Sound(d)
      BY <1>1, <3>1, LikeSound
    <3>3. Shrinks
      BY <2>1, <2>3, SlotCleared DEF Inv
    <3>4. ch' = [ch EXCEPT ![e][Target(e)] = d] /\ Stays(d, ch[e][Target(e)])
      BY <2>1, <2>3, <3>1
    <3> QED
      BY <1>0, <2>2, <3>2, <3>3, <3>4, LoopStep
  <2>4. CASE p.t # "failure"
    <3> PICK w : w = AddWindow(c.rWin, p.win)
      OBVIOUS
    <3> PICK d : d = [c EXCEPT !.decided = TRUE, !.rid = p.id, !.rWin = w, !.msg = Append(@, p.t), !.pair = p.from]
      OBVIOUS
    <3>1. w \in 0 .. Limit - 1
      <4> PICK a, n : a = c.rWin /\ n = p.win
        OBVIOUS
      <4>1. a \in 0 .. Limit - 1 /\ n \in 0 .. Limit - 1
        BY <1>1, <2>1, <2>4, Sizes, SMTT(30) DEF Sound, Decoded, Limit
      <4>2. WindowFits(a, n) => a + n \in 0 .. Limit - 1
        BY ONLY <4>1, Fits
      <4> QED
        BY <4>1, <4>2 DEF AddWindow
    <3>2. /\ DOMAIN d = ChanFields /\ d.myWin = c.myWin /\ d.myCons = c.myCons /\ d.buf = c.buf
          /\ d.left = c.left /\ d.hold = c.hold /\ d.rWin = w
          /\ d.st = c.st /\ d.closed = c.closed /\ d.id = c.id
      BY <1>1 DEF ChanFields
    <3>3. Sound(d)
      BY <1>1, <3>1, <3>2, WindowSound, ZenonT(40)
    <3>4. Shrinks
      BY <2>1, <2>4, SlotsKept DEF Inv
    <3>5. ch' = [ch EXCEPT ![e][Target(e)] = d] /\ Stays(d, ch[e][Target(e)])
      BY <2>1, <2>4, <3>2 DEF Stays
    <3> QED
      BY <1>0, <2>2, <3>3, <3>4, <3>5, LoopStep
  <2> QED
    BY <2>3, <2>4
<1> QED
  BY <1>2, <1>3

LEMMA RecvDataInv == ASSUME Inv, NEW e \in Ends, RecvData(e) PROVE Inv'
<1>0. wire[e] # <<>> /\ UNCHANGED <<scene, inChans>> /\ Target(e) # 0
  BY DEF RecvData, Running, history
<1> PICK o, p : o = Target(e) /\ p = Next1(e)
  OBVIOUS
<1> PICK c, n : c = ch[e][o] /\ n = Len(p.bytes)
  OBVIOUS
<1> PICK back : back = IF p.x \in Buffered \/ n = 0 \/ c.sentClose THEN 0
                       ELSE Raise([c EXCEPT !.myWin = @ - n], n)
  OBVIOUS
<1> PICK d, ps : /\ d = TakeData(c, p.x, p.bytes)
                 /\ ps = IF back = 0 THEN <<>> ELSE <<[Pkt("adjust", c.rid) EXCEPT !.win = back]>>
  OBVIOUS
<1>1. Sound(c) /\ Decoded(p)
  BY <1>0, NextDecoded, TargetListed DEF Inv
<1>2. \/ Fails(e)
      \/ /\ DataFits(c, n) /\ ch' = [ch EXCEPT ![e][o] = d] /\ PopAndSend(e, ps) /\ UNCHANGED <<loop, slots>>
  BY DEF RecvData
<1>3. CASE Fails(e)
  BY <1>0, <1>3, FailsInv
<1>4. CASE DataFits(c, n) /\ ch' = [ch EXCEPT ![e][o] = d] /\ PopAndSend(e, ps) /\ UNCHANGED <<loop, slots>>
  <2> PICK x, bytes : x = p.x /\ bytes = p.bytes
    OBVIOUS
  <2>1. x \in Streams /\ bytes \in Seq(Int) /\ DataFits(c, Len(bytes)) /\ d = TakeData(c, x, bytes)
    BY <1>1, <1>4 DEF Decoded
  <2>2. /\ Sound(d) /\ Stays(d, c)
        /\ Raise([c EXCEPT !.myWin = @ - Len(bytes)], Len(bytes)) \in 0 .. Limit - 1
    BY ONLY <1>1, <2>1, TakeDataSound
  <2>3. back \in 0 .. Limit - 1
    BY <2>2, Sizes
  <2>4. WireOK(ps)
    <3> PICK q : q = [Pkt("adjust", c.rid) EXCEPT !.win = back]
      OBVIOUS
    <3>1. q.win = back /\ q.x = 0 /\ q.bytes = <<>>
      BY PktDecoded
    <3>2. Decoded(q)
      BY <2>3, <3>1, WinDecoded
    <3> QED
      BY <3>2, NothingSent, OneSent
  <2>5. Wires'
    BY <1>0, <1>4, <2>4, PopAndSendOK DEF Inv
  <2>6. Shrinks
    BY <1>4, SlotsKept DEF Inv
  <2>7. ch' = [ch EXCEPT ![e][Target(e)] = d] /\ Stays(d, ch[e][Target(e)])
    BY <1>4, <2>2
  <2> QED
    BY <1>0, <2>2, <2>5, <2>6, <2>7, LoopStep
<1> QED
  BY <1>2, <1>3, <1>4

LEMMA RecvAdjustInv == ASSUME Inv, NEW e \in Ends, RecvAdjust(e) PROVE Inv'
<1>0. wire[e] # <<>> /\ UNCHANGED <<scene, inChans>> /\ Target(e) # 0 /\ Next1(e).t = "adjust"
  BY DEF RecvAdjust, Running, history
<1> PICK o, n : o = Target(e) /\ n = Next1(e).win
  OBVIOUS
<1> PICK c : c = ch[e][o]
  OBVIOUS
<1>1. Sound(c) /\ Decoded(Next1(e)) /\ DOMAIN c = ChanFields /\ o \in Chans
  BY <1>0, NextDecoded, TargetListed DEF Inv, Sound
<1>2. \/ Fails(e)
      \/ /\ WindowFits(c.rWin, n) /\ ch' = [ch EXCEPT ![e][o].rWin = @ + n]
         /\ wire' = Pop(e) /\ UNCHANGED <<loop, slots>>
  BY DEF RecvAdjust
<1>3. CASE Fails(e)
  BY <1>0, <1>3, FailsInv
<1>4. CASE /\ WindowFits(c.rWin, n) /\ ch' = [ch EXCEPT ![e][o].rWin = @ + n]
           /\ wire' = Pop(e) /\ UNCHANGED <<loop, slots>>
  <2> PICK a : a = c.rWin
    OBVIOUS
  <2> PICK d : d = [c EXCEPT !.rWin = a + n]
    OBVIOUS
  <2>1. a \in 0 .. Limit - 1 /\ n \in 0 .. Limit - 1 /\ WindowFits(a, n)
    BY <1>0, <1>1, <1>4, Sizes, SMTT(30) DEF Sound, Decoded, Limit
  <2>2. a + n \in 0 .. Limit - 1
    BY ONLY <2>1, Fits
  <2>3. ch' = [ch EXCEPT ![e][o] = d]
    BY <1>1, <1>4 DEF Inv, Shape
  <2>4. /\ DOMAIN d = ChanFields /\ d.myWin = c.myWin /\ d.myCons = c.myCons /\ d.buf = c.buf
        /\ d.left = c.left /\ d.hold = c.hold /\ d.rWin = a + n
        /\ d.st = c.st /\ d.closed = c.closed /\ d.id = c.id
    BY <1>1 DEF ChanFields
  <2>5. Sound(d)
    BY <1>1, <2>2, <2>4, WindowSound
  <2>6. Shrinks /\ Wires'
    BY <1>0, <1>4, SlotsKept, PopOK DEF Inv
  <2>7. ch' = [ch EXCEPT ![e][Target(e)] = d] /\ Stays(d, ch[e][Target(e)])
    BY <2>3, <2>4 DEF Stays
  <2> QED
    BY <1>0, <2>5, <2>6, <2>7, LoopStep
<1> QED
  BY <1>2, <1>3, <1>4


LEMMA RecvEOFInv == ASSUME Inv, NEW e \in Ends, RecvEOF(e) PROVE Inv'
<1>0. wire[e] # <<>> /\ UNCHANGED <<scene, slots, inChans>> /\ Target(e) # 0 /\ wire' = Pop(e)
      /\ ch' = [ch EXCEPT ![e][Target(e)].eof = TRUE]
  BY DEF RecvEOF, Running, history
<1> PICK o : o = Target(e)
  OBVIOUS
<1> PICK c : c = ch[e][o]
  OBVIOUS
<1> PICK d : d = [c EXCEPT !.eof = TRUE]
  OBVIOUS
<1>1. o \in Chans
  BY <1>0, TargetListed
<1>2. ch' = [ch EXCEPT ![e][o] = d]
  BY <1>0, <1>1 DEF Inv, Shape
<1>3. Like(d, c) /\ Stays(d, c)
  BY <1>1, ChanDomain DEF Like, Stays, ChanFields
<1>4. Wires'
  BY <1>0, PopOK, Zenon DEF Inv
<1> QED
  BY <1>0, <1>1, <1>2, <1>3, <1>4, FieldStep

LEMMA RecvRequestInv == ASSUME Inv, NEW e \in Ends, RecvRequest(e) PROVE Inv'
<1>0. wire[e] # <<>> /\ UNCHANGED <<scene, slots, inChans>> /\ Target(e) # 0 /\ wire' = Pop(e)
      /\ ch' = [ch EXCEPT ![e][Target(e)].reqs = Append(@, Next1(e).tag)]
  BY DEF RecvRequest, Running, history
<1> PICK o : o = Target(e)
  OBVIOUS
<1> PICK c : c = ch[e][o]
  OBVIOUS
<1> PICK d : d = [c EXCEPT !.reqs = Append(@, Next1(e).tag)]
  OBVIOUS
<1>1. o \in Chans
  BY <1>0, TargetListed
<1>2. ch' = [ch EXCEPT ![e][o] = d]
  BY <1>0, <1>1 DEF Inv, Shape
<1>3. Like(d, c) /\ Stays(d, c)
  BY <1>1, ChanDomain DEF Like, Stays, ChanFields
<1>4. Wires'
  BY <1>0, PopOK DEF Inv
<1> QED
  BY <1>0, <1>1, <1>2, <1>3, <1>4, FieldStep

LEMMA RecvReplyInv == ASSUME Inv, NEW e \in Ends, RecvReply(e) PROVE Inv'
<1>0. wire[e] # <<>> /\ UNCHANGED <<scene, slots, inChans>> /\ Target(e) # 0 /\ wire' = Pop(e)
      /\ (ch' = ch \/ ch' = [ch EXCEPT ![e][Target(e)].msg = Append(@, Next1(e).tag)])
  BY DEF RecvReply, Running, history
<1> PICK o : o = Target(e)
  OBVIOUS
<1> PICK c : c = ch[e][o]
  OBVIOUS
<1> PICK d : d = [c EXCEPT !.msg = Append(@, Next1(e).tag)]
  OBVIOUS
<1>1. o \in Chans
  BY <1>0, TargetListed
<1>2. Wires'
  BY <1>0, PopOK DEF Inv
<1>3. CASE ch' = ch
  BY <1>0, <1>2, <1>3, QuietStep
<1>4. CASE ch' = [ch EXCEPT ![e][Target(e)].msg = Append(@, Next1(e).tag)]
  <2>1. ch' = [ch EXCEPT ![e][o] = d]
    BY <1>1, <1>4 DEF Inv, Shape
  <2>2. Like(d, c) /\ Stays(d, c)
    BY <1>1, ChanDomain DEF Like, Stays, ChanFields
  <2> QED
    BY <1>0, <1>1, <1>2, <2>1, <2>2, FieldStep
<1> QED
  BY <1>0, <1>3, <1>4

LEMMA CloseSound == ASSUME NEW c, Sound(c) PROVE Sound(CloseChannel(c))
<1> PICK d : d = CloseChannel(c)
  OBVIOUS
<1>1. DOMAIN c = ChanFields
  BY DEF Sound
<1>2. Like(d, c)
  BY <1>1 DEF Like, ChanFields, CloseChannel
<1>3. Sound(d)
  BY <1>2, LikeSound
<1> QED
  BY <1>3

\* No other slot holds a listed channel, so that one which is closed leaves the list.
LEMMA RecvCloseInv == ASSUME Inv, NEW e \in Ends, RecvClose(e) PROVE Inv'
<1> PICK o : o = Target(e)
  OBVIOUS
<1> PICK c : c = ch[e][o]
  OBVIOUS
<1> PICK d, ps : d = CloseChannel(c) /\ ps = IF c.sentClose THEN <<>> ELSE <<Pkt("close", c.rid)>>
  OBVIOUS
<1>0. /\ wire[e] # <<>> /\ UNCHANGED <<scene, inChans>> /\ o # 0 /\ PopAndSend(e, ps)
      /\ slots' = [slots EXCEPT ![e][c.id] = 0] /\ ch' = [ch EXCEPT ![e][o] = d]
  BY DEF RecvClose, Running, history
<1>1. o \in Chans /\ Sound(c) /\ c.id \in DOMAIN slots[e]
  BY <1>0, TargetListed
<1>2. Sound(d)
  BY <1>1, CloseSound
<1>3. WireOK(ps)
  BY NothingSent, OneSent, PktDecoded
<1>4. Wires'
  BY <1>0, <1>3, PopAndSendOK DEF Inv
<1>5. Shrinks /\ slots'[e][c.id] = 0
  BY <1>0, <1>1, SlotCleared DEF Inv
<1>6. \A i \in DOMAIN slots[e] : slots'[e][i] # o
  <2> SUFFICES ASSUME NEW i \in DOMAIN slots[e], slots'[e][i] = o PROVE FALSE
    OBVIOUS
  <2>1. slots[e][i] = o
    BY <1>0, <1>5 DEF Shrinks
  <2>2. c.id = i
    BY <1>0, <2>1 DEF Inv, ListedOpen
  <2> QED
    BY <1>0, <1>5, <2>2
<1>7. DOMAIN inChans' = Ends /\ (\A f \in Ends : inChans'[f] \in Seq(Chans)) /\ scene' = scene
  BY <1>0, Lists
<1>8. ch' = [ch EXCEPT ![e][o] = d]
  BY <1>0
<1> QED
  BY <1>1, <1>2, <1>4, <1>5, <1>6, <1>7, <1>8, ChanStep

-----------------------------------------------------------------------------
(* The end of the connection                                               *)

LEMMA ReadFailsInv == ASSUME Inv, NEW e \in Ends, ReadFails(e) PROVE Inv'
  BY SameWires, QuietStep DEF ReadFails, history

LEMMA DropAllInv == ASSUME Inv, NEW e \in Ends, DropAll(e) PROVE Inv'
<1>1. /\ UNCHANGED <<scene, wire, inChans>>
      /\ ch' = [ch EXCEPT ![e] = [o \in Chans |-> IF \E i \in DOMAIN slots[e] : slots[e][i] = o
                                                  THEN CloseChannel(ch[e][o]) ELSE ch[e][o]]]
      /\ slots' = [slots EXCEPT ![e] = [i \in DOMAIN slots[e] |-> 0]]
  BY DEF DropAll, history
<1>2. Wires'
  BY <1>1, SameWires
<1>3. /\ DOMAIN ch' = Ends /\ (\A f \in Ends : DOMAIN ch'[f] = Chans)
      /\ \A f \in Ends \ {e} : ch'[f] = ch[f]
      /\ \A o \in Chans : ch'[e][o] \in {CloseChannel(ch[e][o]), ch[e][o]}
  <2>1. DOMAIN ch = Ends /\ \A f \in Ends : DOMAIN ch[f] = Chans
    BY DEF Inv, Shape
  <2> PICK g : g = [o \in Chans |-> IF \E i \in DOMAIN slots[e] : slots[e][i] = o
                                    THEN CloseChannel(ch[e][o]) ELSE ch[e][o]]
    OBVIOUS
  <2>2. DOMAIN g = Chans /\ \A o \in Chans : g[o] \in {CloseChannel(ch[e][o]), ch[e][o]}
    OBVIOUS
  <2>3. ch' = [ch EXCEPT ![e] = g]
    BY <1>1
  <2> QED
    BY <2>1, <2>2, <2>3
<1>4. AllSound'
  BY <1>3, CloseSound DEF Inv, AllSound
<1>5. /\ DOMAIN slots' = Ends /\ \A f \in Ends : DOMAIN slots'[f] = DOMAIN slots[f]
      /\ \A i \in DOMAIN slots[e] : slots'[e][i] = 0
      /\ \A f \in Ends \ {e} : slots'[f] = slots[f]
  BY <1>1 DEF Inv, Shape
<1>6. Shape'
  <2>1. ASSUME NEW f \in Ends
        PROVE  /\ DOMAIN slots'[f] = 0 .. MaxChannels - 1
               /\ \A i \in DOMAIN slots'[f] : slots'[f][i] \in 0 .. MaxChannels
    <3>1. DOMAIN slots[f] = 0 .. MaxChannels - 1 /\ \A i \in DOMAIN slots[f] : slots[f][i] \in 0 .. MaxChannels
      BY DEF Inv, Shape
    <3>2. 0 \in 0 .. MaxChannels
      BY MuxAssumption
    <3> QED
      BY <1>5, <3>1, <3>2
  <2>2. scene' \in Scenarios /\ DOMAIN inChans' = Ends /\ \A f \in Ends : inChans'[f] \in Seq(Chans)
    BY <1>1, Lists DEF Inv, Shape
  <2> QED
    BY <1>3, <1>5, <2>1, <2>2 DEF Shape
<1>7. ListedOpen'
  <2> SUFFICES ASSUME NEW f \in Ends, NEW i \in DOMAIN slots'[f], slots'[f][i] # 0
               PROVE  /\ ch'[f][slots'[f][i]].id = i /\ ~ch'[f][slots'[f][i]].closed
                      /\ ch'[f][slots'[f][i]].st # "free"
    BY DEF ListedOpen
  <2>1. f # e
    BY <1>5
  <2> QED
    BY <1>3, <1>5, <2>1 DEF Inv, ListedOpen
<1> QED
  BY <1>2, <1>4, <1>6, <1>7 DEF Inv

LEMMA CloseConnInv == ASSUME Inv, NEW e \in Ends, CloseConn(e) PROVE Inv'
<1>1. UNCHANGED <<scene, ch, slots, inChans>> /\ wire' = [wire EXCEPT ![e] = <<>>]
  BY DEF CloseConn, history
<1>2. Wires'
  BY <1>1, NothingSent DEF Inv, Wires
<1> QED
  BY <1>1, <1>2, QuietStep

LEMMA StrayInv == ASSUME Inv, NEW e \in Ends, Stray(e) PROVE Inv'
<1>1. UNCHANGED <<scene, ch, slots, inChans>>
  BY DEF Stray
<1>2. PICK p \in StrayPackets : wire' = [wire EXCEPT ![e] = Append(@, p)]
  BY DEF Stray
<1>3. WireOK(wire[e]) /\ WireOK(<<p>>)
  BY PacketsAssumption, OneSent DEF Inv, Wires
<1>4. Append(wire[e], p) = wire[e] \o <<p>>
  <2>1. PICK S : wire[e] \in Seq(S)
    BY <1>3 DEF WireOK, IsASeq
  <2> PICK w, T : w = wire[e] /\ T = S \cup {p}
    OBVIOUS
  <2>2. w \in Seq(T) /\ p \in T
    BY <2>1
  <2>3. Append(w, p) = w \o <<p>>
    BY <2>2
  <2> QED
    BY <2>3
<1>5. WireOK(Append(wire[e], p))
  BY <1>3, <1>4, WireConcat
<1>6. Wires'
  BY <1>2, <1>5 DEF Inv, Wires
<1> QED
  BY <1>1, <1>6, QuietStep

-----------------------------------------------------------------------------
(* The theorem                                                             *)

LEMMA InitInv == Init => Inv
<1> SUFFICES ASSUME Init PROVE Inv
  OBVIOUS
<1>1. Wires
  BY NothingSent DEF Init, Wires
<1>2. AllSound
  BY FreeSound DEF Init, AllSound
<1>3. <<>> \in Seq(Chans) /\ 0 \in 0 .. MaxChannels
  BY MuxAssumption
<1>4. Shape
  BY <1>3 DEF Init, Shape
<1>5. ListedOpen
  BY DEF Init, ListedOpen
<1> QED
  BY <1>1, <1>2, <1>4, <1>5 DEF Inv

LEMMA LoopInv == ASSUME Inv, NEW e \in Ends, Loop(e) PROVE Inv'
  BY RecvOpenInv, RecvGlobalInv, RecvUnknownInv, RecvPingInv, OpenAnswerInv, RecvDataInv, RecvAdjustInv,
     RecvEOFInv, RecvCloseInv, RecvRequestInv, RecvReplyInv, ReadFailsInv, DropAllInv, CloseConnInv DEF Loop

LEMMA NextInv == Inv /\ [Next]_vars => Inv'
<1> SUFFICES ASSUME Inv, [Next]_vars PROVE Inv'
  OBVIOUS
<1>1. CASE OpenChannel
  BY <1>1, OpenChannelInv
<1>2. CASE \E o \in Chans : OpenReturns(o)
  BY <1>2, OpenReturnsInv
<1>3. CASE \E r \in Callers : Caller(r)
  BY <1>3, CallerInv
<1>4. CASE GlobalBegins \/ GlobalSends \/ GlobalReturns \/ ServeGlobal
  BY <1>4, GlobalInv
<1>5. ASSUME NEW e \in Ends, Loop(e) \/ Accept(e) \/ Reject(e) \/ CloseConn(e) \/ Stray(e) PROVE Inv'
  BY <1>5, LoopInv, AcceptInv, RejectInv, CloseConnInv, StrayInv
<1>6. ASSUME NEW e \in Ends, NEW o \in Chans, CloseWrite(e, o) \/ Close(e, o) \/ Serve(e, o) PROVE Inv'
  BY <1>6, CloseWriteInv, CloseInv, ServeInv
<1>7. ASSUME NEW e \in Ends, NEW o \in Chans, NEW x \in Streams, Writer(e, o, x) PROVE Inv'
  BY <1>7, ReserveInv, WriteDataInv DEF Writer
<1>8. ASSUME NEW e \in Ends, NEW o \in Chans, NEW x \in Buffered, Read(e, o, x) PROVE Inv'
  BY <1>8, ReadInv
<1>9. CASE UNCHANGED vars
  BY <1>9, SameWires, QuietStep DEF vars, history
<1> QED
  BY <1>1, <1>2, <1>3, <1>4, <1>5, <1>6, <1>7, <1>8, <1>9 DEF Next

LEMMA InvSound == Inv => ChannelsSound
<1> SUFFICES ASSUME Inv PROVE ChannelsSound
  OBVIOUS
<1>1. ASSUME NEW e \in Ends, NEW o \in Chans, NEW c, c = ch[e][o]
      PROVE  /\ c.myWin >= 0 /\ c.myCons >= 0 /\ c.rWin \in 0 .. 2 ^ Width - 1
             /\ c.myWin + c.myCons + Len(c.buf[0]) + Len(c.buf[1]) = WindowSize
  <2>1. Sound(c)
    BY <1>1, ChanDomain
  <2>2. c.myWin \in Nat /\ c.myCons \in Nat /\ c.rWin \in 0 .. Limit - 1
    BY <2>1 DEF Sound
  <2>3. c.buf[0] \in Seq(Int) /\ c.buf[1] \in Seq(Int)
    BY <2>1 DEF Sound
  <2>4. \A s \in Seq(Int) : Len(s) \in Nat
    OBVIOUS
  <2> PICK l0, l1 \in Nat : l0 = Len(c.buf[0]) /\ l1 = Len(c.buf[1])
    BY <2>3, <2>4
  <2>5. Held(c.buf) = l0 + l1
    BY HeldIs
  <2>6. Held(c.buf) \in Nat /\ c.myWin + c.myCons + Held(c.buf) = WindowSize
    BY <2>1 DEF Sound
  <2> PICK w, m, h \in Nat : w = c.myWin /\ m = c.myCons /\ h = Held(c.buf)
    BY <2>2, <2>6
  <2>7. w + m + l0 + l1 = WindowSize
    <3>1. h = l0 + l1 /\ w + m + h = WindowSize
      BY <2>5, <2>6
    <3> QED
      BY ONLY <3>1, w \in Nat, m \in Nat, l0 \in Nat, l1 \in Nat
  <2> QED
    BY <2>2, <2>7 DEF Limit
<1>2. WindowsKept
  BY <1>1 DEF WindowsKept
<1> QED
  BY <1>2 DEF ChannelsSound, Inv

\* For every number of channels, window size and width, capacity of the Go
\* channels and any stray packets in between: window.add and adjustWindow never
\* overflow or go below zero, an end never buffers more than its window, and the
\* loop (mux.onePacket) finds channels that are open under their own number.
THEOREM ChannelsSoundCorrect == Spec => []ChannelsSound
<1>1. Init => Inv
  BY InitInv
<1>2. Inv /\ [Next]_vars => Inv'
  BY NextInv
<1>3. Inv => ChannelsSound
  BY InvSound
<1> QED
  BY <1>1, <1>2, <1>3, PTL DEF Spec
-----------------------------------------------------------------------------
(* What is on the way to a channel                                         *)

\* What a channel can be sent.
ChanTypes == {"confirm", "failure", "data", "eof", "close", "adjust", "request", "reply"}
For(p, i) == p.t \in ChanTypes /\ p.to = i
Quiet(w, i) == \A k \in DOMAIN w : ~For(w[k], i)

Reads(e) == loop[e] = "run" /\ conn[e] = "up"
Listed(e, o) == ch[e][o].id \in DOMAIN slots[e] /\ slots[e][ch[e][o].id] = o

\* Channel o of e and channel q of its peer are the two ends of one channel.
Mate(e, o, q) == IF e = Opener THEN ch[Other][q].pair = o ELSE ch[Other][o].pair = q

\* Channel q of f may send.
Active(f, q) ==
    LET c == ch[f][q] IN
    c.decided /\ c.pair # 0 /\ c.st # "rejected" /\ ~c.sentClose /\ conn[f] = "up"

\* How far a reader has come: it waits for an answer, reads, has seen the end of
\* the stream, was closed or refused; and the bytes of each stream.
Legal(r, j, q, s, p, t) ==
    \/ p.t = "confirm" /\ s.ph = "wait" /\ t = [ph |-> "on", n |-> s.n] /\ p.from = q /\ p.id = j /\ p.win >= 0
    \/ p.t = "failure" /\ s.ph = "wait" /\ t = [ph |-> "no", n |-> s.n]
    \/ /\ p.t = "data" /\ s.ph = "on"
       /\ IF p.x \in Buffered
          THEN /\ p.bytes = [i \in 1 .. Len(p.bytes) |-> s.n[p.x] + i]
               /\ t = [ph |-> "on", n |-> [s.n EXCEPT ![p.x] = @ + Len(p.bytes)]]
          ELSE t = s
    \/ p.t = "eof" /\ s.ph = "on" /\ t = [ph |-> "fin", n |-> s.n]
    \/ p.t = "close" /\ s.ph \in {"on", "fin"} /\ t = [ph |-> "off", n |-> s.n]
    \/ p.t \in {"adjust", IF r = Opener THEN "reply" ELSE "request"} /\ s.ph \in {"on", "fin"} /\ t = s

Arrived(c, x) == c.got[x] \o c.buf[x]
At(e, o) ==
    LET c == ch[e][o] IN
    [ph |-> IF e = Opener /\ ~c.decided THEN "wait" ELSE IF c.eof THEN "fin" ELSE "on",
     n |-> [x \in Buffered |-> Len(Arrived(c, x))]]

\* z is how far the writer has come.
Sender(f, q, z) ==
    LET c == ch[f][q] IN
    /\ z.n \in [Buffered -> Int] /\ \A x \in Buffered : z.n[x] = c.out[x]
    /\ ~c.decided => z.ph = IF f = Other THEN "wait" ELSE "on"
    /\ Active(f, q) => z.ph = IF c.sentEOF THEN "fin" ELSE "on"
    /\ c.st = "rejected" => z.ph \in {"wait", "no"}

\* The packets of w for slot i take its reader from a to z; they come from
\* channel q, of number j, of the peer.
Carries(r, j, q, w, i, a, z) ==
    \E st : /\ st[0] = a /\ st[Len(w)] = z
            /\ \A k \in 1 .. Len(w) : IF For(w[k], i) THEN Legal(r, j, q, st[k - 1], w[k], st[k])
                                      ELSE st[k] = st[k - 1]

LEMMA LeastNumber ==
    ASSUME NEW T, T \subseteq Nat, T # {}
    PROVE  \E m \in T : \A k \in T : m <= k
<1> DEFINE R == OpToRel(<, Nat)
<1>1. IsWellFoundedOn(R, Nat)
  BY NatLessThanWellFounded, Zenon
<1> HIDE DEF R
<1>2. PICK m \in T : \A y \in T : ~ (<<y, m>> \in R)
  BY ONLY <1>1, T \subseteq Nat, T # {}, WFMin
<1>3. \A y \in T : y < m => <<y, m>> \in R
  BY DEF R, OpToRel
<1>4. ASSUME NEW k \in T PROVE m <= k
  <2>1. k \in Nat /\ m \in Nat /\ ~(k < m)
    BY <1>2, <1>3
  <2> QED
    BY <2>1
<1> QED
  BY <1>4

LEMMA Induction ==
    ASSUME NEW S, 0 \in S, \A n \in Nat : n \in S => n + 1 \in S
    PROVE  Nat \subseteq S
<1> SUFFICES ASSUME NEW T, T = {n \in Nat : n \notin S}, T # {} PROVE FALSE
  OBVIOUS
<1>1. PICK m \in T : \A k \in T : m <= k
  BY LeastNumber
<1>2. m \in Nat /\ m # 0
  BY <1>1
<1>3. m - 1 \in Nat /\ m - 1 \notin T
  BY <1>1, <1>2
<1>4. m - 1 \in S
  BY <1>3
<1> QED
  BY <1>1, <1>2, <1>3, <1>4

LEMMA Extended ==
    ASSUME NEW w, IsASeq(w), NEW p
    PROVE  LET v == w \o <<p>> IN
           /\ IsASeq(v) /\ Len(w) \in Nat /\ Len(v) = Len(w) + 1
           /\ DOMAIN w = 1 .. Len(w) /\ DOMAIN v = 1 .. Len(w) + 1
           /\ v[Len(w) + 1] = p /\ \A k \in 1 .. Len(w) : v[k] = w[k]
<1>1. PICK S : w \in Seq(S)
  BY DEF IsASeq
<1> PICK T : T = S \cup {p}
  OBVIOUS
<1>2. w \in Seq(T) /\ <<p>> \in Seq(T)
  BY <1>1
<1> PICK v, x : v = w \o x /\ x = <<p>>
  OBVIOUS
<1>3. v \in Seq(T) /\ Len(v) = Len(w) + 1 /\ Len(w) \in Nat /\ DOMAIN w = 1 .. Len(w)
  BY <1>2
<1>4. DOMAIN v = 1 .. Len(w) + 1
  BY <1>3
<1>5. v[Len(w) + 1] = p /\ \A k \in 1 .. Len(w) : v[k] = w[k]
  BY <1>2, <1>3
<1> QED
  BY <1>3, <1>4, <1>5 DEF IsASeq

LEMMA Shortened ==
    ASSUME NEW w, IsASeq(w), w # <<>>
    PROVE  /\ IsASeq(Tail(w)) /\ Len(w) \in Nat /\ Len(w) >= 1 /\ Len(Tail(w)) = Len(w) - 1
           /\ DOMAIN w = 1 .. Len(w) /\ DOMAIN Tail(w) = 1 .. Len(w) - 1
           /\ Head(w) = w[1] /\ \A k \in 1 .. Len(w) - 1 : Tail(w)[k] = w[k + 1]
<1>1. PICK S : w \in Seq(S)
  BY DEF IsASeq
<1>2. Tail(w) \in Seq(S) /\ Len(w) \in Nat /\ Len(w) >= 1 /\ Len(Tail(w)) = Len(w) - 1 /\ DOMAIN w = 1 .. Len(w)
  BY <1>1
<1>3. DOMAIN Tail(w) = 1 .. Len(w) - 1
  BY <1>2
<1>4. Head(w) = w[1] /\ \A k \in 1 .. Len(w) - 1 : Tail(w)[k] = w[k + 1]
  BY <1>1, <1>2
<1> QED
  BY <1>2, <1>3, <1>4 DEF IsASeq

LEMMA SeqDomain == ASSUME NEW w, IsASeq(w) PROVE Len(w) \in Nat /\ DOMAIN w = 1 .. Len(w)
  BY DEF IsASeq

LEMMA NothingMore == ASSUME NEW w, IsASeq(w) PROVE w \o <<>> = w
<1>1. PICK S : w \in Seq(S)
  BY DEF IsASeq
<1> QED
  BY <1>1

\* Nothing for i: the reader stays where it is.
LEMMA CarryNone ==
    ASSUME NEW r, NEW j, NEW q, NEW w, IsASeq(w), NEW i, NEW a, Quiet(w, i)
    PROVE  Carries(r, j, q, w, i, a, a)
<1> PICK st, l : l = Len(w) /\ st = [k \in 0 .. l |-> a]
  OBVIOUS
<1>1. l \in Nat /\ DOMAIN w = 1 .. l
  BY SeqDomain
<1>2. st[0] = a /\ st[l] = a /\ \A k \in 1 .. l : ~For(w[k], i) /\ st[k] = st[k - 1]
  BY <1>1 DEF Quiet
<1> QED
  BY <1>2, Zenon DEF Carries

\* A packet for another, and one for i
LEMMA CarryMore ==
    ASSUME NEW r, NEW j, NEW q, NEW w, IsASeq(w), NEW i, NEW a, NEW z, Carries(r, j, q, w, i, a, z),
           NEW p, NEW t, IF For(p, i) THEN Legal(r, j, q, z, p, t) ELSE t = z
    PROVE  Carries(r, j, q, w \o <<p>>, i, a, t)
<1> PICK v, l, m : v = w \o <<p>> /\ l = Len(w) /\ m = l + 1
  OBVIOUS
<1>1. l \in Nat /\ Len(v) = m /\ v[m] = p /\ \A k \in 1 .. l : v[k] = w[k]
  BY Extended
<1>2. PICK st : /\ st[0] = a /\ st[l] = z
                /\ \A k \in 1 .. l : IF For(w[k], i) THEN Legal(r, j, q, st[k - 1], w[k], st[k])
                                     ELSE st[k] = st[k - 1]
  BY DEF Carries
<1> PICK su : su = [k \in 0 .. m |-> IF k = m THEN t ELSE st[k]]
  OBVIOUS
<1>3. su[0] = a /\ su[m] = t /\ su[l] = z /\ \A k \in 1 .. l : su[k] = st[k] /\ su[k - 1] = st[k - 1]
  BY <1>1, <1>2
<1>4. ASSUME NEW k \in 1 .. m
      PROVE  IF For(v[k], i) THEN Legal(r, j, q, su[k - 1], v[k], su[k]) ELSE su[k] = su[k - 1]
  <2>1. CASE k = m
    <3>1. k - 1 = l
      BY <1>1, <2>1
    <3> QED
      BY <1>1, <1>3, <2>1, <3>1
  <2>2. CASE k \in 1 .. l
    BY <1>1, <1>2, <1>3, <2>2
  <2> QED
    BY <1>1, <2>1, <2>2
<1>5. \A k \in 1 .. Len(v) : IF For(v[k], i) THEN Legal(r, j, q, su[k - 1], v[k], su[k]) ELSE su[k] = su[k - 1]
  BY <1>1, <1>4, Zenon
<1>6. Carries(r, j, q, v, i, a, t)
  BY ONLY <1>1, <1>3, <1>5, Zenon DEF Carries
<1> QED
  BY <1>6

\* The first packet is read.
LEMMA CarryPop ==
    ASSUME NEW r, NEW j, NEW q, NEW w, IsASeq(w), w # <<>>, NEW i, NEW a, NEW z, Carries(r, j, q, w, i, a, z)
    PROVE  \E t : /\ Carries(r, j, q, Tail(w), i, t, z)
                  /\ IF For(Head(w), i) THEN Legal(r, j, q, a, Head(w), t) ELSE t = a
<1> PICK v, l, m : v = Tail(w) /\ l = Len(w) /\ m = l - 1
  OBVIOUS
<1>1. l \in Nat /\ l >= 1 /\ Len(v) = m /\ Head(w) = w[1] /\ \A k \in 1 .. m : v[k] = w[k + 1]
  BY Shortened
<1>2. PICK st : /\ st[0] = a /\ st[l] = z
                /\ \A k \in 1 .. l : IF For(w[k], i) THEN Legal(r, j, q, st[k - 1], w[k], st[k])
                                     ELSE st[k] = st[k - 1]
  BY DEF Carries
<1> PICK su : su = [k \in 0 .. m |-> st[k + 1]]
  OBVIOUS
<1>3. su[0] = st[1] /\ su[m] = z /\ \A k \in 1 .. m : su[k] = st[k + 1] /\ su[k - 1] = st[k]
  BY <1>1, <1>2
<1>4. ASSUME NEW k \in 1 .. m
      PROVE  IF For(v[k], i) THEN Legal(r, j, q, su[k - 1], v[k], su[k]) ELSE su[k] = su[k - 1]
  <2>1. k + 1 \in 1 .. l /\ (k + 1) - 1 = k
    BY <1>1
  <2>2. IF For(w[k + 1], i) THEN Legal(r, j, q, st[(k + 1) - 1], w[k + 1], st[k + 1]) ELSE st[k + 1] = st[(k + 1) - 1]
    BY <1>2, <2>1, Zenon
  <2>3. su[k] = st[k + 1] /\ su[k - 1] = st[k] /\ v[k] = w[k + 1]
    BY <1>1, <1>3
  <2> QED
    BY ONLY <2>1, <2>2, <2>3, Zenon
<1>5. Carries(r, j, q, v, i, su[0], z)
  <2>1. \A k \in 1 .. Len(v) : IF For(v[k], i) THEN Legal(r, j, q, su[k - 1], v[k], su[k]) ELSE su[k] = su[k - 1]
    BY <1>1, <1>4, Zenon
  <2> QED
    BY ONLY <1>1, <1>3, <2>1, Zenon DEF Carries
<1>6. IF For(w[1], i) THEN Legal(r, j, q, a, w[1], st[1]) ELSE st[1] = a
  BY <1>1, <1>2
<1> QED
  BY <1>1, <1>3, <1>5, <1>6, Zenon

\* Phases follow in one order, and no bytes come after the last.
After(a, z) ==
    /\ a.ph = "on" => z.ph \in {"on", "fin", "off"}
    /\ a.ph = "fin" => z.ph \in {"fin", "off"}
    /\ a.ph \in {"off", "no"} => z.ph = a.ph
    /\ a.ph \in {"fin", "off", "no"} => z.n = a.n

LEMMA LegalAfter ==
    ASSUME NEW r, NEW j, NEW q, NEW a, NEW s, NEW p, NEW t, After(a, s), Legal(r, j, q, s, p, t)
    PROVE  After(a, t) /\ a.ph \notin {"off", "no"}
  BY DEF After, Legal

LEMMA CarryEnd ==
    ASSUME NEW r, NEW j, NEW q, NEW w, IsASeq(w), NEW i, NEW a, NEW z, Carries(r, j, q, w, i, a, z)
    PROVE  After(a, z) /\ (a.ph \in {"off", "no"} => Quiet(w, i))
<1> PICK l : l = Len(w)
  OBVIOUS
<1>0. l \in Nat /\ DOMAIN w = 1 .. l
  BY SeqDomain
<1>1. PICK st : /\ st[0] = a /\ st[l] = z
                /\ \A k \in 1 .. l : IF For(w[k], i) THEN Legal(r, j, q, st[k - 1], w[k], st[k])
                                     ELSE st[k] = st[k - 1]
  BY DEF Carries
<1> DEFINE S == {n \in Nat : n <= l => After(a, st[n]) /\ (a.ph \in {"off", "no"} => \A k \in 1 .. n : ~For(w[k], i))}
<1>2. 0 \in S
  BY <1>1 DEF After
<1>3. ASSUME NEW n \in Nat, n \in S PROVE n + 1 \in S
  <2> SUFFICES ASSUME n + 1 <= l
               PROVE  After(a, st[n + 1]) /\ (a.ph \in {"off", "no"} => \A k \in 1 .. n + 1 : ~For(w[k], i))
    OBVIOUS
  <2>1. After(a, st[n]) /\ (a.ph \in {"off", "no"} => \A k \in 1 .. n : ~For(w[k], i))
    BY <1>0, <1>3
  <2> PICK m : m = n + 1
    OBVIOUS
  <2>2. m \in 1 .. l /\ m - 1 = n
    BY <1>0
  <2>3. IF For(w[m], i) THEN Legal(r, j, q, st[n], w[m], st[m]) ELSE st[m] = st[n]
    BY <1>1, <2>2
  <2>4. After(a, st[m]) /\ (a.ph \in {"off", "no"} => ~For(w[m], i))
    <3>1. CASE For(w[m], i)
      BY ONLY <2>1, <2>3, <3>1, LegalAfter
    <3>2. CASE ~For(w[m], i)
      BY ONLY <2>1, <2>3, <3>2
    <3> QED
      BY <3>1, <3>2
  <2>5. \A k \in 1 .. m : k = m \/ k \in 1 .. n
    BY <2>2
  <2> QED
    BY <2>1, <2>4, <2>5
<1> HIDE DEF S
<1>4. Nat \subseteq S
  BY <1>2, <1>3, Induction
<1>5. l \in S
  BY <1>0, <1>4
<1> QED
  BY <1>0, <1>1, <1>5 DEF S, Quiet

-----------------------------------------------------------------------------
(* The invariant of one direction                                          *)

\* Packets are for channels in the list ...
Aimed(r) == \A k \in DOMAIN wire[r] : wire[r][k].t \in ChanTypes =>
                wire[r][k].to \in DOMAIN slots[r] /\ slots[r][wire[r][k].to] # 0

\* ... whose other end has been decided, ...
Hushed(r) == \A o \in Chans :
                Listed(r, o) /\ (\A q \in Chans : Mate(r, o, q) => ~ch[Peer(r)][q].decided)
                    => Quiet(wire[r], ch[r][o].id)

\* ... and take them to where the writer is.
Carried(r) == \A o, q \in Chans :
                Listed(r, o) /\ Mate(r, o, q) =>
                    \E z : Carries(r, ch[Peer(r)][q].id, q, wire[r], ch[r][o].id, At(r, o), z) /\ Sender(Peer(r), q, z)

\* A channel whose other end may send is in the list, ...
Heard(r) ==
    /\ \A o, q \in Chans : Mate(r, o, q) =>
        /\ Active(Peer(r), q) => Listed(r, o)
        /\ ~ch[Peer(r)][q].decided /\ ch[r][o].st # "rejected" => Listed(r, o)
    /\ r = Opener => \A o \in Chans : ch[r][o].st # "free" /\ ~ch[r][o].decided => Listed(r, o)

\* ... one that was refused is not, ...
Kept(r) == \A o \in Chans : Listed(r, o) => ch[r][o].st # "rejected" /\ (ch[r][o].decided => ch[r][o].pair # 0)

\* ... and one that has left the list has got everything.
Ended(r) == \A o, q \in Chans :
                Mate(r, o, q) /\ ~Listed(r, o) /\ ch[r][o].eof /\ ch[r][o].pair # 0 =>
                    \A x \in Buffered : At(r, o).n[x] = ch[Peer(r)][q].out[x]

Dir(r) == Reads(r) => Aimed(r) /\ Hushed(r) /\ Carried(r) /\ Heard(r) /\ Kept(r) /\ Ended(r)

LEMMA WireSeq == ASSUME Inv, NEW e \in Ends PROVE IsASeq(wire[e]) /\ Len(wire[e]) \in Nat /\ DOMAIN wire[e] = 1 .. Len(wire[e])
<1>1. IsASeq(wire[e])
  BY DEF Inv, Wires, WireOK
<1> QED
  BY <1>1, SeqDomain

\* Channels of other numbers do not meet.
LEMMA ListedApart ==
    ASSUME NEW e, NEW o, NEW u, Listed(e, o), Listed(e, u), ch[e][o].id = ch[e][u].id
    PROVE  o = u
  BY DEF Listed

LEMMA QuietMore == ASSUME NEW w, IsASeq(w), NEW i, Quiet(w, i), NEW p, ~For(p, i) PROVE Quiet(w \o <<p>>, i)
<1> PICK v, l : v = w \o <<p>> /\ l = Len(w)
  OBVIOUS
<1>1. l \in Nat /\ DOMAIN w = 1 .. l /\ DOMAIN v = 1 .. l + 1 /\ v[l + 1] = p /\ \A k \in 1 .. l : v[k] = w[k]
  BY Extended
<1>2. \A k \in 1 .. l + 1 : k \in 1 .. l \/ k = l + 1
  BY <1>1
<1> QED
  BY <1>1, <1>2 DEF Quiet

LEMMA QuietLess == ASSUME NEW w, IsASeq(w), w # <<>>, NEW i, Quiet(w, i) PROVE Quiet(Tail(w), i)
<1> PICK v, l : v = Tail(w) /\ l = Len(w)
  OBVIOUS
<1>1. l \in Nat /\ DOMAIN w = 1 .. l /\ DOMAIN v = 1 .. l - 1 /\ \A k \in 1 .. l - 1 : v[k] = w[k + 1]
  BY Shortened
<1>2. \A k \in 1 .. l - 1 : k + 1 \in 1 .. l
  BY <1>1
<1> QED
  BY <1>1, <1>2 DEF Quiet

-----------------------------------------------------------------------------
(* The writer's steps                                                      *)

\* What the writer does not send, its reader need not see.
Softer(f, q) ==
    LET c == ch[f][q]  d == ch'[f][q] IN
    /\ d.id = c.id /\ \A x \in Buffered : d.out[x] = c.out[x]
    /\ c.decided => d.decided
    /\ Active(f, q)' => Active(f, q) /\ d.sentEOF = c.sentEOF
    /\ d.st = "rejected" => c.st = "rejected" \/ (f = Other /\ ~c.decided)

\* Or it is confirmed, and its reader is there.
Eased(r, o, f, q) ==
    LET c == ch[f][q]  d == ch'[f][q] IN
    /\ d.id = c.id /\ \A x \in Buffered : d.out[x] = c.out[x]
    /\ c.decided => d.decided
    /\ Active(f, q)' => Active(f, q) \/ (~c.decided /\ ch[r][o].st # "rejected")
    /\ \A z : Sender(f, q, z) => Sender(f, q, z)'

LEMMA SofterEased == ASSUME NEW f, NEW q, Softer(f, q), NEW r, NEW o PROVE Eased(r, o, f, q)
<1>1. \A z : Sender(f, q, z) => Sender(f, q, z)'
  BY DEF Softer, Sender
<1> QED
  BY <1>1 DEF Softer, Eased

\* The reader's side stays as it is.
Still(r) == /\ ch'[r] = ch[r] /\ slots'[r] = slots[r] /\ (Reads(r)' => Reads(r))
            /\ \A o, q \in Chans : Mate(r, o, q)' <=> Mate(r, o, q)

LEMMA StillSame ==
    ASSUME NEW r, Still(r)
    PROVE  \A o : (Listed(r, o)' <=> Listed(r, o)) /\ At(r, o)' = At(r, o)
  BY DEF Still, Listed, At, Arrived

LEMMA OutKeeps ==
    ASSUME Inv, NEW r \in Ends, Dir(r), Still(r),
           \/ wire'[r] = wire[r]
           \/ \E p : p.t \notin ChanTypes /\ wire'[r] = wire[r] \o <<p>>,
           \A o, q \in Chans : Mate(r, o, q) => Eased(r, o, Peer(r), q)
    PROVE  Dir(r)'
<1> SUFFICES ASSUME Reads(r)' PROVE (Aimed(r) /\ Hushed(r) /\ Carried(r) /\ Heard(r) /\ Kept(r) /\ Ended(r))'
  BY DEF Dir
<1> PICK f, w, v : f = Peer(r) /\ w = wire[r] /\ v = wire'[r]
  OBVIOUS
<1>1. Aimed(r) /\ Hushed(r) /\ Carried(r) /\ Heard(r) /\ Kept(r) /\ Ended(r)
  BY DEF Dir, Still
<1>2. /\ ch'[r] = ch[r] /\ slots'[r] = slots[r]
      /\ \A o, q \in Chans : (Mate(r, o, q)' <=> Mate(r, o, q)) /\ (Mate(r, o, q) => Eased(r, o, f, q))
      /\ \A o : (Listed(r, o)' <=> Listed(r, o)) /\ At(r, o)' = At(r, o)
  BY StillSame, Zenon DEF Still
<1>3. IsASeq(w) /\ DOMAIN w = 1 .. Len(w) /\ Len(w) \in Nat
  BY WireSeq
<1>4. /\ \A k \in DOMAIN v : v[k].t \in ChanTypes => k \in DOMAIN w /\ v[k] = w[k]
      /\ \A i : Quiet(w, i) => Quiet(v, i)
      /\ \A j, q, i, a, z : Carries(r, j, q, w, i, a, z) => Carries(r, j, q, v, i, a, z)
  <2>1. CASE v = w
    BY <2>1
  <2>2. ASSUME NEW p, p.t \notin ChanTypes, v = w \o <<p>>
        PROVE  /\ \A k \in DOMAIN v : v[k].t \in ChanTypes => k \in DOMAIN w /\ v[k] = w[k]
               /\ \A i : Quiet(w, i) => Quiet(v, i)
               /\ \A j, q, i, a, z : Carries(r, j, q, w, i, a, z) => Carries(r, j, q, v, i, a, z)
    <3> PICK l : l = Len(w)
      OBVIOUS
    <3>1. l \in Nat /\ DOMAIN w = 1 .. l /\ DOMAIN v = 1 .. l + 1 /\ v[l + 1] = p /\ \A k \in 1 .. l : v[k] = w[k]
      BY ONLY <1>3, v = w \o <<p>>, l = Len(w), Extended
    <3>2. \A i : ~For(p, i)
      BY <2>2 DEF For
    <3>3. \A k \in DOMAIN v : k \in DOMAIN w \/ k = l + 1
      BY <3>1
    <3>4. \A k \in DOMAIN v : v[k].t \in ChanTypes => k \in DOMAIN w /\ v[k] = w[k]
      BY <2>2, <3>1, <3>3
    <3>5. \A i : Quiet(w, i) => Quiet(v, i)
      BY ONLY <1>3, <2>2, <3>2, QuietMore
    <3>6. \A j, q, i, a, z : Carries(r, j, q, w, i, a, z) => Carries(r, j, q, v, i, a, z)
      BY ONLY <1>3, <2>2, <3>2, CarryMore
    <3> QED
      BY <3>4, <3>5, <3>6
  <2> QED
    BY <2>1, <2>2
<1>5. Aimed(r)'
  BY <1>1, <1>2, <1>4 DEF Aimed
<1>6. Hushed(r)'
  <2> SUFFICES ASSUME NEW o \in Chans, Listed(r, o)', \A q \in Chans : Mate(r, o, q)' => ~ch'[f][q].decided
               PROVE  Quiet(v, ch'[r][o].id)
    BY DEF Hushed
  <2>1. \A q \in Chans : Mate(r, o, q) => ~ch[f][q].decided
    BY <1>2 DEF Eased
  <2>2. Listed(r, o)
    BY <1>2
  <2>3. Quiet(w, ch[r][o].id)
    BY <1>1, <2>1, <2>2 DEF Hushed
  <2> QED
    BY <1>2, <1>4, <2>3
<1>7. Carried(r)'
  <2> SUFFICES ASSUME NEW o \in Chans, NEW q \in Chans, Listed(r, o)', Mate(r, o, q)'
               PROVE  \E z : Carries(r, ch'[f][q].id, q, v, ch'[r][o].id, At(r, o)', z) /\ Sender(f, q, z)'
    BY Zenon DEF Carried
  <2>1. Listed(r, o) /\ Mate(r, o, q) /\ Eased(r, o, f, q)
    BY <1>2
  <2>2. PICK z : Carries(r, ch[f][q].id, q, w, ch[r][o].id, At(r, o), z) /\ Sender(f, q, z)
    BY <1>1, <2>1 DEF Carried
  <2>3. Sender(f, q, z)'
    BY <2>1, <2>2 DEF Eased
  <2>4. ch'[f][q].id = ch[f][q].id /\ ch'[r][o].id = ch[r][o].id /\ At(r, o)' = At(r, o)
    BY <1>2, <2>1 DEF Eased
  <2> QED
    BY ONLY <1>4, <2>2, <2>3, <2>4
<1>8. Heard(r)'
  BY <1>1, <1>2 DEF Heard, Eased
<1>9. Kept(r)'
  BY <1>1, <1>2 DEF Kept
<1>10. Ended(r)'
  BY <1>1, <1>2 DEF Ended, Eased
<1> QED
  BY <1>5, <1>6, <1>7, <1>8, <1>9, <1>10

\* Channel q of the writer sends p to its other end.
LEMMA OutSends ==
    ASSUME Inv, NEW r \in Ends, NEW f, f = Peer(r), Dir(r), Still(r), conn'[f] = conn[f],
           NEW o \in Chans, NEW q \in Chans, Mate(r, o, q),
           \A m \in Chans : (Mate(r, m, q) => m = o) /\ (Mate(r, o, m) => m = q),
           NEW p, p.t \in ChanTypes, p.to = ch[r][o].id, wire'[r] = wire[r] \o <<p>>,
           Active(f, q) \/ (~ch[f][q].decided /\ ch[r][o].st # "rejected"),
           \A m \in Chans \ {q} : ch'[f][m] = ch[f][m],
           ch'[f][q].id = ch[f][q].id, ch'[f][q].decided,
           \A z : Sender(f, q, z) => \E t : Legal(r, ch[f][q].id, q, z, p, t) /\ Sender(f, q, t)'
    PROVE  Dir(r)'
<1> SUFFICES ASSUME Reads(r)' PROVE (Aimed(r) /\ Hushed(r) /\ Carried(r) /\ Heard(r) /\ Kept(r) /\ Ended(r))'
  BY DEF Dir
<1> PICK w, v, l : w = wire[r] /\ v = wire'[r] /\ l = Len(w)
  OBVIOUS
<1>1. Aimed(r) /\ Hushed(r) /\ Carried(r) /\ Heard(r) /\ Kept(r) /\ Ended(r)
  BY DEF Dir, Still
<1>2. /\ ch'[r] = ch[r] /\ slots'[r] = slots[r]
      /\ \A m, n \in Chans : Mate(r, m, n)' <=> Mate(r, m, n)
      /\ \A m : (Listed(r, m)' <=> Listed(r, m)) /\ At(r, m)' = At(r, m)
  BY StillSame, Zenon DEF Still
<1>3. IsASeq(w) /\ v = w \o <<p>>
  BY WireSeq
<1>4. l \in Nat /\ DOMAIN w = 1 .. l /\ DOMAIN v = 1 .. l + 1 /\ v[l + 1] = p /\ \A k \in 1 .. l : v[k] = w[k]
  BY ONLY <1>3, l = Len(w), Extended
<1>5. Listed(r, o)
  BY <1>1 DEF Heard
<1>6. \A m \in Chans : Listed(r, m) /\ m # o => ~For(p, ch[r][m].id)
  BY <1>5, ListedApart DEF For
<1>7. \A m, n \in Chans : Mate(r, m, n) /\ n # q => m # o /\ ch'[f][n] = ch[f][n] /\ (Active(f, n)' <=> Active(f, n))
  BY Zenon DEF Active
<1>8. Aimed(r)'
  <2> SUFFICES ASSUME NEW k \in DOMAIN v, v[k].t \in ChanTypes
               PROVE  v[k].to \in DOMAIN slots[r] /\ slots[r][v[k].to] # 0
    BY <1>2 DEF Aimed
  <2>1. CASE k \in 1 .. l
    BY <1>1, <1>4, <2>1 DEF Aimed
  <2>2. CASE k = l + 1
    <3>1. o # 0
      BY DEF Chans
    <3> QED
      BY <1>4, <1>5, <2>2, <3>1 DEF Listed
  <2> QED
    BY <1>4, <2>1, <2>2, SMTT(30)
<1>9. Hushed(r)'
  <2> SUFFICES ASSUME NEW m \in Chans, Listed(r, m)', \A n \in Chans : Mate(r, m, n)' => ~ch'[f][n].decided
               PROVE  Quiet(v, ch'[r][m].id)
    BY DEF Hushed
  <2>1. m # o /\ Listed(r, m)
    BY <1>2
  <2>2. \A n \in Chans : Mate(r, m, n) => ~ch[f][n].decided
    BY <1>2, <1>7, <2>1
  <2>3. Quiet(w, ch[r][m].id)
    BY <1>1, <2>1, <2>2 DEF Hushed
  <2>4. ~For(p, ch[r][m].id)
    BY <1>6, <2>1
  <2>5. Quiet(v, ch[r][m].id)
    BY ONLY <1>3, <2>3, <2>4, QuietMore
  <2> QED
    BY <1>2, <2>5
<1>10. Carried(r)'
  <2> SUFFICES ASSUME NEW m \in Chans, NEW n \in Chans, Listed(r, m)', Mate(r, m, n)'
               PROVE  \E z : Carries(r, ch'[f][n].id, n, v, ch'[r][m].id, At(r, m)', z) /\ Sender(f, n, z)'
    BY Zenon DEF Carried
  <2>1. Listed(r, m) /\ Mate(r, m, n)
    BY <1>2
  <2>2. PICK z : Carries(r, ch[f][n].id, n, w, ch[r][m].id, At(r, m), z) /\ Sender(f, n, z)
    BY <1>1, <2>1 DEF Carried
  <2>3. ch'[r][m].id = ch[r][m].id /\ At(r, m)' = At(r, m)
    BY <1>2
  <2>4. CASE n = q
    <3>1. m = o
      BY <2>1, <2>4
    <3>2. PICK t : Legal(r, ch[f][q].id, q, z, p, t) /\ Sender(f, q, t)'
      BY <2>2, <2>4
    <3>3. For(p, ch[r][o].id)
      BY DEF For
    <3>4. Carries(r, ch[f][q].id, q, v, ch[r][o].id, At(r, o), t)
      BY ONLY <1>3, <2>2, <2>4, <3>1, <3>2, <3>3, CarryMore
    <3>5. ch'[f][q].id = ch[f][q].id
      OBVIOUS
    <3> QED
      BY ONLY <2>3, <2>4, <3>1, <3>2, <3>4, <3>5
  <2>5. CASE n # q
    <3>1. m # o /\ ch'[f][n] = ch[f][n] /\ (Active(f, n)' <=> Active(f, n))
      BY <1>7, <2>1, <2>5
    <3>2. ~For(p, ch[r][m].id)
      BY <1>6, <2>1, <3>1
    <3>3. Carries(r, ch[f][n].id, n, v, ch[r][m].id, At(r, m), z)
      BY ONLY <1>3, <2>2, <3>2, CarryMore
    <3>4. Sender(f, n, z)'
      BY <2>2, <3>1 DEF Sender
    <3> QED
      BY ONLY <2>3, <3>1, <3>3, <3>4
  <2> QED
    BY <2>4, <2>5
<1>11. Heard(r)'
  <2>1. ASSUME NEW m \in Chans, NEW n \in Chans, Mate(r, m, n)'
        PROVE  /\ Active(f, n)' => Listed(r, m)'
               /\ ~ch'[f][n].decided /\ ch'[r][m].st # "rejected" => Listed(r, m)'
    <3>1. CASE n = q
      <4>1. m = o
        BY <1>2, <2>1, <3>1
      <4> QED
        BY <1>2, <1>5, <4>1
    <3>2. CASE n # q
      BY <1>1, <1>2, <1>7, <2>1, <3>2 DEF Heard
    <3> QED
      BY <3>1, <3>2
  <2>2. r = Opener => \A m \in Chans : ch'[r][m].st # "free" /\ ~ch'[r][m].decided => Listed(r, m)'
    BY <1>1, <1>2 DEF Heard
  <2> QED
    BY <2>1, <2>2 DEF Heard
<1>12. Kept(r)'
  BY <1>1, <1>2 DEF Kept
<1>13. Ended(r)'
  <2> SUFFICES ASSUME NEW m \in Chans, NEW n \in Chans, Mate(r, m, n)', ~Listed(r, m)', ch'[r][m].eof, ch'[r][m].pair # 0
               PROVE  \A x \in Buffered : At(r, m)'.n[x] = ch'[f][n].out[x]
    BY DEF Ended
  <2>1. Mate(r, m, n) /\ ~Listed(r, m) /\ ch[r][m].eof /\ ch[r][m].pair # 0 /\ n # q
    BY <1>2, <1>5
  <2>2. \A x \in Buffered : At(r, m).n[x] = ch[f][n].out[x]
    BY <1>1, <2>1 DEF Ended
  <2> QED
    BY <1>2, <1>7, <2>1, <2>2
<1> QED
  BY <1>8, <1>9, <1>10, <1>11, <1>12, <1>13

-----------------------------------------------------------------------------
(* The reader's steps                                                      *)


\* What the reader does not take from the wire
Reading(e, o) ==
    LET c == ch[e][o]  d == ch'[e][o] IN
    /\ d.id = c.id /\ d.pair = c.pair /\ d.eof = c.eof /\ At(e, o)' = At(e, o)
    /\ d.st = "rejected" <=> c.st = "rejected"
    /\ c.st = "free" => d.st = "free"
    /\ c.decided => d.decided
    /\ d.decided => c.decided \/ c.pair # 0

LEMMA QuitSame ==
    ASSUME NEW e \in Ends, ch'[Peer(e)] = ch[Peer(e)], conn'[Peer(e)] = conn[Peer(e)]
    PROVE  \A q : (Active(Peer(e), q)' <=> Active(Peer(e), q)) /\ \A z : Sender(Peer(e), q, z)' <=> Sender(Peer(e), q, z)
<1>1. \A q : Active(Peer(e), q)' <=> Active(Peer(e), q)
  BY PeerFacts DEF Active
<1> QED
  BY <1>1, PeerFacts DEF Sender

LEMMA MateSame ==
    ASSUME NEW e \in Ends, ch'[Peer(e)] = ch[Peer(e)], NEW o, NEW q, ch'[e][o].pair = ch[e][o].pair
    PROVE  Mate(e, o, q)' <=> Mate(e, o, q)
  BY MuxAssumption DEF Mate, Peer, Ends

LEMMA InKeeps ==
    ASSUME Inv, NEW e \in Ends, Dir(e), ch'[Peer(e)] = ch[Peer(e)], conn'[Peer(e)] = conn[Peer(e)],
           slots'[e] = slots[e], Reads(e)' => Reads(e),
           \/ wire'[e] = wire[e]
           \/ wire[e] # <<>> /\ Head(wire[e]).t \notin ChanTypes /\ wire'[e] = Tail(wire[e]),
           \A o \in Chans : Reading(e, o)
    PROVE  Dir(e)'
<1> SUFFICES ASSUME Reads(e)' PROVE (Aimed(e) /\ Hushed(e) /\ Carried(e) /\ Heard(e) /\ Kept(e) /\ Ended(e))'
  BY DEF Dir
<1> PICK f, w, v : f = Peer(e) /\ w = wire[e] /\ v = wire'[e]
  OBVIOUS
<1>1. Aimed(e) /\ Hushed(e) /\ Carried(e) /\ Heard(e) /\ Kept(e) /\ Ended(e)
  BY DEF Dir
<1>2. /\ ch'[f] = ch[f] /\ slots'[e] = slots[e]
      /\ \A q : (Active(f, q)' <=> Active(f, q)) /\ \A z : Sender(f, q, z)' <=> Sender(f, q, z)
  BY QuitSame, Zenon
<1>3. \A o \in Chans : /\ Reading(e, o) /\ (Listed(e, o)' <=> Listed(e, o))
                       /\ \A q \in Chans : Mate(e, o, q)' <=> Mate(e, o, q)
  <2> SUFFICES ASSUME NEW o \in Chans
               PROVE  (Listed(e, o)' <=> Listed(e, o)) /\ \A q \in Chans : Mate(e, o, q)' <=> Mate(e, o, q)
    OBVIOUS
  <2>1. ch'[e][o].id = ch[e][o].id /\ ch'[e][o].pair = ch[e][o].pair
    BY DEF Reading
  <2>2. Listed(e, o)' <=> Listed(e, o)
    BY <1>2, <2>1 DEF Listed
  <2>3. \A q \in Chans : Mate(e, o, q)' <=> Mate(e, o, q)
    BY <2>1, MateSame
  <2> QED
    BY <2>2, <2>3
<1>4. /\ \A k \in DOMAIN v : \E m \in DOMAIN w : v[k] = w[m]
      /\ \A i : Quiet(w, i) => Quiet(v, i)
      /\ \A j, q, i, a, z : Carries(e, j, q, w, i, a, z) => Carries(e, j, q, v, i, a, z)
  <2>0. IsASeq(w)
    BY WireSeq
  <2>1. CASE v = w
    BY <2>1
  <2>2. CASE w # <<>> /\ Head(w).t \notin ChanTypes /\ v = Tail(w)
    <3> PICK l : l = Len(w)
      OBVIOUS
    <3>1. l \in Nat /\ DOMAIN w = 1 .. l /\ DOMAIN v = 1 .. l - 1 /\ \A k \in 1 .. l - 1 : v[k] = w[k + 1]
      BY ONLY <2>0, <2>2, l = Len(w), Shortened
    <3>2. \A i : ~For(Head(w), i)
      BY <2>2 DEF For
    <3>3. \A k \in DOMAIN v : k + 1 \in DOMAIN w /\ v[k] = w[k + 1]
      BY <3>1
    <3>4. \A i : Quiet(w, i) => Quiet(v, i)
      BY ONLY <2>0, <2>2, QuietLess
    <3>5. \A j, q, i, a, z : Carries(e, j, q, w, i, a, z) => Carries(e, j, q, v, i, a, z)
      BY ONLY <2>0, <2>2, <3>2, CarryPop
    <3> QED
      BY <3>3, <3>4, <3>5
  <2> QED
    BY <2>1, <2>2
<1>5. Aimed(e)'
  BY <1>1, <1>2, <1>4 DEF Aimed
<1>6. Hushed(e)'
  <2> SUFFICES ASSUME NEW o \in Chans, Listed(e, o)', \A q \in Chans : Mate(e, o, q)' => ~ch'[f][q].decided
               PROVE  Quiet(v, ch'[e][o].id)
    BY DEF Hushed
  <2>1. Quiet(w, ch[e][o].id)
    BY <1>1, <1>2, <1>3 DEF Hushed
  <2>2. ch'[e][o].id = ch[e][o].id
    BY <1>3 DEF Reading
  <2> QED
    BY <1>4, <2>1, <2>2
<1>7. Carried(e)'
  <2> SUFFICES ASSUME NEW o \in Chans, NEW q \in Chans, Listed(e, o)', Mate(e, o, q)'
               PROVE  \E z : Carries(e, ch'[f][q].id, q, v, ch'[e][o].id, At(e, o)', z) /\ Sender(f, q, z)'
    BY Zenon DEF Carried
  <2>1. PICK z : Carries(e, ch[f][q].id, q, w, ch[e][o].id, At(e, o), z) /\ Sender(f, q, z)
    BY <1>1, <1>3 DEF Carried
  <2>2. ch'[e][o].id = ch[e][o].id /\ At(e, o)' = At(e, o) /\ ch'[f][q].id = ch[f][q].id
    BY <1>2, <1>3 DEF Reading
  <2> QED
    BY ONLY <1>2, <1>4, <2>1, <2>2
<1>8. Heard(e)'
  BY <1>1, <1>2, <1>3 DEF Heard, Reading
<1>9. Kept(e)'
  BY <1>1, <1>3 DEF Kept, Reading
<1>10. Ended(e)'
  BY <1>1, <1>2, <1>3 DEF Ended, Reading
<1> QED
  BY <1>5, <1>6, <1>7, <1>8, <1>9, <1>10

LEMMA WireHead ==
    ASSUME Inv, NEW e \in Ends, wire[e] # <<>>
    PROVE  LET w == wire[e]  v == Tail(w)  l == Len(w) IN
           /\ IsASeq(w) /\ l \in Nat /\ DOMAIN w = 1 .. l /\ 1 \in DOMAIN w /\ Next1(e) = w[1]
           /\ IsASeq(v) /\ DOMAIN v = 1 .. l - 1 /\ \A k \in DOMAIN v : k + 1 \in DOMAIN w /\ v[k] = w[k + 1]
<1> PICK w, v, l : w = wire[e] /\ v = Tail(w) /\ l = Len(w)
  OBVIOUS
<1>1. IsASeq(w)
  BY WireSeq
<1>2. /\ IsASeq(v) /\ l \in Nat /\ l >= 1 /\ DOMAIN w = 1 .. l /\ DOMAIN v = 1 .. l - 1
      /\ Head(w) = w[1] /\ \A k \in 1 .. l - 1 : v[k] = w[k + 1]
  BY <1>1, Shortened
<1>3. 1 \in DOMAIN w /\ \A k \in DOMAIN v : k + 1 \in DOMAIN w
  BY <1>2
<1> QED
  BY <1>1, <1>2, <1>3 DEF Next1

\* The packet at the head of the wire is for a channel in the list, whose other
\* end has been decided.
LEMMA HeadFacts ==
    ASSUME Inv, NEW e \in Ends, Dir(e), Reads(e), wire[e] # <<>>, Next1(e).t \in ChanTypes
    PROVE  LET o == Target(e) IN
           /\ o \in Chans /\ o # 0 /\ Listed(e, o) /\ For(Next1(e), ch[e][o].id)
           /\ \E q \in Chans : Mate(e, o, q) /\ ch[Peer(e)][q].decided
<1> PICK o, p : o = Target(e) /\ p = Next1(e)
  OBVIOUS
<1>1. Aimed(e) /\ Hushed(e)
  BY DEF Dir
<1>2. 1 \in DOMAIN wire[e] /\ p = wire[e][1]
  BY WireHead
<1>3. p.to \in DOMAIN slots[e] /\ slots[e][p.to] = o /\ o # 0
  BY <1>1, <1>2 DEF Aimed, Target
<1>4. o \in Chans /\ ch[e][o].id = p.to
  BY <1>3, TargetListed
<1>5. Listed(e, o) /\ For(p, ch[e][o].id)
  BY <1>3, <1>4 DEF Listed, For
<1>6. ~Quiet(wire[e], ch[e][o].id)
  BY <1>2, <1>5 DEF Quiet
<1>7. \E q \in Chans : Mate(e, o, q) /\ ch[Peer(e)][q].decided
  BY <1>1, <1>4, <1>5, <1>6 DEF Hushed
<1> QED
  BY <1>3, <1>4, <1>5, <1>7

LEMMA HeadLegal ==
    ASSUME Inv, NEW e \in Ends, Dir(e), Reads(e), wire[e] # <<>>, NEW o \in Chans, Listed(e, o),
           For(Next1(e), ch[e][o].id), NEW q \in Chans, Mate(e, o, q)
    PROVE  \E t, z : /\ Legal(e, ch[Peer(e)][q].id, q, At(e, o), Next1(e), t)
                     /\ Carries(e, ch[Peer(e)][q].id, q, Tail(wire[e]), ch[e][o].id, t, z)
                     /\ Sender(Peer(e), q, z) /\ After(t, z)
                     /\ t.ph \in {"off", "no"} => Quiet(Tail(wire[e]), ch[e][o].id)
<1> PICK f, w, v, i, j, p : /\ f = Peer(e) /\ w = wire[e] /\ v = Tail(w) /\ i = ch[e][o].id /\ j = ch[f][q].id
                            /\ p = Next1(e)
  OBVIOUS
<1>1. PICK z : Carries(e, j, q, w, i, At(e, o), z) /\ Sender(f, q, z)
  BY DEF Dir, Carried
<1>2. IsASeq(w) /\ IsASeq(v) /\ p = Head(w) /\ w # <<>>
  BY WireHead DEF Next1
<1>3. PICK t : Carries(e, j, q, v, i, t, z) /\ (IF For(p, i) THEN Legal(e, j, q, At(e, o), p, t) ELSE t = At(e, o))
  BY ONLY <1>1, <1>2, v = Tail(w), CarryPop
<1>4. After(t, z) /\ (t.ph \in {"off", "no"} => Quiet(v, i))
  BY ONLY <1>2, <1>3, CarryEnd
<1>5. Legal(e, j, q, At(e, o), p, t)
  BY <1>3
<1> QED
  BY <1>1, <1>3, <1>4, <1>5, Zenon

\* What is not for i, and what is left
LEMMA PopOther ==
    ASSUME Inv, NEW e \in Ends, wire[e] # <<>>, NEW i, ~For(Next1(e), i),
           NEW j, NEW q, NEW a, NEW z, Carries(e, j, q, wire[e], i, a, z)
    PROVE  Carries(e, j, q, Tail(wire[e]), i, a, z)
<1> PICK w, v, p : w = wire[e] /\ v = Tail(w) /\ p = Head(w)
  OBVIOUS
<1>1. IsASeq(w) /\ w # <<>> /\ ~For(p, i) /\ Carries(e, j, q, w, i, a, z)
  BY WireHead DEF Next1
<1> QED
  BY ONLY <1>1, v = Tail(w), w = wire[e], p = Head(w), CarryPop

LEMMA PopQuiet ==
    ASSUME Inv, NEW e \in Ends, wire[e] # <<>>, NEW i, Quiet(wire[e], i)
    PROVE  Quiet(Tail(wire[e]), i)
  BY WireHead, QuietLess

\* The first packet is read by its channel, which stays in the list.
LEMMA InPops ==
    ASSUME Inv, NEW e \in Ends, NEW f, f = Peer(e), Dir(e), Reads(e), wire[e] # <<>>, Next1(e).t \in ChanTypes,
           wire'[e] = Tail(wire[e]), ch'[f] = ch[f], conn'[f] = conn[f], slots'[e] = slots[e],
           NEW o, o = Target(e), NEW d, d = ch'[e][o], \A m \in Chans \ {o} : ch'[e][m] = ch[e][m],
           d.id = ch[e][o].id, e = Other => d.pair = ch[e][o].pair,
           d.st # "rejected", d.decided => d.pair # 0, ch[e][o].decided => d.decided,
           \A q \in Chans : \A t : Mate(e, o, q) /\ Legal(e, ch[f][q].id, q, At(e, o), Next1(e), t) => t = At(e, o)'
    PROVE  Dir(e)'
<1> PICK w, v, p : w = wire[e] /\ v = wire'[e] /\ p = Next1(e)
  OBVIOUS
<1>1. Aimed(e) /\ Hushed(e) /\ Carried(e) /\ Heard(e) /\ Kept(e) /\ Ended(e)
  BY DEF Dir
<1>2. o \in Chans /\ Listed(e, o) /\ For(p, ch[e][o].id) /\ \E q \in Chans : Mate(e, o, q) /\ ch[f][q].decided
  BY HeadFacts, Zenon
<1>3. \A q : (Active(f, q)' <=> Active(f, q)) /\ \A z : Sender(f, q, z)' <=> Sender(f, q, z)
  BY QuitSame
<1>4. \A m \in Chans : (Listed(e, m)' <=> Listed(e, m)) /\ \A q \in Chans : Mate(e, m, q)' <=> Mate(e, m, q)
  <2> SUFFICES ASSUME NEW m \in Chans
               PROVE  (Listed(e, m)' <=> Listed(e, m)) /\ \A q \in Chans : Mate(e, m, q)' <=> Mate(e, m, q)
    OBVIOUS
  <2>1. ch'[e][m].id = ch[e][m].id /\ (e = Other => ch'[e][m].pair = ch[e][m].pair)
    BY <1>2
  <2>2. Listed(e, m)' <=> Listed(e, m)
    BY <2>1 DEF Listed
  <2>3. \A q \in Chans : Mate(e, m, q)' <=> Mate(e, m, q)
    BY <2>1, MuxAssumption DEF Mate, Peer, Ends
  <2> QED
    BY <2>2, <2>3
<1>5. \A m \in Chans \ {o} : ch'[e][m] = ch[e][m] /\ At(e, m)' = At(e, m)
  BY DEF At, Arrived
<1>6. \A m \in Chans \ {o} : Listed(e, m) => ~For(p, ch[e][m].id)
  BY <1>2, ListedApart DEF For
<1>7. \A k \in DOMAIN v : k + 1 \in DOMAIN w /\ v[k] = w[k + 1]
  BY WireHead
<1>8. Aimed(e)'
  BY <1>1, <1>7 DEF Aimed
<1>9. Hushed(e)'
  <2> SUFFICES ASSUME NEW m \in Chans, Listed(e, m)', \A q \in Chans : Mate(e, m, q)' => ~ch'[f][q].decided
               PROVE  Quiet(v, ch'[e][m].id)
    BY DEF Hushed
  <2>1. m # o
    BY <1>2, <1>4
  <2>2. Quiet(w, ch[e][m].id)
    BY <1>1, <1>4 DEF Hushed
  <2> QED
    BY <1>5, <2>1, <2>2, PopQuiet
<1>10. Carried(e)'
  <2> SUFFICES ASSUME NEW m \in Chans, NEW q \in Chans, Listed(e, m)', Mate(e, m, q)'
               PROVE  \E z : Carries(e, ch'[f][q].id, q, v, ch'[e][m].id, At(e, m)', z) /\ Sender(f, q, z)'
    BY Zenon DEF Carried
  <2>0. Listed(e, m) /\ Mate(e, m, q)
    BY <1>4
  <2>1. CASE m = o
    <3>1. PICK t, z : /\ Legal(e, ch[f][q].id, q, At(e, o), p, t)
                      /\ Carries(e, ch[f][q].id, q, v, ch[e][o].id, t, z) /\ Sender(f, q, z)
      <4>1. \E t, z : /\ Legal(e, ch[Peer(e)][q].id, q, At(e, o), Next1(e), t)
                      /\ Carries(e, ch[Peer(e)][q].id, q, Tail(wire[e]), ch[e][o].id, t, z)
                      /\ Sender(Peer(e), q, z)
        BY <1>2, <2>0, <2>1, HeadLegal, ZenonT(30)
      <4> QED
        BY <4>1, Zenon
    <3>2. t = At(e, o)'
      BY <2>0, <2>1, <3>1
    <3> QED
      BY <1>3, <2>1, <3>1, <3>2, Zenon
  <2>2. CASE m # o
    <3>1. PICK z : Carries(e, ch[f][q].id, q, w, ch[e][m].id, At(e, m), z) /\ Sender(f, q, z)
      BY <1>1, <2>0 DEF Carried
    <3>2. Carries(e, ch[f][q].id, q, v, ch[e][m].id, At(e, m), z)
      BY <1>6, <2>0, <2>2, <3>1, PopOther
    <3>3. ch'[e][m] = ch[e][m] /\ At(e, m)' = At(e, m)
      BY <1>5, <2>2
    <3> QED
      BY <1>3, <3>1, <3>2, <3>3, Zenon
  <2> QED
    BY <2>1, <2>2
<1>11. Heard(e)'
  <2>1. ASSUME NEW m \in Chans, NEW q \in Chans, Mate(e, m, q)'
        PROVE  /\ Active(f, q)' => Listed(e, m)'
               /\ ~ch'[f][q].decided /\ ch'[e][m].st # "rejected" => Listed(e, m)'
    <3>1. CASE m = o
      BY <1>2, <1>4, <3>1
    <3>2. CASE m # o
      BY <1>1, <1>3, <1>4, <1>5, <2>1, <3>2 DEF Heard
    <3> QED
      BY <3>1, <3>2
  <2>2. ASSUME e = Opener, NEW m \in Chans, ch'[e][m].st # "free", ~ch'[e][m].decided PROVE Listed(e, m)'
    BY <1>1, <1>2, <1>4, <1>5, <2>2 DEF Heard
  <2> QED
    BY <2>1, <2>2 DEF Heard
<1>12. Kept(e)'
  BY <1>1, <1>4, <1>5 DEF Kept
<1>13. Ended(e)'
  <2> SUFFICES ASSUME NEW m \in Chans, NEW q \in Chans, Mate(e, m, q)', ~Listed(e, m)', ch'[e][m].eof, ch'[e][m].pair # 0
               PROVE  \A x \in Buffered : At(e, m)'.n[x] = ch'[f][q].out[x]
    BY DEF Ended
  <2>1. m # o
    BY <1>2, <1>4
  <2> QED
    BY <1>1, <1>4, <1>5, <2>1 DEF Ended
<1> QED
  BY <1>8, <1>9, <1>10, <1>11, <1>12, <1>13 DEF Dir

\* A channel leaves the list.
LEMMA Unlisted ==
    ASSUME Inv, NEW e \in Ends, NEW o \in Chans, Listed(e, o), slots' = [slots EXCEPT ![e][ch[e][o].id] = 0],
           \A m \in Chans : ch'[e][m].id = ch[e][m].id
    PROVE  /\ ~Listed(e, o)' /\ \A m \in Chans \ {o} : Listed(e, m)' <=> Listed(e, m)
           /\ DOMAIN slots'[e] = DOMAIN slots[e] /\ slots'[Peer(e)] = slots[Peer(e)]
           /\ \A i \in DOMAIN slots[e] : i # ch[e][o].id => slots'[e][i] = slots[e][i]
<1> PICK i : i = ch[e][o].id
  OBVIOUS
<1>0. DOMAIN slots = Ends /\ i \in DOMAIN slots[e] /\ slots[e][i] = o /\ Peer(e) \in Ends /\ Peer(e) # e
  BY PeerFacts DEF Inv, Shape, Listed
<1>1. /\ DOMAIN slots'[e] = DOMAIN slots[e] /\ slots'[e][i] = 0 /\ slots'[Peer(e)] = slots[Peer(e)]
      /\ \A k \in DOMAIN slots[e] : k # i => slots'[e][k] = slots[e][k]
  BY <1>0
<1>2. \A m \in Chans : m # 0
  BY DEF Chans
<1>3. ~Listed(e, o)'
  BY <1>1, <1>2 DEF Listed
<1>4. \A m \in Chans \ {o} : Listed(e, m)' <=> Listed(e, m)
  BY <1>0, <1>1, <1>2 DEF Listed
<1> QED
  BY <1>1, <1>3, <1>4

\* The first packet ends its channel.
LEMMA InCloses ==
    ASSUME Inv, NEW e \in Ends, NEW f, f = Peer(e), Dir(e), Reads(e), wire[e] # <<>>, Next1(e).t \in {"close", "failure"},
           wire'[e] = Tail(wire[e]), ch'[f] = ch[f], conn'[f] = conn[f],
           NEW o, o = Target(e), slots' = [slots EXCEPT ![e][ch[e][o].id] = 0],
           NEW d, d = ch'[e][o], \A m \in Chans \ {o} : ch'[e][m] = ch[e][m],
           d.id = ch[e][o].id, d.pair = ch[e][o].pair, e = Opener => d.decided, At(e, o)'.n = At(e, o).n
    PROVE  Dir(e)'
<1> PICK w, v, p, i : w = wire[e] /\ v = wire'[e] /\ p = Next1(e) /\ i = ch[e][o].id
  OBVIOUS
<1>0. p.t \in ChanTypes
  BY DEF ChanTypes
<1>1. Aimed(e) /\ Hushed(e) /\ Carried(e) /\ Heard(e) /\ Kept(e) /\ Ended(e)
  BY DEF Dir
<1>2. o \in Chans /\ Listed(e, o) /\ For(p, i) /\ \E q \in Chans : Mate(e, o, q) /\ ch[f][q].decided
  BY <1>0, HeadFacts, Zenon
<1>3. \A q : (Active(f, q)' <=> Active(f, q)) /\ \A z : Sender(f, q, z)' <=> Sender(f, q, z)
  BY QuitSame
<1>4. \A m \in Chans : ch'[e][m].id = ch[e][m].id /\ ch'[e][m].pair = ch[e][m].pair
  BY <1>2
<1>5. /\ ~Listed(e, o)' /\ \A m \in Chans \ {o} : Listed(e, m)' <=> Listed(e, m)
      /\ DOMAIN slots'[e] = DOMAIN slots[e]
      /\ \A k \in DOMAIN slots[e] : k # i => slots'[e][k] = slots[e][k]
  <2>1. /\ Inv /\ e \in Ends /\ o \in Chans /\ Listed(e, o) /\ slots' = [slots EXCEPT ![e][ch[e][o].id] = 0] /\ i = ch[e][o].id
        /\ \A m \in Chans : ch'[e][m].id = ch[e][m].id
    BY <1>2, <1>4
  <2> QED
    BY ONLY <2>1, Unlisted, ZenonT(60)
<1>6. \A m \in Chans, q \in Chans : Mate(e, m, q)' <=> Mate(e, m, q)
  BY <1>4, MateSame
<1>7. \A m \in Chans \ {o} : ch'[e][m] = ch[e][m] /\ At(e, m)' = At(e, m)
  BY DEF At, Arrived
<1>8. \A m \in Chans \ {o} : Listed(e, m) => ~For(p, ch[e][m].id)
  BY <1>2, ListedApart DEF For
<1>9. \A k \in DOMAIN v : k + 1 \in DOMAIN w /\ v[k] = w[k + 1]
  BY WireHead
<1>10. ASSUME NEW q \in Chans, Mate(e, o, q)
       PROVE  /\ Quiet(v, i) /\ ~Active(f, q) /\ ch[f][q].decided
              /\ \A x \in Buffered : At(e, o).n[x] = ch[f][q].out[x]
  <2>1. PICK t, z : /\ Legal(e, ch[f][q].id, q, At(e, o), p, t) /\ Sender(f, q, z) /\ After(t, z)
                    /\ t.ph \in {"off", "no"} => Quiet(v, i)
    <3>1. \E t, z : /\ Legal(e, ch[Peer(e)][q].id, q, At(e, o), Next1(e), t)
                    /\ Sender(Peer(e), q, z) /\ After(t, z)
                    /\ t.ph \in {"off", "no"} => Quiet(Tail(wire[e]), ch[e][o].id)
      BY <1>2, <1>10, HeadLegal, ZenonT(30)
    <3> QED
      BY <3>1, Zenon
  <2>2. t.ph \in {"off", "no"} /\ t.n = At(e, o).n
    BY <2>1 DEF Legal
  <2>3. z.ph \in {"off", "no"} /\ z.n = At(e, o).n
    BY <2>1, <2>2 DEF After
  <2> QED
    BY <2>1, <2>2, <2>3 DEF Sender
<1>11. Quiet(v, i)
  BY <1>2, <1>10
<1>12. Aimed(e)'
  <2> SUFFICES ASSUME NEW k \in DOMAIN v, v[k].t \in ChanTypes
               PROVE  v[k].to \in DOMAIN slots'[e] /\ slots'[e][v[k].to] # 0
    BY DEF Aimed
  <2>1. v[k].to \in DOMAIN slots[e] /\ slots[e][v[k].to] # 0
    BY <1>1, <1>9 DEF Aimed
  <2>2. v[k].to # i
    BY <1>11 DEF Quiet, For
  <2> QED
    BY <1>5, <2>1, <2>2
<1>13. Hushed(e)'
  <2> SUFFICES ASSUME NEW m \in Chans, Listed(e, m)', \A q \in Chans : Mate(e, m, q)' => ~ch'[f][q].decided
               PROVE  Quiet(v, ch'[e][m].id)
    BY DEF Hushed
  <2>1. m # o
    BY <1>5
  <2>2. Quiet(w, ch[e][m].id)
    BY <1>1, <1>5, <1>6, <2>1 DEF Hushed
  <2> QED
    BY <1>7, <2>1, <2>2, PopQuiet
<1>14. Carried(e)'
  <2> SUFFICES ASSUME NEW m \in Chans, NEW q \in Chans, Listed(e, m)', Mate(e, m, q)'
               PROVE  \E z : Carries(e, ch'[f][q].id, q, v, ch'[e][m].id, At(e, m)', z) /\ Sender(f, q, z)'
    BY Zenon DEF Carried
  <2>0. Listed(e, m) /\ Mate(e, m, q) /\ m # o
    BY <1>5, <1>6
  <2>1. PICK z : Carries(e, ch[f][q].id, q, w, ch[e][m].id, At(e, m), z) /\ Sender(f, q, z)
    BY <1>1, <2>0 DEF Carried
  <2>2. Carries(e, ch[f][q].id, q, v, ch[e][m].id, At(e, m), z)
    BY <1>8, <2>0, <2>1, PopOther
  <2>3. ch'[e][m] = ch[e][m] /\ At(e, m)' = At(e, m)
    BY <1>7, <2>0
  <2> QED
    BY <1>3, <2>1, <2>2, <2>3, Zenon
<1>15. Heard(e)'
  <2>1. ASSUME NEW m \in Chans, NEW q \in Chans, Mate(e, m, q)'
        PROVE  /\ Active(f, q)' => Listed(e, m)'
               /\ ~ch'[f][q].decided /\ ch'[e][m].st # "rejected" => Listed(e, m)'
    <3>1. CASE m = o
      BY <1>2, <1>3, <1>6, <1>10, <2>1, <3>1
    <3>2. CASE m # o
      BY <1>1, <1>3, <1>5, <1>6, <1>7, <2>1, <3>2 DEF Heard
    <3> QED
      BY <3>1, <3>2
  <2>2. ASSUME e = Opener, NEW m \in Chans, ch'[e][m].st # "free", ~ch'[e][m].decided PROVE Listed(e, m)'
    BY <1>1, <1>5, <1>7, <2>2 DEF Heard
  <2> QED
    BY <2>1, <2>2 DEF Heard
<1>16. Kept(e)'
  BY <1>1, <1>5, <1>7 DEF Kept
<1>17. Ended(e)'
  <2> SUFFICES ASSUME NEW m \in Chans, NEW q \in Chans, Mate(e, m, q)', ~Listed(e, m)', ch'[e][m].eof, ch'[e][m].pair # 0
               PROVE  \A x \in Buffered : At(e, m)'.n[x] = ch'[f][q].out[x]
    BY DEF Ended
  <2>1. CASE m = o
    BY <1>2, <1>6, <1>10, <2>1
  <2>2. CASE m # o
    BY <1>1, <1>5, <1>6, <1>7, <2>2 DEF Ended
  <2> QED
    BY <2>1, <2>2
<1> QED
  BY <1>12, <1>13, <1>14, <1>15, <1>16, <1>17 DEF Dir

LEMMA CarryQuiet ==
    ASSUME NEW r, NEW j, NEW q, NEW w, IsASeq(w), NEW i, NEW a, NEW z, Carries(r, j, q, w, i, a, z), Quiet(w, i)
    PROVE  z = a
<1> PICK l : l = Len(w)
  OBVIOUS
<1>0. l \in Nat /\ DOMAIN w = 1 .. l
  BY SeqDomain
<1>1. PICK st : /\ st[0] = a /\ st[l] = z
                /\ \A k \in 1 .. l : IF For(w[k], i) THEN Legal(r, j, q, st[k - 1], w[k], st[k])
                                     ELSE st[k] = st[k - 1]
  BY DEF Carries
<1> DEFINE S == {n \in Nat : n <= l => st[n] = a}
<1>2. 0 \in S
  BY <1>1
<1>3. ASSUME NEW n \in Nat, n \in S PROVE n + 1 \in S
  <2> SUFFICES ASSUME n + 1 <= l PROVE st[n + 1] = a
    OBVIOUS
  <2> PICK m : m = n + 1
    OBVIOUS
  <2>1. m \in 1 .. l /\ m - 1 = n /\ st[n] = a
    BY <1>0, <1>3
  <2>2. st[m] = st[n]
    BY <1>0, <1>1, <2>1 DEF Quiet
  <2> QED
    BY <2>1, <2>2
<1> HIDE DEF S
<1>4. Nat \subseteq S
  BY <1>2, <1>3, Induction
<1> QED
  BY <1>0, <1>1, <1>4 DEF S

\* A channel whose other end waits is refused.
LEMMA InRejects ==
    ASSUME Inv, NEW e, e = Other, NEW f, f = Opener, Dir(e), Reads(e),
           wire'[e] = wire[e], ch'[f] = ch[f], conn'[f] = conn[f],
           NEW o \in Chans, ch[e][o].st # "rejected", slots' = [slots EXCEPT ![e][ch[e][o].id] = 0],
           NEW d, d = ch'[e][o], \A m \in Chans \ {o} : ch'[e][m] = ch[e][m],
           d.id = ch[e][o].id, d.pair = ch[e][o].pair, d.st = "rejected", At(e, o)'.n = At(e, o).n,
           NEW a \in Chans, Mate(e, o, a), \A q \in Chans : Mate(e, o, q) => ~ch[f][q].decided
    PROVE  Dir(e)'
<1> PICK w, i : w = wire[e] /\ i = ch[e][o].id
  OBVIOUS
<1>0. e \in Ends /\ f = Peer(e)
  BY MuxAssumption DEF Peer, Ends
<1>1. Aimed(e) /\ Hushed(e) /\ Carried(e) /\ Heard(e) /\ Kept(e) /\ Ended(e)
  BY DEF Dir
<1>2. Listed(e, o)
  BY <1>0, <1>1 DEF Heard
<1>3. Quiet(w, i)
  BY <1>0, <1>1, <1>2 DEF Hushed
<1>4. \A q : (Active(f, q)' <=> Active(f, q)) /\ \A z : Sender(f, q, z)' <=> Sender(f, q, z)
  BY <1>0, QuitSame
<1>5. \A m \in Chans : ch'[e][m].id = ch[e][m].id /\ ch'[e][m].pair = ch[e][m].pair
  OBVIOUS
<1>6. /\ ~Listed(e, o)' /\ \A m \in Chans \ {o} : Listed(e, m)' <=> Listed(e, m)
      /\ DOMAIN slots'[e] = DOMAIN slots[e]
      /\ \A k \in DOMAIN slots[e] : k # i => slots'[e][k] = slots[e][k]
  <2>1. /\ ~Listed(e, o)' /\ \A m \in Chans \ {o} : Listed(e, m)' <=> Listed(e, m)
        /\ DOMAIN slots'[e] = DOMAIN slots[e]
        /\ \A k \in DOMAIN slots[e] : k # ch[e][o].id => slots'[e][k] = slots[e][k]
    <3>1. e \in Ends /\ Listed(e, o) /\ Inv /\ o \in Chans /\ slots' = [slots EXCEPT ![e][ch[e][o].id] = 0]
          /\ \A m \in Chans : ch'[e][m].id = ch[e][m].id
      BY <1>0, <1>2, <1>5
    <3> QED
      BY ONLY <3>1, Unlisted
  <2> QED
    BY <2>1
<1>7. \A m \in Chans, q \in Chans : Mate(e, m, q)' <=> Mate(e, m, q)
  BY <1>0, <1>5, MateSame
<1>8. \A m \in Chans \ {o} : ch'[e][m] = ch[e][m] /\ At(e, m)' = At(e, m)
  BY DEF At, Arrived
<1>9. Aimed(e)'
  <2> SUFFICES ASSUME NEW k \in DOMAIN w, w[k].t \in ChanTypes
               PROVE  w[k].to \in DOMAIN slots'[e] /\ slots'[e][w[k].to] # 0
    BY DEF Aimed
  <2>1. w[k].to \in DOMAIN slots[e] /\ slots[e][w[k].to] # 0
    BY <1>1 DEF Aimed
  <2>2. w[k].to # i
    BY <1>3 DEF Quiet, For
  <2> QED
    BY <1>6, <2>1, <2>2
<1>10. Hushed(e)'
  <2> SUFFICES ASSUME NEW m \in Chans, Listed(e, m)', \A q \in Chans : Mate(e, m, q)' => ~ch'[f][q].decided
               PROVE  Quiet(w, ch'[e][m].id)
    BY <1>0 DEF Hushed
  <2>1. m # o
    BY <1>6
  <2> QED
    BY <1>0, <1>1, <1>6, <1>7, <1>8, <2>1 DEF Hushed
<1>11. Carried(e)'
  <2> SUFFICES ASSUME NEW m \in Chans, NEW q \in Chans, Listed(e, m)', Mate(e, m, q)'
               PROVE  \E z : Carries(e, ch'[f][q].id, q, w, ch'[e][m].id, At(e, m)', z) /\ Sender(f, q, z)'
    BY <1>0, Zenon DEF Carried
  <2>0. Listed(e, m) /\ Mate(e, m, q) /\ m # o
    BY <1>6, <1>7
  <2>1. PICK z : Carries(e, ch[f][q].id, q, w, ch[e][m].id, At(e, m), z) /\ Sender(f, q, z)
    BY <1>0, <1>1, <2>0 DEF Carried
  <2>2. ch'[e][m] = ch[e][m] /\ At(e, m)' = At(e, m)
    BY <1>8, <2>0
  <2> QED
    BY <1>4, <2>1, <2>2, Zenon
<1>12. Heard(e)'
  <2>1. ASSUME NEW m \in Chans, NEW q \in Chans, Mate(e, m, q)'
        PROVE  /\ Active(f, q)' => Listed(e, m)'
               /\ ~ch'[f][q].decided /\ ch'[e][m].st # "rejected" => Listed(e, m)'
    <3>1. CASE m = o
      <4>1. ~Active(f, q)
        BY <1>7, <2>1, <3>1 DEF Active
      <4> QED
        BY <1>4, <3>1, <4>1
    <3>2. CASE m # o
      BY <1>0, <1>1, <1>4, <1>6, <1>7, <1>8, <2>1, <3>2 DEF Heard
    <3> QED
      BY <3>1, <3>2
  <2> QED
    BY <1>0, <2>1, MuxAssumption DEF Heard
<1>13. Kept(e)'
  BY <1>1, <1>6, <1>8 DEF Kept
<1>14. Ended(e)'
  <2> SUFFICES ASSUME NEW m \in Chans, NEW q \in Chans, Mate(e, m, q)', ~Listed(e, m)', ch'[e][m].eof, ch'[e][m].pair # 0
               PROVE  \A x \in Buffered : At(e, m)'.n[x] = ch'[f][q].out[x]
    BY <1>0 DEF Ended
  <2>1. CASE m = o
    <3>1. PICK z : Carries(e, ch[f][q].id, q, w, i, At(e, o), z) /\ Sender(f, q, z)
      BY <1>0, <1>1, <1>2, <1>7, <2>1 DEF Carried
    <3>2. IsASeq(w)
      BY <1>0, WireSeq
    <3>3. z = At(e, o)
      BY ONLY <1>3, <3>1, <3>2, CarryQuiet
    <3> QED
      BY <2>1, <3>1, <3>3 DEF Sender
  <2>2. CASE m # o
    BY <1>0, <1>1, <1>6, <1>7, <1>8, <2>2 DEF Ended
  <2> QED
    BY <2>1, <2>2
<1> QED
  BY <1>9, <1>10, <1>11, <1>12, <1>13, <1>14 DEF Dir

-----------------------------------------------------------------------------
(* New channels                                                            *)

\* While a channel is free, the list has room.
LEMMA SlotFree ==
    ASSUME Inv, NEW e \in Ends, HasFresh(e)
    PROVE  FreeSlot(e) \in DOMAIN slots[e] /\ slots[e][FreeSlot(e)] = 0
<1> PICK o, s, D : o = Fresh(e) /\ s = slots[e] /\ D = DOMAIN s
  OBVIOUS
<1>0. o \in Chans /\ ch[e][o].st = "free"
  BY FreshFree
<1>1. D = 0 .. MaxChannels - 1 /\ MaxChannels \in Nat /\ MaxChannels >= 1 /\ Chans = 1 .. MaxChannels
  BY MuxAssumption DEF Inv, Shape, Chans
<1>2. \A i \in D : s[i] # 0 => s[i] \in Chans /\ ch[e][s[i]].id = i /\ ch[e][s[i]].st # "free"
  BY SlotRange DEF Inv, ListedOpen
<1> PICK Z : Z = {i \in D : s[i] = 0}
  OBVIOUS
<1>3. Z # {}
  <2> SUFFICES ASSUME Z = {} PROVE FALSE
    OBVIOUS
  <2> PICK R, g : R = Chans \ {o} /\ g = [i \in D |-> s[i]]
    OBVIOUS
  <2>1. IsFiniteSet(Chans) /\ Cardinality(Chans) = MaxChannels /\ IsFiniteSet(D) /\ Cardinality(D) = MaxChannels
    <3>1. IsFiniteSet(1 .. MaxChannels) /\ Cardinality(1 .. MaxChannels) = MaxChannels
      BY <1>1, FS_Interval
    <3>2. IsFiniteSet(0 .. MaxChannels - 1) /\ Cardinality(0 .. MaxChannels - 1) = MaxChannels
      BY <1>1, FS_Interval
    <3> QED
      BY <1>1, <3>1, <3>2
  <2>2. IsFiniteSet(R) /\ Cardinality(R) = MaxChannels - 1
    BY <1>0, <2>1, FS_RemoveElement
  <2>3. g \in [D -> R]
    BY <1>0, <1>2
  <2>4. Cardinality(R) < Cardinality(D)
    BY <1>1, <2>1, <2>2
  <2>5. PICK i, k \in D : i # k /\ g[i] = g[k]
    BY ONLY <2>1, <2>2, <2>3, <2>4, FS_PigeonHole
  <2> QED
    BY <1>2, <2>5
<1>4. Z \subseteq Nat
  BY <1>1
<1>5. PICK i \in Z : \A k \in Z : i <= k
  BY <1>3, <1>4, LeastNumber
<1>6. i \in DOMAIN slots[e] /\ slots[e][i] = 0 /\ \A k \in DOMAIN slots[e] : slots[e][k] = 0 => i <= k
  BY <1>5
<1> QED
  BY <1>6 DEF FreeSlot

\* A channel enters the list.
Enters(e, o, i) ==
    /\ ch[e][o].st = "free" /\ i \in DOMAIN slots[e] /\ slots[e][i] = 0 /\ slots' = [slots EXCEPT ![e][i] = o]
    /\ ch'[e][o].id = i /\ \A m \in Chans \ {o} : ch'[e][m] = ch[e][m]

LEMMA Joined ==
    ASSUME Inv, NEW e \in Ends, NEW o \in Chans, NEW i, Enters(e, o, i)
    PROVE  /\ Listed(e, o)' /\ \A m \in Chans \ {o} : Listed(e, m)' <=> Listed(e, m)
           /\ DOMAIN slots'[e] = DOMAIN slots[e] /\ slots'[e][i] = o /\ slots'[Peer(e)] = slots[Peer(e)]
           /\ \A k \in DOMAIN slots[e] : k # i => slots'[e][k] = slots[e][k]
           /\ ~Listed(e, o)
<1> USE DEF Enters
<1>0. DOMAIN slots = Ends /\ Peer(e) \in Ends /\ Peer(e) # e /\ \A m \in Chans : m # 0
  BY PeerFacts DEF Inv, Shape, Chans
<1>1. /\ DOMAIN slots'[e] = DOMAIN slots[e] /\ slots'[e][i] = o /\ slots'[Peer(e)] = slots[Peer(e)]
      /\ \A k \in DOMAIN slots[e] : k # i => slots'[e][k] = slots[e][k]
  BY <1>0
<1>2. Listed(e, o)'
  BY <1>1 DEF Listed
<1>3. \A m \in Chans \ {o} : Listed(e, m)' <=> Listed(e, m)
  BY <1>0, <1>1 DEF Listed
<1>4. ~Listed(e, o)
  BY <1>0 DEF Listed, Inv, ListedOpen
<1> QED
  BY <1>1, <1>2, <1>3, <1>4

\* A slot that is free gets no packets.
LEMMA FreeQuiet ==
    ASSUME NEW e \in Ends, Aimed(e), NEW i, slots[e][i] = 0
    PROVE  Quiet(wire[e], i)
  BY DEF Aimed, Quiet, For

\* openChannel
LEMMA InOpens ==
    ASSUME Inv, NEW e, e = Opener, NEW f, f = Other, Dir(e), Reads(e)' => Reads(e),
           wire'[e] = wire[e], ch'[f] = ch[f], conn'[f] = conn[f],
           NEW o \in Chans, ch[e][o].st = "free", NEW i \in DOMAIN slots[e], slots[e][i] = 0,
           slots' = [slots EXCEPT ![e][i] = o],
           NEW d, d = ch'[e][o], \A m \in Chans \ {o} : ch'[e][m] = ch[e][m],
           d.id = i, d.st # "rejected", ~d.decided, \A q \in Chans : ~Mate(e, o, q)
    PROVE  Dir(e)'
<1> SUFFICES ASSUME Reads(e)' PROVE (Aimed(e) /\ Hushed(e) /\ Carried(e) /\ Heard(e) /\ Kept(e) /\ Ended(e))'
  BY DEF Dir
<1> PICK w : w = wire[e]
  OBVIOUS
<1>0. e \in Ends /\ f = Peer(e)
  BY MuxAssumption DEF Peer, Ends
<1>1. Aimed(e) /\ Hushed(e) /\ Carried(e) /\ Heard(e) /\ Kept(e) /\ Ended(e)
  BY DEF Dir
<1>2. /\ Listed(e, o)' /\ \A m \in Chans \ {o} : Listed(e, m)' <=> Listed(e, m)
      /\ DOMAIN slots'[e] = DOMAIN slots[e] /\ slots'[e][i] = o
      /\ \A k \in DOMAIN slots[e] : k # i => slots'[e][k] = slots[e][k]
  <2>1. Inv /\ e \in Ends /\ o \in Chans /\ Enters(e, o, i)
    BY <1>0 DEF Enters
  <2> QED
    BY ONLY <2>1, Joined
<1>3. \A q : (Active(f, q)' <=> Active(f, q)) /\ \A z : Sender(f, q, z)' <=> Sender(f, q, z)
  BY <1>0, QuitSame
<1>4. \A m \in Chans, q \in Chans : Mate(e, m, q)' <=> Mate(e, m, q)
  BY DEF Mate
<1>5. \A m \in Chans \ {o} : ch'[e][m] = ch[e][m] /\ At(e, m)' = At(e, m)
  BY DEF At, Arrived
<1>6. Quiet(w, i)
  BY <1>0, <1>1, FreeQuiet
<1>7. Aimed(e)'
  BY <1>1, <1>2 DEF Aimed
<1>8. Hushed(e)'
  <2> SUFFICES ASSUME NEW m \in Chans, Listed(e, m)', \A q \in Chans : Mate(e, m, q)' => ~ch'[f][q].decided
               PROVE  Quiet(w, ch'[e][m].id)
    BY <1>0 DEF Hushed
  <2>1. CASE m = o
    BY <1>6, <2>1
  <2>2. CASE m # o
    BY <1>0, <1>1, <1>2, <1>4, <1>5, <2>2 DEF Hushed
  <2> QED
    BY <2>1, <2>2
<1>9. Carried(e)'
  <2> SUFFICES ASSUME NEW m \in Chans, NEW q \in Chans, Listed(e, m)', Mate(e, m, q)'
               PROVE  \E z : Carries(e, ch'[f][q].id, q, w, ch'[e][m].id, At(e, m)', z) /\ Sender(f, q, z)'
    BY <1>0, Zenon DEF Carried
  <2>0. Mate(e, m, q) /\ m # o /\ Listed(e, m)
    BY <1>2, <1>4
  <2>1. PICK z : Carries(e, ch[f][q].id, q, w, ch[e][m].id, At(e, m), z) /\ Sender(f, q, z)
    BY <1>0, <1>1, <2>0 DEF Carried
  <2>2. ch'[e][m] = ch[e][m] /\ At(e, m)' = At(e, m)
    BY <1>5, <2>0
  <2> QED
    BY <1>3, <2>1, <2>2, Zenon
<1>10. Heard(e)'
  <2>1. ASSUME NEW m \in Chans, NEW q \in Chans, Mate(e, m, q)'
        PROVE  /\ Active(f, q)' => Listed(e, m)'
               /\ ~ch'[f][q].decided /\ ch'[e][m].st # "rejected" => Listed(e, m)'
    <3>1. m # o
      BY <1>4, <2>1
    <3> QED
      BY <1>0, <1>1, <1>2, <1>3, <1>4, <1>5, <2>1, <3>1 DEF Heard
  <2>2. ASSUME NEW m \in Chans, ch'[e][m].st # "free", ~ch'[e][m].decided PROVE Listed(e, m)'
    BY <1>1, <1>2, <1>5, <2>2 DEF Heard
  <2> QED
    BY <1>0, <2>1, <2>2 DEF Heard
<1>11. Kept(e)'
  BY <1>1, <1>2, <1>5 DEF Kept
<1>12. Ended(e)'
  <2> SUFFICES ASSUME NEW m \in Chans, NEW q \in Chans, Mate(e, m, q)', ~Listed(e, m)', ch'[e][m].eof, ch'[e][m].pair # 0
               PROVE  \A x \in Buffered : At(e, m)'.n[x] = ch'[f][q].out[x]
    BY <1>0 DEF Ended
  <2>1. m # o
    BY <1>2
  <2> QED
    BY <1>0, <1>1, <1>2, <1>4, <1>5, <2>1 DEF Ended
<1> QED
  BY <1>7, <1>8, <1>9, <1>10, <1>11, <1>12

\* handleChannelOpen: the new channel at its own end ...
LEMMA InJoins ==
    ASSUME Inv, NEW e, e = Other, NEW f, f = Opener, Dir(e), Reads(e), wire[e] # <<>>, Next1(e).t \notin ChanTypes,
           wire'[e] = Tail(wire[e]), ch'[f] = ch[f], conn'[f] = conn[f],
           NEW o \in Chans, ch[e][o].st = "free", NEW i \in DOMAIN slots[e], slots[e][i] = 0,
           slots' = [slots EXCEPT ![e][i] = o],
           NEW d, d = ch'[e][o], \A m \in Chans \ {o} : ch'[e][m] = ch[e][m],
           d.id = i, d.st = "asked", ~d.decided, NEW a \in Chans, d.pair = a,
           Sender(f, a, At(e, o)')
    PROVE  Dir(e)'
<1> PICK w, v, p : w = wire[e] /\ v = wire'[e] /\ p = Next1(e)
  OBVIOUS
<1>0. e \in Ends /\ f = Peer(e) /\ e # Opener
  BY MuxAssumption DEF Peer, Ends
<1>1. Aimed(e) /\ Hushed(e) /\ Carried(e) /\ Heard(e) /\ Kept(e) /\ Ended(e)
  BY DEF Dir
<1>2. /\ Listed(e, o)' /\ \A m \in Chans \ {o} : Listed(e, m)' <=> Listed(e, m)
      /\ DOMAIN slots'[e] = DOMAIN slots[e] /\ slots'[e][i] = o
      /\ \A k \in DOMAIN slots[e] : k # i => slots'[e][k] = slots[e][k]
  <2>1. Inv /\ e \in Ends /\ o \in Chans /\ Enters(e, o, i)
    BY <1>0 DEF Enters
  <2> QED
    BY ONLY <2>1, Joined
<1>3. \A q : (Active(f, q)' <=> Active(f, q)) /\ \A z : Sender(f, q, z)' <=> Sender(f, q, z)
  BY <1>0, QuitSame
<1>4. (\A m \in Chans \ {o} : \A q \in Chans : Mate(e, m, q)' <=> Mate(e, m, q)) /\ \A q \in Chans : Mate(e, o, q)' => q = a
  BY <1>0 DEF Mate
<1>5. \A m \in Chans \ {o} : ch'[e][m] = ch[e][m] /\ At(e, m)' = At(e, m)
  BY DEF At, Arrived
<1>6. (\A k \in DOMAIN v : k + 1 \in DOMAIN w /\ v[k] = w[k + 1]) /\ \A m : ~For(p, m)
  BY <1>0, WireHead DEF For
<1>7. Quiet(v, i) /\ IsASeq(v)
  <2>1. Quiet(w, i)
    BY <1>0, <1>1, FreeQuiet
  <2> QED
    BY <1>0, <2>1, PopQuiet, WireHead, ZenonT(60)
<1>8. Aimed(e)'
  BY <1>1, <1>2, <1>6 DEF Aimed
<1>9. Hushed(e)'
  <2> SUFFICES ASSUME NEW m \in Chans, Listed(e, m)', \A q \in Chans : Mate(e, m, q)' => ~ch'[f][q].decided
               PROVE  Quiet(v, ch'[e][m].id)
    BY <1>0 DEF Hushed
  <2>1. CASE m = o
    BY <1>7, <2>1
  <2>2. CASE m # o
    <3>1. Quiet(w, ch[e][m].id)
      BY <1>0, <1>1, <1>2, <1>4, <1>5, <2>2 DEF Hushed
    <3> QED
      BY <1>0, <1>5, <2>2, <3>1, PopQuiet
  <2> QED
    BY <2>1, <2>2
<1>10. Carried(e)'
  <2> SUFFICES ASSUME NEW m \in Chans, NEW q \in Chans, Listed(e, m)', Mate(e, m, q)'
               PROVE  \E z : Carries(e, ch'[f][q].id, q, v, ch'[e][m].id, At(e, m)', z) /\ Sender(f, q, z)'
    BY <1>0, ZenonT(60) DEF Carried
  <2>1. CASE m = o
    <3> PICK z : z = At(e, o)'
      OBVIOUS
    <3>1. Carries(e, ch'[f][q].id, q, v, i, z, z)
      BY ONLY <1>7, CarryNone
    <3>2. q = a
      BY <1>4, <2>1
    <3>3. Sender(f, q, z)'
      BY <1>3, <3>2
    <3>4. At(e, m)' = z /\ ch'[e][m].id = i
      BY <2>1
    <3> QED
      BY ONLY <3>1, <3>3, <3>4
  <2>2. CASE m # o
    <3>0. Mate(e, m, q) /\ Listed(e, m)
      BY <1>2, <1>4, <2>2
    <3>1. PICK z : Carries(e, ch[f][q].id, q, w, ch[e][m].id, At(e, m), z) /\ Sender(f, q, z)
      BY <1>0, <1>1, <3>0 DEF Carried
    <3>2. Carries(e, ch[f][q].id, q, v, ch[e][m].id, At(e, m), z)
      BY <1>0, <1>6, <3>1, PopOther, ZenonT(60)
    <3>3. ch'[e][m] = ch[e][m] /\ At(e, m)' = At(e, m)
      BY <1>5, <2>2
    <3> QED
      BY <1>3, <3>1, <3>2, <3>3, Zenon
  <2> QED
    BY <2>1, <2>2
<1>11. Heard(e)'
  <2>1. ASSUME NEW m \in Chans, NEW q \in Chans, Mate(e, m, q)'
        PROVE  /\ Active(f, q)' => Listed(e, m)'
               /\ ~ch'[f][q].decided /\ ch'[e][m].st # "rejected" => Listed(e, m)'
    <3>1. CASE m = o
      BY <1>2, <3>1
    <3>2. CASE m # o
      BY <1>0, <1>1, <1>2, <1>3, <1>4, <1>5, <2>1, <3>2 DEF Heard
    <3> QED
      BY <3>1, <3>2
  <2> QED
    BY <1>0, <2>1 DEF Heard
<1>12. Kept(e)'
  BY <1>1, <1>2, <1>5 DEF Kept
<1>13. Ended(e)'
  <2> SUFFICES ASSUME NEW m \in Chans, NEW q \in Chans, Mate(e, m, q)', ~Listed(e, m)', ch'[e][m].eof, ch'[e][m].pair # 0
               PROVE  \A x \in Buffered : At(e, m)'.n[x] = ch'[f][q].out[x]
    BY <1>0 DEF Ended
  <2>1. m # o
    BY <1>2
  <2> QED
    BY <1>0, <1>1, <1>2, <1>4, <1>5, <2>1 DEF Ended
<1> QED
  BY <1>8, <1>9, <1>10, <1>11, <1>12, <1>13 DEF Dir

\* ... and at the end that opened it
LEMMA OutJoins ==
    ASSUME Inv, NEW r, r = Opener, NEW f, f = Other, Dir(r), conn' = conn, loop' = loop,
           wire'[r] = wire[r], ch'[r] = ch[r], slots'[r] = slots[r],
           NEW o \in Chans, ch[f][o].pair = 0, \A m \in Chans \ {o} : ch'[f][m] = ch[f][m],
           NEW a \in Chans, ch'[f][o].pair = a, ~ch'[f][o].decided,
           \A q \in Chans : ch[f][q].pair # a, ch[r][a].st # "free", ~ch[r][a].decided,
           Sender(f, o, At(r, a))'
    PROVE  Dir(r)'
<1> SUFFICES ASSUME Reads(r)' PROVE (Aimed(r) /\ Hushed(r) /\ Carried(r) /\ Heard(r) /\ Kept(r) /\ Ended(r))'
  BY DEF Dir
<1> PICK w : w = wire[r]
  OBVIOUS
<1>0. r \in Ends /\ f = Peer(r) /\ IsASeq(w)
  BY MuxAssumption, WireSeq DEF Peer, Ends
<1>1. Aimed(r) /\ Hushed(r) /\ Carried(r) /\ Heard(r) /\ Kept(r) /\ Ended(r)
  BY DEF Dir, Reads
<1>2. \A m \in Chans : (Listed(r, m)' <=> Listed(r, m)) /\ At(r, m)' = At(r, m)
  BY DEF Listed, At, Arrived
<1>3. \A m, q \in Chans : Mate(r, m, q)' <=> (Mate(r, m, q) /\ q # o) \/ (m = a /\ q = o)
  BY DEF Mate, Chans
<1>4. \A q \in Chans : ~Mate(r, a, q)
  BY DEF Mate
<1>5. Listed(r, a)
  BY <1>1 DEF Heard
<1>6. Quiet(w, ch[r][a].id)
  BY <1>0, <1>1, <1>4, <1>5 DEF Hushed
<1>7. \A q \in Chans \ {o} : ch'[f][q] = ch[f][q] /\ (Active(f, q)' <=> Active(f, q)) /\ \A z : Sender(f, q, z)' <=> Sender(f, q, z)
  BY DEF Active, Sender
<1>8. Aimed(r)'
  BY <1>1 DEF Aimed
<1>9. Hushed(r)'
  <2> SUFFICES ASSUME NEW m \in Chans, Listed(r, m)', \A q \in Chans : Mate(r, m, q)' => ~ch'[f][q].decided
               PROVE  Quiet(w, ch'[r][m].id)
    BY <1>0 DEF Hushed
  <2>1. CASE m = a
    BY <1>6, <2>1
  <2>2. CASE m # a
    <3>1. \A q \in Chans : Mate(r, m, q) => q # o
      BY DEF Mate, Chans
    <3> QED
      BY <1>0, <1>1, <1>2, <1>3, <1>7, <2>2, <3>1 DEF Hushed
  <2> QED
    BY <2>1, <2>2
<1>10. Carried(r)'
  <2> SUFFICES ASSUME NEW m \in Chans, NEW q \in Chans, Listed(r, m)', Mate(r, m, q)'
               PROVE  \E z : Carries(r, ch'[f][q].id, q, w, ch'[r][m].id, At(r, m)', z) /\ Sender(f, q, z)'
    BY <1>0, ZenonT(60) DEF Carried
  <2>1. CASE m = a /\ q = o
    <3> PICK z : z = At(r, a)
      OBVIOUS
    <3>1. Carries(r, ch'[f][q].id, q, w, ch[r][a].id, z, z)
      BY ONLY <1>0, <1>6, CarryNone
    <3>2. At(r, m)' = z /\ ch'[r][m].id = ch[r][a].id /\ Sender(f, q, z)'
      BY <1>2, <2>1
    <3> QED
      BY ONLY <3>1, <3>2
  <2>2. CASE ~(m = a /\ q = o)
    <3>0. Mate(r, m, q) /\ Listed(r, m) /\ q # o
      BY <1>2, <1>3, <2>2
    <3>1. PICK z : Carries(r, ch[f][q].id, q, w, ch[r][m].id, At(r, m), z) /\ Sender(f, q, z)
      BY <1>0, <1>1, <3>0 DEF Carried
    <3> QED
      BY <1>2, <1>7, <3>0, <3>1, Zenon
  <2> QED
    BY <2>1, <2>2
<1>11. Heard(r)'
  <2>1. ASSUME NEW m \in Chans, NEW q \in Chans, Mate(r, m, q)'
        PROVE  /\ Active(f, q)' => Listed(r, m)'
               /\ ~ch'[f][q].decided /\ ch'[r][m].st # "rejected" => Listed(r, m)'
    <3>1. CASE m = a /\ q = o
      BY <1>2, <1>5, <3>1
    <3>2. CASE ~(m = a /\ q = o)
      BY <1>0, <1>1, <1>2, <1>3, <1>7, <2>1, <3>2 DEF Heard
    <3> QED
      BY <3>1, <3>2
  <2> QED
    BY <1>0, <1>1, <1>2, <2>1 DEF Heard
<1>12. Kept(r)'
  BY <1>1, <1>2 DEF Kept
<1>13. Ended(r)'
  <2> SUFFICES ASSUME NEW m \in Chans, NEW q \in Chans, Mate(r, m, q)', ~Listed(r, m)', ch'[r][m].eof, ch'[r][m].pair # 0
               PROVE  \A x \in Buffered : At(r, m)'.n[x] = ch'[f][q].out[x]
    BY <1>0 DEF Ended
  <2>1. Mate(r, m, q) /\ q # o /\ ~Listed(r, m)
    BY <1>2, <1>3, <1>5
  <2> QED
    BY <1>0, <1>1, <1>2, <1>7, <2>1 DEF Ended
<1> QED
  BY <1>8, <1>9, <1>10, <1>11, <1>12, <1>13

-----------------------------------------------------------------------------
(* The invariant                                                           *)

Frame ==
    /\ DOMAIN conn = Ends /\ DOMAIN loop = Ends /\ DOMAIN call = Callers /\ DOMAIN answer = Callers
    /\ \A e \in Ends : conn[e] \in {"up", "down"}

\* How a channel comes to its state ...
Settled(e, c) ==
    /\ c.st = "free" => c = FreeChannel
    /\ c.closed => c.sentClose
    /\ c.st = "open" => c.decided /\ c.pair # 0
    /\ e = Opener => c.st \notin {"asked", "rejected"} /\ c.reqs = <<>> /\ (~c.decided => c.pair = 0)
    /\ e = Other => /\ c.st # "opening" /\ (c.st = "asked" => ~c.decided)
                    /\ c.st = "failed" => c.decided /\ (c.sentClose \/ conn[e] = "down")
    /\ c.pend => c.st = "open"
    /\ c.st = "rejected" => c.decided
    /\ c.st = "opening" => IF c.decided THEN (c.msg = <<"confirm">> /\ c.pair # 0) \/ c.msg = <<"failure">>
                           ELSE c.msg = <<>>

\* ... and how far its application has written and read
Written(e, c) ==
    /\ DOMAIN c.out = Streams
    /\ ~c.decided => ~c.sentEOF /\ \A x \in Streams : c.out[x] = 0
    /\ \A x \in Streams :
        /\ c.out[x] \in Nat /\ c.hold[x] \in Nat /\ c.left[x] \in Nat /\ c.hold[x] <= c.left[x]
        /\ c.hold[x] > 0 => c.st = "open"
        /\ c.st # "free" /\ ~c.sentClose /\ conn[e] = "up" => c.out[x] = scene.write[e][x] - c.left[x]
        /\ c.sentEOF => c.left[x] = 0

Counted(s) == s = [i \in 1 .. Len(s) |-> i]

Came(e, c) ==
    /\ DOMAIN c.got = Buffered
    /\ \A x \in Buffered : c.got[x] \in Seq(Int) /\ Counted(Arrived(c, x))
    /\ e = Opener /\ ~c.decided => (c.eof => c.closed) /\ \A x \in Buffered : Arrived(c, x) = <<>>

Place(e, c) == Settled(e, c) /\ Written(e, c) /\ Came(e, c)
Places == \A e \in Ends, o \in Chans : Place(e, ch[e][o])

\* The accepting end knows which channel it is the other end of from the start,
\* the opening end once it is confirmed.
Pairs ==
    /\ \A b \in Chans : LET d == ch[Other][b] IN
        IF d.st = "free" THEN d.pair = 0
        ELSE d.pair \in Chans /\ ch[Opener][d.pair].st # "free" /\ d.rid = ch[Opener][d.pair].id
    /\ \A b, k \in Chans : ch[Other][b].pair = ch[Other][k].pair /\ ch[Other][b].pair # 0 => b = k
    /\ \A a \in Chans : LET c == ch[Opener][a] IN
        c.pair # 0 => c.decided /\ c.pair \in Chans /\ ch[Other][c.pair].pair = a /\ c.rid = ch[Other][c.pair].id
    /\ \A a, b \in Chans : ch[Other][b].pair = a /\ ch[Opener][a].decided => ch[Other][b].decided

\* A channel is asked for once.
Opens ==
    /\ \A k \in DOMAIN wire[Other] : LET p == wire[Other][k] IN p.t = "open" =>
        /\ p.from \in Chans /\ p.id = ch[Opener][p.from].id /\ p.win = WindowSize
        /\ ch[Opener][p.from].st # "free" /\ ~ch[Opener][p.from].decided
        /\ \A b \in Chans : ch[Other][b].pair # p.from
        /\ \A j \in DOMAIN wire[Other] : wire[Other][j].t = "open" /\ wire[Other][j].from = p.from => j = k
    /\ \A k \in DOMAIN wire[Opener] : wire[Opener][k].t # "open"

Queue ==
    /\ inChans[Opener] = <<>>
    /\ \A k \in DOMAIN inChans[Other] : ch[Other][inChans[Other][k]].st = "asked"
    /\ \A j, k \in DOMAIN inChans[Other] : inChans[Other][j] = inChans[Other][k] => j = k

\* One request is on its way at a time, there, at its server, back or arrived,
\* and its caller waits for it.
Waits(r) == r \in Callers /\ holder = r /\ call[r] = "wait"
None(w, t) == \A k \in DOMAIN w : w[k].t # t
One(w, t) == \A j, k \in DOMAIN w : w[j].t = t /\ w[k].t = t => j = k
NoQue == \A b \in Chans : ch[Other][b].reqs = <<>>
NoMsg == ch[Opener][1].st = "open" => ch[Opener][1].msg = <<>>

Token ==
    /\ \A k \in DOMAIN wire[Other] : wire[Other][k].t = "request" => Waits(wire[Other][k].tag)
    /\ \A k \in DOMAIN wire[Opener] : wire[Opener][k].t = "reply" => Waits(wire[Opener][k].tag)
    /\ \A b \in Chans : ch[Other][b].reqs # <<>> => \E r : ch[Other][b].reqs = <<r>> /\ Waits(r)
    /\ One(wire[Other], "request") /\ One(wire[Opener], "reply")
    /\ \A b, k \in Chans : ch[Other][b].reqs # <<>> /\ ch[Other][k].reqs # <<>> => b = k
    /\ None(wire[Other], "request") \/ (None(wire[Opener], "reply") /\ NoQue /\ NoMsg)
    /\ None(wire[Opener], "reply") \/ (NoQue /\ NoMsg)
    /\ NoQue \/ NoMsg

Tokens ==
    /\ \A r \in Callers : /\ call[r] \in {"open", "wait"} => holder = r
                          /\ call[r] # "idle" => ch[Opener][1].st = "open"
                          /\ answer[r] = r
    /\ NoMsg \/ \E r : ch[Opener][1].msg = <<r>> /\ Waits(r)
    /\ ch[Opener][1].closed \/ Token

Base == Places /\ Pairs /\ Opens /\ Queue /\ Dir(Opener) /\ Dir(Other)

-----------------------------------------------------------------------------
(* What a step leaves alone                                                *)

\* No packet of type t is added.
NoMore(w, v, t) == /\ DOMAIN v \subseteq Int
                   /\ \E s \in Nat : \A k \in DOMAIN v : v[k].t = t => k + s \in DOMAIN w /\ v[k] = w[k + s]

LEMMA NoMoreSame == ASSUME NEW w, IsASeq(w), NEW t PROVE NoMore(w, w, t)
<1>1. DOMAIN w \subseteq Int
  BY SeqDomain
<1>2. 0 \in Nat /\ \A k \in DOMAIN w : w[k].t = t => k + 0 \in DOMAIN w /\ w[k] = w[k + 0]
  BY <1>1
<1> QED
  BY <1>1, <1>2 DEF NoMore

LEMMA NoMoreTail == ASSUME NEW w, IsASeq(w), w # <<>>, NEW t PROVE NoMore(w, Tail(w), t)
<1> PICK v, l : v = Tail(w) /\ l = Len(w)
  OBVIOUS
<1>1. l \in Nat /\ DOMAIN w = 1 .. l /\ DOMAIN v = 1 .. l - 1 /\ \A k \in 1 .. l - 1 : v[k] = w[k + 1]
  BY Shortened
<1>2. DOMAIN v \subseteq Int /\ 1 \in Nat /\ \A k \in DOMAIN v : v[k].t = t => k + 1 \in DOMAIN w /\ v[k] = w[k + 1]
  BY <1>1
<1> QED
  BY <1>2 DEF NoMore

LEMMA NoMoreGrown == ASSUME NEW w, IsASeq(w), NEW t, NEW p, p.t # t PROVE NoMore(w, w \o <<p>>, t)
<1> PICK v, l : v = w \o <<p>> /\ l = Len(w)
  OBVIOUS
<1>1. l \in Nat /\ DOMAIN w = 1 .. l /\ DOMAIN v = 1 .. l + 1 /\ v[l + 1] = p /\ \A k \in 1 .. l : v[k] = w[k]
  BY Extended
<1>2. DOMAIN v \subseteq Int /\ 0 \in Nat /\ \A k \in DOMAIN v : k = l + 1 \/ (k + 0 \in DOMAIN w /\ v[k] = w[k + 0])
  BY <1>1
<1> QED
  BY <1>1, <1>2 DEF NoMore

LEMMA NoMoreEmpty == ASSUME NEW w, NEW t PROVE NoMore(w, <<>>, t)
<1>1. DOMAIN <<>> = {} /\ 0 \in Nat
  BY EmptySeq
<1> QED
  BY <1>1 DEF NoMore

LEMMA NoMoreOne ==
    ASSUME NEW w, NEW v, NEW t, NoMore(w, v, t)
    PROVE  /\ None(w, t) => None(v, t)
           /\ One(w, t) => One(v, t)
           /\ \A k \in DOMAIN v : v[k].t = t => \E j \in DOMAIN w : v[k] = w[j]
<1>1. PICK s \in Nat : DOMAIN v \subseteq Int /\ \A k \in DOMAIN v : v[k].t = t => k + s \in DOMAIN w /\ v[k] = w[k + s]
  BY DEF NoMore
<1>2. One(w, t) => One(v, t)
  <2> SUFFICES ASSUME One(w, t), NEW j \in DOMAIN v, NEW k \in DOMAIN v, v[j].t = t, v[k].t = t PROVE j = k
    BY DEF One
  <2>1. j + s = k + s
    BY <1>1, Zenon DEF One
  <2> QED
    BY <1>1, <2>1
<1> QED
  BY <1>1, <1>2 DEF None

\* A channel that opens or is decided no further.
Plain(c, d) ==
    /\ d.id = c.id /\ d.rid = c.rid /\ d.pair = c.pair /\ d.decided = c.decided
    /\ \A s \in {"free", "asked", "rejected"} : d.st = s <=> c.st = s

AllPlain == \A e \in Ends, o \in Chans : Plain(ch[e][o], ch'[e][o])

LEMMA PlainPairs == ASSUME Pairs, AllPlain PROVE Pairs'
<1>1. \A o \in Chans : Plain(ch[Opener][o], ch'[Opener][o]) /\ Plain(ch[Other][o], ch'[Other][o])
  BY FirstChannel DEF AllPlain
<1> QED
  BY <1>1, SMTT(40) DEF Pairs, Plain

LEMMA OpensKept ==
    ASSUME Opens, NoMore(wire[Other], wire'[Other], "open"), NoMore(wire[Opener], wire'[Opener], "open"),
           \A o \in Chans : Plain(ch[Opener][o], ch'[Opener][o]), \A b \in Chans : ch'[Other][b].pair = ch[Other][b].pair
    PROVE  Opens'
<1>1. /\ \A o \in Chans : Plain(ch[Opener][o], ch'[Opener][o])
      /\ \A b \in Chans : ch'[Other][b].pair = ch[Other][b].pair
  OBVIOUS
<1> PICK w, v : w = wire[Other] /\ v = wire'[Other]
  OBVIOUS
<1>2. PICK s \in Nat : DOMAIN v \subseteq Int /\ \A k \in DOMAIN v : v[k].t = "open" => k + s \in DOMAIN w /\ v[k] = w[k + s]
  BY DEF NoMore
<1>3. ASSUME NEW k \in DOMAIN v, NEW p, p = v[k], p.t = "open"
      PROVE  /\ p.from \in Chans /\ p.id = ch'[Opener][p.from].id /\ p.win = WindowSize
             /\ ch'[Opener][p.from].st # "free" /\ ~ch'[Opener][p.from].decided
             /\ \A b \in Chans : ch'[Other][b].pair # p.from
             /\ \A j \in DOMAIN v : v[j].t = "open" /\ v[j].from = p.from => j = k
  <2>1. k + s \in DOMAIN w /\ p = w[k + s]
    BY <1>2, <1>3
  <2>2. /\ p.from \in Chans /\ p.id = ch[Opener][p.from].id /\ p.win = WindowSize
        /\ ch[Opener][p.from].st # "free" /\ ~ch[Opener][p.from].decided
        /\ \A b \in Chans : ch[Other][b].pair # p.from
        /\ \A j \in DOMAIN w : w[j].t = "open" /\ w[j].from = p.from => j = k + s
    BY <1>3, <2>1 DEF Opens
  <2>3. ASSUME NEW j \in DOMAIN v, v[j].t = "open", v[j].from = p.from PROVE j = k
    <3>1. j + s = k + s
      BY <1>2, <2>2, <2>3
    <3> QED
      BY <1>2, <3>1
  <2> QED
    BY <1>1, <2>2, <2>3 DEF Plain
<1>4. \A k \in DOMAIN wire'[Opener] : wire'[Opener][k].t # "open"
  BY NoMoreOne DEF Opens, None
<1> QED
  BY <1>3, <1>4 DEF Opens

LEMMA PlainOpens ==
    ASSUME Opens, AllPlain, NoMore(wire[Other], wire'[Other], "open"), NoMore(wire[Opener], wire'[Opener], "open")
    PROVE  Opens'
<1>1. \A o \in Chans : Plain(ch[Opener][o], ch'[Opener][o]) /\ Plain(ch[Other][o], ch'[Other][o])
  BY FirstChannel DEF AllPlain
<1>2. \A b \in Chans : ch'[Other][b].pair = ch[Other][b].pair
  BY <1>1 DEF Plain
<1> QED
  BY <1>1, <1>2, OpensKept

LEMMA PlainQueue == ASSUME Inv, Queue, AllPlain, inChans' = inChans PROVE Queue'
<1>1. \A o \in Chans : Plain(ch[Other][o], ch'[Other][o])
  BY FirstChannel DEF AllPlain
<1>2. \A k \in DOMAIN inChans[Other] : inChans[Other][k] \in Chans
  BY Lists, FirstChannel
<1> QED
  BY <1>1, <1>2 DEF Queue, Plain

LEMMA TokensKept ==
    ASSUME Tokens, UNCHANGED calls,
           NoMore(wire[Other], wire'[Other], "request"), NoMore(wire[Opener], wire'[Opener], "reply"),
           \A b \in Chans : ch'[Other][b].reqs = ch[Other][b].reqs,
           NEW c, c = ch[Opener][1], NEW d, d = ch'[Opener][1],
           c.closed => d.closed, c.st = "open" => d.st = "open",
           d.st = "open" /\ d.msg # <<>> => c.st = "open" /\ d.msg = c.msg
    PROVE  Tokens'
<1>0. UNCHANGED <<call, holder, answer>>
  BY DEF calls
<1>1. \A r : Waits(r)' <=> Waits(r)
  BY <1>0 DEF Waits
<1>2. (NoMsg => NoMsg') /\ (NoQue => NoQue')
  BY DEF NoMsg, NoQue
<1>3. NoMsg' \/ \E r : ch'[Opener][1].msg = <<r>> /\ Waits(r)'
  BY <1>1 DEF NoMsg, Tokens
<1>4. ASSUME Token PROVE Token'
  <2>1. /\ None(wire[Other], "request") => None(wire'[Other], "request")
        /\ One(wire[Other], "request") => One(wire'[Other], "request")
        /\ \A k \in DOMAIN wire'[Other] : wire'[Other][k].t = "request" => \E j \in DOMAIN wire[Other] : wire'[Other][k] = wire[Other][j]
    BY NoMoreOne
  <2>2. /\ None(wire[Opener], "reply") => None(wire'[Opener], "reply")
        /\ One(wire[Opener], "reply") => One(wire'[Opener], "reply")
        /\ \A k \in DOMAIN wire'[Opener] : wire'[Opener][k].t = "reply" => \E j \in DOMAIN wire[Opener] : wire'[Opener][k] = wire[Opener][j]
    BY NoMoreOne
  <2>3. (\A k \in DOMAIN wire[Other] : wire[Other][k].t = "request" => Waits(wire[Other][k].tag))'
    BY <1>0, <1>4, <2>1 DEF Token, Waits
  <2>4. (\A k \in DOMAIN wire[Opener] : wire[Opener][k].t = "reply" => Waits(wire[Opener][k].tag))'
    BY <1>0, <1>4, <2>2 DEF Token, Waits
  <2>5. \A b \in Chans : ch'[Other][b].reqs # <<>> => \E r : ch'[Other][b].reqs = <<r>> /\ Waits(r)'
    BY <1>1, <1>4 DEF Token
  <2>6. One(wire'[Other], "request") /\ One(wire'[Opener], "reply")
    BY <1>4, <2>1, <2>2 DEF Token
  <2>7. \A b, k \in Chans : ch'[Other][b].reqs # <<>> /\ ch'[Other][k].reqs # <<>> => b = k
    BY <1>4 DEF Token
  <2>8. /\ None(wire'[Other], "request") \/ (None(wire'[Opener], "reply") /\ NoQue' /\ NoMsg')
        /\ None(wire'[Opener], "reply") \/ (NoQue' /\ NoMsg')
        /\ NoQue' \/ NoMsg'
    BY <1>2, <1>4, <2>1, <2>2 DEF Token
  <2>9. (None(wire[Other], "request")' <=> None(wire'[Other], "request")) /\ (None(wire[Opener], "reply")' <=> None(wire'[Opener], "reply"))
        /\ (One(wire[Other], "request")' <=> One(wire'[Other], "request")) /\ (One(wire[Opener], "reply")' <=> One(wire'[Opener], "reply"))
    BY DEF None, One
  <2> QED
    BY <2>3, <2>4, <2>5, <2>6, <2>7, <2>8, <2>9 DEF Token
<1> QED
  BY <1>0, <1>3, <1>4 DEF Tokens

-----------------------------------------------------------------------------
(* How steps are put together                                              *)

LEMMA WiresAt == ASSUME Inv PROVE DOMAIN wire = Ends /\ \A m \in Ends : IsASeq(wire[m])
  BY WireSeq DEF Inv, Wires

LEMMA Sent ==
    ASSUME Inv, NEW e \in Ends, NEW r, r = Peer(e), NEW p, Sends(e, <<p>>)
    PROVE  /\ wire'[e] = wire[e]
           /\ IF conn[e] = "up" /\ conn[r] = "up" THEN wire'[r] = wire[r] \o <<p>> ELSE wire'[r] = wire[r]
  BY PeerFacts, WiresAt DEF Sends

LEMMA ChanSent ==
    ASSUME Inv, NEW e \in Ends, NEW r, r = Peer(e), NEW o, NEW p, ChanSends(e, o, p)
    PROVE  /\ wire'[e] = wire[e]
           /\ IF MaySend(e, o) /\ conn[r] = "up" THEN wire'[r] = wire[r] \o <<p>> ELSE wire'[r] = wire[r]
<1>1. CASE MaySend(e, o)
  <2>1. Sends(e, <<p>>) /\ conn[e] = "up"
    BY <1>1 DEF ChanSends, MaySend
  <2> QED
    BY <1>1, <2>1, Sent
<1>2. CASE ~MaySend(e, o)
  <2>1. Sends(e, <<>>)
    BY <1>2 DEF ChanSends
  <2>2. wire[r] \o <<>> = wire[r]
    BY PeerFacts, WiresAt, NothingMore
  <2> QED
    BY <1>2, <2>1, <2>2, PeerFacts, WiresAt DEF Sends
<1> QED
  BY <1>1, <1>2

LEMMA PopSent ==
    ASSUME Inv, NEW e \in Ends, NEW r, r = Peer(e), NEW p, PopAndSend(e, <<p>>)
    PROVE  /\ wire'[e] = Tail(wire[e])
           /\ IF conn[r] = "up" THEN wire'[r] = wire[r] \o <<p>> ELSE wire'[r] = wire[r]
  BY PeerFacts, WiresAt DEF PopAndSend

LEMMA PopNone ==
    ASSUME Inv, NEW e \in Ends, NEW r, r = Peer(e), PopAndSend(e, <<>>)
    PROVE  wire'[e] = Tail(wire[e]) /\ wire'[r] = wire[r]
<1>1. wire[r] \o <<>> = wire[r]
  BY PeerFacts, WiresAt, NothingMore
<1> QED
  BY <1>1, PeerFacts, WiresAt DEF PopAndSend

LEMMA Popped ==
    ASSUME Inv, NEW e \in Ends, NEW r, r = Peer(e), wire' = Pop(e)
    PROVE  wire'[e] = Tail(wire[e]) /\ wire'[r] = wire[r]
  BY PeerFacts, WiresAt DEF Pop

\* The wire to m: the same, read, cleared, or longer by p.
Wired(m, p) ==
    \/ wire'[m] = wire[m] \/ (wire[m] # <<>> /\ wire'[m] = Tail(wire[m]))
    \/ wire'[m] = <<>> \/ wire'[m] = wire[m] \o <<p>>

LEMMA WiredNoMore ==
    ASSUME Inv, NEW m \in Ends, NEW p, Wired(m, p), NEW t, p.t # t
    PROVE  NoMore(wire[m], wire'[m], t)
<1> PICK w, v : w = wire[m] /\ v = wire'[m]
  OBVIOUS
<1>1. IsASeq(w)
  BY WiresAt
<1>2. v = w \/ (w # <<>> /\ v = Tail(w)) \/ v = <<>> \/ v = w \o <<p>>
  BY DEF Wired
<1>3. NoMore(w, v, t)
  BY <1>1, <1>2, NoMoreSame, NoMoreTail, NoMoreEmpty, NoMoreGrown
<1> QED
  BY <1>3

\* Channel o of e becomes d.
Alters(e, o, d) == ch' = [ch EXCEPT ![e][o] = d] \/ (ch' = ch /\ d = ch[e][o])

LEMMA Altered ==
    ASSUME Inv, NEW e \in Ends, NEW o \in Chans, NEW d, Alters(e, o, d)
    PROVE  ch'[Peer(e)] = ch[Peer(e)] /\ ch'[e][o] = d /\ \A m \in Chans \ {o} : ch'[e][m] = ch[e][m]
<1>1. CASE ch' = [ch EXCEPT ![e][o] = d]
  BY <1>1, PeerFacts DEF Inv, Shape
<1>2. CASE ch' = ch /\ d = ch[e][o]
  BY <1>2
<1> QED
  BY <1>1, <1>2 DEF Alters

LEMMA TwoEnds == ASSUME NEW e \in Ends PROVE Peer(e) \in Ends /\ Peer(e) # e /\ Peer(Peer(e)) = e /\ Ends = {e, Peer(e)}
  BY MuxAssumption DEF Peer, Ends

LEMMA AlteredPlain ==
    ASSUME Inv, NEW e \in Ends, NEW o \in Chans, NEW d, Alters(e, o, d), Plain(ch[e][o], d)
    PROVE  AllPlain
<1>1. ch'[Peer(e)] = ch[Peer(e)] /\ ch'[e][o] = d /\ \A m \in Chans \ {o} : ch'[e][m] = ch[e][m]
  BY Altered
<1>2. \A c : Plain(c, c)
  BY DEF Plain
<1> QED
  BY <1>1, <1>2, TwoEnds DEF AllPlain

LEMMA AlteredPlaces ==
    ASSUME Inv, NEW e \in Ends, NEW o \in Chans, NEW d, Alters(e, o, d), Places, Place(e, d), conn' = conn, scene' = scene
    PROVE  Places'
<1>1. ch'[Peer(e)] = ch[Peer(e)] /\ ch'[e][o] = d /\ \A m \in Chans \ {o} : ch'[e][m] = ch[e][m]
  BY Altered
<1>2. \A m \in Ends, q \in Chans : Place(m, ch'[m][q])
  BY <1>1, TwoEnds DEF Places
<1>3. \A m \in Ends, q \in Chans : Place(m, ch[m][q])' <=> Place(m, ch'[m][q])
  BY SMTT(30) DEF Place, Settled, Written, Came
<1> QED
  BY <1>2, <1>3, Zenon DEF Places

LEMMA SamePlaces ==
    ASSUME Inv, Places, ch' = ch, scene' = scene, \A m \in Ends : conn'[m] \in {conn[m], "down"}
    PROVE  Places'
<1> SUFFICES ASSUME NEW m \in Ends, NEW q \in Chans PROVE Place(m, ch[m][q])'
  BY Zenon DEF Places
<1>1. Place(m, ch[m][q]) /\ conn'[m] \in {conn[m], "down"}
  BY DEF Places
<1> QED
  BY <1>1 DEF Place, Settled, Written, Came

\* The other end of a channel
LEMMA MateOf ==
    ASSUME Pairs, NEW e \in Ends, NEW o \in Chans, ch[e][o].pair # 0
    PROVE  \E m \in Chans : Mate(Peer(e), m, o) /\ ch[e][o].rid = ch[Peer(e)][m].id /\ ch[e][o].pair = m
<1>1. CASE e = Opener
  <2> PICK m : m = ch[Opener][o].pair
    OBVIOUS
  <2>1. m \in Chans /\ ch[Other][m].pair = o /\ ch[Opener][o].rid = ch[Other][m].id
    BY <1>1 DEF Pairs
  <2> QED
    BY <1>1, <2>1, MuxAssumption DEF Mate, Peer
<1>2. CASE e = Other
  <2> PICK m : m = ch[Other][o].pair
    OBVIOUS
  <2>1. m \in Chans /\ ch[Other][o].rid = ch[Opener][m].id
    BY <1>2 DEF Pairs
  <2> QED
    BY <1>2, <2>1, MuxAssumption DEF Mate, Peer
<1> QED
  BY <1>1, <1>2 DEF Ends

LEMMA MateOne ==
    ASSUME Pairs, NEW r \in Ends, NEW m \in Chans, NEW q \in Chans, Mate(r, m, q)
    PROVE  \A n \in Chans : (Mate(r, n, q) => n = m) /\ (Mate(r, m, n) => n = q)
<1>1. \A n \in Chans : n # 0
  BY DEF Chans
<1> QED
  BY <1>1 DEF Mate, Pairs

LEMMA MatesKept ==
    ASSUME NEW e \in Ends, ch'[Peer(e)] = ch[Peer(e)], \A q \in Chans : ch'[e][q].pair = ch[e][q].pair
    PROVE  \A m, q \in Chans : Mate(Peer(e), m, q)' <=> Mate(Peer(e), m, q)
  BY MuxAssumption DEF Mate, Peer, Ends

\* What the reader at the other end sees of a step that changes channel o of e.
Faces(e, o) ==
    /\ ch'[Peer(e)] = ch[Peer(e)] /\ slots'[Peer(e)] = slots[Peer(e)] /\ (Reads(Peer(e))' => Reads(Peer(e)))
    /\ \A m \in Chans \ {o} : ch'[e][m] = ch[e][m]
    /\ ch'[e][o].id = ch[e][o].id /\ ch'[e][o].pair = ch[e][o].pair

LEMMA FacesStill == ASSUME NEW e \in Ends, NEW o \in Chans, Faces(e, o) PROVE Still(Peer(e))
<1>1. \A q \in Chans : ch'[e][q].pair = ch[e][q].pair
  BY DEF Faces
<1>2. \A m, q \in Chans : Mate(Peer(e), m, q)' <=> Mate(Peer(e), m, q)
  BY <1>1, MatesKept DEF Faces
<1> QED
  BY <1>2 DEF Still, Faces

\* Nothing is sent.
LEMMA SaysNothing ==
    ASSUME Inv, NEW e \in Ends, NEW o \in Chans, Faces(e, o), Dir(Peer(e)), conn' = conn,
           wire'[Peer(e)] = wire[Peer(e)], Softer(e, o)
    PROVE  Dir(Peer(e))'
<1> PICK r : r = Peer(e)
  OBVIOUS
<1>0. r \in Ends /\ Peer(r) = e
  BY TwoEnds
<1>1. \A q \in Chans : Softer(e, q)
  BY DEF Softer, Faces, Active
<1>2. \A m, q \in Chans : Mate(r, m, q) => Eased(r, m, Peer(r), q)
  BY <1>0, <1>1, SofterEased
<1>3. Still(r)
  BY FacesStill
<1>4. Inv /\ Dir(r) /\ wire'[r] = wire[r]
  OBVIOUS
<1>5. Dir(r)'
  BY ONLY <1>0, <1>2, <1>3, <1>4, OutKeeps
<1> QED
  BY <1>5

\* p is sent to the other end.
Says(e, o, p) ==
    /\ p.t \in ChanTypes /\ p.to = ch[e][o].rid /\ ch[e][o].pair # 0 /\ ch'[e][o].decided
    /\ \A z : Sender(e, o, z) => \E t : Legal(Peer(e), ch[e][o].id, o, z, p, t) /\ Sender(e, o, t)'

LEMMA SaysOne ==
    ASSUME Inv, Pairs, NEW e \in Ends, NEW o \in Chans, Faces(e, o), Dir(Peer(e)), conn' = conn,
           NEW p, wire'[Peer(e)] = wire[Peer(e)] \o <<p>>, Says(e, o, p),
           Active(e, o) \/ (~ch[e][o].decided /\ \A m \in Chans : ch[Peer(e)][m].st # "rejected")
    PROVE  Dir(Peer(e))'
<1> PICK r : r = Peer(e)
  OBVIOUS
<1>0. r \in Ends /\ e = Peer(r)
  BY TwoEnds
<1>1. PICK m \in Chans : Mate(r, m, o) /\ ch[e][o].rid = ch[r][m].id
  BY MateOf DEF Says
<1>2. \A n \in Chans : (Mate(r, n, o) => n = m) /\ (Mate(r, m, n) => n = o)
  BY <1>0, <1>1, MateOne
<1>3. Still(r)
  BY FacesStill
<1>4. p.t \in ChanTypes /\ p.to = ch[r][m].id /\ ch'[e][o].decided
  BY <1>1 DEF Says
<1>5. \A z : Sender(e, o, z) => \E t : Legal(r, ch[e][o].id, o, z, p, t) /\ Sender(e, o, t)'
  BY DEF Says
<1>6. ch'[e][o].id = ch[e][o].id /\ \A n \in Chans \ {o} : ch'[e][n] = ch[e][n]
  BY DEF Faces
<1>7. Active(e, o) \/ (~ch[e][o].decided /\ ch[r][m].st # "rejected")
  OBVIOUS
<1>8. Inv /\ Dir(r) /\ wire'[r] = wire[r] \o <<p>> /\ conn'[e] = conn[e]
  OBVIOUS
<1>9. Dir(r)'
  BY ONLY <1>0, <1>1, <1>2, <1>3, <1>4, <1>5, <1>6, <1>7, <1>8, OutSends, SMTT(30)
<1> QED
  BY <1>9

\* An application's step on channel o of e.
Local(e, o, d) ==
    /\ UNCHANGED <<scene, conn, loop, slots, inChans>> /\ Alters(e, o, d) /\ Plain(ch[e][o], d) /\ Place(e, d)
    /\ d.eof = ch[e][o].eof /\ \A x \in Buffered : Len(Arrived(d, x)) = Len(Arrived(ch[e][o], x))

LEMMA LocalFaces == ASSUME Inv, NEW e \in Ends, NEW o \in Chans, NEW d, Local(e, o, d) PROVE Faces(e, o) /\ ch'[e][o] = d
  BY Altered DEF Local, Faces, Plain, Reads

LEMMA LocalReads ==
    ASSUME Inv, NEW e \in Ends, NEW o \in Chans, NEW d, Local(e, o, d), wire'[e] = wire[e], Dir(e)
    PROVE  Dir(e)'
<1>1. ch'[Peer(e)] = ch[Peer(e)] /\ ch'[e][o] = d /\ \A m \in Chans \ {o} : ch'[e][m] = ch[e][m]
  BY Altered DEF Local
<1>2. At(e, o)' = At(e, o)
  BY <1>1 DEF At, Local, Plain
<1>3. \A m \in Chans \ {o} : At(e, m)' = At(e, m)
  BY <1>1 DEF At, Arrived
<1>4. \A m \in Chans : Reading(e, m)
  BY <1>1, <1>2, <1>3 DEF Reading, Local, Plain
<1>5. conn'[Peer(e)] = conn[Peer(e)] /\ slots'[e] = slots[e] /\ (Reads(e)' => Reads(e))
  BY DEF Local, Reads
<1>6. Inv /\ e \in Ends /\ Dir(e) /\ wire'[e] = wire[e] /\ ch'[Peer(e)] = ch[Peer(e)]
  BY <1>1
<1> QED
  BY ONLY <1>4, <1>5, <1>6, InKeeps

LEMMA LocalBase ==
    ASSUME Inv, Base, NEW e \in Ends, NEW o \in Chans, NEW d, Local(e, o, d),
           NEW p, p.t # "open", Wired(e, p), Wired(Peer(e), p), Dir(e)', Dir(Peer(e))'
    PROVE  Base'
<1>1. AllPlain
  BY AlteredPlain DEF Local
<1>2. Places'
  BY AlteredPlaces DEF Local, Base
<1>3. NoMore(wire[Other], wire'[Other], "open") /\ NoMore(wire[Opener], wire'[Opener], "open")
  BY FirstChannel, TwoEnds, WiredNoMore
<1>4. Pairs' /\ Opens' /\ Queue'
  BY <1>1, <1>3, PlainPairs, PlainOpens, PlainQueue DEF Local, Base
<1>5. Dir(Opener)' /\ Dir(Other)'
  BY FirstChannel, TwoEnds
<1> QED
  BY <1>2, <1>4, <1>5 DEF Base

\* What changes without a packet.
Mute(e, c, d) ==
    /\ \A x \in Buffered : d.out[x] = c.out[x]
    /\ (c.sentClose => d.sentClose) /\ (d.sentEOF = c.sentEOF \/ d.sentClose \/ conn[e] # "up")

LEMMA MuteSofter ==
    ASSUME NEW e \in Ends, NEW o \in Chans, conn' = conn, Plain(ch[e][o], ch'[e][o]), Mute(e, ch[e][o], ch'[e][o])
    PROVE  Softer(e, o)
  BY DEF Softer, Mute, Plain, Active

LEMMA Silent ==
    ASSUME Inv, Base, NEW e \in Ends, NEW o \in Chans, NEW d, Local(e, o, d), wire' = wire, Mute(e, ch[e][o], d)
    PROVE  Base'
<1>1. Dir(e) /\ Dir(Peer(e)) /\ conn' = conn
  BY TwoEnds, FirstChannel DEF Base, Local, Ends
<1>2. Dir(e)'
  BY <1>1, LocalReads
<1>3. Faces(e, o) /\ ch'[e][o] = d
  BY LocalFaces
<1>4. Softer(e, o)
  BY <1>1, <1>3, MuteSofter DEF Local
<1>5. Dir(Peer(e))'
  BY <1>1, <1>3, <1>4, SaysNothing
<1> PICK p : p = Pkt("eof", 0)
  OBVIOUS
<1>6. p.t # "open" /\ Wired(e, p) /\ Wired(Peer(e), p)
  BY DEF Wired, Pkt
<1> QED
  BY <1>2, <1>5, <1>6, LocalBase

LEMMA Talks ==
    ASSUME Inv, Base, NEW e \in Ends, NEW o \in Chans, NEW d, Local(e, o, d),
           NEW p, p.t # "open", ChanSends(e, o, p),
           MaySend(e, o) => Says(e, o, p) /\ Active(e, o),
           ~MaySend(e, o) => Mute(e, ch[e][o], d)
    PROVE  Base' /\ \A m \in Ends : Wired(m, p)
<1> PICK r : r = Peer(e)
  OBVIOUS
<1>1. Dir(e) /\ Dir(r) /\ conn' = conn /\ Pairs
  BY TwoEnds, FirstChannel DEF Base, Local, Ends
<1>2. /\ wire'[e] = wire[e]
      /\ IF MaySend(e, o) /\ conn[r] = "up" THEN wire'[r] = wire[r] \o <<p>> ELSE wire'[r] = wire[r]
  BY ChanSent
<1>3. Dir(e)'
  BY <1>1, <1>2, LocalReads
<1>4. Faces(e, o) /\ ch'[e][o] = d
  BY LocalFaces
<1>5. Dir(r)'
  <2>1. CASE MaySend(e, o) /\ conn[r] = "up"
    BY <1>1, <1>2, <1>4, <2>1, SaysOne
  <2>2. CASE conn[r] # "up"
    BY <1>1, <2>2 DEF Dir, Reads
  <2>3. CASE ~MaySend(e, o)
    <3>1. Softer(e, o)
      BY <1>1, <1>4, <2>3, MuteSofter DEF Local
    <3>2. wire'[r] = wire[r]
      BY <1>2, <2>3
    <3> QED
      BY <1>1, <1>4, <3>1, <3>2, SaysNothing
  <2> QED
    BY <2>1, <2>2, <2>3
<1>6. Wired(e, p) /\ Wired(r, p)
  BY <1>2 DEF Wired
<1>7. Base'
  BY <1>3, <1>5, <1>6, LocalBase
<1> QED
  BY <1>6, <1>7, TwoEnds

\* What requests and their callers do not notice
Unnoticed(e, c, d) ==
    /\ e = Other => d.reqs = c.reqs
    /\ e = Opener => /\ (c.closed => d.closed) /\ (c.st = "open" => d.st = "open")
                     /\ d.st = "open" /\ d.msg # <<>> => c.st = "open" /\ d.msg = c.msg

LEMMA TokensAltered ==
    ASSUME Inv, Tokens, NEW e \in Ends, NEW o \in Chans, NEW d, Alters(e, o, d), UNCHANGED calls,
           NoMore(wire[Other], wire'[Other], "request"), NoMore(wire[Opener], wire'[Opener], "reply"),
           Unnoticed(e, ch[e][o], d)
    PROVE  Tokens'
<1> PICK c : c = ch[e][o]
  OBVIOUS
<1>u. /\ e = Other => d.reqs = c.reqs
      /\ e = Opener => /\ (c.closed => d.closed) /\ (c.st = "open" => d.st = "open")
                       /\ d.st = "open" /\ d.msg # <<>> => c.st = "open" /\ d.msg = c.msg
  BY DEF Unnoticed
<1>0. ch'[Peer(e)] = ch[Peer(e)] /\ ch'[e][o] = d /\ \A m \in Chans \ {o} : ch'[e][m] = ch[e][m]
  BY Altered
<1>1. \A b \in Chans : ch'[Other][b].reqs = ch[Other][b].reqs
  <2>1. CASE e = Other
    BY <1>0, <1>u, <2>1
  <2>2. CASE e = Opener
    BY <1>0, <2>2 DEF Peer
  <2> QED
    BY <2>1, <2>2 DEF Ends
<1> PICK a, b : a = ch[Opener][1] /\ b = ch'[Opener][1]
  OBVIOUS
<1>2. /\ (a.closed => b.closed) /\ (a.st = "open" => b.st = "open")
      /\ b.st = "open" /\ b.msg # <<>> => a.st = "open" /\ b.msg = a.msg
  <2>1. CASE e = Other
    BY <1>0, <2>1, MuxAssumption DEF Peer
  <2>2. CASE e = Opener
    <3>1. 1 \in Chans
      BY FirstChannel
    <3>2. CASE o = 1
      BY <1>0, <1>u, <2>2, <3>2
    <3>3. CASE o # 1
      BY <1>0, <2>2, <3>1, <3>3
    <3> QED
      BY <3>2, <3>3
  <2> QED
    BY <2>1, <2>2 DEF Ends
<1> QED
  BY <1>1, <1>2, TokensKept

LEMMA TokensWired ==
    ASSUME Inv, NEW p, p.t \notin {"request", "reply"}, \A m \in Ends : Wired(m, p)
    PROVE  NoMore(wire[Other], wire'[Other], "request") /\ NoMore(wire[Opener], wire'[Opener], "reply")
  BY FirstChannel, WiredNoMore

LEMMA SameWired == ASSUME wire' = wire PROVE \A m \in Ends : Wired(m, Pkt("eof", 0))
  BY DEF Wired

LEMMA TokensSilent ==
    ASSUME Inv, wire' = wire
    PROVE  NoMore(wire[Other], wire'[Other], "request") /\ NoMore(wire[Opener], wire'[Opener], "reply")
<1> PICK p : p = Pkt("eof", 0)
  OBVIOUS
<1>1. p.t \notin {"request", "reply"}
  BY DEF Pkt
<1> QED
  BY <1>1, SameWired, TokensWired

LEMMA PktFields ==
    ASSUME NEW t, NEW to
    PROVE  /\ Pkt(t, to).t = t /\ Pkt(t, to).to = to /\ Pkt(t, to).tag = "none" /\ Pkt(t, to).from = 0
           /\ DOMAIN Pkt(t, to) = {"t", "to", "id", "win", "x", "bytes", "tag", "from"}
  BY DEF Pkt

Good == Frame /\ Base /\ Tokens

LEMMA PlaceOf == ASSUME Base, NEW e \in Ends, NEW o \in Chans PROVE Place(e, ch[e][o])
  BY DEF Base, Places

-----------------------------------------------------------------------------
(* The applications                                                        *)

LEMMA OpenReturnsGood == ASSUME Inv, Base, Tokens, NEW o \in Chans, OpenReturns(o) PROVE Base' /\ Tokens'
<1> PICK e, c : e = Opener /\ c = ch[e][o]
  OBVIOUS
<1>0. e \in Ends /\ DOMAIN c = ChanFields /\ Place(e, c)
  BY FirstChannel, ChanDomain, PlaceOf
<1> PICK s : s \in {"open", "failed"} /\ s = IF c.msg # <<>> /\ Head(c.msg) = "confirm" THEN "open" ELSE "failed"
  OBVIOUS
<1> PICK d : d = [c EXCEPT !.st = s, !.msg = <<>>]
  OBVIOUS
<1>1. /\ Alters(e, o, d) /\ UNCHANGED <<scene, conn, loop, slots, inChans, wire, calls>>
      /\ c.st = "opening"
  BY DEF OpenReturns, history, calls, Alters
<1>2. /\ d.st = s /\ d.msg = <<>>
      /\ \A f \in ChanFields \ {"st", "msg"} : d[f] = c[f]
  BY <1>0 DEF ChanFields
<1>3. /\ d.id = c.id /\ d.rid = c.rid /\ d.pair = c.pair /\ d.decided = c.decided /\ d.closed = c.closed
      /\ d.sentClose = c.sentClose /\ d.sentEOF = c.sentEOF /\ d.reqs = c.reqs /\ d.pend = c.pend /\ d.eof = c.eof
      /\ d.out = c.out /\ d.hold = c.hold /\ d.left = c.left /\ d.got = c.got /\ d.buf = c.buf
  BY <1>2 DEF ChanFields
<1>4. Settled(e, d)
  <2>1. Head(<<"failure">>) = "failure" /\ <<"failure">> # <<>>
    OBVIOUS
  <2>2. s = "open" => c.decided /\ c.pair # 0
    BY <1>0, <1>1, <2>1, Zenon DEF Place, Settled
  <2> QED
    BY <1>0, <1>1, <1>2, <1>3, <2>2, MuxAssumption DEF Place, Settled
<1>5. Written(e, d) /\ Came(e, d)
  BY <1>0, <1>1, <1>2, <1>3, SMTT(30) DEF Place, Written, Came, Arrived
<1>6. Local(e, o, d)
  BY <1>1, <1>2, <1>3, <1>4, <1>5 DEF Local, Plain, Place, Arrived
<1>7. Mute(e, c, d)
  BY <1>3 DEF Mute
<1>8. Base'
  BY <1>0, <1>1, <1>6, <1>7, Silent
<1>t. Unnoticed(e, c, d)
  BY <1>1, <1>2, <1>3 DEF Unnoticed
<1>9. Tokens'
  BY <1>0, <1>1, <1>t, TokensSilent, TokensAltered
<1> QED
  BY <1>8, <1>9

LEMMA ReserveGood ==
    ASSUME Inv, Base, Tokens, NEW e \in Ends, NEW o \in Chans, NEW x \in Streams, Reserve(e, o, x)
    PROVE  Base' /\ Tokens'
<1> PICK c, n : c = ch[e][o] /\ n = Space(c, x)
  OBVIOUS
<1>0. DOMAIN c = ChanFields /\ Place(e, c) /\ Sound(c)
  BY ChanDomain, PlaceOf
<1>d. PICK d : d = IF c.closed THEN [c EXCEPT !.left[x] = 0] ELSE [c EXCEPT !.hold[x] = n, !.rWin = @ - n]
  OBVIOUS
<1>1. /\ Alters(e, o, d) /\ UNCHANGED <<scene, conn, loop, slots, inChans, wire, calls>>
      /\ c.st = "open" /\ c.left[x] > 0 /\ c.hold[x] = 0 /\ ~c.sentEOF /\ (c.rWin > 0 \/ c.closed)
  BY <1>d DEF Reserve, history, calls, Alters
<1>2. \A f \in ChanFields \ {"left", "hold", "rWin"} : d[f] = c[f]
  BY <1>0, <1>d DEF ChanFields
<1>3. /\ d.st = c.st /\ d.msg = c.msg /\ d.id = c.id /\ d.rid = c.rid /\ d.pair = c.pair /\ d.decided = c.decided
      /\ d.closed = c.closed /\ d.sentClose = c.sentClose /\ d.sentEOF = c.sentEOF /\ d.reqs = c.reqs
      /\ d.pend = c.pend /\ d.eof = c.eof /\ d.out = c.out /\ d.got = c.got /\ d.buf = c.buf
  BY <1>2 DEF ChanFields
<1>4. Settled(e, d) /\ Came(e, d)
  BY <1>0, <1>1, <1>3 DEF Place, Settled, Came, Arrived
<1>5. Written(e, d)
  <2>1. DOMAIN c.left = Streams /\ DOMAIN c.hold = Streams /\ c.rWin \in Nat /\ MaxPacket \in Nat
    BY <1>0, Sizes DEF Sound
  <2>2. CASE c.closed
    <3>1. d.hold = c.hold /\ d.left = [c.left EXCEPT ![x] = 0]
      BY <1>0, <1>d, <2>2 DEF ChanFields
    <3>2. c.sentClose
      BY <1>0, <2>2 DEF Place, Settled
    <3>3. \A y \in Streams : d.left[y] = IF y = x THEN 0 ELSE c.left[y]
      BY <2>1, <3>1
    <3> QED
      BY ONLY <1>0, <1>1, <1>3, <3>1, <3>2, <3>3 DEF Place, Written
  <2>3. CASE ~c.closed
    <3>1. d.left = c.left /\ d.hold = [c.hold EXCEPT ![x] = n]
      BY <1>0, <1>d, <2>3 DEF ChanFields
    <3>2. c.left[x] \in Nat
      BY <1>0 DEF Place, Written
    <3>3. n \in Nat /\ n <= c.left[x]
      BY <2>1, <3>2 DEF Space, MinOf
    <3>4. \A y \in Streams : d.hold[y] = IF y = x THEN n ELSE c.hold[y]
      BY <2>1, <3>1
    <3> QED
      <4>1. ASSUME NEW y \in Streams
            PROVE  /\ d.out[y] \in Nat /\ d.hold[y] \in Nat /\ d.left[y] \in Nat /\ d.hold[y] <= d.left[y]
                   /\ d.hold[y] > 0 => d.st = "open"
                   /\ d.st # "free" /\ ~d.sentClose /\ conn[e] = "up" => d.out[y] = scene.write[e][y] - d.left[y]
                   /\ d.sentEOF => d.left[y] = 0
        <5>1. /\ c.out[y] \in Nat /\ c.hold[y] \in Nat /\ c.left[y] \in Nat /\ c.hold[y] <= c.left[y]
              /\ (c.st # "free" /\ ~c.sentClose /\ conn[e] = "up" => c.out[y] = scene.write[e][y] - c.left[y])
              /\ (c.sentEOF => c.left[y] = 0)
          BY <1>0 DEF Place, Written
        <5>2. CASE y = x
          BY ONLY <1>1, <1>3, <3>1, <3>3, <3>4, <5>1, <5>2
        <5>3. CASE y # x
          BY ONLY <1>1, <1>3, <3>1, <3>4, <4>1, <5>1, <5>3, Zenon
        <5> QED
          BY <5>2, <5>3
      <4>2. DOMAIN d.out = Streams /\ d.decided
        BY <1>0, <1>1, <1>3 DEF Place, Written, Settled
      <4> QED
        BY ONLY <4>1, <4>2 DEF Written
  <2> QED
    BY <2>2, <2>3
<1>6. Local(e, o, d)
  BY <1>1, <1>3, <1>4, <1>5 DEF Local, Plain, Place, Arrived
<1>7. Mute(e, c, d)
  BY <1>3 DEF Mute
<1>8. Base'
  BY <1>1, <1>6, <1>7, Silent
<1>t. Unnoticed(e, c, d)
  BY <1>3 DEF Unnoticed
<1>9. Tokens'
  BY <1>1, <1>t, TokensSilent, TokensAltered
<1> QED
  BY <1>8, <1>9

LEMMA ActiveOf ==
    ASSUME Base, NEW e \in Ends, NEW o \in Chans, ch[e][o].st = "open", MaySend(e, o)
    PROVE  Active(e, o)
  BY PlaceOf DEF Active, MaySend, Place, Settled

LEMMA CloseWriteGood ==
    ASSUME Inv, Base, Tokens, NEW e \in Ends, NEW o \in Chans, CloseWrite(e, o)
    PROVE  Base' /\ Tokens'
<1> PICK c, p : c = ch[e][o] /\ p = Pkt("eof", c.rid)
  OBVIOUS
<1>0. DOMAIN c = ChanFields /\ Place(e, c) /\ p.t = "eof" /\ p.to = c.rid
  BY ChanDomain, PlaceOf, PktFields
<1> PICK d : d = [c EXCEPT !.sentEOF = TRUE]
  OBVIOUS
<1>1. /\ Alters(e, o, d) /\ ChanSends(e, o, p) /\ UNCHANGED <<scene, conn, loop, slots, inChans, calls>>
      /\ c.st = "open" /\ ~c.sentEOF /\ \A x \in Streams : c.left[x] = 0
  BY DEF CloseWrite, history, calls, Alters, Inv, Shape
<1>2. d.sentEOF /\ \A f \in ChanFields \ {"sentEOF"} : d[f] = c[f]
  BY <1>0 DEF ChanFields
<1>3. /\ d.st = c.st /\ d.msg = c.msg /\ d.id = c.id /\ d.rid = c.rid /\ d.pair = c.pair /\ d.decided = c.decided
      /\ d.closed = c.closed /\ d.sentClose = c.sentClose /\ d.reqs = c.reqs /\ d.left = c.left /\ d.hold = c.hold
      /\ d.pend = c.pend /\ d.eof = c.eof /\ d.out = c.out /\ d.got = c.got /\ d.buf = c.buf
  BY <1>2, Zenon DEF ChanFields
<1>4. Place(e, d)
  BY <1>0, <1>1, <1>2, <1>3, SMTT(30) DEF Place, Settled, Written, Came, Arrived
<1>6. Local(e, o, d) /\ ch'[e][o] = d /\ conn' = conn
  BY <1>1, <1>3, <1>4, Altered DEF Local, Plain, Arrived
<1>7. MaySend(e, o) => Says(e, o, p) /\ Active(e, o)
  <2> SUFFICES ASSUME MaySend(e, o) PROVE Says(e, o, p) /\ Active(e, o)
    OBVIOUS
  <2>1. Active(e, o)
    BY <1>1, ActiveOf
  <2>2. ASSUME NEW z, Sender(e, o, z) PROVE \E t : Legal(Peer(e), c.id, o, z, p, t) /\ Sender(e, o, t)'
    <3> PICK t : t = [ph |-> "fin", n |-> z.n]
      OBVIOUS
    <3>1. Legal(Peer(e), c.id, o, z, p, t)
      BY <1>0, <1>1, <2>1, <2>2 DEF Legal, Sender
    <3>2. Sender(e, o, t)'
      BY <1>2, <1>3, <1>6, <2>1, <2>2 DEF Sender, Active
    <3> QED
      BY <3>1, <3>2
  <2> QED
    BY <1>0, <1>3, <1>6, <2>1, <2>2 DEF Says, Active, ChanTypes
<1>8. ~MaySend(e, o) => Mute(e, c, d)
  BY <1>3 DEF Mute, MaySend
<1>9. Base' /\ \A m \in Ends : Wired(m, p)
  BY <1>0, <1>1, <1>6, <1>7, <1>8, Talks
<1>t. Unnoticed(e, c, d)
  BY <1>3 DEF Unnoticed
<1>10. Tokens'
  BY <1>0, <1>1, <1>9, <1>t, TokensWired, TokensAltered
<1> QED
  BY <1>9, <1>10

LEMMA CloseGood ==
    ASSUME Inv, Base, Tokens, NEW e \in Ends, NEW o \in Chans, Close(e, o)
    PROVE  Base' /\ Tokens'
<1> PICK c, p : c = ch[e][o] /\ p = Pkt("close", c.rid)
  OBVIOUS
<1>0. DOMAIN c = ChanFields /\ Place(e, c) /\ p.t = "close" /\ p.to = c.rid
  BY ChanDomain, PlaceOf, PktFields
<1> PICK d : d = [c EXCEPT !.sentClose = TRUE]
  OBVIOUS
<1>1. /\ Alters(e, o, d) /\ ChanSends(e, o, p) /\ UNCHANGED <<scene, conn, loop, slots, inChans, calls>>
      /\ c.st = "open"
  BY DEF Close, history, calls, Alters, Inv, Shape
<1>2. d.sentClose /\ \A f \in ChanFields \ {"sentClose"} : d[f] = c[f]
  BY <1>0 DEF ChanFields
<1>3. /\ d.st = c.st /\ d.msg = c.msg /\ d.id = c.id /\ d.rid = c.rid /\ d.pair = c.pair /\ d.decided = c.decided
      /\ d.closed = c.closed /\ d.sentEOF = c.sentEOF /\ d.reqs = c.reqs /\ d.left = c.left /\ d.hold = c.hold
      /\ d.pend = c.pend /\ d.eof = c.eof /\ d.out = c.out /\ d.got = c.got /\ d.buf = c.buf
  BY <1>2, Zenon DEF ChanFields
<1>4. Place(e, d)
  BY <1>0, <1>1, <1>2, <1>3, SMTT(30) DEF Place, Settled, Written, Came, Arrived
<1>6. Local(e, o, d) /\ ch'[e][o] = d /\ conn' = conn
  BY <1>1, <1>3, <1>4, Altered, SMTT(30) DEF Local, Plain, Arrived
<1>7. MaySend(e, o) => Says(e, o, p) /\ Active(e, o)
  <2> SUFFICES ASSUME MaySend(e, o) PROVE Says(e, o, p) /\ Active(e, o)
    OBVIOUS
  <2>1. Active(e, o)
    BY <1>1, ActiveOf
  <2>2. ASSUME NEW z, Sender(e, o, z) PROVE \E t : Legal(Peer(e), c.id, o, z, p, t) /\ Sender(e, o, t)'
    <3> PICK t : t = [ph |-> "off", n |-> z.n]
      OBVIOUS
    <3>1. Legal(Peer(e), c.id, o, z, p, t)
      BY <1>0, <1>1, <2>1, <2>2 DEF Legal, Sender
    <3>2. Sender(e, o, t)'
      BY <1>1, <1>2, <1>3, <1>6, <2>1, <2>2 DEF Sender, Active
    <3> QED
      BY <3>1, <3>2
  <2> QED
    BY <1>0, <1>3, <1>6, <2>1, <2>2 DEF Says, Active, ChanTypes
<1>8. ~MaySend(e, o) => Mute(e, c, d)
  BY <1>2, <1>3 DEF Mute
<1>9. Base' /\ \A m \in Ends : Wired(m, p)
  BY <1>0, <1>1, <1>6, <1>7, <1>8, Talks
<1>t. Unnoticed(e, c, d)
  BY <1>3 DEF Unnoticed
<1>10. Tokens'
  BY <1>0, <1>1, <1>9, <1>t, TokensWired, TokensAltered
<1> QED
  BY <1>9, <1>10

LEMMA WriteDataGood ==
    ASSUME Inv, Base, Tokens, NEW e \in Ends, NEW o \in Chans, NEW x \in Streams, WriteData(e, o, x)
    PROVE  Base' /\ Tokens'
<1> PICK c : c = ch[e][o]
  OBVIOUS
<1> PICK n, l, w : n = c.hold[x] /\ l = c.left[x] /\ w = scene.write[e][x]
  OBVIOUS
<1>p. PICK b, p : b = Bytes(e, c, x) /\ p = [Pkt("data", c.rid) EXCEPT !.x = x, !.bytes = b]
  OBVIOUS
<1>0. DOMAIN c = ChanFields /\ Place(e, c) /\ Sound(c) /\ p.t = "data" /\ p.to = c.rid /\ p.x = x /\ p.bytes = b
  BY <1>p, ChanDomain, PlaceOf, PktFields
<1>w. w \in Nat /\ n \in Nat /\ l \in Nat /\ n <= l /\ c.out[x] \in Nat
  <2>1. scene.write[e] \in [Streams -> Nat]
    BY PacketsAssumption DEF Inv, Shape
  <2> QED
    BY <1>0, <2>1 DEF Place, Written
<1> PICK k, u : /\ k = (IF MaySend(e, o) THEN l - n ELSE 0)
                /\ u = (IF MaySend(e, o) THEN c.out[x] + n ELSE c.out[x])
  OBVIOUS
<1>d. PICK d : d = [c EXCEPT !.left[x] = k, !.hold[x] = 0, !.out[x] = u]
  OBVIOUS
<1>1. /\ Alters(e, o, d) /\ ChanSends(e, o, p) /\ UNCHANGED <<scene, conn, loop, slots, inChans, calls>>
      /\ n > 0
  BY <1>d, <1>p DEF WriteData, history, calls, Alters
<1>2. c.st = "open" /\ c.decided /\ ~c.sentEOF
  BY <1>0, <1>1, <1>w, SMTT(30) DEF Place, Written, Settled
<1>3. /\ d.left = [c.left EXCEPT ![x] = k] /\ d.hold = [c.hold EXCEPT ![x] = 0] /\ d.out = [c.out EXCEPT ![x] = u]
      /\ \A f \in ChanFields \ {"left", "hold", "out"} : d[f] = c[f]
  BY <1>0, <1>d DEF ChanFields
<1>4. /\ d.st = c.st /\ d.msg = c.msg /\ d.id = c.id /\ d.rid = c.rid /\ d.pair = c.pair /\ d.decided = c.decided
      /\ d.closed = c.closed /\ d.sentClose = c.sentClose /\ d.sentEOF = c.sentEOF /\ d.reqs = c.reqs
      /\ d.pend = c.pend /\ d.eof = c.eof /\ d.got = c.got /\ d.buf = c.buf
  BY <1>3 DEF ChanFields
<1>5. \A y \in Streams : /\ d.left[y] = (IF y = x THEN k ELSE c.left[y]) /\ d.hold[y] = (IF y = x THEN 0 ELSE c.hold[y])
                         /\ d.out[y] = (IF y = x THEN u ELSE c.out[y])
  BY <1>0, <1>3 DEF Sound, Place, Written
<1>6. Written(e, d)
  <2>1. DOMAIN d.out = Streams
    BY <1>0, <1>3 DEF Place, Written
  <2>2. MaySend(e, o) => c.out[x] = w - l
    BY <1>0, <1>2 DEF Place, Written, MaySend
  <2>3. k \in Nat /\ u \in Nat /\ (~d.sentClose /\ conn[e] = "up" => u = w - k)
    BY <1>w, <1>4, <2>2 DEF MaySend
  <2>4. ASSUME NEW y \in Streams
        PROVE  /\ d.out[y] \in Nat /\ d.hold[y] \in Nat /\ d.left[y] \in Nat /\ d.hold[y] <= d.left[y]
               /\ d.hold[y] > 0 => d.st = "open"
               /\ d.st # "free" /\ ~d.sentClose /\ conn[e] = "up" => d.out[y] = scene.write[e][y] - d.left[y]
               /\ d.sentEOF => d.left[y] = 0
    <3>1. CASE y = x
      BY <1>2, <1>4, <1>5, <2>3, <3>1, SMTT(30)
    <3>2. CASE y # x
      BY <1>0, <1>2, <1>4, <1>5, <3>2 DEF Place, Written
    <3> QED
      BY <3>1, <3>2, Zenon
  <2> QED
    BY <1>2, <1>4, <2>1, <2>4 DEF Written
<1>7. Place(e, d)
  <2>1. Settled(e, d)
    BY <1>0, <1>2, <1>4, Zenon DEF Place, Settled
  <2>2. Came(e, d)
    BY <1>0, <1>4 DEF Place, Came, Arrived
  <2> QED
    BY <1>6, <2>1, <2>2 DEF Place
<1>8. Local(e, o, d) /\ ch'[e][o] = d /\ conn' = conn
  <2>1. Plain(c, d) /\ d.eof = c.eof /\ \A y \in Buffered : Len(Arrived(d, y)) = Len(Arrived(c, y))
    BY <1>4 DEF Plain, Arrived
  <2>2. Local(e, o, d)
    BY <1>1, <1>7, <2>1 DEF Local
  <2> QED
    BY <1>1, <2>2, LocalFaces
<1>9. MaySend(e, o) => Says(e, o, p) /\ Active(e, o)
  <2> SUFFICES ASSUME MaySend(e, o) PROVE Says(e, o, p) /\ Active(e, o)
    OBVIOUS
  <2>1. Active(e, o)
    BY <1>2, ActiveOf
  <2>3. c.out[x] = w - l /\ u = c.out[x] + n
    BY <1>0, <1>2 DEF Place, Written, MaySend
  <2>4. b = [i \in 1 .. n |-> w - l + i] /\ Len(b) = n
    BY <1>p, <1>w DEF Bytes
  <2>2. ASSUME NEW z, Sender(e, o, z) PROVE \E t : Legal(Peer(e), c.id, o, z, p, t) /\ Sender(e, o, t)'
    <3> PICK m : m = IF x \in Buffered THEN [z.n EXCEPT ![x] = @ + n] ELSE z.n
      OBVIOUS
    <3> PICK t : t = IF x \in Buffered THEN [ph |-> "on", n |-> m] ELSE z
      OBVIOUS
    <3>1. z.ph = "on" /\ z.n \in [Buffered -> Int] /\ \A y \in Buffered : z.n[y] = c.out[y]
      BY <1>2, <2>1, <2>2 DEF Sender
    <3>2. m \in [Buffered -> Int] /\ \A y \in Buffered : m[y] = d.out[y]
      <4>1. CASE x \in Buffered
        <5>1. m = [z.n EXCEPT ![x] = @ + n] /\ z.n[x] \in Int /\ z.n[x] + n \in Int
          BY <1>w, <3>1, <4>1
        <5>2. m \in [Buffered -> Int] /\ m[x] = z.n[x] + n /\ \A y \in Buffered \ {x} : m[y] = z.n[y]
          BY <3>1, <4>1, <5>1, Zenon
        <5>3. d.out[x] = z.n[x] + n /\ \A y \in Buffered \ {x} : d.out[y] = z.n[y]
          BY <1>5, <2>3, <3>1, <4>1 DEF Buffered, Streams
        <5> QED
          BY <5>2, <5>3
      <4>2. CASE x \notin Buffered
        BY <1>5, <3>1, <4>2 DEF Buffered, Streams
      <4> QED
        BY <4>1, <4>2
    <3>3. Legal(Peer(e), c.id, o, z, p, t)
      <4>1. CASE x \in Buffered
        <5>1. z.n[x] = w - l
          BY <2>3, <3>1, <4>1
        <5>2. b = [i \in 1 .. Len(b) |-> z.n[x] + i]
          BY <2>4, <5>1
        <5>3. t = [ph |-> "on", n |-> [z.n EXCEPT ![x] = @ + Len(b)]]
          BY <2>4, <4>1
        <5>4. p.t = "data" /\ p.x = x /\ p.bytes = b /\ z.ph = "on"
          BY <1>0, <3>1
        <5> QED
          BY ONLY <4>1, <5>2, <5>3, <5>4, Zenon DEF Legal
      <4>2. CASE x \notin Buffered
        <5>1. z = t
          BY <4>2
        <5>2. p.t = "data" /\ p.x = x /\ z.ph = "on"
          BY <1>0, <3>1
        <5> QED
          BY ONLY <4>2, <5>1, <5>2 DEF Legal
      <4> QED
        BY <4>1, <4>2
    <3>5. t.ph = "on" /\ t.n = m
      BY <3>1, Zenon
    <3>4. Sender(e, o, t)'
      BY <3>5, <1>2, <1>4, <1>8, <2>1, <3>2 DEF Sender, Active
    <3> QED
      BY <3>3, <3>4
  <2> QED
    BY <1>0, <1>4, <1>8, <2>1, <2>2 DEF Says, Active, ChanTypes
<1>10. ~MaySend(e, o) => Mute(e, c, d)
  BY <1>4, <1>5 DEF Mute, Buffered, Streams
<1>11. Base' /\ \A m \in Ends : Wired(m, p)
  BY <1>0, <1>1, <1>8, <1>9, <1>10, Talks
<1>t. Unnoticed(e, c, d)
  BY <1>4 DEF Unnoticed
<1>12. Tokens'
  BY <1>0, <1>1, <1>11, <1>t, TokensWired, TokensAltered
<1> QED
  BY <1>11, <1>12

\* What is read moves from the buffer to what was got.
LEMMA SeqMoved ==
    ASSUME NEW g, NEW b, g \in Seq(Int), b \in Seq(Int)
    PROVE  (g \o b) \o <<>> = g \o b /\ g \o b \in Seq(Int)
<1>1. g \o b \in Seq(Int) /\ <<>> \in Seq(Int)
  OBVIOUS
<1>2. IsASeq(g \o b)
  BY <1>1, Zenon DEF IsASeq
<1> QED
  BY <1>1, <1>2, NothingMore

LEMMA ReadGood ==
    ASSUME Inv, Base, Tokens, NEW e \in Ends, NEW o \in Chans, NEW x \in Buffered, Read(e, o, x)
    PROVE  Base' /\ Tokens'
<1> PICK c : c = ch[e][o]
  OBVIOUS
<1>0. DOMAIN c = ChanFields /\ Place(e, c) /\ Sound(c)
  BY ChanDomain, PlaceOf
<1> PICK n, b, g : n = Len(c.buf[x]) /\ b = c.buf[x] /\ g = c.got[x] \o b
  BY ZenonT(60)
<1>k. PICK k, d : k = Consumed(c, n) /\ d = [k EXCEPT !.buf[x] = <<>>, !.got[x] = @ \o b]
  BY ZenonT(60)
<1>a. PICK p : p = [Pkt("adjust", c.rid) EXCEPT !.win = Raise(c, n)]
  BY ZenonT(60)
<1>p. p.t = "adjust" /\ p.to = c.rid
  BY <1>a DEF Pkt
<1>1. /\ Alters(e, o, d) /\ UNCHANGED <<scene, conn, loop, slots, inChans, calls>>
      /\ c.st = "open" /\ (wire' = wire \/ ChanSends(e, o, p))
  BY <1>a, <1>k, ZenonT(60) DEF Read, history, calls, Alters
<1>2. DOMAIN k = ChanFields /\ \A f \in ChanFields \ {"myWin", "myCons"} : k[f] = c[f]
  BY <1>0, <1>k, ZenonT(60) DEF Consumed, ChanFields
<1>3. /\ d.buf = [c.buf EXCEPT ![x] = <<>>] /\ d.got = [c.got EXCEPT ![x] = g]
      /\ \A f \in ChanFields \ {"myWin", "myCons", "buf", "got"} : d[f] = c[f]
  BY <1>2, <1>k, ZenonT(60) DEF ChanFields
<1>4. /\ d.st = c.st /\ d.msg = c.msg /\ d.id = c.id /\ d.rid = c.rid /\ d.pair = c.pair /\ d.decided = c.decided
      /\ d.closed = c.closed /\ d.sentClose = c.sentClose /\ d.sentEOF = c.sentEOF /\ d.reqs = c.reqs
      /\ d.pend = c.pend /\ d.eof = c.eof /\ d.left = c.left /\ d.hold = c.hold /\ d.out = c.out
  BY <1>3, Zenon DEF ChanFields
<1>5. c.decided /\ DOMAIN c.got = Buffered /\ DOMAIN c.buf = Buffered /\ \A y \in Buffered : c.got[y] \in Seq(Int) /\ c.buf[y] \in Seq(Int)
  BY <1>0, <1>1, Zenon DEF Place, Settled, Came, Sound, Buffered
<1>6. DOMAIN d.got = Buffered /\ \A y \in Buffered : Arrived(d, y) = Arrived(c, y) /\ d.got[y] \in Seq(Int)
  <2>h. PICK h, v : h = [c.got EXCEPT ![x] = g] /\ v = [c.buf EXCEPT ![x] = <<>>]
    BY ZenonT(60)
  <2>a. DOMAIN h = Buffered /\ h[x] = g /\ \A y \in Buffered \ {x} : h[y] = c.got[y]
    BY <1>5, <2>h, ZenonT(60)
  <2>b. v[x] = <<>> /\ \A y \in Buffered \ {x} : v[y] = c.buf[y]
    BY <1>5, <2>h, Zenon
  <2>c. d.got = h /\ d.buf = v
    BY <1>3, <2>h, ZenonT(60)
  <2>1. DOMAIN d.got = Buffered /\ d.got[x] = g /\ d.buf[x] = <<>>
    BY ONLY <2>a, <2>b, <2>c
  <2>2. \A y \in Buffered \ {x} : d.got[y] = c.got[y] /\ d.buf[y] = c.buf[y]
    BY ONLY <2>a, <2>b, <2>c, Zenon
  <2>3. g \o <<>> = g /\ g \in Seq(Int) /\ g = Arrived(c, x)
    BY <1>5, SeqMoved, Zenon DEF Arrived
  <2> QED
    BY <1>5, <2>1, <2>2, <2>3, ZenonT(60) DEF Arrived
<1>7. Place(e, d)
  <2>1. Settled(e, d)
    BY <1>0, <1>1, <1>4, Zenon DEF Place, Settled
  <2>2. Written(e, d)
    BY <1>0, <1>4, SMTT(30) DEF Place, Written
  <2>3. Came(e, d)
    BY <1>0, <1>4, <1>5, <1>6, Zenon DEF Place, Came
  <2> QED
    BY <2>1, <2>2, <2>3, Zenon DEF Place
<1>8. Local(e, o, d) /\ ch'[e][o] = d /\ conn' = conn
  <2>1. Plain(c, d) /\ d.eof = c.eof /\ \A y \in Buffered : Len(Arrived(d, y)) = Len(Arrived(c, y))
    BY <1>4, <1>6, Zenon DEF Plain
  <2>2. Local(e, o, d)
    BY <1>1, <1>7, <2>1, Zenon DEF Local
  <2>4. Inv /\ e \in Ends /\ o \in Chans
    OBVIOUS
  <2>3. ch'[e][o] = d
    BY ONLY <2>2, <2>4, LocalFaces, Zenon
  <2> QED
    BY <1>1, <2>2, <2>3, Zenon
<1>m. Mute(e, c, d)
  BY <1>4, Zenon DEF Mute
<1>9. MaySend(e, o) => Says(e, o, p) /\ Active(e, o)
  <2> SUFFICES ASSUME MaySend(e, o) PROVE Says(e, o, p) /\ Active(e, o)
    OBVIOUS
  <2>1. Active(e, o)
    BY <1>1, ActiveOf, Zenon
  <2>2. ASSUME NEW z, Sender(e, o, z) PROVE Legal(Peer(e), c.id, o, z, p, z) /\ Sender(e, o, z)'
    <3>1. z.ph \in {"on", "fin"}
      BY <2>1, <2>2, Zenon DEF Sender
    <3>2. Legal(Peer(e), c.id, o, z, p, z)
      BY <1>p, <3>1, Zenon DEF Legal
    <3>4. c = ch[e][o] /\ ch'[e][o] = d /\ conn' = conn
      BY <1>8
    <3>3. Sender(e, o, z)'
      BY ONLY <1>4, <2>1, <2>2, <3>4, SMTT(30) DEF Sender, Active
    <3> QED
      BY <3>2, <3>3, Zenon
  <2> QED
    BY <1>p, <1>4, <1>8, <2>1, <2>2 DEF Says, Active, ChanTypes
<1>10. Base' /\ \A m \in Ends : Wired(m, p)
  <2>1. CASE wire' = wire
    BY <1>8, <1>m, <2>1, Silent, Zenon DEF Wired
  <2>2. CASE ChanSends(e, o, p)
    BY <1>p, <1>8, <1>9, <1>m, <2>2, Talks, Zenon
  <2> QED
    BY <1>1, <2>1, <2>2, Zenon
<1>t. Unnoticed(e, c, d)
  BY <1>4, Zenon DEF Unnoticed
<1>11. Tokens'
  BY <1>p, <1>1, <1>10, <1>t, TokensWired, TokensAltered
<1> QED
  BY <1>10, <1>11

-----------------------------------------------------------------------------
(* Requests                                                                *)

\* What is neither for a channel nor opens one passes by.
Passes(m) ==
    \/ wire'[m] = wire[m]
    \/ \E p : p.t \notin ChanTypes \cup {"open"} /\ wire'[m] = wire[m] \o <<p>>
    \/ wire[m] # <<>> /\ Head(wire[m]).t \notin ChanTypes /\ wire'[m] = Tail(wire[m])

LEMMA PassesNoMore ==
    ASSUME Inv, NEW m \in Ends, Passes(m), NEW t \in {"open", "request", "reply"}
    PROVE  NoMore(wire[m], wire'[m], t)
<1>1. CASE wire'[m] = wire[m]
  BY <1>1, WiresAt, NoMoreSame
<1>2. CASE \E p : p.t \notin ChanTypes \cup {"open"} /\ wire'[m] = wire[m] \o <<p>>
  <2>1. PICK p : p.t \notin ChanTypes \cup {"open"} /\ wire'[m] = wire[m] \o <<p>>
    BY <1>2
  <2>2. p.t # t
    BY <2>1 DEF ChanTypes
  <2> QED
    BY <2>1, <2>2, WiresAt, NoMoreGrown
<1>3. CASE wire[m] # <<>> /\ wire'[m] = Tail(wire[m])
  BY <1>3, WiresAt, NoMoreTail
<1> QED
  BY <1>1, <1>2, <1>3 DEF Passes

LEMMA PassesDir ==
    ASSUME Inv, NEW m \in Ends, Dir(m), Passes(m), UNCHANGED <<conn, loop, slots, ch>>
    PROVE  Dir(m)'
<1>1. Still(m)
  BY DEF Still, Mate, Reads
<1>2. \A o, q \in Chans : Mate(m, o, q) => Eased(m, o, Peer(m), q)
  BY DEF Eased, Sender, Active
<1>3. \A o \in Chans : Reading(m, o)
  BY DEF Reading, At, Arrived
<1>4. ch'[Peer(m)] = ch[Peer(m)] /\ conn'[Peer(m)] = conn[Peer(m)] /\ slots'[m] = slots[m] /\ (Reads(m)' => Reads(m))
  BY DEF Reads
<1>5. Inv /\ m \in Ends /\ Dir(m)
  OBVIOUS
<1>6. CASE wire'[m] = wire[m]
  BY ONLY <1>1, <1>2, <1>5, <1>6, OutKeeps
<1>7. CASE \E p : p.t \notin ChanTypes \cup {"open"} /\ wire'[m] = wire[m] \o <<p>>
  <2>1. \E p : p.t \notin ChanTypes /\ wire'[m] = wire[m] \o <<p>>
    BY <1>7, Zenon
  <2> QED
    BY ONLY <1>1, <1>2, <1>5, <2>1, OutKeeps
<1>8. CASE wire[m] # <<>> /\ Head(wire[m]).t \notin ChanTypes /\ wire'[m] = Tail(wire[m])
  BY ONLY <1>3, <1>4, <1>5, <1>8, InKeeps
<1> QED
  BY <1>6, <1>7, <1>8 DEF Passes

LEMMA PassesGood ==
    ASSUME Inv, Base, Tokens, UNCHANGED <<scene, conn, loop, slots, ch, inChans, calls>>, \A m \in Ends : Passes(m)
    PROVE  Base' /\ Tokens'
<1>1. Dir(Opener)' /\ Dir(Other)'
  BY FirstChannel, PassesDir DEF Base
<1>2. /\ NoMore(wire[Other], wire'[Other], "open") /\ NoMore(wire[Opener], wire'[Opener], "open")
      /\ NoMore(wire[Other], wire'[Other], "request") /\ NoMore(wire[Opener], wire'[Opener], "reply")
  BY FirstChannel, PassesNoMore
<1>3. AllPlain
  BY DEF AllPlain, Plain
<1>4. Places'
  BY SamePlaces DEF Base
<1>5. Pairs' /\ Opens' /\ Queue'
  BY <1>2, <1>3, PlainPairs, PlainOpens, PlainQueue DEF Base
<1>6. Tokens'
  BY <1>2, TokensKept
<1> QED
  BY <1>1, <1>4, <1>5, <1>6 DEF Base

LEMMA GlobalGood ==
    ASSUME Inv, Base, Tokens, GlobalBegins \/ GlobalSends \/ GlobalReturns \/ ServeGlobal
    PROVE  Base' /\ Tokens'
<1>1. UNCHANGED <<scene, conn, loop, slots, ch, inChans, calls>>
  BY DEF GlobalBegins, GlobalSends, GlobalReturns, ServeGlobal, calls, history
<1>2. \A m \in Ends : Passes(m)
  <2>1. CASE wire' = wire
    BY <2>1 DEF Passes
  <2>2. ASSUME NEW e \in Ends, NEW p, p.t \notin ChanTypes \cup {"open"}, Sends(e, <<p>>) PROVE \A m \in Ends : Passes(m)
    <3> PICK r : r = Peer(e)
      OBVIOUS
    <3>1. wire'[e] = wire[e] /\ (wire'[r] = wire[r] \/ wire'[r] = wire[r] \o <<p>>)
      BY <2>2, Sent
    <3>2. Passes(e) /\ Passes(r)
      BY <2>2, <3>1, Zenon DEF Passes
    <3> QED
      BY <3>2, TwoEnds
  <2>3. Pkt("global", 0).t \notin ChanTypes \cup {"open"} /\ Pkt("greply", 0).t \notin ChanTypes \cup {"open"}
    BY DEF Pkt, ChanTypes
  <2>4. \/ wire' = wire \/ Sends(Opener, <<Pkt("global", 0)>>)
        \/ \E e \in Ends : Sends(e, <<Pkt("greply", 0)>>)
    BY Zenon DEF GlobalBegins, GlobalSends, GlobalReturns, ServeGlobal
  <2> QED
    BY <2>1, <2>2, <2>3, <2>4, FirstChannel
<1> QED
  BY <1>1, <1>2, PassesGood

\* No request is on its way.
Idle == None(wire[Other], "request") /\ None(wire[Opener], "reply") /\ NoQue

LEMMA NobodyWaits == ASSUME Token, \A r : ~Waits(r) PROVE Idle
  BY DEF Token, Idle, None, NoQue

LEMMA IdleToken == ASSUME Idle', NoMsg' PROVE Token'
  BY DEF Idle, Token, None, One, NoQue

LEMMA IdleKept ==
    ASSUME Idle, NoMore(wire[Other], wire'[Other], "request"), NoMore(wire[Opener], wire'[Opener], "reply"),
           ch'[Other] = ch[Other]
    PROVE  Idle'
<1>1. None(wire'[Other], "request") /\ None(wire'[Opener], "reply")
  BY NoMoreOne DEF Idle
<1> QED
  BY <1>1 DEF Idle, None, NoQue

\* A call changes what waits for it and what it has got.
Recalls(c, d) == \A f \in ChanFields \ {"pend", "msg"} : d[f] = c[f]

LEMMA CallsSame ==
    ASSUME Base, NEW c, c = ch[Opener][1], c.st = "open", NEW d, Recalls(c, d)
    PROVE  /\ Place(Opener, d) /\ Plain(c, d) /\ Mute(Opener, c, d) /\ d.eof = c.eof /\ d.closed = c.closed
           /\ d.st = "open" /\ d.out = c.out /\ d.sentClose = c.sentClose /\ d.sentEOF = c.sentEOF
           /\ \A x \in Buffered : Arrived(d, x) = Arrived(c, x)
<1>0. Place(Opener, c)
  BY FirstChannel, PlaceOf
<1>1. \A f \in ChanFields \ {"pend", "msg"} : d[f] = c[f]
  BY DEF Recalls
<1>2. /\ d.st = c.st /\ d.id = c.id /\ d.rid = c.rid /\ d.pair = c.pair /\ d.decided = c.decided
      /\ d.closed = c.closed /\ d.sentClose = c.sentClose /\ d.sentEOF = c.sentEOF /\ d.reqs = c.reqs /\ d.left = c.left /\ d.hold = c.hold
      /\ d.eof = c.eof /\ d.out = c.out /\ d.got = c.got /\ d.buf = c.buf
  BY <1>1 DEF ChanFields
<1>3. c.st = "open"
  OBVIOUS
<1>4. Settled(Opener, d)
  BY ONLY <1>0, <1>1, <1>2, <1>3 DEF Place, Settled
<1>5. Written(Opener, d)
  BY ONLY <1>0, <1>2 DEF Place, Written
<1>6. Came(Opener, d)
  BY ONLY <1>0, <1>2 DEF Place, Came, Arrived
<1>7. Plain(c, d) /\ Mute(Opener, c, d) /\ \A x \in Buffered : Arrived(d, x) = Arrived(c, x)
  BY ONLY <1>2 DEF Plain, Mute, Arrived
<1> QED
  BY <1>1, <1>2, <1>3, <1>4, <1>5, <1>6, <1>7 DEF Place

LEMMA CallBeginsGood ==
    ASSUME Inv, Frame, Base, Tokens, NEW r \in Callers, CallBegins(r)
    PROVE  Base' /\ Tokens'
<1> PICK c : c = ch[Opener][1]
  OBVIOUS
<1>0. DOMAIN c = ChanFields /\ 1 \in Chans /\ Opener \in Ends
  BY FirstChannel, ChanDomain
<1> PICK d : d = [c EXCEPT !.pend = TRUE, !.msg = <<>>]
  OBVIOUS
<1>1. /\ Alters(Opener, 1, d) /\ UNCHANGED <<scene, conn, loop, slots, inChans, wire, answer>>
      /\ c.st = "open" /\ call[r] = "idle" /\ holder = "nobody" /\ holder' = r /\ call' = [call EXCEPT ![r] = "open"]
  BY <1>0 DEF CallBegins, history, Alters, Inv, Shape
<1>2. /\ Place(Opener, d) /\ Plain(c, d) /\ Mute(Opener, c, d) /\ d.eof = c.eof /\ d.closed = c.closed
      /\ d.st = "open" /\ d.msg = <<>> /\ \A x \in Buffered : Arrived(d, x) = Arrived(c, x)
  <2>1. d.msg = <<>> /\ Recalls(c, d)
    BY <1>0 DEF ChanFields, Recalls
  <2> QED
    BY <1>1, <2>1, CallsSame
<1>3. Local(Opener, 1, d)
  BY <1>1, <1>2 DEF Local
<1>4. Base'
  BY <1>0, <1>1, <1>2, <1>3, Silent
<1>5. ch'[Other] = ch[Other] /\ ch'[Opener][1] = d
  BY <1>0, <1>1, Altered DEF Peer
<1>6. \A q : ~Waits(q)
  BY <1>1, CallersAssumption DEF Waits
<1>7. Token => Idle
  BY <1>6, NobodyWaits
<1>8. Idle => Idle'
  BY <1>1, <1>5 DEF Idle, None, NoQue
<1>9. NoMsg'
  BY <1>2, <1>5 DEF NoMsg
<1>10. Token => Token'
  BY <1>7, <1>8, <1>9, IdleToken
<1>11. ASSUME NEW q \in Callers
       PROVE  (call'[q] \in {"open", "wait"} => holder' = q) /\ ch'[Opener][1].st = "open" /\ answer'[q] = q
  <2>1. call[q] \notin {"open", "wait"} /\ answer[q] = q
    BY <1>1, CallersAssumption DEF Tokens
  <2>2. q # r => call'[q] = call[q]
    BY <1>1
  <2> QED
    BY <1>1, <1>2, <1>5, <2>1, <2>2
<1>12. Tokens'
  BY <1>2, <1>5, <1>9, <1>10, <1>11 DEF Tokens
<1> QED
  BY <1>4, <1>12

LEMMA CallSendsGood ==
    ASSUME Inv, Frame, Base, Tokens, NEW r \in Callers, CallSends(r)
    PROVE  Base' /\ Tokens'
<1> PICK c, p : c = ch[Opener][1] /\ p = [Pkt("request", c.rid) EXCEPT !.tag = r]
  OBVIOUS
<1>p. p.t = "request" /\ p.to = c.rid /\ p.tag = r
  BY DEF Pkt
<1>0. DOMAIN c = ChanFields /\ 1 \in Chans /\ Opener \in Ends
  BY FirstChannel, ChanDomain
<1> PICK d : d = IF MaySend(Opener, 1) THEN c ELSE [c EXCEPT !.pend = FALSE]
  OBVIOUS
<1>a. Alters(Opener, 1, d)
  <2>1. CASE MaySend(Opener, 1)
    BY <2>1 DEF CallSends, Alters
  <2>2. CASE ~MaySend(Opener, 1)
    <3>1. ch' = [ch EXCEPT ![Opener][1].pend = FALSE]
      BY <2>2 DEF CallSends
    <3> QED
      BY <1>0, <2>2, <3>1 DEF Alters, Inv, Shape
  <2> QED
    BY <2>1, <2>2
<1>1. /\ Alters(Opener, 1, d) /\ UNCHANGED <<scene, conn, loop, slots, inChans, answer>> /\ ChanSends(Opener, 1, p)
      /\ call[r] = "open"
      /\ IF MaySend(Opener, 1) THEN call' = [call EXCEPT ![r] = "wait"] /\ holder' = holder
         ELSE call' = [call EXCEPT ![r] = "eof"] /\ holder' = "nobody"
  BY <1>a DEF CallSends, history
<1>o. c.st = "open" /\ holder = r
  BY <1>1 DEF Tokens
<1>2. /\ Place(Opener, d) /\ Plain(c, d) /\ Mute(Opener, c, d) /\ d.eof = c.eof /\ d.closed = c.closed
      /\ d.st = "open" /\ d.msg = c.msg /\ \A x \in Buffered : Arrived(d, x) = Arrived(c, x)
  <2>1. d.msg = c.msg /\ Recalls(c, d)
    BY <1>0 DEF ChanFields, Recalls
  <2>2. Base /\ c = ch[Opener][1]
    OBVIOUS
  <2>3. /\ Place(Opener, d) /\ Plain(c, d) /\ Mute(Opener, c, d) /\ d.eof = c.eof /\ d.closed = c.closed
        /\ d.st = "open" /\ \A x \in Buffered : Arrived(d, x) = Arrived(c, x)
    BY ONLY <1>o, <2>1, <2>2, CallsSame
  <2> QED
    BY <2>1, <2>3
<1>3. Local(Opener, 1, d) /\ conn' = conn
  BY <1>1, <1>2 DEF Local
<1>4. ch'[Other] = ch[Other] /\ ch'[Opener][1] = d
  BY <1>0, <1>1, Altered DEF Peer
<1>5. MaySend(Opener, 1) => Says(Opener, 1, p) /\ Active(Opener, 1)
  <2> SUFFICES ASSUME MaySend(Opener, 1) PROVE Says(Opener, 1, p) /\ Active(Opener, 1)
    OBVIOUS
  <2>1. Active(Opener, 1) /\ d = c
    BY <1>0, <1>o, ActiveOf
  <2>2. ASSUME NEW z, Sender(Opener, 1, z) PROVE Legal(Peer(Opener), c.id, 1, z, p, z) /\ Sender(Opener, 1, z)'
    <3>1. z.ph \in {"on", "fin"} /\ Peer(Opener) # Opener
      BY <2>1, <2>2, MuxAssumption, Zenon DEF Sender, Peer
    <3>2. Legal(Peer(Opener), c.id, 1, z, p, z)
      BY <1>p, <3>1 DEF Legal
    <3>3. ch'[Opener][1] = ch[Opener][1] /\ conn' = conn
      BY <1>3, <1>4, <2>1
    <3>4. Sender(Opener, 1, z)'
      BY ONLY <2>2, <3>3 DEF Sender, Active
    <3> QED
      BY <3>2, <3>4
  <2> QED
    BY <1>p, <1>4, <2>1, <2>2 DEF Says, Active, ChanTypes
<1>6. Base' /\ \A m \in Ends : Wired(m, p)
  <2>1. Inv /\ Base /\ p.t # "open" /\ (~MaySend(Opener, 1) => Mute(Opener, ch[Opener][1], d))
    BY <1>p, <1>2
  <2>2. Local(Opener, 1, d) /\ ChanSends(Opener, 1, p)
    BY <1>1, <1>3
  <2> QED
    BY ONLY <1>0, <1>5, <2>1, <2>2, Talks
<1>7. \A q : ~Waits(q)
  BY <1>1, <1>o DEF Waits
<1>8. NoMsg /\ (Token => Idle)
  BY <1>7, NobodyWaits DEF Tokens
<1>9. NoMsg'
  BY <1>2, <1>4, <1>8 DEF NoMsg
<1>10. ASSUME NEW q \in Callers
       PROVE  (call'[q] \in {"open", "wait"} => holder' = q) /\ ch'[Opener][1].st = "open" /\ answer'[q] = q
  <2>1. (call[q] \in {"open", "wait"} => holder = q) /\ answer[q] = q
    BY DEF Tokens
  <2>3. DOMAIN call = Callers
    BY DEF Frame
  <2>2. q # r => call'[q] = call[q]
    <3>1. call' = [call EXCEPT ![r] = "wait"] \/ call' = [call EXCEPT ![r] = "eof"]
      BY <1>1
    <3> QED
      BY <2>3, <3>1
  <2>4. CASE q = r
    <3>1. call'[r] = IF MaySend(Opener, 1) THEN "wait" ELSE "eof"
      BY <1>1, <2>3
    <3> QED
      BY <1>1, <1>2, <1>o, <1>4, <2>1, <2>4, <3>1
  <2>5. CASE q # r
    BY <1>1, <1>2, <1>o, <1>4, <2>1, <2>2, <2>5
  <2> QED
    BY <2>4, <2>5
<1>11. ASSUME Token PROVE Token'
  <2>0. None(wire[Other], "request") /\ None(wire[Opener], "reply") /\ NoQue
    BY <1>8, <1>11 DEF Idle
  <2>1. wire'[Opener] = wire[Opener] /\ IF MaySend(Opener, 1) /\ conn[Other] = "up" THEN wire'[Other] = wire[Other] \o <<p>> ELSE wire'[Other] = wire[Other]
    <3>1. Peer(Opener) = Other /\ ChanSends(Opener, 1, p)
      BY <1>1 DEF Peer
    <3> QED
      BY <1>0, <3>1, ChanSent
  <2>2. NoQue'
    BY <1>4, <2>0 DEF NoQue
  <2>3. CASE wire'[Other] = wire[Other]
    <3>1. Idle'
      BY <2>0, <2>1, <2>2, <2>3 DEF Idle, None
    <3> QED
      BY <1>9, <3>1, IdleToken
  <2>4. CASE MaySend(Opener, 1) /\ wire'[Other] = wire[Other] \o <<p>>
    <3> PICK w, v, l : w = wire[Other] /\ v = wire'[Other] /\ l = Len(w)
      OBVIOUS
    <3>1. l \in Nat /\ DOMAIN w = 1 .. l /\ DOMAIN v = 1 .. l + 1 /\ v[l + 1] = p /\ \A k \in 1 .. l : v[k] = w[k]
      BY <2>4, FirstChannel, WiresAt, Extended
    <3>2. \A k \in DOMAIN v : v[k].t = "request" => k = l + 1
      BY <2>0, <3>1 DEF None
    <3>3. Waits(r)'
      BY <1>1, <1>o, <2>4 DEF Waits, Frame
    <3>7. \A k \in DOMAIN wire'[Other] : wire'[Other][k].t = "request" => wire'[Other][k].tag = r
      BY <1>p, <3>1, <3>2
    <3>4. \A k \in DOMAIN wire'[Other] : wire'[Other][k].t = "request" => Waits(wire[Other][k].tag)'
      BY ONLY <3>3, <3>7 DEF Waits
    <3>5. One(wire'[Other], "request")
      BY <3>2 DEF One
    <3>6. None(wire'[Opener], "reply")
      BY <2>0, <2>1
    <3> QED
      BY <1>9, <2>2, <3>4, <3>5, <3>6 DEF Token, None, One, NoQue
  <2> QED
    BY <2>1, <2>3, <2>4
<1>12. Tokens'
  BY <1>2, <1>4, <1>9, <1>10, <1>11 DEF Tokens
<1> QED
  BY <1>6, <1>12

LEMMA CallReturnsGood ==
    ASSUME Inv, Frame, Base, Tokens, NEW r \in Callers, CallReturns(r)
    PROVE  Base' /\ Tokens'
<1> PICK c : c = ch[Opener][1]
  OBVIOUS
<1>0. DOMAIN c = ChanFields /\ 1 \in Chans /\ Opener \in Ends
  BY FirstChannel, ChanDomain
<1>f. DOMAIN call = Callers /\ DOMAIN answer = Callers
  BY DEF Frame
<1> PICK d : d = IF c.msg # <<>> THEN [c EXCEPT !.msg = Tail(c.msg), !.pend = FALSE] ELSE [c EXCEPT !.pend = FALSE]
  OBVIOUS
<1>1. /\ UNCHANGED <<scene, conn, loop, slots, inChans, wire>> /\ holder' = "nobody"
      /\ call[r] = "wait" /\ (c.msg # <<>> \/ c.closed)
      /\ IF c.msg # <<>> THEN call' = [call EXCEPT ![r] = "ok"] /\ answer' = [answer EXCEPT ![r] = Head(c.msg)]
         ELSE call' = [call EXCEPT ![r] = "eof"] /\ answer' = answer
  BY DEF CallReturns, history
<1>a. Alters(Opener, 1, d)
  BY <1>0, ZenonT(60) DEF CallReturns, Alters, Inv, Shape
<1>o. c.st = "open" /\ holder = r
  BY <1>1 DEF Tokens
<1>2. /\ Place(Opener, d) /\ Plain(c, d) /\ Mute(Opener, c, d) /\ d.eof = c.eof /\ d.closed = c.closed
      /\ d.st = "open" /\ \A x \in Buffered : Arrived(d, x) = Arrived(c, x)
  <2>1. Recalls(c, d)
    BY <1>0 DEF ChanFields, Recalls
  <2>2. Base /\ c = ch[Opener][1]
    OBVIOUS
  <2> QED
    BY ONLY <1>o, <2>1, <2>2, CallsSame
<1>3. Local(Opener, 1, d) /\ wire' = wire
  BY <1>1, <1>a, <1>2 DEF Local
<1>4. ch'[Other] = ch[Other] /\ ch'[Opener][1] = d
  BY <1>0, <1>a, Altered DEF Peer
<1>5. Base'
  <2>1. Inv /\ Base /\ Mute(Opener, ch[Opener][1], d)
    BY <1>2
  <2> QED
    BY ONLY <1>0, <1>3, <2>1, Silent
<1>6. c.msg # <<>> => c.msg = <<r>>
  <2>1. c.msg # <<>> => \E q : c.msg = <<q>> /\ Waits(q)
    BY <1>o DEF Tokens, NoMsg
  <2> QED
    BY <1>o, <2>1 DEF Waits
<1>7. d.msg = <<>>
  <2>1. Tail(<<r>>) = <<>>
    OBVIOUS
  <2>2. CASE c.msg # <<>>
    BY <1>0, <1>6, <2>1, <2>2 DEF ChanFields
  <2>3. CASE c.msg = <<>>
    BY <1>0, <2>3 DEF ChanFields
  <2> QED
    BY <2>2, <2>3
<1>8. NoMsg'
  BY <1>4, <1>7 DEF NoMsg
<1>9. ASSUME NEW q \in Callers
      PROVE  (call'[q] \in {"open", "wait"} => holder' = q) /\ ch'[Opener][1].st = "open" /\ answer'[q] = q
  <2>1. (call[q] \in {"open", "wait"} => holder = q) /\ answer[q] = q
    BY DEF Tokens
  <2>2. call' = [call EXCEPT ![r] = "ok"] \/ call' = [call EXCEPT ![r] = "eof"]
    BY <1>1
  <2>3. answer' = [answer EXCEPT ![r] = r] \/ answer' = answer
    <3>1. Head(<<r>>) = r
      OBVIOUS
    <3> QED
      BY <1>1, <1>6, <3>1
  <2>4. answer'[q] = q
    BY <1>f, <2>1, <2>3
  <2>5. call'[q] \notin {"open", "wait"}
    BY <1>f, <1>o, <2>1, <2>2
  <2> QED
    BY <1>2, <1>4, <2>4, <2>5
<1>10. ASSUME Token, ~c.closed PROVE Token'
  <2>1. c.msg # <<>> /\ ~NoMsg
    BY <1>1, <1>o, <1>10 DEF NoMsg
  <2>2. None(wire[Other], "request") /\ None(wire[Opener], "reply") /\ NoQue
    BY <1>10, <2>1 DEF Token
  <2>3. Idle'
    BY <1>3, <1>4, <2>2 DEF Idle, None, NoQue
  <2> QED
    BY <1>8, <2>3, IdleToken
<1>11. Tokens'
  BY <1>2, <1>4, <1>8, <1>9, <1>10 DEF Tokens
<1> QED
  BY <1>5, <1>11

LEMMA ServeGood ==
    ASSUME Inv, Base, Tokens, NEW e \in Ends, NEW o \in Chans, Serve(e, o)
    PROVE  Base' /\ Tokens'
<1> PICK c : c = ch[e][o]
  OBVIOUS
<1> PICK p, d : p = [Pkt("reply", c.rid) EXCEPT !.tag = Head(c.reqs)] /\ d = [c EXCEPT !.reqs = Tail(c.reqs)]
  OBVIOUS
<1>p. p.t = "reply" /\ p.to = c.rid /\ p.tag = Head(c.reqs)
  BY DEF Pkt
<1>0. DOMAIN c = ChanFields /\ Place(e, c)
  BY ChanDomain, PlaceOf
<1>1. /\ c.st \in {"open", "failed"} /\ c.reqs # <<>> /\ ChanSends(e, o, p)
      /\ UNCHANGED <<scene, conn, loop, slots, inChans, calls>>
  BY DEF Serve, history, calls
<1>a. Alters(e, o, d)
  BY DEF Serve, Alters, Inv, Shape
<1>e. e = Other /\ Peer(e) = Opener
  BY <1>0, <1>1, MuxAssumption DEF Place, Settled, Ends, Peer
<1>2. d.reqs = Tail(c.reqs) /\ \A f \in ChanFields \ {"reqs"} : d[f] = c[f]
  BY <1>0 DEF ChanFields
<1>3. /\ d.st = c.st /\ d.id = c.id /\ d.rid = c.rid /\ d.pair = c.pair /\ d.decided = c.decided /\ d.msg = c.msg /\ d.pend = c.pend
      /\ d.closed = c.closed /\ d.sentClose = c.sentClose /\ d.sentEOF = c.sentEOF /\ d.left = c.left /\ d.hold = c.hold
      /\ d.eof = c.eof /\ d.out = c.out /\ d.got = c.got /\ d.buf = c.buf
  BY <1>2 DEF ChanFields
<1>4. Place(e, d)
  <2>1. Settled(e, d)
    BY ONLY <1>0, <1>1, <1>3, <1>e, MuxAssumption DEF Place, Settled
  <2>2. Written(e, d) /\ Came(e, d)
    BY ONLY <1>0, <1>3, SMTT(30) DEF Place, Written, Came, Arrived
  <2> QED
    BY <2>1, <2>2 DEF Place
<1>5. Local(e, o, d) /\ conn' = conn
  <2>1. Plain(c, d) /\ \A x \in Buffered : Arrived(d, x) = Arrived(c, x)
    BY ONLY <1>3 DEF Plain, Arrived
  <2> QED
    BY <1>1, <1>a, <1>3, <1>4, <2>1 DEF Local
<1>6. ch'[Opener] = ch[Opener] /\ ch'[e][o] = d /\ \A q \in Chans \ {o} : ch'[e][q] = ch[e][q]
  BY <1>a, <1>e, Altered
<1>7. MaySend(e, o) => Says(e, o, p) /\ Active(e, o)
  <2> SUFFICES ASSUME MaySend(e, o) PROVE Says(e, o, p) /\ Active(e, o)
    OBVIOUS
  <2>0. c.st = "open"
    BY <1>0, <1>1, <1>e DEF Place, Settled, MaySend
  <2>1. Active(e, o)
    BY <2>0, ActiveOf
  <2>2. ASSUME NEW z, Sender(e, o, z) PROVE Legal(Peer(e), c.id, o, z, p, z) /\ Sender(e, o, z)'
    <3>1. z.ph \in {"on", "fin"}
      BY <2>1, <2>2, Zenon DEF Sender
    <3>2. Legal(Peer(e), c.id, o, z, p, z)
      BY <1>p, <1>e, <3>1 DEF Legal
    <3>3. c = ch[e][o] /\ ch'[e][o] = d /\ conn' = conn
      BY <1>5, <1>6
    <3>4. Sender(e, o, z)'
      BY ONLY <1>3, <2>2, <3>3 DEF Sender, Active
    <3> QED
      BY <3>2, <3>4
  <2> QED
    BY <1>p, <1>3, <1>6, <2>1, <2>2 DEF Says, Active, ChanTypes
<1>8. Base'
  <2>1. Mute(e, c, d)
    BY ONLY <1>3 DEF Mute
  <2>2. Inv /\ Base /\ e \in Ends /\ o \in Chans /\ p.t # "open" /\ (~MaySend(e, o) => Mute(e, ch[e][o], d)) /\ ChanSends(e, o, p)
    BY <1>1, <1>p, <2>1
  <2> QED
    BY ONLY <1>5, <1>7, <2>2, Talks
<1>9. UNCHANGED <<call, holder, answer>>
  BY <1>1 DEF calls
<1>10. NoMsg' <=> NoMsg
  BY <1>6, Zenon DEF NoMsg
<1>11. ASSUME Token PROVE Token'
  <2>1. PICK r : c.reqs = <<r>> /\ Waits(r)
    BY <1>1, <1>11, <1>e DEF Token
  <2>2. ~NoQue /\ \A b \in Chans \ {o} : ch[Other][b].reqs = <<>>
    BY <1>1, <1>11, <1>e DEF Token, NoQue
  <2>3. None(wire[Other], "request") /\ None(wire[Opener], "reply") /\ NoMsg'
    BY <1>10, <1>11, <2>2 DEF Token
  <2>4. Tail(<<r>>) = <<>> /\ Head(<<r>>) = r
    OBVIOUS
  <2>5. NoQue'
    <3>1. ch'[Other][o].reqs = <<>>
      BY <1>2, <1>6, <1>e, <2>1, <2>4
    <3>2. \A b \in Chans \ {o} : ch'[Other][b].reqs = <<>>
      BY <1>6, <1>e, <2>2
    <3> QED
      BY ONLY <3>1, <3>2 DEF NoQue
  <2>6. wire'[Other] = wire[Other] /\ (wire'[Opener] = wire[Opener] \/ wire'[Opener] = wire[Opener] \o <<p>>)
    BY <1>1, <1>e, ChanSent, SMTT(30)
  <2>7. CASE wire'[Opener] = wire[Opener]
    <3>1. Idle'
      BY <2>3, <2>5, <2>6, <2>7 DEF Idle, None
    <3> QED
      BY <2>3, <3>1, IdleToken
  <2>8. CASE wire'[Opener] = wire[Opener] \o <<p>>
    <3> PICK w, v, l : w = wire[Opener] /\ v = wire'[Opener] /\ l = Len(w)
      OBVIOUS
    <3>1. l \in Nat /\ DOMAIN w = 1 .. l /\ DOMAIN v = 1 .. l + 1 /\ v[l + 1] = p /\ \A k \in 1 .. l : v[k] = w[k]
      BY <2>8, FirstChannel, WiresAt, Extended
    <3>2. \A k \in DOMAIN v : v[k].t = "reply" => k = l + 1
      BY <2>3, <3>1 DEF None
    <3>3. Waits(r)'
      BY <1>9, <2>1 DEF Waits
    <3>4. \A k \in DOMAIN wire'[Opener] : wire'[Opener][k].t = "reply" => wire'[Opener][k].tag = r
      BY <1>p, <2>1, <2>4, <3>1, <3>2
    <3>5. \A k \in DOMAIN wire'[Opener] : wire'[Opener][k].t = "reply" => Waits(wire[Opener][k].tag)'
      BY ONLY <3>3, <3>4 DEF Waits
    <3>6. One(wire'[Opener], "reply")
      BY <3>2 DEF One
    <3>7. None(wire'[Other], "request")
      BY <2>3, <2>6
    <3> QED
      BY <2>3, <2>5, <3>5, <3>6, <3>7 DEF Token, None, One, NoQue
  <2> QED
    BY <2>6, <2>7, <2>8
<1>12. Tokens'
  <2>1. \A r : Waits(r)' <=> Waits(r)
    BY <1>9 DEF Waits
  <2>2. NoMsg' \/ \E r : ch'[Opener][1].msg = <<r>> /\ Waits(r)'
    BY <1>6, <1>10, <2>1, Zenon DEF Tokens
  <2> QED
    BY <1>6, <1>9, <1>11, <2>2 DEF Tokens
<1> QED
  BY <1>8, <1>12

-----------------------------------------------------------------------------
(* Accept and Reject                                                       *)

\* A channel that waits to be accepted, and the one it is the other end of
LEMMA Asked ==
    ASSUME Inv, Base, NEW e \in Ends, inChans[e] # <<>>
    PROVE  LET o == Head(inChans[e])  c == ch[e][o]  a == c.pair IN
           /\ e = Other /\ o \in Chans /\ c.st = "asked" /\ ~c.decided /\ a \in Chans /\ a # 0
           /\ \A b \in Chans : ~(ch[Opener][a].decided /\ ch[e][b].pair = a)
           /\ ~ch[Opener][a].decided
<1> PICK q : q = inChans[e]
  OBVIOUS
<1>1. e = Other /\ Head(q) \in Chans
  BY HeadOf DEF Base, Queue, Ends
<1>2. q \in Seq(Chans)
  BY Lists
<1>3. 1 \in DOMAIN q /\ Head(q) = q[1]
  BY <1>2
<1> PICK o : o = Head(q)
  OBVIOUS
<1>4. ch[e][o].st = "asked"
  BY <1>1, <1>3 DEF Base, Queue
<1>5. Settled(e, ch[e][o])
  BY <1>1, PlaceOf, Zenon DEF Place
<1>6. ~ch[e][o].decided
  BY <1>1, <1>4, <1>5 DEF Settled
<1>7. ch[e][o].pair \in Chans
  BY <1>1, <1>4, Zenon DEF Base, Pairs
<1>8. ~ch[Opener][ch[e][o].pair].decided
  BY <1>1, <1>6, <1>7 DEF Base, Pairs
<1>9. 0 \notin Chans
  BY DEF Chans
<1> QED
  BY <1>1, <1>4, <1>6, <1>7, <1>8, <1>9

LEMMA QueueTail ==
    ASSUME Inv, Queue, NEW o, o = Head(inChans[Other]), inChans[Other] # <<>>,
           inChans' = [inChans EXCEPT ![Other] = Tail(@)], \A m \in Chans \ {o} : ch'[Other][m] = ch[Other][m]
    PROVE  Queue'
<1> PICK q, v, l : q = inChans[Other] /\ v = Tail(q) /\ l = Len(q)
  OBVIOUS
<1>1. q \in Seq(Chans) /\ DOMAIN inChans = Ends
  BY Lists, FirstChannel
<1>2. inChans'[Other] = v /\ inChans'[Opener] = inChans[Opener]
  BY <1>1, FirstChannel, MuxAssumption
<1>3. IsASeq(q)
  BY <1>1 DEF IsASeq
<1>4. l \in Nat /\ DOMAIN q = 1 .. l /\ DOMAIN v = 1 .. l - 1 /\ o = q[1] /\ \A k \in 1 .. l - 1 : v[k] = q[k + 1]
  BY <1>3, Shortened
<1>5. \A k \in DOMAIN q : q[k] \in Chans /\ ch[Other][q[k]].st = "asked"
  BY <1>1 DEF Queue
<1>6. \A j, k \in DOMAIN q : q[j] = q[k] => j = k
  BY DEF Queue
<1>7. \A k \in DOMAIN v : k + 1 \in DOMAIN q /\ k + 1 # 1 /\ v[k] = q[k + 1] /\ 1 \in DOMAIN q /\ k \in Int
  BY <1>4
<1>8. \A k \in DOMAIN v : ch'[Other][v[k]].st = "asked"
  <2> SUFFICES ASSUME NEW k \in DOMAIN v PROVE ch'[Other][v[k]].st = "asked"
    OBVIOUS
  <2> PICK m : m = v[k]
    OBVIOUS
  <2>1. m # o
    BY <1>4, <1>6, <1>7
  <2>2. m \in Chans /\ ch[Other][m].st = "asked"
    BY <1>5, <1>7
  <2> QED
    BY <2>1, <2>2
<1>9. \A j, k \in DOMAIN v : v[j] = v[k] => j = k
  <2> SUFFICES ASSUME NEW j \in DOMAIN v, NEW k \in DOMAIN v, v[j] = v[k] PROVE j = k
    OBVIOUS
  <2>1. j + 1 = k + 1
    BY <1>6, <1>7
  <2> QED
    BY <1>7, <2>1
<1>10. inChans'[Opener] = <<>>
  BY <1>2 DEF Queue
<1> QED
  BY <1>2, <1>8, <1>9, <1>10 DEF Queue

\* How a channel is decided
Decides(o, c, d) ==
    /\ d.decided /\ d.st \in {"open", "failed", "rejected"} /\ c.st = "asked" /\ ~c.decided
    /\ (d.st = "open" => MaySend(Other, o)) /\ (d.st = "failed" => ~MaySend(Other, o))
    /\ \A f \in ChanFields \ {"st", "decided"} : d[f] = c[f]

\* ... and what is said about it
Answers(o, c, d, p) ==
    /\ p.to = c.rid
    /\ \/ p.t = "confirm" /\ d.st # "rejected" /\ p.from = o /\ p.id = c.id /\ p.win >= 0
       \/ p.t = "failure" /\ d.st = "rejected"

LEMMA DecidesSame ==
    ASSUME NEW o, NEW c, NEW d, Decides(o, c, d)
    PROVE  /\ d.id = c.id /\ d.rid = c.rid /\ d.pair = c.pair /\ d.msg = c.msg /\ d.pend = c.pend /\ d.reqs = c.reqs
           /\ d.closed = c.closed /\ d.sentClose = c.sentClose /\ d.sentEOF = c.sentEOF /\ d.left = c.left /\ d.hold = c.hold
           /\ d.eof = c.eof /\ d.out = c.out /\ d.got = c.got /\ d.buf = c.buf
  BY DEF Decides, ChanFields

LEMMA DecidesPlace ==
    ASSUME Frame, NEW o, NEW c, c = ch[Other][o], NEW d, Decides(o, c, d), Place(Other, c), c.pair # 0
    PROVE  Place(Other, d)
<1>1. /\ d.id = c.id /\ d.rid = c.rid /\ d.pair = c.pair /\ d.msg = c.msg /\ d.pend = c.pend /\ d.reqs = c.reqs
      /\ d.closed = c.closed /\ d.sentClose = c.sentClose /\ d.sentEOF = c.sentEOF /\ d.left = c.left /\ d.hold = c.hold
      /\ d.eof = c.eof /\ d.out = c.out /\ d.got = c.got /\ d.buf = c.buf
  BY DecidesSame
<1>2. /\ d.decided /\ d.st \in {"open", "failed", "rejected"} /\ c.st = "asked" /\ ~c.decided
      /\ (d.st = "failed" => c.sentClose \/ conn[Other] = "down")
  BY FirstChannel DEF Decides, Frame, MaySend
<1>3. Settled(Other, d)
  BY <1>1, <1>2, MuxAssumption, Zenon DEF Place, Settled
<1>4. Written(Other, d)
  <2>1. \A x \in Streams : ~(c.hold[x] > 0)
    BY <1>2 DEF Place, Written
  <2> QED
    BY <1>1, <1>2, <2>1 DEF Place, Written
<1>5. Came(Other, d)
  BY <1>1, MuxAssumption DEF Place, Came, Arrived
<1> QED
  BY <1>3, <1>4, <1>5 DEF Place

\* The answer reaches the end that opened the channel.
LEMMA DecidesSays ==
    ASSUME Inv, Frame, Base, NEW e, e = Other, NEW r, r = Opener, NEW o \in Chans, NEW c, c = ch[e][o], c.pair # 0,
           NEW d, Decides(o, c, d), ch'[e][o] = d, Faces(e, o), conn' = conn, loop' = loop,
           NEW p, Answers(o, c, d, p), ChanSends(e, o, p)
    PROVE  Dir(r)'
<1>0. e \in Ends /\ Peer(e) = r /\ r \in Ends /\ Dir(r) /\ Pairs
  BY FirstChannel, MuxAssumption DEF Peer, Base
<1>1. /\ d.id = c.id /\ d.rid = c.rid /\ d.pair = c.pair /\ d.sentClose = c.sentClose /\ d.sentEOF = c.sentEOF /\ d.out = c.out
  BY DecidesSame
<1>2. d.decided /\ ~c.decided /\ c.st = "asked" /\ (d.st = "open" => MaySend(e, o)) /\ (d.st = "failed" => ~MaySend(e, o))
      /\ d.st \in {"open", "failed", "rejected"}
  BY DEF Decides
<1>3. wire'[e] = wire[e] /\ IF MaySend(e, o) /\ conn[r] = "up" THEN wire'[r] = wire[r] \o <<p>> ELSE wire'[r] = wire[r]
  BY <1>0, ChanSent
<1>4. CASE MaySend(e, o) /\ conn[r] = "up"
  <2>1. \A m \in Chans : ch[r][m].st # "rejected"
    BY <1>0, PlaceOf DEF Place, Settled
  <2>2. p.t \in {"confirm", "failure"} /\ p.to = c.rid
    BY DEF Answers
  <2>3. ~c.sentEOF
    BY <1>0, <1>2, PlaceOf DEF Place, Written
  <2>4. ASSUME NEW z, Sender(e, o, z) PROVE \E t : Legal(r, c.id, o, z, p, t) /\ Sender(e, o, t)'
    <3>1. z.ph = "wait" /\ z.n \in [Buffered -> Int] /\ \A x \in Buffered : z.n[x] = c.out[x]
      BY <1>2, <2>4 DEF Sender
    <3> PICK t : t = [ph |-> IF p.t = "confirm" THEN "on" ELSE "no", n |-> z.n]
      OBVIOUS
    <3>2. Legal(r, c.id, o, z, p, t)
      BY <3>1 DEF Legal, Answers
    <3>3. t.n = z.n /\ (t.ph = "on" \/ (d.st = "rejected" /\ t.ph = "no")) /\ (d.st = "rejected" => t.ph = "no")
      BY DEF Answers
    <3>4. ch'[e][o] = d /\ conn' = conn
      OBVIOUS
    <3>5. Sender(e, o, t)'
      BY ONLY <1>1, <1>2, <2>3, <3>1, <3>3, <3>4 DEF Sender, Active
    <3> QED
      BY <3>2, <3>5
  <2>5. Says(e, o, p)
    BY <1>0, <1>2, <2>2, <2>4 DEF Says, ChanTypes
  <2>6. /\ Inv /\ Faces(e, o) /\ conn' = conn /\ wire'[Peer(e)] = wire[Peer(e)] \o <<p>> /\ o \in Chans
        /\ ~ch[e][o].decided /\ \A m \in Chans : ch[Peer(e)][m].st # "rejected"
    BY <1>0, <1>2, <1>3, <1>4, <2>1
  <2>7. Dir(Peer(e))'
    BY ONLY <1>0, <2>5, <2>6, SaysOne
  <2> QED
    BY <1>0, <2>7
<1>5. CASE conn[r] # "up"
  BY <1>5 DEF Dir, Reads
<1>6. CASE ~MaySend(e, o)
  <2>1. Softer(e, o)
    BY <1>1, <1>2, <1>6 DEF Softer, Active, MaySend
  <2>2. Inv /\ o \in Chans /\ Faces(e, o) /\ Dir(Peer(e)) /\ conn' = conn /\ wire'[Peer(e)] = wire[Peer(e)]
    BY <1>0, <1>3, <1>6
  <2>3. Dir(Peer(e))'
    BY ONLY <1>0, <2>1, <2>2, SaysNothing
  <2> QED
    BY <1>0, <2>3
<1> QED
  BY <1>4, <1>5, <1>6

LEMMA DecidePairs ==
    ASSUME Inv, Pairs, NEW o \in Chans, NEW d, Alters(Other, o, d), Decides(o, ch[Other][o], d)
    PROVE  Pairs'
<1> PICK c : c = ch[Other][o]
  OBVIOUS
<1>0. ch'[Opener] = ch[Opener] /\ ch'[Other][o] = d /\ \A m \in Chans \ {o} : ch'[Other][m] = ch[Other][m]
  BY Altered, FirstChannel, MuxAssumption DEF Peer
<1>1. d.id = c.id /\ d.rid = c.rid /\ d.pair = c.pair
  BY DecidesSame
<1>2. d.decided /\ c.st # "free" /\ d.st # "free"
  BY DEF Decides
<1>3. \A m \in Chans : LET x == ch[Other][m]  y == ch'[Other][m] IN
        y.id = x.id /\ y.rid = x.rid /\ y.pair = x.pair /\ (x.decided => y.decided) /\ (y.st = "free" <=> x.st = "free")
  BY <1>0, <1>1, <1>2
<1>4. ch'[Opener] = ch[Opener]
  BY <1>0
<1> QED
  BY ONLY Pairs, <1>3, <1>4, SMTT(30) DEF Pairs

LEMMA DecideGood ==
    ASSUME Inv, Frame, Base, Tokens, inChans[Other] # <<>>, NEW o, o = Head(inChans[Other]),
           NEW d, Decides(o, ch[Other][o], d), Alters(Other, o, d), NEW p, Answers(o, ch[Other][o], d, p), ChanSends(Other, o, p),
           UNCHANGED <<scene, conn, loop, calls>>, inChans' = [inChans EXCEPT ![Other] = Tail(@)],
           slots'[Opener] = slots[Opener], Dir(Other)'
    PROVE  Base' /\ Tokens'
<1> PICK c : c = ch[Other][o]
  BY Zenon
<1>0. o \in Chans /\ c.pair # 0 /\ Other \in Ends /\ Peer(Other) = Opener /\ Opener # Other
  BY Asked, FirstChannel, MuxAssumption, ZenonT(60) DEF Peer
<1>1. ch'[Opener] = ch[Opener] /\ ch'[Other][o] = d /\ \A m \in Chans \ {o} : ch'[Other][m] = ch[Other][m]
  BY <1>0, Altered
<1>2. d.id = c.id /\ d.rid = c.rid /\ d.pair = c.pair /\ d.reqs = c.reqs
  BY DecidesSame
<1>3. Faces(Other, o)
  BY <1>0, <1>1, <1>2 DEF Faces, Reads
<1>4. Dir(Opener)'
  <2>1. Inv /\ Frame /\ Base /\ c = ch[Other][o] /\ Decides(o, c, d) /\ conn' = conn /\ loop' = loop /\ Answers(o, c, d, p) /\ ChanSends(Other, o, p)
    OBVIOUS
  <2> QED
    BY ONLY <1>0, <1>1, <1>3, <2>1, DecidesSays
<1>5. Place(Other, d)
  <2>1. Place(Other, c) /\ Frame /\ c = ch[Other][o] /\ Decides(o, c, d)
    BY <1>0, PlaceOf
  <2> QED
    BY ONLY <1>0, <2>1, DecidesPlace
<1>6. Places'
  BY <1>0, <1>5, AlteredPlaces DEF Base
<1>7. Pairs'
  BY <1>0, DecidePairs DEF Base
<1>8. Queue'
  BY <1>1, QueueTail DEF Base
<1>9. Wired(Other, p) /\ Wired(Opener, p)
  BY <1>0, ChanSent DEF Wired
<1>p. p.t \in {"confirm", "failure"}
  BY DEF Answers
<1>10. Opens'
  <2>1. NoMore(wire[Other], wire'[Other], "open") /\ NoMore(wire[Opener], wire'[Opener], "open")
    BY <1>9, <1>p, FirstChannel, WiredNoMore
  <2>2. \A m \in Chans : Plain(ch[Opener][m], ch'[Opener][m])
    BY <1>1 DEF Plain
  <2>3. \A m \in Chans : ch'[Other][m].pair = ch[Other][m].pair
    BY <1>1, <1>2
  <2>4. Opens
    BY DEF Base
  <2> QED
    BY ONLY <2>1, <2>2, <2>3, <2>4, OpensKept
<1>11. Base'
  BY <1>4, <1>6, <1>7, <1>8, <1>10 DEF Base
<1>12. Tokens'
  <2>1. NoMore(wire[Other], wire'[Other], "request") /\ NoMore(wire[Opener], wire'[Opener], "reply")
    BY <1>9, <1>p, FirstChannel, WiredNoMore
  <2>2. Unnoticed(Other, c, d)
    BY <1>0, <1>2 DEF Unnoticed
  <2> QED
    BY <1>0, <2>1, <2>2, TokensAltered
<1> QED
  BY <1>11, <1>12

LEMMA AcceptGood ==
    ASSUME Inv, Frame, Base, Tokens, NEW e \in Ends, Accept(e)
    PROVE  Base' /\ Tokens'
<1> PICK o : o = Head(inChans[e])
  OBVIOUS
<1> PICK c : c = ch[e][o]
  BY Zenon
<1>p. PICK s, p : /\ s = IF MaySend(e, o) THEN "open" ELSE "failed"
                  /\ p = [Pkt("confirm", c.rid) EXCEPT !.id = c.id, !.win = c.myWin, !.from = o]
  BY Zenon
<1>c. ch' = [ch EXCEPT ![e][o].decided = TRUE, ![e][o].st = s]
  BY <1>p, Zenon DEF Accept
<1>1. /\ ChanSends(e, o, p)
      /\ inChans[e] # <<>> /\ UNCHANGED <<scene, slots, conn, loop, calls>> /\ inChans' = [inChans EXCEPT ![e] = Tail(@)]
  BY <1>p, Zenon DEF Accept, history, calls
<1>2. /\ e = Other /\ o \in Chans /\ c.st = "asked" /\ ~c.decided /\ c.pair \in Chans /\ c.pair # 0
      /\ ~ch[Opener][c.pair].decided
  BY <1>1, Asked
<1>3. DOMAIN c = ChanFields /\ Sound(c)
  BY <1>2, ChanDomain
<1>d. PICK d : d = [c EXCEPT !.decided = TRUE, !.st = s]
  BY Zenon
<1>4. Alters(e, o, d)
  BY <1>2, <1>c, <1>d, ZenonT(60) DEF Inv, Shape, Alters
<1>5. Decides(o, c, d)
  BY <1>2, <1>3, <1>d, <1>p DEF Decides, ChanFields
<1>6. Answers(o, c, d, p)
  <2>1. p.t = "confirm" /\ p.to = c.rid /\ p.id = c.id /\ p.win = c.myWin /\ p.from = o
    BY <1>p, Zenon DEF Pkt
  <2>2. c.myWin >= 0 /\ d.st # "rejected"
    BY <1>3, <1>d, <1>p DEF Sound, ChanFields
  <2> QED
    BY <2>1, <2>2 DEF Answers
<1>7. Dir(e)'
  <2>0. ch'[Peer(e)] = ch[Peer(e)] /\ ch'[e][o] = d /\ \A m \in Chans \ {o} : ch'[e][m] = ch[e][m]
    BY <1>2, <1>4, Altered
  <2>1. /\ d.id = c.id /\ d.pair = c.pair /\ d.eof = c.eof /\ d.got = c.got /\ d.buf = c.buf
    BY <1>5, DecidesSame
  <2>2. d.st \in {"open", "failed"} /\ d.decided
    BY <1>3, <1>d, <1>p, Zenon DEF ChanFields
  <2>8. At(e, o)' = At(e, o)
    <3>1. ch'[e][o].eof = ch[e][o].eof /\ e # Opener /\ \A x \in Buffered : Arrived(ch'[e][o], x) = Arrived(ch[e][o], x)
      BY <1>2, <2>0, <2>1, MuxAssumption, ZenonT(60) DEF Arrived
    <3> QED
      BY ONLY <3>1, ZenonT(60) DEF At, Arrived
  <2>3. Reading(e, o)
    BY <1>2, <2>0, <2>1, <2>2, <2>8 DEF Reading
  <2>4. \A m \in Chans \ {o} : Reading(e, m)
    BY <2>0 DEF Reading, At, Arrived
  <2>5. wire'[e] = wire[e]
    BY <1>1, ChanSent
  <2>6. Inv /\ Dir(e) /\ e \in Ends /\ conn'[Peer(e)] = conn[Peer(e)] /\ slots'[e] = slots[e] /\ (Reads(e)' => Reads(e))
    BY <1>1, <1>2 DEF Base, Reads
  <2>7. \A m \in Chans : Reading(e, m)
    BY <2>3, <2>4
  <2> QED
    BY ONLY <2>0, <2>5, <2>6, <2>7, InKeeps, Zenon
<1>8. Base' /\ Tokens'
  <2>1. /\ Inv /\ Frame /\ Base /\ Tokens /\ inChans[Other] # <<>> /\ o = Head(inChans[Other]) /\ Decides(o, ch[Other][o], d) /\ Alters(Other, o, d)
        /\ Answers(o, ch[Other][o], d, p) /\ ChanSends(Other, o, p)
        /\ UNCHANGED <<scene, conn, loop, calls>> /\ inChans' = [inChans EXCEPT ![Other] = Tail(@)]
        /\ slots'[Opener] = slots[Opener] /\ Dir(Other)'
    BY <1>1, <1>2, <1>4, <1>5, <1>6, <1>7
  <2> QED
    BY ONLY <2>1, DecideGood, Zenon
<1> QED
  BY <1>8

LEMMA RejectGood ==
    ASSUME Inv, Frame, Base, Tokens, NEW e \in Ends, Reject(e)
    PROVE  Base' /\ Tokens'
<1> PICK o : o = Head(inChans[e])
  OBVIOUS
<1> PICK c : c = ch[e][o]
  OBVIOUS
<1> PICK p : p = Pkt("failure", c.rid)
  BY Zenon
<1>c. ch' = [ch EXCEPT ![e][o].decided = TRUE, ![e][o].st = "rejected"]
  BY Zenon DEF Reject
<1>1. /\ ChanSends(e, o, p)
      /\ slots' = [slots EXCEPT ![e][c.id] = 0]
      /\ inChans[e] # <<>> /\ UNCHANGED <<scene, conn, loop, calls>> /\ inChans' = [inChans EXCEPT ![e] = Tail(@)]
  BY Zenon DEF Reject, history, calls
<1>2. /\ e = Other /\ o \in Chans /\ c.st = "asked" /\ ~c.decided /\ c.pair \in Chans /\ c.pair # 0
      /\ ~ch[Opener][c.pair].decided
  BY <1>1, Asked, ZenonT(60)
<1>3. DOMAIN c = ChanFields /\ Sound(c)
  BY <1>2, ChanDomain
<1>d. PICK d : d = [c EXCEPT !.decided = TRUE, !.st = "rejected"]
  BY Zenon
<1>4. Alters(e, o, d)
  BY <1>2, <1>c, <1>d DEF Inv, Shape, Alters
<1>5. Decides(o, c, d) /\ d.st = "rejected"
  BY <1>2, <1>3, <1>d DEF Decides, ChanFields
<1>6. Answers(o, c, d, p)
  BY <1>5, PktFields, SMTT(30) DEF Answers
<1>s. slots'[Opener] = slots[Opener]
  BY <1>1, <1>2, MuxAssumption DEF Inv, Shape, Ends
<1>7. Dir(e)'
  <2>0. ch'[Opener] = ch[Opener] /\ ch'[e][o] = d /\ \A m \in Chans \ {o} : ch'[e][m] = ch[e][m]
    BY <1>2, <1>4, Altered, MuxAssumption DEF Peer
  <2>1. /\ d.id = c.id /\ d.pair = c.pair /\ d.got = c.got /\ d.buf = c.buf
    BY <1>5, DecidesSame, SMTT(30)
  <2>2. At(e, o)'.n = At(e, o).n
    BY <2>0, <2>1, Zenon DEF At, Arrived
  <2>3. Mate(e, o, c.pair) /\ \A q \in Chans : Mate(e, o, q) => ~ch[Opener][q].decided
    BY <1>2, MuxAssumption, Zenon DEF Mate
  <2>4. wire'[e] = wire[e] /\ c.pair \in Chans
    BY <1>1, <1>2, ChanSent
  <2>5. /\ Inv /\ e = Other /\ Dir(e) /\ conn'[Opener] = conn[Opener] /\ o \in Chans /\ ch[e][o].st # "rejected"
        /\ slots' = [slots EXCEPT ![e][ch[e][o].id] = 0]
        /\ d.id = ch[e][o].id /\ d.pair = ch[e][o].pair
    BY <1>1, <1>2, <2>1 DEF Base
  <2>6. CASE Reads(e)
    BY ONLY <1>5, <2>0, <2>2, <2>3, <2>4, <2>5, <2>6, InRejects, ZenonT(60)
  <2>7. CASE ~Reads(e)
    BY <1>1, <2>7 DEF Dir, Reads
  <2> QED
    BY <2>6, <2>7, Zenon
<1>8. Base' /\ Tokens'
  <2>1. /\ Inv /\ Frame /\ Base /\ Tokens /\ inChans[Other] # <<>> /\ o = Head(inChans[Other]) /\ Decides(o, ch[Other][o], d) /\ Alters(Other, o, d)
        /\ Answers(o, ch[Other][o], d, p) /\ ChanSends(Other, o, p)
        /\ UNCHANGED <<scene, conn, loop, calls>> /\ inChans' = [inChans EXCEPT ![Other] = Tail(@)]
        /\ slots'[Opener] = slots[Opener] /\ Dir(Other)'
    BY <1>1, <1>2, <1>4, <1>5, <1>6, <1>7, <1>s, ZenonT(60)
  <2> QED
    BY ONLY <2>1, DecideGood
<1> QED
  BY <1>8

-----------------------------------------------------------------------------
(* openChannel and handleChannelOpen                                       *)

\* A channel that was just made
Blank(e, d) ==
    /\ d.decided = FALSE /\ d.sentEOF = FALSE /\ d.sentClose = FALSE /\ d.closed = FALSE /\ d.eof = FALSE
    /\ d.msg = <<>> /\ d.reqs = <<>> /\ d.pend = FALSE
    /\ d.buf = [x \in Buffered |-> <<>>] /\ d.got = [x \in Buffered |-> <<>>]
    /\ d.hold = [x \in Streams |-> 0] /\ d.out = [x \in Streams |-> 0] /\ d.left = scene.write[e]

LEMMA NewBlank ==
    ASSUME NEW e, NEW s, NEW c, c = NewChannel(e, s)
    PROVE  Blank(e, c) /\ c.st = s /\ c.id = FreeSlot(e) /\ c.pair = 0 /\ DOMAIN c = ChanFields
<1>1. c = [FreeChannel EXCEPT !.st = s, !.id = FreeSlot(e), !.left = scene.write[e]]
  BY DEF NewChannel
<1>2. DOMAIN FreeChannel = ChanFields
  BY FreeSound DEF Sound
<1>3. /\ DOMAIN c = ChanFields /\ c.st = s /\ c.id = FreeSlot(e) /\ c.left = scene.write[e]
      /\ \A f \in ChanFields \ {"st", "id", "left"} : c[f] = FreeChannel[f]
  BY <1>1, <1>2 DEF ChanFields
<1>4. /\ FreeChannel.decided = FALSE /\ FreeChannel.sentEOF = FALSE /\ FreeChannel.sentClose = FALSE /\ FreeChannel.closed = FALSE /\ FreeChannel.eof = FALSE
      /\ FreeChannel.msg = <<>> /\ FreeChannel.reqs = <<>> /\ FreeChannel.pend = FALSE /\ FreeChannel.pair = 0
      /\ FreeChannel.buf = [x \in Buffered |-> <<>>] /\ FreeChannel.got = [x \in Buffered |-> <<>>]
      /\ FreeChannel.hold = [x \in Streams |-> 0] /\ FreeChannel.out = [x \in Streams |-> 0]
  BY DEF FreeChannel
<1> QED
  BY ONLY <1>3, <1>4 DEF Blank, ChanFields

LEMMA BlankEmpty ==
    ASSUME NEW e, NEW d, Blank(e, d), NEW x \in Buffered
    PROVE  Arrived(d, x) = <<>> /\ Len(Arrived(d, x)) = 0 /\ Counted(Arrived(d, x)) /\ d.got[x] \in Seq(Int)
<1>1. d.got[x] = <<>> /\ d.buf[x] = <<>>
  BY DEF Blank
<1>2. <<>> \o <<>> = <<>> /\ Len(<<>>) = 0 /\ <<>> \in Seq(Int)
  OBVIOUS
<1>3. <<>> = [i \in 1 .. 0 |-> i]
  OBVIOUS
<1> QED
  BY <1>1, <1>2, <1>3 DEF Arrived, Counted

LEMMA BlankPlace ==
    ASSUME Inv, NEW e \in Ends, NEW d, Blank(e, d),
           IF e = Opener THEN d.st \in {"opening", "failed"} /\ d.pair = 0 ELSE d.st = "asked"
    PROVE  Place(e, d)
<1>1. Settled(e, d)
  BY MuxAssumption DEF Settled, Blank
<1>2. Came(e, d)
  <2>1. \A x \in Buffered : Arrived(d, x) = <<>> /\ Counted(Arrived(d, x)) /\ d.got[x] \in Seq(Int)
    BY BlankEmpty
  <2>2. DOMAIN d.got = Buffered /\ d.eof = FALSE
    BY DEF Blank
  <2> QED
    BY ONLY <2>1, <2>2 DEF Came
<1>3. Written(e, d)
  <2>1. scene.write[e] \in [Streams -> Nat]
    BY PacketsAssumption DEF Inv, Shape
  <2>2. \A x \in Streams : d.out[x] = 0 /\ d.hold[x] = 0 /\ d.left[x] \in Nat /\ d.left[x] = scene.write[e][x]
    BY <2>1 DEF Blank
  <2>3. ~d.sentEOF /\ DOMAIN d.out = Streams
    BY DEF Blank
  <2> QED
    BY ONLY <2>1, <2>2, <2>3 DEF Written
<1> QED
  BY <1>1, <1>2, <1>3 DEF Place

\* A free channel is nobody's other end.
LEMMA FreeAlone ==
    ASSUME Inv, Base, NEW e \in Ends, HasFresh(e)
    PROVE  LET o == Fresh(e) IN
           /\ o \in Chans /\ ch[e][o].st = "free" /\ ch[e][o] = FreeChannel /\ ch[e][o].pair = 0
           /\ \A q \in Chans : ch[Peer(e)][q].pair # o
<1> PICK o : o = Fresh(e)
  OBVIOUS
<1>1. o \in Chans /\ ch[e][o].st = "free"
  BY FreshFree
<1>2. ch[e][o] = FreeChannel
  BY <1>1, PlaceOf DEF Place, Settled
<1>3. FreeChannel.pair = 0 /\ 0 \notin Chans
  BY DEF FreeChannel, Chans
<1>4. ASSUME NEW q \in Chans PROVE ch[Peer(e)][q].pair # o
  <2>1. CASE e = Opener
    BY <1>1, <1>3, <2>1 DEF Base, Pairs, Peer
  <2>2. CASE e = Other
    <3>1. Peer(e) = Opener
      BY <2>2, MuxAssumption DEF Peer
    <3>2. ch[Opener][q].pair # 0 => ch[Other][ch[Opener][q].pair].pair = q
      BY DEF Base, Pairs
    <3>3. ch[Other][o].pair = 0
      BY <1>2, <1>3, <2>2
    <3> QED
      BY <1>1, <1>3, <3>1, <3>2, <3>3
  <2> QED
    BY <2>1, <2>2 DEF Ends
<1> QED
  BY <1>1, <1>2, <1>3, <1>4

LEMMA OpenChannelGood == ASSUME Inv, Frame, Base, Tokens, OpenChannel PROVE Base' /\ Tokens'
<1> PICK e, f : e = Opener /\ f = Other
  OBVIOUS
<1> PICK o, c : o = Fresh(e) /\ c = NewChannel(e, "opening")
  OBVIOUS
<1> PICK d, p : /\ d = IF conn[e] = "up" THEN c ELSE [c EXCEPT !.st = "failed"]
                /\ p = [Pkt("open", 0) EXCEPT !.id = c.id, !.win = WindowSize, !.from = o]
  OBVIOUS
<1>1. /\ slots' = [slots EXCEPT ![e][c.id] = o] /\ Alters(e, o, d) /\ Sends(e, <<p>>)
      /\ HasFresh(e) /\ UNCHANGED <<scene, conn, loop, inChans, calls>>
  BY DEF OpenChannel, Alters
<1>2. e \in Ends /\ f \in Ends /\ Peer(e) = f /\ Peer(f) = e /\ e # f
  BY FirstChannel, MuxAssumption DEF Peer
<1>p. p.t = "open" /\ p.id = c.id /\ p.win = WindowSize /\ p.from = o
  BY DEF Pkt
<1>3. /\ o \in Chans /\ ch[e][o].st = "free" /\ ch[e][o] = FreeChannel /\ ch[e][o].pair = 0
      /\ \A q \in Chans : ch[f][q].pair # o
  BY <1>1, <1>2, FreeAlone
<1>4. Blank(e, c) /\ c.st = "opening" /\ c.id = FreeSlot(e) /\ c.pair = 0 /\ DOMAIN c = ChanFields
  BY NewBlank
<1>5. Blank(e, d) /\ d.st \in {"opening", "failed"} /\ d.id = c.id /\ d.pair = 0
  <2>1. CASE conn[e] = "up"
    BY <1>4, <2>1
  <2>2. CASE conn[e] # "up"
    <3>1. d.st = "failed" /\ \A g \in ChanFields \ {"st"} : d[g] = c[g]
      BY <1>4, <2>2 DEF ChanFields
    <3> QED
      BY ONLY <1>4, <3>1 DEF Blank, ChanFields
  <2> QED
    BY <2>1, <2>2
<1>6. Place(e, d)
  BY <1>2, <1>5, BlankPlace
<1>7. c.id \in DOMAIN slots[e] /\ slots[e][c.id] = 0
  BY <1>1, <1>2, <1>4, SlotFree
<1>8. ch'[f] = ch[f] /\ ch'[e][o] = d /\ \A m \in Chans \ {o} : ch'[e][m] = ch[e][m]
  BY <1>1, <1>2, <1>3, Altered
<1>9. wire'[e] = wire[e] /\ (wire'[f] = wire[f] \/ wire'[f] = wire[f] \o <<p>>)
  BY <1>1, <1>2, Sent
<1>u. d.decided = FALSE /\ d.closed = FALSE
  BY <1>5 DEF Blank
<1>10. Dir(e)'
  <2>1. /\ Inv /\ Dir(e) /\ e = Opener /\ f = Other /\ (Reads(e)' => Reads(e)) /\ conn'[f] = conn[f]
        /\ slots' = [slots EXCEPT ![e][c.id] = o] /\ wire'[e] = wire[e]
    BY <1>1, <1>9 DEF Base, Reads
  <2>2. d = ch'[e][o] /\ d.id = c.id /\ d.st # "rejected" /\ ~d.decided
    BY <1>5, <1>8, <1>u
  <2>3. \A q \in Chans : ~Mate(e, o, q)
    BY <1>3 DEF Mate
  <2> QED
    BY ONLY <1>3, <1>7, <1>8, <2>1, <2>2, <2>3, InOpens
<1>11. Dir(f)'
  <2>1. Still(f)
    BY <1>1, <1>2, <1>8 DEF Still, Mate, Reads, Inv, Shape
  <2>2. ASSUME NEW m \in Chans, NEW q \in Chans, Mate(f, m, q) PROVE Eased(f, m, Peer(f), q)
    <3>1. q # o
      BY <1>2, <1>3, <2>2 DEF Mate
    <3>2. ch'[e][q] = ch[e][q] /\ conn' = conn
      BY <1>1, <1>8, <3>1
    <3> QED
      BY <1>2, <3>2 DEF Eased, Sender, Active
  <2>3. wire'[f] = wire[f] \/ \E k : k.t \notin ChanTypes /\ wire'[f] = wire[f] \o <<k>>
    <3>1. p.t \notin ChanTypes
      BY <1>p DEF ChanTypes
    <3> QED
      BY <1>9, <3>1, Zenon
  <2>4. Inv /\ f \in Ends /\ Dir(f)
    BY <1>2 DEF Base
  <2> QED
    BY ONLY <2>1, <2>2, <2>3, <2>4, OutKeeps
<1>12. Places'
  BY <1>1, <1>2, <1>3, <1>6, AlteredPlaces, Zenon DEF Base
<1>13. Pairs'
  <2>1. \A b \in Chans : ch[f][b].st # "free" => ch[f][b].pair # o
    BY <1>3
  <2>2. Pairs /\ e = Opener /\ f = Other
    BY DEF Base
  <2>3. d.st # "free"
    BY <1>5
  <2>4. \A b \in Chans : LET x == ch'[Other][b] IN
          IF x.st = "free" THEN x.pair = 0
          ELSE x.pair \in Chans /\ ch'[Opener][x.pair].st # "free" /\ x.rid = ch'[Opener][x.pair].id
    BY ONLY <1>8, <2>1, <2>2, SMTT(30) DEF Pairs
  <2>5. \A b, k \in Chans : ch'[Other][b].pair = ch'[Other][k].pair /\ ch'[Other][b].pair # 0 => b = k
    BY ONLY <1>8, <2>2 DEF Pairs
  <2>6. \A a \in Chans : LET x == ch'[Opener][a] IN
          x.pair # 0 => x.decided /\ x.pair \in Chans /\ ch'[Other][x.pair].pair = a /\ x.rid = ch'[Other][x.pair].id
    BY ONLY <1>5, <1>8, <2>2, SMTT(30) DEF Pairs
  <2>7. \A a, b \in Chans : ch'[Other][b].pair = a /\ ch'[Opener][a].decided => ch'[Other][b].decided
    BY ONLY <1>8, <1>u, <2>2 DEF Pairs
  <2> QED
    BY ONLY <2>4, <2>5, <2>6, <2>7 DEF Pairs
<1>14. Queue'
  BY <1>1, <1>8 DEF Base, Queue
<1>15. Opens'
  <2> PICK w, v, l : w = wire[f] /\ v = wire'[f] /\ l = Len(w)
    OBVIOUS
  <2>0. IsASeq(w)
    BY <1>2, WiresAt
  <2>1. ASSUME NEW k \in DOMAIN w, w[k].t = "open"
        PROVE  /\ w[k].from \in Chans \ {o} /\ w[k].id = ch'[Opener][w[k].from].id /\ w[k].win = WindowSize
               /\ ch'[Opener][w[k].from].st # "free" /\ ~ch'[Opener][w[k].from].decided
               /\ \A b \in Chans : ch'[Other][b].pair # w[k].from
               /\ \A j \in DOMAIN w : w[j].t = "open" /\ w[j].from = w[k].from => j = k
    <3>1. /\ w[k].from \in Chans /\ w[k].id = ch[Opener][w[k].from].id /\ w[k].win = WindowSize
          /\ ch[Opener][w[k].from].st # "free" /\ ~ch[Opener][w[k].from].decided
          /\ \A b \in Chans : ch[Other][b].pair # w[k].from
          /\ \A j \in DOMAIN w : w[j].t = "open" /\ w[j].from = w[k].from => j = k
      BY <2>1 DEF Base, Opens
    <3>2. w[k].from # o
      BY <1>3, <3>1, Zenon
    <3> QED
      BY <1>8, <3>1, <3>2, SMTT(30)
  <2>2. \A k \in DOMAIN wire'[e] : wire'[e][k].t # "open"
    BY <1>9, Zenon DEF Base, Opens
  <2>3. CASE v = w
    BY <2>1, <2>2, <2>3, SMTT(30) DEF Opens
  <2>4. CASE v = w \o <<p>>
    <3>1. l \in Nat /\ DOMAIN w = 1 .. l /\ DOMAIN v = 1 .. l + 1 /\ v[l + 1] = p /\ \A k \in 1 .. l : v[k] = w[k]
      <4>1. v = w \o <<p>> /\ l = Len(w)
        BY <2>4
      <4> QED
        BY ONLY <2>0, <4>1, Extended
    <3>2. \A k \in DOMAIN v : (k = l + 1 /\ v[k] = p) \/ (k # l + 1 /\ k \in DOMAIN w /\ v[k] = w[k])
      BY <3>1, SMTT(30)
    <3>3. ASSUME NEW k \in DOMAIN v, v[k].t = "open"
          PROVE  /\ v[k].from \in Chans /\ v[k].id = ch'[Opener][v[k].from].id /\ v[k].win = WindowSize
                 /\ ch'[Opener][v[k].from].st # "free" /\ ~ch'[Opener][v[k].from].decided
                 /\ \A b \in Chans : ch'[Other][b].pair # v[k].from
                 /\ \A j \in DOMAIN v : v[j].t = "open" /\ v[j].from = v[k].from => j = k
      <4>1. CASE k = l + 1
        <5>1. v[k] = p
          BY <3>2, <4>1, Zenon
        <5>2. \A j \in DOMAIN v : v[j].t = "open" /\ v[j].from = o => j = k
          BY <2>1, <3>2, <4>1
        <5>3. ch'[Opener][o] = d /\ ch'[Other] = ch[Other] /\ \A q \in Chans : ch[Other][q].pair # o
          BY <1>3, <1>8, Zenon
        <5> QED
          BY ONLY <1>3, <1>p, <1>5, <1>u, <5>1, <5>2, <5>3
      <4>2. CASE k # l + 1
        <5>1. k \in DOMAIN w /\ v[k] = w[k]
          BY <3>2, <4>2
        <5>2. \A j \in DOMAIN v : v[j].t = "open" /\ v[j].from = v[k].from => j = k
          <6>1. w[k].t = "open"
            BY <3>3, <5>1
          <6>2. w[k].from # o /\ \A j \in DOMAIN w : w[j].t = "open" /\ w[j].from = w[k].from => j = k
            BY <2>1, <5>1, <6>1
          <6> QED
            BY ONLY <1>p, <3>2, <5>1, <6>2
        <5> QED
          BY <2>1, <3>3, <5>1, <5>2
      <4> QED
        BY <4>1, <4>2
    <3> QED
      BY <2>2, <3>3 DEF Opens
  <2> QED
    BY <1>9, <2>3, <2>4
<1>16. Tokens'
  <2>1. NoMore(wire[Other], wire'[Other], "request") /\ NoMore(wire[Opener], wire'[Opener], "reply")
    <3>1. Wired(Other, p) /\ Wired(Opener, p)
      BY <1>9 DEF Wired
    <3> QED
      BY <3>1, <1>p, FirstChannel, WiredNoMore
  <2>2. Unnoticed(e, ch[e][o], d)
    <3>1. FreeChannel.closed = FALSE
      BY DEF FreeChannel
    <3> QED
      BY <1>2, <1>3, <1>5, <3>1 DEF Unnoticed
  <2>3. UNCHANGED calls /\ Alters(e, o, d)
    BY <1>1
  <2>4. Inv /\ Tokens
    OBVIOUS
  <2> QED
    BY ONLY <1>2, <1>3, <2>1, <2>2, <2>3, <2>4, TokensAltered
<1> QED
  BY <1>10, <1>11, <1>12, <1>13, <1>14, <1>15, <1>16 DEF Base

LEMMA RecvOpenGood == ASSUME Inv, Frame, Base, Tokens, NEW e \in Ends, RecvOpen(e) PROVE Base' /\ Tokens'
<1> PICK f : f = Opener
  OBVIOUS
<1> PICK w, v, l : w = wire[e] /\ v = Tail(w) /\ l = Len(w)
  OBVIOUS
<1> PICK p : p = Next1(e)
  OBVIOUS
<1>0. /\ w # <<>> /\ Reads(e) /\ p.t = "open"
      /\ UNCHANGED <<scene, conn, loop, calls>>
  BY DEF RecvOpen, Running, Reads, history, calls
<1>w. /\ IsASeq(w) /\ l \in Nat /\ DOMAIN w = 1 .. l /\ 1 \in DOMAIN w /\ p = w[1]
      /\ DOMAIN v = 1 .. l - 1 /\ \A k \in DOMAIN v : k + 1 \in DOMAIN w /\ v[k] = w[k + 1]
  BY <1>0, WireHead
<1>1. e = Other /\ e # f /\ Peer(e) = f /\ f \in Ends
  BY <1>0, <1>w, FirstChannel, MuxAssumption DEF Base, Opens, Ends, Peer
<1> PICK a : a = p.from
  BY Zenon
<1>2. /\ a \in Chans /\ p.id = ch[Opener][a].id /\ p.win = WindowSize
      /\ ch[Opener][a].st # "free" /\ ~ch[Opener][a].decided
      /\ \A b \in Chans : ch[Other][b].pair # a
      /\ \A j \in DOMAIN w : w[j].t = "open" /\ w[j].from = a => j = 1
  BY <1>0, <1>w, <1>1 DEF Base, Opens
<1> PICK o, c : o = Fresh(e) /\ c = NewChannel(e, "asked")
  OBVIOUS
<1> PICK d : d = [c EXCEPT !.rid = p.id, !.rWin = p.win, !.pair = a]
  OBVIOUS
<1>3. /\ slots' = [slots EXCEPT ![e][c.id] = o] /\ Alters(e, o, d) /\ HasFresh(e)
      /\ inChans' = [inChans EXCEPT ![e] = Append(@, o)] /\ wire' = Pop(e)
  <2>1. p.win # -1
    BY <1>2, Sizes
  <2> QED
    BY <2>1 DEF RecvOpen, Alters
<1>4. /\ o \in Chans /\ ch[e][o].st = "free" /\ ch[e][o] = FreeChannel /\ ch[e][o].pair = 0
      /\ \A q \in Chans : ch[f][q].pair # o
  BY <1>1, <1>3, FreeAlone
<1>5. Blank(e, c) /\ c.st = "asked" /\ c.id = FreeSlot(e) /\ DOMAIN c = ChanFields
  BY NewBlank
<1>6. Blank(e, d) /\ d.st = "asked" /\ d.id = c.id /\ d.pair = a /\ d.rid = p.id
  <2>1. d.pair = a /\ d.rid = p.id /\ \A g \in ChanFields \ {"rid", "rWin", "pair"} : d[g] = c[g]
    BY <1>5 DEF ChanFields
  <2> QED
    BY ONLY <1>5, <2>1 DEF Blank, ChanFields
<1>u. d.decided = FALSE
  BY <1>6 DEF Blank
<1>7. Place(e, d)
  BY <1>1, <1>6, BlankPlace
<1>8. c.id \in DOMAIN slots[e] /\ slots[e][c.id] = 0
  BY <1>3, <1>5, SlotFree
<1>9. ch'[f] = ch[f] /\ ch'[e][o] = d /\ \A m \in Chans \ {o} : ch'[e][m] = ch[e][m]
  BY <1>1, <1>3, <1>4, Altered
<1>10. wire'[e] = v /\ wire'[f] = wire[f]
  BY <1>1, <1>3, Popped
<1>11. Place(f, ch[f][a])
  BY <1>1, <1>2, PlaceOf
<1>12. Dir(e)'
  <2>1. Sender(f, a, At(e, o)')
    <3> PICK z : z = At(e, o)'
      OBVIOUS
    <3>1. \A x \in Buffered : Len(Arrived(d, x)) = 0
      BY <1>6, BlankEmpty
    <3>2. d.eof = FALSE
      BY <1>6 DEF Blank
    <3>3. z = [ph |-> "on", n |-> [x \in Buffered |-> Len(Arrived(d, x))]]
      BY <1>1, <1>9, <3>2 DEF At, Arrived
    <3>4. z.ph = "on" /\ z.n \in [Buffered -> Int] /\ \A x \in Buffered : z.n[x] = 0
      BY <3>1, <3>3
    <3>5. \A x \in Buffered : ch[f][a].out[x] = 0
      BY <1>2, <1>11 DEF Place, Written, Buffered, Streams
    <3>6. ch[f][a].st # "rejected" /\ ~ch[f][a].decided /\ f # Other
      BY <1>1, <1>2, <1>11 DEF Place, Settled
    <3>7. Sender(f, a, z)
      BY ONLY <3>4, <3>5, <3>6 DEF Sender, Active
    <3> QED
      BY <3>7
  <2>2. /\ Inv /\ Dir(e) /\ e = Other /\ f = Opener /\ Reads(e) /\ wire[e] # <<>> /\ Next1(e).t \notin ChanTypes
        /\ wire'[e] = Tail(wire[e]) /\ conn'[f] = conn[f] /\ slots' = [slots EXCEPT ![e][c.id] = o]
    BY <1>0, <1>1, <1>3, <1>10 DEF Base, ChanTypes
  <2>3. d = ch'[e][o] /\ d.id = c.id /\ d.st = "asked" /\ ~d.decided /\ d.pair = a /\ a \in Chans
    BY <1>2, <1>6, <1>9, <1>u
  <2> QED
    BY ONLY <1>4, <1>8, <1>9, <2>1, <2>2, <2>3, InJoins
<1>13. Dir(f)'
  <2>1. Sender(e, o, At(f, a))'
    <3>1. ch'[f][a] = ch[f][a]
      BY <1>9
    <3>2. \A x \in Buffered : Len(Arrived(ch[f][a], x)) = 0
      <4>1. \A x \in Buffered : Arrived(ch[f][a], x) = <<>>
        BY <1>2, <1>11 DEF Place, Came
      <4>2. Len(<<>>) = 0
        OBVIOUS
      <4> QED
        BY <4>1, <4>2
    <3> PICK z : z = At(f, a)'
      OBVIOUS
    <3>3. z = [ph |-> "wait", n |-> [x \in Buffered |-> Len(Arrived(ch[f][a], x))]]
      BY <1>2, <3>1 DEF At, Arrived
    <3>4. z.ph = "wait" /\ z.n \in [Buffered -> Int] /\ \A x \in Buffered : z.n[x] = 0
      BY <3>2, <3>3
    <3>5. \A x \in Buffered : d.out[x] = 0
      BY <1>6 DEF Blank, Buffered, Streams
    <3>6. ch'[e][o] = d /\ d.decided = FALSE /\ d.st = "asked" /\ e = Other
      BY <1>1, <1>6, <1>9, <1>u
    <3>7. Sender(e, o, z)'
      BY ONLY <3>4, <3>5, <3>6 DEF Sender, Active
    <3> QED
      BY <3>7
  <2>2. /\ Inv /\ Dir(f) /\ f = Opener /\ e = Other /\ conn' = conn /\ loop' = loop /\ wire'[f] = wire[f] /\ slots'[f] = slots[f]
    BY <1>0, <1>1, <1>3, <1>10 DEF Base, Inv, Shape
  <2>3. /\ ch[e][o].pair = 0 /\ ch'[e][o].pair = a /\ ~ch'[e][o].decided /\ \A q \in Chans : ch[e][q].pair # a
        /\ ch[f][a].st # "free" /\ ~ch[f][a].decided /\ a \in Chans
    BY <1>1, <1>2, <1>4, <1>6, <1>9, <1>u
  <2> QED
    BY ONLY <1>4, <1>9, <2>1, <2>2, <2>3, OutJoins
<1>14. Places'
  BY <1>0, <1>3, <1>4, <1>7, AlteredPlaces DEF Base
<1>15. Pairs'
  <2>1. Pairs /\ e = Other /\ f = Opener
    BY <1>1 DEF Base
  <2>2. 0 \notin Chans
    BY DEF Chans
  <2>3. \A q \in Chans : ch[Opener][q].pair # o
    BY <1>4, Zenon
  <2>4. \A b \in Chans : LET x == ch'[Other][b] IN
          IF x.st = "free" THEN x.pair = 0
          ELSE x.pair \in Chans /\ ch'[Opener][x.pair].st # "free" /\ x.rid = ch'[Opener][x.pair].id
    BY ONLY <1>2, <1>6, <1>9, <2>1, SMTT(30) DEF Pairs
  <2>5. \A b, k \in Chans : ch'[Other][b].pair = ch'[Other][k].pair /\ ch'[Other][b].pair # 0 => b = k
    BY ONLY <1>2, <1>6, <1>9, <2>1 DEF Pairs
  <2>6. \A q \in Chans : LET x == ch'[Opener][q] IN
          x.pair # 0 => x.decided /\ x.pair \in Chans /\ ch'[Other][x.pair].pair = q /\ x.rid = ch'[Other][x.pair].id
    BY ONLY <1>9, <2>1, <2>3, SMTT(40) DEF Pairs
  <2>7. \A q, b \in Chans : ch'[Other][b].pair = q /\ ch'[Opener][q].decided => ch'[Other][b].decided
    BY ONLY <1>2, <1>6, <1>9, <2>1 DEF Pairs
  <2> QED
    BY ONLY <2>4, <2>5, <2>6, <2>7 DEF Pairs
<1>16. Opens'
  <2>1. ASSUME NEW k \in DOMAIN v, v[k].t = "open"
        PROVE  /\ v[k].from \in Chans /\ v[k].id = ch'[Opener][v[k].from].id /\ v[k].win = WindowSize
               /\ ch'[Opener][v[k].from].st # "free" /\ ~ch'[Opener][v[k].from].decided
               /\ \A b \in Chans : ch'[Other][b].pair # v[k].from
               /\ \A j \in DOMAIN v : v[j].t = "open" /\ v[j].from = v[k].from => j = k
    <3>1. k + 1 \in DOMAIN w /\ v[k] = w[k + 1] /\ k \in Int /\ k >= 1
      BY <1>w, <2>1
    <3> PICK y : y = v[k]
      BY Zenon
    <3>2. /\ y.from \in Chans /\ y.id = ch[Opener][y.from].id /\ y.win = WindowSize
          /\ ch[Opener][y.from].st # "free" /\ ~ch[Opener][y.from].decided
          /\ \A b \in Chans : ch[Other][b].pair # y.from
          /\ \A j \in DOMAIN w : w[j].t = "open" /\ w[j].from = y.from => j = k + 1
      BY <1>1, <2>1, <3>1 DEF Base, Opens
    <3>3. y.from # a
      BY <1>2, <2>1, <3>1
    <3>4. \A b \in Chans : ch'[Other][b].pair # y.from
      <4>1. e = Other /\ ch'[Other][o].pair = a
        BY <1>1, <1>6, <1>9
      <4> QED
        BY ONLY <1>9, <3>2, <3>3, <4>1
    <3>5. ASSUME NEW j \in DOMAIN v, v[j].t = "open", v[j].from = y.from PROVE j = k
      <4>1. j + 1 = k + 1 /\ j \in Int
        BY <1>w, <3>2, <3>5
      <4> QED
        BY <3>1, <4>1
    <3>6. ch'[Opener] = ch[Opener]
      BY <1>9
    <3> QED
      BY ONLY y = v[k], <3>2, <3>4, <3>5, <3>6
  <2>2. \A k \in DOMAIN wire'[Opener] : wire'[Opener][k].t # "open"
    BY <1>10 DEF Base, Opens
  <2>3. wire'[Other] = v
    BY <1>1, <1>10
  <2> QED
    BY <2>1, <2>2, <2>3 DEF Opens
<1>17. Queue'
  <2> PICK q, u, n : q = inChans[Other] /\ u = inChans'[Other] /\ n = Len(q)
    OBVIOUS
  <2>1. q \in Seq(Chans) /\ DOMAIN inChans = Ends
    BY Lists, FirstChannel
  <2>2. u = Append(q, o) /\ inChans'[Opener] = inChans[Opener]
    BY <1>1, <1>3, <2>1
  <2>3. n \in Nat /\ DOMAIN q = 1 .. n /\ DOMAIN u = 1 .. n + 1 /\ u[n + 1] = o /\ \A k \in 1 .. n : u[k] = q[k] /\ q[k] \in Chans
    BY <1>4, <2>1, <2>2
  <2>4. \A k \in DOMAIN q : q[k] \in Chans \ {o} /\ ch[Other][q[k]].st = "asked"
    BY <1>1, <1>4, <2>3 DEF Base, Queue
  <2>5. \A j, k \in DOMAIN q : q[j] = q[k] => j = k
    BY DEF Base, Queue
  <2>6. \A k \in DOMAIN u : (k = n + 1 /\ u[k] = o) \/ (k # n + 1 /\ k \in DOMAIN q /\ u[k] = q[k])
    BY <2>3
  <2>7. \A k \in DOMAIN u : ch'[Other][u[k]].st = "asked"
    <3>1. e = Other /\ ch'[Other][o].st = "asked"
      BY <1>1, <1>6, <1>9
    <3> QED
      BY ONLY <1>9, <2>4, <2>6, <3>1
  <2>8. \A j, k \in DOMAIN u : u[j] = u[k] => j = k
    BY ONLY <2>4, <2>5, <2>6
  <2>9. inChans'[Opener] = <<>>
    BY <2>2 DEF Base, Queue
  <2> QED
    BY <2>7, <2>8, <2>9 DEF Queue
<1>18. Tokens'
  <2>1. NoMore(wire[Other], wire'[Other], "request") /\ NoMore(wire[Opener], wire'[Opener], "reply")
    BY <1>0, <1>1, <1>10, <1>w, WiresAt, NoMoreTail, NoMoreSame
  <2>2. Unnoticed(e, ch[e][o], d)
    <3>1. FreeChannel.reqs = <<>> /\ d.reqs = <<>>
      BY <1>6 DEF FreeChannel, Blank
    <3> QED
      BY <1>1, <1>4, <3>1 DEF Unnoticed
  <2>3. UNCHANGED calls /\ Alters(e, o, d)
    BY <1>0, <1>3
  <2>4. Inv /\ Tokens /\ e \in Ends
    OBVIOUS
  <2> QED
    BY ONLY <1>4, <2>1, <2>2, <2>3, <2>4, TokensAltered
<1> QED
  BY <1>1, <1>12, <1>13, <1>14, <1>15, <1>16, <1>17, <1>18 DEF Base

-----------------------------------------------------------------------------
(* The loop                                                                *)

\* The loop of e ends, or its connection does.
LEMMA StopsGood ==
    ASSUME Inv, Base, Tokens, NEW e \in Ends, NEW f, f = Peer(e),
           UNCHANGED <<scene, slots, ch, inChans, calls>>, ~Reads(e)', Reads(f)' => Reads(f), wire'[f] = wire[f],
           wire'[e] = wire[e] \/ (wire[e] # <<>> /\ wire'[e] = Tail(wire[e])) \/ wire'[e] = <<>>,
           \A m \in Ends : conn'[m] \in {conn[m], "down"}
    PROVE  Base' /\ Tokens'
<1>0. f \in Ends /\ f # e /\ Peer(f) = e /\ Ends = {e, f}
  BY TwoEnds
<1>1. Dir(e)'
  BY DEF Dir
<1>2. Dir(f)'
  <2>1. Still(f)
    BY DEF Still, Mate
  <2>2. \A m, q \in Chans : Mate(f, m, q) => Eased(f, m, Peer(f), q)
    BY <1>0 DEF Eased, Sender, Active
  <2>3. Inv /\ Dir(f) /\ wire'[f] = wire[f]
    BY <1>0, FirstChannel DEF Base, Ends
  <2> QED
    BY ONLY <1>0, <2>1, <2>2, <2>3, OutKeeps
<1>3. Places'
  BY SamePlaces DEF Base
<1> PICK p : p = Pkt("eof", 0)
  OBVIOUS
<1>4. p.t = "eof" /\ Wired(e, p) /\ Wired(f, p)
  BY PktFields DEF Wired
<1>5. \A m \in Ends : Wired(m, p)
  BY <1>0, <1>4
<1>6. NoMore(wire[Other], wire'[Other], "open") /\ NoMore(wire[Opener], wire'[Opener], "open")
  BY <1>4, <1>5, FirstChannel, WiredNoMore
<1>7. NoMore(wire[Other], wire'[Other], "request") /\ NoMore(wire[Opener], wire'[Opener], "reply")
  BY <1>4, <1>5, TokensWired
<1>8. AllPlain
  BY DEF AllPlain, Plain
<1>9. Pairs' /\ Opens' /\ Queue'
  BY <1>6, <1>8, PlainPairs, PlainOpens, PlainQueue DEF Base
<1>10. Tokens'
  BY <1>7, TokensKept
<1>11. Dir(Opener)' /\ Dir(Other)'
  BY <1>0, <1>1, <1>2, FirstChannel
<1> QED
  BY <1>3, <1>9, <1>10, <1>11 DEF Base

LEMMA FailsGood ==
    ASSUME Inv, Frame, Base, Tokens, NEW e \in Ends, wire[e] # <<>>, Fails(e), UNCHANGED <<scene, conn, inChans, calls>>
    PROVE  Base' /\ Tokens'
<1> PICK f : f = Peer(e)
  OBVIOUS
<1>0. f \in Ends /\ f # e
  BY TwoEnds
<1>1. loop' = [loop EXCEPT ![e] = "err"] /\ wire' = Pop(e) /\ UNCHANGED <<ch, slots>> /\ DOMAIN loop = Ends
  BY DEF Fails, Frame
<1>2. wire'[e] = Tail(wire[e]) /\ wire'[f] = wire[f]
  BY <1>1, Popped
<1>3. ~Reads(e)' /\ (Reads(f)' => Reads(f))
  BY <1>0, <1>1 DEF Reads
<1> QED
  BY <1>1, <1>2, <1>3, StopsGood

LEMMA ReadFailsGood == ASSUME Inv, Frame, Base, Tokens, NEW e \in Ends, ReadFails(e) PROVE Base' /\ Tokens'
<1> PICK f : f = Peer(e)
  OBVIOUS
<1>0. f \in Ends /\ f # e
  BY TwoEnds
<1>1. /\ loop' = [loop EXCEPT ![e] = "err"] /\ UNCHANGED <<scene, wire, conn, slots, ch, inChans, calls>> /\ DOMAIN loop = Ends
  BY DEF ReadFails, Frame, history, calls
<1>3. ~Reads(e)' /\ (Reads(f)' => Reads(f))
  BY <1>0, <1>1 DEF Reads
<1> QED
  BY <1>1, <1>3, StopsGood

LEMMA CloseConnGood == ASSUME Inv, Frame, Base, Tokens, NEW e \in Ends, CloseConn(e) PROVE Base' /\ Tokens'
<1> PICK f : f = Peer(e)
  OBVIOUS
<1>0. f \in Ends /\ f # e /\ DOMAIN wire = Ends
  BY TwoEnds, WiresAt
<1>1. /\ loop' = loop \/ loop' = [loop EXCEPT ![e] = "ended"]
      /\ conn' = [conn EXCEPT ![e] = "down"] /\ wire' = [wire EXCEPT ![e] = <<>>]
      /\ UNCHANGED <<scene, slots, ch, inChans, calls>> /\ DOMAIN loop = Ends /\ DOMAIN conn = Ends
  BY DEF CloseConn, Frame, history, calls
<1>2. wire'[e] = <<>> /\ wire'[f] = wire[f] /\ conn'[e] = "down" /\ conn'[f] = conn[f] /\ loop'[f] = loop[f]
  BY <1>0, <1>1
<1>3. ~Reads(e)' /\ (Reads(f)' => Reads(f)) /\ \A m \in Ends : conn'[m] \in {conn[m], "down"}
  BY <1>2, TwoEnds DEF Reads
<1> QED
  BY <1>1, <1>2, <1>3, StopsGood

LEMMA RecvPingGood == ASSUME Inv, Base, Tokens, NEW e \in Ends, RecvPing(e) PROVE Base' /\ Tokens'
<1> PICK f, p : f = Peer(e) /\ p = Pkt("pong", -1)
  OBVIOUS
<1>1. /\ wire[e] # <<>> /\ Head(wire[e]).t = "ping" /\ PopAndSend(e, <<p>>)
      /\ UNCHANGED <<scene, conn, loop, slots, ch, inChans, calls>>
  BY DEF RecvPing, Running, Next1, history, calls
<1>2. wire'[e] = Tail(wire[e]) /\ (wire'[f] = wire[f] \/ wire'[f] = wire[f] \o <<p>>)
  BY <1>1, PopSent
<1>3. p.t \notin ChanTypes \cup {"open"} /\ "ping" \notin ChanTypes
  BY PktFields DEF ChanTypes
<1>4. Passes(e)
  BY <1>1, <1>2, <1>3 DEF Passes
<1>5. Passes(f)
  BY <1>2, <1>3, Zenon DEF Passes
<1>6. \A m \in Ends : Passes(m)
  BY <1>4, <1>5, TwoEnds
<1> QED
  BY <1>1, <1>6, PassesGood

LEMMA RecvGlobalGood == ASSUME Inv, Base, Tokens, NEW e \in Ends, RecvGlobal(e) PROVE Base' /\ Tokens'
<1> PICK f : f = Peer(e)
  OBVIOUS
<1>1. /\ wire[e] # <<>> /\ Head(wire[e]).t \in {"global", "greply"} /\ wire' = Pop(e)
      /\ UNCHANGED <<scene, conn, loop, slots, ch, inChans, calls>>
  BY DEF RecvGlobal, Running, Next1, history, calls
<1>2. wire'[e] = Tail(wire[e]) /\ wire'[f] = wire[f]
  BY <1>1, Popped
<1>3. Passes(e)
  BY <1>1, <1>2 DEF Passes, ChanTypes
<1>4. Passes(f)
  BY <1>2, Zenon DEF Passes
<1>6. \A m \in Ends : Passes(m)
  BY <1>3, <1>4, TwoEnds
<1> QED
  BY <1>1, <1>6, PassesGood

LEMMA RecvUnknownGood == ASSUME Inv, Frame, Base, Tokens, NEW e \in Ends, RecvUnknown(e) PROVE Base' /\ Tokens'
<1>1. /\ wire[e] # <<>> /\ Reads(e) /\ Target(e) = 0 /\ UNCHANGED <<scene, conn, inChans, calls>>
      /\ (Next1(e).t = "request" \/ Fails(e))
  BY DEF RecvUnknown, Reads, history, calls
<1>2. Dir(e)
  BY DEF Base, Ends
<1>3. Next1(e).t \notin ChanTypes
  BY <1>1, <1>2, HeadFacts
<1>4. Fails(e)
  BY <1>1, <1>3 DEF ChanTypes
<1> QED
  BY <1>1, <1>4, FailsGood

LEMMA ClosedFields ==
    ASSUME NEW c, DOMAIN c = ChanFields, NEW d, d = CloseChannel(c)
    PROVE  /\ d.closed = TRUE /\ d.eof = TRUE /\ d.sentClose = TRUE
           /\ d.st = c.st /\ d.msg = c.msg /\ d.id = c.id /\ d.rid = c.rid /\ d.pair = c.pair /\ d.decided = c.decided
           /\ d.sentEOF = c.sentEOF /\ d.reqs = c.reqs /\ d.left = c.left /\ d.hold = c.hold
           /\ d.pend = c.pend /\ d.out = c.out /\ d.got = c.got /\ d.buf = c.buf
  BY DEF CloseChannel, ChanFields

LEMMA ClosedPlace ==
    ASSUME NEW e \in Ends, NEW c, DOMAIN c = ChanFields, c.st # "free", Place(e, c), NEW d, d = CloseChannel(c)
    PROVE  Place(e, d) /\ Plain(c, d)
<1>1. /\ d.closed = TRUE /\ d.eof = TRUE /\ d.sentClose = TRUE
      /\ d.st = c.st /\ d.msg = c.msg /\ d.id = c.id /\ d.rid = c.rid /\ d.pair = c.pair /\ d.decided = c.decided
      /\ d.sentEOF = c.sentEOF /\ d.reqs = c.reqs /\ d.left = c.left /\ d.hold = c.hold
      /\ d.pend = c.pend /\ d.out = c.out /\ d.got = c.got /\ d.buf = c.buf
  BY ClosedFields, ZenonT(60)
<1>0. Settled(e, c) /\ Written(e, c) /\ Came(e, c) /\ c.st # "free"
  BY DEF Place
<1>2. Settled(e, d)
  BY ONLY <1>0, <1>1 DEF Settled
<1>3. Written(e, d)
  BY ONLY <1>0, <1>1 DEF Written
<1>4. Came(e, d)
  BY ONLY <1>0, <1>1 DEF Came, Arrived
<1>5. Plain(c, d)
  BY ONLY <1>1 DEF Plain
<1> QED
  BY <1>2, <1>3, <1>4, <1>5 DEF Place

LEMMA DropAllGood == ASSUME Inv, Frame, Base, Tokens, NEW e \in Ends, DropAll(e) PROVE Base' /\ Tokens'
<1> PICK f : f = Peer(e)
  OBVIOUS
<1>0. f \in Ends /\ f # e /\ Peer(f) = e /\ Ends = {e, f}
  BY TwoEnds
<1>1. /\ loop' = [loop EXCEPT ![e] = "dropped"] /\ UNCHANGED <<scene, wire, conn, inChans, calls>> /\ DOMAIN loop = Ends
      /\ slots' = [slots EXCEPT ![e] = [i \in DOMAIN slots[e] |-> 0]]
      /\ ch' = [ch EXCEPT ![e] = [o \in Chans |-> IF \E i \in DOMAIN slots[e] : slots[e][i] = o
                                                  THEN CloseChannel(ch[e][o]) ELSE ch[e][o]]]
  BY DEF DropAll, Frame, history, calls
<1>2. ch'[f] = ch[f] /\ slots'[f] = slots[f]
  BY <1>0, <1>1 DEF Inv, Shape
<1>3. ~Reads(e)' /\ (Reads(f)' => Reads(f))
  BY <1>0, <1>1 DEF Reads
<1>4. \A o \in Chans : ch'[e][o] = ch[e][o] \/ (ch'[e][o] = CloseChannel(ch[e][o]) /\ \E i \in DOMAIN slots[e] : slots[e][i] = o)
  BY <1>1 DEF Inv, Shape
<1>5. ASSUME NEW o \in Chans
      PROVE  /\ Place(e, ch'[e][o]) /\ Plain(ch[e][o], ch'[e][o]) /\ Softer(e, o)
             /\ ch'[e][o].reqs = ch[e][o].reqs /\ ch'[e][o].st = ch[e][o].st /\ ch'[e][o].msg = ch[e][o].msg
             /\ (ch[e][o].closed => ch'[e][o].closed)
  <2> PICK c, d : c = ch[e][o] /\ d = ch'[e][o]
    OBVIOUS
  <2>0. Place(e, c) /\ DOMAIN c = ChanFields /\ conn' = conn
    BY <1>1, PlaceOf, ChanDomain
  <2>1. CASE d = c
    <3>1. Plain(c, d)
      BY <2>1 DEF Plain
    <3>2. Softer(e, o)
      BY <2>0, <2>1 DEF Softer, Active
    <3> QED
      BY <2>0, <2>1, <3>1, <3>2
  <2>2. CASE d = CloseChannel(c) /\ \E i \in DOMAIN slots[e] : slots[e][i] = o
    <3>1. /\ d.closed = TRUE /\ d.sentClose = TRUE
          /\ d.st = c.st /\ d.msg = c.msg /\ d.id = c.id /\ d.decided = c.decided /\ d.reqs = c.reqs /\ d.out = c.out
      <4>1. d = CloseChannel(c)
        BY <2>2
      <4> QED
        BY ONLY <2>0, <4>1, ClosedFields
    <3>2. c.st # "free"
      <4>1. PICK i \in DOMAIN slots[e] : slots[e][i] = o
        BY <2>2
      <4>2. o # 0
        BY DEF Chans
      <4> QED
        BY <4>1, <4>2 DEF Inv, ListedOpen
    <3>3. Place(e, d) /\ Plain(c, d)
      BY <2>0, <2>2, <3>2, ClosedPlace
    <3>4. Softer(e, o)
      BY <3>1 DEF Softer, Active
    <3> QED
      BY <3>1, <3>3, <3>4
  <2> QED
    BY <1>4, <2>1, <2>2
<1>6. Dir(e)'
  BY <1>3 DEF Dir
<1>7. Dir(f)'
  <2>1. Still(f)
    <3>1. \A q \in Chans : ch'[e][q].pair = ch[e][q].pair
      BY <1>5 DEF Plain
    <3>2. \A m, q \in Chans : Mate(Peer(e), m, q)' <=> Mate(Peer(e), m, q)
      BY <1>2, <3>1, MatesKept
    <3> QED
      BY <1>2, <1>3, <3>2 DEF Still
  <2>2. \A m, q \in Chans : Mate(f, m, q) => Eased(f, m, Peer(f), q)
    BY <1>0, <1>5, SofterEased
  <2>3. Inv /\ Dir(f) /\ wire'[f] = wire[f]
    BY <1>0, <1>1, FirstChannel DEF Base, Ends
  <2> QED
    BY ONLY <1>0, <2>1, <2>2, <2>3, OutKeeps
<1>8. AllPlain
  <2>1. \A c : Plain(c, c)
    BY DEF Plain
  <2> QED
    BY <1>0, <1>2, <1>5, <2>1 DEF AllPlain
<1>9. Places'
  <2>1. \A m \in Ends, q \in Chans : Place(m, ch'[m][q])
    BY <1>0, <1>2, <1>5 DEF Base, Places
  <2>2. \A m \in Ends, q \in Chans : Place(m, ch[m][q])' <=> Place(m, ch'[m][q])
    BY <1>1 DEF Place, Settled, Written, Came
  <2> QED
    BY <2>1, <2>2, Zenon DEF Places
<1> PICK p : p = Pkt("eof", 0)
  OBVIOUS
<1>10. p.t = "eof" /\ \A m \in Ends : Wired(m, p)
  BY <1>1, PktFields DEF Wired
<1>11. NoMore(wire[Other], wire'[Other], "open") /\ NoMore(wire[Opener], wire'[Opener], "open")
  BY <1>10, FirstChannel, WiredNoMore
<1>12. NoMore(wire[Other], wire'[Other], "request") /\ NoMore(wire[Opener], wire'[Opener], "reply")
  BY <1>10, TokensWired
<1>13. Pairs' /\ Opens' /\ Queue'
  BY <1>1, <1>8, <1>11, PlainPairs, PlainOpens, PlainQueue DEF Base
<1>14. Tokens'
  <2>1. \A b \in Chans : ch'[Other][b].reqs = ch[Other][b].reqs
    BY <1>0, <1>2, <1>5, FirstChannel
  <2> PICK c, d : c = ch[Opener][1] /\ d = ch'[Opener][1]
    OBVIOUS
  <2>2. (c.closed => d.closed) /\ d.st = c.st /\ d.msg = c.msg
    BY <1>0, <1>2, <1>5, FirstChannel
  <2>3. Tokens /\ UNCHANGED calls
    BY <1>1
  <2>4. /\ (c.closed => d.closed) /\ (c.st = "open" => d.st = "open")
        /\ (d.st = "open" /\ d.msg # <<>> => c.st = "open" /\ d.msg = c.msg)
        /\ c = ch[Opener][1] /\ d = ch'[Opener][1]
    BY <2>2
  <2> QED
    BY ONLY <1>12, <2>1, <2>3, <2>4, TokensKept
<1>15. Dir(Opener)' /\ Dir(Other)'
  BY <1>0, <1>6, <1>7, FirstChannel
<1> QED
  BY <1>9, <1>13, <1>14, <1>15 DEF Base

-----------------------------------------------------------------------------
(* Packets for a channel                                                   *)

LEMMA LoopBase ==
    ASSUME Inv, Base, NEW e \in Ends, NEW o \in Chans, NEW d, Alters(e, o, d), Plain(ch[e][o], d), Place(e, d),
           UNCHANGED <<scene, conn, inChans>>,
           NEW p, p.t # "open", Wired(e, p), Wired(Peer(e), p), Dir(e)', Dir(Peer(e))'
    PROVE  Base'
<1>1. AllPlain
  BY AlteredPlain
<1>2. Places'
  BY AlteredPlaces DEF Base
<1>3. NoMore(wire[Other], wire'[Other], "open") /\ NoMore(wire[Opener], wire'[Opener], "open")
  BY FirstChannel, TwoEnds, WiredNoMore, SMTT(40)
<1>4. Pairs' /\ Opens' /\ Queue'
  BY <1>1, <1>3, PlainPairs, PlainOpens, PlainQueue DEF Base
<1>5. Dir(Opener)' /\ Dir(Other)'
  BY FirstChannel, TwoEnds
<1> QED
  BY <1>2, <1>4, <1>5 DEF Base

\* What an open channel gets
StreamTypes == {"data", "eof", "close", "adjust", "request", "reply"}

\* It is confirmed at both ends, and may answer unless it has sent a close.
LEMMA ActiveAt ==
    ASSUME Inv, Base, NEW e \in Ends, Reads(e), wire[e] # <<>>, Next1(e).t \in StreamTypes, NEW o, o = Target(e)
    PROVE  /\ o \in Chans /\ o # 0 /\ Listed(e, o) /\ For(Next1(e), ch[e][o].id)
           /\ \E q \in Chans : Mate(e, o, q)
           /\ ch[e][o].decided /\ ch[e][o].pair # 0 /\ ch[e][o].st \notin {"rejected", "free"} /\ ~ch[e][o].closed
           /\ ~ch[e][o].sentClose => Active(e, o)
<1>0. Dir(e) /\ Next1(e).t \in ChanTypes /\ Pairs
  BY DEF Base, Ends, StreamTypes, ChanTypes
<1>1. /\ o \in Chans /\ o # 0 /\ Listed(e, o) /\ For(Next1(e), ch[e][o].id)
      /\ \E q \in Chans : Mate(e, o, q) /\ ch[Peer(e)][q].decided
  BY <1>0, HeadFacts
<1>2. PICK q \in Chans : Mate(e, o, q) /\ ch[Peer(e)][q].decided
  BY <1>1
<1>3. \E t, z : /\ Legal(e, ch[Peer(e)][q].id, q, At(e, o), Next1(e), t)
                /\ Carries(e, ch[Peer(e)][q].id, q, Tail(wire[e]), ch[e][o].id, t, z)
                /\ Sender(Peer(e), q, z) /\ After(t, z)
                /\ t.ph \in {"off", "no"} => Quiet(Tail(wire[e]), ch[e][o].id)
  BY <1>0, <1>1, <1>2, HeadLegal
<1>4. At(e, o).ph \in {"on", "fin"}
  BY <1>3 DEF Legal, StreamTypes
<1>5. ch[e][o].decided
  <2>1. CASE e = Opener
    BY <1>4, <2>1 DEF At
  <2>2. CASE e = Other
    BY <1>0, <1>1, <1>2, <2>2, MuxAssumption DEF Mate, Pairs, Peer
  <2> QED
    BY <2>1, <2>2 DEF Ends
<1>6. ch[e][o].pair # 0 /\ ch[e][o].st # "rejected"
  BY <1>0, <1>1, <1>5 DEF Dir, Kept
<1>7. ch[e][o].st # "free" /\ ~ch[e][o].closed
  BY <1>1, TargetListed
<1>8. conn[e] = "up"
  BY DEF Reads
<1> QED
  BY <1>1, <1>2, <1>5, <1>6, <1>7, <1>8 DEF Active

\* A packet is taken by its channel, which stays in the list.
Takes(e, o, d) ==
    /\ Reads(e) /\ wire[e] # <<>> /\ Next1(e).t \in StreamTypes /\ o = Target(e) /\ wire'[e] = Tail(wire[e])
    /\ UNCHANGED <<scene, conn, loop, slots, inChans>> /\ Alters(e, o, d) /\ Plain(ch[e][o], d) /\ Place(e, d)

LEMMA TakesGood ==
    ASSUME Inv, Base, NEW e \in Ends, NEW f, f = Peer(e), NEW o, NEW d, Takes(e, o, d), NEW p, p.t # "open",
           \/ wire'[f] = wire[f] /\ Mute(e, ch[e][o], d)
           \/ wire'[f] = wire[f] \o <<p>> /\ Says(e, o, p) /\ ~ch[e][o].sentClose,
           \A q \in Chans : \A t : Mate(e, o, q) /\ Legal(e, ch[f][q].id, q, At(e, o), Next1(e), t) => t = At(e, o)'
    PROVE  Base' /\ \A m \in Ends : Wired(m, p)
<1>0. f \in Ends /\ f # e /\ Peer(f) = e /\ Ends = {e, f}
  BY TwoEnds
<1>1. /\ Reads(e) /\ wire[e] # <<>> /\ Next1(e).t \in StreamTypes /\ o = Target(e) /\ wire'[e] = Tail(wire[e])
      /\ UNCHANGED <<scene, conn, loop, slots, inChans>> /\ Alters(e, o, d) /\ Plain(ch[e][o], d) /\ Place(e, d)
  BY DEF Takes
<1>2. /\ o \in Chans /\ o # 0 /\ Listed(e, o) /\ For(Next1(e), ch[e][o].id)
      /\ \E q \in Chans : Mate(e, o, q)
      /\ ch[e][o].decided /\ ch[e][o].pair # 0 /\ ch[e][o].st \notin {"rejected", "free"} /\ ~ch[e][o].closed
      /\ ~ch[e][o].sentClose => Active(e, o)
  BY ONLY Inv, Base, e \in Ends, <1>1, ActiveAt
<1>3. ch'[f] = ch[f] /\ ch'[e][o] = d /\ \A m \in Chans \ {o} : ch'[e][m] = ch[e][m]
  BY <1>1, <1>2, Altered
<1>4. Dir(e) /\ Dir(f) /\ Pairs
  BY <1>0 DEF Base, Ends
<1>5. Faces(e, o)
  BY <1>1, <1>3 DEF Faces, Plain, Reads
<1>6. Dir(e)'
  <2>1. /\ wire'[e] = Tail(wire[e]) /\ ch'[f] = ch[f] /\ conn'[f] = conn[f] /\ slots'[e] = slots[e]
        /\ o = Target(e) /\ Next1(e).t \in ChanTypes /\ f = Peer(e) /\ d = ch'[e][o]
    BY <1>1, <1>3 DEF StreamTypes, ChanTypes
  <2>2. /\ d.id = ch[e][o].id /\ (e = Other => d.pair = ch[e][o].pair)
        /\ d.st # "rejected" /\ (d.decided => d.pair # 0) /\ (ch[e][o].decided => d.decided)
    BY <1>1, <1>2 DEF Plain
  <2>3. \A q \in Chans : \A t : Mate(e, o, q) /\ Legal(e, ch[f][q].id, q, At(e, o), Next1(e), t) => t = At(e, o)'
    OBVIOUS
  <2> QED
    BY ONLY Inv, e \in Ends, <1>1, <1>3, <1>4, <2>1, <2>2, <2>3, InPops
<1>7. Dir(f)'
  <2>1. CASE wire'[f] = wire[f] /\ Mute(e, ch[e][o], d)
    <3>1. Softer(e, o)
      BY <1>1, <1>2, <1>3, <2>1, MuteSofter
    <3> QED
      BY <1>1, <1>2, <1>4, <1>5, <2>1, <3>1, SaysNothing
  <2>2. CASE wire'[f] = wire[f] \o <<p>> /\ Says(e, o, p) /\ ~ch[e][o].sentClose
    BY <1>1, <1>2, <1>4, <1>5, <2>2, SaysOne
  <2> QED
    BY <2>1, <2>2
<1>8. Wired(e, p) /\ Wired(f, p)
  BY <1>1 DEF Wired
<1>9. Base'
  <2>1. Inv /\ Base /\ e \in Ends /\ o \in Chans /\ UNCHANGED <<scene, conn, inChans>> /\ f = Peer(e) /\ p.t # "open"
    BY <1>1, <1>2
  <2> QED
    BY ONLY <1>1, <1>6, <1>7, <1>8, <2>1, LoopBase
<1> QED
  BY <1>0, <1>8, <1>9

LEMMA RecvAdjustGood == ASSUME Inv, Frame, Base, Tokens, NEW e \in Ends, RecvAdjust(e) PROVE Base' /\ Tokens'
<1> PICK f, o, n : f = Peer(e) /\ o = Target(e) /\ n = Next1(e).win
  OBVIOUS
<1> PICK c : c = ch[e][o]
  OBVIOUS
<1> PICK d, p : d = [c EXCEPT !.rWin = @ + n] /\ p = Pkt("eof", 0)
  OBVIOUS
<1>1. /\ Reads(e) /\ wire[e] # <<>> /\ Next1(e).t = "adjust" /\ UNCHANGED <<scene, conn, inChans, calls>>
      /\ Fails(e) \/ (ch' = [ch EXCEPT ![e][o].rWin = @ + n] /\ wire' = Pop(e) /\ UNCHANGED <<loop, slots>>)
  BY DEF RecvAdjust, Running, Reads, history, calls
<1>2. CASE Fails(e)
  BY <1>1, <1>2, FailsGood
<1>3. CASE ch' = [ch EXCEPT ![e][o].rWin = @ + n] /\ wire' = Pop(e) /\ UNCHANGED <<loop, slots>>
  <2>1. Next1(e).t \in StreamTypes
    BY <1>1 DEF StreamTypes
  <2>2. o \in Chans /\ c.decided
    BY <1>1, <2>1, ActiveAt
  <2>3. DOMAIN c = ChanFields /\ Place(e, c)
    BY <2>2, ChanDomain, PlaceOf
  <2>4. Alters(e, o, d)
    BY <1>3, <2>2 DEF Alters, Inv, Shape
  <2>5. /\ d.st = c.st /\ d.id = c.id /\ d.rid = c.rid /\ d.pair = c.pair /\ d.decided = c.decided /\ d.msg = c.msg /\ d.pend = c.pend
        /\ d.closed = c.closed /\ d.sentClose = c.sentClose /\ d.sentEOF = c.sentEOF /\ d.left = c.left /\ d.hold = c.hold
        /\ d.eof = c.eof /\ d.out = c.out /\ d.got = c.got /\ d.buf = c.buf /\ d.reqs = c.reqs
    BY <2>3 DEF ChanFields
  <2>6. c.st # "free"
    BY <1>1, <2>1, ActiveAt
  <2>7. Place(e, d) /\ Plain(c, d) /\ Mute(e, c, d) /\ Unnoticed(e, c, d)
    BY ONLY <2>3, <2>5, <2>6 DEF Place, Settled, Written, Came, Arrived, Plain, Mute, Unnoticed
  <2>8. wire'[e] = Tail(wire[e]) /\ wire'[f] = wire[f]
    BY <1>3, Popped
  <2>9. Takes(e, o, d) /\ p.t = "eof"
    BY <1>1, <1>3, <2>1, <2>4, <2>7, <2>8, PktFields DEF Takes
  <2>10. At(e, o)' = At(e, o)
    <3>1. ch'[e][o] = d
      BY <2>2, <2>4, Altered
    <3> QED
      BY <2>5, <3>1 DEF At, Arrived
  <2>11. \A q \in Chans : \A t : Mate(e, o, q) /\ Legal(e, ch[f][q].id, q, At(e, o), Next1(e), t) => t = At(e, o)'
    BY <1>1, <2>10 DEF Legal
  <2>12. Base' /\ \A m \in Ends : Wired(m, p)
    <3>1. p.t # "open" /\ wire'[f] = wire[f] /\ Mute(e, ch[e][o], d)
      BY <2>7, <2>8, <2>9
    <3>2. Inv /\ Base /\ e \in Ends /\ f = Peer(e)
      OBVIOUS
    <3> QED
      BY ONLY <2>9, <2>11, <3>1, <3>2, TakesGood
  <2>13. Tokens'
    <3>1. NoMore(wire[Other], wire'[Other], "request") /\ NoMore(wire[Opener], wire'[Opener], "reply")
      BY <2>9, <2>12, TokensWired
    <3> QED
      BY <1>1, <2>2, <2>4, <2>7, <3>1, TokensAltered
  <2> QED
    BY <2>12, <2>13
<1> QED
  BY <1>1, <1>2, <1>3

LEMMA RecvEOFGood == ASSUME Inv, Frame, Base, Tokens, NEW e \in Ends, RecvEOF(e) PROVE Base' /\ Tokens'
<1> PICK f, o : f = Peer(e) /\ o = Target(e)
  OBVIOUS
<1> PICK c : c = ch[e][o]
  OBVIOUS
<1> PICK d, p : d = [c EXCEPT !.eof = TRUE] /\ p = Pkt("eof", 0)
  OBVIOUS
<1>1. /\ Reads(e) /\ wire[e] # <<>> /\ Next1(e).t = "eof" /\ UNCHANGED <<scene, conn, inChans, calls, loop, slots>>
      /\ ch' = [ch EXCEPT ![e][o].eof = TRUE] /\ wire' = Pop(e)
  BY DEF RecvEOF, Running, Reads, history, calls
<1>2. Next1(e).t \in StreamTypes
  BY <1>1 DEF StreamTypes
<1>3. o \in Chans /\ c.decided /\ c.st # "free"
  BY <1>1, <1>2, ActiveAt
<1>4. DOMAIN c = ChanFields /\ Place(e, c)
  BY <1>3, ChanDomain, PlaceOf
<1>5. Alters(e, o, d)
  BY <1>1, <1>3 DEF Alters, Inv, Shape
<1>6. /\ d.st = c.st /\ d.id = c.id /\ d.rid = c.rid /\ d.pair = c.pair /\ d.decided = c.decided /\ d.msg = c.msg /\ d.pend = c.pend
      /\ d.closed = c.closed /\ d.sentClose = c.sentClose /\ d.sentEOF = c.sentEOF /\ d.left = c.left /\ d.hold = c.hold
      /\ d.eof = TRUE /\ d.out = c.out /\ d.got = c.got /\ d.buf = c.buf /\ d.reqs = c.reqs
  BY <1>4 DEF ChanFields
<1>7. Place(e, d) /\ Plain(c, d) /\ Mute(e, c, d) /\ Unnoticed(e, c, d)
  BY ONLY <1>3, <1>4, <1>6 DEF Place, Settled, Written, Came, Arrived, Plain, Mute, Unnoticed
<1>8. wire'[e] = Tail(wire[e]) /\ wire'[f] = wire[f]
  BY <1>1, Popped
<1>9. Takes(e, o, d) /\ p.t = "eof"
  BY <1>1, <1>2, <1>5, <1>7, <1>8, PktFields DEF Takes
<1>10. At(e, o)' = [ph |-> "fin", n |-> At(e, o).n]
  <2>1. ch'[e][o] = d
    BY <1>3, <1>5, Altered
  <2> QED
    BY <1>3, <1>6, <2>1, ZenonT(60) DEF At, Arrived
<1>11. \A q \in Chans : \A t : Mate(e, o, q) /\ Legal(e, ch[f][q].id, q, At(e, o), Next1(e), t) => t = At(e, o)'
  BY <1>1, <1>10 DEF Legal
<1>12. Base' /\ \A m \in Ends : Wired(m, p)
  <2>1. p.t # "open" /\ wire'[f] = wire[f] /\ Mute(e, ch[e][o], d)
    BY <1>7, <1>8, <1>9
  <2>2. Inv /\ Base /\ e \in Ends /\ f = Peer(e)
    OBVIOUS
  <2> QED
    BY ONLY <1>9, <1>11, <2>1, <2>2, TakesGood
<1>13. Tokens'
  <2>1. NoMore(wire[Other], wire'[Other], "request") /\ NoMore(wire[Opener], wire'[Opener], "reply")
    BY <1>9, <1>12, TokensWired
  <2> QED
    BY <1>1, <1>3, <1>5, <1>7, <2>1, TokensAltered
<1> QED
  BY <1>12, <1>13

\* What is read so far goes on with what comes next.
LEMMA CountedOn ==
    ASSUME NEW s \in Seq(Int), Counted(s), NEW b \in Seq(Int), b = [i \in 1 .. Len(b) |-> Len(s) + i]
    PROVE  Counted(s \o b) /\ Len(s \o b) = Len(s) + Len(b)
<1> PICK t, m, n : t = s \o b /\ m = Len(s) /\ n = Len(b)
  OBVIOUS
<1>0. m \in Nat /\ n \in Nat /\ Len(t) = m + n /\ t \in Seq(Int)
  OBVIOUS
<1>1. m \in Nat /\ n \in Nat /\ Len(t) = m + n /\ t \in Seq(Int) /\ t = [i \in 1 .. Len(t) |-> t[i]]
  BY ONLY <1>0
<1>2. \A i \in 1 .. m + n : t[i] = IF i <= m THEN s[i] ELSE b[i - m]
  OBVIOUS
<1>3. \A i \in 1 .. m : s[i] = i
  BY <1>1 DEF Counted
<1>4. \A i \in 1 .. n : b[i] = m + i
  BY <1>1
<1>5. \A i \in 1 .. m + n : t[i] = i
  BY <1>1, <1>2, <1>3, <1>4
<1>6. t = [i \in 1 .. m + n |-> i]
  BY <1>1, <1>5
<1> QED
  BY <1>1, <1>6 DEF Counted

\* handleData: what changes, and what has arrived
Taken(c, x, b, d) ==
    /\ \A g \in ChanFields \ {"myWin", "myCons", "buf"} : d[g] = c[g]
    /\ IF x \in Buffered THEN d.buf = [c.buf EXCEPT ![x] = @ \o b] ELSE d.buf = c.buf

LEMMA TakenFields ==
    ASSUME NEW c, Sound(c), NEW x, NEW b
    PROVE  Taken(c, x, b, TakeData(c, x, b))
<1> PICK d : d = TakeData(c, x, b)
  OBVIOUS
<1>0. DOMAIN c = ChanFields
  BY DEF Sound
<1> PICK k, l : k = [c EXCEPT !.myWin = @ - Len(b)] /\ l = Consumed(k, Len(b))
  OBVIOUS
<1>1. DOMAIN k = ChanFields /\ \A g \in ChanFields \ {"myWin", "myCons"} : k[g] = c[g]
  BY <1>0 DEF ChanFields
<1>2. DOMAIN l = ChanFields /\ \A g \in ChanFields \ {"myWin", "myCons"} : l[g] = c[g]
  BY <1>1 DEF Consumed, ChanFields
<1>3. CASE x \in Buffered
  <2>1. d = [k EXCEPT !.buf[x] = @ \o b]
    BY <1>3 DEF TakeData
  <2>2. (\A g \in ChanFields \ {"myWin", "myCons", "buf"} : d[g] = c[g]) /\ d.buf = [c.buf EXCEPT ![x] = @ \o b]
    BY <1>1, <2>1 DEF ChanFields
  <2> QED
    BY <1>3, <2>2 DEF Taken
<1>4. CASE x \notin Buffered
  <2>1. d = c \/ d = l
    BY <1>4 DEF TakeData
  <2>2. \A g \in ChanFields \ {"myWin", "myCons"} : d[g] = c[g]
    BY <1>2, <2>1
  <2> QED
    <3>1. d.buf = c.buf /\ \A g \in ChanFields \ {"myWin", "myCons", "buf"} : d[g] = c[g]
      BY <2>2 DEF ChanFields
    <3> QED
      BY <1>4, <3>1 DEF Taken
<1> QED
  BY <1>3, <1>4

LEMMA ConcatTwice ==
    ASSUME NEW g \in Seq(Int), NEW u \in Seq(Int), NEW b \in Seq(Int)
    PROVE  g \o (u \o b) = (g \o u) \o b
<1> PICK v, w : v = g \o (u \o b) /\ w = (g \o u) \o b
  OBVIOUS
<1>1. v \in Seq(Int) /\ w \in Seq(Int) /\ Len(v) = Len(w)
  OBVIOUS
<1>2. \A i \in 1 .. Len(v) : v[i] = w[i]
  BY SMTT(40)
<1>3. v = [i \in 1 .. Len(v) |-> v[i]] /\ w = [i \in 1 .. Len(w) |-> w[i]]
  BY ONLY <1>1
<1>4. [i \in 1 .. Len(v) |-> v[i]] = [i \in 1 .. Len(v) |-> w[i]]
  BY <1>2
<1> QED
  BY <1>1, <1>3, <1>4

LEMMA RecvDataGood == ASSUME Inv, Frame, Base, Tokens, NEW e \in Ends, RecvData(e) PROVE Base' /\ Tokens'
<1> PICK f, o, h : f = Peer(e) /\ o = Target(e) /\ h = Next1(e)
  OBVIOUS
<1> PICK c, b : c = ch[e][o] /\ b = h.bytes
  OBVIOUS
<1>k. PICK k : k = IF h.x \in Buffered \/ Len(b) = 0 \/ c.sentClose THEN 0 ELSE Raise([c EXCEPT !.myWin = @ - Len(b)], Len(b))
  OBVIOUS
<1>d. PICK d, p : d = TakeData(c, h.x, b) /\ p = [Pkt("adjust", c.rid) EXCEPT !.win = k]
  OBVIOUS
<1>p. p.t = "adjust" /\ p.to = c.rid
  BY <1>d DEF Pkt
<1>1. /\ Reads(e) /\ wire[e] # <<>> /\ h.t = "data" /\ UNCHANGED <<scene, conn, inChans, calls>>
      /\ Fails(e) \/ (ch' = [ch EXCEPT ![e][o] = d] /\ PopAndSend(e, IF k = 0 THEN <<>> ELSE <<p>>) /\ UNCHANGED <<loop, slots>>)
  BY <1>d, <1>k DEF RecvData, Running, Reads, history, calls
<1>2. CASE Fails(e)
  BY <1>1, <1>2, FailsGood
<1>3. CASE ch' = [ch EXCEPT ![e][o] = d] /\ PopAndSend(e, IF k = 0 THEN <<>> ELSE <<p>>) /\ UNCHANGED <<loop, slots>>
  <2>1. h.t \in StreamTypes
    BY <1>1 DEF StreamTypes
  <2>2. /\ o \in Chans /\ o # 0 /\ Listed(e, o) /\ For(h, c.id) /\ (\E q \in Chans : Mate(e, o, q))
        /\ c.decided /\ c.pair # 0 /\ c.st \notin {"rejected", "free"} /\ ~c.closed /\ (~c.sentClose => Active(e, o))
    BY <1>1, <2>1, ActiveAt
  <2>3. Sound(c) /\ Place(e, c)
    BY <2>2, ChanDomain, PlaceOf
  <2>b. b \in Seq(Int)
    BY <1>1, NextDecoded DEF Inv, Decoded
  <2>a. Alters(e, o, d)
    BY <1>3 DEF Alters
  <2>4. Alters(e, o, d) /\ ch'[e][o] = d
    BY <2>2, <2>a, Altered
  <2>5. /\ d.st = c.st /\ d.id = c.id /\ d.rid = c.rid /\ d.pair = c.pair /\ d.decided = c.decided /\ d.msg = c.msg /\ d.pend = c.pend
        /\ d.closed = c.closed /\ d.sentClose = c.sentClose /\ d.sentEOF = c.sentEOF /\ d.left = c.left /\ d.hold = c.hold
        /\ d.eof = c.eof /\ d.out = c.out /\ d.got = c.got /\ d.reqs = c.reqs
        /\ IF h.x \in Buffered THEN d.buf = [c.buf EXCEPT ![h.x] = @ \o b] ELSE d.buf = c.buf
    <3>1. Taken(c, h.x, b, d)
      BY <1>d, <2>3, TakenFields
    <3> QED
      BY ONLY <3>1 DEF Taken, ChanFields
  <2>6. PICK q \in Chans : Mate(e, o, q)
    BY <2>2
  <2>7. PICK t : Legal(e, ch[f][q].id, q, At(e, o), h, t)
    <3>1. Dir(e)
      BY DEF Base, Ends
    <3> QED
      BY <1>1, <2>2, <2>6, <3>1, HeadLegal
  <2>8. \A x \in Buffered : c.got[x] \in Seq(Int) /\ c.buf[x] \in Seq(Int) /\ At(e, o).n[x] = Len(Arrived(c, x)) /\ Counted(Arrived(c, x))
    BY <2>3 DEF Sound, Place, Came, At, Buffered
  <2>9. h.x \in Buffered => b = [i \in 1 .. Len(b) |-> Len(Arrived(c, h.x)) + i]
    <3> SUFFICES ASSUME h.x \in Buffered PROVE b = [i \in 1 .. Len(b) |-> Len(Arrived(c, h.x)) + i]
      OBVIOUS
    <3> PICK a : a = At(e, o).n[h.x]
      OBVIOUS
    <3>1. b = [i \in 1 .. Len(b) |-> a + i]
      BY <1>1, <2>7 DEF Legal
    <3>2. a = Len(Arrived(c, h.x))
      BY <2>8
    <3> QED
      BY ONLY <3>1, <3>2
  <2>10. \A x \in Buffered : Counted(Arrived(d, x)) /\ Len(Arrived(d, x)) = IF x = h.x THEN Len(Arrived(c, x)) + Len(b) ELSE Len(Arrived(c, x))
    <3> SUFFICES ASSUME NEW x \in Buffered
                 PROVE  Counted(Arrived(d, x)) /\ Len(Arrived(d, x)) = IF x = h.x THEN Len(Arrived(c, x)) + Len(b) ELSE Len(Arrived(c, x))
      BY ZenonT(60)
    <3>1. CASE x = h.x
      <4>1. d.buf[x] = c.buf[x] \o b
        BY <2>3, <2>5, <3>1, ZenonT(60) DEF Sound
      <4>2. Arrived(d, x) = Arrived(c, x) \o b /\ Arrived(c, x) \in Seq(Int)
        <5> PICK g, u : g = c.got[x] /\ u = c.buf[x]
          OBVIOUS
        <5>1. g \in Seq(Int) /\ u \in Seq(Int) /\ d.got[x] = g
          BY <2>5, <2>8
        <5>2. g \o (u \o b) = (g \o u) \o b /\ g \o u \in Seq(Int)
          BY ONLY <2>b, <5>1, ConcatTwice, SMTT(40)
        <5>3. Arrived(c, x) = g \o u /\ Arrived(d, x) = g \o (u \o b)
          BY <4>1, <5>1 DEF Arrived
        <5> QED
          BY ONLY <5>2, <5>3
      <4>3. b = [i \in 1 .. Len(b) |-> Len(Arrived(c, x)) + i] /\ Counted(Arrived(c, x))
        BY <2>8, <2>9, <3>1
      <4>4. Counted(Arrived(c, x) \o b) /\ Len(Arrived(c, x) \o b) = Len(Arrived(c, x)) + Len(b)
        BY ONLY <2>b, <4>2, <4>3, CountedOn
      <4> QED
        BY <3>1, <4>2, <4>4
    <3>2. CASE x # h.x
      <4>1. d.buf[x] = c.buf[x]
        <5>1. CASE h.x \in Buffered
          BY <2>3, <2>5, <3>2, <5>1 DEF Sound
        <5>2. CASE h.x \notin Buffered
          BY <2>5, <5>2
        <5> QED
          BY <5>1, <5>2
      <4> QED
        BY <2>5, <2>8, <3>2, <4>1 DEF Arrived
    <3> QED
      BY <3>1, <3>2
  <2>11. Place(e, d) /\ Plain(c, d) /\ Mute(e, c, d) /\ Unnoticed(e, c, d)
    <3>1. Settled(e, d)
      BY ONLY <2>2, <2>3, <2>5 DEF Place, Settled
    <3>2. Written(e, d)
      BY ONLY <2>3, <2>5 DEF Place, Written
    <3>3. Came(e, d)
      BY ONLY <2>2, <2>3, <2>5, <2>10 DEF Place, Came
    <3> QED
      BY ONLY <2>5, <3>1, <3>2, <3>3 DEF Place, Plain, Mute, Unnoticed
  <2>12. \A m \in Chans : \A s : Mate(e, o, m) /\ Legal(e, ch[f][m].id, m, At(e, o), Next1(e), s) => s = At(e, o)'
    <3> SUFFICES ASSUME NEW m \in Chans, NEW s, Legal(e, ch[f][m].id, m, At(e, o), h, s) PROVE s = At(e, o)'
      OBVIOUS
    <3> PICK a : a = At(e, o)
      OBVIOUS
    <3>1. /\ a.ph = "on"
          /\ s = IF h.x \in Buffered THEN [ph |-> "on", n |-> [a.n EXCEPT ![h.x] = @ + Len(b)]] ELSE a
      BY <1>1 DEF Legal
    <3>2. a = [ph |-> a.ph, n |-> [x \in Buffered |-> Len(Arrived(c, x))]]
      BY DEF At
    <3>3. At(e, o)' = [ph |-> a.ph, n |-> [x \in Buffered |-> Len(Arrived(d, x))]]
      BY <2>4, <2>5 DEF At
    <3>4. CASE h.x \in Buffered
      <4>1. [a.n EXCEPT ![h.x] = @ + Len(b)] = [x \in Buffered |-> Len(Arrived(d, x))]
        <5> PICK u, v : u = a.n /\ v = [x \in Buffered |-> Len(Arrived(d, x))]
          OBVIOUS
        <5>1. DOMAIN u = Buffered /\ DOMAIN v = Buffered /\ \A x \in Buffered : u[x] = Len(Arrived(c, x)) /\ v[x] = Len(Arrived(d, x))
          BY <3>2
        <5>2. v[h.x] = u[h.x] + Len(b) /\ \A x \in Buffered \ {h.x} : v[x] = u[x]
          <6>1. Len(Arrived(d, h.x)) = Len(Arrived(c, h.x)) + Len(b)
            BY <2>10, <3>4
          <6>2. \A x \in Buffered \ {h.x} : Len(Arrived(d, x)) = Len(Arrived(c, x))
            BY <2>10
          <6> QED
            BY ONLY <3>4, <5>1, <6>1, <6>2
        <5>3. u = [x \in Buffered |-> u[x]] /\ v = [x \in Buffered |-> v[x]]
          BY <3>2, <5>1
        <5>4. [u EXCEPT ![h.x] = @ + Len(b)] = v
          BY ONLY <3>4, <5>1, <5>2, <5>3
        <5> QED
          BY <5>4
      <4> QED
        BY <3>1, <3>3, <3>4, <4>1
    <3>5. CASE h.x \notin Buffered
      <4>1. [x \in Buffered |-> Len(Arrived(c, x))] = [x \in Buffered |-> Len(Arrived(d, x))]
        BY <2>10, <3>5
      <4> QED
        BY <3>1, <3>2, <3>3, <3>5, <4>1
    <3> QED
      BY <3>4, <3>5
  <2>13. wire'[e] = Tail(wire[e]) /\ (wire'[f] = wire[f] \/ (wire'[f] = wire[f] \o <<p>> /\ k # 0))
    <3>1. CASE k = 0
      BY <1>3, <3>1, PopNone
    <3>2. CASE k # 0
      BY <1>3, <3>2, PopSent, Zenon
    <3> QED
      BY <3>1, <3>2
  <2>14. ASSUME k # 0 PROVE Says(e, o, p) /\ ~c.sentClose
    <3>1. ~c.sentClose
      BY <1>k, <2>14
    <3>2. Active(e, o)
      BY <2>2, <3>1
    <3>3. ASSUME NEW z, Sender(e, o, z) PROVE Legal(f, c.id, o, z, p, z) /\ Sender(e, o, z)'
      <4>1. z.ph \in {"on", "fin"}
        BY <3>2, <3>3 DEF Sender
      <4>2. Legal(f, c.id, o, z, p, z)
        BY <1>p, <4>1 DEF Legal
      <4>3. c = ch[e][o] /\ ch'[e][o] = d /\ conn' = conn
        BY <1>1, <2>4, Zenon
      <4>4. Sender(e, o, z)'
        BY ONLY <2>5, <3>3, <4>3 DEF Sender, Active
      <4> QED
        BY <4>2, <4>4
    <3> QED
      BY <1>p, <2>2, <2>4, <2>5, <3>1, <3>3 DEF Says, ChanTypes
  <2>15. Takes(e, o, d)
    BY <1>1, <1>3, <2>1, <2>4, <2>11, <2>13 DEF Takes
  <2>16. Base' /\ \A m \in Ends : Wired(m, p)
    <3>1. /\ p.t # "open"
          /\ \/ wire'[f] = wire[f] /\ Mute(e, ch[e][o], d)
             \/ wire'[f] = wire[f] \o <<p>> /\ Says(e, o, p) /\ ~ch[e][o].sentClose
      BY <1>p, <2>11, <2>13, <2>14
    <3>2. Inv /\ Base /\ e \in Ends /\ f = Peer(e)
      OBVIOUS
    <3> QED
      BY ONLY <2>12, <2>15, <3>1, <3>2, TakesGood
  <2>17. Tokens'
    <3>1. NoMore(wire[Other], wire'[Other], "request") /\ NoMore(wire[Opener], wire'[Opener], "reply")
      BY <1>p, <2>16, TokensWired
    <3> QED
      BY <1>1, <2>2, <2>4, <2>11, <3>1, TokensAltered
  <2> QED
    BY <2>16, <2>17
<1> QED
  BY <1>1, <1>2, <1>3

LEMMA RecvCloseGood == ASSUME Inv, Frame, Base, Tokens, NEW e \in Ends, RecvClose(e) PROVE Base' /\ Tokens'
<1> PICK f, o, h : f = Peer(e) /\ o = Target(e) /\ h = Next1(e)
  OBVIOUS
<1> PICK c : c = ch[e][o]
  OBVIOUS
<1> PICK d, p : d = CloseChannel(c) /\ p = Pkt("close", c.rid)
  OBVIOUS
<1>p. p.t = "close" /\ p.to = c.rid
  BY PktFields
<1>0. f \in Ends /\ f # e /\ Peer(f) = e /\ Ends = {e, f}
  BY TwoEnds
<1>1. /\ Reads(e) /\ wire[e] # <<>> /\ h.t = "close" /\ UNCHANGED <<scene, conn, loop, inChans, calls>>
      /\ PopAndSend(e, IF c.sentClose THEN <<>> ELSE <<p>>)
      /\ slots' = [slots EXCEPT ![e][c.id] = 0] /\ ch' = [ch EXCEPT ![e][o] = d]
  BY DEF RecvClose, Running, Reads, history, calls
<1>2. /\ o \in Chans /\ o # 0 /\ Listed(e, o)
      /\ c.decided /\ c.pair # 0 /\ c.st \notin {"rejected", "free"} /\ ~c.closed /\ (~c.sentClose => Active(e, o))
  <2>1. h.t \in StreamTypes
    BY <1>1 DEF StreamTypes
  <2> QED
    BY <1>1, <2>1, ActiveAt
<1>3. DOMAIN c = ChanFields /\ Place(e, c)
  BY <1>2, ChanDomain, PlaceOf
<1>4. Alters(e, o, d)
  BY <1>1 DEF Alters
<1>5. ch'[f] = ch[f] /\ ch'[e][o] = d /\ \A m \in Chans \ {o} : ch'[e][m] = ch[e][m]
  BY <1>2, <1>4, Altered
<1>c. d = CloseChannel(c) /\ c.st # "free" /\ e \in Ends
  BY <1>2
<1>6. /\ d.closed = TRUE /\ d.eof = TRUE /\ d.sentClose = TRUE
      /\ d.st = c.st /\ d.msg = c.msg /\ d.id = c.id /\ d.rid = c.rid /\ d.pair = c.pair /\ d.decided = c.decided
      /\ d.sentEOF = c.sentEOF /\ d.reqs = c.reqs /\ d.left = c.left /\ d.hold = c.hold
      /\ d.pend = c.pend /\ d.out = c.out /\ d.got = c.got /\ d.buf = c.buf
  BY ONLY <1>3, <1>c, ClosedFields, ZenonT(60)
<1>7. Place(e, d) /\ Plain(c, d)
  BY ONLY <1>3, <1>c, ClosedPlace
<1>8. Unnoticed(e, c, d) /\ Mute(e, c, d)
  BY ONLY <1>6 DEF Unnoticed, Mute
<1>9. Dir(e) /\ Dir(f) /\ Pairs
  BY <1>0 DEF Base, Ends
<1>10. wire'[e] = Tail(wire[e]) /\ (wire'[f] = wire[f] \/ (wire'[f] = wire[f] \o <<p>> /\ ~c.sentClose))
  <2>1. CASE c.sentClose
    BY <1>1, <2>1, PopNone
  <2>2. CASE ~c.sentClose
    BY <1>1, <2>2, PopSent
  <2> QED
    BY <2>1, <2>2
<1>11. Dir(e)'
  <2>1. At(e, o)'.n = At(e, o).n
    BY <1>5, <1>6 DEF At, Arrived
  <2>2. /\ Reads(e) /\ wire[e] # <<>> /\ Next1(e).t \in {"close", "failure"} /\ conn'[f] = conn[f]
        /\ slots' = [slots EXCEPT ![e][ch[e][o].id] = 0] /\ wire'[e] = Tail(wire[e]) /\ f = Peer(e) /\ o = Target(e) /\ d = ch'[e][o]
    BY <1>1, <1>5, <1>10
  <2>3. d.id = ch[e][o].id /\ d.pair = ch[e][o].pair /\ (e = Opener => d.decided)
    BY <1>2, <1>6
  <2> QED
    BY ONLY Inv, e \in Ends, <1>5, <1>9, <2>1, <2>2, <2>3, InCloses
<1>12. Faces(e, o)
  <2>1. slots'[f] = slots[f]
    BY <1>0, <1>1 DEF Inv, Shape
  <2> QED
    BY <1>1, <1>5, <1>6, <2>1 DEF Faces, Reads
<1>13. Dir(f)'
  <2>1. CASE wire'[f] = wire[f]
    <3>1. Softer(e, o)
      BY <1>1, <1>2, <1>5, <1>7, <1>8, MuteSofter, Zenon
    <3> QED
      BY <1>1, <1>2, <1>9, <1>12, <2>1, <3>1, SaysNothing, Zenon
  <2>2. CASE wire'[f] = wire[f] \o <<p>> /\ ~c.sentClose
    <3>1. Active(e, o)
      BY <1>2, <2>2
    <3>2. ASSUME NEW z, Sender(e, o, z) PROVE \E t : Legal(f, c.id, o, z, p, t) /\ Sender(e, o, t)'
      <4> PICK t : t = [ph |-> "off", n |-> z.n]
        OBVIOUS
      <4>0. z.ph \in {"on", "fin"}
        BY <3>1, <3>2 DEF Sender
      <4>1. Legal(f, c.id, o, z, p, t)
        BY <1>p, <4>0 DEF Legal
      <4>2. Sender(e, o, t)'
        BY <1>2, <1>5, <1>6, <3>2, SMTT(30) DEF Sender, Active
      <4> QED
        BY <4>1, <4>2
    <3>3. Says(e, o, p)
      BY <1>p, <1>2, <1>5, <1>6, <3>2, Zenon DEF Says, ChanTypes
    <3> QED
      BY <1>1, <1>2, <1>9, <1>12, <2>2, <3>1, <3>3, SaysOne
  <2> QED
    BY <1>10, <2>1, <2>2
<1>14. Wired(e, p) /\ Wired(f, p)
  BY <1>1, <1>10 DEF Wired
<1>15. Base'
  <2>1. /\ Inv /\ Base /\ e \in Ends /\ o \in Chans /\ UNCHANGED <<scene, conn, inChans>> /\ f = Peer(e) /\ p.t # "open"
        /\ Plain(ch[e][o], d)
    BY <1>p, <1>1, <1>2, <1>7
  <2> QED
    BY ONLY <1>4, <1>7, <1>11, <1>13, <1>14, <2>1, LoopBase, Zenon
<1>16. Tokens'
  <2>0. p.t \notin {"request", "reply"} /\ \A m \in Ends : Wired(m, p)
    BY <1>p, <1>0, <1>14
  <2>1. NoMore(wire[Other], wire'[Other], "request") /\ NoMore(wire[Opener], wire'[Opener], "reply")
    BY ONLY Inv, <2>0, TokensWired
  <2> QED
    BY <1>1, <1>2, <1>4, <1>8, <2>1, TokensAltered
<1> QED
  BY <1>15, <1>16

\* Only the accepting end gets requests, only the opening end replies.
LEMMA RequestSide ==
    ASSUME Inv, Base, NEW e \in Ends, Reads(e), wire[e] # <<>>, Next1(e).t \in {"request", "reply"}
    PROVE  e = IF Next1(e).t = "request" THEN Other ELSE Opener
<1>0. Dir(e) /\ Next1(e).t \in StreamTypes
  BY DEF Base, Ends, StreamTypes
<1> PICK o : o = Target(e)
  OBVIOUS
<1>1. o \in Chans /\ Listed(e, o) /\ For(Next1(e), ch[e][o].id) /\ \E q \in Chans : Mate(e, o, q)
  BY <1>0, ActiveAt
<1>2. PICK q \in Chans : Mate(e, o, q)
  BY <1>1
<1>3. \E t : Legal(e, ch[Peer(e)][q].id, q, At(e, o), Next1(e), t)
  BY <1>0, <1>1, <1>2, HeadLegal
<1>4. Next1(e).t = IF e = Opener THEN "reply" ELSE "request"
  BY <1>3 DEF Legal
<1> QED
  BY <1>4, MuxAssumption DEF Ends

\* The first packet was the only one of its type.
LEMMA TailNone ==
    ASSUME Inv, NEW e \in Ends, wire[e] # <<>>, NEW t, Next1(e).t = t, One(wire[e], t)
    PROVE  ~None(wire[e], t) /\ None(Tail(wire[e]), t) /\ \E k \in DOMAIN wire[e] : wire[e][k] = Next1(e)
<1> PICK w, v, l : w = wire[e] /\ v = Tail(w) /\ l = Len(w)
  OBVIOUS
<1>1. /\ IsASeq(w) /\ l \in Nat /\ DOMAIN w = 1 .. l /\ 1 \in DOMAIN w /\ Next1(e) = w[1]
      /\ IsASeq(v) /\ DOMAIN v = 1 .. l - 1 /\ \A k \in DOMAIN v : k + 1 \in DOMAIN w /\ v[k] = w[k + 1]
  BY WireHead
<1>2. \A k \in DOMAIN v : v[k].t # t
  BY <1>1 DEF One
<1> QED
  BY <1>1, <1>2 DEF None

LEMMA AppendToNone == ASSUME NEW r PROVE Append(<<>>, r) = <<r>> /\ <<r>> # <<>>
  OBVIOUS

LEMMA RecvRequestGood == ASSUME Inv, Frame, Base, Tokens, NEW e \in Ends, RecvRequest(e) PROVE Base' /\ Tokens'
<1> PICK f, o, h : f = Peer(e) /\ o = Target(e) /\ h = Next1(e)
  OBVIOUS
<1> PICK c : c = ch[e][o]
  OBVIOUS
<1> PICK d, p : d = [c EXCEPT !.reqs = Append(@, h.tag)] /\ p = Pkt("eof", 0)
  OBVIOUS
<1>1. /\ Reads(e) /\ wire[e] # <<>> /\ h.t = "request" /\ UNCHANGED <<scene, conn, inChans, calls, loop, slots>>
      /\ ch' = [ch EXCEPT ![e][o].reqs = Append(@, h.tag)] /\ wire' = Pop(e)
  BY DEF RecvRequest, Running, Reads, history, calls
<1>2. h.t \in StreamTypes
  BY <1>1 DEF StreamTypes
<1>3. o \in Chans /\ c.decided /\ c.st # "free"
  BY <1>1, <1>2, ActiveAt
<1>e. e = Other /\ f = Opener
  BY <1>1, RequestSide, MuxAssumption DEF Peer
<1>4. DOMAIN c = ChanFields /\ Place(e, c)
  BY <1>3, ChanDomain, PlaceOf
<1>5. Alters(e, o, d)
  BY <1>1, <1>3 DEF Alters, Inv, Shape
<1>d. ch'[f] = ch[f] /\ ch'[e][o] = d /\ \A m \in Chans \ {o} : ch'[e][m] = ch[e][m]
  BY <1>3, <1>5, Altered
<1>6. /\ d.st = c.st /\ d.id = c.id /\ d.rid = c.rid /\ d.pair = c.pair /\ d.decided = c.decided /\ d.msg = c.msg /\ d.pend = c.pend
      /\ d.closed = c.closed /\ d.sentClose = c.sentClose /\ d.sentEOF = c.sentEOF /\ d.left = c.left /\ d.hold = c.hold
      /\ d.eof = c.eof /\ d.out = c.out /\ d.got = c.got /\ d.buf = c.buf /\ d.reqs = Append(c.reqs, h.tag)
  BY <1>4, Zenon DEF ChanFields
<1>7. Place(e, d) /\ Plain(c, d) /\ Mute(e, c, d)
  BY ONLY <1>e, <1>3, <1>4, <1>6, MuxAssumption DEF Place, Settled, Written, Came, Arrived, Plain, Mute
<1>8. wire'[e] = Tail(wire[e]) /\ wire'[f] = wire[f]
  BY <1>1, Popped, Zenon
<1>9. Takes(e, o, d) /\ p.t = "eof"
  BY <1>1, <1>2, <1>5, <1>7, <1>8, PktFields, SMTT(30) DEF Takes
<1>10. At(e, o)' = At(e, o)
  BY <1>6, <1>d DEF At, Arrived
<1>11. \A q \in Chans : \A t : Mate(e, o, q) /\ Legal(e, ch[f][q].id, q, At(e, o), Next1(e), t) => t = At(e, o)'
  BY <1>1, <1>10 DEF Legal
<1>12. Base'
  <2>1. p.t # "open" /\ wire'[f] = wire[f] /\ Mute(e, ch[e][o], d)
    BY <1>7, <1>8, <1>9
  <2>2. Inv /\ Base /\ e \in Ends /\ f = Peer(e)
    OBVIOUS
  <2> QED
    BY ONLY <1>9, <1>11, <2>1, <2>2, TakesGood
<1>13. UNCHANGED <<call, holder, answer>> /\ ch'[Opener] = ch[Opener]
  BY <1>1, <1>d, <1>e DEF calls
<1>14. \A r : Waits(r)' <=> Waits(r)
  BY <1>13 DEF Waits
<1>15. ASSUME Token PROVE Token'
  <2>1. One(wire[e], "request")
    BY <1>15, <1>e DEF Token
  <2>2. ~None(wire[e], "request") /\ None(Tail(wire[e]), "request") /\ \E k \in DOMAIN wire[e] : wire[e][k] = h
    BY <1>1, <2>1, TailNone
  <2>3. Waits(h.tag) /\ None(wire[Opener], "reply") /\ NoQue /\ NoMsg
    BY <1>1, <1>e, <1>15, <2>2 DEF Token
  <2>4. None(wire'[Other], "request") /\ None(wire'[Opener], "reply") /\ NoMsg'
    BY <1>8, <1>13, <1>e, <2>2, <2>3 DEF NoMsg
  <2>5. d.reqs = <<h.tag>> /\ \A b \in Chans \ {o} : ch'[Other][b].reqs = <<>>
    <3>1. c.reqs = <<>> /\ \A b \in Chans \ {o} : ch[Other][b].reqs = <<>>
      BY <1>3, <1>e, <2>3 DEF NoQue
    <3>2. d.reqs = <<h.tag>>
      BY <1>6, <3>1, AppendToNone
    <3> QED
      BY <1>d, <1>e, <3>1, <3>2
  <2>6. \A b \in Chans : ch'[Other][b].reqs # <<>> => b = o /\ ch'[Other][b].reqs = <<h.tag>> /\ Waits(h.tag)'
    BY <1>14, <1>d, <1>e, <2>3, <2>5
  <2>7. \A b \in Chans : ch'[Other][b].reqs # <<>> => \E r : ch'[Other][b].reqs = <<r>> /\ Waits(r)'
    BY <2>6
  <2>8. \A b, k \in Chans : ch'[Other][b].reqs # <<>> /\ ch'[Other][k].reqs # <<>> => b = k
    BY <2>6
  <2> QED
    BY ONLY <2>4, <2>7, <2>8 DEF Token, None, One
<1>16. Tokens'
  <2>1. NoMsg' <=> NoMsg
    BY <1>13 DEF NoMsg
  <2>2. NoMsg' \/ \E r : ch'[Opener][1].msg = <<r>> /\ Waits(r)'
    BY <1>13, <1>14, <2>1, Zenon DEF Tokens
  <2> QED
    BY <1>13, <1>15, <2>2 DEF Tokens
<1> QED
  BY <1>12, <1>16

LEMMA RecvReplyGood == ASSUME Inv, Frame, Base, Tokens, NEW e \in Ends, RecvReply(e) PROVE Base' /\ Tokens'
<1> PICK f, o, h : f = Peer(e) /\ o = Target(e) /\ h = Next1(e)
  OBVIOUS
<1> PICK c : c = ch[e][o]
  OBVIOUS
<1> PICK k, p : k = [c EXCEPT !.msg = Append(@, h.tag)] /\ p = Pkt("eof", 0)
  OBVIOUS
<1> PICK d : d = IF c.pend /\ Len(c.msg) < ChanSize THEN k ELSE c
  OBVIOUS
<1>1. /\ Reads(e) /\ wire[e] # <<>> /\ h.t = "reply" /\ UNCHANGED <<scene, conn, inChans, calls, loop, slots>>
      /\ ch' = (IF c.pend /\ Len(c.msg) < ChanSize THEN [ch EXCEPT ![e][o].msg = Append(@, h.tag)] ELSE ch)
      /\ wire' = Pop(e)
  BY DEF RecvReply, Running, Reads, history, calls
<1>2. h.t \in StreamTypes
  BY <1>1 DEF StreamTypes
<1>3. o \in Chans /\ c.decided /\ c.st # "free" /\ ~c.closed
  BY <1>1, <1>2, ActiveAt
<1>e. e = Opener /\ f = Other
  BY <1>1, RequestSide DEF Peer
<1>4. DOMAIN c = ChanFields /\ Place(e, c)
  BY <1>3, ChanDomain, PlaceOf, Zenon
<1>5. Alters(e, o, d)
  BY <1>1, <1>3 DEF Alters, Inv, Shape
<1>d. ch'[f] = ch[f] /\ ch'[e][o] = d /\ \A m \in Chans \ {o} : ch'[e][m] = ch[e][m]
  BY <1>3, <1>5, Altered
<1>6. /\ d.st = c.st /\ d.id = c.id /\ d.rid = c.rid /\ d.pair = c.pair /\ d.decided = c.decided /\ d.pend = c.pend
      /\ d.closed = c.closed /\ d.sentClose = c.sentClose /\ d.sentEOF = c.sentEOF /\ d.left = c.left /\ d.hold = c.hold
      /\ d.eof = c.eof /\ d.out = c.out /\ d.got = c.got /\ d.buf = c.buf /\ d.reqs = c.reqs
      /\ d.msg = c.msg \/ (c.pend /\ d.msg = Append(c.msg, h.tag))
  BY <1>4 DEF ChanFields
<1>7. Place(e, d) /\ Plain(c, d) /\ Mute(e, c, d)
  <2>1. Settled(e, d)
    BY ONLY <1>3, <1>4, <1>6 DEF Place, Settled
  <2> QED
    BY ONLY <1>4, <1>6, <2>1 DEF Place, Written, Came, Arrived, Plain, Mute
<1>8. wire'[e] = Tail(wire[e]) /\ wire'[f] = wire[f]
  BY <1>1, Popped, Zenon
<1>9. Takes(e, o, d) /\ p.t = "eof"
  BY <1>1, <1>2, <1>5, <1>7, <1>8, PktFields, SMTT(40) DEF Takes
<1>10. At(e, o)' = At(e, o)
  BY <1>6, <1>d DEF At, Arrived
<1>11. \A q \in Chans : \A t : Mate(e, o, q) /\ Legal(e, ch[f][q].id, q, At(e, o), Next1(e), t) => t = At(e, o)'
  BY <1>1, <1>10, Zenon DEF Legal
<1>12. Base' /\ \A m \in Ends : Wired(m, p)
  <2>1. p.t # "open" /\ wire'[f] = wire[f] /\ Mute(e, ch[e][o], d)
    BY <1>7, <1>8, <1>9
  <2>2. Inv /\ Base /\ e \in Ends /\ f = Peer(e)
    OBVIOUS
  <2> QED
    BY ONLY <1>9, <1>11, <2>1, <2>2, TakesGood
<1>13. NoMore(wire[Other], wire'[Other], "request") /\ NoMore(wire[Opener], wire'[Opener], "reply")
  BY <1>9, <1>12, TokensWired, Zenon
<1>14. UNCHANGED <<call, holder, answer>> /\ UNCHANGED calls /\ ch'[Other] = ch[Other]
  BY <1>1, <1>d, <1>e DEF calls
<1>15. CASE o # 1 \/ d.msg = c.msg
  <2> PICK a, b : a = ch[Opener][1] /\ b = ch'[Opener][1]
    OBVIOUS
  <2>0. 1 \in Chans
    BY FirstChannel
  <2>1. b.closed = a.closed /\ b.st = a.st /\ b.msg = a.msg
    <3>1. CASE o = 1
      <4>1. a = c /\ b = d /\ d.msg = c.msg
        BY <1>15, <1>d, <1>e, <3>1
      <4> QED
        BY ONLY <1>6, <4>1
    <3>2. CASE o # 1
      BY <1>d, <1>e, <2>0, <3>2
    <3> QED
      BY <3>1, <3>2
  <2>2. \A m \in Chans : ch'[Other][m].reqs = ch[Other][m].reqs
    BY <1>14
  <2>3. /\ a = ch[Opener][1] /\ b = ch'[Opener][1] /\ (a.closed => b.closed) /\ (a.st = "open" => b.st = "open")
        /\ (b.st = "open" /\ b.msg # <<>> => a.st = "open" /\ b.msg = a.msg)
    BY <2>1
  <2>4. Tokens'
    BY ONLY Tokens, <1>13, <1>14, <2>2, <2>3, TokensKept
  <2> QED
    BY <1>12, <2>4
<1>16. CASE o = 1 /\ c.pend /\ d.msg = Append(c.msg, h.tag)
  <2>0. c = ch[Opener][1] /\ d = ch'[Opener][1] /\ c.st = "open" /\ d.st = "open" /\ ~c.closed
    BY <1>3, <1>4, <1>6, <1>16, <1>d, <1>e DEF Place, Settled
  <2>1. Token
    BY <2>0 DEF Tokens
  <2>2. ~None(wire[e], "reply") /\ None(Tail(wire[e]), "reply") /\ \E i \in DOMAIN wire[e] : wire[e][i] = h
    <3>1. One(wire[e], "reply")
      BY <1>e, <2>1 DEF Token
    <3> QED
      BY <1>1, <3>1, TailNone
  <2>3. Waits(h.tag) /\ None(wire[Other], "request") /\ NoQue /\ NoMsg
    BY <1>1, <1>e, <2>1, <2>2, Zenon DEF Token
  <2>4. d.msg = <<h.tag>>
    BY <1>16, <2>0, <2>3, AppendToNone DEF NoMsg
  <2>5. None(wire'[Other], "request") /\ None(wire'[Opener], "reply") /\ NoQue'
    BY <1>8, <1>14, <1>e, <2>2, <2>3 DEF NoQue
  <2>6. Token'
    BY ONLY <2>5 DEF Token, None, One, NoQue
  <2>7. Waits(h.tag)' /\ ch'[Opener][1].msg = <<h.tag>>
    BY <1>14, <2>0, <2>3, <2>4 DEF Waits
  <2>8. \E r : ch'[Opener][1].msg = <<r>> /\ Waits(r)'
    BY <2>7
  <2>9. Tokens'
    BY <1>14, <2>0, <2>6, <2>8, Zenon DEF Tokens
  <2> QED
    BY <1>12, <2>9, Zenon
<1> QED
  BY <1>6, <1>15, <1>16

\* How an answer leaves the channel that was waiting for it, o, whose other end is q
Answered(o, q, c, d) ==
    /\ ~c.decided /\ c.st \notin {"free", "open"} /\ ch[Other][q].pair = o /\ ch[Other][q].decided
    /\ d.id = c.id /\ d.st = c.st /\ d.closed = c.closed /\ d.decided
    /\ d.pair = 0 \/ (d.pair = q /\ d.rid = ch[Other][q].id)

LEMMA AnswerPairs ==
    ASSUME Inv, Pairs, NEW o \in Chans, NEW q \in Chans, NEW d, Alters(Opener, o, d), Answered(o, q, ch[Opener][o], d)
    PROVE  Pairs'
<1>0. Opener \in Ends /\ Peer(Opener) = Other
  BY FirstChannel DEF Peer
<1>1. ch'[Other] = ch[Other] /\ ch'[Opener][o] = d /\ \A m \in Chans \ {o} : ch'[Opener][m] = ch[Opener][m]
  BY <1>0, Altered
<1> PICK c : c = ch[Opener][o]
  OBVIOUS
<1>2. /\ ~c.decided /\ c.st \notin {"free", "open"} /\ ch[Other][q].pair = o /\ ch[Other][q].decided
      /\ d.id = c.id /\ d.st = c.st /\ d.decided /\ (d.pair = 0 \/ (d.pair = q /\ d.rid = ch[Other][q].id))
  BY DEF Answered
<1>3. \A a \in Chans : ch'[Opener][a].st = ch[Opener][a].st /\ ch'[Opener][a].id = ch[Opener][a].id
  <2> SUFFICES ASSUME NEW a \in Chans PROVE ch'[Opener][a].st = ch[Opener][a].st /\ ch'[Opener][a].id = ch[Opener][a].id
    OBVIOUS
  <2>1. CASE a = o
    BY <1>1, <1>2, <2>1
  <2>2. CASE a # o
    BY <1>1, <2>2, Zenon
  <2> QED
    BY <2>1, <2>2
<1>4. \A b \in Chans : LET k == ch'[Other][b] IN
        IF k.st = "free" THEN k.pair = 0
        ELSE k.pair \in Chans /\ ch'[Opener][k.pair].st # "free" /\ k.rid = ch'[Opener][k.pair].id
  BY <1>1, <1>3, SMTT(30) DEF Pairs
<1>5. \A b, k \in Chans : ch'[Other][b].pair = ch'[Other][k].pair /\ ch'[Other][b].pair # 0 => b = k
  BY <1>1 DEF Pairs
<1>z. 0 \notin Chans
  BY DEF Chans
<1>6. \A a \in Chans : LET k == ch'[Opener][a] IN
        k.pair # 0 => k.decided /\ k.pair \in Chans /\ ch'[Other][k.pair].pair = a /\ k.rid = ch'[Other][k.pair].id
  <2> SUFFICES ASSUME NEW a \in Chans, ch'[Opener][a].pair # 0
               PROVE  LET k == ch'[Opener][a] IN
                      k.decided /\ k.pair \in Chans /\ ch'[Other][k.pair].pair = a /\ k.rid = ch'[Other][k.pair].id
    OBVIOUS
  <2>1. CASE a = o
    BY <1>1, <1>2, <2>1, Zenon
  <2>2. CASE a # o
    BY <1>1, <2>2, SMTT(30) DEF Pairs
  <2> QED
    BY <2>1, <2>2
<1>7. \A a, b \in Chans : ch'[Other][b].pair = a /\ ch'[Opener][a].decided => ch'[Other][b].decided
  <2> SUFFICES ASSUME NEW a \in Chans, NEW b \in Chans, ch'[Other][b].pair = a, ch'[Opener][a].decided
               PROVE  ch'[Other][b].decided
    OBVIOUS
  <2>1. CASE a = o
    <3>1. b = q
      BY <1>1, <1>2, <1>z, <2>1 DEF Pairs
    <3> QED
      BY <1>1, <1>2, <3>1, Zenon
  <2>2. CASE a # o
    BY <1>1, <2>2, SMTT(30) DEF Pairs
  <2> QED
    BY <2>1, <2>2
<1> QED
  BY ONLY <1>4, <1>5, <1>6, <1>7 DEF Pairs

LEMMA AnswerOpens ==
    ASSUME Inv, Opens, NEW o \in Chans, NEW q \in Chans, NEW d, Alters(Opener, o, d), Answered(o, q, ch[Opener][o], d),
           wire'[Other] = wire[Other], wire[Opener] # <<>>, wire'[Opener] = Tail(wire[Opener])
    PROVE  Opens'
<1>0. Opener \in Ends /\ Peer(Opener) = Other
  BY FirstChannel DEF Peer
<1>1. ch'[Other] = ch[Other] /\ ch'[Opener][o] = d /\ \A m \in Chans \ {o} : ch'[Opener][m] = ch[Opener][m]
  BY <1>0, Altered
<1>2. ch[Other][q].pair = o
  BY DEF Answered
<1>3. \A k \in DOMAIN wire[Other] : wire[Other][k].t = "open" => wire[Other][k].from \in Chans \ {o}
  BY <1>2, Zenon DEF Opens
<1>4. \A k \in DOMAIN wire'[Other] : LET p == wire'[Other][k] IN p.t = "open" =>
        /\ p.from \in Chans /\ p.id = ch'[Opener][p.from].id /\ p.win = WindowSize
        /\ ch'[Opener][p.from].st # "free" /\ ~ch'[Opener][p.from].decided
        /\ \A b \in Chans : ch'[Other][b].pair # p.from
        /\ \A j \in DOMAIN wire'[Other] : wire'[Other][j].t = "open" /\ wire'[Other][j].from = p.from => j = k
  <2> SUFFICES ASSUME NEW k \in DOMAIN wire[Other], NEW p, p = wire[Other][k], p.t = "open"
               PROVE  /\ p.from \in Chans /\ p.id = ch'[Opener][p.from].id /\ p.win = WindowSize
                      /\ ch'[Opener][p.from].st # "free" /\ ~ch'[Opener][p.from].decided
                      /\ \A b \in Chans : ch'[Other][b].pair # p.from
                      /\ \A j \in DOMAIN wire[Other] : wire[Other][j].t = "open" /\ wire[Other][j].from = p.from => j = k
    OBVIOUS
  <2>1. ch'[Opener][p.from] = ch[Opener][p.from]
    BY <1>1, <1>3
  <2> QED
    BY <1>1, <2>1 DEF Opens
<1>5. \A k \in DOMAIN wire'[Opener] : wire'[Opener][k].t # "open"
  BY <1>0, WiresAt, TailSeq DEF Opens
<1> QED
  BY ONLY <1>4, <1>5 DEF Opens

LEMMA AnswerGood ==
    ASSUME Inv, Base, Tokens, NEW o \in Chans, NEW q \in Chans, NEW d, Alters(Opener, o, d),
           Answered(o, q, ch[Opener][o], d), Place(Opener, d), UNCHANGED <<scene, conn, inChans, calls>>,
           wire'[Other] = wire[Other], wire[Opener] # <<>>, wire'[Opener] = Tail(wire[Opener]),
           Dir(Opener)', Dir(Other)'
    PROVE  Base' /\ Tokens'
<1>0. Opener \in Ends /\ Other \in Ends /\ Peer(Opener) = Other
  BY FirstChannel DEF Peer
<1>1. ch'[Other] = ch[Other]
  BY <1>0, Altered
<1>2. Pairs' /\ Opens'
  BY AnswerPairs, AnswerOpens DEF Base
<1>3. Queue'
  BY <1>1 DEF Base, Queue
<1>4. Places'
  BY <1>0, AlteredPlaces DEF Base
<1>5. NoMore(wire[Other], wire'[Other], "request") /\ NoMore(wire[Opener], wire'[Opener], "reply")
  BY <1>0, WiresAt, NoMoreSame, NoMoreTail
<1>6. Unnoticed(Opener, ch[Opener][o], d)
  BY MuxAssumption DEF Unnoticed, Answered
<1>7. Tokens'
  BY <1>0, <1>5, <1>6, TokensAltered
<1> QED
  BY <1>2, <1>3, <1>4, <1>7 DEF Base

\* Only a channel that waits for an answer gets one, and only the answer of its other end.
LEMMA AnswerAt ==
    ASSUME Inv, Base, NEW e \in Ends, Reads(e), wire[e] # <<>>, Next1(e).t \in {"confirm", "failure"}, NEW o, o = Target(e)
    PROVE  /\ e = Opener /\ o \in Chans /\ Listed(e, o) /\ ~ch[e][o].decided /\ ~ch[e][o].closed /\ ch[e][o].st # "free"
           /\ \E q \in Chans : /\ ch[Other][q].pair = o /\ ch[Other][q].decided
                               /\ Next1(e).t = "confirm" =>
                                    ch[Other][q].st # "rejected" /\ Next1(e).from = q /\ Next1(e).id = ch[Other][q].id
<1>0. Dir(e) /\ Next1(e).t \in ChanTypes
  BY DEF Base, Ends, ChanTypes
<1>1. /\ o \in Chans /\ o # 0 /\ Listed(e, o) /\ For(Next1(e), ch[e][o].id)
      /\ \E q \in Chans : Mate(e, o, q) /\ ch[Peer(e)][q].decided
  BY <1>0, HeadFacts
<1>2. PICK q \in Chans : Mate(e, o, q) /\ ch[Peer(e)][q].decided
  BY <1>1
<1>3. PICK t, z : /\ Legal(e, ch[Peer(e)][q].id, q, At(e, o), Next1(e), t)
                  /\ Sender(Peer(e), q, z) /\ After(t, z)
  BY <1>0, <1>1, <1>2, HeadLegal
<1>4. At(e, o).ph = "wait"
  BY <1>3 DEF Legal
<1>5. e = Opener /\ ~ch[e][o].decided
  BY <1>4 DEF At
<1>6. Peer(e) = Other /\ ch[Other][q].pair = o
  BY <1>2, <1>5 DEF Peer, Mate
<1>7. ASSUME Next1(e).t = "confirm"
      PROVE  ch[Other][q].st # "rejected" /\ Next1(e).from = q /\ Next1(e).id = ch[Other][q].id
  <2>1. t.ph = "on" /\ Next1(e).from = q /\ Next1(e).id = ch[Other][q].id
    BY <1>3, <1>6, <1>7 DEF Legal
  <2>2. z.ph \in {"on", "fin", "off"}
    BY <1>3, <2>1 DEF After
  <2> QED
    BY <1>3, <1>6, <2>1, <2>2 DEF Sender
<1>8. ~ch[e][o].closed /\ ch[e][o].st # "free"
  BY <1>1, TargetListed
<1> QED
  BY <1>1, <1>2, <1>5, <1>6, <1>7, <1>8

\* A channel that waits has nothing but its number.
LEMMA WaitingAt ==
    ASSUME Base, NEW o \in Chans, NEW c, c = ch[Opener][o], ~c.decided, ~c.closed, c.st # "free"
    PROVE  /\ c.st \notin {"free", "open", "asked", "rejected"} /\ c.pair = 0 /\ c.reqs = <<>> /\ ~c.pend /\ ~c.eof /\ ~c.sentEOF
           /\ (c.st = "opening" => c.msg = <<>>) /\ \A x \in Streams : ~(c.hold[x] > 0)
<1>1. Place(Opener, c)
  BY FirstChannel, PlaceOf
<1> QED
  BY <1>1 DEF Place, Settled, Written, Came

\* What the answer adds to it
Adds(c, d, r) ==
    /\ d.decided = TRUE /\ d.msg = Append(c.msg, r)
    /\ \A g \in {"st", "id", "sentEOF", "sentClose", "closed", "buf", "got", "eof", "reqs", "pend", "left", "hold", "out"} : d[g] = c[g]

LEMMA AddsPlace ==
    ASSUME Base, NEW o \in Chans, NEW c, c = ch[Opener][o], ~c.decided, ~c.closed, c.st # "free",
           NEW r, NEW d, Adds(c, d, r), (r = "confirm" /\ d.pair # 0) \/ r = "failure"
    PROVE  Place(Opener, d)
<1>1. Place(Opener, c)
  BY FirstChannel, PlaceOf
<1>2. /\ c.st \notin {"free", "open", "asked", "rejected"} /\ c.pair = 0 /\ c.reqs = <<>> /\ ~c.pend /\ ~c.eof /\ ~c.sentEOF
      /\ (c.st = "opening" => c.msg = <<>>) /\ \A x \in Streams : ~(c.hold[x] > 0)
  BY WaitingAt
<1>3. /\ d.decided /\ d.msg = Append(c.msg, r) /\ d.st = c.st /\ d.id = c.id /\ d.sentEOF = c.sentEOF /\ d.sentClose = c.sentClose
      /\ d.closed = c.closed /\ d.buf = c.buf /\ d.got = c.got /\ d.eof = c.eof /\ d.reqs = c.reqs /\ d.pend = c.pend
      /\ d.left = c.left /\ d.hold = c.hold /\ d.out = c.out
  BY DEF Adds
<1>4. c.st = "opening" => d.msg = <<r>>
  BY <1>2, <1>3, AppendToNone
<1>5. Settled(Opener, d)
  <2>1. r \in {"confirm", "failure"} /\ (r = "confirm" => d.pair # 0)
    OBVIOUS
  <2> QED
    BY ONLY <1>1, <1>2, <1>3, <1>4, <2>1, MuxAssumption DEF Place, Settled
<1>6. Written(Opener, d)
  BY ONLY <1>1, <1>2, <1>3 DEF Place, Written
<1>7. Came(Opener, d)
  BY ONLY <1>1, <1>2, <1>3 DEF Place, Came, Arrived
<1> QED
  BY <1>5, <1>6, <1>7 DEF Place

LEMMA OpenAnswerGood == ASSUME Inv, Frame, Base, Tokens, NEW e \in Ends, OpenAnswer(e) PROVE Base' /\ Tokens'
<1> PICK f, o, h : f = Peer(e) /\ o = Target(e) /\ h = Next1(e)
  OBVIOUS
<1> PICK c : c = ch[e][o]
  OBVIOUS
<1> PICK j, k : /\ j = [c EXCEPT !.decided = TRUE, !.rid = h.id, !.rWin = AddWindow(@, h.win), !.msg = Append(@, h.t), !.pair = h.from]
                /\ k = [c EXCEPT !.decided = TRUE, !.msg = Append(@, h.t)]
  OBVIOUS
<1>1. /\ Reads(e) /\ wire[e] # <<>> /\ h.t \in {"confirm", "failure"} /\ UNCHANGED <<scene, conn, inChans, calls>>
      /\ \/ Fails(e)
         \/ h.t = "confirm" /\ ch' = [ch EXCEPT ![e][o] = j] /\ UNCHANGED slots /\ wire' = Pop(e) /\ UNCHANGED loop
         \/ /\ h.t = "failure" /\ ch' = [ch EXCEPT ![e][o] = k] /\ slots' = [slots EXCEPT ![e][c.id] = 0]
            /\ wire' = Pop(e) /\ UNCHANGED loop
  BY DEF OpenAnswer, Running, Reads, history, calls
<1>2. CASE Fails(e)
  BY <1>1, <1>2, FailsGood
<1>3. ASSUME wire' = Pop(e), UNCHANGED loop, NEW d, ch' = [ch EXCEPT ![e][o] = d],
             \/ h.t = "confirm" /\ d = j /\ UNCHANGED slots
             \/ h.t = "failure" /\ d = k /\ slots' = [slots EXCEPT ![e][c.id] = 0]
      PROVE  Base' /\ Tokens'
  <2>1. /\ e = Opener /\ o \in Chans /\ Listed(e, o) /\ ~c.decided /\ ~c.closed /\ c.st # "free"
        /\ \E q \in Chans : /\ ch[Other][q].pair = o /\ ch[Other][q].decided
                            /\ h.t = "confirm" => ch[Other][q].st # "rejected" /\ h.from = q /\ h.id = ch[Other][q].id
    BY <1>1, AnswerAt
  <2>2. PICK q \in Chans : /\ ch[Other][q].pair = o /\ ch[Other][q].decided
                           /\ h.t = "confirm" => ch[Other][q].st # "rejected" /\ h.from = q /\ h.id = ch[Other][q].id
    BY <2>1
  <2>f. f = Other /\ f \in Ends /\ f # e /\ Peer(f) = e /\ q # 0
    BY <2>1, TwoEnds DEF Peer, Chans
  <2>3. DOMAIN c = ChanFields
    BY <2>1, ChanDomain
  <2>4. Adds(c, d, h.t) /\ d.pair = (IF h.t = "confirm" THEN h.from ELSE c.pair) /\ (h.t = "confirm" => d.rid = h.id)
    <3>1. CASE h.t = "confirm"
      <4>1. d = j
        BY <1>3, <3>1
      <4> QED
        BY <2>3, <3>1, <4>1, Zenon DEF Adds, ChanFields
    <3>2. CASE h.t = "failure"
      <4>1. d = k
        BY <1>3, <3>2
      <4> QED
        BY <2>3, <3>2, <4>1 DEF Adds, ChanFields
    <3> QED
      BY <1>1, <3>1, <3>2
  <2>5. /\ c.st \notin {"free", "open", "asked", "rejected"} /\ c.pair = 0 /\ c.reqs = <<>> /\ ~c.pend /\ ~c.eof /\ ~c.sentEOF
        /\ (c.st = "opening" => c.msg = <<>>) /\ \A x \in Streams : ~(c.hold[x] > 0)
    BY <2>1, WaitingAt
  <2>6. /\ d.decided /\ d.st = c.st /\ d.id = c.id /\ d.sentEOF = c.sentEOF /\ d.sentClose = c.sentClose
        /\ d.closed = c.closed /\ d.buf = c.buf /\ d.got = c.got /\ d.eof = c.eof /\ d.out = c.out
    BY <2>4 DEF Adds
  <2>7. d.pair = 0 \/ (h.t = "confirm" /\ d.pair = q /\ d.rid = ch[Other][q].id)
    BY <1>1, <2>2, <2>4, <2>5
  <2>8. Place(Opener, d)
    <3>1. (h.t = "confirm" /\ d.pair # 0) \/ h.t = "failure"
      BY <1>1, <2>2, <2>4, <2>f
    <3>2. c = ch[Opener][o] /\ Base
      BY <2>1
    <3> QED
      BY ONLY <2>1, <2>4, <3>1, <3>2, AddsPlace
  <2>9. Alters(Opener, o, d)
    BY <1>3, <2>1 DEF Alters
  <2>10. Answered(o, q, ch[Opener][o], d)
    BY <2>1, <2>2, <2>5, <2>6, <2>7 DEF Answered
  <2>11. wire'[e] = Tail(wire[e]) /\ wire'[f] = wire[f]
    BY <1>3, Popped
  <2>12. ch'[f] = ch[f] /\ ch'[e][o] = d /\ \A m \in Chans \ {o} : ch'[e][m] = ch[e][m]
    BY <2>1, <2>9, Altered
  <2>13. Dir(e) /\ Dir(f) /\ Pairs
    BY <2>f DEF Base, Ends
  <2>14. Dir(e)'
    <3>a. At(e, o)' = [ph |-> "on", n |-> At(e, o).n]
      BY <2>5, <2>6, <2>12 DEF At, Arrived
    <3>b. conn'[f] = conn[f]
      BY <1>1
    <3>1. CASE h.t = "confirm"
      <4>1. /\ Reads(e) /\ wire[e] # <<>> /\ Next1(e).t \in ChanTypes /\ o = Target(e) /\ d = ch'[e][o] /\ f = Peer(e)
            /\ slots'[e] = slots[e]
        BY <1>1, <1>3, <2>12, <3>1 DEF ChanTypes
      <4>2. /\ d.id = ch[e][o].id /\ (e = Other => d.pair = ch[e][o].pair)
            /\ d.st # "rejected" /\ (d.decided => d.pair # 0) /\ (ch[e][o].decided => d.decided)
        BY <2>1, <2>2, <2>4, <2>5, <2>6, <2>f, <3>1, MuxAssumption
      <4>3. \A m \in Chans : \A t : Mate(e, o, m) /\ Legal(e, ch[f][m].id, m, At(e, o), Next1(e), t) => t = At(e, o)'
        BY <3>a, <3>1 DEF Legal
      <4> QED
        BY ONLY Inv, e \in Ends, <2>11, <2>12, <2>13, <3>b, <4>1, <4>2, <4>3, InPops
    <3>2. CASE h.t = "failure"
      <4>1. /\ Reads(e) /\ wire[e] # <<>> /\ Next1(e).t \in {"close", "failure"} /\ o = Target(e) /\ d = ch'[e][o] /\ f = Peer(e)
            /\ slots' = [slots EXCEPT ![e][ch[e][o].id] = 0]
        BY <1>1, <1>3, <2>12, <3>2
      <4>2. d.id = ch[e][o].id /\ d.pair = ch[e][o].pair /\ (e = Opener => d.decided) /\ At(e, o)'.n = At(e, o).n
        BY <2>4, <2>6, <3>2, <3>a
      <4> QED
        BY ONLY Inv, e \in Ends, <2>11, <2>12, <2>13, <3>b, <4>1, <4>2, InCloses
    <3> QED
      BY <1>1, <3>1, <3>2, Zenon
  <2>15. Dir(f)'
    <3>1. slots'[f] = slots[f]
      BY <1>3, <2>f, Zenon DEF Inv, Shape
    <3>2. Still(f)
      BY <1>1, <1>3, <2>f, <2>12, <3>1, MuxAssumption DEF Still, Reads, Mate
    <3>3. ASSUME NEW m \in Chans, NEW n \in Chans, Mate(f, m, n) PROVE Eased(f, m, e, n)
      <4>1. CASE n # o
        <5>1. ch'[e][n] = ch[e][n] /\ conn' = conn
          BY <1>1, <2>12, <4>1
        <5> QED
          BY ONLY <5>1 DEF Eased, Sender, Active
      <4>2. CASE n = o
        <5>1. ch[Other][m].pair = o
          BY <2>f, <3>3, <4>2, MuxAssumption, Zenon DEF Mate
        <5>2. m = q
          BY <2>1, <2>2, <2>13, <5>1 DEF Pairs, Chans
        <5>3. /\ c = ch[e][n] /\ d = ch'[e][n] /\ conn' = conn
          BY <1>1, <2>12, <4>2
        <5>4. Active(e, n)' => ch[f][m].st # "rejected"
          BY <2>2, <2>7, <2>f, <5>2, <5>3, Zenon DEF Active
        <5>5. ~c.decided /\ ~c.sentEOF /\ d.st # "rejected" /\ e # Other
          BY <2>1, <2>5, <2>6, MuxAssumption
        <5>6. \A z : Sender(e, n, z) => Sender(e, n, z)'
          BY ONLY <2>6, <5>3, <5>5 DEF Sender
        <5> QED
          BY ONLY <2>6, <5>3, <5>4, <5>5, <5>6 DEF Eased
      <4> QED
        BY <4>1, <4>2
    <3>4. \A m, n \in Chans : Mate(f, m, n) => Eased(f, m, Peer(f), n)
      BY <2>f, <3>3, Zenon
    <3> QED
      BY ONLY Inv, <2>f, <2>11, <2>13, <3>2, <3>4, OutKeeps
  <2>16. /\ wire'[Other] = wire[Other] /\ wire[Opener] # <<>> /\ wire'[Opener] = Tail(wire[Opener])
         /\ Dir(Opener)' /\ Dir(Other)' /\ UNCHANGED <<scene, conn, inChans, calls>> /\ o \in Chans
    BY <1>1, <2>1, <2>11, <2>14, <2>15, <2>f
  <2> QED
    BY ONLY Inv, Base, Tokens, q \in Chans, <2>8, <2>9, <2>10, <2>16, AnswerGood, Zenon
<1> QED
  BY <1>1, <1>2, <1>3

-----------------------------------------------------------------------------
(* The theorem                                                             *)

LEMMA LoopGood == ASSUME Inv, Frame, Base, Tokens, NEW e \in Ends, Loop(e) PROVE Base' /\ Tokens'
<1>1. CASE RecvOpen(e) \/ RecvGlobal(e) \/ RecvUnknown(e) \/ RecvPing(e)
  BY <1>1, RecvOpenGood, RecvGlobalGood, RecvUnknownGood, RecvPingGood
<1>2. CASE OpenAnswer(e) \/ RecvData(e) \/ RecvAdjust(e) \/ RecvEOF(e)
  BY <1>2, OpenAnswerGood, RecvDataGood, RecvAdjustGood, RecvEOFGood
<1>3. CASE RecvClose(e) \/ RecvRequest(e) \/ RecvReply(e)
  BY <1>3, RecvCloseGood, RecvRequestGood, RecvReplyGood
<1>4. CASE ReadFails(e) \/ DropAll(e) \/ CloseConn(e)
  BY <1>4, ReadFailsGood, DropAllGood, CloseConnGood
<1> QED
  BY <1>1, <1>2, <1>3, <1>4 DEF Loop

LEMMA FrameNext == ASSUME Frame, Next PROVE Frame'
<1>1. /\ conn' = conn \/ \E e \in Ends : conn' = [conn EXCEPT ![e] = "down"]
      /\ DOMAIN loop' = DOMAIN loop /\ DOMAIN call' = DOMAIN call /\ DOMAIN answer' = DOMAIN answer
  <2>1. CASE OpenChannel \/ \E o \in Chans : OpenReturns(o)
    BY <2>1, ZenonT(60) DEF OpenChannel, OpenReturns, calls
  <2>2. CASE \E r \in Callers : Caller(r)
    BY <2>2 DEF Caller, CallBegins, CallSends, CallReturns
  <2>3. CASE GlobalBegins \/ GlobalSends \/ GlobalReturns \/ ServeGlobal
    BY <2>3 DEF GlobalBegins, GlobalSends, GlobalReturns, ServeGlobal, calls
  <2>4. ASSUME NEW e \in Ends, RecvOpen(e) \/ RecvGlobal(e) \/ RecvUnknown(e) \/ RecvPing(e) \/ OpenAnswer(e) \/ RecvData(e)
        PROVE  conn' = conn /\ DOMAIN loop' = DOMAIN loop /\ UNCHANGED <<call, answer>>
    BY <2>4, Zenon DEF RecvOpen, RecvGlobal, RecvUnknown, RecvPing, OpenAnswer, RecvData, Fails, calls
  <2>5. ASSUME NEW e \in Ends, RecvAdjust(e) \/ RecvEOF(e) \/ RecvClose(e) \/ RecvRequest(e) \/ RecvReply(e)
        PROVE  conn' = conn /\ DOMAIN loop' = DOMAIN loop /\ UNCHANGED <<call, answer>>
    BY <2>5, Zenon DEF RecvAdjust, RecvEOF, RecvClose, RecvRequest, RecvReply, Fails, calls
  <2>6. ASSUME NEW e \in Ends, ReadFails(e) \/ DropAll(e) \/ CloseConn(e) \/ Accept(e) \/ Reject(e) \/ Stray(e)
        PROVE  /\ conn' = conn \/ conn' = [conn EXCEPT ![e] = "down"]
               /\ DOMAIN loop' = DOMAIN loop /\ UNCHANGED <<call, answer>>
    BY <2>6, ZenonT(60) DEF ReadFails, DropAll, CloseConn, Accept, Reject, Stray, calls
  <2>7. ASSUME NEW e \in Ends, NEW o \in Chans,
               \/ CloseWrite(e, o) \/ Close(e, o) \/ Serve(e, o)
               \/ \E x \in Streams : Writer(e, o, x)
               \/ \E x \in Buffered : Read(e, o, x)
        PROVE  conn' = conn /\ DOMAIN loop' = DOMAIN loop /\ UNCHANGED <<call, answer>>
    BY <2>7, ZenonT(60) DEF CloseWrite, Close, Serve, Writer, Reserve, WriteData, Read, calls
  <2> QED
    BY <2>1, <2>2, <2>3, <2>4, <2>5, <2>6, <2>7, Zenon DEF Next, Loop
<1> QED
  BY <1>1, Zenon DEF Frame

\* The applications' steps on a channel
LEMMA ChannelGood ==
    ASSUME Inv, Base, Tokens, NEW e \in Ends, NEW o \in Chans,
           \/ CloseWrite(e, o) \/ Close(e, o) \/ Serve(e, o)
           \/ \E x \in Streams : Writer(e, o, x)
           \/ \E x \in Buffered : Read(e, o, x)
    PROVE  Base' /\ Tokens'
<1>1. CASE CloseWrite(e, o) \/ Close(e, o) \/ Serve(e, o)
  BY <1>1, CloseWriteGood, CloseGood, ServeGood
<1>2. CASE \E x \in Streams : Writer(e, o, x)
  BY <1>2, ReserveGood, WriteDataGood DEF Writer
<1>3. CASE \E x \in Buffered : Read(e, o, x)
  BY <1>3, ReadGood
<1> QED
  BY <1>1, <1>2, <1>3

\* As long as there are no stray packets, everything is kept.
LEMMA NextGood == ASSUME Inv, Good, Next, \A e \in Ends : ~Stray(e) PROVE Good'
<1>0. Frame /\ Base /\ Tokens
  BY DEF Good
<1> SUFFICES Base' /\ Tokens'
  BY <1>0, FrameNext DEF Good
<1>1. CASE OpenChannel \/ \E o \in Chans : OpenReturns(o)
  BY <1>0, <1>1, OpenChannelGood, OpenReturnsGood
<1>2. CASE \E r \in Callers : Caller(r)
  BY <1>0, <1>2, CallBeginsGood, CallSendsGood, CallReturnsGood DEF Caller
<1>3. CASE GlobalBegins \/ GlobalSends \/ GlobalReturns \/ ServeGlobal
  BY <1>0, <1>3, GlobalGood
<1>4. CASE \E e \in Ends : Loop(e) \/ Accept(e) \/ Reject(e) \/ CloseConn(e)
  BY <1>0, <1>4, LoopGood, AcceptGood, RejectGood, CloseConnGood
<1>5. CASE \E e \in Ends, o \in Chans :
            \/ CloseWrite(e, o) \/ Close(e, o) \/ Serve(e, o)
            \/ \E x \in Streams : Writer(e, o, x)
            \/ \E x \in Buffered : Read(e, o, x)
  BY <1>0, <1>5, ChannelGood
<1> QED
  BY <1>1, <1>2, <1>3, <1>4, <1>5 DEF Next

LEMMA InitGood == ASSUME Init PROVE Good
<1>0. Opener \in Ends /\ Other \in Ends /\ Opener # Other /\ 1 \in Chans
  BY FirstChannel, MuxAssumption
<1>1. /\ wire = [e \in Ends |-> <<>>] /\ conn = [e \in Ends |-> "up"] /\ loop = [e \in Ends |-> "run"]
      /\ slots = [e \in Ends |-> [i \in 0 .. MaxChannels - 1 |-> 0]]
      /\ ch = [e \in Ends |-> [o \in Chans |-> FreeChannel]] /\ inChans = [e \in Ends |-> <<>>]
      /\ call = [r \in Callers |-> "idle"] /\ answer = [r \in Callers |-> r] /\ scene \in Scenarios
  BY DEF Init
<1>2. \A e \in Ends : wire[e] = <<>> /\ DOMAIN wire[e] = {} /\ inChans[e] = <<>> /\ DOMAIN inChans[e] = {}
  BY <1>1, EmptySeq
<1>3. \A e \in Ends, o \in Chans : ch[e][o] = FreeChannel /\ ~Listed(e, o)
  BY <1>1 DEF Listed, Chans
<1> PICK c : c = FreeChannel
  OBVIOUS
<1>4. /\ c.st = "free" /\ ~c.decided /\ ~c.closed /\ ~c.sentEOF /\ ~c.sentClose /\ ~c.eof /\ ~c.pend /\ c.pair = 0
      /\ c.msg = <<>> /\ c.reqs = <<>> /\ c.buf = [x \in Buffered |-> <<>>] /\ c.got = [x \in Buffered |-> <<>>]
      /\ c.left = [x \in Streams |-> 0] /\ c.hold = [x \in Streams |-> 0] /\ c.out = [x \in Streams |-> 0]
  BY DEF FreeChannel
<1>5. Places
  <2>1. \A x \in Buffered : Arrived(c, x) = <<>> /\ Counted(Arrived(c, x)) /\ c.got[x] \in Seq(Int)
    <3> SUFFICES ASSUME NEW x \in Buffered PROVE Arrived(c, x) = <<>> /\ Counted(Arrived(c, x)) /\ c.got[x] \in Seq(Int)
      OBVIOUS
    <3>1. c.got[x] = <<>> /\ c.buf[x] = <<>>
      BY <1>4
    <3>2. <<>> \o <<>> = <<>> /\ <<>> \in Seq(Int) /\ Len(<<>>) = 0 /\ <<>> = [i \in 1 .. 0 |-> i]
      OBVIOUS
    <3> QED
      BY ONLY <3>1, <3>2 DEF Arrived, Counted
  <2>2. \A e \in Ends : Settled(e, c)
    BY <1>4 DEF Settled
  <2>3. \A e \in Ends : Written(e, c)
    BY <1>4 DEF Written
  <2>4. \A e \in Ends : Came(e, c)
    BY <1>4, <2>1 DEF Came
  <2> QED
    BY <1>3, <2>2, <2>3, <2>4 DEF Places, Place
<1>6. Pairs
  BY <1>0, <1>3, <1>4 DEF Pairs
<1>7. Opens /\ Queue
  BY <1>0, <1>2 DEF Opens, Queue
<1>8. \A e \in Ends : Dir(e)
  <2> SUFFICES ASSUME NEW e \in Ends PROVE Dir(e)
    OBVIOUS
  <2>1. \A o, q \in Chans : ~Mate(e, o, q)
    BY <1>0, <1>3, <1>4 DEF Mate, Chans
  <2>2. Aimed(e) /\ Hushed(e) /\ Carried(e) /\ Kept(e) /\ Ended(e)
    BY <1>2, <1>3, <2>1 DEF Aimed, Hushed, Carried, Kept, Ended
  <2>3. Heard(e)
    BY <1>3, <1>4, <2>1 DEF Heard
  <2> QED
    BY <2>2, <2>3 DEF Dir
<1>9. Tokens
  <2>1. NoMsg /\ NoQue
    BY <1>0, <1>3, <1>4 DEF NoMsg, NoQue
  <2>2. None(wire[Other], "request") /\ None(wire[Opener], "reply")
    BY <1>0, <1>2 DEF None
  <2>3. Token
    BY ONLY <2>1, <2>2 DEF Token, None, One, NoQue
  <2>4. \A r \in Callers : call[r] = "idle" /\ answer[r] = r
    BY <1>1
  <2> QED
    BY ONLY <2>1, <2>3, <2>4 DEF Tokens
<1>10. Frame
  BY <1>1, Zenon DEF Frame
<1> QED
  BY <1>0, <1>5, <1>6, <1>7, <1>8, <1>9, <1>10 DEF Good, Base

\* What the invariant says of a stream that has ended.
LEMMA EndedAll ==
    ASSUME Inv, Base, NEW e \in Ends, NEW o \in Chans, NEW x \in Buffered, NEW c, c = ch[e][o],
           c.pair # 0, c.eof, Reads(e)
    PROVE  Len(Arrived(c, x)) = ch[Peer(e)][c.pair].out[x]
<1> PICK q : q = c.pair
  OBVIOUS
<1>0. Dir(e) /\ Pairs
  BY DEF Base, Ends
<1>1. q \in Chans /\ Mate(e, o, q) /\ (e = Opener => c.decided)
  <2>1. CASE e = Opener
    BY <1>0, <2>1 DEF Pairs, Mate
  <2>2. CASE e = Other
    BY <1>0, <2>2, MuxAssumption DEF Pairs, Mate
  <2> QED
    BY <2>1, <2>2 DEF Ends
<1>2. At(e, o).ph = "fin" /\ At(e, o).n[x] = Len(Arrived(c, x))
  BY <1>1, Zenon DEF At
<1>3. CASE ~Listed(e, o)
  BY <1>0, <1>1, <1>2, <1>3, Zenon DEF Dir, Ended
<1>4. CASE Listed(e, o)
  <2>1. PICK z : Carries(e, ch[Peer(e)][q].id, q, wire[e], ch[e][o].id, At(e, o), z) /\ Sender(Peer(e), q, z)
    BY <1>0, <1>1, <1>4 DEF Dir, Carried
  <2>2. After(At(e, o), z)
    BY <2>1, WireSeq, CarryEnd
  <2>3. z.n = At(e, o).n
    BY <1>2, <2>2, Zenon DEF After
  <2> QED
    BY <1>2, <2>1, <2>3 DEF Sender
<1> QED
  BY <1>3, <1>4

DInv == Inv /\ strays \in Nat /\ (strays = 0 => Good)

LEMMA DInvDelivered == DInv => DeliveredInOrder
<1> SUFFICES ASSUME Inv, Good, strays = 0 PROVE DeliveredInOrder
  BY ZenonT(60) DEF DInv, DeliveredInOrder
<1>0. Base /\ Tokens
  BY Zenon DEF Good
<1>1. ASSUME NEW e \in Ends, NEW o \in Chans, NEW x \in Buffered
      PROVE  LET c == ch[e][o]  s == c.got[x] \o c.buf[x]
                 w == ch[Peer(e)][c.pair]
             IN  /\ s = [i \in 1 .. Len(s) |-> i]
                 /\ c.pair # 0 /\ c.eof /\ loop[e] = "run" /\ conn[e] = "up" => Len(s) = w.out[x]
  <2> PICK c, s : c = ch[e][o] /\ s = Arrived(c, x)
    OBVIOUS
  <2>1. s = [i \in 1 .. Len(s) |-> i]
    <3>1. Place(e, c)
      BY <1>0, PlaceOf
    <3> QED
      BY <3>1 DEF Place, Came, Counted
  <2>2. c.pair # 0 /\ c.eof /\ loop[e] = "run" /\ conn[e] = "up" => Len(s) = ch[Peer(e)][c.pair].out[x]
    BY <1>0, EndedAll, Zenon DEF Reads
  <2>3. s = c.got[x] \o c.buf[x]
    BY DEF Arrived
  <2> QED
    BY <2>1, <2>2, <2>3, ZenonT(60)
<1>2. \A r \in Callers : answer[r] = r
  BY <1>0 DEF Tokens
<1> QED
  BY <1>1, <1>2 DEF DeliveredInOrder

\* Only a stray packet is counted, and then nothing is promised any more.
LEMMA StraysNext == ASSUME Next PROVE strays' = strays \/ \E e \in Ends : Stray(e)
<1>1. CASE OpenChannel \/ \E o \in Chans : OpenReturns(o)
  BY <1>1, ZenonT(60) DEF OpenChannel, OpenReturns, history
<1>2. CASE \E r \in Callers : Caller(r)
  BY <1>2 DEF Caller, CallBegins, CallSends, CallReturns, history
<1>3. CASE GlobalBegins \/ GlobalSends \/ GlobalReturns \/ ServeGlobal
  BY <1>3 DEF GlobalBegins, GlobalSends, GlobalReturns, ServeGlobal, history
<1>4. ASSUME NEW e \in Ends, RecvOpen(e) \/ RecvGlobal(e) \/ RecvUnknown(e) \/ RecvPing(e) \/ OpenAnswer(e) \/ RecvData(e)
      PROVE  strays' = strays
  BY <1>4, Zenon DEF RecvOpen, RecvGlobal, RecvUnknown, RecvPing, OpenAnswer, RecvData, history
<1>5. ASSUME NEW e \in Ends, RecvAdjust(e) \/ RecvEOF(e) \/ RecvClose(e) \/ RecvRequest(e) \/ RecvReply(e)
      PROVE  strays' = strays
  BY <1>5, Zenon DEF RecvAdjust, RecvEOF, RecvClose, RecvRequest, RecvReply, history
<1>6. ASSUME NEW e \in Ends, ReadFails(e) \/ DropAll(e) \/ CloseConn(e) \/ Accept(e) \/ Reject(e)
      PROVE  strays' = strays
  BY <1>6, Zenon DEF ReadFails, DropAll, CloseConn, Accept, Reject, history
<1>7. ASSUME NEW e \in Ends, NEW o \in Chans,
             \/ CloseWrite(e, o) \/ Close(e, o) \/ Serve(e, o)
             \/ \E x \in Streams : Writer(e, o, x)
             \/ \E x \in Buffered : Read(e, o, x)
      PROVE  strays' = strays
  BY <1>7, ZenonT(60) DEF CloseWrite, Close, Serve, Writer, Reserve, WriteData, Read, history
<1> QED
  BY <1>1, <1>2, <1>3, <1>4, <1>5, <1>6, <1>7, Zenon DEF Next, Loop

LEMMA DInvNext == DInv /\ [Next]_vars => DInv'
<1> SUFFICES ASSUME DInv, [Next]_vars PROVE DInv'
  OBVIOUS
<1>0. Inv'
  BY NextInv DEF DInv
<1>1. CASE UNCHANGED vars
  <2>1. Good => Good'
    <3> SUFFICES ASSUME Good PROVE Good'
      OBVIOUS
    <3>1. UNCHANGED <<scene, wire, conn, loop, slots, ch, inChans, calls>>
      BY <1>1 DEF vars, history
    <3>2. \A m \in Ends : Passes(m)
      BY <3>1 DEF Passes
    <3>3. Frame'
      BY <3>1 DEF Good, Frame, calls
    <3>4. Inv /\ Base /\ Tokens
      BY DEF DInv, Good
    <3>5. Base' /\ Tokens'
      BY <3>1, <3>2, <3>4, PassesGood
    <3> QED
      BY <3>3, <3>5 DEF Good
  <2> QED
    BY <1>0, <1>1, <2>1 DEF DInv, vars, history
<1>2. CASE \E e \in Ends : Stray(e)
  <2>1. strays' = strays + 1
    BY <1>2 DEF Stray
  <2> QED
    BY <1>0, <2>1 DEF DInv
<1>3. CASE Next /\ \A e \in Ends : ~Stray(e)
  <2>1. strays' = strays
    BY <1>3, StraysNext
  <2>2. Good => Good'
    BY <1>3, NextGood DEF DInv
  <2> QED
    BY <1>0, <2>1, <2>2 DEF DInv
<1> QED
  BY <1>1, <1>2, <1>3

\* For every number of channels, window and packet size, capacity of the Go
\* channels and every order in which loops and applications take their steps:
\* while no stray packets come in between, what an application reads on a stream
\* is what its peer wrote, from the first byte on and in order; a stream ends
\* only after all of it has come (channel.handlePacket, WriteExtended,
\* CloseWrite); and SendRequest returns the reply to its own request.
THEOREM DeliveredInOrderCorrect == Spec => []DeliveredInOrder
<1>1. Init => DInv
  <2>1. Init => strays \in Nat
    BY DEF Init
  <2> QED
    BY <2>1, InitInv, InitGood DEF DInv
<1> QED
  BY <1>1, DInvNext, DInvDelivered, PTL DEF Spec
=============================================================================
