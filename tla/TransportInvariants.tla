------------------------- MODULE TransportInvariants -------------------------
(***************************************************************************)
(* The inductive invariants of the transport: Inv behind PacketsInOrder,   *)
(* KeysInv behind KeysInStep and CountInv behind RekeyHasCause.  Every one *)
(* is a conjunction of what is true of one end, and of what is on the way  *)
(* to it.                                                                  *)
(***************************************************************************)
EXTENDS Transport

IsASeq(s) == \E S : s \in Seq(S)

-----------------------------------------------------------------------------
(* A run of packets, and the data it carries.  D is the set of the numbers *)
(* of data packets that an end writes.                                     *)

IsData(p) == p.t = "data"
NoData(s) == \A i \in DOMAIN s : ~IsData(s[i])

\* s carries exactly the data packets after number x and up to y, in order.
Holds(D, s, x, y) ==
    /\ x <= y
    /\ \A i \in DOMAIN s : IsData(s[i]) => s[i].n \in D /\ x < s[i].n /\ s[i].n <= y
    /\ \A i, j \in DOMAIN s : i < j /\ IsData(s[i]) /\ IsData(s[j]) => s[i].n < s[j].n
    /\ \A n \in D : x < n /\ n <= y => \E i \in DOMAIN s : IsData(s[i]) /\ s[i].n = n

\* got are the numbers of the data packets up to a, in order.
ReadUpTo(D, got, a) ==
    /\ \A i \in DOMAIN got : got[i] \in D /\ got[i] <= a
    /\ \A i, j \in DOMAIN got : i < j => got[i] < got[j]
    /\ \A n \in D : n <= a => \E i \in DOMAIN got : got[i] = n

-----------------------------------------------------------------------------
(* Inv: packets arrive in order                                            *)

HsFields == {"token", "sent", "inits", "werr", "queue", "sid", "strict", "kexDone", "wleft", "rleft"}
RlFields == {"pc", "first", "pkt", "done"}
KlFields == {"pc", "req", "sent", "script", "alg", "group", "skip"}
AppFields == {"pc", "wrote", "blocked", "got", "inq"}

Shape ==
    /\ scene \in Scenarios
    /\ DOMAIN wire = Ends /\ DOMAIN up = Ends
    /\ DOMAIN hs = Ends /\ DOMAIN rl = Ends /\ DOMAIN kl = Ends /\ DOMAIN app = Ends
    /\ \A e \in Ends :
        /\ DOMAIN hs[e] = HsFields /\ DOMAIN rl[e] = RlFields
        /\ DOMAIN kl[e] = KlFields /\ DOMAIN app[e] = AppFields
        /\ IsASeq(wire[e]) /\ IsASeq(hs[e].queue) /\ IsASeq(rl[e].pkt)
        /\ IsASeq(app[e].inq) /\ IsASeq(app[e].got) /\ app[e].wrote \in Nat

\* kexLoop reads from the connection only while readLoop waits for it to end an
\* exchange; between exchanges nothing is left of the last one.
Turns(e) ==
    /\ kl[e].pc = "kex" => rl[e].pc = "wait" /\ rl[e].done = "none"
    /\ rl[e].pc \in {"read", "push", "start"} => rl[e].done = "none"
    /\ kl[e].pc = "select" => kl[e].req = <<>> /\ ~kl[e].skip
    /\ rl[e].pc # "push" => NoData(rl[e].pkt)

\* Packets wait in the queue only during an exchange.
Queued(e) ==
    /\ hs[e].sent = <<>> => hs[e].queue = <<>>
    /\ \A i \in DOMAIN hs[e].queue : hs[e].queue[i].t # "init"

\* an init that announces a guessed packet
Announces(p) == p.t = "init" /\ p.body[1].follows

\* The guessed packet comes right behind the init that announces it.
Guessed(w) == \A i \in DOMAIN w : Announces(w[i]) => i + 1 \in DOMAIN w /\ w[i + 1].t = "kex"

\* an init was taken from the connection, the packet it announces not yet
GuessDue(e) ==
    \/ rl[e].pc = "start" /\ rl[e].pkt[1].body[1].follows
    \/ kl[e].pc = "kex" /\ (kl[e].skip \/ (kl[e].alg = <<>> /\ kl[e].req[1].follows))

\* What kexLoop skips as a wrong guess is one.
Guess(e) ==
    /\ Guessed(wire[e])
    /\ GuessDue(e) /\ up[e] => wire[e] # <<>> /\ wire[e][1].t = "kex"

Listening(e) == up[e] /\ rl[e].pc \notin {"err", "ended"}

\* What was read carries the data packets up to number c ...
Arrived(e, c) ==
    LET D == DataAt(Peer(e)) IN
    \E a, b \in Nat :
        /\ ReadUpTo(D, app[e].got, a)
        /\ Holds(D, app[e].inq, a, b) /\ Holds(D, rl[e].pkt, b, c)

\* ... the connection those that follow, and then comes the queue, up to the
\* last one written, unless the writer has given up.
Coming(e, c) ==
    LET f == Peer(e)  D == DataAt(f) IN
    \E d \in Nat :
        /\ Holds(D, wire[e], c, d)
        /\ up[f] => \E m \in Nat : /\ Holds(D, hs[f].queue, d, m)
                                   /\ m = app[f].wrote \/ ~HasWrite(f)

InOrder(e) == \E c \in Nat : Arrived(e, c) /\ (Listening(e) => Coming(e, c))

Inv == Shape /\ \A e \in Ends : Turns(e) /\ Queued(e) /\ Guess(e) /\ InOrder(e)

\* A writer that waits has something to write.
Waiting == \A e \in Ends : app[e].blocked => HasWrite(e)

-----------------------------------------------------------------------------
(* KeysInv: the two ends change keys in step                               *)

Modes == {"none", "stream", "cbc", "gcm", "chacha"}
CsFields == {"mode", "key", "cnt", "seq", "pending"}

\* a connectionState
Sound(c) == DOMAIN c = CsFields /\ c.mode \in Modes /\ c.cnt \in Nat /\ c.seq \in Nat

\* d has come as far as c under the same key
Same(c, d) == d.mode = c.mode /\ d.key = c.key /\ d.cnt = c.cnt /\ d.seq = c.seq

\* d is what c becomes over a packet of type t; newkeys may bring any key
Follows(c, d, t, strict) ==
    IF t = "newkeys" THEN d.cnt = 0 /\ d.seq = IF strict THEN 0 ELSE c.seq + 1
    ELSE d.mode = c.mode /\ d.key = c.key /\ d.cnt = c.cnt + 1 /\ d.seq = c.seq + 1

\* st are the states through which the packets of w take a reader at c to d.
Path(st, w, c, d, strict) ==
    /\ \A i \in 0 .. Len(w) : st[i].mode \in Modes /\ st[i].cnt \in Nat /\ st[i].seq \in Nat
    /\ Same(c, st[0]) /\ Same(st[Len(w)], d)
    /\ \A i \in 1 .. Len(w) : w[i].tag = Tag(st[i - 1]) /\ Follows(st[i - 1], st[i], w[i].t, strict)

Link(w, c, d, strict) == \E st : Path(st, w, c, d, strict)

Without(w, t) == \A i \in DOMAIN w : w[i].t # t

\* e reads nothing any more, or will know so when readLoop looks.
Broken(e) == rl[e].done = "err" \/ rl[e].pc \in {"err", "ended"}
Dead(e) == ~up[e] \/ Broken(e)

InKex(e) == kl[e].pc = "kex"

\* the exchange hash as e sees it
View(e) == Hash(e, kl[e].group)

\* e has sent and received every message of the method
Settled(e) == InKex(e) /\ kl[e].alg # <<>> /\ kl[e].script = <<>>

\* ... before and after its newkeys
Told(e) == Settled(e) /\ rd[e].pending = <<>>
Keyed(e) == Settled(e) /\ rd[e].pending # <<>>

\* what an exchange with hash h gives
Mode(h, dir) == FindAgreed(h[1], h[2]).cipher[dir]
Strict(h) == h[1].strict /\ h[2].strict
Key(h, dir) == [dir |-> dir, h |-> h]
OwnCookie(e, h) == h[IF e = "c" THEN 1 ELSE 2].cookie

Typed(e) ==
    /\ Sound(rd[e]) /\ Sound(wr[e]) /\ wr[e].pending = <<>>
    /\ hs[e].inits \in Nat /\ hs[e].strict \in BOOLEAN
    /\ \A i \in DOMAIN hs[e].queue : hs[e].queue[i].t \in {"data", "ignore", "disconnect"}

\* The last message of a method is the server's reply.
ScriptSound(e, sc) ==
    /\ IsASeq(sc)
    /\ IF e = "c" THEN sc # <<>> => sc[Len(sc)].dir = "in" /\ sc[Len(sc)].m \in Replies
       ELSE \A i \in DOMAIN sc : sc[i].m \in Replies => i = Len(sc)

\* An exchange is under way from the init that e has sent.
Begun(e) ==
    /\ InKex(e) \/ (kl[e].pc = "select" /\ kl[e].sent) => hs[e].sent # <<>>
    /\ InKex(e) /\ kl[e].alg # <<>> =>
        kl[e].alg = <<FindAgreed(ClientInit(e), ServerInit(e))>> /\ ScriptSound(e, kl[e].script)
    /\ InKex(e) /\ kl[e].alg = <<>> => kl[e].script = <<>>
    /\ hs[e].sent # <<>> => hs[e].sent[1].cookie = hs[e].inits
    /\ wr[e].key # Plain => OwnCookie(e, wr[e].key.h) \in Nat /\ OwnCookie(e, wr[e].key.h) <= hs[e].inits
    /\ wr[e].key # Plain /\ hs[e].sent # <<>> /\ rd[e].pending = <<>> =>
        OwnCookie(e, wr[e].key.h) < hs[e].inits

\* Where the keys in use come from, and the pending one.
Sourced(e) ==
    LET o == Peer(e) IN
    /\ rd[e].pending # <<>> => InKex(e) \/ Broken(e)
    /\ InKex(e) /\ rd[e].pending # <<>> =>
        /\ Settled(e) /\ ~kl[e].skip /\ hs[e].sid # <<>>
        /\ rd[e].pending = <<NewCipher(Mode(View(e), OutDir(o)), OutDir(o), View(e))>>
        /\ Mode(View(e), OutDir(o)) \in Modes
        /\ wr[e].key = Key(View(e), OutDir(e))
    /\ hs[e].sid = <<>> => wr[e].mode = "none" /\ wr[e].key = Plain
    /\ hs[e].sid # <<>> =>
        /\ wr[e].key = Key(wr[e].key.h, OutDir(e)) /\ wr[e].mode = Mode(wr[e].key.h, OutDir(e))
        /\ wr[e].mode # "none"
        /\ hs[e].strict <=> Strict(hs[e].sid)
    /\ ~Dead(e) /\ hs[e].sid = <<>> =>
        (hs[e].strict <=> InKex(e) /\ kl[e].alg # <<>> /\ Strict(View(e)))

Local(e) == Typed(e) /\ Begun(e) /\ Sourced(e)

\* What is on the way takes the reader to where the writer is.
Linked(e) ==
    LET o == Peer(e) IN
    /\ ~up[e] => wire[e] = <<>>
    /\ up[e] => Link(wire[e], rd[e], wr[o], hs[o].strict)
    /\ hs[o].sid = <<>> => Without(wire[e], "newkeys")

\* A newkeys on the way belongs to an exchange that its reader has not ended:
\* either the writer waits for the reader's, or it has had that and waits for
\* nothing, not even for the start of an exchange.
Once(e) ==
    LET w == wire[e]  o == Peer(e) IN
    ~Dead(e) =>
        /\ \A i, j \in DOMAIN w : w[i].t = "newkeys" /\ w[j].t = "newkeys" => i = j
        /\ \/ Without(w, "newkeys") \/ Dead(o)
           \/ Keyed(o) /\ \A i, j \in DOMAIN w : w[i].t = "newkeys" /\ i < j => w[j].t # "init"
           \/ /\ Keyed(e) /\ Without(wire[o], "init") /\ Without(wire[o], "newkeys")
              /\ rl[o].pc # "start" /\ ~InKex(o)

IsReply(p) == p.t = "kex" /\ p.body[1].m \in Replies

\* The server stands by the exchange with hash h.
Vouched(h) ==
    IF Without(wire["c"], "newkeys") THEN Dead("s") \/ (Told("s") /\ View("s") = h)
    ELSE wr["s"].key.h = h

\* A reply on the way to the client is of the server's present exchange; the
\* client is done only with such a reply; and its newkeys reach a server that
\* sees the exchange as the client did.
Agreement ==
    /\ ~Dead("c") => \A i \in DOMAIN wire["c"] : IsReply(wire["c"][i]) =>
        /\ Vouched(wire["c"][i].body[1].h)
        /\ \A k \in DOMAIN wire["c"] : wire["c"][k].t = "newkeys" => i < k
    /\ ~Dead("c") /\ Settled("c") => Vouched(View("c"))
    /\ ~Dead("s") /\ ~Without(wire["s"], "newkeys") => Settled("s") /\ wr["c"].key.h = View("s")

\* Both have the session id of the first exchange.
SameSession ==
    /\ hs["c"].sid # <<>> /\ hs["s"].sid # <<>> => hs["c"].sid = hs["s"].sid
    /\ \A e \in Ends : ~Dead(e) /\ hs[e].sid = <<>> /\ hs[Peer(e)].sid # <<>> =>
        ~Without(wire[e], "newkeys") /\ wr[Peer(e)].key.h = hs[Peer(e)].sid

\* A tag that e, at c, does not use again.
Used(e, c, tag) ==
    \/ tag.key = Plain
    \/ /\ c.key # Plain /\ OwnCookie(e, tag.key.h) \in Nat
       /\ OwnCookie(e, tag.key.h) < OwnCookie(e, c.key.h)
    \/ /\ tag.key = c.key
       /\ IF c.mode = "chacha" THEN tag.mac \in Nat /\ tag.mac < c.seq ELSE tag.at \in Nat /\ tag.at < c.cnt

FreshTags(e, c, w) ==
    /\ \A i \in DOMAIN w : Used(e, c, w[i].tag)
    /\ \A i, j \in DOMAIN w : i < j => w[i].tag # w[j].tag \/ w[i].tag.key = Plain

\* w ends within an exchange: behind its last init is no newkeys.
Open(w) == \E i \in DOMAIN w : w[i].t = "init" /\ \A k \in i .. Len(w) : w[k].t # "newkeys"

AloneIn(w, noise) ==
    \A i, j \in DOMAIN w :
        i < j /\ w[i].t = "init" /\ (\A k \in i .. j : w[k].t # "newkeys")
            => w[j].t = "kex" \/ (noise /\ w[j].t = "ignore")

Alone(e) ==
    LET w == wire[Peer(e)] IN
    ~Failing(e) => AloneIn(w, scene[e].noise) /\ (Open(w) => hs[e].sent # <<>> /\ rd[e].pending = <<>>)

Wired(e) == FreshTags(e, wr[e], wire[Peer(e)]) /\ Alone(e)

Stepped == (\A e \in Ends : Linked(e) /\ Once(e)) /\ Agreement /\ SameSession

Boxes == DOMAIN rd = Ends /\ DOMAIN wr = Ends

\* The inductive invariant behind KeysInStep.
KeysInv == Inv /\ Waiting /\ Boxes /\ (\A e \in Ends : Local(e) /\ Wired(e)) /\ Stepped

-----------------------------------------------------------------------------
(* CountInv: no exchange without a cause                                   *)

\* packets written by the two applications
Total == app["c"].wrote + app["s"].wrote

Idle(e) == hs[e].sent = <<>> \/ InKex(e)

\* the least cookie of an init that e has still to answer
Due(e) == IF Idle(e) THEN hs[e].inits + 1 ELSE hs[e].inits

\* e is ahead of its peer by the init that it has sent and got no answer to.
Ahead(e) ==
    LET o == Peer(e) IN
    hs[e].inits <= hs[o].inits + 1 /\ (Idle(e) => hs[e].inits <= hs[o].inits)

CookieIn(e, n) == n \in Nat /\ Due(e) <= n /\ n <= hs[Peer(e)].inits

\* The inits on the way are those that e has not seen, oldest first.
InitsDue(e) ==
    LET w == wire[e] IN
    /\ \A i \in DOMAIN w : w[i].t = "init" => CookieIn(e, w[i].body[1].cookie)
    /\ \A i, j \in DOMAIN w : i < j /\ w[i].t = "init" /\ w[j].t = "init"
            => w[i].body[1].cookie < w[j].body[1].cookie
    /\ rl[e].pc = "start" =>
        /\ CookieIn(e, rl[e].pkt[1].body[1].cookie)
        /\ \A i \in DOMAIN w : w[i].t = "init" => rl[e].pkt[1].body[1].cookie < w[i].body[1].cookie

\* e has an init of its peer in hand.
Midway(e) == InKex(e) \/ rl[e].pc = "start"

\* The init of an exchange of e that its peer has not ended is on the way or in
\* the peer's hand.
InitSeen(e) ==
    LET o == Peer(e) IN
    hs[e].sent # <<>> /\ rd[e].pending = <<>> =>
        Dead(o) \/ Open(wire[o]) \/ (Without(wire[o], "newkeys") /\ Midway(o))

PacketTypes == {"init", "kex", "newkeys", "extinfo", "data", "ignore", "disconnect"}

\* A message of a method comes behind an init, and no newkeys between.
Framed(w, i) == \E j \in DOMAIN w : j < i /\ w[j].t = "init" /\ \A k \in j .. i : w[k].t # "newkeys"
MethodsFramed(e) ==
    LET w == wire[e] IN
    \A i \in DOMAIN w :
        /\ w[i].t \in PacketTypes
        /\ w[i].t = "kex" => Dead(e) \/ Framed(w, i) \/ (Midway(e) /\ \A k \in 1 .. i : w[k].t # "newkeys")

\* The ext-info comes right behind newkeys, when the count of packets read starts
\* anew: it does not ask for an exchange.
ExtUncounted(e) ==
    LET w == wire[e] IN
    \A i \in DOMAIN w : w[i].t = "extinfo" =>
        \/ i - 1 \in DOMAIN w /\ w[i - 1].t = "newkeys"
        \/ /\ i = 1
           /\ \/ hs[e].rleft > 0 \/ rl[e].pc \in {"err", "ended"}
              \/ rl[e].pc = "wait" /\ rl[e].done # "none"

\* Ignored packets are not counted: readLoop is not at work where they are read.
StrictWaits(e) ==
    /\ hs[e].strict /\ ~hs[e].kexDone => rl[e].pc \in {"wait", "err", "ended"}
    /\ rl[e].done \notin {"none", "err"} => hs[e].kexDone

\* e has got on as far as its peer, and nothing was written for the next exchange.
Spent(e) == hs[Peer(e)].inits <= hs[e].inits /\ hs[e].inits > Total

Causes(e) ==
    LET w == wire[e] IN
    /\ hs[e].inits <= 1 + Total
    /\ hs[e].sent = <<>> /\ hs[e].token => ~Spent(e)
    /\ hs[e].queue # <<>> => ~Spent(e)
    /\ ~Dead(e) /\ hs[e].sent = <<>> /\ ~Without(w, "data") => ~Spent(e)
    /\ ~Dead(e) /\ (\E i, j \in DOMAIN w : i < j /\ w[i].t = "newkeys" /\ w[j].t = "data") => ~Spent(e)

\* e is in an exchange when newkeys is on the way to it
NewkeysDue(e) ==
    ~Dead(e) /\ ~Without(wire[e], "newkeys") => hs[e].sent # <<>> /\ hs[e].inits <= hs[Peer(e)].inits

Reader(e) == Ahead(e) /\ InitsDue(e) /\ MethodsFramed(e) /\ ExtUncounted(e) /\ Causes(e) /\ NewkeysDue(e)

Counted(e) == Reader(e) /\ InitSeen(e) /\ StrictWaits(e) /\ hs[e].rleft \in Nat

CountInv == KeysInv /\ \A e \in Ends : Counted(e)
=============================================================================
