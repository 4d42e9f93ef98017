--------------------------- MODULE TransportProofs ---------------------------
(***************************************************************************)
(* Packets arrive in order, the two ends change keys in step, and no       *)
(* exchange is without a cause (Transport): for every capacity, threshold  *)
(* and scenario.  The invariants are those of TransportInvariants.         *)
(*                                                                         *)
(* Inv is the invariant behind the order of packets.  KeysInv adds to it,  *)
(* for each end, Local: where its keys come from and how far an exchange   *)
(* is; Wired: what it has on the way; and Stepped: how what is on the way, *)
(* the two ends' keys and their views of an exchange fit together.  A step *)
(* of an end is a Move, which is all that the other end has to know of it. *)
(* CountInv adds Counted: which inits are on the way, and what was written *)
(* for every one.                                                          *)
(***************************************************************************)
EXTENDS TransportInvariants, TLAPS, WellFoundedInduction

LEMMA ConcatSeq ==
    ASSUME NEW s, NEW t, IsASeq(s), IsASeq(t)
    PROVE  /\ IsASeq(s \o t) /\ Len(s) \in Nat /\ Len(t) \in Nat
           /\ DOMAIN s = 1 .. Len(s) /\ DOMAIN t = 1 .. Len(t)
           /\ Len(s \o t) = Len(s) + Len(t) /\ DOMAIN (s \o t) = 1 .. Len(s) + Len(t)
           /\ \A i \in 1 .. Len(s) : (s \o t)[i] = s[i]
           /\ \A i \in 1 .. Len(t) : (s \o t)[Len(s) + i] = t[i]
<1>1. PICK S, T : s \in Seq(S) /\ t \in Seq(T)
  BY DEF IsASeq
<1> PICK U : U = S \cup T
  OBVIOUS
<1>2. s \in Seq(U) /\ t \in Seq(U)
  BY <1>1
<1>3. s \o t \in Seq(U)
  BY <1>2
<1> QED
  BY <1>2, <1>3 DEF IsASeq

LEMMA TailSeq ==
    ASSUME NEW s, IsASeq(s), s # <<>>
    PROVE  /\ IsASeq(Tail(s)) /\ Head(s) = s[1]
           /\ Len(s) \in Nat \ {0} /\ DOMAIN s = 1 .. Len(s)
           /\ Len(Tail(s)) = Len(s) - 1 /\ DOMAIN Tail(s) = 1 .. Len(s) - 1
           /\ \A i \in 1 .. Len(s) - 1 : Tail(s)[i] = s[i + 1]
<1>1. PICK S : s \in Seq(S)
  BY DEF IsASeq
<1>2. Tail(s) \in Seq(S)
  BY <1>1
<1> QED
  BY <1>1, <1>2 DEF IsASeq

LEMMA ShortSeq ==
    /\ IsASeq(<<>>) /\ DOMAIN <<>> = {} /\ Len(<<>>) = 0
    /\ \A p : IsASeq(<<p>>) /\ Len(<<p>>) = 1 /\ DOMAIN <<p>> = {1} /\ <<p>>[1] = p
    /\ \A p, q : /\ IsASeq(<<p, q>>) /\ Len(<<p, q>>) = 2 /\ DOMAIN <<p, q>> = {1, 2}
                 /\ <<p, q>>[1] = p /\ <<p, q>>[2] = q
<1>1. IsASeq(<<>>)
  <2>1. <<>> \in Seq({})
    OBVIOUS
  <2> QED
    BY <2>1 DEF IsASeq
<1>2. ASSUME NEW p PROVE IsASeq(<<p>>)
  <2>1. <<p>> \in Seq({p})
    OBVIOUS
  <2> QED
    BY <2>1 DEF IsASeq
<1>3. ASSUME NEW p, NEW q PROVE IsASeq(<<p, q>>)
  <2>1. <<p, q>> \in Seq({p, q})
    OBVIOUS
  <2> QED
    BY <2>1, Zenon DEF IsASeq
<1>4. DOMAIN <<>> = {} /\ Len(<<>>) = 0
  OBVIOUS
<1>5. \A p : Len(<<p>>) = 1 /\ DOMAIN <<p>> = {1} /\ <<p>>[1] = p
  OBVIOUS
<1>6. \A p, q : Len(<<p, q>>) = 2 /\ DOMAIN <<p, q>> = {1, 2} /\ <<p, q>>[1] = p /\ <<p, q>>[2] = q
  OBVIOUS
<1> QED
  BY <1>1, <1>2, <1>3, <1>4, <1>5, <1>6, Zenon

\* Writing adds a tag to each packet and changes nothing else of it.
LEMMA WriteAllOut ==
    ASSUME NEW c, NEW ps, NEW strict, IsASeq(ps)
    PROVE  LET out == WriteAll(c, ps, strict).out IN
           /\ IsASeq(out) /\ Len(ps) \in Nat /\ Len(out) = Len(ps)
           /\ DOMAIN ps = 1 .. Len(ps) /\ DOMAIN out = 1 .. Len(ps)
           /\ \A i \in 1 .. Len(ps) : out[i].t = ps[i].t /\ out[i].n = ps[i].n /\ out[i].body = ps[i].body
<1>0. PICK state : state = States(c, ps, strict)
  OBVIOUS
<1>1. WriteAll(c, ps, strict).out = [i \in 1 .. Len(ps) |-> WriteOne(state[i - 1], ps[i], strict).out]
  BY <1>0 DEF WriteAll
<1>2. Len(ps) \in Nat /\ DOMAIN ps = 1 .. Len(ps)
  BY DEF IsASeq
<1>3. \A i \in 1 .. Len(ps) : LET p == WriteOne(state[i - 1], ps[i], strict).out IN
        p.t = ps[i].t /\ p.n = ps[i].n /\ p.body = ps[i].body
  BY DEF WriteOne
<1>4. PICK S : S = {WriteOne(state[i - 1], ps[i], strict).out : i \in 1 .. Len(ps)}
  OBVIOUS
<1>5. WriteAll(c, ps, strict).out \in Seq(S)
  BY <1>1, <1>2, <1>4
<1>6. Len(WriteAll(c, ps, strict).out) = Len(ps) /\ DOMAIN WriteAll(c, ps, strict).out = 1 .. Len(ps)
  BY <1>1, <1>2, <1>5
<1> QED
  BY <1>1, <1>2, <1>3, <1>5, <1>6 DEF IsASeq

-----------------------------------------------------------------------------
(* Runs of packets, and the data they carry                                *)

LEMMA HoldsNothing ==
    ASSUME NEW D \in SUBSET Nat, NEW x \in Nat, NEW s, NoData(s)
    PROVE  Holds(D, s, x, x)
  BY DEF Holds, NoData

LEMMA HoldsNoData ==
    ASSUME NEW D \in SUBSET Nat, NEW x \in Nat, NEW y \in Nat, NEW s, NEW t, NoData(s), NoData(t), Holds(D, s, x, y)
    PROVE  Holds(D, t, x, y)
  BY DEF Holds, NoData

LEMMA HoldsConcat ==
    ASSUME NEW D \in SUBSET Nat, NEW x \in Nat, NEW y \in Nat, NEW z \in Nat,
           NEW s, NEW t, IsASeq(s), IsASeq(t), Holds(D, s, x, y), Holds(D, t, y, z)
    PROVE  Holds(D, s \o t, x, z)
<1> PICK u : u = s \o t
  OBVIOUS
<1> PICK k, l : k = Len(s) /\ l = Len(t)
  OBVIOUS
<1>1. /\ k \in Nat /\ l \in Nat /\ DOMAIN s = 1 .. k /\ DOMAIN t = 1 .. l /\ DOMAIN u = 1 .. k + l
      /\ \A i \in 1 .. k : u[i] = s[i]
      /\ \A i \in 1 .. l : u[k + i] = t[i]
  BY ConcatSeq
<1>2. \A i \in DOMAIN u : \/ i \in 1 .. k /\ u[i] = s[i]
                          \/ i - k \in 1 .. l /\ u[i] = t[i - k]
  BY <1>1
<1>3. ASSUME NEW i \in DOMAIN u, IsData(u[i]) PROVE u[i].n \in D /\ x < u[i].n /\ u[i].n <= z
  <2>0. x <= y /\ y <= z
    BY DEF Holds
  <2>1. CASE i \in 1 .. k /\ u[i] = s[i]
    <3>1. PICK m \in D : m = s[i].n /\ x < m /\ m <= y
      BY <1>1, <1>3, <2>1 DEF Holds
    <3>2. m \in Nat
      OBVIOUS
    <3> QED
      BY <2>0, <2>1, <3>1, <3>2
  <2>2. CASE i - k \in 1 .. l /\ u[i] = t[i - k]
    <3>1. PICK m \in D : m = t[i - k].n /\ y < m /\ m <= z
      BY <1>1, <1>3, <2>2 DEF Holds
    <3>2. m \in Nat
      OBVIOUS
    <3> QED
      BY <2>0, <2>2, <3>1, <3>2
  <2> QED
    BY <1>2, <2>1, <2>2
<1>4. ASSUME NEW i \in DOMAIN u, NEW j \in DOMAIN u, i < j, IsData(u[i]), IsData(u[j])
      PROVE  u[i].n < u[j].n
  <2>1. CASE i \in 1 .. k /\ j \in 1 .. k
    BY <1>1, <1>4, <2>1 DEF Holds
  <2>2. CASE i - k \in 1 .. l /\ j - k \in 1 .. l
    <3>0. PICK m \in 1 .. l, q \in 1 .. l : m = i - k /\ q = j - k
      BY <2>2
    <3>1. u[i] = t[m] /\ u[j] = t[q] /\ m < q
      <4>1. i = k + m /\ j = k + q
        BY <1>1, <3>0, SMTT(30)
      <4> QED
        BY <1>1, <1>4, <4>1
    <3>2. IsData(t[m]) /\ IsData(t[q])
      BY <1>4, <3>1
    <3>3. t[m].n < t[q].n
      BY <1>1, <3>1, <3>2 DEF Holds
    <3> QED
      BY <3>1, <3>3
  <2>3. CASE i \in 1 .. k /\ j - k \in 1 .. l
    <3>0. PICK m \in 1 .. l : m = j - k
      BY <2>3
    <3>1. u[i] = s[i] /\ u[j] = t[m]
      <4>1. j = k + m
        BY <1>1, <3>0
      <4> QED
        BY <1>1, <2>3, <4>1
    <3>2. IsData(s[i]) /\ IsData(t[m])
      BY <1>4, <3>1
    <3>3. s[i].n \in Nat /\ s[i].n <= y
      BY <1>1, <2>3, <3>2 DEF Holds
    <3>4. t[m].n \in Nat /\ y < t[m].n
      BY <1>1, <3>2 DEF Holds
    <3>5. s[i].n < t[m].n
      BY <3>3, <3>4
    <3> QED
      BY <3>1, <3>5
  <2>4. \/ i \in 1 .. k /\ j \in 1 .. k
        \/ i - k \in 1 .. l /\ j - k \in 1 .. l
        \/ i \in 1 .. k /\ j - k \in 1 .. l
    <3>1. i \in 1 .. k + l /\ j \in 1 .. k + l /\ i < j /\ k \in Nat /\ l \in Nat
      BY <1>1, <1>4
    <3> QED
      BY ONLY <3>1
  <2> QED
    BY <2>1, <2>2, <2>3, <2>4
<1>5. ASSUME NEW n \in D, x < n, n <= z
      PROVE  \E i \in DOMAIN u : IsData(u[i]) /\ u[i].n = n
  <2>1. CASE n <= y
    BY <1>1, <1>5, <2>1, SMTT(30) DEF Holds
  <2>2. CASE y < n
    <3>1. PICK i \in 1 .. l : IsData(t[i]) /\ t[i].n = n
      BY <1>1, <1>5, <2>2 DEF Holds
    <3>2. k + i \in DOMAIN u /\ u[k + i] = t[i]
      BY <1>1
    <3> QED
      BY <3>1, <3>2
  <2> QED
    BY <1>5, <2>1, <2>2
<1>6. x <= z
  BY DEF Holds
<1>7. Holds(D, u, x, z)
  BY <1>3, <1>4, <1>5, <1>6 DEF Holds
<1> QED
  BY <1>7

\* The first packet moves on from w to the end of s, where it is called h.
LEMMA HoldsMove ==
    ASSUME NEW D \in SUBSET Nat, NEW x \in Nat, NEW y \in Nat, NEW z \in Nat, NEW w, IsASeq(w), w # <<>>,
           NEW h, h.t = w[1].t, h.n = w[1].n, Holds(D, w, y, z)
    PROVE  \E v \in Nat : Holds(D, <<h>>, y, v) /\ Holds(D, Tail(w), v, z)
<1> PICK u, l : u = Tail(w) /\ l = Len(w)
  OBVIOUS
<1>1. /\ l \in Nat \ {0} /\ DOMAIN w = 1 .. l /\ DOMAIN u = 1 .. l - 1
      /\ \A i \in 1 .. l - 1 : u[i] = w[i + 1]
  BY TailSeq
<1>2. DOMAIN <<h>> = {1} /\ <<h>>[1] = h
  BY ShortSeq
<1>3. CASE IsData(h)
  <2>0. 1 \in DOMAIN w /\ IsData(w[1])
    BY <1>1, <1>3 DEF IsData
  <2>1. h.n \in D /\ h.n \in Nat /\ y < h.n /\ h.n <= z
    BY <2>0 DEF Holds
  <2>2. ASSUME NEW n \in D, y < n, n <= z, n # h.n PROVE h.n < n /\ \E i \in DOMAIN u : IsData(u[i]) /\ u[i].n = n
    <3>1. PICK i \in DOMAIN w : IsData(w[i]) /\ w[i].n = n
      BY <2>2 DEF Holds
    <3>2. i # 1 /\ i - 1 \in DOMAIN u /\ u[i - 1] = w[i] /\ 1 < i
      BY <1>1, <2>2, <3>1
    <3>3. w[1].n < w[i].n
      BY <2>0, <3>1, <3>2 DEF Holds
    <3> QED
      BY <3>1, <3>2, <3>3
  <2>3. Holds(D, <<h>>, y, h.n)
    <3>1. ASSUME NEW n \in D, y < n, n <= h.n, n # h.n PROVE FALSE
      <4>1. n \in Nat /\ n <= z
        BY <2>1, <3>1
      <4> QED
        BY <2>1, <2>2, <3>1, <4>1
    <3> QED
      BY <1>2, <1>3, <2>1, <3>1 DEF Holds
  <2>4. Holds(D, u, h.n, z)
    <3>1. \A i \in DOMAIN u : i + 1 \in DOMAIN w /\ 1 < i + 1 /\ u[i] = w[i + 1]
      BY <1>1
    <3>2. \A i \in DOMAIN u : IsData(u[i]) => u[i].n \in D /\ h.n < u[i].n /\ u[i].n <= z
      BY <2>0, <3>1 DEF Holds
    <3>3. \A i, j \in DOMAIN u : i < j /\ IsData(u[i]) /\ IsData(u[j]) => u[i].n < u[j].n
      BY <1>1, <3>1 DEF Holds
    <3>4. ASSUME NEW n \in D, h.n < n, n <= z PROVE \E i \in DOMAIN u : IsData(u[i]) /\ u[i].n = n
      <4>1. n \in Nat /\ y < n /\ n # h.n
        BY <2>1, <3>4
      <4> QED
        BY <2>2, <3>4, <4>1
    <3> QED
      BY <2>1, <3>2, <3>3, <3>4 DEF Holds
  <2> QED
    BY <2>1, <2>3, <2>4
<1>4. CASE ~IsData(h)
  <2>1. NoData(<<h>>)
    BY <1>2, <1>4 DEF NoData
  <2>2. ~IsData(w[1])
    BY <1>4 DEF IsData
  <2>3. \A i \in DOMAIN u : i + 1 \in DOMAIN w /\ u[i] = w[i + 1]
    BY <1>1
  <2>4. \A n \in D : y < n /\ n <= z => \E i \in DOMAIN u : IsData(u[i]) /\ u[i].n = n
    <3> SUFFICES ASSUME NEW n \in D, y < n, n <= z PROVE \E i \in DOMAIN u : IsData(u[i]) /\ u[i].n = n
      OBVIOUS
    <3>1. PICK i \in DOMAIN w : IsData(w[i]) /\ w[i].n = n
      BY DEF Holds
    <3>2. i # 1 /\ i - 1 \in DOMAIN u /\ u[i - 1] = w[i]
      BY <1>1, <2>2, <3>1
    <3> QED
      BY <3>1, <3>2
  <2>5. \A i, j \in DOMAIN u : i < j /\ IsData(u[i]) /\ IsData(u[j]) => u[i].n < u[j].n
    BY <1>1, <2>3 DEF Holds
  <2>6. Holds(D, u, y, z)
    BY <2>3, <2>4, <2>5 DEF Holds
  <2> QED
    BY <2>1, <2>6, HoldsNothing
<1> QED
  BY <1>3, <1>4

\* A copy carries what the original does.
LEMMA HoldsCopy ==
    ASSUME NEW D \in SUBSET Nat, NEW x \in Nat, NEW y \in Nat, NEW s, NEW t, DOMAIN s = DOMAIN t,
           \A i \in DOMAIN s : t[i].t = s[i].t /\ t[i].n = s[i].n, Holds(D, s, x, y)
    PROVE  Holds(D, t, x, y)
  BY DEF Holds, IsData

LEMMA ReadMove ==
    ASSUME NEW D \in SUBSET Nat, NEW a \in Nat, NEW v \in Nat, NEW h, NEW got, IsASeq(got),
           ReadUpTo(D, got, a), Holds(D, <<h>>, a, v)
    PROVE  ReadUpTo(D, IF IsData(h) THEN Append(got, h.n) ELSE got, v)
<1>0. DOMAIN <<h>> = {1} /\ <<h>>[1] = h /\ a <= v
  BY ShortSeq DEF Holds
<1>1. CASE IsData(h)
  <2> PICK m, l : m = h.n /\ l = Len(got)
    OBVIOUS
  <2>1. m \in D /\ m \in Nat /\ a < m /\ m <= v
    BY <1>0, <1>1 DEF Holds
  <2>2. \A n \in D : a < n /\ n <= v => n = m
    BY <1>0, <1>1 DEF Holds
  <2> PICK u : u = Append(got, m)
    OBVIOUS
  <2>3. /\ l \in Nat /\ DOMAIN got = 1 .. l /\ DOMAIN u = 1 .. l + 1
        /\ u[l + 1] = m /\ \A i \in 1 .. l : u[i] = got[i]
    <3>1. PICK S : got \in Seq(S)
      BY DEF IsASeq
    <3>2. got \in Seq(S \cup {m}) /\ m \in S \cup {m}
      BY <3>1
    <3> QED
      BY <3>2
  <2>4. \A i \in DOMAIN got : got[i] \in D /\ got[i] \in Nat /\ got[i] <= a
    BY DEF ReadUpTo
  <2>5. \A i \in DOMAIN u : u[i] \in D /\ u[i] <= v
    BY <1>0, <2>1, <2>3, <2>4
  <2>6. \A i, j \in DOMAIN u : i < j => u[i] < u[j]
    <3> SUFFICES ASSUME NEW i \in DOMAIN u, NEW j \in DOMAIN u, i < j PROVE u[i] < u[j]
      OBVIOUS
    <3>1. CASE j = l + 1
      BY <2>1, <2>3, <2>4, <3>1
    <3>2. CASE j \in 1 .. l
      BY <2>3, <3>2 DEF ReadUpTo
    <3> QED
      BY <2>3, <3>1, <3>2
  <2>7. ASSUME NEW n \in D, n <= v PROVE \E i \in DOMAIN u : u[i] = n
    <3>1. CASE n <= a
      <4>1. PICK i \in DOMAIN got : got[i] = n
        BY <3>1 DEF ReadUpTo
      <4> QED
        BY <2>3, <4>1
    <3>2. CASE a < n
      BY <2>2, <2>3, <2>7, <3>2
    <3> QED
      BY <3>1, <3>2
  <2>8. ReadUpTo(D, u, v)
    BY <2>5, <2>6, <2>7 DEF ReadUpTo
  <2> QED
    BY <1>1, <2>8
<1>2. CASE ~IsData(h)
  <2>1. \A n \in D : ~(a < n /\ n <= v)
    BY <1>0, <1>2 DEF Holds
  <2>2. \A n \in D : n <= v => n <= a
    BY <2>1
  <2>3. \A i \in DOMAIN got : got[i] \in D /\ got[i] \in Nat /\ got[i] <= a
    BY DEF ReadUpTo
  <2>4. \A i \in DOMAIN got : got[i] <= v
    BY <1>0, <2>3
  <2>5. ReadUpTo(D, got, v)
    BY <2>2, <2>3, <2>4 DEF ReadUpTo
  <2> QED
    BY <1>2, <2>5
<1> QED
  BY <1>1, <1>2

-----------------------------------------------------------------------------
(* Two ends                                                                *)

LEMMA PeerFacts ==
    ASSUME NEW e \in Ends
    PROVE  /\ Peer(e) \in Ends /\ Peer(e) # e /\ Peer(Peer(e)) = e
           /\ \A f \in Ends : f = e \/ f = Peer(e)
  BY DEF Peer, Ends

LEMMA DataTyped ==
    ASSUME Shape, NEW f \in Ends
    PROVE  Len(scene[f].write) \in Nat /\ DataAt(f) \in SUBSET Nat
<1>1. scene[f].write \in Seq({"data", "ignore", "disconnect"})
  BY ScenariosAssumption DEF Shape
<1>2. Len(scene[f].write) \in Nat
  BY <1>1
<1> QED
  BY <1>2 DEF DataAt

Copy(out, ps) ==
    /\ IsASeq(out) /\ DOMAIN out = DOMAIN ps
    /\ \A i \in DOMAIN ps : out[i].t = ps[i].t /\ out[i].n = ps[i].n /\ out[i].body = ps[i].body

\* ps are put on the wire to f, if f reads it still.
Appended(f, ps) == \E out : Copy(out, ps) /\ wire'[f] = IF up[f] THEN wire[f] \o out ELSE wire[f]

LEMMA PutAppends ==
    ASSUME Shape, NEW e \in Ends, NEW ps, IsASeq(ps), Put(e, ps)
    PROVE  DOMAIN wire' = Ends /\ wire'[e] = wire[e] /\ Appended(Peer(e), ps)
<1> PICK out : out = WriteAll(wr[e], ps, hs[e].strict).out
  OBVIOUS
<1>1. Copy(out, ps)
  BY WriteAllOut DEF Copy
<1>2. wire' = IF up[Peer(e)] THEN [wire EXCEPT ![Peer(e)] = @ \o out] ELSE wire
  BY DEF Put
<1>3. DOMAIN wire' = Ends /\ wire'[e] = wire[e]
      /\ wire'[Peer(e)] = IF up[Peer(e)] THEN wire[Peer(e)] \o out ELSE wire[Peer(e)]
  BY <1>2, PeerFacts DEF Shape
<1> QED
  BY <1>1, <1>3 DEF Appended

\* What a step of e leaves alone, and the shape of the rest.
Frame(e) ==
    LET o == Peer(e) IN
    /\ scene' = scene
    /\ DOMAIN wire' = Ends /\ DOMAIN up' = Ends
    /\ DOMAIN hs' = Ends /\ DOMAIN rl' = Ends /\ DOMAIN kl' = Ends /\ DOMAIN app' = Ends
    /\ hs'[o] = hs[o] /\ rl'[o] = rl[o] /\ kl'[o] = kl[o] /\ app'[o] = app[o] /\ up'[o] = up[o]
    /\ DOMAIN hs'[e] = HsFields /\ DOMAIN rl'[e] = RlFields
    /\ DOMAIN kl'[e] = KlFields /\ DOMAIN app'[e] = AppFields
    /\ IsASeq(wire'[e]) /\ IsASeq(hs'[e].queue) /\ IsASeq(rl'[e].pkt)
    /\ IsASeq(app'[e].inq) /\ IsASeq(app'[e].got) /\ app'[e].wrote \in Nat

LEMMA GuessedConcat ==
    ASSUME NEW w, NEW ps, NEW out, IsASeq(w), IsASeq(ps), Guessed(w), Guessed(ps), Copy(out, ps)
    PROVE  /\ IsASeq(w \o out) /\ Guessed(w \o out)
           /\ w # <<>> => w \o out # <<>> /\ (w \o out)[1] = w[1]
<1> PICK u, k, l : u = w \o out /\ k = Len(w) /\ l = Len(out)
  OBVIOUS
<1>1. /\ IsASeq(u) /\ k \in Nat /\ l \in Nat /\ DOMAIN w = 1 .. k /\ DOMAIN out = 1 .. l /\ DOMAIN u = 1 .. k + l
      /\ \A i \in 1 .. k : u[i] = w[i]
      /\ \A i \in 1 .. l : u[k + i] = out[i]
  BY ConcatSeq DEF Copy
<1>2. ASSUME NEW i \in DOMAIN u, Announces(u[i]) PROVE i + 1 \in DOMAIN u /\ u[i + 1].t = "kex"
  <2>1. CASE i \in 1 .. k
    <3>1. i + 1 \in 1 .. k /\ w[i + 1].t = "kex"
      BY <1>1, <1>2, <2>1 DEF Guessed
    <3> QED
      BY <1>1, <3>1
  <2>2. CASE i - k \in 1 .. l
    <3>1. i - k \in DOMAIN ps /\ u[i] = out[i - k] /\ out[i - k].t = ps[i - k].t /\ out[i - k].body = ps[i - k].body
      BY <1>1, <2>2 DEF Copy
    <3>2. Announces(ps[i - k])
      BY <1>2, <3>1 DEF Announces
    <3>3. i - k + 1 \in DOMAIN ps /\ ps[i - k + 1].t = "kex"
      BY <3>1, <3>2 DEF Guessed
    <3>4. i - k + 1 \in 1 .. l /\ out[i - k + 1].t = "kex"
      BY <1>1, <3>3 DEF Copy
    <3> QED
      BY <1>1, <3>4
  <2> QED
    BY <1>1, <2>1, <2>2
<1>3. ASSUME w # <<>> PROVE u # <<>> /\ u[1] = w[1]
  <2>1. k >= 1
    BY <1>3, TailSeq
  <2>2. 1 \in DOMAIN u
    BY <1>1, <2>1
  <2> QED
    BY <1>1, <2>1, <2>2
<1> QED
  BY <1>1, <1>2, <1>3 DEF Guessed

LEMMA GuessedTail ==
    ASSUME NEW w, IsASeq(w), w # <<>>, Guessed(w)
    PROVE  /\ IsASeq(Tail(w)) /\ Guessed(Tail(w))
           /\ Announces(w[1]) => Tail(w) # <<>> /\ Tail(w)[1].t = "kex"
<1> PICK u, l : u = Tail(w) /\ l = Len(w)
  OBVIOUS
<1>1. /\ IsASeq(u) /\ l \in Nat \ {0} /\ DOMAIN w = 1 .. l /\ DOMAIN u = 1 .. l - 1
      /\ \A i \in 1 .. l - 1 : u[i] = w[i + 1]
  BY TailSeq
<1>2. ASSUME NEW i \in DOMAIN u, Announces(u[i]) PROVE i + 1 \in DOMAIN u /\ u[i + 1].t = "kex"
  <2>1. i + 1 \in DOMAIN w /\ u[i] = w[i + 1]
    BY <1>1
  <2>2. i + 1 + 1 \in DOMAIN w /\ w[i + 1 + 1].t = "kex"
    BY <1>2, <2>1 DEF Guessed
  <2> QED
    BY <1>1, <2>2
<1>3. ASSUME Announces(w[1]) PROVE u # <<>> /\ u[1].t = "kex"
  <2>0. 1 \in DOMAIN w
    BY <1>1
  <2>1. 1 + 1 \in DOMAIN w /\ w[1 + 1].t = "kex"
    BY <1>3, <2>0 DEF Guessed
  <2>2. 1 \in DOMAIN u /\ u[1].t = "kex"
    BY <1>1, <2>1
  <2> QED
    BY <2>2, ShortSeq
<1> QED
  BY <1>1, <1>2, <1>3 DEF Guessed

-----------------------------------------------------------------------------
(* The writer's side: what a step of e does to the packets for its peer    *)

\* The peer of e sees at most new packets behind the others.
LEMMA PeerGuess ==
    ASSUME Inv, NEW e \in Ends, Frame(e), NEW ps, IsASeq(ps), Guessed(ps),
           wire'[Peer(e)] = wire[Peer(e)] \/ Appended(Peer(e), ps)
    PROVE  IsASeq(wire'[Peer(e)]) /\ Guess(Peer(e))'
<1> PICK o : o = Peer(e)
  OBVIOUS
<1>0. o \in Ends
  BY PeerFacts
<1>1. rl'[o] = rl[o] /\ kl'[o] = kl[o] /\ up'[o] = up[o]
  BY DEF Frame
<1>2. Guess(o) /\ IsASeq(wire[o])
  BY <1>0 DEF Inv, Shape
<1>3. IsASeq(wire'[o]) /\ Guessed(wire'[o]) /\ (wire[o] # <<>> => wire'[o] # <<>> /\ wire'[o][1] = wire[o][1])
  <2>1. CASE wire'[o] = wire[o]
    BY <1>2, <2>1 DEF Guess
  <2>2. CASE Appended(o, ps)
    <3>1. PICK out : Copy(out, ps) /\ wire'[o] = IF up[o] THEN wire[o] \o out ELSE wire[o]
      BY <2>2 DEF Appended
    <3> QED
      BY <1>2, <3>1, GuessedConcat DEF Guess
  <2> QED
    BY <2>1, <2>2
<1>4. GuessDue(o)' => GuessDue(o)
  BY <1>1 DEF GuessDue
<1> QED
  BY <1>1, <1>2, <1>3, <1>4 DEF Guess

\* The order is kept for the peer of e when it is kept on the way to it.
LEMMA PeerInOrder ==
    ASSUME Inv, NEW e \in Ends, Frame(e),
           \A c \in Nat : up[Peer(e)] /\ Coming(Peer(e), c) => Coming(Peer(e), c)'
    PROVE  InOrder(Peer(e))'
<1> PICK o : o = Peer(e)
  OBVIOUS
<1>0. o \in Ends /\ Peer(o) = e
  BY PeerFacts
<1>1. rl'[o] = rl[o] /\ up'[o] = up[o] /\ app'[o] = app[o] /\ scene' = scene
  BY DEF Frame
<1>2. PICK c \in Nat : Arrived(o, c) /\ (Listening(o) => Coming(o, c))
  BY <1>0 DEF Inv, InOrder
<1>3. Arrived(o, c)'
  BY <1>0, <1>1, <1>2 DEF Arrived, DataAt
<1>4. Listening(o)' => Listening(o) /\ up[o]
  BY <1>1 DEF Listening
<1> QED
  BY <1>2, <1>3, <1>4 DEF InOrder

LEMMA ComingKept ==
    ASSUME Inv, NEW e \in Ends, Frame(e), NEW ps, IsASeq(ps), NoData(ps),
           wire'[Peer(e)] = wire[Peer(e)] \/ Appended(Peer(e), ps),
           hs'[e].queue = hs[e].queue \/ ~up'[e], up'[e] => up[e],
           app'[e].wrote = app[e].wrote \/ ~HasWrite(e)'
    PROVE  \A c \in Nat : up[Peer(e)] /\ Coming(Peer(e), c) => Coming(Peer(e), c)'
<1> PICK o : o = Peer(e)
  OBVIOUS
<1>0. o \in Ends /\ Peer(o) = e /\ Peer(e) = o
  BY PeerFacts
<1> SUFFICES ASSUME NEW c \in Nat, up[o], Coming(o, c) PROVE Coming(o, c)'
  BY <1>0
<1> PICK D : D = DataAt(e)
  OBVIOUS
<1>1. D \in SUBSET Nat /\ DataAt(e)' = D /\ IsASeq(wire[o])
  BY <1>0, DataTyped DEF Inv, Shape, Frame, DataAt
<1>2. PICK d \in Nat : /\ Holds(D, wire[o], c, d)
                       /\ up[e] => \E m \in Nat : Holds(D, hs[e].queue, d, m) /\ (m = app[e].wrote \/ ~HasWrite(e))
  BY <1>0 DEF Coming
<1>3. Holds(D, wire'[o], c, d)
  <2>1. CASE Appended(o, ps)
    <3>1. PICK out : Copy(out, ps) /\ wire'[o] = wire[o] \o out
      BY <2>1 DEF Appended
    <3>2. NoData(out)
      BY <3>1 DEF Copy, NoData, IsData
    <3> QED
      BY <1>1, <1>2, <3>1, <3>2, HoldsNothing, HoldsConcat DEF Copy
  <2> QED
    BY <1>0, <1>2, <2>1
<1>4. HasWrite(e)' => HasWrite(e) /\ app'[e].wrote = app[e].wrote
  BY DEF HasWrite, Frame
<1>5. up'[e] => \E m \in Nat : Holds(D, hs'[e].queue, d, m) /\ (m = app'[e].wrote \/ ~HasWrite(e)')
  <2> SUFFICES ASSUME up'[e] PROVE \E m \in Nat : Holds(D, hs'[e].queue, d, m) /\ (m = app'[e].wrote \/ ~HasWrite(e)')
    OBVIOUS
  <2>1. PICK m \in Nat : Holds(D, hs[e].queue, d, m) /\ (m = app[e].wrote \/ ~HasWrite(e))
    BY <1>2
  <2> QED
    BY <1>4, <2>1
<1> QED
  BY <1>0, <1>1, <1>3, <1>5 DEF Coming

\* The queue follows what is on the way.
LEMMA ComingFlush ==
    ASSUME Inv, NEW e \in Ends, Frame(e), up[e] => Appended(Peer(e), hs[e].queue),
           hs'[e].queue = <<>>, up'[e] = up[e], ~up[e] => wire'[Peer(e)] = wire[Peer(e)],
           app'[e].wrote = app[e].wrote
    PROVE  \A c \in Nat : up[Peer(e)] /\ Coming(Peer(e), c) => Coming(Peer(e), c)'
<1> PICK o : o = Peer(e)
  OBVIOUS
<1>0. o \in Ends /\ Peer(o) = e /\ Peer(e) = o
  BY PeerFacts
<1> SUFFICES ASSUME NEW c \in Nat, up[o], Coming(o, c) PROVE Coming(o, c)'
  BY <1>0
<1> PICK D : D = DataAt(e)
  OBVIOUS
<1>1. D \in SUBSET Nat /\ DataAt(e)' = D /\ IsASeq(wire[o]) /\ IsASeq(hs[e].queue)
  BY <1>0, DataTyped DEF Inv, Shape, Frame, DataAt
<1>2. PICK d \in Nat : /\ Holds(D, wire[o], c, d)
                       /\ up[e] => \E m \in Nat : Holds(D, hs[e].queue, d, m) /\ (m = app[e].wrote \/ ~HasWrite(e))
  BY <1>0 DEF Coming
<1>3. CASE up[e]
  <2>1. PICK m \in Nat : Holds(D, hs[e].queue, d, m) /\ (m = app[e].wrote \/ ~HasWrite(e))
    BY <1>2, <1>3
  <2>2. PICK out : Copy(out, hs[e].queue) /\ wire'[o] = wire[o] \o out
    BY <1>0, <1>3 DEF Appended
  <2>3. Holds(D, out, d, m)
    BY <1>1, <2>1, <2>2, HoldsCopy DEF Copy
  <2>4. Holds(D, wire'[o], c, m)
    BY <1>1, <1>2, <2>2, <2>3, HoldsConcat DEF Copy
  <2>5. Holds(D, hs'[e].queue, m, m)
    <3>1. NoData(<<>>)
      BY ShortSeq DEF NoData
    <3> QED
      BY <1>1, <3>1, HoldsNothing
  <2>6. HasWrite(e)' = HasWrite(e)
    BY DEF HasWrite, Frame
  <2>7. m = app'[e].wrote \/ ~HasWrite(e)'
    BY <2>1, <2>6
  <2> QED
    BY <1>0, <1>1, <2>4, <2>5, <2>7 DEF Coming
<1>4. CASE ~up[e]
  BY <1>0, <1>1, <1>2, <1>4 DEF Coming
<1> QED
  BY <1>3, <1>4

\* NextWrite(e) comes after everything else that e has written.
LEMMA NextHolds ==
    ASSUME Inv, NEW e \in Ends, HasWrite(e), NEW d \in Nat, NEW s, IsASeq(s),
           Holds(DataAt(e), s, d, app[e].wrote), NEW out, Copy(out, <<NextWrite(e)>>)
    PROVE  Holds(DataAt(e), s \o out, d, app[e].wrote + 1)
<1> PICK D, k, p : D = DataAt(e) /\ k = app[e].wrote /\ p = NextWrite(e)
  OBVIOUS
<1>1. D \in SUBSET Nat /\ k \in Nat /\ Len(scene[e].write) \in Nat /\ k < Len(scene[e].write)
  BY DataTyped DEF Inv, Shape, HasWrite
<1>2. p.t = scene[e].write[k + 1] /\ p.n = k + 1
  BY DEF NextWrite, P
<1>3. k + 1 \in D <=> IsData(p)
  BY <1>1, <1>2 DEF DataAt, IsData
<1>4. IsASeq(out) /\ DOMAIN out = {1} /\ out[1].t = p.t /\ out[1].n = p.n
  BY ShortSeq DEF Copy
<1>5. \A n \in D : k < n /\ n <= k + 1 => n = k + 1
  BY <1>1
<1>6. Holds(D, out, k, k + 1)
  BY <1>1, <1>2, <1>3, <1>4, <1>5 DEF Holds, IsData
<1> QED
  BY <1>1, <1>4, <1>6, HoldsConcat

\* A packet is sent at once: the queue is empty then.
LEMMA ComingPush ==
    ASSUME Inv, NEW e \in Ends, Frame(e), HasWrite(e), hs[e].queue = <<>>, hs'[e].queue = <<>>,
           up'[e] = up[e], up[e] => Appended(Peer(e), <<NextWrite(e)>>),
           ~up[e] => wire'[Peer(e)] = wire[Peer(e)], app'[e].wrote = app[e].wrote + 1
    PROVE  \A c \in Nat : up[Peer(e)] /\ Coming(Peer(e), c) => Coming(Peer(e), c)'
<1> PICK o : o = Peer(e)
  OBVIOUS
<1>0. o \in Ends /\ Peer(o) = e /\ Peer(e) = o
  BY PeerFacts
<1> SUFFICES ASSUME NEW c \in Nat, up[o], Coming(o, c) PROVE Coming(o, c)'
  BY <1>0
<1> PICK D, k : D = DataAt(e) /\ k = app[e].wrote
  OBVIOUS
<1>1. D \in SUBSET Nat /\ DataAt(e)' = D /\ IsASeq(wire[o]) /\ k \in Nat /\ k + 1 \in Nat
  BY <1>0, DataTyped DEF Inv, Shape, Frame, DataAt
<1>2. PICK d \in Nat : /\ Holds(D, wire[o], c, d)
                       /\ up[e] => \E m \in Nat : Holds(D, hs[e].queue, d, m) /\ (m = app[e].wrote \/ ~HasWrite(e))
  BY <1>0 DEF Coming
<1>3. NoData(<<>>)
  BY ShortSeq DEF NoData
<1>4. CASE up[e]
  <2>1. Holds(D, <<>>, d, k)
    BY <1>2, <1>4
  <2>2. Holds(D, wire[o], c, k)
    <3>1. \A n \in D : ~(d < n /\ n <= k)
      BY <2>1, ShortSeq DEF Holds
    <3>2. d <= k
      BY <2>1 DEF Holds
    <3>3. \A n \in D : n <= k => n <= d
      BY <1>1, <3>1
    <3>4. \A i \in DOMAIN wire[o] : IsData(wire[o][i]) => wire[o][i].n <= k
      <4> SUFFICES ASSUME NEW i \in DOMAIN wire[o], IsData(wire[o][i]) PROVE wire[o][i].n <= k
        OBVIOUS
      <4>1. PICK n \in D : n = wire[o][i].n /\ n <= d
        BY <1>2 DEF Holds
      <4> QED
        BY <1>1, <3>2, <4>1
    <3>5. c <= k
      BY <1>1, <1>2, <3>2 DEF Holds
    <3> QED
      BY <1>2, <3>3, <3>4, <3>5 DEF Holds
  <2>3. PICK out : Copy(out, <<NextWrite(e)>>) /\ wire'[o] = wire[o] \o out
    BY <1>0, <1>4 DEF Appended
  <2>5. Holds(D, wire'[o], c, k + 1)
    BY <1>1, <2>2, <2>3, NextHolds
  <2>6. Holds(D, hs'[e].queue, k + 1, k + 1)
    BY <1>1, <1>3, HoldsNothing
  <2> QED
    BY <1>0, <1>1, <2>5, <2>6 DEF Coming
<1>5. CASE ~up[e]
  BY <1>0, <1>1, <1>2, <1>5 DEF Coming
<1> QED
  BY <1>4, <1>5

LEMMA ComingQueue ==
    ASSUME Inv, NEW e \in Ends, Frame(e), HasWrite(e), hs'[e].queue = Append(hs[e].queue, NextWrite(e)),
           up'[e] = up[e], wire'[Peer(e)] = wire[Peer(e)], app'[e].wrote = app[e].wrote + 1
    PROVE  \A c \in Nat : up[Peer(e)] /\ Coming(Peer(e), c) => Coming(Peer(e), c)'
<1> PICK o : o = Peer(e)
  OBVIOUS
<1>0. o \in Ends /\ Peer(o) = e /\ Peer(e) = o
  BY PeerFacts
<1> SUFFICES ASSUME NEW c \in Nat, up[o], Coming(o, c) PROVE Coming(o, c)'
  BY <1>0
<1> PICK D, k : D = DataAt(e) /\ k = app[e].wrote
  OBVIOUS
<1>1. D \in SUBSET Nat /\ DataAt(e)' = D /\ IsASeq(hs[e].queue) /\ k \in Nat /\ k + 1 \in Nat
  BY <1>0, DataTyped DEF Inv, Shape, Frame, DataAt
<1>2. PICK d \in Nat : /\ Holds(D, wire[o], c, d)
                       /\ up[e] => \E m \in Nat : Holds(D, hs[e].queue, d, m) /\ (m = app[e].wrote \/ ~HasWrite(e))
  BY <1>0 DEF Coming
<1>3. up[e] => Holds(D, hs[e].queue, d, k)
  BY <1>2
<1>4. hs'[e].queue = hs[e].queue \o <<NextWrite(e)>>
  <2>1. PICK S : hs[e].queue \in Seq(S)
    BY <1>1 DEF IsASeq
  <2> PICK U : U = S \cup {NextWrite(e)}
    OBVIOUS
  <2>2. hs[e].queue \in Seq(U) /\ NextWrite(e) \in U
    BY <2>1
  <2> QED
    BY <2>2
<1>5. up[e] => Holds(D, hs'[e].queue, d, k + 1)
  <2>1. Copy(<<NextWrite(e)>>, <<NextWrite(e)>>)
    BY ShortSeq DEF Copy
  <2> QED
    BY <1>1, <1>3, <1>4, <2>1, NextHolds
<1> QED
  BY <1>0, <1>1, <1>2, <1>5 DEF Coming

-----------------------------------------------------------------------------
(* The reader's side: what a step of e does to what it was sent            *)

LEMMA ComingSame ==
    ASSUME Inv, NEW e \in Ends, Frame(e), wire'[e] = wire[e], NEW c \in Nat, Coming(e, c)
    PROVE  Coming(e, c)'
<1> PICK o : o = Peer(e)
  OBVIOUS
<1>1. hs'[o] = hs[o] /\ app'[o] = app[o] /\ up'[o] = up[o] /\ scene' = scene
  BY DEF Frame
<1> QED
  BY <1>1 DEF Coming, DataAt, HasWrite

LEMMA ReaderKeeps ==
    ASSUME Inv, NEW e \in Ends, Frame(e), app'[e].got = app[e].got, app'[e].inq = app[e].inq,
           rl'[e].pkt = rl[e].pkt \/ (NoData(rl[e].pkt) /\ NoData(rl'[e].pkt)),
           Listening(e)' => Listening(e) /\ wire'[e] = wire[e]
    PROVE  InOrder(e)'
<1>1. PICK c \in Nat : Arrived(e, c) /\ (Listening(e) => Coming(e, c))
  BY DEF Inv, InOrder
<1> PICK D : D = DataAt(Peer(e))
  OBVIOUS
<1>2. D \in SUBSET Nat /\ DataAt(Peer(e))' = D
  BY DataTyped, PeerFacts DEF Inv, Frame, DataAt
<1>3. PICK a \in Nat, b \in Nat : /\ ReadUpTo(D, app[e].got, a)
                                  /\ Holds(D, app[e].inq, a, b) /\ Holds(D, rl[e].pkt, b, c)
  BY <1>1 DEF Arrived
<1>4. Holds(D, rl'[e].pkt, b, c)
  BY <1>2, <1>3, HoldsNoData
<1>5. Arrived(e, c)'
  BY <1>2, <1>3, <1>4 DEF Arrived
<1>6. Listening(e)' => Coming(e, c)'
  BY <1>1, ComingSame
<1> QED
  BY <1>5, <1>6 DEF InOrder

\* The first packet on the way becomes readLoop's, or is no data.
LEMMA ReaderTakes ==
    ASSUME Inv, NEW e \in Ends, Frame(e), Listening(e), wire[e] # <<>>, wire'[e] = Tail(wire[e]),
           app'[e].got = app[e].got, app'[e].inq = app[e].inq, NoData(rl[e].pkt),
           NEW h, h.t = wire[e][1].t, h.n = wire[e][1].n,
           rl'[e].pkt = <<h>> \/ (~IsData(h) /\ NoData(rl'[e].pkt))
    PROVE  InOrder(e)'
<1> PICK o : o = Peer(e)
  OBVIOUS
<1>0. hs'[o] = hs[o] /\ app'[o] = app[o] /\ up'[o] = up[o] /\ scene' = scene
  BY DEF Frame
<1>1. PICK c \in Nat : Arrived(e, c) /\ Coming(e, c)
  BY DEF Inv, InOrder
<1> PICK D : D = DataAt(Peer(e))
  OBVIOUS
<1>2. D \in SUBSET Nat /\ DataAt(Peer(e))' = D /\ IsASeq(wire[e])
  BY DataTyped, PeerFacts DEF Inv, Shape, Frame, DataAt
<1>3. PICK a \in Nat, b \in Nat : /\ ReadUpTo(D, app[e].got, a)
                                  /\ Holds(D, app[e].inq, a, b) /\ Holds(D, rl[e].pkt, b, c)
  BY <1>1 DEF Arrived
<1>4. PICK d \in Nat : /\ Holds(D, wire[e], c, d)
                       /\ up[o] => \E m \in Nat : Holds(D, hs[o].queue, d, m) /\ (m = app[o].wrote \/ ~HasWrite(o))
  BY <1>1 DEF Coming
<1>5. PICK v \in Nat : Holds(D, <<h>>, c, v) /\ Holds(D, wire'[e], v, d)
  BY <1>2, <1>4, HoldsMove, ZenonT(40)
<1>6. Holds(D, <<h>>, b, v)
  <2>0. DOMAIN <<h>> = {1} /\ <<h>>[1] = h
    BY ShortSeq
  <2>1. \A n \in D : ~(b < n /\ n <= c)
    BY <1>3 DEF Holds, NoData
  <2>2. b <= c /\ c <= v
    BY <1>3, <1>5 DEF Holds
  <2>3. \A n \in D : b < n /\ n <= v => c < n /\ n <= v
    BY <1>2, <2>1
  <2>4. IsData(h) => h.n \in D /\ b < h.n /\ h.n <= v
    <3> SUFFICES ASSUME IsData(h) PROVE h.n \in D /\ b < h.n /\ h.n <= v
      OBVIOUS
    <3>1. PICK n \in D : n = h.n /\ c < n /\ n <= v
      BY <1>5, <2>0 DEF Holds
    <3> QED
      BY <1>2, <2>2, <3>1
  <2>5. b <= v
    BY <2>2
  <2> QED
    BY <1>5, <2>0, <2>3, <2>4, <2>5 DEF Holds
<1>7. Holds(D, rl'[e].pkt, b, v)
  <2>1. ~IsData(h) => NoData(<<h>>)
    BY ShortSeq DEF NoData
  <2> QED
    BY <1>2, <1>6, <2>1, HoldsNoData
<1>8. Arrived(e, v)'
  BY <1>2, <1>3, <1>7 DEF Arrived
<1>9. Coming(e, v)'
  BY <1>0, <1>2, <1>4, <1>5 DEF Coming, HasWrite
<1> QED
  BY <1>8, <1>9 DEF InOrder

LEMMA ReaderPushes ==
    ASSUME Inv, NEW e \in Ends, Frame(e), app'[e].got = app[e].got, app'[e].inq = app[e].inq \o rl[e].pkt,
           rl'[e].pkt = <<>>, Listening(e)' => Listening(e), wire'[e] = wire[e]
    PROVE  InOrder(e)'
<1>1. PICK c \in Nat : Arrived(e, c) /\ (Listening(e) => Coming(e, c))
  BY DEF Inv, InOrder
<1> PICK D : D = DataAt(Peer(e))
  OBVIOUS
<1>2. D \in SUBSET Nat /\ DataAt(Peer(e))' = D /\ IsASeq(app[e].inq) /\ IsASeq(rl[e].pkt)
  BY DataTyped, PeerFacts DEF Inv, Shape, Frame, DataAt
<1>3. PICK a \in Nat, b \in Nat : /\ ReadUpTo(D, app[e].got, a)
                                  /\ Holds(D, app[e].inq, a, b) /\ Holds(D, rl[e].pkt, b, c)
  BY <1>1 DEF Arrived
<1>4. Holds(D, app'[e].inq, a, c)
  BY <1>2, <1>3, HoldsConcat
<1>5. Holds(D, rl'[e].pkt, c, c)
  BY <1>2, HoldsNothing, ShortSeq DEF NoData
<1>6. Arrived(e, c)'
  BY <1>2, <1>3, <1>4, <1>5 DEF Arrived
<1>7. Listening(e)' => Coming(e, c)'
  BY <1>1, ComingSame
<1> QED
  BY <1>6, <1>7 DEF InOrder

LEMMA ReaderReads ==
    ASSUME Inv, NEW e \in Ends, Frame(e), app[e].inq # <<>>, app'[e].inq = Tail(app[e].inq),
           LET p == Head(app[e].inq) IN app'[e].got = IF IsData(p) THEN Append(app[e].got, p.n) ELSE app[e].got,
           rl'[e].pkt = rl[e].pkt, Listening(e)' => Listening(e), wire'[e] = wire[e]
    PROVE  InOrder(e)'
<1>1. PICK c \in Nat : Arrived(e, c) /\ (Listening(e) => Coming(e, c))
  BY DEF Inv, InOrder
<1> PICK D, p : D = DataAt(Peer(e)) /\ p = Head(app[e].inq)
  OBVIOUS
<1>2. D \in SUBSET Nat /\ DataAt(Peer(e))' = D /\ IsASeq(app[e].inq) /\ IsASeq(app[e].got)
  BY DataTyped, PeerFacts DEF Inv, Shape, Frame, DataAt
<1>3. PICK a \in Nat, b \in Nat : /\ ReadUpTo(D, app[e].got, a)
                                  /\ Holds(D, app[e].inq, a, b) /\ Holds(D, rl[e].pkt, b, c)
  BY <1>1 DEF Arrived
<1>4. p = app[e].inq[1]
  BY <1>2, TailSeq
<1>5. PICK v \in Nat : Holds(D, <<p>>, a, v) /\ Holds(D, app'[e].inq, v, b)
  BY <1>2, <1>3, <1>4, HoldsMove
<1>6. ReadUpTo(D, app'[e].got, v)
  BY <1>2, <1>3, <1>5, ReadMove
<1>7. Arrived(e, c)'
  BY <1>2, <1>3, <1>5, <1>6 DEF Arrived
<1>8. Listening(e)' => Coming(e, c)'
  BY <1>1, ComingSame
<1> QED
  BY <1>7, <1>8 DEF InOrder

-----------------------------------------------------------------------------
(* The steps                                                               *)

LEMMA Combine ==
    ASSUME Inv, NEW e \in Ends, Frame(e), Turns(e)', Queued(e)', Guess(e)', InOrder(e)',
           IsASeq(wire'[Peer(e)]), Guess(Peer(e))', InOrder(Peer(e))'
    PROVE  Inv'
<1> PICK o : o = Peer(e)
  OBVIOUS
<1>0. o \in Ends /\ \A f \in Ends : f = e \/ f = o
  BY PeerFacts
<1>1. hs'[o] = hs[o] /\ rl'[o] = rl[o] /\ kl'[o] = kl[o] /\ app'[o] = app[o] /\ up'[o] = up[o]
  BY DEF Frame
<1>2. Turns(o)' /\ Queued(o)'
  BY <1>0, <1>1 DEF Inv, Turns, Queued
<1>3. Shape'
  BY <1>0, <1>1 DEF Inv, Shape, Frame
<1> QED
  BY <1>0, <1>2, <1>3 DEF Inv

LEMMA NoPackets == IsASeq(<<>>) /\ NoData(<<>>) /\ Guessed(<<>>)
  BY ShortSeq DEF NoData, Guessed

\* A step of e that puts no packet on the wire and touches neither the queue
\* nor what was written.
LEMMA PeerUntouched ==
    ASSUME Inv, NEW e \in Ends, Frame(e), wire'[Peer(e)] = wire[Peer(e)],
           hs'[e].queue = hs[e].queue, up'[e] => up[e], app'[e].wrote = app[e].wrote
    PROVE  IsASeq(wire'[Peer(e)]) /\ Guess(Peer(e))' /\ InOrder(Peer(e))'
<1>1. \A c \in Nat : up[Peer(e)] /\ Coming(Peer(e), c) => Coming(Peer(e), c)'
  BY NoPackets, ComingKept
<1> QED
  BY <1>1, NoPackets, PeerGuess, PeerInOrder

\* ... or only packets that carry no data
LEMMA PeerTold ==
    ASSUME Inv, NEW e \in Ends, Frame(e), NEW ps, IsASeq(ps), NoData(ps), Guessed(ps),
           Appended(Peer(e), ps), hs'[e].queue = hs[e].queue, up'[e] => up[e],
           app'[e].wrote = app[e].wrote
    PROVE  IsASeq(wire'[Peer(e)]) /\ Guess(Peer(e))' /\ InOrder(Peer(e))'
<1>1. \A c \in Nat : up[Peer(e)] /\ Coming(Peer(e), c) => Coming(Peer(e), c)'
  BY ComingKept
<1> QED
  BY <1>1, PeerGuess, PeerInOrder

\* The queue is sent.
LEMMA PeerFlushed ==
    ASSUME Inv, NEW e \in Ends, Frame(e), up[e] => Appended(Peer(e), hs[e].queue),
           ~up[e] => wire'[Peer(e)] = wire[Peer(e)],
           hs'[e].queue = <<>>, up'[e] = up[e], app'[e].wrote = app[e].wrote
    PROVE  IsASeq(wire'[Peer(e)]) /\ Guess(Peer(e))' /\ InOrder(Peer(e))'
<1>1. \A c \in Nat : up[Peer(e)] /\ Coming(Peer(e), c) => Coming(Peer(e), c)'
  BY ComingFlush
<1>2. IsASeq(hs[e].queue) /\ Guessed(hs[e].queue)
  BY DEF Inv, Shape, Queued, Guessed, Announces
<1> QED
  BY <1>1, <1>2, PeerGuess, PeerInOrder

LEMMA ConsumeTakes ==
    ASSUME Inv, NEW e \in Ends, ~Failed(e), wire' = [wire EXCEPT ![e] = Tail(@)]
    PROVE  /\ DOMAIN wire' = Ends /\ wire'[e] = Tail(wire[e]) /\ wire'[Peer(e)] = wire[Peer(e)]
           /\ up[e] /\ wire[e] # <<>> /\ IsASeq(wire[e]) /\ Incoming(e) = wire[e][1]
           /\ IsASeq(wire'[e]) /\ Guessed(wire'[e])
           /\ Announces(Incoming(e)) => wire'[e] # <<>> /\ wire'[e][1].t = "kex"
<1>1. DOMAIN wire' = Ends /\ wire'[e] = Tail(wire[e]) /\ wire'[Peer(e)] = wire[Peer(e)]
  BY PeerFacts DEF Inv, Shape
<1>2. up[e] /\ wire[e] # <<>> /\ IsASeq(wire[e]) /\ Guessed(wire[e])
  BY DEF Failed, Inv, Shape, Guess
<1>3. Incoming(e) = wire[e][1]
  BY <1>2, TailSeq DEF Incoming
<1> QED
  BY <1>1, <1>2, <1>3, GuessedTail

LEMMA ReadPacketInv == ASSUME Inv, NEW e \in Ends, ReadPacket(e) PROVE Inv'
<1> PICK o : o = Peer(e)
  OBVIOUS
<1>0. o \in Ends /\ o # e /\ Shape /\ Turns(e) /\ Queued(e) /\ Guess(e)
  BY PeerFacts DEF Inv
<1>1. rl[e].pc = "read" /\ kl[e].pc # "kex" /\ rl[e].done = "none" /\ NoData(rl[e].pkt)
  BY <1>0 DEF ReadPacket, Turns
<1>2. scene' = scene /\ up' = up /\ kl' = kl /\ app' = app
  BY DEF ReadPacket
<1>3. CASE Failed(e)
  <2>1. rl' = [rl EXCEPT ![e].pc = "err"] /\ wire' = wire /\ hs' = hs
    BY <1>3 DEF ReadPacket
  <2>2. /\ DOMAIN rl' = Ends /\ rl'[o] = rl[o] /\ DOMAIN rl'[e] = RlFields
        /\ rl'[e].pc = "err" /\ rl'[e].pkt = rl[e].pkt /\ rl'[e].done = rl[e].done
    BY <1>0, <2>1 DEF Shape, RlFields
  <2>3. Frame(e)
    BY <1>0, <1>2, <2>1, <2>2 DEF Frame, Shape
  <2>4. Turns(e)' /\ Queued(e)' /\ Guess(e)'
    BY <1>0, <1>1, <1>2, <2>1, <2>2 DEF Turns, Queued, Guess, GuessDue
  <2>5. InOrder(e)'
    BY <1>2, <2>2, <2>3, ReaderKeeps DEF Listening
  <2> QED
    BY <1>2, <2>1, <2>3, <2>4, <2>5, PeerUntouched, Combine
<1>4. CASE ~Failed(e)
  <2>1. wire' = [wire EXCEPT ![e] = Tail(@)]
    BY <1>4 DEF ReadPacket, Consume
  <2>2. /\ DOMAIN wire' = Ends /\ wire'[e] = Tail(wire[e]) /\ wire'[o] = wire[o]
        /\ up[e] /\ wire[e] # <<>> /\ Incoming(e) = wire[e][1]
        /\ IsASeq(wire'[e]) /\ Guessed(wire'[e])
        /\ Announces(Incoming(e)) => wire'[e] # <<>> /\ wire'[e][1].t = "kex"
    BY <1>4, <2>1, ConsumeTakes
  <2>3. Listening(e)
    BY <1>1, <2>2 DEF Listening
  <2>4. CASE Skipped(e)
    <3>1. rl' = rl /\ hs' = hs /\ ~IsData(Incoming(e))
      BY <1>4, <2>4 DEF ReadPacket, Skipped, IsData
    <3>2. Frame(e)
      BY <1>0, <1>2, <2>2, <3>1 DEF Frame, Shape
    <3>3. Turns(e)' /\ Queued(e)' /\ Guess(e)'
      BY <1>0, <1>1, <1>2, <2>2, <3>1 DEF Turns, Queued, Guess, GuessDue
    <3>4. InOrder(e)'
      BY <1>1, <1>2, <2>2, <2>3, <3>1, <3>2, ReaderTakes
    <3> QED
      BY <1>2, <2>2, <3>1, <3>2, <3>3, <3>4, PeerUntouched, Combine
  <2>5. CASE ~Skipped(e)
    <3> PICK p, r : p = Incoming(e) /\ r = ReadOutcome(e, Incoming(e))
      OBVIOUS
    <3>1. rl' = [rl EXCEPT ![e] = r]
          /\ hs' = IF hs[e].rleft > 0 THEN [hs EXCEPT ![e].rleft = @ - 1] ELSE [hs EXCEPT ![e].token = TRUE]
      BY <1>4, <2>5 DEF ReadPacket
    <3>2. DOMAIN rl' = Ends /\ rl'[o] = rl[o] /\ rl'[e] = r
      BY <1>0, <3>1 DEF Shape
    <3>3. /\ DOMAIN hs' = Ends /\ hs'[o] = hs[o] /\ DOMAIN hs'[e] = HsFields
          /\ hs'[e].queue = hs[e].queue /\ hs'[e].sent = hs[e].sent
      BY <1>0, <3>1 DEF Shape, HsFields
    <3>4. DOMAIN r = RlFields /\ r.done = "none"
      BY <1>0, <1>1 DEF Shape, RlFields, ReadOutcome
    <3>5. \/ r.pc = "err" /\ r.pkt = rl[e].pkt
          \/ r.pc = "start" /\ r.pkt = <<p>> /\ p.t = "init"
          \/ r.pc = "read" /\ r.pkt = rl[e].pkt /\ p.t = "ignore"
          \/ r.pc = "push" /\ r.pkt = <<P(p.t, p.n)>>
      BY <1>0, <1>1 DEF Shape, RlFields, ReadOutcome
    <3>6. IsASeq(r.pkt) /\ (r.pc # "push" => NoData(r.pkt))
      <4>1. IsASeq(rl[e].pkt) /\ IsASeq(<<p>>) /\ IsASeq(<<P(p.t, p.n)>>)
        BY <1>0, ShortSeq DEF Shape
      <4>2. p.t = "init" => NoData(<<p>>)
        BY ShortSeq DEF NoData, IsData
      <4> QED
        BY <1>1, <3>5, <4>1, <4>2
    <3>7. Frame(e)
      BY <1>0, <1>2, <2>2, <3>2, <3>3, <3>4, <3>6 DEF Frame, Shape
    <3>8. Turns(e)' /\ Queued(e)'
      BY <1>0, <1>1, <1>2, <3>2, <3>3, <3>4, <3>6 DEF Turns, Queued
    <3>9. Guess(e)'
      <4>1. GuessDue(e)' => r.pc = "start" /\ r.pkt[1].body[1].follows
        BY <1>1, <1>2, <3>2 DEF GuessDue
      <4>2. GuessDue(e)' => Announces(p)
        BY <3>5, <4>1, ShortSeq DEF Announces
      <4> QED
        BY <2>2, <4>2 DEF Guess
    <3>10. InOrder(e)'
      <4>1. CASE r.pc = "err"
        <5>1. r.pkt = rl[e].pkt
          BY <3>5, <4>1
        <5> QED
          BY <1>2, <3>2, <3>7, <4>1, <5>1, ReaderKeeps DEF Listening
      <4>2. CASE r.pc = "start" \/ r.pc = "read"
        <5>1. ~IsData(p) /\ NoData(r.pkt)
          BY <3>5, <3>6, <4>2 DEF IsData
        <5> QED
          BY <1>1, <1>2, <2>2, <2>3, <3>2, <3>7, <5>1, ReaderTakes
      <4>3. CASE r.pc = "push"
        <5>1. r.pkt = <<P(p.t, p.n)>> /\ P(p.t, p.n).t = p.t /\ P(p.t, p.n).n = p.n
          BY <3>5, <4>3 DEF P
        <5> QED
          BY <1>1, <1>2, <2>2, <2>3, <3>2, <3>7, <5>1, ReaderTakes
      <4> QED
        BY <3>5, <4>1, <4>2, <4>3
    <3> QED
      BY <1>2, <2>2, <3>3, <3>7, <3>8, <3>9, <3>10, PeerUntouched, Combine
  <2> QED
    BY <2>4, <2>5
<1> QED
  BY <1>3, <1>4

LEMMA PushIncomingInv == ASSUME Inv, NEW e \in Ends, PushIncoming(e) PROVE Inv'
<1> PICK o : o = Peer(e)
  OBVIOUS
<1>0. o \in Ends /\ o # e /\ Shape /\ Turns(e) /\ Queued(e) /\ Guess(e)
  BY PeerFacts DEF Inv
<1>1. rl[e].pc = "push" /\ kl[e].pc # "kex" /\ rl[e].done = "none"
  BY <1>0 DEF PushIncoming, Turns
<1>2. /\ UNCHANGED <<scene, wire, up, hs, kl>>
      /\ app' = [app EXCEPT ![e].inq = @ \o rl[e].pkt]
      /\ rl' = [rl EXCEPT ![e].pc = "read", ![e].pkt = <<>>]
  BY DEF PushIncoming
<1>3. /\ DOMAIN rl' = Ends /\ rl'[o] = rl[o] /\ DOMAIN rl'[e] = RlFields
      /\ rl'[e].pc = "read" /\ rl'[e].pkt = <<>> /\ rl'[e].done = rl[e].done
  BY <1>0, <1>2 DEF Shape, RlFields
<1>4. /\ DOMAIN app' = Ends /\ app'[o] = app[o] /\ DOMAIN app'[e] = AppFields
      /\ app'[e].got = app[e].got /\ app'[e].wrote = app[e].wrote
      /\ app'[e].inq = app[e].inq \o rl[e].pkt
  BY <1>0, <1>2 DEF Shape, AppFields
<1>5. IsASeq(app'[e].inq)
  BY <1>0, <1>4, ConcatSeq DEF Shape
<1>6. Frame(e)
  BY <1>0, <1>2, <1>3, <1>4, <1>5, NoPackets DEF Frame, Shape
<1>7. Turns(e)' /\ Queued(e)' /\ Guess(e)'
  BY <1>0, <1>1, <1>2, <1>3, NoPackets DEF Turns, Queued, Guess, GuessDue
<1>8. InOrder(e)'
  BY <1>1, <1>2, <1>3, <1>4, <1>6, ReaderPushes DEF Listening
<1> QED
  BY <1>2, <1>4, <1>6, <1>7, <1>8, PeerUntouched, Combine

LEMMA ExchangeSeenInv == ASSUME Inv, NEW e \in Ends, ExchangeSeen(e) PROVE Inv'
<1> PICK o : o = Peer(e)
  OBVIOUS
<1>0. o \in Ends /\ o # e /\ Shape /\ Turns(e) /\ Queued(e) /\ Guess(e)
  BY PeerFacts DEF Inv
<1>1. rl[e].pc = "wait" /\ kl[e].pc # "kex" /\ NoData(rl[e].pkt)
  BY <1>0 DEF ExchangeSeen, Turns
<1>2. UNCHANGED <<scene, wire, up, kl, app>>
  BY DEF ExchangeSeen
<1>3. /\ DOMAIN hs' = Ends /\ hs'[o] = hs[o] /\ DOMAIN hs'[e] = HsFields
      /\ hs'[e].queue = hs[e].queue /\ hs'[e].sent = hs[e].sent
  BY <1>0 DEF ExchangeSeen, Shape, HsFields
<1>4. /\ DOMAIN rl' = Ends /\ rl'[o] = rl[o] /\ DOMAIN rl'[e] = RlFields
      /\ \/ rl'[e].pc = "err" /\ rl'[e].pkt = rl[e].pkt
         \/ /\ rl'[e].pc \in {"push", "read"} /\ rl'[e].done = "none"
            /\ rl'[e].pkt = <<P("newkeys", 0)>> \/ rl'[e].pkt = <<>>
  BY <1>0 DEF ExchangeSeen, Shape, RlFields
<1>5. IsASeq(rl'[e].pkt) /\ NoData(rl'[e].pkt)
  <2>1. ~IsData(P("newkeys", 0))
    BY DEF P, IsData
  <2>2. IsASeq(<<P("newkeys", 0)>>) /\ NoData(<<P("newkeys", 0)>>)
    BY <2>1, ShortSeq DEF NoData
  <2> QED
    BY <1>0, <1>1, <1>4, <2>2, NoPackets DEF Shape
<1>6. Frame(e)
  BY <1>0, <1>2, <1>3, <1>4, <1>5 DEF Frame, Shape
<1>7. Turns(e)' /\ Queued(e)' /\ Guess(e)'
  BY <1>0, <1>1, <1>2, <1>3, <1>4, <1>5 DEF Turns, Queued, Guess, GuessDue
<1>8. InOrder(e)'
  BY <1>1, <1>2, <1>5, <1>6, ReaderKeeps DEF Listening
<1> QED
  BY <1>2, <1>3, <1>6, <1>7, <1>8, PeerUntouched, Combine

\* The steps that only move the program counters of the two loops.
LEMMA LoopMoves ==
    ASSUME Inv, NEW e \in Ends, UNCHANGED <<scene, wire, up, app>>,
           DOMAIN hs' = Ends, hs'[Peer(e)] = hs[Peer(e)], DOMAIN hs'[e] = HsFields,
           hs'[e].queue = hs[e].queue, hs'[e].sent = hs[e].sent,
           DOMAIN rl' = Ends, rl'[Peer(e)] = rl[Peer(e)], DOMAIN rl'[e] = RlFields,
           rl'[e].pkt = rl[e].pkt, rl[e].pc # "push", rl'[e].pc \in {"wait", "err", "ended"} \/ rl'[e] = rl[e],
           rl'[e].pc = rl[e].pc \/ rl[e].pc \notin {"err", "ended"} \/ rl'[e].pc = "ended",
           DOMAIN kl' = Ends, kl'[Peer(e)] = kl[Peer(e)], DOMAIN kl'[e] = KlFields,
           kl'[e].pc \in {"close", "drain", "done"} \/ (kl'[e] = kl[e] /\ kl[e].pc # "kex")
    PROVE  Inv'
<1>0. Shape /\ Turns(e) /\ Queued(e) /\ Guess(e)
  BY DEF Inv
<1>1. Frame(e)
  BY <1>0, PeerFacts DEF Frame, Shape
<1>2. Turns(e)'
  BY <1>0 DEF Turns
<1>3. Queued(e)'
  BY <1>0 DEF Queued
<1>4. GuessDue(e)' => GuessDue(e)
  BY DEF GuessDue
<1>5. Guess(e)'
  BY <1>0, <1>4 DEF Guess
<1>6. Listening(e)' => Listening(e)
  BY DEF Listening
<1>7. InOrder(e)'
  BY <1>1, <1>6, ReaderKeeps
<1> QED
  BY <1>1, <1>2, <1>3, <1>5, <1>7, PeerUntouched, Combine

LEMMA ReadLoopEndsInv == ASSUME Inv, NEW e \in Ends, ReadLoopEnds(e) PROVE Inv'
<1>0. Shape /\ Turns(e) /\ Peer(e) \in Ends /\ Peer(e) # e
  BY PeerFacts DEF Inv
<1>1. rl[e].pc = "err" /\ kl[e].pc # "kex"
  BY <1>0 DEF ReadLoopEnds, Turns
<1>2. /\ UNCHANGED <<scene, wire, up, kl, app>>
      /\ rl' = [rl EXCEPT ![e].pc = "ended"] /\ hs' = [hs EXCEPT ![e].werr = TRUE]
  BY DEF ReadLoopEnds
<1>3. /\ DOMAIN rl' = Ends /\ rl'[Peer(e)] = rl[Peer(e)] /\ DOMAIN rl'[e] = RlFields
      /\ rl'[e].pc = "ended" /\ rl'[e].pkt = rl[e].pkt
  BY <1>0, <1>2 DEF Shape, RlFields
<1>4. /\ DOMAIN hs' = Ends /\ hs'[Peer(e)] = hs[Peer(e)] /\ DOMAIN hs'[e] = HsFields
      /\ hs'[e].queue = hs[e].queue /\ hs'[e].sent = hs[e].sent
  BY <1>0, <1>2 DEF Shape, HsFields
<1>5. DOMAIN kl = Ends /\ DOMAIN kl[e] = KlFields
  BY <1>0 DEF Shape
<1> QED
  BY <1>1, <1>2, <1>3, <1>4, <1>5, LoopMoves

LEMMA SelectClosedInv == ASSUME Inv, NEW e \in Ends, SelectClosed(e) PROVE Inv'
<1>0. Shape /\ Peer(e) \in Ends /\ Peer(e) # e
  BY PeerFacts DEF Inv
<1>1. /\ rl[e].pc = "ended" /\ kl' = [kl EXCEPT ![e].pc = "close"]
      /\ UNCHANGED <<scene, wire, up, hs, rl, app>>
  BY DEF SelectClosed
<1>2. DOMAIN kl' = Ends /\ kl'[Peer(e)] = kl[Peer(e)] /\ DOMAIN kl'[e] = KlFields /\ kl'[e].pc = "close"
  BY <1>0, <1>1 DEF Shape, KlFields
<1>3. DOMAIN hs = Ends /\ DOMAIN rl = Ends /\ DOMAIN hs[e] = HsFields /\ DOMAIN rl[e] = RlFields
  BY <1>0 DEF Shape
<1> QED
  BY <1>1, <1>2, <1>3, LoopMoves

LEMMA KexLoopDoneInv == ASSUME Inv, NEW e \in Ends, KexLoopDone(e) PROVE Inv'
<1>0. Shape /\ Peer(e) \in Ends /\ Peer(e) # e
  BY PeerFacts DEF Inv
<1>1. /\ rl[e].pc = "ended" /\ kl' = [kl EXCEPT ![e].pc = "done"]
      /\ UNCHANGED <<scene, wire, up, hs, rl, app>>
  BY DEF KexLoopDone
<1>2. DOMAIN kl' = Ends /\ kl'[Peer(e)] = kl[Peer(e)] /\ DOMAIN kl'[e] = KlFields /\ kl'[e].pc = "done"
  BY <1>0, <1>1 DEF Shape, KlFields
<1>3. DOMAIN hs = Ends /\ DOMAIN rl = Ends /\ DOMAIN hs[e] = HsFields /\ DOMAIN rl[e] = RlFields
  BY <1>0 DEF Shape
<1> QED
  BY <1>1, <1>2, <1>3, LoopMoves

LEMMA DrainStartInv == ASSUME Inv, NEW e \in Ends, DrainStart(e) PROVE Inv'
<1>0. Shape /\ Peer(e) \in Ends /\ Peer(e) # e
  BY PeerFacts DEF Inv
<1>1. /\ rl[e].pc = "start" /\ kl[e].pc = "drain"
      /\ rl' = [rl EXCEPT ![e].pc = "wait", ![e].done = "err"]
      /\ UNCHANGED <<scene, wire, up, hs, kl, app>>
  BY DEF DrainStart
<1>2. /\ DOMAIN rl' = Ends /\ rl'[Peer(e)] = rl[Peer(e)] /\ DOMAIN rl'[e] = RlFields
      /\ rl'[e].pc = "wait" /\ rl'[e].pkt = rl[e].pkt
  BY <1>0, <1>1 DEF Shape, RlFields
<1>3. DOMAIN hs = Ends /\ DOMAIN kl = Ends /\ DOMAIN hs[e] = HsFields /\ DOMAIN kl[e] = KlFields
  BY <1>0 DEF Shape
<1> QED
  BY <1>1, <1>2, <1>3, LoopMoves

LEMMA OfferSound ==
    ASSUME NEW e \in Ends, NEW init
    PROVE  LET ps == OfferPackets(e, init) IN IsASeq(ps) /\ NoData(ps) /\ Guessed(ps)
<1> PICK p, q : /\ p = B("init", init)
                /\ q = B("kex", [m |-> Head(KexScript(Head(init.kex), TRUE)).m,
                                 ok |-> ~scene[e].bad, req |-> scene[e].gex, h |-> <<>>])
  OBVIOUS
<1>1. p.t = "init" /\ p.body = <<init>> /\ p.body[1] = init /\ q.t = "kex"
  BY DEF B
<1>2. ~IsData(p) /\ ~IsData(q) /\ (Announces(p) <=> init.follows) /\ ~Announces(q)
  BY <1>1 DEF IsData, Announces
<1>3. CASE init.follows
  <2>1. OfferPackets(e, init) = <<p>> \o <<q>>
    BY <1>3 DEF OfferPackets
  <2> PICK u : u = <<p>> \o <<q>>
    OBVIOUS
  <2>2. IsASeq(<<p>>) /\ IsASeq(<<q>>) /\ Len(<<p>>) = 1 /\ Len(<<q>>) = 1 /\ <<p>>[1] = p /\ <<q>>[1] = q
    BY ShortSeq
  <2>3. IsASeq(u) /\ DOMAIN u = 1 .. 1 + 1 /\ u[1] = p /\ u[1 + 1] = q
    BY <2>2, ConcatSeq
  <2>4. \A i \in DOMAIN u : (i = 1 /\ u[i] = p) \/ (i = 2 /\ u[i] = q)
    BY <2>3
  <2>5. NoData(u)
    BY <1>2, <2>4 DEF NoData
  <2>6. 2 \in DOMAIN u /\ u[2].t = "kex" /\ \A i \in DOMAIN u : Announces(u[i]) => i + 1 = 2
    <3>1. 2 \in DOMAIN u /\ u[2] = q
      BY ONLY <2>3
    <3>2. ASSUME NEW i \in DOMAIN u, Announces(u[i]) PROVE i + 1 = 2
      BY ONLY <1>2, <2>4, <3>2
    <3> QED
      BY ONLY <1>1, <3>1, <3>2
  <2>7. Guessed(u)
    BY <2>6 DEF Guessed
  <2> QED
    BY <2>1, <2>3, <2>5, <2>7
<1>4. CASE ~init.follows
  <2>1. OfferPackets(e, init) = <<p>> \o <<>>
    BY <1>4 DEF OfferPackets
  <2>2. OfferPackets(e, init) = <<p>>
    BY <2>1
  <2>3. IsASeq(<<p>>) /\ DOMAIN <<p>> = {1} /\ <<p>>[1] = p
    BY ShortSeq
  <2> QED
    BY <1>2, <1>4, <2>2, <2>3 DEF NoData, Guessed
<1> QED
  BY <1>3, <1>4

\* req is empty, or holds the init that readLoop has handed over.
LEMMA TurnInv ==
    ASSUME Inv, NEW e \in Ends, kl[e].pc = "select", NEW req, NEW r, NEW h, Turn(e, req, r, h),
           DOMAIN h = HsFields, h.queue = hs[e].queue, h.sent = hs[e].sent, DOMAIN r = RlFields,
           \/ req = <<>> /\ r = rl[e]
           \/ /\ req = <<rl[e].pkt[1].body[1]>> /\ rl[e].pc = "start"
              /\ r.pc = "wait" /\ r.pkt = <<>> /\ r.done = "none"
    PROVE  Inv'
<1> PICK o : o = Peer(e)
  OBVIOUS
<1>0. o \in Ends /\ o # e /\ Shape /\ Turns(e) /\ Queued(e) /\ Guess(e)
  BY PeerFacts DEF Inv
<1>1. kl[e].req = <<>> /\ ~kl[e].skip
  BY <1>0 DEF Turns
<1>2. req \o kl[e].req = req
  <2>1. <<>> \o <<>> = <<>>
    OBVIOUS
  <2>2. \A x : <<x>> \o <<>> = <<x>>
    OBVIOUS
  <2> QED
    BY <1>1, <2>1, <2>2
<1> PICK init, send, h1 :
        /\ init = Offer(e) /\ send = (h.sent = <<>> /\ ~kl[e].sent)
        /\ h1 = IF send /\ up[e] THEN [h EXCEPT !.sent = <<init>>, !.inits = @ + 1]
                ELSE IF send THEN [h EXCEPT !.werr = TRUE] ELSE h
  BY Zenon
<1>3. /\ hs' = [hs EXCEPT ![e] = h1]
      /\ IF send /\ up[e] THEN Put(e, OfferPackets(e, init)) ELSE UNCHANGED <<wire, wr>>
      /\ UNCHANGED <<scene, up, rd, app>>
  BY DEF Turn
<1>4. \/ /\ kl' = [kl EXCEPT ![e].pc = "close"]
         /\ rl' = [rl EXCEPT ![e] = IF req # <<>> THEN [r EXCEPT !.done = "err"] ELSE r]
      \/ /\ kl' = [kl EXCEPT ![e] = Enter(e, req)]
         /\ rl' = [rl EXCEPT ![e] = r]
  BY <1>2 DEF Turn
<1>5. DOMAIN h1 = HsFields /\ h1.queue = hs[e].queue /\ (h1.sent = <<>> => hs[e].sent = <<>>)
  <2>1. <<init>> # <<>>
    OBVIOUS
  <2> QED
    BY <2>1 DEF HsFields
<1>6. DOMAIN hs' = Ends /\ hs'[e] = h1 /\ hs'[o] = hs[o]
  BY <1>0, <1>3 DEF Shape
<1>7. /\ DOMAIN rl' = Ends /\ rl'[o] = rl[o] /\ DOMAIN rl'[e] = RlFields
      /\ rl'[e].pkt = r.pkt /\ rl'[e].pc = r.pc /\ (rl'[e].done = r.done \/ req # <<>>)
  BY <1>0, <1>4 DEF Shape, RlFields
<1>8. <<>> # <<rl[e].pkt[1].body[1]>>
  OBVIOUS
<1>9. /\ DOMAIN kl' = Ends /\ kl'[o] = kl[o] /\ DOMAIN kl'[e] = KlFields
      /\ \/ kl'[e].pc = "close"
         \/ kl'[e].pc = "select" /\ kl'[e].req = <<>> /\ ~kl'[e].skip
         \/ /\ kl'[e].pc = "kex" /\ req # <<>> /\ kl'[e].req = req /\ ~kl'[e].skip
            /\ rl'[e] = r
  <2>1. CASE kl' = [kl EXCEPT ![e].pc = "close"]
    BY <1>0, <2>1 DEF Shape, KlFields
  <2>2. CASE kl' = [kl EXCEPT ![e] = Enter(e, req)] /\ rl' = [rl EXCEPT ![e] = r]
    <3> PICK k : k = Enter(e, req)
      OBVIOUS
    <3>1. /\ DOMAIN k = KlFields
          /\ \/ k.pc = "select" /\ k.req = <<>> /\ ~k.skip
             \/ k.pc = "kex" /\ req # <<>> /\ k.req = req /\ ~k.skip
      BY <1>0, <1>1 DEF Shape, KlFields, Enter
    <3>2. DOMAIN kl' = Ends /\ kl'[e] = k /\ kl'[o] = kl[o] /\ rl'[e] = r
      BY <1>0, <2>2 DEF Shape
    <3> QED
      BY <3>1, <3>2
  <2> QED
    BY <1>4, <2>1, <2>2
<1>10. IsASeq(r.pkt)
  BY <1>0, NoPackets DEF Shape
<1>11. DOMAIN wire' = Ends /\ wire'[e] = wire[e]
  BY <1>0, <1>3, OfferSound, PutAppends DEF Shape
<1>12. Frame(e)
  BY <1>0, <1>3, <1>5, <1>6, <1>7, <1>9, <1>10, <1>11 DEF Frame, Shape
<1>13. Turns(e)'
  <2>1. CASE req = <<>> /\ r = rl[e]
    BY <1>0, <1>7, <1>9, <2>1 DEF Turns
  <2>2. CASE req # <<>> /\ r.pc = "wait" /\ r.pkt = <<>> /\ r.done = "none"
    BY <1>7, <1>9, <2>2, NoPackets DEF Turns
  <2> QED
    BY <1>8, <2>1, <2>2
<1>14. Queued(e)'
  BY <1>0, <1>5, <1>6 DEF Queued
<1>15. Guess(e)'
  <2>1. GuessDue(e)' => GuessDue(e)
    <3>1. CASE req = <<>> /\ r = rl[e]
      BY <1>7, <1>9, <3>1 DEF GuessDue
    <3>2. CASE req = <<rl[e].pkt[1].body[1]>> /\ rl[e].pc = "start" /\ r.pc = "wait"
      <4>1. req[1] = rl[e].pkt[1].body[1]
        BY <3>2
      <4> QED
        BY <1>7, <1>9, <3>2, <4>1 DEF GuessDue
    <3> QED
      BY <3>1, <3>2
  <2> QED
    BY <1>0, <1>3, <1>11, <2>1 DEF Guess
<1>16. InOrder(e)'
  <2>1. rl'[e].pkt = rl[e].pkt \/ (NoData(rl[e].pkt) /\ NoData(rl'[e].pkt))
    BY <1>0, <1>7, NoPackets DEF Turns
  <2>2. Listening(e)' => Listening(e)
    BY <1>3, <1>7 DEF Listening
  <2> QED
    BY <1>3, <1>11, <1>12, <2>1, <2>2, ReaderKeeps
<1>17. IsASeq(wire'[o]) /\ Guess(o)' /\ InOrder(o)'
  <2>1. CASE send /\ up[e]
    <3>1. Appended(o, OfferPackets(e, init))
      BY <1>0, <1>3, <2>1, OfferSound, PutAppends
    <3> QED
      BY <1>3, <1>5, <1>6, <1>12, <3>1, OfferSound, PeerTold
  <2>2. CASE ~(send /\ up[e])
    BY <1>3, <1>5, <1>6, <1>12, <2>2, PeerUntouched
  <2> QED
    BY <2>1, <2>2
<1> QED
  BY <1>12, <1>13, <1>14, <1>15, <1>16, <1>17, Combine

LEMMA SelectRequestInv == ASSUME Inv, NEW e \in Ends, SelectRequest(e) PROVE Inv'
<1> PICK h : h = [hs[e] EXCEPT !.token = FALSE]
  OBVIOUS
<1>1. kl[e].pc = "select" /\ Turn(e, <<>>, rl[e], h)
  BY DEF SelectRequest
<1>2. DOMAIN h = HsFields /\ h.queue = hs[e].queue /\ h.sent = hs[e].sent /\ DOMAIN rl[e] = RlFields
  BY DEF Inv, Shape, HsFields
<1> QED
  BY <1>1, <1>2, TurnInv

LEMMA SelectStartInv == ASSUME Inv, NEW e \in Ends, SelectStart(e) PROVE Inv'
<1> PICK r : r = [rl[e] EXCEPT !.pc = "wait", !.pkt = <<>>]
  OBVIOUS
<1>1. kl[e].pc = "select" /\ rl[e].pc = "start" /\ Turn(e, <<rl[e].pkt[1].body[1]>>, r, hs[e])
  BY DEF SelectStart
<1>2. rl[e].done = "none" /\ DOMAIN rl[e] = RlFields /\ DOMAIN hs[e] = HsFields
  BY <1>1 DEF Inv, Shape, Turns
<1>3. DOMAIN r = RlFields /\ r.pc = "wait" /\ r.pkt = <<>> /\ r.done = "none"
  BY <1>2 DEF RlFields
<1> QED
  BY <1>1, <1>2, <1>3, TurnInv

\* The end of an exchange, whether it went well or not: got says how.
LEMMA ExchangeEnds ==
    ASSUME Inv, NEW e \in Ends, kl[e].pc = "kex", UNCHANGED <<scene, up, app>>,
           NEW h, DOMAIN h = HsFields, h.sent = <<>>, h.queue = <<>>, hs' = [hs EXCEPT ![e] = h],
           NEW d, rl' = [rl EXCEPT ![e].done = d],
           NEW g, kl' = [kl EXCEPT ![e] = AfterExchange(e, g)],
           DOMAIN wire' = Ends, wire'[e] = wire[e] \/ (~Failed(e) /\ wire'[e] = Tail(wire[e]) /\ Incoming(e).t = "newkeys"),
           up[e] => Appended(Peer(e), hs[e].queue), ~up[e] => wire'[Peer(e)] = wire[Peer(e)]
    PROVE  Inv'
<1> PICK o : o = Peer(e)
  OBVIOUS
<1>0. o \in Ends /\ o # e /\ Shape /\ Turns(e) /\ Queued(e) /\ Guess(e)
  BY PeerFacts DEF Inv
<1>1. rl[e].pc = "wait" /\ NoData(rl[e].pkt)
  BY <1>0 DEF Turns
<1>2. /\ DOMAIN rl' = Ends /\ rl'[o] = rl[o] /\ DOMAIN rl'[e] = RlFields
      /\ rl'[e].pc = rl[e].pc /\ rl'[e].pkt = rl[e].pkt
  BY <1>0 DEF Shape, RlFields
<1>3. DOMAIN hs' = Ends /\ hs'[o] = hs[o] /\ hs'[e] = h
  BY <1>0 DEF Shape
<1>4. /\ DOMAIN kl' = Ends /\ kl'[o] = kl[o] /\ DOMAIN kl'[e] = KlFields
      /\ kl'[e].pc \in {"close", "select"} /\ kl'[e].req = <<>> /\ ~kl'[e].skip
  <2> PICK k : k = AfterExchange(e, g)
    OBVIOUS
  <2>1. DOMAIN k = KlFields /\ k.pc \in {"close", "select"} /\ k.req = <<>> /\ ~k.skip
    BY <1>0 DEF Shape, KlFields, AfterExchange
  <2>2. DOMAIN kl' = Ends /\ kl'[o] = kl[o] /\ kl'[e] = k
    BY <1>0 DEF Shape
  <2> QED
    BY <2>1, <2>2
<1>5. IsASeq(wire'[e]) /\ Guessed(wire'[e])
  <2>1. CASE wire'[e] = wire[e]
    BY <1>0, <2>1 DEF Shape, Guess
  <2>2. CASE ~Failed(e) /\ wire'[e] = Tail(wire[e])
    <3>1. wire[e] # <<>> /\ IsASeq(wire[e]) /\ Guessed(wire[e])
      BY <1>0, <2>2 DEF Failed, Shape, Guess
    <3> QED
      BY <2>2, <3>1, GuessedTail
  <2> QED
    BY <2>1, <2>2
<1>6. Frame(e)
  BY <1>0, <1>2, <1>3, <1>4, <1>5, NoPackets DEF Frame, Shape
<1>7. Turns(e)' /\ Queued(e)'
  BY <1>1, <1>2, <1>3, <1>4, NoPackets, ShortSeq DEF Turns, Queued
<1>8. Guess(e)'
  <2>1. ~GuessDue(e)'
    BY <1>1, <1>2, <1>4 DEF GuessDue
  <2> QED
    BY <1>5, <2>1 DEF Guess
<1>9. InOrder(e)'
  <2>1. CASE wire'[e] = wire[e]
    BY <1>2, <1>6, <2>1, ReaderKeeps DEF Listening
  <2>2. CASE ~Failed(e) /\ wire'[e] = Tail(wire[e]) /\ Incoming(e).t = "newkeys"
    <3>1. wire[e] # <<>> /\ IsASeq(wire[e]) /\ Listening(e)
      BY <1>0, <1>1, <2>2 DEF Failed, Shape, Listening
    <3>2. Incoming(e) = wire[e][1] /\ ~IsData(Incoming(e))
      BY <2>2, <3>1, TailSeq DEF Incoming, IsData
    <3>3. NoData(rl'[e].pkt)
      BY <1>1, <1>2
    <3> QED
      BY <1>1, <1>6, <2>2, <3>1, <3>2, <3>3, ReaderTakes
  <2> QED
    BY <2>1, <2>2
<1>10. IsASeq(wire'[o]) /\ Guess(o)' /\ InOrder(o)'
  BY <1>3, <1>6, PeerFlushed
<1> QED
  BY <1>6, <1>7, <1>8, <1>9, <1>10, Combine

LEMMA FlushEmpties ==
    ASSUME Shape, NEW e \in Ends, NEW ok
    PROVE  DOMAIN Flush(e, ok) = HsFields /\ Flush(e, ok).sent = <<>> /\ Flush(e, ok).queue = <<>>
  BY DEF Shape, HsFields, Flush

LEMMA ExchangeFailsInv ==
    ASSUME Inv, NEW e \in Ends, kl[e].pc = "kex", ExchangeFails(e), UNCHANGED <<scene, up, app>>
    PROVE  Inv'
<1> PICK h : h = Flush(e, FALSE)
  OBVIOUS
<1>1. DOMAIN h = HsFields /\ h.sent = <<>> /\ h.queue = <<>>
  BY FlushEmpties DEF Inv
<1>2. /\ hs' = [hs EXCEPT ![e] = h] /\ rl' = [rl EXCEPT ![e].done = "err"]
      /\ kl' = [kl EXCEPT ![e] = AfterExchange(e, h)]
      /\ IF up[e] THEN Put(e, hs[e].queue) ELSE UNCHANGED <<wire, wr>>
  BY DEF ExchangeFails
<1>3. /\ DOMAIN wire' = Ends /\ wire'[e] = wire[e]
      /\ up[e] => Appended(Peer(e), hs[e].queue)
      /\ ~up[e] => wire'[Peer(e)] = wire[Peer(e)]
  BY <1>2, PutAppends DEF Inv, Shape
<1> QED
  BY <1>1, <1>2, <1>3, ExchangeEnds

\* A step within an exchange.
LEMMA KexMoves ==
    ASSUME Inv, NEW e \in Ends, kl[e].pc = "kex", UNCHANGED <<scene, up, rl, app>>,
           DOMAIN kl' = Ends, kl'[Peer(e)] = kl[Peer(e)], DOMAIN kl'[e] = KlFields, kl'[e].pc = "kex",
           DOMAIN hs' = Ends, hs'[Peer(e)] = hs[Peer(e)], DOMAIN hs'[e] = HsFields,
           hs'[e].queue = hs[e].queue, hs'[e].sent = hs[e].sent,
           DOMAIN wire' = Ends,
           wire'[e] = wire[e] \/ (~Failed(e) /\ wire'[e] = Tail(wire[e]) /\ ~IsData(Incoming(e))),
           kl'[e].skip \/ (kl'[e].alg = <<>> /\ kl'[e].req[1].follows) => GuessDue(e) /\ wire'[e] = wire[e],
           wire'[Peer(e)] = wire[Peer(e)]
             \/ \E ps : IsASeq(ps) /\ NoData(ps) /\ Guessed(ps) /\ Appended(Peer(e), ps)
    PROVE  Inv'
<1> PICK o : o = Peer(e)
  OBVIOUS
<1>0. o \in Ends /\ o # e /\ Shape /\ Turns(e) /\ Queued(e) /\ Guess(e)
  BY PeerFacts DEF Inv
<1>1. rl[e].pc = "wait" /\ NoData(rl[e].pkt) /\ rl[e].done = "none"
  BY <1>0 DEF Turns
<1>2. IsASeq(wire'[e]) /\ Guessed(wire'[e])
  <2>1. CASE wire'[e] = wire[e]
    BY <1>0, <2>1 DEF Shape, Guess
  <2>2. CASE ~Failed(e) /\ wire'[e] = Tail(wire[e])
    <3>1. wire[e] # <<>> /\ IsASeq(wire[e]) /\ Guessed(wire[e])
      BY <1>0, <2>2 DEF Failed, Shape, Guess
    <3> QED
      BY <2>2, <3>1, GuessedTail
  <2> QED
    BY <2>1, <2>2
<1>3. Frame(e)
  BY <1>0, <1>2 DEF Frame, Shape
<1>4. Turns(e)' /\ Queued(e)'
  BY <1>0, <1>1 DEF Turns, Queued
<1>5. Guess(e)'
  <2>1. GuessDue(e)' => GuessDue(e) /\ wire'[e] = wire[e]
    BY <1>1 DEF GuessDue
  <2> QED
    BY <1>0, <1>2, <2>1 DEF Guess
<1>6. InOrder(e)'
  <2>1. CASE wire'[e] = wire[e]
    BY <1>3, <2>1, ReaderKeeps DEF Listening
  <2>2. CASE ~Failed(e) /\ wire'[e] = Tail(wire[e]) /\ ~IsData(Incoming(e))
    <3>1. wire[e] # <<>> /\ IsASeq(wire[e]) /\ Listening(e)
      BY <1>0, <1>1, <2>2 DEF Failed, Shape, Listening
    <3>2. Incoming(e) = wire[e][1]
      BY <3>1, TailSeq DEF Incoming
    <3> QED
      BY <1>1, <1>3, <2>2, <3>1, <3>2, ReaderTakes
  <2> QED
    BY <2>1, <2>2
<1>7. IsASeq(wire'[o]) /\ Guess(o)' /\ InOrder(o)'
  <2>1. CASE wire'[o] = wire[o]
    BY <1>3, <2>1, PeerUntouched
  <2>2. CASE \E ps : IsASeq(ps) /\ NoData(ps) /\ Guessed(ps) /\ Appended(o, ps)
    BY <1>3, <2>2, PeerTold
  <2> QED
    BY <2>1, <2>2
<1> QED
  BY <1>3, <1>4, <1>5, <1>6, <1>7, Combine

LEMMA NegotiateInv == ASSUME Inv, NEW e \in Ends, Negotiate(e) PROVE Inv'
<1> PICK a, strict, script :
        /\ a = FindAgreed(ClientInit(e), ServerInit(e))
        /\ strict = (hs[e].sid = <<>> /\ kl[e].req[1].strict /\ hs[e].sent[1].strict)
        /\ script = KexScript(a.kex, e = "c")
  OBVIOUS
<1>0. Peer(e) \in Ends /\ Peer(e) # e /\ Shape
  BY PeerFacts DEF Inv
<1>1. kl[e].pc = "kex" /\ kl[e].alg = <<>> /\ UNCHANGED <<scene, up, rd, app>>
  BY DEF Negotiate
<1>2. \/ ExchangeFails(e)
      \/ /\ hs' = [hs EXCEPT ![e].strict = @ \/ strict]
         /\ kl' = [kl EXCEPT ![e].alg = <<a>>, ![e].skip = WrongGuess(e),
                             ![e].script = IF GuessedRight(e) THEN Tail(script) ELSE script]
         /\ UNCHANGED <<wire, wr, rl>>
  BY DEF Negotiate
<1>3. CASE ExchangeFails(e)
  BY <1>1, <1>3, ExchangeFailsInv
<1>4. CASE /\ hs' = [hs EXCEPT ![e].strict = @ \/ strict]
           /\ kl' = [kl EXCEPT ![e].alg = <<a>>, ![e].skip = WrongGuess(e),
                               ![e].script = IF GuessedRight(e) THEN Tail(script) ELSE script]
           /\ UNCHANGED <<wire, wr, rl>>
  <2>1. /\ DOMAIN hs' = Ends /\ hs'[Peer(e)] = hs[Peer(e)] /\ DOMAIN hs'[e] = HsFields
        /\ hs'[e].queue = hs[e].queue /\ hs'[e].sent = hs[e].sent
    BY <1>0, <1>4 DEF Shape, HsFields
  <2>2. /\ DOMAIN kl' = Ends /\ kl'[Peer(e)] = kl[Peer(e)] /\ DOMAIN kl'[e] = KlFields
        /\ kl'[e].pc = "kex" /\ kl'[e].alg = <<a>> /\ kl'[e].skip = WrongGuess(e)
    BY <1>0, <1>1, <1>4 DEF Shape, KlFields
  <2>3. <<a>> # <<>> /\ (WrongGuess(e) => GuessDue(e))
    BY <1>1 DEF WrongGuess, GuessDue
  <2>4. kl'[e].skip \/ (kl'[e].alg = <<>> /\ kl'[e].req[1].follows) => GuessDue(e)
    BY <2>2, <2>3
  <2> QED
    BY <1>0, <1>1, <1>4, <2>1, <2>2, <2>4, KexMoves DEF Shape
<1> QED
  BY <1>2, <1>3, <1>4

LEMMA KexIgnoresInv == ASSUME Inv, NEW e \in Ends, KexIgnores(e) PROVE Inv'
<1>0. Peer(e) \in Ends /\ Peer(e) # e /\ Shape /\ Guess(e)
  BY PeerFacts DEF Inv
<1>1. /\ kl[e].pc = "kex" /\ ~Failed(e) /\ Incoming(e).t = "ignore"
      /\ wire' = [wire EXCEPT ![e] = Tail(@)] /\ UNCHANGED <<scene, up, hs, rl, kl, app>>
  BY DEF KexIgnores, KexReads, Skipped, Consume
<1>2. DOMAIN wire' = Ends /\ wire'[e] = Tail(wire[e]) /\ wire'[Peer(e)] = wire[Peer(e)]
      /\ up[e] /\ Incoming(e) = wire[e][1]
  BY <1>1, ConsumeTakes
<1>3. ~GuessDue(e)
  BY <1>0, <1>1, <1>2 DEF Guess
<1>4. ~IsData(Incoming(e))
  BY <1>1 DEF IsData
<1>5. ~(kl[e].skip \/ (kl[e].alg = <<>> /\ kl[e].req[1].follows))
  BY <1>1, <1>3 DEF GuessDue
<1> QED
  BY <1>0, <1>1, <1>2, <1>4, <1>5, KexMoves DEF Shape

LEMMA SkipGuessInv == ASSUME Inv, NEW e \in Ends, SkipGuess(e) PROVE Inv'
<1>0. Peer(e) \in Ends /\ Peer(e) # e /\ Shape /\ Guess(e)
  BY PeerFacts DEF Inv
<1>1. kl[e].pc = "kex" /\ kl[e].skip /\ kl[e].alg # <<>> /\ UNCHANGED <<scene, up, app>>
  BY DEF SkipGuess, KexReads
<1>2. CASE Failed(e)
  BY <1>1, <1>2, ExchangeFailsInv DEF SkipGuess
<1>3. CASE ~Failed(e)
  <2>1. /\ wire' = [wire EXCEPT ![e] = Tail(@)] /\ kl' = [kl EXCEPT ![e].skip = FALSE]
        /\ UNCHANGED <<hs, rl>>
    BY <1>3 DEF SkipGuess, Consume
  <2>2. DOMAIN wire' = Ends /\ wire'[e] = Tail(wire[e]) /\ wire'[Peer(e)] = wire[Peer(e)]
        /\ up[e] /\ Incoming(e) = wire[e][1]
    BY <1>3, <2>1, ConsumeTakes
  <2>3. /\ DOMAIN kl' = Ends /\ kl'[Peer(e)] = kl[Peer(e)] /\ DOMAIN kl'[e] = KlFields
        /\ kl'[e].pc = "kex" /\ kl'[e].alg # <<>> /\ ~kl'[e].skip
    BY <1>0, <1>1, <2>1 DEF Shape, KlFields
  <2>4. GuessDue(e)
    BY <1>1 DEF GuessDue
  <2>5. ~IsData(Incoming(e))
    BY <1>0, <2>2, <2>4 DEF Guess, IsData
  <2> QED
    BY <1>0, <1>1, <1>3, <2>1, <2>2, <2>3, <2>5, KexMoves DEF Shape
<1> QED
  BY <1>2, <1>3

\* packets of the library itself, other than an init
LEMMA OwnPackets ==
    ASSUME NEW ps, NEW p, p.t \notin {"data", "init"}, IsASeq(ps),
           \A i \in DOMAIN ps : ps[i].t \notin {"data", "init"}
    PROVE  IsASeq(ps \o <<p>>) /\ NoData(ps \o <<p>>) /\ Guessed(ps \o <<p>>)
<1> PICK u, k : u = ps \o <<p>> /\ k = Len(ps)
  OBVIOUS
<1>1. IsASeq(<<p>>) /\ Len(<<p>>) = 1 /\ <<p>>[1] = p
  BY ShortSeq
<1>2. /\ IsASeq(u) /\ k \in Nat /\ DOMAIN ps = 1 .. k /\ DOMAIN u = 1 .. k + 1
      /\ \A i \in 1 .. k : u[i] = ps[i]
      /\ \A i \in 1 .. 1 : u[k + i] = <<p>>[i]
  BY <1>1, ConcatSeq
<1>3. u[k + 1] = p
  BY <1>1, <1>2
<1>4. \A i \in DOMAIN u : u[i].t \notin {"data", "init"}
  BY <1>2, <1>3
<1> QED
  BY <1>2, <1>4 DEF NoData, Guessed, IsData, Announces

LEMMA KexSendsInv == ASSUME Inv, NEW e \in Ends, KexSends(e) PROVE Inv'
<1>0. Peer(e) \in Ends /\ Peer(e) # e /\ Shape
  BY PeerFacts DEF Inv
<1>1. kl[e].pc = "kex" /\ ~kl[e].skip /\ UNCHANGED <<scene, up, rd, app>>
  BY DEF KexSends
<1>2. CASE ~up[e]
  BY <1>1, <1>2, ExchangeFailsInv DEF KexSends
<1>3. CASE up[e]
  <2> PICK p, ps : p = KexMessage(e, Head(kl[e].script).m) /\ ps = Noise(e) \o <<p>>
    OBVIOUS
  <2>1. Put(e, ps) /\ kl' = [kl EXCEPT ![e].script = Tail(@)] /\ UNCHANGED <<hs, rl>>
    BY <1>3 DEF KexSends
  <2>2. p.t = "kex"
    BY DEF KexMessage, B
  <2>3. IsASeq(Noise(e)) /\ \A i \in DOMAIN Noise(e) : Noise(e)[i].t \notin {"data", "init"}
    <3> PICK q : q = P("ignore", 0)
      OBVIOUS
    <3>1. q.t = "ignore"
      BY DEF P
    <3>2. Noise(e) = <<>> \/ Noise(e) = <<q>>
      BY DEF Noise
    <3>3. IsASeq(<<q>>) /\ DOMAIN <<q>> = {1} /\ <<q>>[1] = q /\ IsASeq(<<>>) /\ DOMAIN <<>> = {}
      BY ShortSeq
    <3> QED
      BY <3>1, <3>2, <3>3
  <2>4. IsASeq(ps) /\ NoData(ps) /\ Guessed(ps)
    BY <2>2, <2>3, OwnPackets
  <2>5. DOMAIN wire' = Ends /\ wire'[e] = wire[e] /\ Appended(Peer(e), ps)
    BY <1>0, <2>1, <2>4, PutAppends
  <2>6. /\ DOMAIN kl' = Ends /\ kl'[Peer(e)] = kl[Peer(e)] /\ DOMAIN kl'[e] = KlFields
        /\ kl'[e].pc = "kex" /\ kl'[e].alg = kl[e].alg /\ kl'[e].req = kl[e].req /\ kl'[e].skip = kl[e].skip
    BY <1>0, <1>1, <2>1 DEF Shape, KlFields
  <2>7. kl'[e].skip \/ (kl'[e].alg = <<>> /\ kl'[e].req[1].follows) => GuessDue(e)
    BY <1>1, <2>6 DEF GuessDue
  <2> QED
    BY <1>0, <1>1, <2>1, <2>4, <2>5, <2>6, <2>7, KexMoves DEF Shape
<1> QED
  BY <1>2, <1>3

LEMMA KexReceivesInv == ASSUME Inv, NEW e \in Ends, KexReceives(e) PROVE Inv'
<1>0. Peer(e) \in Ends /\ Peer(e) # e /\ Shape
  BY PeerFacts DEF Inv
<1>1. kl[e].pc = "kex" /\ ~kl[e].skip /\ kl[e].alg # <<>> /\ UNCHANGED <<scene, up, app>>
  BY DEF KexReceives, KexReads
<1> PICK m : m = Head(kl[e].script).m
  OBVIOUS
<1>2. CASE ExchangeFails(e)
  BY <1>1, <1>2, ExchangeFailsInv
<1>3. CASE ~ExchangeFails(e)
  <2> PICK g : g = IF m = "gexrequest" THEN ChooseDH(Incoming(e).body[1].req)
                   ELSE IF m = "gexgroup" THEN Incoming(e).body[1].req.pref ELSE kl[e].group
    OBVIOUS
  <2>1. ~Failed(e) /\ Acceptable(e, m, Incoming(e))
    BY <1>3 DEF KexReceives
  <2>2. /\ Consume(e) /\ kl' = [kl EXCEPT ![e].script = Tail(@), ![e].group = g]
        /\ UNCHANGED <<hs, rl>>
    BY <1>3, <2>1 DEF KexReceives
  <2>3. DOMAIN wire' = Ends /\ wire'[e] = Tail(wire[e]) /\ wire'[Peer(e)] = wire[Peer(e)]
    BY <2>1, <2>2, ConsumeTakes DEF Consume
  <2>4. ~IsData(Incoming(e))
    BY <2>1 DEF Acceptable, IsData
  <2>5. /\ DOMAIN kl' = Ends /\ kl'[Peer(e)] = kl[Peer(e)] /\ DOMAIN kl'[e] = KlFields
        /\ kl'[e].pc = "kex" /\ kl'[e].alg = kl[e].alg /\ kl'[e].skip = kl[e].skip
    BY <1>0, <1>1, <2>2 DEF Shape, KlFields
  <2> QED
    BY <1>0, <1>1, <2>1, <2>2, <2>3, <2>4, <2>5, KexMoves DEF Shape
<1> QED
  BY <1>2, <1>3

LEMMA SendNewKeysInv == ASSUME Inv, NEW e \in Ends, SendNewKeys(e) PROVE Inv'
<1> PICK o : o = Peer(e)
  OBVIOUS
<1>0. o \in Ends /\ o # e /\ Shape
  BY PeerFacts DEF Inv
<1>1. kl[e].pc = "kex" /\ ~kl[e].skip /\ kl[e].alg # <<>> /\ UNCHANGED <<scene, up, app>>
  BY DEF SendNewKeys
<1>2. CASE ~up[e] \/ \E d \in Directions : kl[e].alg[1].cipher[d] \notin KnownCiphers
  BY <1>1, <1>2, ExchangeFailsInv DEF SendNewKeys
<1>3. CASE ~(~up[e] \/ \E d \in Directions : kl[e].alg[1].cipher[d] \notin KnownCiphers)
  <2> DEFINE x == Hash(e, kl[e].group)
             extra == IF e = "s" /\ hs[e].sid = <<>> /\ kl[e].req[1].ext THEN <<P("extinfo", 0)>> ELSE <<>>
             c == [wr[e] EXCEPT !.pending = <<NewCipher(kl[e].alg[1].cipher[OutDir(e)], OutDir(e), x)>>]
             ps == <<P("newkeys", 0)>> \o extra
             out == WriteAll(c, ps, hs[e].strict).out
  <2>1. /\ hs' = [hs EXCEPT ![e].sid = IF @ = <<>> THEN x ELSE @]
        /\ wire' = IF up[o] THEN [wire EXCEPT ![o] = @ \o out] ELSE wire
        /\ UNCHANGED <<rl, kl>>
    BY <1>3, Zenon DEF SendNewKeys
  <2>2. extra = <<P("extinfo", 0)>> \/ extra = <<>>
    OBVIOUS
  <2> HIDE DEF x, extra, c
  <2>3. IsASeq(ps) /\ NoData(ps) /\ Guessed(ps)
    <3> PICK p, q : p = P("newkeys", 0) /\ q = P("extinfo", 0)
      OBVIOUS
    <3>1. p.t = "newkeys" /\ q.t = "extinfo"
      BY DEF P
    <3>2. IsASeq(<<p>>) /\ DOMAIN <<p>> = {1} /\ <<p>>[1] = p
      BY ShortSeq
    <3>3. CASE extra = <<q>>
      BY <3>1, <3>2, <3>3, OwnPackets
    <3>4. CASE extra = <<>>
      <4>1. ps = <<p>>
        BY <3>4
      <4> QED
        BY <3>1, <3>2, <4>1 DEF NoData, Guessed, IsData, Announces
    <3> QED
      BY <2>2, <3>3, <3>4
  <2> HIDE DEF ps
  <2>5. Copy(out, ps)
    BY <2>3, WriteAllOut DEF Copy
  <2> HIDE DEF out
  <2>6. DOMAIN wire' = Ends /\ wire'[e] = wire[e] /\ wire'[o] = IF up[o] THEN wire[o] \o out ELSE wire[o]
    BY <1>0, <2>1 DEF Shape
  <2>7. Appended(o, ps)
    BY <2>5, <2>6 DEF Appended
  <2>8. /\ DOMAIN hs' = Ends /\ hs'[o] = hs[o] /\ DOMAIN hs'[e] = HsFields
        /\ hs'[e].queue = hs[e].queue /\ hs'[e].sent = hs[e].sent
    BY <1>0, <2>1 DEF Shape, HsFields
  <2> QED
    BY <1>0, <1>1, <2>1, <2>3, <2>6, <2>7, <2>8, KexMoves DEF Shape
<1> QED
  BY <1>2, <1>3

LEMMA TakeNewKeysInv == ASSUME Inv, NEW e \in Ends, TakeNewKeys(e) PROVE Inv'
<1> PICK o : o = Peer(e)
  OBVIOUS
<1>0. o \in Ends /\ o # e /\ Shape /\ \A f \in Ends : f = e \/ f = o
  BY PeerFacts DEF Inv
<1>1. kl[e].pc = "kex" /\ UNCHANGED <<scene, up, app>>
  BY DEF TakeNewKeys, KexReads
<1>2. CASE ExchangeFails(e)
  BY <1>1, <1>2, ExchangeFailsInv
<1>3. CASE ~ExchangeFails(e)
  <2> PICK h, out, d : /\ h = Flush(e, TRUE) /\ out = WriteAll(wr[e], hs[e].queue, hs[e].strict).out
                       /\ d = IF hs[e].kexDone THEN "again" ELSE "first"
    OBVIOUS
  <2>1. ~Failed(e) /\ Incoming(e).t = "newkeys"
    BY <1>3 DEF TakeNewKeys
  <2>2. /\ hs' = [hs EXCEPT ![e] = [h EXCEPT !.kexDone = TRUE]]
        /\ wire' = [f \in Ends |-> IF f = e THEN Tail(wire[e])
                                   ELSE IF up[e] /\ up[f] THEN wire[f] \o out ELSE wire[f]]
        /\ rl' = [rl EXCEPT ![e].done = d]
        /\ kl' = [kl EXCEPT ![e] = AfterExchange(e, h)]
    BY <1>3, <2>1 DEF TakeNewKeys
  <2> PICK h1 : h1 = [h EXCEPT !.kexDone = TRUE]
    OBVIOUS
  <2>3. DOMAIN h1 = HsFields /\ h1.sent = <<>> /\ h1.queue = <<>>
    <3>1. DOMAIN h = HsFields /\ h.sent = <<>> /\ h.queue = <<>>
      BY <1>0, FlushEmpties
    <3> QED
      BY <3>1 DEF HsFields
  <2>4. /\ DOMAIN wire' = Ends /\ wire'[e] = Tail(wire[e])
        /\ wire'[o] = IF up[e] /\ up[o] THEN wire[o] \o out ELSE wire[o]
    BY <1>0, <2>2
  <2>5. Copy(out, hs[e].queue)
    <3>1. IsASeq(hs[e].queue)
      BY <1>0 DEF Shape
    <3> QED
      BY <3>1, WriteAllOut DEF Copy
  <2>6. up[e] => Appended(o, hs[e].queue)
    BY <2>4, <2>5 DEF Appended
  <2> QED
    BY <1>1, <2>1, <2>2, <2>3, <2>4, <2>6, ExchangeEnds
<1> QED
  BY <1>2, <1>3

\* e closes the connection.
LEMMA Closes ==
    ASSUME Inv, NEW e \in Ends, up' = [up EXCEPT ![e] = FALSE], wire' = [wire EXCEPT ![e] = <<>>],
           UNCHANGED <<scene, hs, rl>>,
           DOMAIN kl' = Ends, kl'[Peer(e)] = kl[Peer(e)], DOMAIN kl'[e] = KlFields,
           kl'[e] = kl[e] \/ kl'[e].pc = "drain",
           DOMAIN app' = Ends, app'[Peer(e)] = app[Peer(e)], DOMAIN app'[e] = AppFields,
           app'[e].got = app[e].got, app'[e].inq = app[e].inq, app'[e].wrote = app[e].wrote
    PROVE  Inv'
<1> PICK o : o = Peer(e)
  OBVIOUS
<1>0. o \in Ends /\ o # e /\ Shape /\ Turns(e) /\ Queued(e) /\ Guess(e)
  BY PeerFacts DEF Inv
<1>1. /\ DOMAIN up' = Ends /\ up'[o] = up[o] /\ ~up'[e]
      /\ DOMAIN wire' = Ends /\ wire'[o] = wire[o] /\ wire'[e] = <<>>
  BY <1>0 DEF Shape
<1>2. Frame(e)
  BY <1>0, <1>1, NoPackets DEF Frame, Shape
<1>3. Turns(e)' /\ Queued(e)'
  BY <1>0 DEF Turns, Queued
<1>4. Guess(e)'
  BY <1>1, NoPackets DEF Guess
<1>5. InOrder(e)'
  BY <1>1, <1>2, ReaderKeeps DEF Listening
<1>6. IsASeq(wire'[o]) /\ Guess(o)' /\ InOrder(o)'
  BY <1>1, <1>2, PeerUntouched
<1> QED
  BY <1>2, <1>3, <1>4, <1>5, <1>6, Combine

LEMMA CloseConnInv == ASSUME Inv, NEW e \in Ends, CloseConn(e) PROVE Inv'
<1>0. Peer(e) \in Ends /\ Peer(e) # e /\ Shape
  BY PeerFacts DEF Inv
<1>1. /\ up' = [up EXCEPT ![e] = FALSE] /\ wire' = [wire EXCEPT ![e] = <<>>]
      /\ UNCHANGED <<scene, hs, rl, app>> /\ kl' = [kl EXCEPT ![e].pc = "drain"]
  BY DEF CloseConn
<1>2. DOMAIN kl' = Ends /\ kl'[Peer(e)] = kl[Peer(e)] /\ DOMAIN kl'[e] = KlFields /\ kl'[e].pc = "drain"
  BY <1>0, <1>1 DEF Shape, KlFields
<1> QED
  BY <1>0, <1>1, <1>2, Closes DEF Shape

LEMMA AppClosesInv == ASSUME Inv, NEW e \in Ends, AppCloses(e) PROVE Inv'
<1>0. Peer(e) \in Ends /\ Peer(e) # e /\ Shape
  BY PeerFacts DEF Inv
<1> PICK pc : pc = IF app[e].pc = "quit" THEN "quitclose" ELSE "close"
  OBVIOUS
<1>1. /\ up' = [up EXCEPT ![e] = FALSE] /\ wire' = [wire EXCEPT ![e] = <<>>]
      /\ UNCHANGED <<scene, hs, rl, kl>> /\ app' = [app EXCEPT ![e].pc = pc]
  BY DEF AppCloses
<1>2. /\ DOMAIN app' = Ends /\ app'[Peer(e)] = app[Peer(e)] /\ DOMAIN app'[e] = AppFields
      /\ app'[e].got = app[e].got /\ app'[e].inq = app[e].inq /\ app'[e].wrote = app[e].wrote
  BY <1>0, <1>1 DEF Shape, AppFields
<1> QED
  BY <1>0, <1>1, <1>2, Closes DEF Shape

-----------------------------------------------------------------------------
(* The application                                                         *)

LEMMA AppReadsInv == ASSUME Inv, NEW e \in Ends, AppReads(e) PROVE Inv'
<1> PICK o : o = Peer(e)
  OBVIOUS
<1>0. o \in Ends /\ o # e /\ Shape /\ Turns(e) /\ Queued(e) /\ Guess(e)
  BY PeerFacts DEF Inv
<1> PICK p, pc, got :
        /\ p = Head(app[e].inq)
        /\ pc = IF app[e].pc = "wait" THEN (IF p.t = "newkeys" THEN "use" ELSE "quit")
                ELSE IF p.t = "data" /\ e \in scene.quits /\ app[e].pc = "use" THEN "quit" ELSE app[e].pc
        /\ got = IF p.t = "data" THEN Append(app[e].got, p.n) ELSE app[e].got
  OBVIOUS
<1>1. /\ app[e].inq # <<>> /\ UNCHANGED <<scene, wire, up, hs, rl, kl>>
      /\ app' = [app EXCEPT ![e].inq = Tail(@), ![e].pc = pc, ![e].got = got]
  BY DEF AppReads
<1>2. /\ DOMAIN app' = Ends /\ app'[o] = app[o] /\ DOMAIN app'[e] = AppFields
      /\ app'[e].inq = Tail(app[e].inq) /\ app'[e].got = got /\ app'[e].wrote = app[e].wrote
  BY <1>0, <1>1 DEF Shape, AppFields
<1>3. IsASeq(Tail(app[e].inq))
  BY <1>0, <1>1, TailSeq DEF Shape
<1>4. IsASeq(got)
  <2>1. PICK S : app[e].got \in Seq(S)
    BY <1>0 DEF Shape, IsASeq
  <2> PICK U : U = S \cup {p.n}
    OBVIOUS
  <2>2. app[e].got \in Seq(U) /\ p.n \in U
    BY <2>1
  <2>3. Append(app[e].got, p.n) \in Seq(U)
    BY <2>2
  <2> QED
    BY <2>2, <2>3 DEF IsASeq
<1>5. Frame(e)
  BY <1>0, <1>1, <1>2, <1>3, <1>4 DEF Frame, Shape
<1>6. Turns(e)' /\ Queued(e)' /\ Guess(e)'
  BY <1>0, <1>1 DEF Turns, Queued, Guess, GuessDue
<1>7. InOrder(e)'
  <2>1. got = IF IsData(p) THEN Append(app[e].got, p.n) ELSE app[e].got
    BY DEF IsData
  <2> QED
    BY <1>1, <1>2, <1>5, <2>1, ReaderReads, Zenon DEF Listening
<1> QED
  BY <1>1, <1>2, <1>5, <1>6, <1>7, PeerUntouched, Combine, Zenon

LEMMA CloseReturnsInv == ASSUME Inv, NEW e \in Ends, CloseReturns(e) PROVE Inv'
<1> PICK o : o = Peer(e)
  OBVIOUS
<1>0. o \in Ends /\ o # e /\ Shape /\ Turns(e) /\ Queued(e) /\ Guess(e)
  BY PeerFacts DEF Inv
<1>1. UNCHANGED <<scene, wire, up, hs, rl, kl>> /\ app' = [app EXCEPT ![e].pc = "end"]
  BY DEF CloseReturns
<1>2. /\ DOMAIN app' = Ends /\ app'[o] = app[o] /\ DOMAIN app'[e] = AppFields
      /\ app'[e].inq = app[e].inq /\ app'[e].got = app[e].got /\ app'[e].wrote = app[e].wrote
  BY <1>0, <1>1 DEF Shape, AppFields
<1>3. Frame(e)
  BY <1>0, <1>1, <1>2 DEF Frame, Shape
<1>4. Turns(e)' /\ Queued(e)' /\ Guess(e)'
  BY <1>0, <1>1 DEF Turns, Queued, Guess, GuessDue
<1>5. InOrder(e)'
  BY <1>1, <1>2, <1>3, ReaderKeeps DEF Listening
<1> QED
  BY <1>1, <1>2, <1>3, <1>4, <1>5, PeerUntouched, Combine

\* What a write leaves alone.
LEMMA WriteFrame ==
    ASSUME Inv, NEW e \in Ends, UNCHANGED <<scene, up, rl, kl>>, DOMAIN wire' = Ends, wire'[e] = wire[e],
           DOMAIN hs' = Ends, hs'[Peer(e)] = hs[Peer(e)], DOMAIN hs'[e] = HsFields,
           hs'[e].sent = hs[e].sent, IsASeq(hs'[e].queue),
           hs[e].sent = <<>> => hs'[e].queue = <<>>,
           \A i \in DOMAIN hs'[e].queue : hs'[e].queue[i].t # "init",
           DOMAIN app' = Ends, app'[Peer(e)] = app[Peer(e)], DOMAIN app'[e] = AppFields,
           app'[e].got = app[e].got, app'[e].inq = app[e].inq, app'[e].wrote \in Nat
    PROVE  Frame(e) /\ Turns(e)' /\ Queued(e)' /\ Guess(e)' /\ InOrder(e)'
<1>0. Shape /\ Turns(e) /\ Guess(e)
  BY DEF Inv
<1>1. Frame(e)
  BY <1>0, PeerFacts DEF Frame, Shape
<1>2. Turns(e)' /\ Queued(e)' /\ Guess(e)'
  BY <1>0 DEF Turns, Queued, Guess, GuessDue
<1>3. InOrder(e)'
  BY <1>1, ReaderKeeps DEF Listening
<1> QED
  BY <1>1, <1>2, <1>3

LEMMA NextTyped ==
    ASSUME Inv, NEW e \in Ends, HasWrite(e)
    PROVE  NextWrite(e).t \in {"data", "ignore", "disconnect"} /\ app[e].wrote + 1 \in Nat
<1>1. scene[e].write \in Seq({"data", "ignore", "disconnect"}) /\ app[e].wrote \in Nat
  BY ScenariosAssumption DEF Inv, Shape
<1>2. app[e].wrote + 1 \in 1 .. Len(scene[e].write)
  BY <1>1 DEF HasWrite
<1>3. scene[e].write[app[e].wrote + 1] \in {"data", "ignore", "disconnect"}
  BY <1>1, <1>2
<1> QED
  BY <1>1, <1>3 DEF NextWrite, P

LEMMA PushPacketInv ==
    ASSUME Inv, NEW e \in Ends, HasWrite(e), hs[e].sent = <<>>, PushPacket(e), UNCHANGED <<scene, up, rd, rl, kl>>
    PROVE  Inv'
<1> PICK o : o = Peer(e)
  OBVIOUS
<1>0. o \in Ends /\ o # e /\ Shape /\ hs[e].queue = <<>>
  BY PeerFacts DEF Inv, Queued
<1> PICK p : p = NextWrite(e)
  OBVIOUS
<1>1. IsASeq(<<p>>) /\ DOMAIN <<p>> = {1} /\ <<p>>[1] = p /\ p.t # "init" /\ app[e].wrote + 1 \in Nat
  BY ShortSeq, NextTyped
<1>2. /\ DOMAIN wire' = Ends /\ wire'[e] = wire[e]
      /\ up[e] => Appended(o, <<p>>)
      /\ ~up[e] => wire'[o] = wire[o]
  BY <1>0, <1>1, PutAppends DEF PushPacket, Shape
<1>3. /\ DOMAIN hs' = Ends /\ hs'[o] = hs[o] /\ DOMAIN hs'[e] = HsFields
      /\ hs'[e].sent = hs[e].sent /\ hs'[e].queue = hs[e].queue
  BY <1>0 DEF PushPacket, Shape, HsFields
<1>4. /\ DOMAIN app' = Ends /\ app'[o] = app[o] /\ DOMAIN app'[e] = AppFields
      /\ app'[e].got = app[e].got /\ app'[e].inq = app[e].inq /\ app'[e].wrote = app[e].wrote + 1
  BY <1>0 DEF PushPacket, Shape, AppFields
<1>5. Frame(e) /\ Turns(e)' /\ Queued(e)' /\ Guess(e)' /\ InOrder(e)'
  BY <1>0, <1>1, <1>2, <1>3, <1>4, NoPackets, ShortSeq, WriteFrame
<1>6. \A c \in Nat : up[o] /\ Coming(o, c) => Coming(o, c)'
  BY <1>0, <1>2, <1>3, <1>4, <1>5, ComingPush
<1>7. Guessed(<<p>>)
  BY <1>1 DEF Guessed, Announces
<1> QED
  BY <1>1, <1>2, <1>5, <1>6, <1>7, PeerGuess, PeerInOrder, Combine

LEMMA GiveUpInv ==
    ASSUME Inv, NEW e \in Ends, GiveUp(e), UNCHANGED <<scene, up, rd, rl, kl>>
    PROVE  Inv'
<1> PICK o : o = Peer(e)
  OBVIOUS
<1>0. o \in Ends /\ o # e /\ Shape /\ Queued(e) /\ Len(scene[e].write) \in Nat
  BY PeerFacts, DataTyped DEF Inv
<1>1. /\ UNCHANGED <<wire, hs>> /\ DOMAIN app' = Ends /\ app'[o] = app[o] /\ DOMAIN app'[e] = AppFields
      /\ app'[e].got = app[e].got /\ app'[e].inq = app[e].inq /\ app'[e].wrote = Len(scene[e].write)
  BY <1>0 DEF GiveUp, Shape, AppFields
<1>2. Frame(e) /\ Turns(e)' /\ Queued(e)' /\ Guess(e)' /\ InOrder(e)'
  BY <1>0, <1>1, WriteFrame DEF Shape, Queued
<1>3. ~HasWrite(e)'
  BY <1>0, <1>1 DEF HasWrite
<1>4. \A c \in Nat : up[o] /\ Coming(o, c) => Coming(o, c)'
  BY <1>1, <1>2, <1>3, NoPackets, ComingKept
<1> QED
  BY <1>1, <1>2, <1>4, NoPackets, PeerGuess, PeerInOrder, Combine

LEMMA WritePacketInv == ASSUME Inv, NEW e \in Ends, WritePacket(e) PROVE Inv'
<1> PICK o : o = Peer(e)
  OBVIOUS
<1>0. o \in Ends /\ o # e /\ Shape /\ Queued(e)
  BY PeerFacts DEF Inv
<1>1. HasWrite(e) /\ UNCHANGED <<scene, up, rd, rl, kl>>
  BY DEF WritePacket
<1>2. CASE hs[e].werr
  BY <1>1, <1>2, GiveUpInv DEF WritePacket
<1>3. CASE ~hs[e].werr /\ hs[e].sent = <<>>
  BY <1>1, <1>3, PushPacketInv DEF WritePacket
<1>4. CASE ~hs[e].werr /\ hs[e].sent # <<>> /\ Len(hs[e].queue) < MaxPending
  <2> PICK p, q : p = NextWrite(e) /\ q = Append(hs[e].queue, NextWrite(e))
    OBVIOUS
  <2>1. hs' = [hs EXCEPT ![e].queue = q] /\ app' = [app EXCEPT ![e].wrote = @ + 1] /\ wire' = wire
    BY <1>4 DEF WritePacket
  <2>2. /\ DOMAIN hs' = Ends /\ hs'[o] = hs[o] /\ DOMAIN hs'[e] = HsFields
        /\ hs'[e].sent = hs[e].sent /\ hs'[e].queue = q
    BY <1>0, <2>1 DEF Shape, HsFields
  <2>3. /\ DOMAIN app' = Ends /\ app'[o] = app[o] /\ DOMAIN app'[e] = AppFields
        /\ app'[e].got = app[e].got /\ app'[e].inq = app[e].inq /\ app'[e].wrote = app[e].wrote + 1
    BY <1>0, <2>1 DEF Shape, AppFields
  <2>4. p.t # "init" /\ app[e].wrote + 1 \in Nat
    BY <1>1, NextTyped
  <2>5. IsASeq(q) /\ \A i \in DOMAIN q : q[i].t # "init"
    <3> PICK w : w = hs[e].queue
      OBVIOUS
    <3>1. PICK S : w \in Seq(S)
      BY <1>0 DEF Shape, IsASeq
    <3> PICK U : U = S \cup {p}
      OBVIOUS
    <3>2. w \in Seq(U) /\ p \in U
      BY <3>1
    <3>3. q \in Seq(U) /\ \A i \in DOMAIN q : q[i] = p \/ (i \in DOMAIN w /\ q[i] = w[i])
      BY <3>2
    <3>4. \A i \in DOMAIN w : w[i].t # "init"
      BY <1>0 DEF Queued
    <3> QED
      BY <2>4, <3>3, <3>4 DEF IsASeq
  <2>6. Frame(e) /\ Turns(e)' /\ Queued(e)' /\ Guess(e)' /\ InOrder(e)'
    <3>1. DOMAIN wire' = Ends /\ wire'[e] = wire[e]
      BY <1>0, <2>1 DEF Shape
    <3> QED
      BY <1>1, <1>4, <2>2, <2>3, <2>4, <2>5, <3>1, WriteFrame
  <2>7. \A c \in Nat : up[o] /\ Coming(o, c) => Coming(o, c)'
    BY <1>1, <2>1, <2>2, <2>3, <2>6, ComingQueue
  <2> QED
    BY <2>1, <2>6, <2>7, NoPackets, PeerGuess, PeerInOrder, Combine
<1>5. CASE ~hs[e].werr /\ hs[e].sent # <<>> /\ ~(Len(hs[e].queue) < MaxPending)
  <2>1. app' = [app EXCEPT ![e].blocked = TRUE] /\ UNCHANGED <<wire, hs>>
    BY <1>5 DEF WritePacket
  <2>2. /\ DOMAIN app' = Ends /\ app'[o] = app[o] /\ DOMAIN app'[e] = AppFields
        /\ app'[e].got = app[e].got /\ app'[e].inq = app[e].inq /\ app'[e].wrote = app[e].wrote
    BY <1>0, <2>1 DEF Shape, AppFields
  <2>3. Frame(e) /\ Turns(e)' /\ Queued(e)' /\ Guess(e)' /\ InOrder(e)'
    BY <1>0, <1>1, <2>1, <2>2, WriteFrame DEF Shape, Queued
  <2> QED
    BY <1>1, <2>1, <2>2, <2>3, PeerUntouched, Combine
<1> QED
  BY <1>2, <1>3, <1>4, <1>5

LEMMA WriteResumesInv == ASSUME Inv, Waiting, NEW e \in Ends, WriteResumes(e) PROVE Inv'
<1>1. HasWrite(e) /\ UNCHANGED <<scene, up, rd, rl, kl>>
  BY DEF WriteResumes, Waiting
<1>2. CASE hs[e].werr
  BY <1>1, <1>2, GiveUpInv DEF WriteResumes
<1>3. CASE ~hs[e].werr
  BY <1>1, <1>3, PushPacketInv DEF WriteResumes
<1> QED
  BY <1>2, <1>3

LEMMA LibraryKeepsApp == ASSUME NEW e \in Ends, Library(e), ~PushIncoming(e) PROVE UNCHANGED <<scene, app>>
<1>1. ReadPacket(e) => UNCHANGED <<scene, app>>
  BY DEF ReadPacket
<1>2. ExchangeSeen(e) \/ ReadLoopEnds(e) \/ SelectClosed(e) => UNCHANGED <<scene, app>>
  BY DEF ExchangeSeen, ReadLoopEnds, SelectClosed
<1>3. SelectRequest(e) \/ SelectStart(e) => UNCHANGED <<scene, app>>
  BY DEF SelectRequest, SelectStart, Turn
<1>4. Negotiate(e) \/ KexIgnores(e) \/ SkipGuess(e) => UNCHANGED <<scene, app>>
  BY DEF Negotiate, KexIgnores, SkipGuess
<1>5. KexSends(e) \/ KexReceives(e) => UNCHANGED <<scene, app>>
  BY DEF KexSends, KexReceives
<1>6. SendNewKeys(e) => UNCHANGED <<scene, app>>
  BY DEF SendNewKeys
<1>7. TakeNewKeys(e) => UNCHANGED <<scene, app>>
  BY DEF TakeNewKeys
<1>8. CloseConn(e) \/ DrainStart(e) \/ KexLoopDone(e) => UNCHANGED <<scene, app>>
  BY DEF CloseConn, DrainStart, KexLoopDone
<1> QED
  BY <1>1, <1>2, <1>3, <1>4, <1>5, <1>6, <1>7, <1>8 DEF Library

LEMMA WaitingKept == ASSUME Inv, Waiting, [Next]_vars PROVE Waiting'
<1>0. Shape
  BY DEF Inv
<1>1. CASE UNCHANGED <<scene, app>>
  BY <1>1 DEF Waiting, HasWrite
<1> SUFFICES ASSUME NEW e \in Ends,
                    \/ PushIncoming(e) \/ AppReads(e) \/ AppCloses(e) \/ CloseReturns(e)
                    \/ WritePacket(e) \/ WriteResumes(e)
             PROVE  Waiting'
  BY <1>1, LibraryKeepsApp DEF Next, vars
<1>2. ASSUME scene' = scene, \A f \in Ends : app'[f].wrote = app[f].wrote /\ app'[f].blocked = app[f].blocked
      PROVE  Waiting'
  BY <1>2 DEF Waiting, HasWrite
<1>3. ASSUME scene' = scene, \A f \in Ends \ {e} : app'[f] = app[f], ~app'[e].blocked \/ HasWrite(e)'
      PROVE  Waiting'
  BY <1>3 DEF Waiting, HasWrite
<1>4. CASE PushIncoming(e)
  BY <1>0, <1>2, <1>4 DEF PushIncoming, Shape, AppFields
<1>5. CASE AppReads(e)
  BY <1>0, <1>2, <1>5 DEF AppReads, Shape, AppFields
<1>6. CASE AppCloses(e)
  BY <1>0, <1>2, <1>6 DEF AppCloses, Shape, AppFields
<1>7. CASE CloseReturns(e)
  BY <1>0, <1>2, <1>7 DEF CloseReturns, Shape, AppFields
<1>8. ASSUME PushPacket(e) \/ GiveUp(e), scene' = scene PROVE Waiting'
  <2>1. /\ \A f \in Ends \ {e} : app'[f] = app[f]
        /\ ~app'[e].blocked
    BY <1>0, <1>8 DEF PushPacket, GiveUp, Shape, AppFields
  <2> QED
    BY <1>3, <1>8, <2>1
<1>9. CASE WriteResumes(e)
  BY <1>8, <1>9 DEF WriteResumes
<1>10. CASE WritePacket(e)
  <2>1. scene' = scene /\ HasWrite(e) /\ ~app[e].blocked
    BY <1>10 DEF WritePacket
  <2>2. CASE app' = [app EXCEPT ![e].wrote = @ + 1]
    <3>1. \A f \in Ends \ {e} : app'[f] = app[f]
      BY <1>0, <2>2 DEF Shape
    <3>2. app'[e].blocked = app[e].blocked
      BY <1>0, <2>2 DEF Shape, AppFields
    <3> QED
      BY <1>3, <2>1, <3>1, <3>2
  <2>3. CASE app' = [app EXCEPT ![e].blocked = TRUE]
    <3>1. \A f \in Ends \ {e} : app'[f] = app[f]
      BY <1>0, <2>3 DEF Shape
    <3>2. app'[e].wrote = app[e].wrote
      BY <1>0, <2>3 DEF Shape, AppFields
    <3> QED
      BY <1>3, <2>1, <3>1, <3>2 DEF HasWrite
  <2> QED
    BY <1>8, <1>10, <2>1, <2>2, <2>3 DEF WritePacket
<1> QED
  BY <1>4, <1>5, <1>6, <1>7, <1>9, <1>10

-----------------------------------------------------------------------------
(* The theorem                                                             *)

LEMMA NextInv == ASSUME Inv, Waiting, [Next]_vars PROVE Inv'
<1>1. CASE UNCHANGED vars
  <2>1. UNCHANGED <<scene, wire, up, hs, rl, kl, app>>
    BY <1>1 DEF vars
  <2>2. Shape'
    BY <2>1 DEF Inv, Shape
  <2>3. ASSUME NEW e \in Ends PROVE Turns(e)' /\ Queued(e)' /\ Guess(e)'
    BY <2>1 DEF Inv, Turns, Queued, Guess, GuessDue
  <2>4. ASSUME NEW e \in Ends PROVE InOrder(e)'
    <3>1. DataAt(Peer(e))' = DataAt(Peer(e))
      BY <2>1 DEF DataAt
    <3>2. \A c : (Arrived(e, c) => Arrived(e, c)') /\ (Coming(e, c) => Coming(e, c)')
      BY <2>1, <3>1 DEF Arrived, Coming, HasWrite
    <3> QED
      BY <2>1, <3>2 DEF Inv, InOrder, Listening
  <2> QED
    BY <2>2, <2>3, <2>4 DEF Inv
<1>2. ASSUME NEW e \in Ends, Library(e) PROVE Inv'
  <2>1. ReadPacket(e) \/ PushIncoming(e) \/ ExchangeSeen(e) \/ ReadLoopEnds(e) => Inv'
    BY ReadPacketInv, PushIncomingInv, ExchangeSeenInv, ReadLoopEndsInv
  <2>2. SelectRequest(e) \/ SelectStart(e) \/ SelectClosed(e) => Inv'
    BY SelectRequestInv, SelectStartInv, SelectClosedInv
  <2>3. Negotiate(e) \/ KexIgnores(e) \/ SkipGuess(e) \/ KexSends(e) \/ KexReceives(e) => Inv'
    BY NegotiateInv, KexIgnoresInv, SkipGuessInv, KexSendsInv, KexReceivesInv
  <2>4. SendNewKeys(e) \/ TakeNewKeys(e) \/ CloseConn(e) \/ DrainStart(e) \/ KexLoopDone(e) => Inv'
    BY SendNewKeysInv, TakeNewKeysInv, CloseConnInv, DrainStartInv, KexLoopDoneInv
  <2> QED
    BY <1>2, <2>1, <2>2, <2>3, <2>4 DEF Library
<1>3. ASSUME NEW e \in Ends,
             AppReads(e) \/ AppCloses(e) \/ CloseReturns(e) \/ WritePacket(e) \/ WriteResumes(e)
      PROVE  Inv'
  BY <1>3, AppReadsInv, AppClosesInv, CloseReturnsInv, WritePacketInv, WriteResumesInv
<1> QED
  BY <1>1, <1>2, <1>3 DEF Next

LEMMA InitInv == ASSUME Init PROVE Inv /\ Waiting
<1>0. IsASeq(<<>>) /\ DOMAIN <<>> = {} /\ NoData(<<>>)
  BY NoPackets, ShortSeq
<1>1. /\ scene \in Scenarios /\ wire = [e \in Ends |-> <<>>] /\ up = [e \in Ends |-> TRUE]
      /\ rl = [e \in Ends |-> [pc |-> "read", first |-> TRUE, pkt |-> <<>>, done |-> "none"]]
      /\ app = [e \in Ends |-> [pc |-> "wait", wrote |-> 0, blocked |-> FALSE, got |-> <<>>, inq |-> <<>>]]
  BY DEF Init
<1>2. /\ DOMAIN hs = Ends
      /\ \A e \in Ends : DOMAIN hs[e] = HsFields /\ hs[e].sent = <<>> /\ hs[e].queue = <<>>
  BY DEF Init, HsFields
<1>3. /\ DOMAIN kl = Ends
      /\ \A e \in Ends : DOMAIN kl[e] = KlFields /\ kl[e].pc = "select" /\ kl[e].req = <<>> /\ ~kl[e].skip
  BY DEF Init, KlFields
<1>4. /\ DOMAIN wire = Ends /\ DOMAIN up = Ends /\ DOMAIN rl = Ends /\ DOMAIN app = Ends
      /\ \A e \in Ends :
            /\ wire[e] = <<>> /\ DOMAIN rl[e] = RlFields /\ rl[e].pc = "read" /\ rl[e].pkt = <<>>
            /\ rl[e].done = "none"
            /\ DOMAIN app[e] = AppFields /\ app[e].wrote = 0 /\ ~app[e].blocked
            /\ app[e].got = <<>> /\ app[e].inq = <<>>
  BY <1>1 DEF RlFields, AppFields
<1>5. Shape
  BY <1>0, <1>1, <1>2, <1>3, <1>4 DEF Shape
<1>6. \A e \in Ends : Turns(e) /\ Queued(e)
  BY <1>0, <1>2, <1>3, <1>4 DEF Turns, Queued
<1>7. \A e \in Ends : Guess(e)
  BY <1>3, <1>4, NoPackets DEF Guess, GuessDue
<1>8. ASSUME NEW e \in Ends PROVE InOrder(e)
  <2> PICK D : D = DataAt(Peer(e))
    OBVIOUS
  <2>1. D \in SUBSET Nat /\ \A n \in D : n >= 1
    BY <1>5, PeerFacts, DataTyped DEF DataAt
  <2>2. ReadUpTo(D, <<>>, 0)
    BY <1>0, <2>1 DEF ReadUpTo
  <2>3. Holds(D, <<>>, 0, 0)
    BY <1>0, <2>1, HoldsNothing
  <2>4. Arrived(e, 0)
    BY <1>4, <2>2, <2>3 DEF Arrived
  <2>5. Coming(e, 0)
    BY <1>2, <1>4, <2>3, PeerFacts DEF Coming
  <2> QED
    BY <2>4, <2>5 DEF InOrder
<1>9. Waiting
  BY <1>4 DEF Waiting
<1> QED
  BY <1>5, <1>6, <1>7, <1>8, <1>9 DEF Inv

\* What was read is what was written up to some number, in order.
LEMMA InvInOrder == ASSUME Inv PROVE PacketsInOrder
<1> SUFFICES ASSUME NEW e \in Ends
             PROVE  \E last \in 0 .. Len(scene[Peer(e)].write) :
                       /\ {app[e].got[i] : i \in DOMAIN app[e].got} = {n \in DataAt(Peer(e)) : n <= last}
                       /\ \A i, j \in DOMAIN app[e].got : i < j => app[e].got[i] < app[e].got[j]
  BY DEF PacketsInOrder
<1> PICK D, got, l : D = DataAt(Peer(e)) /\ got = app[e].got /\ l = Len(scene[Peer(e)].write)
  OBVIOUS
<1>1. l \in Nat /\ D \in SUBSET Nat /\ \A n \in D : n <= l
  BY DataTyped, PeerFacts DEF Inv, DataAt
<1>2. PICK a \in Nat : ReadUpTo(D, got, a)
  BY DEF Inv, InOrder, Arrived
<1> PICK last : last = IF a <= l THEN a ELSE l
  OBVIOUS
<1>3. last \in 0 .. l /\ {n \in D : n <= last} = {n \in D : n <= a}
  BY <1>1, <1>2
<1> QED
  BY <1>2, <1>3 DEF ReadUpTo

\* writePacket and kexLoop: what an application reads is what the other wrote,
\* in order, none left out and none doubled, however the writes fall between
\* being sent at once, queued during a key exchange and waiting for its end,
\* and whichever goroutine, readLoop or kexLoop, takes packets from the
\* connection: for every scenario, channel capacity, queue length and rekey
\* threshold.
THEOREM PacketsInOrderCorrect == Spec => []PacketsInOrder
<1>1. Init => Inv /\ Waiting
  BY InitInv
<1>2. Inv /\ Waiting /\ [Next]_vars => Inv' /\ Waiting'
  BY NextInv, WaitingKept
<1>3. Inv => PacketsInOrder
  BY InvInOrder
<1> QED
  BY <1>1, <1>2, <1>3, PTL DEF Spec

-----------------------------------------------------------------------------
(* Numbers, and the states between packets                                 *)

LEMMA LeastNumber ==
    ASSUME NEW T, T \subseteq Nat, T # {}
    PROVE  \E m \in T : \A k \in T : m <= k
<1> DEFINE R == OpToRel(<, Nat)
<1>1. IsWellFoundedOn(R, Nat)
  BY NatLessThanWellFounded, Zenon
<1> HIDE DEF R
<1>2. PICK m \in T : \A y \in T : ~ (<<y, m>> \in R)
  BY ONLY <1>1, T \subseteq Nat, T # {}, WFMin
<1>3. \A y \in T : y < m => <<y, m>> \in R
  BY DEF R, OpToRel
<1>4. ASSUME NEW k \in T PROVE m <= k
  <2>1. k \in Nat /\ m \in Nat /\ ~(k < m)
    BY <1>2, <1>3
  <2> QED
    BY <2>1
<1> QED
  BY <1>4

LEMMA Induction ==
    ASSUME NEW S, 0 \in S, \A n \in Nat : n \in S => n + 1 \in S
    PROVE  Nat \subseteq S
<1> SUFFICES ASSUME NEW T, T = {n \in Nat : n \notin S}, T # {} PROVE FALSE
  OBVIOUS
<1>1. PICK m \in T : \A k \in T : m <= k
  BY LeastNumber
<1>2. m \in Nat /\ m # 0
  BY <1>1
<1>3. m - 1 \in Nat /\ m - 1 \notin T
  BY <1>1, <1>2
<1>4. m - 1 \in S
  BY <1>3
<1> QED
  BY <1>1, <1>2, <1>3, <1>4

\* The states between packets are those that writing them one by one gives.
LEMMA StatesDef ==
    ASSUME NEW c, NEW ps, NEW strict, Len(ps) \in Nat
    PROVE  LET st == States(c, ps, strict) IN
           st[0] = c /\ \A i \in 1 .. Len(ps) : st[i] = Advance(st[i - 1], ps[i], strict)
<1> PICK l : l = Len(ps)
  OBVIOUS
<1> DEFINE Next1(x, i) == WriteOne(x, ps[i], strict).state
<1> DEFINE G(g, n) == g = [i \in 0 .. n |-> IF i = 0 THEN c ELSE Next1(g[i - 1], i)]
<1> HIDE DEF Next1
<1>1. \A n \in Nat : \E g : G(g, n)
  <2> DEFINE S == {n \in Nat : \E g : G(g, n)}
  <2>1. 0 \in S
    <3>1. G([i \in 0 .. 0 |-> c], 0)
      OBVIOUS
    <3> QED
      BY <3>1
  <2>2. ASSUME NEW n \in Nat, n \in S PROVE n + 1 \in S
    <3>1. PICK g : G(g, n)
      BY <2>2
    <3> PICK h : h = [i \in 0 .. n + 1 |-> IF i = n + 1 THEN Next1(g[n], n + 1) ELSE g[i]]
      OBVIOUS
    <3>2. G(h, n + 1)
      BY <3>1
    <3> QED
      BY <3>2
  <2> HIDE DEF S
  <2>3. Nat \subseteq S
    BY <2>1, <2>2, Induction
  <2> QED
    BY <2>3 DEF S
<1>2. PICK g : G(g, l)
  BY <1>1
<1>3. g = [i \in 0 .. l |-> IF i = 0 THEN c ELSE Next1(g[i - 1], i)]
  BY <1>2
<1> PICK st : st = States(c, ps, strict)
  OBVIOUS
<1>4. st = [i \in 0 .. l |-> IF i = 0 THEN c ELSE Next1(st[i - 1], i)]
  BY <1>3 DEF States, Next1
<1>5. \A x, i : Next1(x, i) = Advance(x, ps[i], strict)
  BY DEF Next1, WriteOne
<1>6. st[0] = c
  BY ONLY <1>4, Len(ps) \in Nat, l = Len(ps)
<1>7. ASSUME NEW i \in 1 .. l PROVE st[i] = Next1(st[i - 1], i)
  BY ONLY <1>4, <1>7, Len(ps) \in Nat, l = Len(ps)
<1> QED
  BY <1>5, <1>6, <1>7

LEMMA AdvancePlain ==
    ASSUME NEW c, Sound(c), NEW p, p.t # "newkeys", NEW strict
    PROVE  LET d == Advance(c, p, strict) IN
           Sound(d) /\ Follows(c, d, p.t, strict) /\ d.pending = c.pending
  BY DEF Sound, CsFields, Advance, Follows

LEMMA AdvanceKeys ==
    ASSUME NEW c, Sound(c), NEW p, p.t = "newkeys", NEW strict, NEW new, c.pending = <<new>>, new.mode \in Modes
    PROVE  LET d == Advance(c, p, strict) IN
           /\ Sound(d) /\ Follows(c, d, p.t, strict) /\ d.pending = <<>>
           /\ d.mode = new.mode /\ d.key = new.key
<1>1. Head(c.pending) = new
  OBVIOUS
<1> QED
  BY <1>1 DEF Sound, CsFields, Advance, Follows

\* Packets other than newkeys only count.
LEMMA PlainStates ==
    ASSUME NEW c, Sound(c), NEW ps, IsASeq(ps), NEW strict, \A i \in DOMAIN ps : ps[i].t # "newkeys"
    PROVE  LET st == States(c, ps, strict) IN
           /\ Len(ps) \in Nat /\ DOMAIN ps = 1 .. Len(ps) /\ st[0] = c
           /\ \A i \in 0 .. Len(ps) :
                /\ Sound(st[i]) /\ st[i].mode = c.mode /\ st[i].key = c.key /\ st[i].pending = c.pending
                /\ st[i].cnt = c.cnt + i /\ st[i].seq = c.seq + i
           /\ \A i \in 1 .. Len(ps) : Follows(st[i - 1], st[i], ps[i].t, strict)
<1> PICK l, st : l = Len(ps) /\ st = States(c, ps, strict)
  OBVIOUS
<1>1. l \in Nat /\ DOMAIN ps = 1 .. l
  BY DEF IsASeq
<1>2. st[0] = c /\ \A i \in 1 .. l : st[i] = Advance(st[i - 1], ps[i], strict)
  BY <1>1, StatesDef
<1> DEFINE Good(i) == /\ Sound(st[i]) /\ st[i].mode = c.mode /\ st[i].key = c.key /\ st[i].pending = c.pending
                      /\ st[i].cnt = c.cnt + i /\ st[i].seq = c.seq + i
           S == {i \in Nat : i <= l => Good(i)}
<1>3. 0 \in S
  BY <1>2 DEF Sound
<1>4. ASSUME NEW n \in Nat, n \in S PROVE n + 1 \in S
  <2> SUFFICES ASSUME n + 1 <= l PROVE Good(n + 1)
    OBVIOUS
  <2>1. Good(n) /\ n + 1 \in 1 .. l /\ (n + 1) - 1 = n
    BY <1>1, <1>4
  <2>2. st[n + 1] = Advance(st[n], ps[n + 1], strict) /\ ps[n + 1].t # "newkeys"
    BY <1>1, <1>2, <2>1
  <2>3. Sound(st[n]) /\ c.cnt \in Nat /\ c.seq \in Nat
    BY <2>1 DEF Sound
  <2>4. Sound(st[n + 1]) /\ Follows(st[n], st[n + 1], ps[n + 1].t, strict) /\ st[n + 1].pending = st[n].pending
    BY <2>2, <2>3, AdvancePlain
  <2>5. /\ st[n + 1].mode = st[n].mode /\ st[n + 1].key = st[n].key
        /\ st[n + 1].cnt = st[n].cnt + 1 /\ st[n + 1].seq = st[n].seq + 1
    BY <2>2, <2>4 DEF Follows
  <2>6. \A x \in Nat : (x + n) + 1 = x + (n + 1)
    OBVIOUS
  <2> QED
    BY ONLY <2>1, <2>3, <2>4, <2>5, <2>6
<1> HIDE DEF S
<1>5. Nat \subseteq S
  BY <1>3, <1>4, Induction
<1>6. \A i \in 0 .. l : Good(i)
  BY <1>1, <1>5 DEF S
<1>7. ASSUME NEW i \in 1 .. l PROVE Follows(st[i - 1], st[i], ps[i].t, strict)
  <2>1. Sound(st[i - 1]) /\ ps[i].t # "newkeys" /\ st[i] = Advance(st[i - 1], ps[i], strict)
    BY <1>1, <1>2, <1>6
  <2> QED
    BY <2>1, AdvancePlain
<1> QED
  BY <1>1, <1>2, <1>6, <1>7

-----------------------------------------------------------------------------
(* Packets on the way                                                      *)

LEMMA SameTag ==
    ASSUME NEW c, NEW d, Same(c, d)
    PROVE  Tag(c) = Tag(d)
  BY DEF Same, Tag, NoneWrite, StreamWrite, CbcWrite, GcmWrite, ChachaWrite

LEMMA SameFollows ==
    ASSUME NEW c, NEW d, NEW x, NEW t, NEW strict, Same(c, d), Follows(d, x, t, strict)
    PROVE  Follows(c, x, t, strict)
  BY DEF Same, Follows

LEMMA WriteAllTags ==
    ASSUME NEW c, NEW ps, NEW strict, IsASeq(ps)
    PROVE  LET x == WriteAll(c, ps, strict)  st == States(c, ps, strict) IN
           /\ x.state = st[Len(ps)]
           /\ \A i \in 1 .. Len(ps) : x.out[i].tag = Tag(st[i - 1])
<1> PICK st : st = States(c, ps, strict)
  OBVIOUS
<1>1. WriteAll(c, ps, strict) = [state |-> st[Len(ps)], out |-> [i \in 1 .. Len(ps) |-> WriteOne(st[i - 1], ps[i], strict).out]]
  BY DEF WriteAll
<1>2. \A i \in 1 .. Len(ps) : WriteOne(st[i - 1], ps[i], strict).out.tag = Tag(st[i - 1])
  BY DEF WriteOne
<1> QED
  BY <1>1, <1>2

LEMMA LinkEmpty ==
    ASSUME NEW c, Sound(c), NEW d, Same(c, d), NEW strict
    PROVE  Link(<<>>, c, d, strict)
<1> PICK st : st = [i \in 0 .. 0 |-> c]
  OBVIOUS
<1>1. st[0] = c /\ Len(<<>>) = 0
  OBVIOUS
<1>2. Path(st, <<>>, c, d, strict)
  BY <1>1 DEF Path, Same, Sound
<1> QED
  BY <1>2 DEF Link

\* Nothing of w tells whether numbers are reset, if it holds no newkeys.
LEMMA LinkStrict ==
    ASSUME NEW w, IsASeq(w), Without(w, "newkeys"), NEW c, NEW d, NEW s, NEW t, Link(w, c, d, s)
    PROVE  Link(w, c, d, t)
<1>1. PICK st : Path(st, w, c, d, s)
  BY DEF Link
<1>2. \A i \in 1 .. Len(w) : w[i].t # "newkeys"
  BY DEF Without, IsASeq
<1>3. Path(st, w, c, d, t)
  BY <1>1, <1>2 DEF Path, Follows
<1> QED
  BY <1>3 DEF Link

LEMMA LinkSame ==
    ASSUME NEW w, NEW b, NEW c, NEW d, NEW x, NEW s, Same(b, c), Same(d, x), Link(w, c, d, s)
    PROVE  Link(w, b, x, s)
<1>1. PICK st : Path(st, w, c, d, s)
  BY DEF Link
<1>2. Path(st, w, b, x, s)
  BY <1>1 DEF Path, Same
<1> QED
  BY <1>2 DEF Link

\* What is written goes on from there.
LEMMA LinkWrite ==
    ASSUME NEW w, IsASeq(w), NEW c, NEW d, NEW strict, Link(w, c, d, strict),
           NEW x, Same(d, x), NEW ps, IsASeq(ps),
           LET st == States(x, ps, strict) IN
             /\ st[0] = x
             /\ \A i \in 0 .. Len(ps) : Sound(st[i])
             /\ \A i \in 1 .. Len(ps) : Follows(st[i - 1], st[i], ps[i].t, strict)
    PROVE  Link(w \o WriteAll(x, ps, strict).out, c, WriteAll(x, ps, strict).state, strict)
<1> PICK out, k, l, q : out = WriteAll(x, ps, strict).out /\ k = Len(w) /\ l = Len(ps) /\ q = States(x, ps, strict)
  OBVIOUS
<1>1. /\ k \in Nat /\ l \in Nat /\ Len(w \o out) = k + l
      /\ \A i \in 1 .. k : (w \o out)[i] = w[i]
      /\ \A i \in 1 .. l : (w \o out)[k + i] = out[i]
  <2>1. IsASeq(out) /\ Len(out) = l
    BY WriteAllOut
  <2> QED
    BY ONLY <2>1, IsASeq(w), k = Len(w), ConcatSeq
<1>2. /\ \A i \in 1 .. l : out[i].tag = Tag(q[i - 1]) /\ out[i].t = ps[i].t
      /\ WriteAll(x, ps, strict).state = q[l]
  BY WriteAllOut, WriteAllTags
<1>3. PICK p : Path(p, w, c, d, strict)
  BY DEF Link
<1> PICK st : st = [i \in 0 .. k + l |-> IF i <= k THEN p[i] ELSE q[i - k]]
  OBVIOUS
<1>4. Same(p[k], q[0])
  BY <1>3 DEF Path, Same
<1>5. /\ \A i \in 0 .. k : st[i] = p[i]
      /\ \A i \in 1 .. l : st[k + i] = q[i]
  <2>1. ASSUME NEW i \in 0 .. k PROVE st[i] = p[i]
    BY <1>1
  <2>2. ASSUME NEW i \in 1 .. l PROVE st[k + i] = q[i]
    <3>1. k + i \in 0 .. k + l /\ ~(k + i <= k) /\ (k + i) - k = i
      BY <1>1
    <3> QED
      BY <3>1
  <2> QED
    BY <2>1, <2>2
<1>6. \A i \in 0 .. k + l : st[i].mode \in Modes /\ st[i].cnt \in Nat /\ st[i].seq \in Nat
  <2>1. \A i \in 0 .. k : p[i].mode \in Modes /\ p[i].cnt \in Nat /\ p[i].seq \in Nat
    BY <1>3 DEF Path
  <2>2. \A i \in 0 .. l : q[i].mode \in Modes /\ q[i].cnt \in Nat /\ q[i].seq \in Nat
    BY DEF Sound
  <2>3. \A i \in 0 .. k + l : i \in 0 .. k \/ (i - k \in 1 .. l /\ k + (i - k) = i)
    BY <1>1
  <2>4. \A i \in 0 .. k + l : (st[i] = p[i] /\ i \in 0 .. k) \/ (st[i] = q[i - k] /\ i - k \in 0 .. l)
    BY <1>5, <2>3, <1>1
  <2> QED
    BY <2>1, <2>2, <2>4
<1>7. Same(c, st[0]) /\ Same(st[k + l], q[l])
  <2>1. Same(c, st[0])
    BY <1>1, <1>3, <1>5 DEF Path
  <2>2. CASE l = 0
    <3>1. k + l = k /\ st[k] = p[k]
      BY <1>1, <1>5, <2>2
    <3> QED
      BY <1>4, <2>1, <2>2, <3>1
  <2>3. CASE l # 0
    <3>1. st[k + l] = q[l]
      BY <1>1, <1>5, <2>3
    <3> QED
      BY ONLY <2>1, <3>1 DEF Same
  <2> QED
    BY <2>1, <2>2, <2>3
<1>8. ASSUME NEW i \in 1 .. k + l
      PROVE  (w \o out)[i].tag = Tag(st[i - 1]) /\ Follows(st[i - 1], st[i], (w \o out)[i].t, strict)
  <2>1. CASE i \in 1 .. k
    BY <1>1, <1>3, <1>5, <2>1 DEF Path
  <2>2. CASE i = k + 1 /\ 1 \in 1 .. l
    <3>1. st[i - 1] = p[k] /\ st[i] = q[1] /\ (w \o out)[i] = out[1]
      BY <1>1, <1>5, <2>2
    <3>2. out[1].tag = Tag(q[0]) /\ Follows(q[0], q[1], out[1].t, strict)
      BY <1>2, <2>2
    <3> QED
      BY <1>4, <3>1, <3>2, SameTag, SameFollows
  <2>3. CASE i - k \in 2 .. l
    <3> PICK j : j = i - k
      OBVIOUS
    <3>1. j \in 1 .. l /\ j - 1 \in 1 .. l /\ i = k + j /\ i - 1 = k + (j - 1)
      BY <1>1, <2>3
    <3>2. st[i - 1] = q[j - 1] /\ st[i] = q[j] /\ (w \o out)[i] = out[j]
      BY <1>1, <1>5, <3>1
    <3>3. out[j].tag = Tag(q[j - 1]) /\ Follows(q[j - 1], q[j], out[j].t, strict)
      BY <1>2, <3>1
    <3> QED
      BY <3>2, <3>3
  <2>4. i \in 1 .. k \/ (i = k + 1 /\ 1 \in 1 .. l) \/ i - k \in 2 .. l
    BY <1>1, <1>8
  <2> QED
    BY <2>1, <2>2, <2>3, <2>4
<1>9. Path(st, w \o out, c, q[l], strict)
  BY <1>1, <1>6, <1>7, <1>8 DEF Path
<1> QED
  BY <1>2, <1>9 DEF Link

\* The writer's key is the one after the last newkeys.
LEMMA PathKeeps ==
    ASSUME NEW st, NEW w, NEW c, NEW d, NEW s, IsASeq(w), Path(st, w, c, d, s),
           NEW k \in 0 .. Len(w), \A i \in k + 1 .. Len(w) : w[i].t # "newkeys"
    PROVE  st[k].mode = d.mode /\ st[k].key = d.key
<1> PICK l : l = Len(w)
  OBVIOUS
<1>1. l \in Nat
  BY DEF IsASeq
<1> DEFINE S == {n \in Nat : k + n <= l => st[k + n].mode = st[k].mode /\ st[k + n].key = st[k].key}
<1>2. 0 \in S
  BY <1>1
<1>3. ASSUME NEW n \in Nat, n \in S PROVE n + 1 \in S
  <2> SUFFICES ASSUME k + (n + 1) <= l
               PROVE  st[k + (n + 1)].mode = st[k].mode /\ st[k + (n + 1)].key = st[k].key
    OBVIOUS
  <2> PICK j : j = k + (n + 1)
    OBVIOUS
  <2>1. j \in k + 1 .. l /\ j \in 1 .. l /\ j - 1 = k + n /\ k + n <= l
    BY <1>1
  <2>2. st[j - 1].mode = st[k].mode /\ st[j - 1].key = st[k].key
    BY <1>3, <2>1
  <2>3. w[j].t # "newkeys" /\ Follows(st[j - 1], st[j], w[j].t, s)
    BY <2>1 DEF Path
  <2> QED
    BY <2>2, <2>3 DEF Follows
<1> HIDE DEF S
<1>4. Nat \subseteq S
  BY <1>2, <1>3, Induction
<1>5. l - k \in S /\ k + (l - k) = l
  BY <1>1, <1>4
<1>6. st[l].mode = st[k].mode /\ st[l].key = st[k].key
  BY <1>1, <1>5 DEF S
<1> QED
  BY <1>6 DEF Path, Same

\* A reader takes one packet.
LEMMA PathTail ==
    ASSUME NEW w, IsASeq(w), w # <<>>, NEW c, NEW d, NEW s, NEW st, Path(st, w, c, d, s),
           NEW b, Same(b, st[1])
    PROVE  Link(Tail(w), b, d, s)
<1> PICK l, v : l = Len(w) /\ v = Tail(w)
  OBVIOUS
<1>1. l \in Nat \ {0} /\ Len(v) = l - 1 /\ \A i \in 1 .. l - 1 : v[i] = w[i + 1]
  BY TailSeq
<1> PICK q : q = [i \in 0 .. l - 1 |-> st[i + 1]]
  OBVIOUS
<1>2. \A i \in 0 .. l - 1 : q[i] = st[i + 1] /\ i + 1 \in 0 .. l
  BY <1>1
<1>3. \A i \in 0 .. l - 1 : q[i].mode \in Modes /\ q[i].cnt \in Nat /\ q[i].seq \in Nat
  BY <1>1, <1>2 DEF Path
<1>4. Same(b, q[0]) /\ Same(q[l - 1], d)
  <2>1. q[0] = st[1] /\ q[l - 1] = st[l]
    BY <1>1, <1>2
  <2> QED
    BY <2>1 DEF Path
<1>5. ASSUME NEW i \in 1 .. l - 1
      PROVE  v[i].tag = Tag(q[i - 1]) /\ Follows(q[i - 1], q[i], v[i].t, s)
  <2>1. q[i] = st[i + 1] /\ q[i - 1] = st[i] /\ i + 1 \in 1 .. l /\ (i + 1) - 1 = i /\ v[i] = w[i + 1]
    BY <1>1, <1>2
  <2> QED
    BY <2>1 DEF Path
<1>6. Path(q, v, b, d, s)
  BY <1>1, <1>3, <1>4, <1>5 DEF Path
<1> QED
  BY <1>6 DEF Link

LEMMA LinkTail ==
    ASSUME NEW w, IsASeq(w), w # <<>>, w[1].t # "newkeys", NEW c, Sound(c), NEW d, NEW s, Link(w, c, d, s), NEW x
    PROVE  Link(Tail(w), Advance(c, w[1], x), d, s)
<1>1. PICK st : Path(st, w, c, d, s)
  BY DEF Link
<1> PICK b : b = Advance(c, w[1], x)
  OBVIOUS
<1>2. Follows(c, b, w[1].t, x)
  BY AdvancePlain
<1>3. 1 \in 1 .. Len(w) /\ 1 - 1 = 0
  BY TailSeq
<1>4. Same(c, st[0]) /\ Follows(st[0], st[1], w[1].t, s)
  BY <1>1, <1>3 DEF Path
<1>5. Same(b, st[1])
  BY <1>2, <1>4 DEF Same, Follows
<1> QED
  BY <1>1, <1>5, PathTail

LEMMA LinkTailKeys ==
    ASSUME NEW w, IsASeq(w), w # <<>>, w[1].t = "newkeys", \A i \in 2 .. Len(w) : w[i].t # "newkeys",
           NEW c, Sound(c), NEW d, NEW s, Link(w, c, d, s),
           NEW new, c.pending = <<new>>, new.mode \in Modes, new.mode = d.mode, new.key = d.key
    PROVE  Link(Tail(w), Advance(c, w[1], s), d, s)
<1>1. PICK st : Path(st, w, c, d, s)
  BY DEF Link
<1> PICK b : b = Advance(c, w[1], s)
  OBVIOUS
<1>2. Follows(c, b, w[1].t, s) /\ b.mode = d.mode /\ b.key = d.key
  BY AdvanceKeys
<1>3. 1 \in 1 .. Len(w) /\ 1 - 1 = 0 /\ 1 \in 0 .. Len(w) /\ 1 + 1 = 2
  BY TailSeq
<1>4. Same(c, st[0]) /\ Follows(st[0], st[1], w[1].t, s)
  BY <1>1, <1>3 DEF Path
<1>5. st[1].mode = d.mode /\ st[1].key = d.key
  BY <1>1, <1>3, PathKeeps
<1>6. Same(b, st[1])
  BY <1>2, <1>4, <1>5 DEF Same, Follows
<1> QED
  BY <1>1, <1>6, PathTail

LEMMA TagOpens ==
    ASSUME NEW c, c.mode \in Modes
    PROVE  Opens(c, Tag(c))
  BY DEF Modes, Opens, Tag, NoneWrite, StreamWrite, CbcWrite, GcmWrite, ChachaWrite,
         StreamRead, CbcRead, GcmRead, ChachaRead

LEMMA LinkOpens ==
    ASSUME NEW w, IsASeq(w), w # <<>>, NEW c, Sound(c), NEW d, NEW s, Link(w, c, d, s)
    PROVE  Opens(c, w[1].tag)
<1>1. PICK st : Path(st, w, c, d, s)
  BY DEF Link
<1>2. 1 \in 1 .. Len(w) /\ 1 - 1 = 0
  BY TailSeq
<1>3. Same(c, st[0]) /\ w[1].tag = Tag(st[0])
  BY <1>1, <1>2 DEF Path
<1>4. w[1].tag = Tag(c)
  BY <1>3, SameTag
<1> QED
  BY <1>4, TagOpens DEF Sound

\* ps are newkeys and what may come with it.
WithKeys(ps) ==
    /\ IsASeq(ps) /\ ps # <<>> /\ ps[1].t = "newkeys"
    /\ \A i \in DOMAIN ps : i # 1 => ps[i].t \notin {"newkeys", "init", "kex"}

Pends(c, new) == c.pending = <<new>> /\ new.mode \in Modes

\* newkeys puts the pending key in use for what is written behind it.
LEMMA KeysStates ==
    ASSUME NEW c, Sound(c), NEW new, Pends(c, new), NEW ps, WithKeys(ps), NEW strict
    PROVE  LET st == States(c, ps, strict) IN
           /\ Len(ps) \in Nat \ {0} /\ st[0] = c
           /\ \A i \in 1 .. Len(ps) :
                /\ st[i].mode = new.mode /\ st[i].key = new.key /\ st[i].pending = <<>>
                /\ st[i].cnt = i - 1 /\ st[i].seq = st[1].seq + (i - 1)
           /\ \A i \in 0 .. Len(ps) : Sound(st[i])
           /\ \A i \in 1 .. Len(ps) : Follows(st[i - 1], st[i], ps[i].t, strict)
<1> PICK l, st, b : l = Len(ps) /\ st = States(c, ps, strict) /\ b = IF strict THEN 0 ELSE c.seq + 1
  OBVIOUS
<1>0. IsASeq(ps) /\ ps # <<>> /\ ps[1].t = "newkeys" /\ c.pending = <<new>> /\ new.mode \in Modes
  BY DEF WithKeys, Pends
<1>1. l \in Nat \ {0} /\ b \in Nat /\ \A i \in 2 .. l : ps[i].t # "newkeys"
  <2>1. l \in Nat \ {0} /\ DOMAIN ps = 1 .. l
    BY <1>0, TailSeq
  <2> QED
    BY <2>1 DEF Sound, WithKeys
<1>2. st[0] = c /\ \A i \in 1 .. l : st[i] = Advance(st[i - 1], ps[i], strict)
  BY <1>1, StatesDef
<1> DEFINE Good(i) == /\ Sound(st[i]) /\ st[i].mode = new.mode /\ st[i].key = new.key /\ st[i].pending = <<>>
                      /\ st[i].cnt = i - 1 /\ st[i].seq = b + (i - 1)
                      /\ Follows(st[i - 1], st[i], ps[i].t, strict)
           S == {n \in Nat : n + 1 <= l => Good(n + 1)}
<1>3. 0 \in S
  <2>1. st[1] = Advance(c, ps[1], strict)
    BY <1>1, <1>2
  <2>2. /\ Sound(st[1]) /\ Follows(c, st[1], ps[1].t, strict) /\ st[1].pending = <<>>
        /\ st[1].mode = new.mode /\ st[1].key = new.key
    BY <1>0, <2>1, AdvanceKeys
  <2>3. st[1].cnt = 0 /\ st[1].seq = b
    BY <1>0, <2>2 DEF Follows
  <2>4. 0 + 1 = 1 /\ 1 - 1 = 0 /\ b + 0 = b
    BY <1>1
  <2> QED
    BY <1>2, <2>2, <2>3, <2>4
<1>4. ASSUME NEW n \in Nat, n \in S PROVE n + 1 \in S
  <2> PICK j : j = n + 1
    OBVIOUS
  <2> SUFFICES ASSUME j + 1 <= l PROVE Good(j + 1)
    OBVIOUS
  <2>1. j \in Nat \ {0} /\ j <= l /\ j + 1 \in 2 .. l /\ j + 1 \in 1 .. l /\ (j + 1) - 1 = j
    BY <1>1
  <2>2. Good(j)
    BY <1>4, <2>1
  <2>3. st[j + 1] = Advance(st[j], ps[j + 1], strict) /\ ps[j + 1].t # "newkeys"
    BY <1>1, <1>2, <2>1
  <2>4. Sound(st[j + 1]) /\ Follows(st[j], st[j + 1], ps[j + 1].t, strict) /\ st[j + 1].pending = st[j].pending
    BY <2>2, <2>3, AdvancePlain
  <2>5. /\ st[j + 1].mode = st[j].mode /\ st[j + 1].key = st[j].key
        /\ st[j + 1].cnt = st[j].cnt + 1 /\ st[j + 1].seq = st[j].seq + 1
    BY <2>3, <2>4 DEF Follows
  <2>6. (j - 1) + 1 = j /\ (b + (j - 1)) + 1 = b + j
    BY <1>1, <2>1
  <2> QED
    BY ONLY <2>1, <2>2, <2>4, <2>5, <2>6
<1> HIDE DEF S
<1>5. Nat \subseteq S
  BY <1>3, <1>4, Induction
<1>6. ASSUME NEW i \in 1 .. l PROVE Good(i)
  <2>1. i - 1 \in S /\ (i - 1) + 1 = i
    BY <1>1, <1>5
  <2> QED
    BY <1>1, <2>1 DEF S
<1>7. ASSUME NEW i \in 0 .. l PROVE Sound(st[i])
  <2>1. i = 0 \/ i \in 1 .. l
    BY <1>1
  <2> QED
    BY <1>2, <1>6, <2>1
<1>8. \A i \in 1 .. l : st[i].seq = st[1].seq + (i - 1)
  <2>1. 1 \in 1 .. l /\ st[1].seq = b + (1 - 1)
    BY <1>1, <1>6
  <2>2. st[1].seq = b
    BY <1>1, <2>1
  <2> QED
    BY <1>6, <2>2
<1> QED
  BY <1>1, <1>2, <1>6, <1>7, <1>8

-----------------------------------------------------------------------------
(* Moves of an end                                                         *)

\* v is w with packets like those of ps behind it, or w.
Longer(v, w, ps) ==
    /\ \A i \in DOMAIN w : i \in DOMAIN v /\ v[i] = w[i]
    /\ \A i \in DOMAIN v : i \notin DOMAIN w =>
        /\ \A k \in DOMAIN w : k < i
        /\ \E j \in DOMAIN ps : v[i].t = ps[j].t /\ v[i].body = ps[j].body

\* v is w without its first packet.
Shorter(v, w) ==
    /\ DOMAIN v \subseteq Nat /\ DOMAIN w \subseteq Nat /\ 1 \in DOMAIN w
    /\ \A i \in DOMAIN v : i + 1 \in DOMAIN w /\ v[i] = w[i + 1]
    /\ \A i \in DOMAIN w : 1 <= i /\ (i # 1 => i - 1 \in DOMAIN v)

LEMMA ShorterTail ==
    ASSUME NEW w, IsASeq(w), w # <<>>
    PROVE  Shorter(Tail(w), w)
<1> PICK v, l : v = Tail(w) /\ l = Len(w)
  OBVIOUS
<1>1. /\ l \in Nat \ {0} /\ DOMAIN w = 1 .. l /\ DOMAIN v = 1 .. l - 1
      /\ \A i \in 1 .. l - 1 : v[i] = w[i + 1]
  BY TailSeq
<1>2. Shorter(v, w)
  BY <1>1 DEF Shorter
<1> QED
  BY <1>2

LEMMA LongerConcat ==
    ASSUME NEW w, IsASeq(w), NEW c, NEW ps, IsASeq(ps), NEW strict
    PROVE  Longer(w \o WriteAll(c, ps, strict).out, w, ps)
<1> PICK out, v, k, l : out = WriteAll(c, ps, strict).out /\ v = w \o out /\ k = Len(w) /\ l = Len(ps)
  OBVIOUS
<1>1. /\ IsASeq(out) /\ Len(out) = l /\ DOMAIN ps = 1 .. l
      /\ \A i \in 1 .. l : out[i].t = ps[i].t /\ out[i].body = ps[i].body
  BY WriteAllOut
<1>2. /\ k \in Nat /\ l \in Nat /\ DOMAIN w = 1 .. k /\ DOMAIN v = 1 .. k + l
      /\ \A i \in 1 .. k : v[i] = w[i]
      /\ \A i \in 1 .. l : v[k + i] = out[i]
  BY ONLY <1>1, IsASeq(w), v = w \o out, k = Len(w), ConcatSeq
<1>3. ASSUME NEW i \in DOMAIN v, i \notin DOMAIN w
      PROVE  /\ \A m \in DOMAIN w : m < i
             /\ \E j \in DOMAIN ps : v[i].t = ps[j].t /\ v[i].body = ps[j].body
  <2> PICK j : j = i - k
    OBVIOUS
  <2>0. i \in 1 .. k + l /\ i \notin 1 .. k /\ DOMAIN w = 1 .. k
    BY <1>2, <1>3
  <2>1. j \in 1 .. l /\ i = k + j /\ \A m \in DOMAIN w : m < i
    BY ONLY <1>2, <2>0, j = i - k
  <2>2. v[i] = out[j]
    BY <1>2, <2>1
  <2>3. j \in DOMAIN ps /\ v[i].t = ps[j].t /\ v[i].body = ps[j].body
    BY <1>1, <2>1, <2>2
  <2> QED
    BY <2>1, <2>3, Zenon
<1>4. \A i \in DOMAIN w : i \in DOMAIN v /\ v[i] = w[i]
  BY ONLY <1>2
<1>5. Longer(v, w, ps)
  BY <1>3, <1>4, Zenon DEF Longer
<1> QED
  BY <1>5

LEMMA LongerSame == \A w, ps : Longer(w, w, ps)
  BY Zenon DEF Longer

\* What a step of e leaves alone.
Apart(e) ==
    LET o == Peer(e) IN
    /\ scene' = scene /\ up'[o] = up[o] /\ rd'[o] = rd[o] /\ wr'[o] = wr[o]
    /\ hs'[o] = hs[o] /\ rl'[o] = rl[o] /\ kl'[o] = kl[o]
    /\ Dead(e) => Dead(e)'

\* e, whose writing state is c, writes ps.
Written(e, c, ps) ==
    LET o == Peer(e)  x == WriteAll(c, ps, hs[e].strict) IN
    /\ IsASeq(ps) /\ wr'[e] = x.state
    /\ wire'[o] = IF up[o] THEN wire[o] \o x.out ELSE wire[o]

\* e keeps to what it has agreed to, and enters no exchange by itself.
Calm(e) ==
    /\ Settled(e) => Settled(e)' /\ View(e)' = View(e)
    /\ InKex(e)' => InKex(e) \/ rl[e].pc = "start"

Sends(e, ps) ==
    /\ wire'[e] = wire[e] /\ up'[e] = up[e] /\ rd'[e] = rd[e]
    /\ Written(e, wr[e], ps) /\ Without(ps, "newkeys")
    /\ hs'[e].sid = hs[e].sid /\ (hs[e].sid # <<>> => hs'[e].strict = hs[e].strict)
    /\ ~Without(ps, "init") => hs[e].sent = <<>>
    /\ e = "s" => \A i \in DOMAIN ps : IsReply(ps[i]) =>
        ~Dead(e) /\ InKex(e) /\ ~Settled(e) /\ Told(e)' /\ ps[i].body[1].h = View(e)'
    /\ ~Dead(e)' =>
        /\ Calm(e) /\ (rl'[e].pc = "start" => rl[e].pc = "start")
        /\ e = "c" /\ Settled(e)' => Settled(e)

Reads(e) ==
    LET p == wire[e][1] IN
    /\ wire[e] # <<>> /\ p.t # "newkeys" /\ wire'[e] = Tail(wire[e]) /\ wire'[Peer(e)] = wire[Peer(e)]
    /\ up'[e] = up[e] /\ wr'[e] = wr[e] /\ rd'[e] = Advance(rd[e], p, hs[e].strict)
    /\ hs'[e].sid = hs[e].sid /\ hs'[e].strict = hs[e].strict
    /\ ~Dead(e)' =>
        /\ Calm(e) /\ (rl'[e].pc = "start" => rl[e].pc = "start" \/ p.t = "init")
        /\ e = "c" /\ Settled(e)' => Settled(e) \/ (IsReply(p) /\ p.body[1].h = View(e)')

Keys(e, new, ps) ==
    /\ Told(e) /\ ~Dead(e) /\ Keyed(e)' /\ View(e)' = View(e)
    /\ wire'[e] = wire[e] /\ up'[e] = up[e] /\ Same(rd[e], rd'[e])
    /\ Written(e, [wr[e] EXCEPT !.pending = <<new>>], ps)
    /\ new.mode \in Modes /\ new.key = Key(View(e), OutDir(e))
    /\ WithKeys(ps)
    /\ hs'[e].sid = (IF hs[e].sid = <<>> THEN View(e) ELSE hs[e].sid) /\ hs'[e].strict = hs[e].strict
    /\ rl'[e].pc # "start"

Takes(e, ps) ==
    /\ Keyed(e) /\ ~Dead(e) /\ ~InKex(e)' /\ rl'[e].pc # "start"
    /\ wire[e] # <<>> /\ wire[e][1].t = "newkeys" /\ wire'[e] = Tail(wire[e])
    /\ up'[e] = up[e] /\ rd'[e] = Advance(rd[e], wire[e][1], hs[e].strict)
    /\ Written(e, wr[e], ps) /\ \A i \in DOMAIN ps : ps[i].t \notin {"newkeys", "init", "kex"}
    /\ hs'[e].sid = hs[e].sid /\ hs'[e].strict = hs[e].strict

Shuts(e) ==
    /\ ~up'[e] /\ wire'[e] = <<>> /\ wire'[Peer(e)] = wire[Peer(e)]
    /\ rd'[e] = rd[e] /\ wr'[e] = wr[e]
    /\ hs'[e].sid = hs[e].sid /\ hs'[e].strict = hs[e].strict

Lengths == \A e \in Ends : IsASeq(wire[e]) /\ IsASeq(wire'[e])

LEMMA WrittenLonger ==
    ASSUME Lengths, NEW e \in Ends, NEW c, NEW ps, Written(e, c, ps)
    PROVE  Longer(wire'[Peer(e)], wire[Peer(e)], ps)
<1>1. IsASeq(wire[Peer(e)]) /\ IsASeq(ps)
  BY PeerFacts DEF Lengths, Written
<1>2. CASE up[Peer(e)]
  <2>1. wire'[Peer(e)] = wire[Peer(e)] \o WriteAll(c, ps, hs[e].strict).out
    BY <1>2 DEF Written
  <2> QED
    BY <1>1, <2>1, LongerConcat
<1>3. CASE ~up[Peer(e)]
  BY <1>3, LongerSame DEF Written
<1> QED
  BY <1>2, <1>3

LEMMA PlainWrite ==
    ASSUME NEW c, Sound(c), NEW ps, IsASeq(ps), Without(ps, "newkeys"), NEW s, NEW w, IsASeq(w), NEW b
    PROVE  LET x == WriteAll(c, ps, s) IN
           /\ Sound(x.state) /\ x.state.pending = c.pending
           /\ x.state.mode = c.mode /\ x.state.key = c.key
           /\ Link(w, b, c, s) => Link(w \o x.out, b, x.state, s)
<1> PICK st, l, x : st = States(c, ps, s) /\ l = Len(ps) /\ x = WriteAll(c, ps, s)
  OBVIOUS
<1>1. \A i \in DOMAIN ps : ps[i].t # "newkeys"
  BY DEF Without
<1>2. /\ l \in Nat /\ st[0] = c
      /\ \A i \in 0 .. l : Sound(st[i]) /\ st[i].mode = c.mode /\ st[i].key = c.key /\ st[i].pending = c.pending
      /\ \A i \in 1 .. l : Follows(st[i - 1], st[i], ps[i].t, s)
  BY <1>1, PlainStates
<1>3. x.state = st[l] /\ l \in 0 .. l
  BY <1>2, WriteAllTags
<1>4. Same(c, c)
  BY DEF Same
<1>5. Link(w, b, c, s) => Link(w \o x.out, b, x.state, s)
  BY <1>2, <1>4, LinkWrite
<1> QED
  BY <1>2, <1>3, <1>5

LEMMA WrittenPlain ==
    ASSUME Lengths, NEW e \in Ends, Typed(e), NEW ps, Written(e, wr[e], ps), Without(ps, "newkeys")
    PROVE  /\ Sound(wr'[e]) /\ wr'[e].pending = <<>>
           /\ wr'[e].mode = wr[e].mode /\ wr'[e].key = wr[e].key
           /\ up[Peer(e)] /\ Link(wire[Peer(e)], rd[Peer(e)], wr[e], hs[e].strict)
                => Link(wire'[Peer(e)], rd[Peer(e)], wr'[e], hs[e].strict)
<1> PICK c, s, w, b : c = wr[e] /\ s = hs[e].strict /\ w = wire[Peer(e)] /\ b = rd[Peer(e)]
  OBVIOUS
<1>1. IsASeq(ps) /\ Sound(c) /\ c.pending = <<>> /\ IsASeq(w)
  BY PeerFacts DEF Written, Typed, Lengths
<1> PICK x : x = WriteAll(c, ps, s)
  OBVIOUS
<1>2. wr'[e] = x.state /\ (up[Peer(e)] => wire'[Peer(e)] = w \o x.out)
  BY DEF Written
<1>3. /\ Sound(x.state) /\ x.state.pending = c.pending /\ x.state.mode = c.mode /\ x.state.key = c.key
      /\ Link(w, b, c, s) => Link(w \o x.out, b, x.state, s)
  BY <1>1, PlainWrite
<1> QED
  BY <1>1, <1>2, <1>3

LEMMA PeerSame ==
    ASSUME NEW e \in Ends, Apart(e), NEW o, o = Peer(e)
    PROVE  /\ (Dead(o)' <=> Dead(o)) /\ (InKex(o)' <=> InKex(o)) /\ (Settled(o)' <=> Settled(o))
           /\ (Told(o)' <=> Told(o)) /\ (Keyed(o)' <=> Keyed(o)) /\ View(o)' = View(o)
<1>1. /\ up'[o] = up[o] /\ rd'[o] = rd[o] /\ hs'[o] = hs[o] /\ rl'[o] = rl[o] /\ kl'[o] = kl[o]
  BY DEF Apart
<1>2. (Dead(o)' <=> Dead(o)) /\ (InKex(o)' <=> InKex(o)) /\ (Settled(o)' <=> Settled(o))
  BY <1>1 DEF Dead, Broken, InKex, Settled
<1>3. (Told(o)' <=> Told(o)) /\ (Keyed(o)' <=> Keyed(o))
  BY <1>1, <1>2 DEF Told, Keyed
<1>4. View(o)' = View(o)
  BY <1>1 DEF View, Hash, ClientInit, ServerInit
<1> QED
  BY <1>2, <1>3, <1>4

LEMMA LongerWithout ==
    ASSUME NEW v, NEW w, NEW ps, Longer(v, w, ps), NEW t, Without(ps, t)
    PROVE  Without(v, t) <=> Without(w, t)
  BY DEF Longer, Without

-----------------------------------------------------------------------------
(* e writes, or nothing that the peer can see                              *)

LEMMA SendsLinked ==
    ASSUME Lengths, NEW e \in Ends, Typed(e), Apart(e), NEW ps, Sends(e, ps), Linked(e), Linked(Peer(e))
    PROVE  Linked(e)' /\ Linked(Peer(e))'
<1> PICK o : o = Peer(e)
  OBVIOUS
<1>0. o \in Ends /\ o # e /\ Peer(o) = e /\ Peer(e) = o
  BY PeerFacts
<1>1. wire'[e] = wire[e] /\ up'[e] = up[e] /\ rd'[e] = rd[e] /\ wr'[o] = wr[o] /\ hs'[o] = hs[o]
      /\ up'[o] = up[o] /\ rd'[o] = rd[o]
  BY DEF Sends, Apart
<1>2. Linked(e)'
  BY <1>0, <1>1 DEF Linked
<1>3. Written(e, wr[e], ps) /\ Without(ps, "newkeys")
  BY DEF Sends
<1>4. Longer(wire'[o], wire[o], ps)
  BY <1>3, WrittenLonger
<1>5. Without(wire'[o], "newkeys") <=> Without(wire[o], "newkeys")
  BY <1>3, <1>4, LongerWithout
<1>6. hs'[e].sid = hs[e].sid /\ (hs[e].sid # <<>> => hs'[e].strict = hs[e].strict)
  BY DEF Sends
<1>7. ~up[o] => wire'[o] = <<>>
  BY <1>0, <1>3 DEF Written, Linked
<1>8. ASSUME up[o] PROVE Link(wire'[o], rd[o], wr'[e], hs'[e].strict)
  <2>1. Link(wire[o], rd[o], wr[e], hs[e].strict)
    BY <1>0, <1>8 DEF Linked
  <2>2. Link(wire'[o], rd[o], wr'[e], hs[e].strict)
    BY <1>3, <1>8, <2>1, WrittenPlain
  <2>3. CASE hs[e].sid # <<>>
    BY <1>6, <2>2, <2>3
  <2>4. CASE hs[e].sid = <<>>
    <3>1. Without(wire'[o], "newkeys") /\ IsASeq(wire'[o])
      BY <1>0, <1>5, <2>4 DEF Linked, Lengths
    <3> QED
      BY <2>2, <3>1, LinkStrict
  <2> QED
    BY <2>3, <2>4
<1>9. hs'[e].sid = <<>> => Without(wire'[o], "newkeys")
  BY <1>0, <1>5, <1>6 DEF Linked
<1>10. Linked(o)'
  BY <1>0, <1>1, <1>7, <1>8, <1>9 DEF Linked
<1> QED
  BY <1>2, <1>10

LEMMA SendsOnce ==
    ASSUME Lengths, NEW e \in Ends, Begun(e), Apart(e), NEW ps, Sends(e, ps), Once(e), Once(Peer(e))
    PROVE  Once(e)' /\ Once(Peer(e))'
<1> PICK o : o = Peer(e)
  OBVIOUS
<1>0. o \in Ends /\ o # e /\ Peer(o) = e /\ Peer(e) = o
  BY PeerFacts
<1>1. wire'[e] = wire[e] /\ rd'[e] = rd[e] /\ rl'[o] = rl[o] /\ (Dead(e) => Dead(e)')
  BY DEF Sends, Apart
<1>2. (Dead(o)' <=> Dead(o)) /\ (Keyed(o)' <=> Keyed(o)) /\ (InKex(o)' <=> InKex(o))
  BY PeerSame
<1>3. Longer(wire'[o], wire[o], ps) /\ Without(ps, "newkeys")
  BY WrittenLonger DEF Sends
<1>4. Without(wire'[o], "newkeys") <=> Without(wire[o], "newkeys")
  BY <1>3, LongerWithout
<1>5. Keyed(e) => Without(ps, "init")
  BY DEF Sends, Begun, Keyed, Settled
<1>6. Keyed(e) /\ Without(wire[o], "init") => Without(wire'[o], "init")
  BY <1>3, <1>5, LongerWithout
<1>7. ~Dead(e)' => (Keyed(e) => Keyed(e)') /\ (rl'[e].pc = "start" => rl[e].pc = "start")
                   /\ (InKex(e)' => InKex(e) \/ rl[e].pc = "start")
  BY <1>1 DEF Sends, Calm, Keyed
<1>8. Once(e)'
  <2> SUFFICES ASSUME ~Dead(e)'
               PROVE  /\ \A i, j \in DOMAIN wire'[e] : wire'[e][i].t = "newkeys" /\ wire'[e][j].t = "newkeys" => i = j
                      /\ \/ Without(wire'[e], "newkeys") \/ Dead(o)'
                         \/ /\ Keyed(o)'
                            /\ \A i, j \in DOMAIN wire'[e] : wire'[e][i].t = "newkeys" /\ i < j => wire'[e][j].t # "init"
                         \/ /\ Keyed(e)' /\ Without(wire'[o], "init") /\ Without(wire'[o], "newkeys")
                            /\ rl'[o].pc # "start" /\ ~InKex(o)'
    BY <1>0 DEF Once, Without
  <2> QED
    BY <1>0, <1>1, <1>2, <1>4, <1>6, <1>7 DEF Once
<1>9. Once(o)'
  <2> SUFFICES ASSUME ~Dead(o)'
               PROVE  /\ \A i, j \in DOMAIN wire'[o] : wire'[o][i].t = "newkeys" /\ wire'[o][j].t = "newkeys" => i = j
                      /\ \/ Without(wire'[o], "newkeys") \/ Dead(e)'
                         \/ /\ Keyed(e)'
                            /\ \A i, j \in DOMAIN wire'[o] : wire'[o][i].t = "newkeys" /\ i < j => wire'[o][j].t # "init"
                         \/ /\ Keyed(o)' /\ Without(wire'[e], "init") /\ Without(wire'[e], "newkeys")
                            /\ rl'[e].pc # "start" /\ ~InKex(e)'
    BY <1>0 DEF Once, Without
  <2>1. \A i \in DOMAIN wire'[o] : wire'[o][i].t = "newkeys" => i \in DOMAIN wire[o] /\ wire[o][i].t = "newkeys"
    BY <1>3 DEF Longer, Without
  <2>2. \A i, j \in DOMAIN wire'[o] : wire'[o][i].t = "newkeys" /\ wire'[o][j].t = "newkeys" => i = j
    BY <1>0, <1>2, <2>1 DEF Once
  <2>3. CASE Without(wire[o], "newkeys")
    BY <1>4, <2>2, <2>3
  <2>4. CASE Dead(e)'
    BY <2>2, <2>4
  <2>5. CASE /\ ~Dead(e)' /\ Keyed(e)
             /\ \A i, j \in DOMAIN wire[o] : wire[o][i].t = "newkeys" /\ i < j => wire[o][j].t # "init"
    <3>1. ASSUME NEW i \in DOMAIN wire'[o], NEW j \in DOMAIN wire'[o], wire'[o][i].t = "newkeys", i < j
          PROVE  wire'[o][j].t # "init"
      <4>1. i \in DOMAIN wire[o] /\ wire[o][i].t = "newkeys"
        BY <2>1, <3>1
      <4>2. CASE j \in DOMAIN wire[o]
        BY <1>3, <2>5, <3>1, <4>1, <4>2 DEF Longer
      <4>3. CASE j \notin DOMAIN wire[o]
        BY <1>3, <1>5, <2>5, <4>3 DEF Longer, Without
      <4> QED
        BY <4>2, <4>3
    <3> QED
      BY <1>7, <2>2, <2>5, <3>1
  <2>6. CASE /\ ~Dead(e)' /\ Keyed(o) /\ Without(wire[e], "init") /\ Without(wire[e], "newkeys")
             /\ rl[e].pc # "start" /\ ~InKex(e)
    BY <1>1, <1>2, <1>7, <2>2, <2>6
  <2> QED
    BY <1>0, <1>1, <1>2, <2>3, <2>4, <2>5, <2>6 DEF Once
<1> QED
  BY <1>8, <1>9

LEMMA SendsAgreement ==
    ASSUME Lengths, NEW e \in Ends, Typed(e), Apart(e), NEW ps, Sends(e, ps), Once("c"), Agreement
    PROVE  Agreement'
<1> PICK o : o = Peer(e)
  OBVIOUS
<1>0. o \in Ends /\ o # e /\ Peer(e) = o /\ ((e = "c" /\ o = "s") \/ (e = "s" /\ o = "c"))
  BY DEF Peer, Ends
<1>1. wire'[e] = wire[e] /\ rd'[e] = rd[e] /\ wr'[o] = wr[o] /\ (Dead(e) => Dead(e)')
  BY DEF Sends, Apart
<1>2. /\ (Dead(o)' <=> Dead(o)) /\ (Told(o)' <=> Told(o)) /\ (Settled(o)' <=> Settled(o))
      /\ (InKex(o)' <=> InKex(o)) /\ View(o)' = View(o)
  BY PeerSame
<1>3. Longer(wire'[o], wire[o], ps) /\ Without(ps, "newkeys")
  BY WrittenLonger DEF Sends
<1>4. Without(wire'[o], "newkeys") <=> Without(wire[o], "newkeys")
  BY <1>3, LongerWithout
<1>5. wr'[e].key = wr[e].key
  BY WrittenPlain DEF Sends
<1>6. ~Dead(e)' => (Settled(e) => Settled(e)' /\ View(e)' = View(e)) /\ (Told(e) => Told(e)')
  BY <1>1 DEF Sends, Calm, Told
<1>7. CASE e = "c"
  <2>1. \A h : Vouched(h)' <=> Vouched(h)
    BY <1>0, <1>1, <1>2, <1>7 DEF Vouched
  <2>2. Settled("c")' /\ ~Dead("c")' => Settled("c") /\ View("c")' = View("c")
    BY <1>6, <1>7 DEF Sends
  <2> QED
    BY <1>0, <1>1, <1>2, <1>4, <1>5, <1>7, <2>1, <2>2 DEF Agreement
<1>8. CASE e = "s"
  <2>0. o = "c"
    BY <1>0, <1>8
  <2>1. \A h : Vouched(h) => Vouched(h)'
    BY <1>1, <1>4, <1>5, <1>6, <1>8, <2>0 DEF Vouched, Told
  <2>2. ASSUME ~Dead("c")', NEW i \in DOMAIN wire'["c"], IsReply(wire'["c"][i]),
               NEW h, h = wire'["c"][i].body[1].h
        PROVE  /\ Vouched(h)'
               /\ \A k \in DOMAIN wire'["c"] : wire'["c"][k].t = "newkeys" => i < k
    <3>0. ~Dead("c")
      BY <1>2, <2>0, <2>2
    <3>1. CASE i \in DOMAIN wire["c"]
      <4>1. wire'["c"][i] = wire["c"][i]
        BY <1>3, <2>0, <3>1 DEF Longer
      <4>2. /\ Vouched(h)
            /\ \A k \in DOMAIN wire["c"] : wire["c"][k].t = "newkeys" => i < k
        BY <2>2, <3>0, <3>1, <4>1 DEF Agreement
      <4>3. \A k \in DOMAIN wire'["c"] : wire'["c"][k].t = "newkeys" => k \in DOMAIN wire["c"] /\ wire["c"][k].t = "newkeys"
        BY <1>3, <2>0 DEF Longer, Without
      <4> QED
        BY <2>1, <4>2, <4>3
    <3>2. CASE i \notin DOMAIN wire["c"]
      <4>1. PICK j \in DOMAIN ps : wire'["c"][i].t = ps[j].t /\ wire'["c"][i].body = ps[j].body
        BY <1>3, <2>0, <2>2, <3>2 DEF Longer
      <4>2. IsReply(ps[j])
        BY <2>2, <4>1 DEF IsReply
      <4>3. ~Dead("s") /\ InKex("s") /\ ~Settled("s") /\ Told("s")' /\ ps[j].body[1].h = View("s")'
        BY <1>8, <4>2 DEF Sends
      <4>4. Without(wire["c"], "newkeys")
        BY <3>0, <4>3 DEF Once, Keyed, Peer
      <4>5. Without(wire'["c"], "newkeys")
        BY <1>4, <2>0, <4>4
      <4>6. Vouched(h)'
        BY <2>2, <4>1, <4>3, <4>5 DEF Vouched
      <4> QED
        BY <4>5, <4>6 DEF Without
    <3> QED
      BY <3>1, <3>2
  <2>3. ~Dead("c")' /\ Settled("c")' => Vouched(View("c"))'
    <3>1. ~Dead("c")' /\ Settled("c")' => Vouched(View("c")) /\ View("c")' = View("c")
      BY <1>2, <2>0 DEF Agreement
    <3>2. \A h : h = View("c") /\ Vouched(h) => Vouched(h)'
      BY <2>1
    <3>3. ASSUME NEW h, h = View("c"), h = View("c")', Vouched(h)' PROVE Vouched(View("c"))'
      BY <3>3 DEF Vouched
    <3> QED
      BY <3>1, <3>2, <3>3
  <2>4. ~Dead("s")' /\ ~Without(wire'["s"], "newkeys") => Settled("s")' /\ wr'["c"].key.h = View("s")'
    BY <1>1, <1>6, <1>8, <2>0 DEF Agreement
  <2> QED
    BY <2>2, <2>3, <2>4 DEF Agreement, Vouched
<1> QED
  BY <1>0, <1>7, <1>8

LEMMA SendsSession ==
    ASSUME Lengths, NEW e \in Ends, Typed(e), Apart(e), NEW ps, Sends(e, ps), SameSession
    PROVE  SameSession'
<1> PICK o : o = Peer(e)
  OBVIOUS
<1>0. o \in Ends /\ o # e /\ Peer(e) = o /\ Peer(o) = e /\ (\A f \in Ends : f = e \/ f = o) /\ "c" \in Ends /\ "s" \in Ends
  BY PeerFacts DEF Ends
<1>1. /\ wire'[e] = wire[e] /\ wr'[o] = wr[o] /\ (Dead(e) => Dead(e)') /\ hs'[e].sid = hs[e].sid /\ hs'[o] = hs[o]
      /\ \A f \in Ends : hs'[f].sid = hs[f].sid
  BY <1>0 DEF Sends, Apart
<1>2. Dead(o)' <=> Dead(o)
  BY PeerSame
<1>3. Longer(wire'[o], wire[o], ps) /\ Without(ps, "newkeys")
  BY WrittenLonger DEF Sends
<1>4. Without(wire'[o], "newkeys") <=> Without(wire[o], "newkeys")
  BY <1>3, LongerWithout
<1>5. wr'[e].key = wr[e].key
  BY WrittenPlain DEF Sends
<1>6. ASSUME NEW f \in Ends, ~Dead(f)', hs'[f].sid = <<>>, hs'[Peer(f)].sid # <<>>
      PROVE  ~Without(wire'[f], "newkeys") /\ wr'[Peer(f)].key.h = hs'[Peer(f)].sid
  <2>1. ~Dead(f) /\ hs[f].sid = <<>> /\ hs[Peer(f)].sid # <<>> /\ hs'[Peer(f)].sid = hs[Peer(f)].sid
    BY <1>0, <1>1, <1>2, <1>6
  <2>2. ~Without(wire[f], "newkeys") /\ wr[Peer(f)].key.h = hs[Peer(f)].sid
    BY <2>1 DEF SameSession
  <2> QED
    BY <1>0, <1>1, <1>4, <1>5, <2>1, <2>2
<1> QED
  BY <1>0, <1>1, <1>6 DEF SameSession, Without

-----------------------------------------------------------------------------
(* e reads a packet other than newkeys                                     *)

LEMMA ShorterWithout ==
    ASSUME NEW v, NEW w, Shorter(v, w), NEW t
    PROVE  /\ Without(w, t) => Without(v, t)
           /\ w[1].t # t => (Without(v, t) <=> Without(w, t))
<1>1. ASSUME Without(w, t) PROVE Without(v, t)
  BY <1>1 DEF Shorter, Without
<1>2. ASSUME w[1].t # t, Without(v, t), NEW i \in DOMAIN w PROVE w[i].t # t
  <2>1. CASE i = 1
    BY <1>2, <2>1
  <2>2. CASE i # 1
    <3>1. i - 1 \in DOMAIN v /\ (i - 1) + 1 = i /\ v[i - 1] = w[(i - 1) + 1]
      BY <2>2 DEF Shorter
    <3> QED
      BY <1>2, <3>1 DEF Without
  <2> QED
    BY <2>1, <2>2
<1> QED
  BY <1>1, <1>2 DEF Without

\* What holds of a packet and one behind it still does.
LEMMA ShorterPairs ==
    ASSUME NEW v, NEW w, Shorter(v, w), NEW i \in DOMAIN v, NEW j \in DOMAIN v
    PROVE  /\ i + 1 \in DOMAIN w /\ j + 1 \in DOMAIN w /\ v[i] = w[i + 1] /\ v[j] = w[j + 1]
           /\ (i < j <=> i + 1 < j + 1) /\ (i = j <=> i + 1 = j + 1)
<1>1. i \in Nat /\ j \in Nat
  BY DEF Shorter
<1>2. (i < j <=> i + 1 < j + 1) /\ (i = j <=> i + 1 = j + 1)
  BY ONLY <1>1
<1> QED
  BY <1>2 DEF Shorter

LEMMA ReadsLinked ==
    ASSUME Lengths, NEW e \in Ends, Typed(e), Apart(e), Reads(e), Linked(e), Linked(Peer(e))
    PROVE  Linked(e)' /\ Linked(Peer(e))'
<1> PICK o : o = Peer(e)
  OBVIOUS
<1>0. o \in Ends /\ o # e /\ Peer(o) = e /\ Peer(e) = o
  BY PeerFacts
<1>1. /\ up'[e] = up[e] /\ wr'[e] = wr[e] /\ hs'[e].sid = hs[e].sid /\ hs'[e].strict = hs[e].strict
      /\ wire'[o] = wire[o] /\ wr'[o] = wr[o] /\ hs'[o] = hs[o] /\ up'[o] = up[o] /\ rd'[o] = rd[o]
  BY <1>0 DEF Reads, Apart
<1>2. Linked(o)'
  BY <1>0, <1>1 DEF Linked
<1> PICK w, c, x, d, s : w = wire[e] /\ c = rd[e] /\ x = hs[e].strict /\ d = wr[o] /\ s = hs[o].strict
  OBVIOUS
<1>3. IsASeq(w) /\ w # <<>> /\ w[1].t # "newkeys" /\ wire'[e] = Tail(w) /\ rd'[e] = Advance(c, w[1], x) /\ Sound(c)
  BY DEF Lengths, Reads, Typed
<1>4. up[e] /\ Link(w, c, d, s)
  BY <1>0, <1>3 DEF Linked
<1>5. Link(Tail(w), Advance(c, w[1], x), d, s)
  BY <1>3, <1>4, LinkTail
<1>6. Without(w, "newkeys") => Without(Tail(w), "newkeys")
  BY <1>3, ShorterTail, ShorterWithout
<1>7. Linked(e)'
  BY <1>0, <1>1, <1>3, <1>4, <1>5, <1>6 DEF Linked
<1> QED
  BY <1>2, <1>7

LEMMA ReadsFacts ==
    ASSUME Lengths, NEW e \in Ends, Typed(e), Apart(e), Reads(e)
    PROVE  /\ Shorter(wire'[e], wire[e]) /\ wire[e][1].t # "newkeys"
           /\ (Without(wire'[e], "newkeys") <=> Without(wire[e], "newkeys"))
           /\ (Without(wire[e], "init") => Without(wire'[e], "init") /\ wire[e][1].t # "init")
           /\ rd'[e].pending = rd[e].pending
           /\ ~Dead(e)' => /\ ~Dead(e) /\ (Settled(e) => Settled(e)' /\ View(e)' = View(e))
                           /\ (Told(e) => Told(e)') /\ (Keyed(e) => Keyed(e)')
<1> PICK w, c, x : w = wire[e] /\ c = rd[e] /\ x = hs[e].strict
  OBVIOUS
<1>1. IsASeq(w) /\ w # <<>> /\ w[1].t # "newkeys" /\ wire'[e] = Tail(w) /\ rd'[e] = Advance(c, w[1], x) /\ Sound(c)
  BY DEF Lengths, Reads, Typed
<1>2. Shorter(Tail(w), w)
  BY <1>1, ShorterTail
<1>3. (Without(Tail(w), "newkeys") <=> Without(w, "newkeys")) /\ (Without(w, "init") => Without(Tail(w), "init"))
  BY <1>1, <1>2, ShorterWithout
<1>4. Advance(c, w[1], x).pending = c.pending
  BY <1>1, AdvancePlain
<1>5. rd'[e].pending = rd[e].pending
  BY <1>1, <1>4
<1>6. Without(w, "init") => w[1].t # "init"
  BY <1>2 DEF Shorter, Without
<1>7. ~Dead(e)' => /\ ~Dead(e) /\ (Settled(e) => Settled(e)' /\ View(e)' = View(e))
                   /\ (Told(e) => Told(e)') /\ (Keyed(e) => Keyed(e)')
  BY <1>5 DEF Reads, Apart, Calm, Told, Keyed
<1> QED
  BY <1>1, <1>2, <1>3, <1>5, <1>6, <1>7

LEMMA ReadsOnce ==
    ASSUME Lengths, NEW e \in Ends, Typed(e), Apart(e), Reads(e), Once(e), Once(Peer(e))
    PROVE  Once(e)' /\ Once(Peer(e))'
<1> PICK o : o = Peer(e)
  OBVIOUS
<1>0. o \in Ends /\ o # e /\ Peer(o) = e /\ Peer(e) = o
  BY PeerFacts
<1>1. wire'[o] = wire[o] /\ rl'[o] = rl[o]
  BY <1>0 DEF Reads, Apart
<1>2. (Dead(o)' <=> Dead(o)) /\ (Keyed(o)' <=> Keyed(o)) /\ (InKex(o)' <=> InKex(o))
  BY PeerSame
<1>3. /\ Shorter(wire'[e], wire[e])
      /\ (Without(wire'[e], "newkeys") <=> Without(wire[e], "newkeys"))
      /\ (Without(wire[e], "init") => Without(wire'[e], "init") /\ wire[e][1].t # "init")
      /\ ~Dead(e)' => ~Dead(e) /\ (Keyed(e) => Keyed(e)')
  BY ReadsFacts
<1>4. ~Dead(e)' => /\ rl'[e].pc = "start" => rl[e].pc = "start" \/ wire[e][1].t = "init"
                   /\ InKex(e)' => InKex(e) \/ rl[e].pc = "start"
  BY DEF Reads, Calm
<1>5. Once(e)'
  <2> SUFFICES ASSUME ~Dead(e)'
               PROVE  /\ \A i, j \in DOMAIN wire'[e] : wire'[e][i].t = "newkeys" /\ wire'[e][j].t = "newkeys" => i = j
                      /\ \/ Without(wire'[e], "newkeys") \/ Dead(o)'
                         \/ /\ Keyed(o)'
                            /\ \A i, j \in DOMAIN wire'[e] : wire'[e][i].t = "newkeys" /\ i < j => wire'[e][j].t # "init"
                         \/ /\ Keyed(e)' /\ Without(wire'[o], "init") /\ Without(wire'[o], "newkeys")
                            /\ rl'[o].pc # "start" /\ ~InKex(o)'
    BY <1>0 DEF Once, Without
  <2> PICK w, v : w = wire[e] /\ v = wire'[e]
    OBVIOUS
  <2>1. Shorter(v, w)
    BY <1>3
  <2>2. \A i, j \in DOMAIN w : w[i].t = "newkeys" /\ w[j].t = "newkeys" => i = j
    BY <1>3 DEF Once
  <2>3. \A i, j \in DOMAIN v : v[i].t = "newkeys" /\ v[j].t = "newkeys" => i = j
    BY ONLY <2>1, <2>2, ShorterPairs
  <2>4. ASSUME \A i, j \in DOMAIN w : w[i].t = "newkeys" /\ i < j => w[j].t # "init"
        PROVE  \A i, j \in DOMAIN v : v[i].t = "newkeys" /\ i < j => v[j].t # "init"
    BY ONLY <2>1, <2>4, ShorterPairs
  <2>5. \/ Without(w, "newkeys") \/ Dead(o)
        \/ Keyed(o) /\ \A i, j \in DOMAIN w : w[i].t = "newkeys" /\ i < j => w[j].t # "init"
        \/ /\ Keyed(e) /\ Without(wire[o], "init") /\ Without(wire[o], "newkeys")
           /\ rl[o].pc # "start" /\ ~InKex(o)
    BY <1>0, <1>3 DEF Once
  <2> QED
    BY <1>1, <1>2, <1>3, <2>3, <2>4, <2>5
<1>6. Once(o)'
  <2> SUFFICES ASSUME ~Dead(o)'
               PROVE  /\ \A i, j \in DOMAIN wire'[o] : wire'[o][i].t = "newkeys" /\ wire'[o][j].t = "newkeys" => i = j
                      /\ \/ Without(wire'[o], "newkeys") \/ Dead(e)'
                         \/ /\ Keyed(e)'
                            /\ \A i, j \in DOMAIN wire'[o] : wire'[o][i].t = "newkeys" /\ i < j => wire'[o][j].t # "init"
                         \/ /\ Keyed(o)' /\ Without(wire'[e], "init") /\ Without(wire'[e], "newkeys")
                            /\ rl'[e].pc # "start" /\ ~InKex(e)'
    BY <1>0 DEF Once, Without
  <2> QED
    BY <1>0, <1>1, <1>2, <1>3, <1>4 DEF Once
<1> QED
  BY <1>5, <1>6

LEMMA ReadsAgreement ==
    ASSUME Lengths, NEW e \in Ends, Typed(e), Apart(e), Reads(e), Agreement
    PROVE  Agreement'
<1> PICK o : o = Peer(e)
  OBVIOUS
<1>0. o \in Ends /\ o # e /\ Peer(e) = o /\ ((e = "c" /\ o = "s") \/ (e = "s" /\ o = "c"))
  BY DEF Peer, Ends
<1>1. wire'[o] = wire[o] /\ wr'[e] = wr[e] /\ wr'[o] = wr[o]
  BY <1>0 DEF Reads, Apart
<1>2. /\ (Dead(o)' <=> Dead(o)) /\ (Told(o)' <=> Told(o)) /\ (Settled(o)' <=> Settled(o))
      /\ (InKex(o)' <=> InKex(o)) /\ View(o)' = View(o)
  BY PeerSame
<1>3. /\ Shorter(wire'[e], wire[e])
      /\ (Without(wire'[e], "newkeys") <=> Without(wire[e], "newkeys"))
      /\ ~Dead(e)' => ~Dead(e) /\ (Settled(e) => Settled(e)' /\ View(e)' = View(e)) /\ (Told(e) => Told(e)')
  BY ReadsFacts
<1>4. CASE e = "c"
  <2>0. o = "s"
    BY <1>0, <1>4
  <2>1. \A h : Vouched(h)' <=> Vouched(h)
    BY <1>1, <1>2, <1>3, <1>4, <2>0 DEF Vouched
  <2> PICK w, v : w = wire["c"] /\ v = wire'["c"]
    OBVIOUS
  <2>2. Shorter(v, w) /\ 1 \in DOMAIN w
    BY <1>3, <1>4 DEF Shorter
  <2>3. ASSUME ~Dead("c")', NEW i \in DOMAIN v, IsReply(v[i]), NEW h, h = v[i].body[1].h
        PROVE  Vouched(h)' /\ \A k \in DOMAIN v : v[k].t = "newkeys" => i < k
    <3>1. i + 1 \in DOMAIN w /\ v[i] = w[i + 1]
      BY <2>2, <2>3, ShorterPairs
    <3>2. Vouched(h) /\ \A k \in DOMAIN w : w[k].t = "newkeys" => i + 1 < k
      BY <1>3, <1>4, <2>3, <3>1 DEF Agreement
    <3>3. \A k \in DOMAIN v : v[k].t = "newkeys" => i < k
      BY ONLY <2>2, <2>3, <3>2, ShorterPairs
    <3> QED
      BY <2>1, <3>2, <3>3
  <2>4. ASSUME ~Dead("c")', Settled("c")', NEW h, h = View("c")' PROVE Vouched(h)'
    <3>1. Settled("c") \/ (IsReply(w[1]) /\ w[1].body[1].h = h)
      BY <1>4, <2>4 DEF Reads
    <3>2. Vouched(h)
      BY <1>3, <1>4, <2>2, <2>4, <3>1 DEF Agreement
    <3> QED
      BY <2>1, <3>2
  <2>5. ~Dead("s")' /\ ~Without(wire'["s"], "newkeys") => Settled("s")' /\ wr'["c"].key.h = View("s")'
    BY <1>1, <1>2, <1>4, <2>0 DEF Agreement
  <2> QED
    BY <2>3, <2>4, <2>5 DEF Agreement, Vouched
<1>5. CASE e = "s"
  <2>0. o = "c"
    BY <1>0, <1>5
  <2>1. \A h : Vouched(h) => Vouched(h)'
    BY <1>1, <1>3, <1>5, <2>0 DEF Vouched, Told, Reads, Apart
  <2>2. ASSUME ~Dead("c")', NEW i \in DOMAIN wire'["c"], IsReply(wire'["c"][i]),
               NEW h, h = wire'["c"][i].body[1].h
        PROVE  /\ Vouched(h)'
               /\ \A k \in DOMAIN wire'["c"] : wire'["c"][k].t = "newkeys" => i < k
    BY <1>1, <1>2, <2>0, <2>1, <2>2 DEF Agreement
  <2>3. ASSUME ~Dead("c")', Settled("c")', NEW h, h = View("c")' PROVE Vouched(h)'
    BY <1>2, <2>0, <2>1, <2>3 DEF Agreement
  <2>4. ~Dead("s")' /\ ~Without(wire'["s"], "newkeys") => Settled("s")' /\ wr'["c"].key.h = View("s")'
    BY <1>1, <1>3, <1>5, <2>0 DEF Agreement
  <2> QED
    BY <2>2, <2>3, <2>4 DEF Agreement, Vouched
<1> QED
  BY <1>0, <1>4, <1>5

LEMMA ReadsSession ==
    ASSUME Lengths, NEW e \in Ends, Typed(e), Apart(e), Reads(e), SameSession
    PROVE  SameSession'
<1> PICK o : o = Peer(e)
  OBVIOUS
<1>0. o \in Ends /\ o # e /\ Peer(e) = o /\ Peer(o) = e /\ (\A f \in Ends : f = e \/ f = o) /\ "c" \in Ends /\ "s" \in Ends
  BY PeerFacts DEF Ends
<1>1. /\ wire'[o] = wire[o] /\ (Dead(e) => Dead(e)') /\ hs'[e].sid = hs[e].sid /\ hs'[o] = hs[o]
      /\ \A f \in Ends : hs'[f].sid = hs[f].sid /\ wr'[f] = wr[f]
  BY <1>0 DEF Reads, Apart
<1>2. Dead(o)' <=> Dead(o)
  BY PeerSame
<1>3. Without(wire'[e], "newkeys") <=> Without(wire[e], "newkeys")
  BY ReadsFacts
<1>4. ASSUME NEW f \in Ends, ~Dead(f)', hs'[f].sid = <<>>, hs'[Peer(f)].sid # <<>>
      PROVE  ~Without(wire'[f], "newkeys") /\ wr'[Peer(f)].key.h = hs'[Peer(f)].sid
  <2>1. ~Dead(f) /\ hs[f].sid = <<>> /\ hs[Peer(f)].sid # <<>> /\ hs'[Peer(f)].sid = hs[Peer(f)].sid
    BY <1>0, <1>1, <1>2, <1>4
  <2>2. ~Without(wire[f], "newkeys") /\ wr[Peer(f)].key.h = hs[Peer(f)].sid
    BY <2>1 DEF SameSession
  <2> QED
    BY <1>0, <1>1, <1>3, <2>1, <2>2
<1> QED
  BY <1>0, <1>1, <1>4 DEF SameSession, Without

-----------------------------------------------------------------------------
(* e is closed                                                             *)

LEMMA ShutsStepped ==
    ASSUME Lengths, NEW e \in Ends, Apart(e), Shuts(e), Stepped
    PROVE  Stepped'
<1> PICK o : o = Peer(e)
  OBVIOUS
<1>0. /\ o \in Ends /\ o # e /\ Peer(e) = o /\ Peer(o) = e /\ (\A f \in Ends : f = e \/ f = o)
      /\ ((e = "c" /\ o = "s") \/ (e = "s" /\ o = "c"))
  BY DEF Peer, Ends
<1>1. /\ ~up'[e] /\ wire'[e] = <<>> /\ wire'[o] = wire[o] /\ rd'[e] = rd[e] /\ wr'[e] = wr[e]
      /\ hs'[e].sid = hs[e].sid /\ hs'[e].strict = hs[e].strict
      /\ up'[o] = up[o] /\ rd'[o] = rd[o] /\ wr'[o] = wr[o] /\ hs'[o] = hs[o] /\ rl'[o] = rl[o]
  BY <1>0 DEF Shuts, Apart
<1>2. /\ (Dead(o)' <=> Dead(o)) /\ (Told(o)' <=> Told(o)) /\ (Settled(o)' <=> Settled(o))
      /\ (Keyed(o)' <=> Keyed(o)) /\ (InKex(o)' <=> InKex(o)) /\ View(o)' = View(o)
  BY PeerSame
<1>3. Dead(e)' /\ Without(<<>>, "newkeys")
  BY <1>1 DEF Dead, Without
<1>4. Linked(e)' /\ Linked(o)'
  BY <1>0, <1>1, <1>3 DEF Linked, Stepped
<1>5. Once(e)' /\ Once(o)'
  <2>1. Once(e)'
    BY <1>3 DEF Once
  <2>2. ~Dead(o)' => \A i, j \in DOMAIN wire'[o] : wire'[o][i].t = "newkeys" /\ wire'[o][j].t = "newkeys" => i = j
    BY <1>0, <1>1, <1>2 DEF Once, Stepped
  <2>3. Once(o)'
    BY <1>0, <1>3, <2>2 DEF Once
  <2> QED
    BY <2>1, <2>3
<1>6. Agreement'
  <2>1. CASE e = "c"
    BY <1>0, <1>1, <1>2, <1>3, <2>1 DEF Agreement, Stepped
  <2>2. CASE e = "s"
    <3>0. o = "c"
      BY <1>0, <2>2
    <3>1. \A h : Vouched(h) => Vouched(h)'
      BY <1>1, <1>3, <2>2, <3>0 DEF Vouched
    <3>2. ASSUME ~Dead("c")', NEW i \in DOMAIN wire'["c"], IsReply(wire'["c"][i]),
                 NEW h, h = wire'["c"][i].body[1].h
          PROVE  /\ Vouched(h)'
                 /\ \A k \in DOMAIN wire'["c"] : wire'["c"][k].t = "newkeys" => i < k
      BY <1>1, <1>2, <3>0, <3>1, <3>2 DEF Agreement, Stepped
    <3>3. ASSUME ~Dead("c")', Settled("c")', NEW h, h = View("c")' PROVE Vouched(h)'
      BY <1>2, <3>0, <3>1, <3>3 DEF Agreement, Stepped
    <3> QED
      BY <1>3, <2>2, <3>2, <3>3 DEF Agreement, Vouched
  <2> QED
    BY <1>0, <2>1, <2>2
<1>7. SameSession'
  <2>1. \A f \in Ends : hs'[f].sid = hs[f].sid
    BY <1>0, <1>1
  <2>2. "c" \in Ends /\ "s" \in Ends
    BY DEF Ends
  <2>3. ASSUME NEW f \in Ends, ~Dead(f)', hs'[f].sid = <<>>, hs'[Peer(f)].sid # <<>>
        PROVE  ~Without(wire'[f], "newkeys") /\ wr'[Peer(f)].key.h = hs'[Peer(f)].sid
    <3>1. f = o /\ Peer(f) = e
      BY <1>0, <1>3, <2>3
    <3> QED
      BY <1>0, <1>1, <1>2, <2>3, <3>1 DEF SameSession, Stepped
  <2> QED
    BY <2>1, <2>2, <2>3 DEF SameSession, Stepped, Without
<1> QED
  BY <1>0, <1>4, <1>5, <1>6, <1>7 DEF Stepped

-----------------------------------------------------------------------------
(* e sends newkeys                                                         *)

LEMMA KeysWrite ==
    ASSUME NEW c, Sound(c), NEW new, new.mode \in Modes, NEW d, d = [c EXCEPT !.pending = <<new>>],
           NEW ps, WithKeys(ps), NEW s, NEW w, IsASeq(w), NEW b
    PROVE  LET x == WriteAll(d, ps, s) IN
           /\ Sound(x.state) /\ x.state.pending = <<>>
           /\ x.state.mode = new.mode /\ x.state.key = new.key
           /\ Link(w, b, c, s) => Link(w \o x.out, b, x.state, s)
<1>1. Sound(d) /\ Pends(d, new) /\ Same(c, d) /\ IsASeq(ps)
  BY DEF Sound, CsFields, Same, Pends, WithKeys
<1> PICK st, l, x : st = States(d, ps, s) /\ l = Len(ps) /\ x = WriteAll(d, ps, s)
  OBVIOUS
<1>2. /\ l \in Nat \ {0} /\ st[0] = d
      /\ \A i \in 1 .. l : st[i].mode = new.mode /\ st[i].key = new.key /\ st[i].pending = <<>>
      /\ \A i \in 0 .. l : Sound(st[i])
      /\ \A i \in 1 .. l : Follows(st[i - 1], st[i], ps[i].t, s)
  <2>1. Sound(d) /\ Pends(d, new) /\ WithKeys(ps) /\ st = States(d, ps, s) /\ l = Len(ps)
    BY <1>1
  <2>2. l \in Nat \ {0} /\ st[0] = d
    BY ONLY <2>1, KeysStates
  <2>3. \A i \in 1 .. l : st[i].mode = new.mode /\ st[i].key = new.key /\ st[i].pending = <<>>
    BY ONLY <2>1, KeysStates
  <2>4. \A i \in 0 .. l : Sound(st[i])
    BY ONLY <2>1, KeysStates
  <2>5. \A i \in 1 .. l : Follows(st[i - 1], st[i], ps[i].t, s)
    BY ONLY <2>1, KeysStates
  <2> QED
    BY <2>2, <2>3, <2>4, <2>5
<1>3. x.state = st[l] /\ l \in 0 .. l /\ l \in 1 .. l
  BY <1>1, <1>2, WriteAllTags
<1>4. Link(w, b, c, s) => Link(w \o x.out, b, x.state, s)
  BY <1>1, <1>2, LinkWrite
<1> QED
  BY <1>2, <1>3, <1>4

\* v is w with such packets behind it.
Rekeyed(v, w) ==
    \E k \in DOMAIN v :
        /\ DOMAIN v \subseteq Nat /\ v[k].t = "newkeys" /\ k \notin DOMAIN w
        /\ \A i \in DOMAIN w : i \in DOMAIN v /\ v[i] = w[i] /\ i < k
        /\ \A i \in DOMAIN v : i \in DOMAIN w \/ i = k \/ (k < i /\ v[i].t \notin {"newkeys", "init", "kex"})

LEMMA KeysBehind ==
    ASSUME NEW w, IsASeq(w), NEW c, NEW ps, WithKeys(ps), NEW s
    PROVE  Rekeyed(w \o WriteAll(c, ps, s).out, w)
<1> PICK out, v, k, l : out = WriteAll(c, ps, s).out /\ v = w \o out /\ k = Len(w) /\ l = Len(ps)
  OBVIOUS
<1>0. IsASeq(ps) /\ ps # <<>> /\ ps[1].t = "newkeys"
  BY DEF WithKeys
<1>1. /\ IsASeq(out) /\ Len(out) = l /\ DOMAIN ps = 1 .. l
      /\ \A i \in 1 .. l : out[i].t = ps[i].t
  BY <1>0, WriteAllOut
<1>2. l \in Nat \ {0}
  BY <1>0, TailSeq
<1>3. /\ k \in Nat /\ DOMAIN w = 1 .. k /\ DOMAIN v = 1 .. k + l
      /\ \A i \in 1 .. k : v[i] = w[i]
      /\ \A i \in 1 .. l : v[k + i] = out[i]
  BY ONLY <1>1, IsASeq(w), v = w \o out, k = Len(w), ConcatSeq
<1> PICK m : m = k + 1
  OBVIOUS
<1>4. m \in DOMAIN v /\ m \notin DOMAIN w /\ v[m].t = "newkeys"
  BY <1>0, <1>1, <1>2, <1>3
<1>5. \A i \in DOMAIN w : i \in DOMAIN v /\ v[i] = w[i] /\ i < m
  BY ONLY <1>2, <1>3, m = k + 1
<1>6. ASSUME NEW i \in DOMAIN v
      PROVE  i \in DOMAIN w \/ i = m \/ (m < i /\ v[i].t \notin {"newkeys", "init", "kex"})
  <2> SUFFICES ASSUME i \notin DOMAIN w, i # m PROVE m < i /\ v[i].t \notin {"newkeys", "init", "kex"}
    OBVIOUS
  <2> PICK j : j = i - k
    OBVIOUS
  <2>1. j \in 1 .. l /\ i = k + j /\ j # 1 /\ m < i
    BY <1>2, <1>3, <1>6
  <2>2. v[i] = out[j]
    BY ONLY <1>3, <2>1
  <2>3. v[i].t = ps[j].t /\ j \in DOMAIN ps
    BY ONLY <1>1, <2>1, <2>2
  <2> QED
    BY <2>1, <2>3 DEF WithKeys
<1>7. Rekeyed(v, w)
  BY ONLY <1>2, <1>3, <1>4, <1>5, <1>6 DEF Rekeyed
<1> QED
  BY <1>7

LEMMA KeysFacts ==
    ASSUME Lengths, NEW e \in Ends, Typed(e), Apart(e), NEW new, NEW ps, Keys(e, new, ps), Once(Peer(e))
    PROVE  LET o == Peer(e)  w == wire[Peer(e)]  v == wire'[Peer(e)] IN
           /\ Sound(wr'[e]) /\ wr'[e].pending = <<>> /\ wr'[e].mode = new.mode /\ wr'[e].key = Key(View(e), OutDir(e))
           /\ up[o] /\ Link(w, rd[o], wr[e], hs[e].strict) => Link(v, rd[o], wr'[e], hs[e].strict)
           /\ ~up[o] => v = w
           /\ up[o] => Rekeyed(v, w)
           /\ ~Dead(o) => Without(w, "newkeys") /\ Rekeyed(v, w)
<1> PICK o, c, s, w, v, b, d, x :
      /\ o = Peer(e) /\ c = wr[e] /\ s = hs[e].strict /\ w = wire[o] /\ v = wire'[o] /\ b = rd[o]
      /\ d = [c EXCEPT !.pending = <<new>>] /\ x = WriteAll(d, ps, s)
  OBVIOUS
<1>0. o \in Ends /\ Peer(o) = e
  BY PeerFacts
<1>1. WithKeys(ps) /\ Sound(c) /\ IsASeq(w) /\ new.mode \in Modes /\ new.key = Key(View(e), OutDir(e))
  BY <1>0 DEF Keys, Typed, Lengths
<1>2. wr'[e] = x.state /\ v = IF up[o] THEN w \o x.out ELSE w
  BY DEF Keys, Written
<1>4. /\ Sound(x.state) /\ x.state.pending = <<>> /\ x.state.mode = new.mode /\ x.state.key = new.key
      /\ Link(w, b, c, s) => Link(w \o x.out, b, x.state, s)
  BY <1>1, KeysWrite
<1>5. ~Dead(o) => Without(w, "newkeys")
  BY <1>0 DEF Keys, Once, Told, Keyed, Settled
<1>6. Rekeyed(w \o x.out, w)
  BY <1>1, KeysBehind
<1>7. ~Dead(o) => up[o]
  BY DEF Dead
<1>8. (up[o] => Rekeyed(v, w)) /\ (~Dead(o) => Rekeyed(v, w))
  BY <1>2, <1>6, <1>7
<1>9. /\ up[o] /\ Link(w, b, c, s) => Link(v, b, wr'[e], s)
      /\ Sound(wr'[e]) /\ wr'[e].pending = <<>> /\ wr'[e].mode = new.mode
  BY <1>2, <1>4
<1>10. (~up[o] => v = w) /\ wr'[e].key = Key(View(e), OutDir(e))
  BY <1>1, <1>2, <1>4
<1> QED
  BY <1>5, <1>8, <1>9, <1>10

LEMMA KeysLinked ==
    ASSUME Lengths, NEW e \in Ends, Typed(e), Apart(e), NEW new, NEW ps, Keys(e, new, ps), Once(Peer(e)),
           Linked(e), Linked(Peer(e))
    PROVE  Linked(e)' /\ Linked(Peer(e))'
<1> PICK o : o = Peer(e)
  OBVIOUS
<1>0. o \in Ends /\ o # e /\ Peer(o) = e /\ Peer(e) = o
  BY PeerFacts
<1>1. /\ up'[e] = up[e] /\ hs'[e].strict = hs[e].strict /\ wire'[e] = wire[e] /\ Same(rd[e], rd'[e])
      /\ wr'[o] = wr[o] /\ hs'[o] = hs[o] /\ up'[o] = up[o] /\ rd'[o] = rd[o]
  BY <1>0 DEF Keys, Apart
<1>2. Same(rd'[e], rd[e]) /\ Same(wr[o], wr[o])
  BY <1>1 DEF Same
<1>3. Linked(e)'
  BY <1>0, <1>1, <1>2, LinkSame DEF Linked
<1>4. hs'[e].sid # <<>>
  <2>1. View(e) # <<>>
    BY DEF View, Hash, ExchangeHash
  <2> QED
    BY <2>1 DEF Keys
<1>5. /\ up[o] /\ Link(wire[o], rd[o], wr[e], hs[e].strict) => Link(wire'[o], rd[o], wr'[e], hs[e].strict)
      /\ ~up[o] => wire'[o] = wire[o]
  BY KeysFacts
<1>6. Linked(o)'
  BY <1>0, <1>1, <1>4, <1>5 DEF Linked
<1> QED
  BY <1>3, <1>6

LEMMA RekeyedWithout ==
    ASSUME NEW v, NEW w, Rekeyed(v, w)
    PROVE  /\ ~Without(v, "newkeys")
           /\ \A i \in DOMAIN v : v[i].t = "kex" => i \in DOMAIN w
           /\ \A i \in DOMAIN w : i \in DOMAIN v /\ v[i] = w[i]
  BY DEF Rekeyed, Without

LEMMA RekeyedOnce ==
    ASSUME NEW v, NEW w, Rekeyed(v, w), Without(w, "newkeys")
    PROVE  /\ \A i, j \in DOMAIN v : v[i].t = "newkeys" /\ v[j].t = "newkeys" => i = j
           /\ \A i, j \in DOMAIN v : v[i].t = "newkeys" /\ i < j => v[j].t # "init"
           /\ \A i, j \in DOMAIN v : i \in DOMAIN w /\ v[j].t = "newkeys" => i < j
<1>1. PICK k \in DOMAIN v :
        /\ DOMAIN v \subseteq Nat /\ v[k].t = "newkeys" /\ k \notin DOMAIN w
        /\ \A i \in DOMAIN w : i \in DOMAIN v /\ v[i] = w[i] /\ i < k
        /\ \A i \in DOMAIN v : i \in DOMAIN w \/ i = k \/ (k < i /\ v[i].t \notin {"newkeys", "init", "kex"})
  BY DEF Rekeyed
<1>2. \A i \in DOMAIN v : v[i].t = "newkeys" => i = k
  BY <1>1 DEF Without
<1> QED
  BY <1>1, <1>2

LEMMA KeysOnce ==
    ASSUME Lengths, NEW e \in Ends, Typed(e), Apart(e), NEW new, NEW ps, Keys(e, new, ps), Once(e), Once(Peer(e))
    PROVE  Once(e)' /\ Once(Peer(e))'
<1> PICK o : o = Peer(e)
  OBVIOUS
<1>0. o \in Ends /\ o # e /\ Peer(o) = e /\ Peer(e) = o
  BY PeerFacts
<1>1. wire'[e] = wire[e] /\ ~Dead(e) /\ ~Keyed(e)
  BY DEF Keys, Told, Keyed
<1>2. (Dead(o)' <=> Dead(o)) /\ (Keyed(o)' <=> Keyed(o))
  BY PeerSame
<1>3. ~Dead(o) => Without(wire[o], "newkeys") /\ Rekeyed(wire'[o], wire[o])
  BY KeysFacts
<1>4. Once(e)'
  <2> SUFFICES ASSUME ~Dead(e)'
               PROVE  /\ \A i, j \in DOMAIN wire'[e] : wire'[e][i].t = "newkeys" /\ wire'[e][j].t = "newkeys" => i = j
                      /\ \/ Without(wire'[e], "newkeys") \/ Dead(o)'
                         \/ /\ Keyed(o)'
                            /\ \A i, j \in DOMAIN wire'[e] : wire'[e][i].t = "newkeys" /\ i < j => wire'[e][j].t # "init"
    BY <1>0 DEF Once, Without
  <2> QED
    BY <1>0, <1>1, <1>2 DEF Once
<1>5. Once(o)'
  <2> SUFFICES ASSUME ~Dead(o)'
               PROVE  /\ \A i, j \in DOMAIN wire'[o] : wire'[o][i].t = "newkeys" /\ wire'[o][j].t = "newkeys" => i = j
                      /\ Keyed(e)'
                      /\ \A i, j \in DOMAIN wire'[o] : wire'[o][i].t = "newkeys" /\ i < j => wire'[o][j].t # "init"
    BY <1>0 DEF Once
  <2>1. Without(wire[o], "newkeys") /\ Rekeyed(wire'[o], wire[o])
    BY <1>2, <1>3
  <2> QED
    BY <2>1, RekeyedOnce DEF Keys
<1> QED
  BY <1>4, <1>5

LEMMA KeysAgreement ==
    ASSUME Lengths, NEW e \in Ends, Typed(e), Apart(e), NEW new, NEW ps, Keys(e, new, ps),
           Once(e), Once(Peer(e)), Sourced(Peer(e)), Agreement
    PROVE  Agreement'
<1> PICK o : o = Peer(e)
  OBVIOUS
<1>0. o \in Ends /\ o # e /\ Peer(e) = o /\ Peer(o) = e /\ ((e = "c" /\ o = "s") \/ (e = "s" /\ o = "c"))
  BY DEF Peer, Ends
<1>1. /\ wire'[e] = wire[e] /\ wr'[o] = wr[o] /\ ~Dead(e) /\ Told(e) /\ Settled(e) /\ Settled(e)'
      /\ View(e)' = View(e)
  BY DEF Keys, Apart, Told, Keyed
<1>2. /\ (Dead(o)' <=> Dead(o)) /\ (Told(o)' <=> Told(o)) /\ (Settled(o)' <=> Settled(o))
      /\ View(o)' = View(o)
  BY PeerSame
<1>3. /\ ~Dead(o) => Without(wire[o], "newkeys") /\ Rekeyed(wire'[o], wire[o])
      /\ wr'[e].key = Key(View(e), OutDir(e))
  BY KeysFacts
<1>4. wr'[e].key.h = View(e)
  BY <1>3 DEF Key
<1>5. CASE e = "c"
  <2>0. o = "s"
    BY <1>0, <1>5
  <2>1. \A h : Vouched(h)' <=> Vouched(h)
    BY <1>1, <1>2, <1>5, <2>0 DEF Vouched
  <2>2. ASSUME ~Dead("c")', NEW i \in DOMAIN wire'["c"], IsReply(wire'["c"][i]),
               NEW h, h = wire'["c"][i].body[1].h
        PROVE  /\ Vouched(h)'
               /\ \A k \in DOMAIN wire'["c"] : wire'["c"][k].t = "newkeys" => i < k
    BY <1>1, <1>5, <2>1, <2>2 DEF Agreement
  <2>3. ASSUME NEW h, h = View("c")' PROVE Vouched(h)'
    BY <1>1, <1>5, <2>1, <2>3 DEF Agreement
  <2>4. ASSUME ~Dead("s")' PROVE Settled("s")' /\ wr'["c"].key.h = View("s")'
    <3>1. ~Dead("s") /\ Vouched(View("c"))
      BY <1>1, <1>2, <1>5, <2>0, <2>4 DEF Agreement
    <3>2. CASE Without(wire["c"], "newkeys")
      BY <1>2, <1>4, <1>5, <2>0, <3>1, <3>2 DEF Vouched, Told
    <3>3. CASE ~Without(wire["c"], "newkeys")
      <4>1. Keyed("s") /\ wr["s"].key.h = View("c")
        BY <1>0, <1>1, <1>5, <2>0, <3>1, <3>3 DEF Vouched, Once, Told, Keyed
      <4>2. wr["s"].key = Key(View("s"), OutDir("s"))
        BY <2>0, <4>1 DEF Sourced, Keyed, Settled
      <4> QED
        BY <1>2, <1>4, <1>5, <2>0, <4>1, <4>2 DEF Key, Keyed
    <3> QED
      BY <3>2, <3>3
  <2> QED
    BY <2>2, <2>3, <2>4 DEF Agreement, Vouched
<1>6. CASE e = "s"
  <2>0. o = "c"
    BY <1>0, <1>6
  <2>1. ASSUME ~Dead("c"), NEW h, Vouched(h) PROVE Vouched(h)'
    <3>1. View("s") = h
      BY <1>1, <1>3, <1>6, <2>0, <2>1 DEF Vouched
    <3>2. ~Without(wire'["c"], "newkeys")
      BY <1>3, <2>0, <2>1, RekeyedWithout
    <3> QED
      BY <1>4, <1>6, <3>1, <3>2 DEF Vouched, Without
  <2>2. ASSUME ~Dead("c")', NEW i \in DOMAIN wire'["c"], IsReply(wire'["c"][i]),
               NEW h, h = wire'["c"][i].body[1].h
        PROVE  /\ Vouched(h)'
               /\ \A k \in DOMAIN wire'["c"] : wire'["c"][k].t = "newkeys" => i < k
    <3>1. ~Dead("c") /\ Without(wire["c"], "newkeys") /\ Rekeyed(wire'["c"], wire["c"])
      BY <1>2, <1>3, <2>0, <2>2
    <3>2. i \in DOMAIN wire["c"] /\ wire["c"][i] = wire'["c"][i]
      BY <2>2, <3>1, RekeyedWithout DEF IsReply
    <3>3. Vouched(h)
      BY <2>2, <3>1, <3>2 DEF Agreement
    <3>4. \A k \in DOMAIN wire'["c"] : wire'["c"][k].t = "newkeys" => i < k
      BY <2>2, <3>1, <3>2, RekeyedOnce
    <3> QED
      BY <2>1, <3>1, <3>3, <3>4
  <2>3. ASSUME ~Dead("c")', Settled("c")', NEW h, h = View("c")' PROVE Vouched(h)'
    BY <1>2, <2>0, <2>1, <2>3 DEF Agreement
  <2>4. ~Dead("s")' /\ ~Without(wire'["s"], "newkeys") => Settled("s")' /\ wr'["c"].key.h = View("s")'
    BY <1>1, <1>6, <2>0 DEF Agreement
  <2> QED
    BY <2>2, <2>3, <2>4 DEF Agreement, Vouched
<1> QED
  BY <1>0, <1>5, <1>6

LEMMA KeysSession ==
    ASSUME Lengths, NEW e \in Ends, Typed(e), Apart(e), NEW new, NEW ps, Keys(e, new, ps),
           Once(Peer(e)), Agreement, SameSession
    PROVE  SameSession'
<1> PICK o : o = Peer(e)
  OBVIOUS
<1>0. /\ o \in Ends /\ o # e /\ Peer(e) = o /\ Peer(o) = e /\ (\A f \in Ends : f = e \/ f = o)
      /\ ((e = "c" /\ o = "s") \/ (e = "s" /\ o = "c"))
  BY DEF Peer, Ends
<1>1. /\ wr'[o] = wr[o] /\ hs'[o] = hs[o] /\ ~Dead(e) /\ Settled(e)
      /\ hs'[e].sid = IF hs[e].sid = <<>> THEN View(e) ELSE hs[e].sid
  BY DEF Keys, Apart, Told
<1>2. Dead(o)' <=> Dead(o)
  BY PeerSame
<1>3. /\ ~Dead(o) => Without(wire[o], "newkeys") /\ Rekeyed(wire'[o], wire[o])
      /\ wr'[e].key = Key(View(e), OutDir(e))
  BY KeysFacts
<1>4. hs'[e].sid # <<>>
  <2>1. View(e) # <<>>
    BY DEF View, Hash, ExchangeHash
  <2> QED
    BY <1>1, <2>1
<1>5. hs[o].sid # <<>> => hs'[e].sid = hs[o].sid
  <2>1. CASE hs[e].sid # <<>>
    BY <1>0, <1>1, <2>1 DEF SameSession
  <2>2. CASE hs[e].sid = <<>>
    <3> SUFFICES ASSUME hs[o].sid # <<>> PROVE View(e) = hs[o].sid
      BY <1>1, <2>2
    <3>1. ~Without(wire[e], "newkeys") /\ wr[o].key.h = hs[o].sid
      BY <1>0, <1>1, <2>2 DEF SameSession
    <3>2. wr[o].key.h = View(e)
      BY <1>0, <1>1, <3>1 DEF Agreement, Vouched
    <3> QED
      BY <3>1, <3>2
  <2> QED
    BY <2>1, <2>2
<1>6. ASSUME ~Dead(o)', hs'[o].sid = <<>>
      PROVE  ~Without(wire'[o], "newkeys") /\ wr'[e].key.h = hs'[e].sid
  <2>1. ~Dead(o) /\ Without(wire[o], "newkeys") /\ Rekeyed(wire'[o], wire[o]) /\ hs[o].sid = <<>>
    BY <1>1, <1>2, <1>3, <1>6
  <2>2. hs[e].sid = <<>>
    BY <1>0, <2>1 DEF SameSession
  <2>3. ~Without(wire'[o], "newkeys")
    BY <2>1, RekeyedWithout
  <2> QED
    BY <1>1, <1>3, <2>2, <2>3 DEF Key
<1>7. hs'["c"].sid # <<>> /\ hs'["s"].sid # <<>> => hs'["c"].sid = hs'["s"].sid
  BY <1>0, <1>1, <1>5
<1>8. ASSUME NEW f \in Ends, ~Dead(f)', hs'[f].sid = <<>>, hs'[Peer(f)].sid # <<>>
      PROVE  ~Without(wire'[f], "newkeys") /\ wr'[Peer(f)].key.h = hs'[Peer(f)].sid
  <2>1. f = o /\ Peer(f) = e
    BY <1>0, <1>4, <1>8
  <2> QED
    BY <1>6, <1>8, <2>1
<1> QED
  BY <1>7, <1>8 DEF SameSession, Without

-----------------------------------------------------------------------------
(* e takes the peer's newkeys                                              *)

\* The writer has gone on under the key that its reader has pending.
LEMMA TakesKey ==
    ASSUME NEW e \in Ends, NEW o, o = Peer(e), ~Dead(e), Keyed(e), ~Without(wire[e], "newkeys"),
           Typed(e), Typed(o), Sourced(e), Sourced(o), Linked(e), Agreement, SameSession
    PROVE  /\ wr[o].key.h = View(e) /\ hs[o].sid # <<>> /\ hs[e].strict = hs[o].strict
           /\ rd[e].pending = <<NewCipher(wr[o].mode, OutDir(o), View(e))>> /\ wr[o].mode \in Modes
           /\ wr[o].key = Key(View(e), OutDir(o))
<1>0. ((e = "c" /\ o = "s") \/ (e = "s" /\ o = "c")) /\ Settled(e) /\ InKex(e) /\ rd[e].pending # <<>>
  BY DEF Peer, Ends, Keyed, Settled
<1>1. wr[o].key.h = View(e)
  BY <1>0 DEF Agreement, Vouched
<1>2. hs[o].sid # <<>>
  BY DEF Linked
<1>3. /\ hs[e].sid # <<>> /\ (hs[e].strict <=> Strict(hs[e].sid))
      /\ rd[e].pending = <<NewCipher(Mode(View(e), OutDir(o)), OutDir(o), View(e))>>
  BY <1>0 DEF Sourced
<1>4. /\ wr[o].key = Key(wr[o].key.h, OutDir(o)) /\ wr[o].mode = Mode(wr[o].key.h, OutDir(o))
      /\ (hs[o].strict <=> Strict(hs[o].sid))
  BY <1>2 DEF Sourced
<1>5. hs[e].sid = hs[o].sid
  BY <1>0, <1>2, <1>3 DEF SameSession
<1>6. hs[e].strict = hs[o].strict
  BY <1>3, <1>4, <1>5 DEF Typed
<1>7. wr[o].mode \in Modes
  BY DEF Typed, Sound
<1> QED
  BY <1>1, <1>2, <1>3, <1>4, <1>6, <1>7

LEMMA TakesLinked ==
    ASSUME Lengths, NEW e \in Ends, Typed(e), Typed(Peer(e)), Sourced(e), Sourced(Peer(e)), Stepped,
           Apart(e), NEW ps, Takes(e, ps)
    PROVE  Linked(e)' /\ Linked(Peer(e))'
<1> PICK o : o = Peer(e)
  OBVIOUS
<1>0. o \in Ends /\ o # e /\ Peer(o) = e /\ Peer(e) = o
  BY PeerFacts
<1>1. /\ up'[e] = up[e] /\ hs'[e].strict = hs[e].strict /\ hs'[e].sid = hs[e].sid
      /\ wr'[o] = wr[o] /\ hs'[o] = hs[o] /\ up'[o] = up[o] /\ rd'[o] = rd[o]
      /\ Linked(e) /\ Linked(o) /\ Once(e) /\ Agreement /\ SameSession
  BY <1>0 DEF Takes, Apart, Stepped
<1>2. /\ wire[e] # <<>> /\ wire[e][1].t = "newkeys" /\ IsASeq(wire[e]) /\ Keyed(e) /\ ~Dead(e)
      /\ wire'[e] = Tail(wire[e]) /\ rd'[e] = Advance(rd[e], wire[e][1], hs[e].strict)
  BY DEF Takes, Lengths
<1>3. Shorter(Tail(wire[e]), wire[e])
  BY <1>2, ShorterTail
<1>4. ~Without(wire[e], "newkeys") /\ 1 \in DOMAIN wire[e]
  BY <1>2, <1>3 DEF Shorter, Without
<1>5. /\ hs[o].sid # <<>> /\ hs[e].strict = hs[o].strict
      /\ rd[e].pending = <<NewCipher(wr[o].mode, OutDir(o), View(e))>> /\ wr[o].mode \in Modes
      /\ wr[o].key = Key(View(e), OutDir(o))
  BY <1>1, <1>2, <1>4, TakesKey
<1>6. \A i \in 2 .. Len(wire[e]) : wire[e][i].t # "newkeys"
  <2>1. \A i \in DOMAIN wire[e] : wire[e][i].t = "newkeys" => i = 1
    BY <1>1, <1>2, <1>4 DEF Once
  <2>2. \A i \in 2 .. Len(wire[e]) : i \in DOMAIN wire[e] /\ i # 1
    BY <1>2, TailSeq
  <2> QED
    BY <2>1, <2>2
<1>7. Link(Tail(wire[e]), rd'[e], wr[o], hs[o].strict)
  <2> PICK w, c, d, s, new : /\ w = wire[e] /\ c = rd[e] /\ d = wr[o] /\ s = hs[o].strict
                             /\ new = NewCipher(wr[o].mode, OutDir(o), View(e))
    OBVIOUS
  <2>1. up[e]
    BY <1>2 DEF Dead
  <2>2. IsASeq(w) /\ w # <<>> /\ w[1].t = "newkeys" /\ (\A i \in 2 .. Len(w) : w[i].t # "newkeys") /\ Sound(c)
    BY <1>2, <1>6 DEF Typed
  <2>3. Link(w, c, d, s)
    BY <1>0, <1>1, <2>1 DEF Linked
  <2>4. c.pending = <<new>> /\ new.mode \in Modes /\ new.mode = d.mode /\ new.key = d.key
    BY <1>5 DEF NewCipher, Key
  <2>5. Link(Tail(w), Advance(c, w[1], s), d, s)
    BY ONLY <2>2, <2>3, <2>4, LinkTailKeys
  <2> QED
    BY <1>2, <1>5, <2>5
<1>8. Linked(e)'
  BY <1>0, <1>1, <1>2, <1>5, <1>7 DEF Linked, Dead
<1>9. Written(e, wr[e], ps) /\ Without(ps, "newkeys")
  BY DEF Takes, Without
<1>10. up[o] => Link(wire'[o], rd[o], wr'[e], hs[e].strict)
  BY <1>0, <1>1, <1>9, WrittenPlain DEF Linked
<1>11. ~up[o] => wire'[o] = <<>>
  BY <1>0, <1>1, <1>9 DEF Written, Linked
<1>12. hs[e].sid # <<>>
  BY <1>2 DEF Sourced, Keyed, Settled
<1>13. Linked(o)'
  BY <1>0, <1>1, <1>10, <1>11, <1>12 DEF Linked
<1> QED
  BY <1>8, <1>13

LEMMA TakesFacts ==
    ASSUME Lengths, NEW e \in Ends, Typed(e), Apart(e), NEW ps, Takes(e, ps), Once(e)
    PROVE  /\ Without(wire'[e], "newkeys") /\ ~Without(wire[e], "newkeys")
           /\ Shorter(wire'[e], wire[e]) /\ wire[e][1].t = "newkeys" /\ 1 \in DOMAIN wire[e]
           /\ Longer(wire'[Peer(e)], wire[Peer(e)], ps)
           /\ \A i \in DOMAIN ps : ps[i].t \notin {"newkeys", "init", "kex"}
           /\ Without(wire'[Peer(e)], "newkeys") <=> Without(wire[Peer(e)], "newkeys")
           /\ wr'[e].key = wr[e].key
<1>1. Written(e, wr[e], ps) /\ Without(ps, "newkeys") /\ \A i \in DOMAIN ps : ps[i].t \notin {"newkeys", "init", "kex"}
  BY DEF Takes, Without
<1> PICK w, v : w = wire[e] /\ v = wire'[e]
  OBVIOUS
<1>2. IsASeq(w) /\ w # <<>> /\ w[1].t = "newkeys" /\ v = Tail(w) /\ ~Dead(e)
  BY DEF Takes, Lengths
<1>3. Shorter(v, w)
  BY <1>2, ShorterTail
<1>4. 1 \in DOMAIN w
  BY <1>3 DEF Shorter
<1>5. \A i \in DOMAIN w : w[i].t = "newkeys" => i = 1
  BY <1>2, <1>4 DEF Once
<1>6. Without(v, "newkeys")
  <2> SUFFICES ASSUME NEW i \in DOMAIN v, v[i].t = "newkeys" PROVE FALSE
    BY DEF Without
  <2>1. i \in Nat /\ 1 <= i /\ i + 1 \in DOMAIN w /\ v[i] = w[i + 1]
    <3>1. i \in 1 .. Len(w) - 1 /\ Len(w) \in Nat
      BY <1>2, TailSeq
    <3> QED
      BY <1>3, <3>1 DEF Shorter
  <2>2. i + 1 # 1
    BY <2>1
  <2> QED
    BY <1>5, <2>1, <2>2
<1>7. Longer(wire'[Peer(e)], wire[Peer(e)], ps)
  BY <1>1, WrittenLonger
<1>8. Without(wire'[Peer(e)], "newkeys") <=> Without(wire[Peer(e)], "newkeys")
  BY <1>1, <1>7, LongerWithout
<1>9. wr'[e].key = wr[e].key
  BY <1>1, WrittenPlain
<1>10. ~Without(w, "newkeys")
  BY <1>2, <1>4 DEF Without
<1> QED
  BY <1>1, <1>2, <1>3, <1>4, <1>6, <1>7, <1>8, <1>9, <1>10

LEMMA TakesOnce ==
    ASSUME Lengths, NEW e \in Ends, Typed(e), Apart(e), NEW ps, Takes(e, ps), Once(e), Once(Peer(e))
    PROVE  Once(e)' /\ Once(Peer(e))'
<1> PICK o : o = Peer(e)
  OBVIOUS
<1>0. o \in Ends /\ o # e /\ Peer(o) = e /\ Peer(e) = o
  BY PeerFacts
<1>1. /\ Without(wire'[e], "newkeys") /\ ~Without(wire[e], "newkeys")
      /\ Shorter(wire'[e], wire[e]) /\ wire[e][1].t = "newkeys" /\ 1 \in DOMAIN wire[e]
      /\ Longer(wire'[o], wire[o], ps) /\ \A i \in DOMAIN ps : ps[i].t \notin {"newkeys", "init", "kex"}
      /\ Without(wire'[o], "newkeys") <=> Without(wire[o], "newkeys")
  BY TakesFacts
<1>2. (Dead(o)' <=> Dead(o)) /\ (Keyed(o)' <=> Keyed(o))
  BY PeerSame
<1>3. Keyed(e) /\ InKex(e) /\ ~Dead(e) /\ ~InKex(e)' /\ rl'[e].pc # "start"
  BY DEF Takes, Keyed, Settled
<1>4. Once(e)'
  BY <1>1 DEF Once, Without
<1>5. Once(o)'
  <2> SUFFICES ASSUME ~Dead(o)'
               PROVE  /\ \A i, j \in DOMAIN wire'[o] : wire'[o][i].t = "newkeys" /\ wire'[o][j].t = "newkeys" => i = j
                      /\ \/ Without(wire'[o], "newkeys")
                         \/ Keyed(o)' /\ Without(wire'[e], "init")
    BY <1>0, <1>1, <1>3 DEF Once, Without
  <2>1. \A i \in DOMAIN wire'[o] : wire'[o][i].t = "newkeys" => i \in DOMAIN wire[o] /\ wire[o][i].t = "newkeys"
    BY <1>1 DEF Longer
  <2>2. \A i, j \in DOMAIN wire'[o] : wire'[o][i].t = "newkeys" /\ wire'[o][j].t = "newkeys" => i = j
    BY <1>0, <1>2, <2>1 DEF Once
  <2>3. \/ Without(wire[o], "newkeys")
        \/ Keyed(o) /\ \A i, j \in DOMAIN wire[e] : wire[e][i].t = "newkeys" /\ i < j => wire[e][j].t # "init"
    <3>1. \/ Without(wire[e], "newkeys") \/ Dead(o)
          \/ Keyed(o) /\ \A i, j \in DOMAIN wire[e] : wire[e][i].t = "newkeys" /\ i < j => wire[e][j].t # "init"
          \/ Without(wire[o], "newkeys")
      BY <1>0, <1>3 DEF Once
    <3> QED
      BY <1>1, <1>2, <3>1
  <2>4. ASSUME \A i, j \in DOMAIN wire[e] : wire[e][i].t = "newkeys" /\ i < j => wire[e][j].t # "init"
        PROVE  Without(wire'[e], "init")
    <3> PICK w, v : w = wire[e] /\ v = wire'[e]
      OBVIOUS
    <3> SUFFICES ASSUME NEW i \in DOMAIN v PROVE v[i].t # "init"
      BY DEF Without
    <3>1. Shorter(v, w) /\ w[1].t = "newkeys" /\ 1 \in DOMAIN w
      BY <1>1
    <3>2. i \in Nat /\ 1 <= i /\ i + 1 \in DOMAIN w /\ v[i] = w[i + 1]
      <4>1. IsASeq(w) /\ w # <<>> /\ v = Tail(w)
        BY DEF Lengths, Takes
      <4>2. i \in 1 .. Len(w) - 1 /\ Len(w) \in Nat
        BY <4>1, TailSeq
      <4> QED
        BY <3>1, <4>2 DEF Shorter
    <3>3. 1 < i + 1
      BY <3>2
    <3> QED
      BY <2>4, <3>1, <3>2, <3>3
  <2> QED
    BY <1>1, <1>2, <2>2, <2>3, <2>4
<1> QED
  BY <1>4, <1>5

LEMMA TakesAgreement ==
    ASSUME Lengths, NEW e \in Ends, Typed(e), Apart(e), NEW ps, Takes(e, ps), Once(e), Agreement
    PROVE  Agreement'
<1> PICK o : o = Peer(e)
  OBVIOUS
<1>0. o \in Ends /\ o # e /\ Peer(e) = o /\ Peer(o) = e /\ ((e = "c" /\ o = "s") \/ (e = "s" /\ o = "c"))
  BY DEF Peer, Ends
<1>1. /\ Without(wire'[e], "newkeys") /\ ~Without(wire[e], "newkeys")
      /\ Shorter(wire'[e], wire[e]) /\ wire[e][1].t = "newkeys" /\ 1 \in DOMAIN wire[e]
      /\ Longer(wire'[o], wire[o], ps) /\ \A i \in DOMAIN ps : ps[i].t \notin {"newkeys", "init", "kex"}
      /\ Without(wire'[o], "newkeys") <=> Without(wire[o], "newkeys")
      /\ wr'[e].key = wr[e].key
  BY TakesFacts
<1>2. /\ (Dead(o)' <=> Dead(o)) /\ (Told(o)' <=> Told(o)) /\ (Settled(o)' <=> Settled(o))
      /\ View(o)' = View(o)
  BY PeerSame
<1>3. Keyed(e) /\ ~Told(e) /\ ~Dead(e) /\ ~Settled(e)' /\ wr'[o] = wr[o]
  BY DEF Takes, Apart, Keyed, Told, Settled
<1>4. CASE e = "c"
  <2>0. o = "s"
    BY <1>0, <1>4
  <2>1. ASSUME NEW i \in DOMAIN wire'["c"] PROVE ~IsReply(wire'["c"][i])
    <3> PICK w, v : w = wire["c"] /\ v = wire'["c"]
      OBVIOUS
    <3>1. i + 1 \in DOMAIN w /\ v[i] = w[i + 1] /\ i \in Nat /\ w[1].t = "newkeys" /\ 1 \in DOMAIN w
      BY <1>1, <1>4, <2>1 DEF Shorter
    <3>2. IsReply(w[i + 1]) => i + 1 < 1
      BY <1>3, <1>4, <3>1 DEF Agreement
    <3>3. ~(i + 1 < 1)
      BY <3>1
    <3> QED
      BY <3>1, <3>2, <3>3
  <2>2. ~Dead("s")' /\ ~Without(wire'["s"], "newkeys") => Settled("s")' /\ wr'["c"].key.h = View("s")'
    BY <1>1, <1>2, <1>4, <2>0 DEF Agreement
  <2> QED
    BY <1>3, <1>4, <2>1, <2>2 DEF Agreement
<1>5. CASE e = "s"
  <2>0. o = "c"
    BY <1>0, <1>5
  <2>1. \A h : Vouched(h) => Vouched(h)'
    BY <1>1, <1>3, <1>5, <2>0 DEF Vouched
  <2>2. ASSUME ~Dead("c")', NEW i \in DOMAIN wire'["c"], IsReply(wire'["c"][i]),
               NEW h, h = wire'["c"][i].body[1].h
        PROVE  /\ Vouched(h)'
               /\ \A k \in DOMAIN wire'["c"] : wire'["c"][k].t = "newkeys" => i < k
    <3>1. i \in DOMAIN wire["c"] /\ wire'["c"][i] = wire["c"][i]
      BY <1>1, <2>0, <2>2 DEF Longer, IsReply
    <3>2. Vouched(h) /\ \A k \in DOMAIN wire["c"] : wire["c"][k].t = "newkeys" => i < k
      BY <1>2, <2>0, <2>2, <3>1 DEF Agreement
    <3>3. \A k \in DOMAIN wire'["c"] : wire'["c"][k].t = "newkeys" => k \in DOMAIN wire["c"] /\ wire["c"][k].t = "newkeys"
      BY <1>1, <2>0 DEF Longer
    <3> QED
      BY <2>1, <3>2, <3>3
  <2>3. ASSUME ~Dead("c")', Settled("c")', NEW h, h = View("c")' PROVE Vouched(h)'
    BY <1>2, <2>0, <2>1, <2>3 DEF Agreement
  <2> QED
    BY <1>1, <1>5, <2>2, <2>3 DEF Agreement, Vouched, Without
<1> QED
  BY <1>0, <1>4, <1>5

LEMMA TakesSession ==
    ASSUME Lengths, NEW e \in Ends, Typed(e), Sourced(e), Apart(e), NEW ps, Takes(e, ps),
           Linked(e), Once(e), SameSession
    PROVE  SameSession'
<1> PICK o : o = Peer(e)
  OBVIOUS
<1>0. o \in Ends /\ o # e /\ Peer(e) = o /\ Peer(o) = e /\ (\A f \in Ends : f = e \/ f = o) /\ "c" \in Ends /\ "s" \in Ends
  BY PeerFacts DEF Ends
<1>1. hs'[e].sid = hs[e].sid /\ hs'[o] = hs[o] /\ Keyed(e)
  BY DEF Takes, Apart
<1>2. hs[e].sid # <<>> /\ hs[o].sid # <<>>
  BY <1>0, <1>1, TakesFacts DEF Sourced, Keyed, Settled, Linked
<1>3. \A f \in Ends : hs'[f].sid = hs[f].sid /\ hs[f].sid # <<>>
  BY <1>0, <1>1, <1>2
<1> QED
  BY <1>0, <1>3 DEF SameSession

-----------------------------------------------------------------------------
(* No tag is used twice                                                    *)

\* d is the state after a packet written at c: the same key, one further, or
\* the key of a later exchange.
Later(e, c, d) ==
    \/ d.key = c.key /\ d.mode = c.mode /\ d.cnt = c.cnt + 1 /\ d.seq = c.seq + 1
    \/ /\ d.key # Plain /\ OwnCookie(e, d.key.h) \in Nat
       /\ c.key # Plain => OwnCookie(e, c.key.h) \in Nat /\ OwnCookie(e, c.key.h) < OwnCookie(e, d.key.h)

LEMMA TagShape ==
    ASSUME NEW c, Sound(c)
    PROVE  \/ Tag(c).key = Plain
           \/ /\ Tag(c).key = c.key
              /\ IF c.mode = "chacha" THEN Tag(c).mac = c.seq ELSE Tag(c).at = c.cnt
<1>1. c.mode \in {"none", "stream", "cbc", "gcm", "chacha"}
  BY DEF Sound, Modes
<1>2. CASE c.mode = "none"
  BY <1>2 DEF Tag, NoneWrite
<1>3. CASE c.mode = "stream"
  BY <1>3 DEF Tag, StreamWrite
<1>4. CASE c.mode = "cbc"
  BY <1>4 DEF Tag, CbcWrite
<1>5. CASE c.mode = "gcm"
  BY <1>5 DEF Tag, GcmWrite
<1>6. CASE c.mode = "chacha"
  BY <1>6 DEF Tag, ChachaWrite
<1> QED
  BY <1>1, <1>2, <1>3, <1>4, <1>5, <1>6

LEMMA UsedLater ==
    ASSUME NEW e, NEW c, Sound(c), NEW d, Later(e, c, d), NEW tag, Used(e, c, tag)
    PROVE  Used(e, d, tag)
<1> SUFFICES ASSUME tag.key # Plain PROVE Used(e, d, tag)
  BY DEF Used
<1>1. c.cnt \in Nat /\ c.seq \in Nat
  BY DEF Sound
<1>2. CASE /\ c.key # Plain /\ OwnCookie(e, tag.key.h) \in Nat
           /\ OwnCookie(e, tag.key.h) < OwnCookie(e, c.key.h)
  <2> PICK m, n, k : m = OwnCookie(e, tag.key.h) /\ n = OwnCookie(e, c.key.h) /\ k = OwnCookie(e, d.key.h)
    OBVIOUS
  <2>1. CASE d.key = c.key
    BY <1>2, <2>1 DEF Used
  <2>2. CASE d.key # Plain /\ k \in Nat /\ n \in Nat /\ n < k
    <3>1. m < k
      BY <1>2, <2>2
    <3> QED
      BY <1>2, <2>2, <3>1 DEF Used
  <2> QED
    BY <1>2, <2>1, <2>2 DEF Later
<1>3. CASE /\ tag.key = c.key
           /\ IF c.mode = "chacha" THEN tag.mac \in Nat /\ tag.mac < c.seq ELSE tag.at \in Nat /\ tag.at < c.cnt
  <2>1. CASE d.key = c.key /\ d.mode = c.mode /\ d.cnt = c.cnt + 1 /\ d.seq = c.seq + 1
    <3>1. IF c.mode = "chacha" THEN tag.mac \in Nat /\ tag.mac < d.seq ELSE tag.at \in Nat /\ tag.at < d.cnt
      BY <1>1, <1>3, <2>1
    <3> QED
      BY <1>3, <2>1, <3>1 DEF Used
  <2>2. CASE /\ d.key # Plain
             /\ c.key # Plain => OwnCookie(e, c.key.h) \in Nat /\ OwnCookie(e, c.key.h) < OwnCookie(e, d.key.h)
    BY <1>3, <2>2 DEF Used
  <2> QED
    BY <2>1, <2>2 DEF Later
<1> QED
  BY <1>2, <1>3 DEF Used

LEMMA UsedTag ==
    ASSUME NEW e, NEW c, Sound(c), NEW d, Later(e, c, d)
    PROVE  Used(e, d, Tag(c))
<1> PICK tag : tag = Tag(c)
  OBVIOUS
<1>1. c.cnt \in Nat /\ c.seq \in Nat
  BY DEF Sound
<1>2. CASE tag.key = Plain
  BY <1>2 DEF Used
<1>3. CASE /\ tag.key # Plain /\ tag.key = c.key
           /\ IF c.mode = "chacha" THEN tag.mac = c.seq ELSE tag.at = c.cnt
  <2>1. CASE d.key = c.key /\ d.mode = c.mode /\ d.cnt = c.cnt + 1 /\ d.seq = c.seq + 1
    <3>1. IF c.mode = "chacha" THEN tag.mac \in Nat /\ tag.mac < d.seq ELSE tag.at \in Nat /\ tag.at < d.cnt
      BY <1>1, <1>3, <2>1
    <3> QED
      BY <1>3, <2>1, <3>1 DEF Used
  <2>2. CASE /\ d.key # Plain
             /\ c.key # Plain => OwnCookie(e, c.key.h) \in Nat /\ OwnCookie(e, c.key.h) < OwnCookie(e, d.key.h)
    BY <1>3, <2>2 DEF Used
  <2> QED
    BY <2>1, <2>2 DEF Later
<1> QED
  BY <1>2, <1>3, TagShape

LEMMA UsedDiffers ==
    ASSUME NEW e, NEW c, Sound(c), NEW tag, Used(e, c, tag)
    PROVE  tag # Tag(c) \/ tag.key = Plain
<1> SUFFICES ASSUME tag = Tag(c), tag.key # Plain PROVE FALSE
  OBVIOUS
<1>1. c.cnt \in Nat /\ c.seq \in Nat
  BY DEF Sound
<1>2. /\ tag.key = c.key
      /\ IF c.mode = "chacha" THEN tag.mac = c.seq ELSE tag.at = c.cnt
  BY TagShape
<1>3. \A n \in Nat : ~(n < n)
  OBVIOUS
<1> QED
  BY <1>1, <1>2, <1>3 DEF Used

LEMMA FreshWrite ==
    ASSUME NEW e, NEW w, IsASeq(w), NEW c, FreshTags(e, c, w), NEW x, x.key = c.key, x.mode = c.mode, x.cnt = c.cnt, x.seq = c.seq,
           NEW ps, IsASeq(ps), NEW strict, NEW st, st = States(x, ps, strict), st[0] = x,
           \A i \in 0 .. Len(ps) : Sound(st[i]),
           \A i \in 1 .. Len(ps) : Later(e, st[i - 1], st[i])
    PROVE  LET y == WriteAll(x, ps, strict) IN
           FreshTags(e, y.state, w) /\ FreshTags(e, y.state, w \o y.out)
<1> PICK out, v, k, l, y : y = WriteAll(x, ps, strict) /\ out = y.out /\ v = w \o out /\ k = Len(w) /\ l = Len(ps)
  OBVIOUS
<1>1. IsASeq(out) /\ Len(out) = l /\ DOMAIN ps = 1 .. l
  BY WriteAllOut
<1>2. /\ k \in Nat /\ l \in Nat /\ DOMAIN w = 1 .. k /\ DOMAIN v = 1 .. k + l
      /\ \A i \in 1 .. k : v[i] = w[i]
      /\ \A i \in 1 .. l : v[k + i] = out[i]
  BY ONLY <1>1, IsASeq(w), v = w \o out, k = Len(w), ConcatSeq
<1>3. /\ y.state = st[l]
      /\ \A i \in 1 .. l : out[i].tag = Tag(st[i - 1])
  BY WriteAllTags
<1> DEFINE Fresh(n) ==
             /\ \A i \in 1 .. k + n : Used(e, st[n], v[i].tag)
             /\ \A i, j \in 1 .. k + n : i < j => v[i].tag # v[j].tag \/ v[i].tag.key = Plain
           S == {n \in Nat : n <= l => Fresh(n)}
<1> HIDE DEF Fresh
<1>4. 0 \in S
  <2>1. k + 0 = k
    BY <1>2
  <2>2. \A tag : Used(e, c, tag) => Used(e, x, tag)
    BY DEF Used
  <2>3. Fresh(0)
    BY <1>2, <2>1, <2>2 DEF FreshTags, Fresh
  <2> QED
    BY <2>3
<1>5. ASSUME NEW n \in Nat, n \in S PROVE n + 1 \in S
  <2> SUFFICES ASSUME n + 1 <= l PROVE Fresh(n + 1)
    OBVIOUS
  <2>1. Fresh(n) /\ n \in 0 .. l /\ n + 1 \in 1 .. l /\ (n + 1) - 1 = n
    BY <1>2, <1>5
  <2> PICK m, a, b : m = k + (n + 1) /\ a = st[n] /\ b = st[n + 1]
    OBVIOUS
  <2>2. Sound(a) /\ Later(e, a, b) /\ v[m].tag = Tag(a)
    BY <1>2, <1>3, <2>1
  <2>3. \A i \in 1 .. m : i \in 1 .. k + n \/ i = m
    BY <1>2
  <2>4. \A i \in 1 .. k + n : Used(e, a, v[i].tag)
    BY <2>1 DEF Fresh
  <2>5. ASSUME NEW i \in 1 .. m PROVE Used(e, b, v[i].tag)
    <3>1. CASE i \in 1 .. k + n
      BY ONLY <2>2, <2>4, <3>1, UsedLater
    <3>2. CASE i = m
      BY ONLY <2>2, <3>2, UsedTag
    <3> QED
      BY <2>3, <3>1, <3>2
  <2>6. ASSUME NEW i \in 1 .. m, NEW j \in 1 .. m, i < j PROVE v[i].tag # v[j].tag \/ v[i].tag.key = Plain
    <3>1. i \in 1 .. k + n
      BY <1>2, <2>6
    <3>2. CASE j = m
      <4>1. Used(e, a, v[i].tag) /\ v[j].tag = Tag(a)
        BY <2>2, <2>4, <3>1, <3>2
      <4> QED
        BY ONLY <2>2, <4>1, UsedDiffers
    <3>3. CASE j \in 1 .. k + n
      BY <2>1, <2>6, <3>1, <3>3 DEF Fresh
    <3> QED
      BY <2>3, <3>2, <3>3
  <2> QED
    BY <2>5, <2>6 DEF Fresh
<1> HIDE DEF S
<1>6. Nat \subseteq S
  BY <1>4, <1>5, Induction
<1>7. Fresh(l)
  BY <1>2, <1>6 DEF S
<1>8. FreshTags(e, st[l], v)
  BY <1>2, <1>7, Zenon DEF FreshTags, Fresh
<1>9. FreshTags(e, st[l], w)
  <2>1. \A i \in DOMAIN w : i \in DOMAIN v /\ v[i] = w[i]
    BY <1>2
  <2> QED
    BY <1>8, <2>1 DEF FreshTags
<1> QED
  BY <1>3, <1>8, <1>9

LEMMA FreshPlain ==
    ASSUME NEW e, NEW w, IsASeq(w), NEW c, Sound(c), FreshTags(e, c, w), NEW ps, IsASeq(ps), Without(ps, "newkeys"), NEW s
    PROVE  LET y == WriteAll(c, ps, s) IN
           FreshTags(e, y.state, w) /\ FreshTags(e, y.state, w \o y.out)
<1> PICK st, l : st = States(c, ps, s) /\ l = Len(ps)
  OBVIOUS
<1>1. \A i \in DOMAIN ps : ps[i].t # "newkeys"
  BY DEF Without
<1>2. /\ l \in Nat /\ DOMAIN ps = 1 .. l /\ st[0] = c
      /\ \A i \in 0 .. l : Sound(st[i])
      /\ \A i \in 1 .. l : Follows(st[i - 1], st[i], ps[i].t, s)
  <2>1. /\ Len(ps) \in Nat /\ DOMAIN ps = 1 .. Len(ps) /\ States(c, ps, s)[0] = c
        /\ \A i \in 0 .. Len(ps) :
             /\ Sound(States(c, ps, s)[i]) /\ States(c, ps, s)[i].mode = c.mode
             /\ States(c, ps, s)[i].key = c.key /\ States(c, ps, s)[i].pending = c.pending
             /\ States(c, ps, s)[i].cnt = c.cnt + i /\ States(c, ps, s)[i].seq = c.seq + i
        /\ \A i \in 1 .. Len(ps) : Follows(States(c, ps, s)[i - 1], States(c, ps, s)[i], ps[i].t, s)
    BY ONLY Sound(c), IsASeq(ps), <1>1, PlainStates
  <2> QED
    BY ONLY <2>1, st = States(c, ps, s), l = Len(ps), Zenon
<1>3. \A i \in 1 .. l : Later(e, st[i - 1], st[i])
  BY <1>1, <1>2 DEF Later, Follows
<1> QED
  BY <1>2, <1>3, FreshWrite

LEMMA FreshKeys ==
    ASSUME NEW e, NEW w, IsASeq(w), NEW c, Sound(c), FreshTags(e, c, w), NEW new, new.mode \in Modes,
           new.key # Plain, OwnCookie(e, new.key.h) \in Nat,
           c.key # Plain => OwnCookie(e, c.key.h) \in Nat /\ OwnCookie(e, c.key.h) < OwnCookie(e, new.key.h),
           NEW d, d = [c EXCEPT !.pending = <<new>>], NEW ps, WithKeys(ps), NEW s
    PROVE  LET y == WriteAll(d, ps, s) IN
           FreshTags(e, y.state, w) /\ FreshTags(e, y.state, w \o y.out)
<1>1. Sound(d) /\ Pends(d, new) /\ IsASeq(ps) /\ d.key = c.key /\ d.mode = c.mode /\ d.cnt = c.cnt /\ d.seq = c.seq
  BY DEF Sound, CsFields, Pends, WithKeys
<1> PICK st, l : st = States(d, ps, s) /\ l = Len(ps)
  OBVIOUS
<1>2. /\ l \in Nat \ {0} /\ st[0] = d
  BY ONLY <1>1, WithKeys(ps), st = States(d, ps, s), l = Len(ps), KeysStates
<1>3. \A i \in 1 .. l : st[i].key = new.key
  BY ONLY <1>1, WithKeys(ps), st = States(d, ps, s), l = Len(ps), KeysStates
<1>4. \A i \in 0 .. l : Sound(st[i])
  BY ONLY <1>1, WithKeys(ps), st = States(d, ps, s), l = Len(ps), KeysStates
<1>5. \A i \in 1 .. l : Follows(st[i - 1], st[i], ps[i].t, s)
  BY ONLY <1>1, WithKeys(ps), st = States(d, ps, s), l = Len(ps), KeysStates
<1>6. ASSUME NEW i \in 1 .. l PROVE Later(e, st[i - 1], st[i])
  <2>1. CASE i = 1
    <3>0. st[i - 1] = st[0]
      BY <2>1
    <3>1. st[i - 1].key = c.key /\ st[i].key = new.key
      BY ONLY <1>1, <1>2, <1>3, <1>6, <3>0
    <3> QED
      BY ONLY <3>1, new.key # Plain, OwnCookie(e, new.key.h) \in Nat,
              c.key # Plain => OwnCookie(e, c.key.h) \in Nat /\ OwnCookie(e, c.key.h) < OwnCookie(e, new.key.h) DEF Later
  <2>2. CASE i # 1
    <3>1. i \in DOMAIN ps
      <4>1. ps # <<>>
        BY DEF WithKeys
      <4> QED
        BY <1>1, <4>1, TailSeq
    <3>2. ps[i].t # "newkeys"
      BY <2>2, <3>1 DEF WithKeys
    <3> QED
      BY <1>5, <3>2 DEF Later, Follows
  <2> QED
    BY <2>1, <2>2
<1> HIDE DEF Later
<1>7. LET y == WriteAll(d, ps, s) IN FreshTags(e, y.state, w) /\ FreshTags(e, y.state, w \o y.out)
  BY ONLY <1>1, <1>2, <1>4, <1>6, st = States(d, ps, s), l = Len(ps), IsASeq(w), FreshTags(e, c, w), FreshWrite
<1> QED
  BY <1>7

-----------------------------------------------------------------------------
(* From its init to its newkeys an end sends nothing else                  *)

\* packets of a method, and a library's own noise
Within(ps, noise) == \A i \in DOMAIN ps : ps[i].t = "kex" \/ (noise /\ ps[i].t = "ignore")

\* an init and what goes out with it
Opening(ps) == \A i \in DOMAIN ps : i # 1 => ps[i].t = "kex"

LEMMA AloneWrite ==
    ASSUME NEW w, IsASeq(w), NEW noise, AloneIn(w, noise), NEW c, NEW ps, IsASeq(ps), NEW s,
           Within(ps, noise) \/ (~Open(w) /\ (Without(ps, "init") \/ Opening(ps)))
    PROVE  LET v == w \o WriteAll(c, ps, s).out IN
           AloneIn(v, noise) /\ (Open(v) => Open(w) \/ ~Without(ps, "init"))
<1> PICK out, v, k, l : out = WriteAll(c, ps, s).out /\ v = w \o out /\ k = Len(w) /\ l = Len(ps)
  OBVIOUS
<1>1. /\ IsASeq(out) /\ Len(out) = l /\ DOMAIN ps = 1 .. l
      /\ \A i \in 1 .. l : out[i].t = ps[i].t
  BY WriteAllOut
<1>2. /\ k \in Nat /\ l \in Nat /\ DOMAIN w = 1 .. k /\ DOMAIN v = 1 .. k + l
      /\ \A i \in 1 .. k : v[i] = w[i]
      /\ \A i \in 1 .. l : v[k + i] = out[i]
  BY ONLY <1>1, IsASeq(w), v = w \o out, k = Len(w), ConcatSeq
<1>0. Len(v) = k + l
  BY ONLY <1>1, IsASeq(w), v = w \o out, k = Len(w), ConcatSeq
<1>3. ASSUME NEW i \in 1 .. k + l, i \notin 1 .. k
      PROVE  i - k \in DOMAIN ps /\ v[i].t = ps[i - k].t /\ (i # k + 1 => i - k # 1) /\ k < i
  <2> PICK j : j = i - k
    OBVIOUS
  <2>1. j \in 1 .. l /\ i = k + j /\ (i # k + 1 => j # 1) /\ k < i
    BY ONLY <1>2, <1>3, j = i - k
  <2>2. v[i] = out[j]
    BY ONLY <1>2, <2>1
  <2> QED
    BY ONLY <1>1, <2>1, <2>2, j = i - k
<1>4. ASSUME NEW i \in 1 .. k, w[i].t = "init", NEW j \in k .. k + l, \A m \in i .. j : v[m].t # "newkeys"
      PROVE  Open(w)
  <2>1. \A m \in i .. k : m \in i .. j /\ m \in 1 .. k
    BY <1>2
  <2>2. \A m \in i .. k : w[m].t # "newkeys"
    BY <1>2, <1>4, <2>1
  <2> QED
    BY <1>2, <1>4, <2>2 DEF Open
<1>5. ASSUME NEW i \in 1 .. k + l, NEW j \in 1 .. k + l, i < j, v[i].t = "init", \A m \in i .. j : v[m].t # "newkeys"
      PROVE  v[j].t = "kex" \/ (noise /\ v[j].t = "ignore")
  <2>1. CASE j \in 1 .. k
    <3>1. i \in 1 .. k /\ \A m \in i .. j : m \in 1 .. k
      BY <1>2, <1>5, <2>1
    <3>2. w[i].t = "init" /\ (\A m \in i .. j : w[m].t # "newkeys") /\ v[j] = w[j]
      BY <1>2, <1>5, <2>1, <3>1
    <3>3. i \in DOMAIN w /\ j \in DOMAIN w /\ AloneIn(w, noise)
      BY <1>2, <2>1, <3>1
    <3>4. w[j].t = "kex" \/ (noise /\ w[j].t = "ignore")
      BY ONLY <1>5, <3>2, <3>3 DEF AloneIn
    <3> QED
      BY ONLY <3>2, <3>4
  <2>2. CASE j \notin 1 .. k
    <3>1. j - k \in DOMAIN ps /\ v[j].t = ps[j - k].t /\ (j # k + 1 => j - k # 1) /\ k < j
      BY <1>3, <2>2
    <3>2. CASE Within(ps, noise)
      BY <3>1, <3>2 DEF Within
    <3>3. CASE ~Open(w) /\ (Without(ps, "init") \/ Opening(ps))
      <4>1. i \notin 1 .. k
        <5> SUFFICES ASSUME i \in 1 .. k PROVE FALSE
          OBVIOUS
        <5>1. w[i].t = "init" /\ j \in k .. k + l
          BY <1>2, <1>5, <3>1
        <5> QED
          BY <1>4, <1>5, <3>3, <5>1
      <4>2. i - k \in DOMAIN ps /\ v[i].t = ps[i - k].t /\ k < i
        BY <1>3, <4>1
      <4>3. ~Without(ps, "init")
        BY <1>5, <4>2 DEF Without
      <4>4. j # k + 1
        BY <1>2, <1>5, <4>2
      <4> QED
        BY <3>1, <3>3, <4>3, <4>4 DEF Opening
    <3> QED
      BY <3>2, <3>3
  <2> QED
    BY <2>1, <2>2
<1>6. AloneIn(v, noise)
  <2> SUFFICES ASSUME NEW i \in DOMAIN v, NEW j \in DOMAIN v, i < j, v[i].t = "init", \A m \in i .. j : v[m].t # "newkeys"
               PROVE  v[j].t = "kex" \/ (noise /\ v[j].t = "ignore")
    BY Zenon DEF AloneIn
  <2> QED
    BY <1>2, <1>5
<1>7. ASSUME Open(v), Without(ps, "init") PROVE Open(w)
  <2>1. PICK i \in 1 .. k + l : v[i].t = "init" /\ \A m \in i .. k + l : v[m].t # "newkeys"
    BY ONLY <1>0, <1>2, <1>7 DEF Open
  <2>2. i \in 1 .. k
    BY <1>3, <1>7, <2>1 DEF Without
  <2>3. w[i].t = "init" /\ k + l \in k .. k + l
    BY <1>2, <2>1, <2>2
  <2> QED
    BY <1>4, <2>1, <2>2, <2>3
<1> QED
  BY <1>6, <1>7

LEMMA AloneKeys ==
    ASSUME NEW w, IsASeq(w), NEW noise, AloneIn(w, noise), NEW c, NEW ps, WithKeys(ps), NEW s
    PROVE  LET v == w \o WriteAll(c, ps, s).out IN AloneIn(v, noise) /\ ~Open(v)
<1> PICK v, l : v = w \o WriteAll(c, ps, s).out /\ l = Len(v)
  OBVIOUS
<1>1. Rekeyed(v, w)
  BY KeysBehind
<1>2. PICK k \in DOMAIN v :
        /\ DOMAIN v \subseteq Nat /\ v[k].t = "newkeys" /\ k \notin DOMAIN w
        /\ \A i \in DOMAIN w : i \in DOMAIN v /\ v[i] = w[i] /\ i < k
        /\ \A i \in DOMAIN v : i \in DOMAIN w \/ i = k \/ (k < i /\ v[i].t \notin {"newkeys", "init", "kex"})
  BY <1>1 DEF Rekeyed
<1>3. DOMAIN v = 1 .. l /\ l \in Nat /\ DOMAIN w = 1 .. Len(w) /\ Len(w) \in Nat
  <2>1. IsASeq(ps)
    BY DEF WithKeys
  <2>2. IsASeq(WriteAll(c, ps, s).out)
    BY <2>1, WriteAllOut
  <2>3. IsASeq(v)
    BY <2>2, ConcatSeq
  <2> QED
    BY <2>3 DEF IsASeq
<1>4. ASSUME NEW i \in DOMAIN v, v[i].t = "init" PROVE i \in DOMAIN w /\ i < k
  BY <1>2, <1>4
<1>5. AloneIn(v, noise)
  <2> SUFFICES ASSUME NEW i \in DOMAIN v, NEW j \in DOMAIN v, i < j, v[i].t = "init", \A m \in i .. j : v[m].t # "newkeys"
               PROVE  v[j].t = "kex" \/ (noise /\ v[j].t = "ignore")
    BY DEF AloneIn
  <2>1. i \in DOMAIN w /\ i < k
    BY <1>4
  <2>2. k \notin i .. j
    BY <1>2
  <2>3. j < k
    BY <1>2, <1>3, <2>1, <2>2
  <2>4. j \in DOMAIN w
    BY <1>2, <1>3, <2>3
  <2>5. \A m \in i .. j : m \in DOMAIN w
    BY <1>3, <2>1, <2>4
  <2>6. w[i].t = "init" /\ w[j] = v[j] /\ \A m \in i .. j : w[m].t # "newkeys"
    BY <1>2, <2>1, <2>4, <2>5
  <2> QED
    BY <2>1, <2>4, <2>6 DEF AloneIn
<1>6. ~Open(v)
  <2> SUFFICES ASSUME NEW i \in DOMAIN v, v[i].t = "init", \A m \in i .. l : v[m].t # "newkeys" PROVE FALSE
    BY DEF Open
  <2>1. k \in i .. l
    BY <1>2, <1>3, <1>4
  <2> QED
    BY <1>2, <2>1
<1> QED
  BY <1>5, <1>6

\* What was read is of no concern.
LEMMA TailWired ==
    ASSUME NEW w, IsASeq(w), w # <<>>, NEW e, NEW c, NEW noise
    PROVE  /\ FreshTags(e, c, w) => FreshTags(e, c, Tail(w))
           /\ AloneIn(w, noise) => AloneIn(Tail(w), noise)
           /\ Open(Tail(w)) => Open(w)
<1> PICK v, l : v = Tail(w) /\ l = Len(w)
  OBVIOUS
<1>1. /\ l \in Nat \ {0} /\ DOMAIN w = 1 .. l /\ DOMAIN v = 1 .. l - 1 /\ Len(v) = l - 1
      /\ \A i \in 1 .. l - 1 : v[i] = w[i + 1]
  BY TailSeq
<1>2. Shorter(v, w)
  BY ShorterTail
<1>3. FreshTags(e, c, w) => FreshTags(e, c, v)
  BY <1>2, ShorterPairs DEF FreshTags
<1>4. ASSUME NEW i \in 1 .. l - 1, NEW j \in 1 .. l - 1, \A m \in i .. j : v[m].t # "newkeys"
      PROVE  \A m \in i + 1 .. j + 1 : w[m].t # "newkeys"
  <2> SUFFICES ASSUME NEW m \in i + 1 .. j + 1 PROVE w[m].t # "newkeys"
    OBVIOUS
  <2> PICK n : n = m - 1
    OBVIOUS
  <2>1. n \in i .. j /\ n \in 1 .. l - 1 /\ n + 1 = m
    BY <1>1
  <2> QED
    BY <1>1, <1>4, <2>1
<1>5. ASSUME AloneIn(w, noise) PROVE AloneIn(v, noise)
  <2> SUFFICES ASSUME NEW i \in DOMAIN v, NEW j \in DOMAIN v, i < j, v[i].t = "init", \A m \in i .. j : v[m].t # "newkeys"
               PROVE  v[j].t = "kex" \/ (noise /\ v[j].t = "ignore")
    BY DEF AloneIn
  <2>1. i + 1 \in DOMAIN w /\ j + 1 \in DOMAIN w /\ i + 1 < j + 1 /\ v[i] = w[i + 1] /\ v[j] = w[j + 1]
    BY <1>1
  <2>2. \A m \in i + 1 .. j + 1 : w[m].t # "newkeys"
    BY <1>1, <1>4
  <2> QED
    BY <1>5, <2>1, <2>2 DEF AloneIn
<1>6. ASSUME Open(v) PROVE Open(w)
  <2>1. PICK i \in 1 .. l - 1 : v[i].t = "init" /\ \A m \in i .. l - 1 : v[m].t # "newkeys"
    BY ONLY <1>1, <1>6 DEF Open
  <2>2. l - 1 \in 1 .. l - 1 /\ (l - 1) + 1 = l /\ i + 1 \in DOMAIN w /\ w[i + 1] = v[i]
    BY <1>1
  <2>3. \A m \in i + 1 .. l : w[m].t # "newkeys"
    BY <1>4, <2>1, <2>2
  <2> QED
    BY <2>1, <2>2, <2>3 DEF Open
<1> QED
  BY <1>3, <1>5, <1>6

\* e writes ps when it may.
Tidy(e, ps) ==
    /\ Failing(e) => Failing(e)'
    /\ ~Failing(e)' =>
        \/ /\ Within(ps, scene[e].noise)
           /\ hs[e].sent # <<>> /\ rd[e].pending = <<>> => hs'[e].sent # <<>> /\ rd'[e].pending = <<>>
        \/ Without(ps, "init") /\ (hs[e].sent = <<>> \/ rd[e].pending # <<>>)
        \/ Opening(ps) /\ hs[e].sent = <<>> /\ hs'[e].sent # <<>> /\ rd'[e].pending = <<>>

LEMMA PlainWired ==
    ASSUME Lengths, NEW e \in Ends, Typed(e), Apart(e), NEW ps, Written(e, wr[e], ps), Without(ps, "newkeys"),
           Tidy(e, ps), Wired(e)
    PROVE  Wired(e)'
<1> PICK o, c, s, w, v, x, noise :
      /\ o = Peer(e) /\ c = wr[e] /\ s = hs[e].strict /\ w = wire[o] /\ v = wire'[o]
      /\ x = WriteAll(c, ps, s) /\ noise = scene[e].noise
  OBVIOUS
<1>1. IsASeq(ps) /\ Sound(c) /\ IsASeq(w) /\ scene' = scene
  BY PeerFacts DEF Written, Typed, Lengths, Apart
<1>2. wr'[e] = x.state /\ v = IF up[o] THEN w \o x.out ELSE w
  BY DEF Written
<1>3. FreshTags(e, c, w) /\ (~Failing(e) => AloneIn(w, noise) /\ (Open(w) => hs[e].sent # <<>> /\ rd[e].pending = <<>>))
  BY DEF Wired, Alone
<1>4. FreshTags(e, x.state, w) /\ FreshTags(e, x.state, w \o x.out)
  BY ONLY <1>1, <1>3, Without(ps, "newkeys"), x = WriteAll(c, ps, s), FreshPlain
<1>5. FreshTags(e, wr'[e], v)
  BY <1>2, <1>4
<1>6. ASSUME ~Failing(e)'
      PROVE  AloneIn(v, noise) /\ (Open(v) => hs'[e].sent # <<>> /\ rd'[e].pending = <<>>)
  <2>1. ~Failing(e)
    BY <1>6 DEF Tidy
  <2>2. AloneIn(w, noise) /\ (Open(w) => hs[e].sent # <<>> /\ rd[e].pending = <<>>)
    BY <1>3, <2>1
  <2>3. Within(ps, noise) => Without(ps, "init")
    BY DEF Within, Without
  <2>4. \/ /\ Within(ps, noise)
           /\ hs[e].sent # <<>> /\ rd[e].pending = <<>> => hs'[e].sent # <<>> /\ rd'[e].pending = <<>>
        \/ Without(ps, "init") /\ (hs[e].sent = <<>> \/ rd[e].pending # <<>>)
        \/ Opening(ps) /\ hs[e].sent = <<>> /\ hs'[e].sent # <<>> /\ rd'[e].pending = <<>>
    BY <1>6 DEF Tidy
  <2>5. Within(ps, noise) \/ (~Open(w) /\ (Without(ps, "init") \/ Opening(ps)))
    BY <2>2, <2>4
  <2>6. AloneIn(w \o x.out, noise) /\ (Open(w \o x.out) => Open(w) \/ ~Without(ps, "init"))
    BY ONLY <1>1, <2>2, <2>5, x = WriteAll(c, ps, s), AloneWrite
  <2>7. AloneIn(v, noise) /\ (Open(v) => Open(w) \/ ~Without(ps, "init"))
    BY <1>2, <2>2, <2>6
  <2> QED
    BY <2>2, <2>3, <2>4, <2>7
<1>7. (scene[e].noise)' = noise
  BY <1>1
<1> QED
  BY <1>5, <1>6, <1>7 DEF Wired, Alone

LEMMA StillWired ==
    ASSUME NEW e \in Ends, Apart(e), wire'[Peer(e)] = wire[Peer(e)], wr'[e] = wr[e], Tidy(e, <<>>), Wired(e)
    PROVE  Wired(e)'
<1> PICK w : w = wire[Peer(e)]
  OBVIOUS
<1>1. FreshTags(e, wr'[e], w)
  BY DEF Wired
<1>2. ASSUME ~Failing(e)'
      PROVE  AloneIn(w, scene[e].noise) /\ (Open(w) => hs'[e].sent # <<>> /\ rd'[e].pending = <<>>)
  BY <1>2 DEF Wired, Alone, Tidy
<1>3. scene' = scene
  BY DEF Apart
<1> QED
  BY <1>1, <1>2, <1>3 DEF Wired, Alone

LEMMA KeysWired ==
    ASSUME Lengths, NEW e \in Ends, Typed(e), Begun(e), Apart(e), NEW new, NEW ps, Keys(e, new, ps),
           Failing(e) => Failing(e)', Linked(Peer(e)), Wired(e)
    PROVE  Wired(e)'
<1> PICK o, c, s, w, v, d, x, noise :
      /\ o = Peer(e) /\ c = wr[e] /\ s = hs[e].strict /\ w = wire[o] /\ v = wire'[o]
      /\ d = [c EXCEPT !.pending = <<new>>] /\ x = WriteAll(d, ps, s) /\ noise = scene[e].noise
  OBVIOUS
<1>1. WithKeys(ps) /\ Sound(c) /\ IsASeq(w) /\ scene' = scene /\ new.mode \in Modes /\ new.key = Key(View(e), OutDir(e))
  BY PeerFacts DEF Keys, Typed, Lengths, Apart
<1>2. wr'[e] = x.state /\ v = IF up[o] THEN w \o x.out ELSE w
  BY DEF Keys, Written
<1>3. FreshTags(e, c, w) /\ (~Failing(e) => AloneIn(w, noise) /\ (Open(w) => hs[e].sent # <<>> /\ rd[e].pending = <<>>))
  BY DEF Wired, Alone
<1>4. new.key # Plain /\ new.key.h = View(e)
  BY <1>1 DEF Key, Plain, OutDir
<1>5. InKex(e) /\ hs[e].sent # <<>> /\ rd[e].pending = <<>>
  BY DEF Keys, Told, Settled, Begun
<1>6. OwnCookie(e, new.key.h) = hs[e].inits
  <2>1. OwnCookie(e, View(e)) = hs[e].sent[1].cookie
    BY DEF OwnCookie, View, Hash, ExchangeHash, ClientInit, ServerInit
  <2> QED
    BY <1>4, <1>5, <2>1 DEF Begun
<1>7. OwnCookie(e, new.key.h) \in Nat
  BY <1>6 DEF Typed
<1>8. c.key # Plain => OwnCookie(e, c.key.h) \in Nat /\ OwnCookie(e, c.key.h) < OwnCookie(e, new.key.h)
  BY <1>5, <1>6 DEF Begun
<1>9. FreshTags(e, x.state, w) /\ FreshTags(e, x.state, w \o x.out)
  BY ONLY <1>1, <1>3, <1>4, <1>7, <1>8, d = [c EXCEPT !.pending = <<new>>], x = WriteAll(d, ps, s), FreshKeys
<1>10. FreshTags(e, wr'[e], v)
  BY <1>2, <1>9
<1>11. ASSUME ~Failing(e)' PROVE AloneIn(v, noise) /\ ~Open(v)
  <2>1. AloneIn(w, noise)
    BY <1>3, <1>11
  <2>2. AloneIn(w \o x.out, noise) /\ ~Open(w \o x.out)
    BY ONLY <1>1, <2>1, x = WriteAll(d, ps, s), AloneKeys
  <2>3. ~up[o] => ~Open(w)
    <3>1. ~up[o] => w = <<>>
      BY DEF Linked
    <3> QED
      BY <3>1 DEF Open
  <2> QED
    BY <1>2, <2>1, <2>2, <2>3
<1> QED
  BY <1>1, <1>10, <1>11 DEF Wired, Alone

LEMMA PeerWired ==
    ASSUME Lengths, NEW e \in Ends, Apart(e), Wired(Peer(e)),
           \/ wire'[e] = wire[e] \/ wire'[e] = <<>>
           \/ wire[e] # <<>> /\ wire'[e] = Tail(wire[e])
    PROVE  Wired(Peer(e))'
<1> PICK o, c, w, v, noise : o = Peer(e) /\ c = wr[o] /\ w = wire[e] /\ v = wire'[e] /\ noise = scene[o].noise
  OBVIOUS
<1>0. o \in Ends /\ Peer(o) = e
  BY PeerFacts
<1>1. wr'[o] = c /\ hs'[o] = hs[o] /\ rd'[o] = rd[o] /\ scene' = scene /\ (Failing(o)' <=> Failing(o)) /\ IsASeq(w)
  BY DEF Apart, Failing, Lengths
<1>2. FreshTags(o, c, w) /\ (~Failing(o) => AloneIn(w, noise) /\ (Open(w) => hs[o].sent # <<>> /\ rd[o].pending = <<>>))
  BY <1>0 DEF Wired, Alone
<1>3. FreshTags(o, c, v) /\ (AloneIn(w, noise) => AloneIn(v, noise)) /\ (Open(v) => Open(w))
  <2>1. CASE v = w
    BY <1>2, <2>1
  <2>2. CASE v = <<>>
    <3>1. DOMAIN v = {}
      BY <2>2
    <3> QED
      BY <3>1 DEF FreshTags, AloneIn, Open
  <2>3. CASE w # <<>> /\ v = Tail(w)
    BY <1>1, <1>2, <2>3, TailWired
  <2> QED
    BY <2>1, <2>2, <2>3
<1>4. FreshTags(o, wr'[o], v)
  BY <1>1, <1>3
<1>5. ASSUME ~Failing(o)'
      PROVE  AloneIn(v, scene'[o].noise) /\ (Open(v) => hs'[o].sent # <<>> /\ rd'[o].pending = <<>>)
  BY <1>1, <1>2, <1>3, <1>5
<1> QED
  BY <1>0, <1>4, <1>5 DEF Wired, Alone

-----------------------------------------------------------------------------
\* What a step of e is to the peer.
Move(e) ==
    \/ \E ps : Sends(e, ps) /\ Tidy(e, ps)
    \/ Reads(e) /\ Tidy(e, <<>>)
    \/ \E new, ps : Keys(e, new, ps) /\ (Failing(e) => Failing(e)')
    \/ \E ps : Takes(e, ps) /\ Tidy(e, ps)
    \/ Shuts(e) /\ Tidy(e, <<>>)

LEMMA MoveWired ==
    ASSUME Lengths, NEW e \in Ends, \A f \in Ends : Local(f) /\ Wired(f), Stepped, Apart(e), Move(e)
    PROVE  \A f \in Ends : Wired(f)'
<1> PICK o : o = Peer(e)
  OBVIOUS
<1>0. o \in Ends /\ Peer(e) = o /\ (\A f \in Ends : f = e \/ f = o)
  BY PeerFacts
<1>1. Typed(e) /\ Begun(e) /\ Wired(e) /\ Wired(Peer(e)) /\ Linked(Peer(e))
  BY <1>0 DEF Stepped, Local
<1> DEFINE Mine == Wired(e)'
           Rest == \/ wire'[e] = wire[e] \/ wire'[e] = <<>>
                   \/ wire[e] # <<>> /\ wire'[e] = Tail(wire[e])
<1>2. ASSUME NEW ps, Sends(e, ps), Tidy(e, ps) PROVE Mine /\ Rest
  <2>1. Written(e, wr[e], ps) /\ Without(ps, "newkeys") /\ wire'[e] = wire[e]
    BY <1>2 DEF Sends
  <2> QED
    BY <1>1, <1>2, <2>1, PlainWired
<1>3. ASSUME Reads(e), Tidy(e, <<>>) PROVE Mine /\ Rest
  <2>1. wire'[Peer(e)] = wire[Peer(e)] /\ wr'[e] = wr[e] /\ wire[e] # <<>> /\ wire'[e] = Tail(wire[e])
    BY <1>3 DEF Reads
  <2> QED
    BY <1>1, <1>3, <2>1, StillWired
<1>4. ASSUME NEW new, NEW ps, Keys(e, new, ps), Failing(e) => Failing(e)' PROVE Mine /\ Rest
  <2>1. wire'[e] = wire[e]
    BY <1>4 DEF Keys
  <2> QED
    BY <1>1, <1>4, <2>1, KeysWired
<1>5. ASSUME NEW ps, Takes(e, ps), Tidy(e, ps) PROVE Mine /\ Rest
  <2>1. Written(e, wr[e], ps) /\ Without(ps, "newkeys") /\ wire[e] # <<>> /\ wire'[e] = Tail(wire[e])
    BY <1>5 DEF Takes, Without
  <2> QED
    BY <1>1, <1>5, <2>1, PlainWired
<1>6. ASSUME Shuts(e), Tidy(e, <<>>) PROVE Mine /\ Rest
  <2>1. wire'[Peer(e)] = wire[Peer(e)] /\ wr'[e] = wr[e] /\ wire'[e] = <<>>
    BY <1>6 DEF Shuts
  <2> QED
    BY <1>1, <1>6, <2>1, StillWired
<1>7. Mine /\ Rest
  BY <1>2, <1>3, <1>4, <1>5, <1>6, Zenon DEF Move
<1>8. Wired(Peer(e))'
  BY <1>1, <1>7, PeerWired
<1> QED
  BY <1>0, <1>7, <1>8

LEMMA MoveStepped ==
    ASSUME Lengths, NEW e \in Ends, \A f \in Ends : Local(f), Stepped, Apart(e), Move(e)
    PROVE  Stepped'
<1> PICK o : o = Peer(e)
  OBVIOUS
<1>0. o \in Ends /\ Peer(e) = o /\ (\A f \in Ends : f = e \/ f = o) /\ "c" \in Ends
  BY PeerFacts DEF Ends
<1>1. /\ Linked(e) /\ Linked(Peer(e)) /\ Once(e) /\ Once(Peer(e)) /\ Once("c") /\ Agreement /\ SameSession
      /\ Typed(e) /\ Typed(Peer(e)) /\ Begun(e) /\ Sourced(e) /\ Sourced(Peer(e))
  BY <1>0 DEF Stepped, Local
<1> DEFINE Goal == (Linked(e)' /\ Linked(Peer(e))') /\ (Once(e)' /\ Once(Peer(e))') /\ Agreement' /\ SameSession'
<1> SUFFICES Goal \/ Stepped'
  BY <1>0 DEF Stepped
<1>2. ASSUME NEW ps, Sends(e, ps) PROVE Goal
  BY <1>1, <1>2, SendsLinked, SendsOnce, SendsAgreement, SendsSession
<1>3. ASSUME Reads(e) PROVE Goal
  BY <1>1, <1>3, ReadsLinked, ReadsOnce, ReadsAgreement, ReadsSession
<1>4. ASSUME NEW new, NEW ps, Keys(e, new, ps) PROVE Goal
  BY <1>1, <1>4, KeysLinked, KeysOnce, KeysAgreement, KeysSession
<1>5. ASSUME NEW ps, Takes(e, ps) PROVE Goal
  BY <1>1, <1>5, TakesLinked, TakesOnce, TakesAgreement, TakesSession
<1>6. ASSUME Shuts(e) PROVE Stepped'
  BY <1>6, ShutsStepped
<1> QED
  BY <1>2, <1>3, <1>4, <1>5, <1>6, Zenon DEF Move

-----------------------------------------------------------------------------
(* Each action is a move                                                   *)

\* A step of e changes nothing of the peer but its wire.
Others(e) ==
    LET o == Peer(e) IN
    /\ scene' = scene /\ up'[o] = up[o] /\ rd'[o] = rd[o] /\ wr'[o] = wr[o]
    /\ hs'[o] = hs[o] /\ rl'[o] = rl[o] /\ kl'[o] = kl[o] /\ Boxes'

\* What is left of an exchange, or of the time between two, is what was there.
Steady(e) ==
    /\ Sound(rd'[e]) /\ rd'[e].pending = rd[e].pending
    /\ Sound(wr'[e]) /\ wr'[e].pending = <<>> /\ wr'[e].key = wr[e].key /\ wr'[e].mode = wr[e].mode
    /\ hs'[e].sent = hs[e].sent /\ hs'[e].inits = hs[e].inits
    /\ hs'[e].sid = hs[e].sid /\ hs'[e].strict = hs[e].strict
    /\ \A i \in DOMAIN hs'[e].queue : hs'[e].queue[i].t \in {"data", "ignore", "disconnect"}
    /\ up'[e] => up[e]
    /\ Broken(e) => Broken(e)'

\* ... and kexLoop is where it was, but for the messages of a method.
Paced(e) ==
    \/ /\ kl'[e].pc = kl[e].pc /\ kl'[e].req = kl[e].req /\ kl'[e].sent = kl[e].sent /\ kl'[e].alg = kl[e].alg
       /\ rd[e].pending # <<>> \/ kl[e].alg = <<>> => kl'[e].script = kl[e].script
       /\ rd[e].pending # <<>> => kl'[e].group = kl[e].group /\ (kl'[e].skip => kl[e].skip)
       /\ InKex(e) /\ kl[e].alg # <<>> => ScriptSound(e, kl'[e].script)
    \/ ~InKex(e) /\ kl'[e].pc \in {"close", "drain", "done"}

LEMMA StrictView ==
    ASSUME NEW e
    PROVE  Strict(View(e)) <=> ClientInit(e).strict /\ ServerInit(e).strict
  BY DEF Strict, View, Hash, ExchangeHash

LEMMA SteadyLocal ==
    ASSUME NEW e \in Ends, Local(e), Steady(e), Paced(e)
    PROVE  Local(e)' /\ (Dead(e) => Dead(e)')
<1>0. Typed(e) /\ Begun(e) /\ Sourced(e)
  BY DEF Local
<1>1. Typed(e)'
  BY <1>0 DEF Typed, Steady
<1>2. Dead(e) => Dead(e)'
  BY DEF Steady, Dead
<1>3. CASE ~InKex(e) /\ kl'[e].pc \in {"close", "drain", "done"}
  <2>1. ~InKex(e)'
    BY <1>3 DEF InKex
  <2>2. Begun(e)'
    BY <1>0, <1>3, <2>1 DEF Begun, Steady
  <2>3. Sourced(e)'
    BY <1>0, <1>2, <1>3, <2>1 DEF Sourced, Steady, Settled
  <2> QED
    BY <1>1, <1>2, <2>2, <2>3 DEF Local
<1>4. CASE /\ kl'[e].pc = kl[e].pc /\ kl'[e].req = kl[e].req /\ kl'[e].sent = kl[e].sent /\ kl'[e].alg = kl[e].alg
           /\ rd[e].pending # <<>> \/ kl[e].alg = <<>> => kl'[e].script = kl[e].script
           /\ rd[e].pending # <<>> => kl'[e].group = kl[e].group /\ (kl'[e].skip => kl[e].skip)
           /\ InKex(e) /\ kl[e].alg # <<>> => ScriptSound(e, kl'[e].script)
  <2>1. InKex(e)' <=> InKex(e)
    BY <1>4 DEF InKex
  <2>2. ClientInit(e)' = ClientInit(e) /\ ServerInit(e)' = ServerInit(e)
    BY <1>4 DEF ClientInit, ServerInit, Steady
  <2>3. Strict(View(e))' <=> Strict(View(e))
    <3>1. Strict(View(e)) <=> ClientInit(e).strict /\ ServerInit(e).strict
      BY StrictView
    <3>2. Strict(View(e))' <=> ClientInit(e)'.strict /\ ServerInit(e)'.strict
      BY DEF Strict, View, Hash, ExchangeHash
    <3> QED
      BY <2>2, <3>1, <3>2
  <2>4. rd[e].pending # <<>> => View(e)' = View(e) /\ (Settled(e)' <=> Settled(e))
    BY <1>4, <2>1, <2>2 DEF View, Hash, Settled
  <2>5. Begun(e)'
    <3>1. InKex(e)' \/ (kl'[e].pc = "select" /\ kl'[e].sent) => hs'[e].sent # <<>>
      BY <1>0, <1>4, <2>1 DEF Begun, Steady
    <3>2. InKex(e)' /\ kl'[e].alg # <<>> =>
            kl'[e].alg = <<FindAgreed(ClientInit(e)', ServerInit(e)')>> /\ ScriptSound(e, kl'[e].script)
      BY <1>0, <1>4, <2>1, <2>2 DEF Begun
    <3>3. InKex(e)' /\ kl'[e].alg = <<>> => kl'[e].script = <<>>
      BY <1>0, <1>4, <2>1 DEF Begun
    <3>4. /\ hs'[e].sent # <<>> => hs'[e].sent[1].cookie = hs'[e].inits
          /\ wr'[e].key # Plain => OwnCookie(e, wr'[e].key.h) \in Nat /\ OwnCookie(e, wr'[e].key.h) <= hs'[e].inits
          /\ wr'[e].key # Plain /\ hs'[e].sent # <<>> /\ rd'[e].pending = <<>> =>
                OwnCookie(e, wr'[e].key.h) < hs'[e].inits
      BY <1>0 DEF Begun, Steady
    <3> QED
      BY <3>1, <3>2, <3>3, <3>4 DEF Begun, ScriptSound
  <2>6. Sourced(e)'
    <3>1. rd'[e].pending # <<>> => InKex(e)' \/ Broken(e)'
      BY <1>0, <2>1 DEF Sourced, Steady
    <3>2. ASSUME InKex(e)', rd'[e].pending # <<>>
          PROVE  /\ Settled(e)' /\ ~kl'[e].skip /\ hs'[e].sid # <<>>
                 /\ rd'[e].pending = <<NewCipher(Mode(View(e)', OutDir(Peer(e))), OutDir(Peer(e)), View(e)')>>
                 /\ Mode(View(e)', OutDir(Peer(e))) \in Modes
                 /\ wr'[e].key = Key(View(e)', OutDir(e))
      <4>1. InKex(e) /\ rd[e].pending # <<>> /\ View(e)' = View(e) /\ (Settled(e)' <=> Settled(e))
        BY <2>1, <2>4, <3>2 DEF Steady
      <4> QED
        BY <1>0, <1>4, <4>1 DEF Sourced, Steady
    <3>3. /\ hs'[e].sid = <<>> => wr'[e].mode = "none" /\ wr'[e].key = Plain
          /\ hs'[e].sid # <<>> =>
                /\ wr'[e].key = Key(wr'[e].key.h, OutDir(e)) /\ wr'[e].mode = Mode(wr'[e].key.h, OutDir(e))
                /\ wr'[e].mode # "none"
                /\ hs'[e].strict <=> Strict(hs'[e].sid)
      BY <1>0 DEF Sourced, Steady
    <3>4. ~Dead(e)' /\ hs'[e].sid = <<>> =>
            (hs'[e].strict <=> InKex(e)' /\ kl'[e].alg # <<>> /\ Strict(View(e))')
      BY <1>0, <1>2, <1>4, <2>1, <2>3 DEF Sourced, Steady
    <3> QED
      BY <3>1, <3>2, <3>3, <3>4 DEF Sourced, Mode, Key, Strict
  <2> QED
    BY <1>1, <1>2, <2>5, <2>6 DEF Local
<1> QED
  BY <1>3, <1>4 DEF Paced

LEMMA PeerLocal ==
    ASSUME NEW e \in Ends, Others(e), Local(Peer(e))
    PROVE  Local(Peer(e))'
<1> PICK o : o = Peer(e)
  OBVIOUS
<1>0. Typed(o) /\ Begun(o) /\ Sourced(o) /\ Peer(e) = o
  BY DEF Local
<1>1. /\ up'[o] = up[o] /\ rd'[o] = rd[o] /\ wr'[o] = wr[o]
      /\ hs'[o] = hs[o] /\ rl'[o] = rl[o] /\ kl'[o] = kl[o]
  BY DEF Others
<1>2. /\ ClientInit(o)' = ClientInit(o) /\ ServerInit(o)' = ServerInit(o)
      /\ (InKex(o)' <=> InKex(o)) /\ (Settled(o)' <=> Settled(o))
      /\ (Broken(o)' <=> Broken(o)) /\ (Dead(o)' <=> Dead(o))
  BY <1>1 DEF ClientInit, ServerInit, InKex, Settled, Broken, Dead
<1>3. View(o)' = View(o)
  BY <1>1, <1>2 DEF View, Hash
<1>4. Typed(o)'
  BY <1>0, <1>1 DEF Typed
<1>5. Begun(o)'
  BY <1>0, <1>1, <1>2 DEF Begun
<1>6. Sourced(o)'
  BY <1>0, <1>1, <1>2, <1>3 DEF Sourced
<1> QED
  BY <1>0, <1>4, <1>5, <1>6 DEF Local

\* What a step of e is to the peer, and leaves of e.
Outcome(e) == Others(e) /\ Apart(e) /\ Move(e) /\ Local(e)'

LEMMA OthersApart ==
    ASSUME NEW e \in Ends, Others(e), Dead(e) => Dead(e)'
    PROVE  Apart(e)
  BY DEF Others, Apart

LEMMA WriteNone ==
    ASSUME NEW c, NEW s
    PROVE  WriteAll(c, <<>>, s).state = c /\ WriteAll(c, <<>>, s).out = <<>>
<1>1. IsASeq(<<>>) /\ Len(<<>>) = 0
  BY ShortSeq
<1>2. States(c, <<>>, s)[0] = c
  BY <1>1, StatesDef
<1>3. WriteAll(c, <<>>, s).state = c
  BY <1>1, <1>2, WriteAllTags
<1> PICK out : out = WriteAll(c, <<>>, s).out
  OBVIOUS
<1>4. IsASeq(out) /\ Len(out) = 0
  BY <1>1, WriteAllOut
<1>5. out = <<>>
  BY <1>4 DEF IsASeq
<1> QED
  BY <1>3, <1>5

LEMMA WrittenNone ==
    ASSUME NEW e \in Ends, IsASeq(wire[Peer(e)]), wire'[Peer(e)] = wire[Peer(e)], wr'[e] = wr[e]
    PROVE  Written(e, wr[e], <<>>)
<1> PICK w : w = wire[Peer(e)]
  OBVIOUS
<1>1. w \o <<>> = w
  BY DEF IsASeq
<1>2. IsASeq(<<>>)
  BY ShortSeq
<1> QED
  BY <1>1, <1>2, WriteNone DEF Written

LEMMA Nothing ==
    /\ \A t : Without(<<>>, t)
    /\ \A noise : Within(<<>>, noise)
    /\ IsASeq(<<>>) /\ DOMAIN <<>> = {}
  BY ShortSeq DEF Without, Within

\* e says nothing, and goes on as it was.
LEMMA Quietly ==
    ASSUME Inv, NEW e \in Ends, Local(e), Others(e), Steady(e),
           wire'[e] = wire[e], wire'[Peer(e)] = wire[Peer(e)], up'[e] = up[e], rd'[e] = rd[e], wr'[e] = wr[e],
           rl'[e].pc = "start" => rl[e].pc = "start", Failing(e) => Failing(e)',
           kl'[e] = kl[e] \/ (~InKex(e) /\ kl'[e].pc \in {"close", "drain", "done"})
    PROVE  Outcome(e)
<1>1. Paced(e)
  <2>1. Begun(e)
    BY DEF Local
  <2> QED
    BY <2>1 DEF Paced, Begun
<1>2. Local(e)' /\ Apart(e)
  BY <1>1, SteadyLocal, OthersApart
<1>3. /\ Settled(e) => Settled(e)' /\ View(e)' = View(e)
      /\ InKex(e)' => InKex(e)
      /\ Settled(e)' => Settled(e)
  <2>1. CASE kl'[e] = kl[e]
    BY <2>1 DEF Settled, InKex, View, Hash, ClientInit, ServerInit, Steady
  <2>2. CASE ~InKex(e) /\ kl'[e].pc \in {"close", "drain", "done"}
    BY <2>2 DEF Settled, InKex
  <2> QED
    BY <2>1, <2>2
<1>4. Written(e, wr[e], <<>>)
  <2>1. IsASeq(wire[Peer(e)])
    BY PeerFacts DEF Inv, Shape
  <2> QED
    BY <2>1, WrittenNone
<1>5. Sends(e, <<>>)
  BY <1>3, <1>4, Nothing DEF Sends, Calm, Steady
<1>6. Tidy(e, <<>>)
  BY Nothing DEF Tidy, Steady
<1> QED
  BY <1>2, <1>5, <1>6 DEF Outcome, Move

QueueTyped(q) == \A i \in DOMAIN q : q[i].t \in {"data", "ignore", "disconnect"}

\* e says nothing, and only where its loops are changes.
LEMMA LoopsOnly ==
    ASSUME Inv, Boxes, NEW e \in Ends, Local(e), UNCHANGED <<scene, wire, up, rd, wr>>,
           hs'[Peer(e)] = hs[Peer(e)], rl'[Peer(e)] = rl[Peer(e)], kl'[Peer(e)] = kl[Peer(e)],
           hs'[e].sent = hs[e].sent, hs'[e].inits = hs[e].inits, hs'[e].sid = hs[e].sid,
           hs'[e].strict = hs[e].strict, QueueTyped(hs'[e].queue),
           rl'[e].pc = "start" => rl[e].pc = "start", Broken(e) => Broken(e)',
           kl'[e] = kl[e] \/ (~InKex(e) /\ kl'[e].pc \in {"close", "drain", "done"})
    PROVE  Outcome(e)
<1>1. Others(e)
  BY DEF Others, Boxes
<1>2. Steady(e)
  BY DEF Steady, Local, Typed, QueueTyped
<1>3. Failing(e) => Failing(e)'
  BY DEF Failing, Broken, InKex
<1> QED
  BY <1>1, <1>2, <1>3, Quietly

LEMMA LocalQueue == ASSUME NEW e, Local(e) PROVE QueueTyped(hs[e].queue)
  BY DEF Local, Typed, QueueTyped

LEMMA ReadLoopSteps ==
    ASSUME Inv, Boxes, NEW e \in Ends, Local(e),
           \/ PushIncoming(e) \/ ExchangeSeen(e) \/ ReadLoopEnds(e) \/ DrainStart(e)
           \/ ReadPacket(e) /\ Failed(e)
    PROVE  Outcome(e)
<1>0. Peer(e) \in Ends /\ Peer(e) # e /\ Shape /\ Turns(e) /\ QueueTyped(hs[e].queue)
  BY PeerFacts, LocalQueue DEF Inv
<1>1. /\ DOMAIN rl = Ends /\ DOMAIN hs = Ends /\ DOMAIN kl = Ends
      /\ DOMAIN rl[e] = RlFields /\ DOMAIN hs[e] = HsFields /\ DOMAIN kl[e] = KlFields
  BY <1>0 DEF Shape
<1>2. CASE PushIncoming(e)
  <2>1. /\ UNCHANGED <<scene, wire, up, rd, wr, hs, kl>> /\ rl[e].pc = "push"
        /\ rl' = [rl EXCEPT ![e].pc = "read", ![e].pkt = <<>>]
    BY <1>2 DEF PushIncoming
  <2>2. rl'[Peer(e)] = rl[Peer(e)] /\ rl'[e].pc = "read" /\ rl[e].done = "none"
    BY <1>0, <1>1, <2>1 DEF RlFields, Turns
  <2> QED
    BY <1>0, <2>1, <2>2, LoopsOnly DEF Broken
<1>3. CASE ExchangeSeen(e)
  <2>1. /\ UNCHANGED <<scene, wire, up, rd, wr, kl>> /\ rl[e].pc = "wait"
    BY <1>3 DEF ExchangeSeen
  <2>2. CASE rl[e].done = "err"
    <3>1. UNCHANGED hs /\ rl' = [rl EXCEPT ![e].pc = "err"]
      BY <1>3, <2>2 DEF ExchangeSeen
    <3>2. rl'[Peer(e)] = rl[Peer(e)] /\ rl'[e].pc = "err"
      BY <1>0, <1>1, <3>1 DEF RlFields
    <3> QED
      BY <1>0, <2>1, <3>1, <3>2, LoopsOnly DEF Broken
  <2>3. CASE rl[e].done # "err"
    <3> PICK k, c : /\ k = (IF rl[e].done = "first" THEN <<P("newkeys", 0)>> ELSE <<>>)
                    /\ c = (IF rl[e].done = "first" THEN "push" ELSE "read")
      OBVIOUS
    <3>1. /\ hs' = [hs EXCEPT ![e].rleft = Threshold]
          /\ rl' = [rl EXCEPT ![e].done = "none", ![e].pkt = k, ![e].pc = c]
      BY <1>3, <2>3 DEF ExchangeSeen
    <3>2. rl'[Peer(e)] = rl[Peer(e)] /\ rl'[e].pc = c
      BY <1>0, <1>1, <3>1 DEF RlFields
    <3>3. /\ hs'[Peer(e)] = hs[Peer(e)] /\ hs'[e].sent = hs[e].sent /\ hs'[e].inits = hs[e].inits
          /\ hs'[e].sid = hs[e].sid /\ hs'[e].strict = hs[e].strict /\ hs'[e].queue = hs[e].queue
      BY <1>0, <1>1, <3>1 DEF HsFields
    <3>4. ~Broken(e) /\ rl'[e].pc # "start"
      BY <2>1, <2>3, <3>2 DEF Broken
    <3> QED
      BY <1>0, <2>1, <3>2, <3>3, <3>4, LoopsOnly
  <2> QED
    BY <2>2, <2>3
<1>4. CASE ReadLoopEnds(e)
  <2>1. /\ UNCHANGED <<scene, wire, up, rd, wr, kl>> /\ rl[e].pc = "err"
        /\ rl' = [rl EXCEPT ![e].pc = "ended"] /\ hs' = [hs EXCEPT ![e].werr = TRUE]
    BY <1>4 DEF ReadLoopEnds
  <2>2. rl'[Peer(e)] = rl[Peer(e)] /\ rl'[e].pc = "ended"
    BY <1>0, <1>1, <2>1 DEF RlFields
  <2>3. /\ hs'[Peer(e)] = hs[Peer(e)] /\ hs'[e].sent = hs[e].sent /\ hs'[e].inits = hs[e].inits
        /\ hs'[e].sid = hs[e].sid /\ hs'[e].strict = hs[e].strict /\ hs'[e].queue = hs[e].queue
    BY <1>0, <1>1, <2>1 DEF HsFields
  <2> QED
    BY <1>0, <2>1, <2>2, <2>3, LoopsOnly DEF Broken
<1>5. CASE DrainStart(e)
  <2>1. /\ UNCHANGED <<scene, wire, up, rd, wr, hs, kl>>
        /\ rl' = [rl EXCEPT ![e].pc = "wait", ![e].done = "err"]
    BY <1>5 DEF DrainStart
  <2>2. rl'[Peer(e)] = rl[Peer(e)] /\ rl'[e].pc = "wait" /\ rl'[e].done = "err"
    BY <1>0, <1>1, <2>1 DEF RlFields
  <2> QED
    BY <1>0, <2>1, <2>2, LoopsOnly DEF Broken
<1>6. CASE ReadPacket(e) /\ Failed(e)
  <2>1. /\ UNCHANGED <<scene, wire, up, rd, wr, hs, kl>>
        /\ rl' = [rl EXCEPT ![e].pc = "err"]
    BY <1>6 DEF ReadPacket
  <2>2. rl'[Peer(e)] = rl[Peer(e)] /\ rl'[e].pc = "err"
    BY <1>0, <1>1, <2>1 DEF RlFields
  <2> QED
    BY <1>0, <2>1, <2>2, LoopsOnly DEF Broken
<1> QED
  BY <1>2, <1>3, <1>4, <1>5, <1>6

LEMMA KexLoopSteps ==
    ASSUME Inv, Boxes, NEW e \in Ends, Local(e), SelectClosed(e) \/ KexLoopDone(e)
    PROVE  Outcome(e)
<1>0. Peer(e) \in Ends /\ Peer(e) # e /\ Shape /\ QueueTyped(hs[e].queue)
  BY PeerFacts, LocalQueue DEF Inv
<1> PICK c : c = (IF SelectClosed(e) THEN "close" ELSE "done")
  OBVIOUS
<1>1. /\ UNCHANGED <<scene, wire, up, rd, wr, hs, rl>> /\ kl[e].pc # "kex"
      /\ kl' = [kl EXCEPT ![e].pc = c] /\ c \in {"close", "done"}
  BY DEF SelectClosed, KexLoopDone
<1>2. kl'[Peer(e)] = kl[Peer(e)] /\ kl'[e].pc = c
  BY <1>0, <1>1 DEF Shape, KlFields
<1> QED
  BY <1>0, <1>1, <1>2, LoopsOnly DEF Broken, InKex

LEMMA AppSteps ==
    ASSUME Inv, Boxes, NEW e \in Ends, Local(e), UNCHANGED <<scene, wire, up, rd, wr, hs, rl, kl>>
    PROVE  Outcome(e)
<1>0. QueueTyped(hs[e].queue)
  BY LocalQueue
<1> QED
  BY <1>0, LoopsOnly DEF Broken

-----------------------------------------------------------------------------
(* The application writes                                                  *)

LEMMA PutWritten ==
    ASSUME Inv, Boxes, NEW e \in Ends, NEW ps, IsASeq(ps), Put(e, ps)
    PROVE  /\ Written(e, wr[e], ps) /\ wire'[e] = wire[e]
           /\ wr'[Peer(e)] = wr[Peer(e)] /\ DOMAIN wr' = Ends
<1>0. Peer(e) \in Ends /\ Peer(e) # e /\ DOMAIN wire = Ends
  BY PeerFacts DEF Inv, Shape
<1> PICK x : x = WriteAll(wr[e], ps, hs[e].strict)
  OBVIOUS
<1>1. /\ wr' = [wr EXCEPT ![e] = x.state]
      /\ wire' = IF up[Peer(e)] THEN [wire EXCEPT ![Peer(e)] = @ \o x.out] ELSE wire
  BY DEF Put
<1>2. wr'[e] = x.state /\ wr'[Peer(e)] = wr[Peer(e)] /\ DOMAIN wr' = Ends
  BY <1>0, <1>1 DEF Boxes
<1>3. wire'[e] = wire[e] /\ wire'[Peer(e)] = IF up[Peer(e)] THEN wire[Peer(e)] \o x.out ELSE wire[Peer(e)]
  BY <1>0, <1>1
<1> QED
  BY <1>2, <1>3 DEF Written

LEMMA PushPacketMoves ==
    ASSUME Inv, Boxes, Lengths, NEW e \in Ends, Local(e), HasWrite(e), hs[e].sent = <<>>, PushPacket(e),
           UNCHANGED <<scene, up, rd, rl, kl>>
    PROVE  Outcome(e)
<1>0. Peer(e) \in Ends /\ Peer(e) # e /\ Shape /\ QueueTyped(hs[e].queue) /\ Typed(e)
  BY PeerFacts, LocalQueue DEF Inv, Local
<1>1. /\ DOMAIN hs = Ends /\ DOMAIN hs[e] = HsFields
  BY <1>0 DEF Shape
<1> PICK x, y, z : hs' = [hs EXCEPT ![e].wleft = x, ![e].token = y, ![e].werr = z]
  <2> PICK x, y, z : /\ x = (IF hs[e].wleft > 0 THEN hs[e].wleft - 1 ELSE hs[e].wleft)
                     /\ y = (hs[e].token \/ hs[e].wleft = 0) /\ z = ~up[e]
    OBVIOUS
  <2>1. hs' = [hs EXCEPT ![e].wleft = x, ![e].token = y, ![e].werr = z]
    BY <1>1 DEF PushPacket, HsFields
  <2> QED
    BY <2>1, Zenon
<1>2. /\ hs'[Peer(e)] = hs[Peer(e)] /\ hs'[e].sent = hs[e].sent /\ hs'[e].inits = hs[e].inits
      /\ hs'[e].sid = hs[e].sid /\ hs'[e].strict = hs[e].strict /\ hs'[e].queue = hs[e].queue
  BY <1>0, <1>1 DEF HsFields
<1>3. CASE ~up[e]
  <2>1. UNCHANGED <<wire, wr>>
    BY <1>3 DEF PushPacket
  <2> QED
    BY <1>0, <1>2, <2>1, LoopsOnly DEF Broken
<1>4. CASE up[e]
  <2> PICK p, ps : p = NextWrite(e) /\ ps = <<p>>
    OBVIOUS
  <2>1. p.t \in {"data", "ignore", "disconnect"}
    BY NextTyped
  <2>2. IsASeq(ps) /\ DOMAIN ps = {1} /\ ps[1] = p
    BY ShortSeq
  <2>3. Put(e, ps)
    BY <1>4 DEF PushPacket
  <2>4. Written(e, wr[e], ps) /\ wire'[e] = wire[e] /\ wr'[Peer(e)] = wr[Peer(e)] /\ DOMAIN wr' = Ends
    BY <2>2, <2>3, PutWritten
  <2>5. Without(ps, "newkeys") /\ Without(ps, "init") /\ \A i \in DOMAIN ps : ~IsReply(ps[i])
    BY <2>1, <2>2 DEF Without, IsReply
  <2>6. Sound(wr'[e]) /\ wr'[e].pending = <<>> /\ wr'[e].mode = wr[e].mode /\ wr'[e].key = wr[e].key
    BY <1>0, <2>4, <2>5, WrittenPlain
  <2>7. Others(e)
    BY <1>2, <2>4 DEF Others, Boxes
  <2>8. Steady(e)
    BY <1>0, <1>2, <2>6 DEF Steady, Typed, QueueTyped, Broken
  <2>9. Paced(e)
    BY DEF Paced, Local, Begun
  <2>10. Local(e)' /\ Apart(e)
    BY <2>7, <2>8, <2>9, SteadyLocal, OthersApart
  <2>11. /\ Settled(e) => Settled(e)' /\ View(e)' = View(e)
         /\ InKex(e)' => InKex(e)
         /\ Settled(e)' => Settled(e)
    BY <1>2 DEF Settled, InKex, View, Hash, ClientInit, ServerInit
  <2>12. Sends(e, ps)
    BY <1>2, <2>4, <2>5, <2>11 DEF Sends, Calm
  <2>13. Tidy(e, ps)
    BY <2>5 DEF Tidy, Failing
  <2> QED
    BY <2>7, <2>10, <2>12, <2>13 DEF Outcome, Move
<1> QED
  BY <1>3, <1>4

LEMMA WritePacketMoves ==
    ASSUME Inv, Boxes, Lengths, NEW e \in Ends, Local(e), WritePacket(e)
    PROVE  Outcome(e)
<1>0. Peer(e) \in Ends /\ Peer(e) # e /\ Shape /\ QueueTyped(hs[e].queue)
  BY PeerFacts, LocalQueue DEF Inv
<1>1. HasWrite(e) /\ UNCHANGED <<scene, up, rd, rl, kl>>
  BY DEF WritePacket
<1>2. CASE hs[e].werr
  <2>1. UNCHANGED <<wire, wr, hs>>
    BY <1>2 DEF WritePacket, GiveUp
  <2> QED
    BY <1>1, <2>1, AppSteps
<1>3. CASE ~hs[e].werr /\ hs[e].sent = <<>>
  BY <1>1, <1>3, PushPacketMoves DEF WritePacket
<1>4. CASE ~hs[e].werr /\ hs[e].sent # <<>> /\ Len(hs[e].queue) < MaxPending
  <2> PICK p, q : p = NextWrite(e) /\ q = hs[e].queue
    OBVIOUS
  <2>1. hs' = [hs EXCEPT ![e].queue = Append(q, p)] /\ UNCHANGED <<wire, wr>>
    BY <1>0, <1>4 DEF WritePacket, Shape
  <2>2. p.t \in {"data", "ignore", "disconnect"} /\ IsASeq(q) /\ QueueTyped(q)
    BY <1>0, <1>1, NextTyped DEF Shape
  <2>3. QueueTyped(Append(q, p))
    <3>1. PICK S : q \in Seq(S)
      BY <2>2 DEF IsASeq
    <3>2. q \in Seq(S \cup {p}) /\ p \in S \cup {p}
      BY <3>1
    <3>3. /\ DOMAIN Append(q, p) = 1 .. Len(q) + 1 /\ DOMAIN q = 1 .. Len(q) /\ Len(q) \in Nat
          /\ Append(q, p)[Len(q) + 1] = p /\ \A i \in 1 .. Len(q) : Append(q, p)[i] = q[i]
      BY <3>2
    <3> PICK v, l : v = Append(q, p) /\ l = Len(q)
      OBVIOUS
    <3>4. \A i \in DOMAIN v : (i \in DOMAIN q /\ v[i] = q[i]) \/ v[i] = p
      BY <3>3
    <3> QED
      BY <2>2, <3>4 DEF QueueTyped
  <2>4. /\ hs'[Peer(e)] = hs[Peer(e)] /\ hs'[e].sent = hs[e].sent /\ hs'[e].inits = hs[e].inits
        /\ hs'[e].sid = hs[e].sid /\ hs'[e].strict = hs[e].strict /\ hs'[e].queue = Append(q, p)
    BY <1>0, <2>1 DEF Shape, HsFields
  <2> QED
    BY <1>1, <2>1, <2>3, <2>4, LoopsOnly DEF Broken
<1>5. CASE ~hs[e].werr /\ hs[e].sent # <<>> /\ ~(Len(hs[e].queue) < MaxPending)
  <2>1. UNCHANGED <<wire, wr, hs>>
    BY <1>5 DEF WritePacket
  <2> QED
    BY <1>1, <2>1, AppSteps
<1> QED
  BY <1>2, <1>3, <1>4, <1>5

LEMMA WriteResumesMoves ==
    ASSUME Inv, Waiting, Boxes, Lengths, NEW e \in Ends, Local(e), WriteResumes(e)
    PROVE  Outcome(e)
<1>1. HasWrite(e) /\ UNCHANGED <<scene, up, rd, rl, kl>>
  BY DEF WriteResumes, Waiting
<1>2. CASE hs[e].werr
  <2>1. UNCHANGED <<wire, wr, hs>>
    BY <1>2 DEF WriteResumes, GiveUp
  <2> QED
    BY <1>1, <2>1, AppSteps
<1>3. CASE ~hs[e].werr
  BY <1>1, <1>3, PushPacketMoves DEF WriteResumes
<1> QED
  BY <1>2, <1>3

-----------------------------------------------------------------------------
(* e reads                                                                 *)

LEMMA ScriptTail ==
    ASSUME NEW e \in Ends, NEW sc, ScriptSound(e, sc), sc # <<>>
    PROVE  /\ ScriptSound(e, Tail(sc))
           /\ e = "c" /\ Tail(sc) = <<>> => Head(sc).dir = "in" /\ Head(sc).m \in Replies
           /\ e = "s" /\ Head(sc).m \in Replies => Tail(sc) = <<>>
<1> PICK l, u : l = Len(sc) /\ u = Tail(sc)
  OBVIOUS
<1>0. IsASeq(sc)
  BY DEF ScriptSound
<1>1. /\ IsASeq(u) /\ Head(sc) = sc[1] /\ l \in Nat \ {0} /\ DOMAIN sc = 1 .. l /\ Len(u) = l - 1 /\ DOMAIN u = 1 .. l - 1
      /\ \A i \in 1 .. l - 1 : u[i] = sc[i + 1]
  BY <1>0, TailSeq
<1>2. u = <<>> <=> l = 1
  <2>1. ASSUME l = 1 PROVE u = <<>>
    <3>1. IsASeq(u) /\ Len(u) = 0
      BY <1>1, <2>1
    <3> QED
      BY ONLY <3>1 DEF IsASeq
  <2>2. Len(<<>>) = 0
    BY ShortSeq
  <2>3. ASSUME u = <<>> PROVE l = 1
    <3>1. Len(u) = 0
      BY <2>2, <2>3
    <3>2. l - 1 = 0 /\ l \in Nat
      BY <1>1, <3>1
    <3> QED
      BY ONLY <3>2
  <2> QED
    BY <2>1, <2>3
<1>3. CASE e = "c"
  <2>1. sc[l].dir = "in" /\ sc[l].m \in Replies
    BY <1>3 DEF ScriptSound
  <2>2. u # <<>> => u[l - 1] = sc[l]
    <3>1. ASSUME l # 1 PROVE u[l - 1] = sc[l]
      <4>1. l - 1 \in 1 .. l - 1 /\ (l - 1) + 1 = l
        BY <1>1, <3>1
      <4> QED
        BY <1>1, <4>1
    <3> QED
      BY <1>2, <3>1
  <2>3. ScriptSound(e, u)
    BY <1>1, <1>3, <2>1, <2>2 DEF ScriptSound
  <2> QED
    BY <1>1, <1>2, <1>3, <2>1, <2>3
<1>4. CASE e = "s"
  <2>0. \A i \in 1 .. l : sc[i].m \in Replies => i = l
    BY <1>1, <1>4 DEF ScriptSound
  <2>1. \A i \in DOMAIN u : u[i].m \in Replies => i = l - 1
    <3> SUFFICES ASSUME NEW i \in 1 .. l - 1, u[i].m \in Replies PROVE i = l - 1
      BY <1>1
    <3>1. i + 1 \in 1 .. l /\ sc[i + 1].m \in Replies
      BY <1>1
    <3>2. i + 1 = l
      BY <2>0, <3>1
    <3> QED
      BY <1>1, <3>2
  <2>2. ScriptSound(e, u)
    BY <1>1, <1>4, <2>1 DEF ScriptSound
  <2>3. sc[1].m \in Replies => l = 1
    BY <1>1, <2>0
  <2> QED
    BY <1>1, <1>2, <1>4, <2>2, <2>3
<1> QED
  BY <1>3, <1>4 DEF Ends

LEMMA ConsumeFacts ==
    ASSUME Inv, Boxes, NEW e \in Ends, ~Failed(e), Consume(e)
    PROVE  /\ up[e] /\ wire[e] # <<>> /\ Incoming(e) = wire[e][1]
           /\ wire'[e] = Tail(wire[e]) /\ wire'[Peer(e)] = wire[Peer(e)]
           /\ rd'[e] = Advance(rd[e], wire[e][1], hs[e].strict)
           /\ rd'[Peer(e)] = rd[Peer(e)] /\ DOMAIN rd' = Ends
           /\ wire[e][1].t = "newkeys" => rd[e].pending # <<>>
<1>0. Peer(e) \in Ends /\ Peer(e) # e /\ DOMAIN rd = Ends
  BY PeerFacts DEF Boxes
<1>1. /\ wire'[e] = Tail(wire[e]) /\ wire'[Peer(e)] = wire[Peer(e)]
      /\ up[e] /\ wire[e] # <<>> /\ Incoming(e) = wire[e][1]
  BY ConsumeTakes DEF Consume
<1>2. rd' = [rd EXCEPT ![e] = Advance(@, wire[e][1], hs[e].strict)]
  BY <1>1 DEF Consume
<1>3. ~ReadRefuses(rd[e], wire[e][1])
  BY <1>1 DEF Failed, Incoming
<1> QED
  BY <1>0, <1>1, <1>2, <1>3 DEF ReadRefuses

\* e takes a packet other than newkeys from the connection, and goes on as it was.
LEMMA ReadsOn ==
    ASSUME Inv, Boxes, NEW e \in Ends, Local(e), ~Failed(e), Consume(e), wire[e][1].t # "newkeys",
           UNCHANGED <<scene, up, wr>>,
           hs'[Peer(e)] = hs[Peer(e)], rl'[Peer(e)] = rl[Peer(e)], kl'[Peer(e)] = kl[Peer(e)],
           hs'[e].sent = hs[e].sent, hs'[e].inits = hs[e].inits, hs'[e].sid = hs[e].sid,
           hs'[e].strict = hs[e].strict, hs'[e].queue = hs[e].queue,
           Broken(e) => Broken(e)', Paced(e), kl'[e].pc = kl[e].pc,
           rl'[e].pc = "start" => rl[e].pc = "start" \/ wire[e][1].t = "init",
           Settled(e) => Settled(e)' /\ View(e)' = View(e),
           e = "c" /\ Settled(e)' => Settled(e) \/ (IsReply(wire[e][1]) /\ wire[e][1].body[1].h = View(e)')
    PROVE  Outcome(e)
<1>0. Peer(e) \in Ends /\ Peer(e) # e /\ Typed(e)
  BY PeerFacts DEF Local
<1>1. /\ up[e] /\ wire[e] # <<>>
      /\ wire'[e] = Tail(wire[e]) /\ wire'[Peer(e)] = wire[Peer(e)]
      /\ rd'[e] = Advance(rd[e], wire[e][1], hs[e].strict)
      /\ rd'[Peer(e)] = rd[Peer(e)] /\ DOMAIN rd' = Ends
  BY ConsumeFacts
<1>2. Sound(rd'[e]) /\ rd'[e].pending = rd[e].pending
  <2> PICK c, p, s : c = rd[e] /\ p = wire[e][1] /\ s = hs[e].strict
    OBVIOUS
  <2>1. Sound(c) /\ p.t # "newkeys"
    BY <1>0 DEF Typed
  <2>2. Sound(Advance(c, p, s)) /\ Advance(c, p, s).pending = c.pending
    BY <2>1, AdvancePlain
  <2> QED
    BY <1>1, <2>2
<1>3. Others(e)
  BY <1>1 DEF Others, Boxes
<1>4. Steady(e)
  BY <1>0, <1>2 DEF Steady, Typed
<1>5. Local(e)' /\ Apart(e)
  BY <1>3, <1>4, SteadyLocal, OthersApart
<1>6. Reads(e)
  BY <1>1 DEF Reads, Calm, InKex
<1>7. Tidy(e, <<>>)
  <2>1. Failing(e) => Failing(e)'
    BY DEF Failing, Broken
  <2> QED
    BY <1>2, <2>1, Nothing DEF Tidy
<1> QED
  BY <1>3, <1>5, <1>6, <1>7 DEF Outcome, Move

LEMMA ReadPacketMoves ==
    ASSUME Inv, Boxes, NEW e \in Ends, Local(e), ReadPacket(e)
    PROVE  Outcome(e)
<1>0. Peer(e) \in Ends /\ Peer(e) # e /\ Shape /\ Turns(e) /\ Typed(e) /\ Sourced(e) /\ Begun(e)
  BY PeerFacts DEF Inv, Local
<1>1. CASE Failed(e)
  BY <1>1, ReadLoopSteps
<1>2. CASE ~Failed(e)
  <2>1. Consume(e) /\ UNCHANGED <<scene, up, wr, kl, app>> /\ rl[e].pc = "read"
    BY <1>2 DEF ReadPacket
  <2>2. ~Broken(e) /\ ~InKex(e)
    BY <1>0, <2>1 DEF Turns, Broken, InKex
  <2>3. wire[e][1].t # "newkeys" /\ Incoming(e) = wire[e][1]
    BY <1>0, <1>2, <2>1, <2>2, ConsumeFacts DEF Sourced
  <2>4. /\ rl'[Peer(e)] = rl[Peer(e)] /\ (rl'[e].pc = "start" => wire[e][1].t = "init")
        /\ hs'[Peer(e)] = hs[Peer(e)] /\ hs'[e].sent = hs[e].sent /\ hs'[e].inits = hs[e].inits
        /\ hs'[e].sid = hs[e].sid /\ hs'[e].strict = hs[e].strict /\ hs'[e].queue = hs[e].queue
    <3>1. CASE Skipped(e)
      <4>1. UNCHANGED <<rl, hs>>
        BY <1>2, <3>1 DEF ReadPacket
      <4> QED
        BY <2>1, <4>1
    <3>2. CASE ~Skipped(e)
      <4> PICK r : r = ReadOutcome(e, Incoming(e))
        OBVIOUS
      <4>1. rl' = [rl EXCEPT ![e] = r]
            /\ hs' = IF hs[e].rleft > 0 THEN [hs EXCEPT ![e].rleft = @ - 1] ELSE [hs EXCEPT ![e].token = TRUE]
        BY <1>2, <3>2 DEF ReadPacket
      <4>2. r.pc = "start" => Incoming(e).t = "init"
        <5>1. DOMAIN rl[e] = RlFields
          BY <1>0 DEF Shape
        <5> QED
          BY <2>1, <5>1 DEF ReadOutcome, RlFields
      <4>3. rl'[Peer(e)] = rl[Peer(e)] /\ rl'[e] = r
        BY <1>0, <4>1 DEF Shape
      <4>4. /\ hs'[Peer(e)] = hs[Peer(e)] /\ hs'[e].sent = hs[e].sent /\ hs'[e].inits = hs[e].inits
            /\ hs'[e].sid = hs[e].sid /\ hs'[e].strict = hs[e].strict /\ hs'[e].queue = hs[e].queue
        BY <1>0, <4>1 DEF Shape, HsFields
      <4> QED
        BY <2>3, <4>2, <4>3, <4>4
    <3> QED
      BY <3>1, <3>2
  <2>5. Paced(e)
    BY <1>0, <2>1, <2>2 DEF Paced
  <2>6. ~Settled(e) /\ ~Settled(e)'
    BY <2>1, <2>2 DEF Settled, InKex
  <2> QED
    BY <1>2, <2>1, <2>2, <2>3, <2>4, <2>5, <2>6, ReadsOn
<1> QED
  BY <1>1, <1>2

LEMMA KexIgnoresMoves ==
    ASSUME Inv, Boxes, NEW e \in Ends, Local(e), KexIgnores(e)
    PROVE  Outcome(e)
<1>1. ~Failed(e) /\ Consume(e) /\ Incoming(e).t = "ignore" /\ UNCHANGED <<scene, up, wr, hs, rl, kl, app>>
  BY DEF KexIgnores, Skipped
<1>2. wire[e][1].t # "newkeys"
  BY <1>1, ConsumeFacts
<1>3. Paced(e)
  BY <1>1 DEF Paced, Local, Begun
<1>4. (Settled(e)' <=> Settled(e)) /\ View(e)' = View(e)
  BY <1>1 DEF Settled, InKex, View, Hash, ClientInit, ServerInit
<1> QED
  BY <1>1, <1>2, <1>3, <1>4, ReadsOn DEF Broken

LEMMA SkipGuessReads ==
    ASSUME Inv, Boxes, NEW e \in Ends, Local(e), SkipGuess(e), ~Failed(e)
    PROVE  Outcome(e)
<1>0. Peer(e) \in Ends /\ Peer(e) # e /\ Shape /\ Guess(e)
  BY PeerFacts DEF Inv
<1>1. /\ Consume(e) /\ kl[e].pc = "kex" /\ kl[e].skip /\ kl' = [kl EXCEPT ![e].skip = FALSE]
      /\ UNCHANGED <<scene, up, wr, hs, rl, app>>
  BY DEF SkipGuess, KexReads
<1>2. wire[e][1].t # "newkeys"
  <2>1. up[e]
    BY <1>1, ConsumeFacts
  <2> QED
    BY <1>0, <1>1, <2>1 DEF Guess, GuessDue
<1>3. /\ kl'[Peer(e)] = kl[Peer(e)] /\ kl'[e].pc = kl[e].pc /\ kl'[e].req = kl[e].req /\ kl'[e].sent = kl[e].sent
      /\ kl'[e].alg = kl[e].alg /\ kl'[e].script = kl[e].script /\ kl'[e].group = kl[e].group /\ ~kl'[e].skip
  BY <1>0, <1>1 DEF Shape, KlFields
<1>4. Paced(e)
  BY <1>3 DEF Paced, Local, Begun
<1>5. (Settled(e)' <=> Settled(e)) /\ View(e)' = View(e)
  BY <1>1, <1>3 DEF Settled, InKex, View, Hash, ClientInit, ServerInit
<1> QED
  BY <1>1, <1>2, <1>3, <1>4, <1>5, ReadsOn DEF Broken

LEMMA KexReceivesReads ==
    ASSUME Inv, Boxes, NEW e \in Ends, Local(e), KexReceives(e), ~Failed(e),
           Acceptable(e, Head(kl[e].script).m, Incoming(e))
    PROVE  Outcome(e)
<1>0. Peer(e) \in Ends /\ Peer(e) # e /\ Shape /\ Begun(e) /\ Sourced(e)
  BY PeerFacts DEF Inv, Local
<1> PICK m, p, g : /\ m = Head(kl[e].script).m /\ p = Incoming(e)
                   /\ g = IF m = "gexrequest" THEN ChooseDH(p.body[1].req)
                          ELSE IF m = "gexgroup" THEN p.body[1].req.pref ELSE kl[e].group
  OBVIOUS
<1>1. /\ Consume(e) /\ kl[e].pc = "kex" /\ kl[e].alg # <<>> /\ kl[e].script # <<>>
      /\ kl' = [kl EXCEPT ![e].script = Tail(@), ![e].group = g]
      /\ UNCHANGED <<scene, up, wr, hs, rl, app>>
  BY <1>0 DEF KexReceives, KexReads, Shape, KlFields
<1>2. p = wire[e][1] /\ p.t = "kex" /\ p.body[1].m = m /\ (m \in Replies => p.body[1].h = Hash(e, kl[e].group))
  BY <1>1, ConsumeFacts DEF Acceptable
<1>3. /\ kl'[Peer(e)] = kl[Peer(e)] /\ kl'[e].pc = kl[e].pc /\ kl'[e].req = kl[e].req /\ kl'[e].sent = kl[e].sent
      /\ kl'[e].alg = kl[e].alg /\ kl'[e].script = Tail(kl[e].script) /\ kl'[e].group = g
  BY <1>0, <1>1 DEF Shape, KlFields
<1>4. /\ ScriptSound(e, Tail(kl[e].script))
      /\ e = "c" /\ Tail(kl[e].script) = <<>> => m \in Replies
  BY <1>0, <1>1, ScriptTail DEF Begun, InKex
<1>5. ~Settled(e) /\ rd[e].pending = <<>>
  BY <1>0, <1>1 DEF Settled, Sourced, InKex
<1>6. Paced(e)
  BY <1>1, <1>3, <1>4, <1>5 DEF Paced
<1>7. e = "c" /\ Settled(e)' => IsReply(p) /\ p.body[1].h = View(e)'
  <2> SUFFICES ASSUME e = "c", Settled(e)' PROVE IsReply(p) /\ p.body[1].h = View(e)'
    OBVIOUS
  <2>1. m \in Replies
    BY <1>3, <1>4 DEF Settled
  <2>2. g = kl[e].group
    BY <2>1 DEF Replies
  <2>3. View(e)' = Hash(e, kl[e].group)
    BY <1>1, <1>3, <2>2 DEF View, Hash, ClientInit, ServerInit
  <2> QED
    BY <1>2, <2>1, <2>3 DEF IsReply
<1> QED
  BY <1>1, <1>2, <1>3, <1>5, <1>6, <1>7, ReadsOn, Zenon DEF Broken

-----------------------------------------------------------------------------
(* e closes, or the exchange fails                                         *)

LEMMA ShutsMoves ==
    ASSUME Inv, Boxes, NEW e \in Ends, Local(e), CloseConn(e) \/ AppCloses(e)
    PROVE  Outcome(e)
<1>0. Peer(e) \in Ends /\ Peer(e) # e /\ Shape /\ Typed(e)
  BY PeerFacts DEF Inv, Local
<1>1. /\ up' = [up EXCEPT ![e] = FALSE] /\ wire' = [wire EXCEPT ![e] = <<>>]
      /\ UNCHANGED <<scene, rd, wr, hs, rl>>
      /\ kl' = kl \/ (kl[e].pc = "close" /\ kl' = [kl EXCEPT ![e].pc = "drain"])
  BY DEF CloseConn, AppCloses
<1>2. /\ ~up'[e] /\ up'[Peer(e)] = up[Peer(e)] /\ wire'[e] = <<>> /\ wire'[Peer(e)] = wire[Peer(e)]
      /\ kl'[Peer(e)] = kl[Peer(e)]
      /\ kl'[e] = kl[e] \/ (kl[e].pc = "close" /\ kl'[e].pc = "drain")
  BY <1>0, <1>1 DEF Shape, KlFields
<1>3. Others(e)
  BY <1>1, <1>2 DEF Others, Boxes
<1>4. Steady(e)
  BY <1>0, <1>1, <1>2 DEF Steady, Typed, Broken
<1>5. Paced(e)
  BY <1>2 DEF Paced, Local, Begun, InKex
<1>6. Local(e)' /\ Apart(e)
  BY <1>3, <1>4, <1>5, SteadyLocal, OthersApart
<1>7. Shuts(e)
  BY <1>1, <1>2 DEF Shuts
<1>8. Tidy(e, <<>>)
  BY <1>1, <1>2, Nothing DEF Tidy, Failing
<1> QED
  BY <1>3, <1>6, <1>7, <1>8 DEF Outcome, Move

LEMMA FlushFacts ==
    ASSUME Shape, NEW e \in Ends, NEW ok, NEW h, h = Flush(e, ok)
    PROVE  /\ DOMAIN h = HsFields /\ h.sent = <<>> /\ h.queue = <<>>
           /\ h.inits = hs[e].inits /\ h.sid = hs[e].sid /\ h.strict = hs[e].strict
  BY DEF Shape, HsFields, Flush

LEMMA AfterFacts ==
    ASSUME Shape, NEW e \in Ends, NEW h, NEW k, k = AfterExchange(e, h)
    PROVE  /\ k.pc \in {"close", "select"} /\ k.req = <<>> /\ ~k.sent /\ k.script = <<>> /\ k.alg = <<>>
  BY DEF Shape, KlFields, AfterExchange

\* What is left when an exchange has ended, one way or the other.
LEMMA EndedLocal ==
    ASSUME NEW e \in Ends, Local(e), Sound(rd'[e]), Sound(wr'[e]), wr'[e].pending = <<>>,
           wr'[e].key = wr[e].key, wr'[e].mode = wr[e].mode,
           hs'[e].sent = <<>>, hs'[e].queue = <<>>,
           hs'[e].inits = hs[e].inits, hs'[e].sid = hs[e].sid, hs'[e].strict = hs[e].strict,
           kl'[e].pc \in {"close", "select"}, ~kl'[e].sent,
           rd'[e].pending = <<>> \/ Broken(e)', Broken(e)' \/ hs[e].sid # <<>>
    PROVE  Local(e)'
<1>0. Typed(e) /\ Begun(e) /\ Sourced(e)
  BY DEF Local
<1>1. ~InKex(e)'
  BY DEF InKex
<1>2. Typed(e)'
  <2>1. DOMAIN <<>> = {}
    BY ShortSeq
  <2> QED
    BY <1>0, <2>1 DEF Typed
<1>3. Begun(e)'
  BY <1>0, <1>1 DEF Begun
<1>4. Sourced(e)'
  BY <1>0, <1>1 DEF Sourced, Dead
<1> QED
  BY <1>2, <1>3, <1>4 DEF Local

LEMMA QueuePlain ==
    ASSUME NEW q, QueueTyped(q)
    PROVE  /\ Without(q, "newkeys") /\ Without(q, "init") /\ \A i \in DOMAIN q : ~IsReply(q[i])
           /\ \A i \in DOMAIN q : q[i].t \notin {"newkeys", "init", "kex"}
  BY DEF QueueTyped, Without, IsReply

LEMMA ExchangeFailsMoves ==
    ASSUME Inv, Boxes, Lengths, NEW e \in Ends, Local(e), kl[e].pc = "kex", ExchangeFails(e), UNCHANGED <<scene, up, rd, app>>
    PROVE  Outcome(e)
<1>0. Peer(e) \in Ends /\ Peer(e) # e /\ Shape /\ Typed(e) /\ QueueTyped(hs[e].queue) /\ Turns(e)
  BY PeerFacts, LocalQueue DEF Inv, Local
<1> PICK h, k, ps : /\ h = Flush(e, FALSE) /\ k = AfterExchange(e, h)
                    /\ ps = IF up[e] THEN hs[e].queue ELSE <<>>
  OBVIOUS
<1>1. /\ hs' = [hs EXCEPT ![e] = h] /\ kl' = [kl EXCEPT ![e] = k] /\ rl' = [rl EXCEPT ![e].done = "err"]
      /\ IF up[e] THEN Put(e, hs[e].queue) ELSE UNCHANGED <<wire, wr>>
  BY DEF ExchangeFails
<1>2. /\ h.sent = <<>> /\ h.queue = <<>>
      /\ h.inits = hs[e].inits /\ h.sid = hs[e].sid /\ h.strict = hs[e].strict
      /\ k.pc \in {"close", "select"} /\ ~k.sent
  <2>1. /\ h.sent = <<>> /\ h.queue = <<>>
        /\ h.inits = hs[e].inits /\ h.sid = hs[e].sid /\ h.strict = hs[e].strict
    BY ONLY <1>0, e \in Ends, h = Flush(e, FALSE), FlushFacts
  <2>2. k.pc \in {"close", "select"} /\ ~k.sent
    BY ONLY <1>0, e \in Ends, k = AfterExchange(e, h), AfterFacts
  <2> QED
    BY <2>1, <2>2
<1>3. /\ hs'[e] = h /\ hs'[Peer(e)] = hs[Peer(e)] /\ kl'[e] = k /\ kl'[Peer(e)] = kl[Peer(e)]
      /\ rl'[e].done = "err" /\ rl'[Peer(e)] = rl[Peer(e)] /\ rl'[e].pc = rl[e].pc
  BY <1>0, <1>1 DEF Shape, RlFields
<1>4. Written(e, wr[e], ps) /\ wire'[e] = wire[e] /\ wr'[Peer(e)] = wr[Peer(e)] /\ DOMAIN wr' = Ends
  <2>1. CASE up[e]
    <3>1. IsASeq(ps) /\ Put(e, ps)
      BY <1>0, <1>1, <2>1 DEF Shape
    <3> QED
      BY <3>1, PutWritten
  <2>2. CASE ~up[e]
    <3>1. UNCHANGED <<wire, wr>> /\ ps = <<>> /\ IsASeq(wire[Peer(e)])
      BY <1>0, <1>1, <2>2 DEF Shape
    <3> QED
      BY <3>1, WrittenNone DEF Boxes
  <2> QED
    BY <2>1, <2>2
<1>5. /\ Without(ps, "newkeys") /\ Without(ps, "init") /\ \A i \in DOMAIN ps : ~IsReply(ps[i])
  BY <1>0, QueuePlain, Nothing
<1>6. Sound(wr'[e]) /\ wr'[e].pending = <<>> /\ wr'[e].mode = wr[e].mode /\ wr'[e].key = wr[e].key
  BY <1>0, <1>4, <1>5, WrittenPlain
<1>7. Broken(e)' /\ Dead(e)' /\ Failing(e)'
  BY <1>3 DEF Broken, Dead, Failing
<1>8. Local(e)'
  BY <1>0, <1>2, <1>3, <1>6, <1>7, EndedLocal DEF Typed
<1>9. Others(e)
  BY <1>3, <1>4 DEF Others, Boxes
<1>10. Apart(e)
  BY <1>7, <1>9, OthersApart
<1>11. Sends(e, ps)
  BY <1>2, <1>3, <1>4, <1>5, <1>7 DEF Sends
<1>12. Tidy(e, ps)
  BY <1>7 DEF Tidy
<1> QED
  BY <1>8, <1>9, <1>10, <1>11, <1>12 DEF Outcome, Move

-----------------------------------------------------------------------------
(* The steps of an exchange                                                *)

LEMMA SkipGuessMoves ==
    ASSUME Inv, Boxes, Lengths, NEW e \in Ends, Local(e), SkipGuess(e)
    PROVE  Outcome(e)
<1>1. CASE Failed(e)
  <2>1. kl[e].pc = "kex" /\ ExchangeFails(e) /\ UNCHANGED <<scene, up, rd, app>>
    BY <1>1 DEF SkipGuess, KexReads
  <2> QED
    BY <2>1, ExchangeFailsMoves
<1> QED
  BY <1>1, SkipGuessReads

LEMMA KexReceivesMoves ==
    ASSUME Inv, Boxes, Lengths, NEW e \in Ends, Local(e), KexReceives(e)
    PROVE  Outcome(e)
<1>1. CASE Failed(e) \/ ~Acceptable(e, Head(kl[e].script).m, Incoming(e))
  <2>1. kl[e].pc = "kex" /\ ExchangeFails(e) /\ UNCHANGED <<scene, up, rd, app>>
    BY <1>1 DEF KexReceives, KexReads
  <2> QED
    BY <2>1, ExchangeFailsMoves
<1> QED
  BY <1>1, KexReceivesReads

\* e writes p behind what another library may send.
LEMMA NoisePackets ==
    ASSUME NEW e \in Ends, NEW p, p.t = "kex", NEW ps, ps = Noise(e) \o <<p>>
    PROVE  /\ IsASeq(ps) /\ Without(ps, "newkeys") /\ Without(ps, "init") /\ Within(ps, scene[e].noise)
           /\ \A i \in DOMAIN ps : IsReply(ps[i]) => ps[i] = p
<1> PICK q, n, k : q = P("ignore", 0) /\ n = Noise(e) /\ k = Len(n)
  OBVIOUS
<1>1. q.t = "ignore"
  BY DEF P
<1>2. n = <<>> \/ (n = <<q>> /\ scene[e].noise)
  BY DEF Noise
<1>3. IsASeq(<<q>>) /\ DOMAIN <<q>> = {1} /\ <<q>>[1] = q /\ IsASeq(<<>>) /\ DOMAIN <<>> = {}
  BY ShortSeq
<1>4. IsASeq(n) /\ \A i \in DOMAIN n : n[i].t = "ignore" /\ scene[e].noise
  BY <1>1, <1>2, <1>3
<1>5. IsASeq(<<p>>) /\ Len(<<p>>) = 1 /\ <<p>>[1] = p
  BY ShortSeq
<1>6. /\ IsASeq(ps) /\ k \in Nat /\ DOMAIN n = 1 .. k /\ DOMAIN ps = 1 .. k + 1
      /\ \A i \in 1 .. k : ps[i] = n[i]
      /\ \A i \in 1 .. 1 : ps[k + i] = <<p>>[i]
  BY <1>4, <1>5, ConcatSeq
<1>7. ps[k + 1] = p
  BY <1>5, <1>6
<1>8. \A i \in DOMAIN ps : ps[i] = p \/ (ps[i].t = "ignore" /\ scene[e].noise)
  BY <1>4, <1>6, <1>7
<1> QED
  BY <1>6, <1>8 DEF Without, Within, IsReply

LEMMA KexSendsMoves ==
    ASSUME Inv, Boxes, Lengths, NEW e \in Ends, Local(e), KexSends(e)
    PROVE  Outcome(e)
<1>0. Peer(e) \in Ends /\ Peer(e) # e /\ Shape /\ Typed(e) /\ Begun(e) /\ Sourced(e) /\ Turns(e)
  BY PeerFacts DEF Inv, Local
<1>1. kl[e].pc = "kex" /\ kl[e].script # <<>> /\ Head(kl[e].script).dir = "out" /\ UNCHANGED <<scene, up, rd, app>>
  BY DEF KexSends
<1>2. CASE ~up[e]
  BY <1>1, <1>2, ExchangeFailsMoves DEF KexSends
<1>3. CASE up[e]
  <2> PICK m, sc, p, ps : sc = kl[e].script /\ m = Head(sc).m /\ p = KexMessage(e, m) /\ ps = Noise(e) \o <<p>>
    OBVIOUS
  <2>1. Put(e, ps) /\ kl' = [kl EXCEPT ![e].script = Tail(@)] /\ UNCHANGED <<hs, rl>>
    BY <1>3 DEF KexSends
  <2>2. p.t = "kex" /\ p.body[1].m = m /\ (m \in Replies => p.body[1].h = View(e))
    <3> PICK b : b = [m |-> m, ok |-> ~scene[e].bad,
                      req |-> IF m = "gexgroup" THEN [GexRequest EXCEPT !.pref = kl[e].group] ELSE scene[e].gex,
                      h |-> IF m \in Replies THEN Hash(e, kl[e].group) ELSE <<>>]
      OBVIOUS
    <3>1. b.m = m /\ (m \in Replies => b.h = View(e))
      BY DEF View
    <3>2. p = B("kex", b)
      BY DEF KexMessage
    <3>3. p.t = "kex" /\ p.body = <<b>>
      BY <3>2 DEF B
    <3> QED
      BY <3>1, <3>3
  <2>3. /\ IsASeq(ps) /\ Without(ps, "newkeys") /\ Without(ps, "init") /\ Within(ps, scene[e].noise)
        /\ \A i \in DOMAIN ps : IsReply(ps[i]) => ps[i] = p
    <3>1. p.t = "kex"
      BY <2>2
    <3>2. IsASeq(ps) /\ Without(ps, "newkeys") /\ Without(ps, "init")
      BY ONLY <3>1, e \in Ends, ps = Noise(e) \o <<p>>, NoisePackets
    <3>3. Within(ps, scene[e].noise)
      BY ONLY <3>1, e \in Ends, ps = Noise(e) \o <<p>>, NoisePackets
    <3>4. \A i \in DOMAIN ps : IsReply(ps[i]) => ps[i] = p
      BY ONLY <3>1, e \in Ends, ps = Noise(e) \o <<p>>, NoisePackets
    <3> QED
      BY <3>2, <3>3, <3>4
  <2>4. Written(e, wr[e], ps) /\ wire'[e] = wire[e] /\ wr'[Peer(e)] = wr[Peer(e)] /\ DOMAIN wr' = Ends
    BY <2>1, <2>3, PutWritten
  <2>5. Sound(wr'[e]) /\ wr'[e].pending = <<>> /\ wr'[e].mode = wr[e].mode /\ wr'[e].key = wr[e].key
    BY <1>0, <2>3, <2>4, WrittenPlain
  <2>6. /\ kl'[Peer(e)] = kl[Peer(e)] /\ kl'[e].pc = kl[e].pc /\ kl'[e].req = kl[e].req /\ kl'[e].sent = kl[e].sent
        /\ kl'[e].alg = kl[e].alg /\ kl'[e].script = Tail(sc) /\ kl'[e].group = kl[e].group
        /\ kl'[e].skip = kl[e].skip
    BY <1>0, <2>1 DEF Shape, KlFields
  <2>7. InKex(e) /\ kl[e].alg # <<>> /\ ScriptSound(e, sc) /\ ~Settled(e) /\ rd[e].pending = <<>>
    <3>1. InKex(e) /\ kl[e].alg # <<>> /\ ScriptSound(e, sc)
      BY <1>0, <1>1 DEF InKex, Begun
    <3> QED
      BY <1>0, <1>1, <3>1 DEF Settled, Sourced
  <2>8. /\ ScriptSound(e, Tail(sc)) /\ (e = "c" => Tail(sc) # <<>>)
        /\ e = "s" /\ m \in Replies => Tail(sc) = <<>>
    <3>1. sc # <<>> /\ Head(sc).dir # "in" /\ m = Head(sc).m
      BY <1>1
    <3> QED
      BY ONLY <2>7, <3>1, e \in Ends, ScriptTail
  <2>9. View(e)' = View(e) /\ (Settled(e)' <=> Tail(sc) = <<>>) /\ InKex(e)'
    <3>1. View(e)' = View(e)
      BY <2>1, <2>6 DEF View, Hash, ClientInit, ServerInit
    <3>2. (Settled(e)' <=> Tail(sc) = <<>>) /\ InKex(e)'
      BY <1>1, <2>6, <2>7 DEF Settled, InKex
    <3> QED
      BY <3>1, <3>2
  <2>10. Others(e)
    BY <1>1, <2>1, <2>4, <2>6 DEF Others, Boxes
  <2>11. Steady(e)
    BY <1>0, <1>1, <2>1, <2>5 DEF Steady, Typed, Broken
  <2>12. Paced(e)
    BY <2>6, <2>7, <2>8 DEF Paced
  <2>13. Local(e)' /\ Apart(e)
    BY <2>10, <2>11, <2>12, SteadyLocal, OthersApart
  <2>14. e = "s" => \A i \in DOMAIN ps : IsReply(ps[i]) =>
           ~Dead(e) /\ InKex(e) /\ ~Settled(e) /\ Told(e)' /\ ps[i].body[1].h = View(e)'
    <3> SUFFICES ASSUME e = "s", NEW i \in DOMAIN ps, IsReply(ps[i])
                 PROVE  ~Dead(e) /\ Told(e)' /\ ps[i].body[1].h = View(e)'
      BY <2>7
    <3>1. m \in Replies /\ ps[i] = p
      BY <2>2, <2>3, Zenon DEF IsReply
    <3>2. Told(e)'
      BY <1>1, <2>7, <2>8, <2>9, <3>1 DEF Told
    <3>3. ~Dead(e)
      BY <1>0, <1>1, <1>3 DEF Dead, Broken, Turns
    <3> QED
      BY <2>2, <2>9, <3>1, <3>2, <3>3
  <2>15. Sends(e, ps)
    BY <1>1, <2>1, <2>3, <2>4, <2>7, <2>8, <2>9, <2>14, Zenon DEF Sends, Calm
  <2>16. Tidy(e, ps)
    BY <1>1, <2>1, <2>3, <2>6 DEF Tidy, Failing
  <2> QED
    BY <2>10, <2>13, <2>15, <2>16 DEF Outcome, Move
<1> QED
  BY <1>2, <1>3

-----------------------------------------------------------------------------
(* An init goes out                                                        *)

LEMMA OfferShape ==
    ASSUME NEW e \in Ends, NEW init, NEW ps, ps = OfferPackets(e, init)
    PROVE  /\ IsASeq(ps) /\ Without(ps, "newkeys") /\ Opening(ps)
           /\ ~init.follows => \A i \in DOMAIN ps : ~IsReply(ps[i])
<1> PICK p, q : /\ p = B("init", init)
                /\ q = B("kex", [m |-> Head(KexScript(Head(init.kex), TRUE)).m,
                                 ok |-> ~scene[e].bad, req |-> scene[e].gex, h |-> <<>>])
  OBVIOUS
<1>1. p.t = "init" /\ q.t = "kex"
  BY DEF B
<1>2. CASE init.follows
  <2>1. ps = <<p>> \o <<q>>
    BY <1>2 DEF OfferPackets
  <2>2. IsASeq(<<p>>) /\ IsASeq(<<q>>) /\ Len(<<p>>) = 1 /\ Len(<<q>>) = 1 /\ <<p>>[1] = p /\ <<q>>[1] = q
    BY ShortSeq
  <2>3. IsASeq(ps) /\ DOMAIN ps = 1 .. 1 + 1 /\ ps[1] = p /\ ps[1 + 1] = q
    BY ONLY <2>1, <2>2, ConcatSeq
  <2>4. \A i \in DOMAIN ps : (i = 1 /\ ps[i] = p) \/ (i = 2 /\ ps[i] = q)
    BY ONLY <2>3
  <2> QED
    BY ONLY <1>1, <1>2, <2>3, <2>4 DEF Without, Opening
<1>3. CASE ~init.follows
  <2>1. ps = <<p>> \o <<>>
    BY <1>3 DEF OfferPackets
  <2>2. ps = <<p>>
    BY <2>1
  <2>3. IsASeq(ps) /\ DOMAIN ps = {1} /\ ps[1] = p
    BY ONLY <2>2, ShortSeq
  <2> QED
    BY ONLY <1>1, <2>3 DEF Without, Opening, IsReply
<1> QED
  BY <1>2, <1>3

\* a server does not guess, and an init has the number of the exchange
LEMMA OfferFacts ==
    ASSUME Shape, NEW e \in Ends, NEW init, init = Offer(e)
    PROVE  init.cookie = hs[e].inits + 1 /\ (e = "s" => ~init.follows)
<1>1. scene \in Scenarios /\ ~scene["s"].guess
  BY ScenariosAssumption DEF Shape
<1> QED
  BY <1>1 DEF Offer

LEMMA TurnMoves ==
    ASSUME Inv, Boxes, Lengths, NEW e \in Ends, Local(e), kl[e].pc = "select",
           NEW req, NEW r, NEW h, Turn(e, req, r, h),
           DOMAIN h = HsFields, h.queue = hs[e].queue, h.sent = hs[e].sent, h.inits = hs[e].inits,
           h.sid = hs[e].sid, h.strict = hs[e].strict, DOMAIN r = RlFields,
           \/ req = <<>> /\ r = rl[e]
           \/ req = <<rl[e].pkt[1].body[1]>> /\ rl[e].pc = "start" /\ r.pc = "wait"
    PROVE  Outcome(e)
<1> PICK o : o = Peer(e)
  OBVIOUS
<1>0. /\ o \in Ends /\ o # e /\ Peer(e) = o /\ Shape /\ Turns(e) /\ Typed(e) /\ Begun(e) /\ Sourced(e)
      /\ QueueTyped(hs[e].queue)
  BY PeerFacts, LocalQueue DEF Inv, Local
<1>1. kl[e].req = <<>>
  BY <1>0 DEF Turns
<1>2. req \o kl[e].req = req
  <2>1. <<>> \o <<>> = <<>>
    OBVIOUS
  <2>2. \A x : <<x>> \o <<>> = <<x>>
    OBVIOUS
  <2> QED
    BY <1>1, <2>1, <2>2
<1> PICK init, send, h1, ps :
        /\ init = Offer(e) /\ send = (h.sent = <<>> /\ ~kl[e].sent)
        /\ h1 = IF send /\ up[e] THEN [h EXCEPT !.sent = <<init>>, !.inits = @ + 1]
                ELSE IF send THEN [h EXCEPT !.werr = TRUE] ELSE h
        /\ ps = IF send /\ up[e] THEN OfferPackets(e, init) ELSE <<>>
  BY Zenon
<1>3. /\ hs' = [hs EXCEPT ![e] = h1]
      /\ IF send /\ up[e] THEN Put(e, OfferPackets(e, init)) ELSE UNCHANGED <<wire, wr>>
      /\ UNCHANGED <<scene, up, rd, app>>
  BY DEF Turn
<1>4. \/ /\ kl' = [kl EXCEPT ![e].pc = "close"]
         /\ rl' = [rl EXCEPT ![e] = IF req # <<>> THEN [r EXCEPT !.done = "err"] ELSE r]
      \/ /\ ~(send /\ ~up[e])
         /\ kl' = [kl EXCEPT ![e] = Enter(e, req)]
         /\ rl' = [rl EXCEPT ![e] = r]
  BY <1>2 DEF Turn
<1>5. <<init>> # <<>> /\ <<init>>[1] = init /\ <<>> # <<rl[e].pkt[1].body[1]>>
  OBVIOUS
<1>6. /\ h1.queue = hs[e].queue /\ h1.sid = hs[e].sid /\ h1.strict = hs[e].strict
      /\ IF send /\ up[e] THEN hs[e].sent = <<>> /\ h1.sent = <<init>> /\ h1.inits = hs[e].inits + 1
         ELSE h1.sent = hs[e].sent /\ h1.inits = hs[e].inits
  BY DEF HsFields
<1>7. hs'[e] = h1 /\ hs'[o] = hs[o]
  BY <1>0, <1>3 DEF Shape
<1>8. /\ rl'[o] = rl[o] /\ rl'[e].pc = r.pc /\ (rl'[e].done = r.done \/ rl'[e].done = "err")
  BY <1>0, <1>4 DEF Shape, RlFields
<1>9. /\ Broken(e) => Broken(e)'
      /\ rl'[e].pc = "start" => rl[e].pc = "start"
  <2>1. CASE req = <<>> /\ r = rl[e]
    BY <1>8, <2>1 DEF Broken
  <2>2. CASE rl[e].pc = "start" /\ r.pc = "wait"
    BY <1>0, <1>8, <2>2 DEF Broken, Turns
  <2> QED
    BY <2>1, <2>2
<1>10. /\ kl'[o] = kl[o]
       /\ \/ kl'[e].pc = "close"
          \/ ~(send /\ ~up[e]) /\ kl'[e].pc = "select"
          \/ /\ ~(send /\ ~up[e]) /\ kl'[e].pc = "kex" /\ rl[e].pc = "start"
             /\ kl'[e].script = <<>> /\ kl'[e].alg = <<>>
  <2>1. CASE kl' = [kl EXCEPT ![e].pc = "close"]
    BY <1>0, <2>1 DEF Shape, KlFields
  <2>2. CASE ~(send /\ ~up[e]) /\ kl' = [kl EXCEPT ![e] = Enter(e, req)]
    <3> PICK k : k = Enter(e, req)
      OBVIOUS
    <3>1. \/ k.pc = "select"
          \/ k.pc = "kex" /\ req # <<>> /\ k.script = <<>> /\ k.alg = <<>>
      BY <1>0 DEF Shape, KlFields, Enter
    <3>2. kl'[e] = k /\ kl'[o] = kl[o]
      BY <1>0, <2>2 DEF Shape
    <3> QED
      BY <2>2, <3>1, <3>2
  <2> QED
    BY <1>4, <2>1, <2>2
<1>11. /\ IsASeq(ps) /\ Without(ps, "newkeys") /\ (e = "s" => \A i \in DOMAIN ps : ~IsReply(ps[i]))
       /\ IF send /\ up[e] THEN Opening(ps) ELSE ps = <<>>
  <2>1. CASE send /\ up[e]
    <3>1. ps = OfferPackets(e, init) /\ init = Offer(e)
      BY <2>1
    <3>2. e = "s" => ~init.follows
      BY ONLY <1>0, <3>1, e \in Ends, OfferFacts
    <3> QED
      BY ONLY <2>1, <3>1, <3>2, e \in Ends, OfferShape
  <2>2. CASE ~(send /\ up[e])
    BY <2>2, Nothing
  <2> QED
    BY <2>1, <2>2
<1>12. Written(e, wr[e], ps) /\ wire'[e] = wire[e] /\ wr'[o] = wr[o] /\ DOMAIN wr' = Ends
  <2>1. CASE send /\ up[e]
    <3>1. Put(e, ps)
      BY <1>3, <2>1
    <3> QED
      BY <1>0, <1>11, <3>1, PutWritten
  <2>2. CASE ~(send /\ up[e])
    <3>1. UNCHANGED <<wire, wr>> /\ ps = <<>> /\ IsASeq(wire[o])
      BY <1>0, <1>3, <2>2 DEF Shape
    <3> QED
      BY <1>0, <3>1, WrittenNone DEF Boxes
  <2> QED
    BY <2>1, <2>2
<1>13. Sound(wr'[e]) /\ wr'[e].pending = <<>> /\ wr'[e].mode = wr[e].mode /\ wr'[e].key = wr[e].key
  BY <1>0, <1>11, <1>12, WrittenPlain
<1>14. /\ ~InKex(e) /\ ~Settled(e) /\ ~Settled(e)' /\ (InKex(e)' => rl[e].pc = "start" /\ ~Broken(e))
  BY <1>0, <1>10 DEF InKex, Settled, Broken, Turns
<1>15. Dead(e) => Dead(e)'
  BY <1>3, <1>9 DEF Dead
<1>16. Typed(e)'
  BY <1>0, <1>3, <1>6, <1>7, <1>13 DEF Typed
<1>17. init.cookie = hs[e].inits + 1
  BY ONLY <1>0, init = Offer(e), e \in Ends, OfferFacts
<1>18. kl'[e].pc # "close" => hs'[e].sent # <<>>
  BY <1>0, <1>5, <1>6, <1>7, <1>10 DEF Begun
<1>19. Begun(e)'
  <2>1. InKex(e)' \/ (kl'[e].pc = "select" /\ kl'[e].sent) => hs'[e].sent # <<>>
    BY <1>18 DEF InKex
  <2>2. InKex(e)' => kl'[e].alg = <<>> /\ kl'[e].script = <<>>
    BY <1>10 DEF InKex
  <2>3. hs'[e].sent # <<>> => hs'[e].sent[1].cookie = hs'[e].inits
    BY <1>0, <1>5, <1>6, <1>7, <1>17 DEF Begun
  <2> PICK n, x, k : n = hs[e].inits /\ k = wr[e].key /\ x = OwnCookie(e, k.h)
    OBVIOUS
  <2>4. hs'[e].inits \in {n, n + 1} /\ n \in Nat
    BY <1>0, <1>6, <1>7 DEF Typed
  <2>5. k # Plain => x \in Nat /\ x <= n
    BY <1>0 DEF Begun
  <2>6. k # Plain => x \in Nat /\ x <= hs'[e].inits
    BY ONLY <2>4, <2>5
  <2>7. k # Plain /\ hs'[e].sent # <<>> /\ rd'[e].pending = <<>> => x < hs'[e].inits
    <3>1. CASE send /\ up[e]
      <4>1. hs'[e].inits = n + 1
        BY <1>6, <1>7, <3>1
      <4> QED
        BY ONLY <2>4, <2>5, <4>1
    <3>2. CASE ~(send /\ up[e])
      BY <1>0, <1>3, <1>6, <1>7, <3>2 DEF Begun
    <3> QED
      BY <3>1, <3>2
  <2> QED
    BY <1>13, <2>1, <2>2, <2>3, <2>6, <2>7 DEF Begun
<1>20. Sourced(e)'
  <2>1. rd'[e] = rd[e] /\ hs'[e].sid = hs[e].sid /\ hs'[e].strict = hs[e].strict
    BY <1>3, <1>6, <1>7
  <2>2. rd'[e].pending # <<>> => Broken(e)' /\ ~InKex(e)'
    BY <1>0, <1>9, <1>14, <2>1 DEF Sourced
  <2>3. ~Dead(e)' /\ hs'[e].sid = <<>> => ~hs'[e].strict
    BY <1>0, <1>14, <1>15, <2>1 DEF Sourced
  <2>4. InKex(e)' => kl'[e].alg = <<>>
    BY <1>10 DEF InKex
  <2> QED
    BY <1>0, <1>13, <2>1, <2>2, <2>3, <2>4 DEF Sourced
<1>21. Others(e) /\ Apart(e) /\ Local(e)'
  <2>1. Others(e)
    BY <1>0, <1>3, <1>7, <1>8, <1>10, <1>12 DEF Others, Boxes
  <2> QED
    BY <1>15, <1>16, <1>19, <1>20, <2>1, OthersApart DEF Local
<1>22. Sends(e, ps)
  <2>1. ~Without(ps, "init") => hs[e].sent = <<>>
    BY <1>6, <1>11, Nothing
  <2> QED
    BY <1>3, <1>6, <1>7, <1>9, <1>11, <1>12, <1>14, <2>1 DEF Sends, Calm
<1>23. Tidy(e, ps)
  <2>1. Failing(e) => Broken(e)
    BY DEF Failing, Broken
  <2>2. Broken(e)' => Failing(e)'
    BY DEF Failing, Broken
  <2>3. ~Failing(e)' => rd'[e].pending = <<>>
    BY <1>0, <1>3, <1>9, <1>14, <2>2 DEF Sourced
  <2>4. ~Failing(e)' => hs'[e].sent # <<>>
    BY <1>18 DEF Failing
  <2>5. CASE send /\ up[e]
    BY <1>6, <1>9, <1>11, <2>1, <2>2, <2>3, <2>4, <2>5 DEF Tidy
  <2>6. CASE ~(send /\ up[e])
    <3>1. Within(ps, scene[e].noise)
      BY <1>11, <2>6, Nothing
    <3> QED
      BY <1>9, <2>1, <2>2, <2>3, <2>4, <3>1 DEF Tidy
  <2> QED
    BY <2>5, <2>6
<1> QED
  BY <1>21, <1>22, <1>23 DEF Outcome, Move

LEMMA SelectMoves ==
    ASSUME Inv, Boxes, Lengths, NEW e \in Ends, Local(e), SelectRequest(e) \/ SelectStart(e)
    PROVE  Outcome(e)
<1>0. Shape
  BY DEF Inv
<1>1. CASE SelectRequest(e)
  <2> PICK h : h = [hs[e] EXCEPT !.token = FALSE]
    OBVIOUS
  <2>1. kl[e].pc = "select" /\ Turn(e, <<>>, rl[e], h)
    BY <1>1 DEF SelectRequest
  <2>2. /\ DOMAIN h = HsFields /\ h.queue = hs[e].queue /\ h.sent = hs[e].sent /\ h.inits = hs[e].inits
        /\ h.sid = hs[e].sid /\ h.strict = hs[e].strict /\ DOMAIN rl[e] = RlFields
    BY <1>0 DEF Shape, HsFields
  <2> QED
    BY <2>1, <2>2, TurnMoves
<1>2. CASE SelectStart(e)
  <2> PICK r : r = [rl[e] EXCEPT !.pc = "wait", !.pkt = <<>>]
    OBVIOUS
  <2>1. kl[e].pc = "select" /\ rl[e].pc = "start" /\ Turn(e, <<rl[e].pkt[1].body[1]>>, r, hs[e])
    BY <1>2 DEF SelectStart
  <2>2. DOMAIN r = RlFields /\ r.pc = "wait" /\ DOMAIN hs[e] = HsFields
    BY <1>0 DEF Shape, RlFields
  <2> QED
    BY <2>1, <2>2, TurnMoves
<1> QED
  BY <1>1, <1>2

-----------------------------------------------------------------------------
(* Algorithms are agreed on                                                *)

LEMMA ShortScript ==
    ASSUME NEW e \in Ends, NEW a, NEW b, b.m \in Replies, a.m \notin Replies, e = "c" => b.dir = "in"
    PROVE  ScriptSound(e, <<a, b>>) /\ <<a, b>> # <<>> /\ Tail(<<a, b>>) # <<>>
<1> PICK sc : sc = <<a, b>>
  OBVIOUS
<1>1. IsASeq(sc) /\ Len(sc) = 2 /\ DOMAIN sc = {1, 2} /\ sc[1] = a /\ sc[2] = b
  BY ONLY sc = <<a, b>>, ShortSeq
<1>2. Tail(sc) # <<>> /\ sc # <<>>
  OBVIOUS
<1>3. ScriptSound(e, sc)
  BY ONLY <1>1, b.m \in Replies, a.m \notin Replies, e = "c" => b.dir = "in" DEF ScriptSound
<1> QED
  BY <1>2, <1>3

LEMMA LongScript ==
    ASSUME NEW e \in Ends, NEW a, NEW b, NEW c, NEW d, d.m \in Replies, e = "c" => d.dir = "in",
           a.m \notin Replies, b.m \notin Replies, c.m \notin Replies
    PROVE  ScriptSound(e, <<a, b, c, d>>) /\ <<a, b, c, d>> # <<>> /\ Tail(<<a, b, c, d>>) # <<>>
<1> PICK sc : sc = <<a, b, c, d>>
  OBVIOUS
<1>0. IsASeq(sc)
  <2>1. sc \in Seq({a, b, c, d})
    OBVIOUS
  <2> QED
    BY <2>1 DEF IsASeq
<1>1. Len(sc) = 4 /\ DOMAIN sc = 1 .. 4 /\ sc[1] = a /\ sc[2] = b /\ sc[3] = c /\ sc[4] = d
  OBVIOUS
<1>2. Tail(sc) # <<>> /\ sc # <<>>
  OBVIOUS
<1>3. ScriptSound(e, sc)
  BY ONLY <1>0, <1>1, d.m \in Replies, a.m \notin Replies, b.m \notin Replies, c.m \notin Replies,
          e = "c" => d.dir = "in" DEF ScriptSound
<1> QED
  BY <1>2, <1>3

\* Of every method the server's reply is the last message, and not the first.
LEMMA ScriptsSound ==
    ASSUME NEW e \in Ends, NEW alg \in KnownKex, NEW sc, sc = KexScript(alg, e = "c")
    PROVE  ScriptSound(e, sc) /\ sc # <<>> /\ Tail(sc) # <<>>
<1>1. alg \in {"dh", "ecdh", "curve25519", "curve25519-libssh", "mlkem", "gex"}
  BY AlgorithmsAssumption
<1>2. CASE e = "c"
  <2>1. sc \in {DHClient, ECDHClient, Curve25519Client, MLKEMClient, GEXClient}
    BY <1>1, <1>2 DEF KexScript
  <2>2. CASE sc = DHClient
    <3> PICK a, b : a = Out("dhinit") /\ b = In("dhreply")
      OBVIOUS
    <3>1. sc = <<a, b>>
      BY <2>2 DEF DHClient
    <3>2. b.m \in Replies /\ a.m \notin Replies /\ (e = "c" => b.dir = "in")
      BY DEF In, Out, Replies
    <3>3. ScriptSound(e, <<a, b>>) /\ <<a, b>> # <<>> /\ Tail(<<a, b>>) # <<>>
      BY ONLY <3>2, e \in Ends, ShortScript
    <3> QED
      BY <3>1, <3>3
  <2>3. CASE sc \in {ECDHClient, Curve25519Client, MLKEMClient}
    <3> PICK a, b : a = Out("ecdhinit") /\ b = In("ecdhreply")
      OBVIOUS
    <3>1. sc = <<a, b>>
      BY <2>3 DEF ECDHClient, Curve25519Client, MLKEMClient
    <3>2. b.m \in Replies /\ a.m \notin Replies /\ (e = "c" => b.dir = "in")
      BY DEF In, Out, Replies
    <3>3. ScriptSound(e, <<a, b>>) /\ <<a, b>> # <<>> /\ Tail(<<a, b>>) # <<>>
      BY ONLY <3>2, e \in Ends, ShortScript
    <3> QED
      BY <3>1, <3>3
  <2>4. CASE sc = GEXClient
    <3> PICK a, b, c, d : a = Out("gexrequest") /\ b = In("gexgroup") /\ c = Out("gexinit") /\ d = In("gexreply")
      OBVIOUS
    <3>1. sc = <<a, b, c, d>>
      BY <2>4 DEF GEXClient
    <3>2. d.m \in Replies /\ a.m \notin Replies /\ b.m \notin Replies /\ c.m \notin Replies /\ (e = "c" => d.dir = "in")
      BY DEF In, Out, Replies
    <3>3. ScriptSound(e, <<a, b, c, d>>) /\ <<a, b, c, d>> # <<>> /\ Tail(<<a, b, c, d>>) # <<>>
      BY ONLY <3>2, e \in Ends, LongScript
    <3> QED
      BY <3>1, <3>3
  <2> QED
    BY <2>1, <2>2, <2>3, <2>4
<1>3. CASE e = "s"
  <2>1. sc \in {DHServer, ECDHServer, Curve25519Server, MLKEMServer, GEXServer}
    BY <1>1, <1>3 DEF KexScript
  <2>2. CASE sc = DHServer
    <3> PICK a, b : a = In("dhinit") /\ b = Out("dhreply")
      OBVIOUS
    <3>1. sc = <<a, b>>
      BY <2>2 DEF DHServer
    <3>2. b.m \in Replies /\ a.m \notin Replies /\ (e = "c" => b.dir = "in")
      BY <1>3 DEF In, Out, Replies
    <3>3. ScriptSound(e, <<a, b>>) /\ <<a, b>> # <<>> /\ Tail(<<a, b>>) # <<>>
      BY ONLY <3>2, e \in Ends, ShortScript
    <3> QED
      BY <3>1, <3>3
  <2>3. CASE sc \in {ECDHServer, Curve25519Server, MLKEMServer}
    <3> PICK a, b : a = In("ecdhinit") /\ b = Out("ecdhreply")
      OBVIOUS
    <3>1. sc = <<a, b>>
      BY <2>3 DEF ECDHServer, Curve25519Server, MLKEMServer
    <3>2. b.m \in Replies /\ a.m \notin Replies /\ (e = "c" => b.dir = "in")
      BY <1>3 DEF In, Out, Replies
    <3>3. ScriptSound(e, <<a, b>>) /\ <<a, b>> # <<>> /\ Tail(<<a, b>>) # <<>>
      BY ONLY <3>2, e \in Ends, ShortScript
    <3> QED
      BY <3>1, <3>3
  <2>4. CASE sc = GEXServer
    <3> PICK a, b, c, d : a = In("gexrequest") /\ b = Out("gexgroup") /\ c = In("gexinit") /\ d = Out("gexreply")
      OBVIOUS
    <3>1. sc = <<a, b, c, d>>
      BY <2>4 DEF GEXServer
    <3>2. d.m \in Replies /\ a.m \notin Replies /\ b.m \notin Replies /\ c.m \notin Replies /\ (e = "c" => d.dir = "in")
      BY <1>3 DEF In, Out, Replies
    <3>3. ScriptSound(e, <<a, b, c, d>>) /\ <<a, b, c, d>> # <<>> /\ Tail(<<a, b, c, d>>) # <<>>
      BY ONLY <3>2, e \in Ends, LongScript
    <3> QED
      BY <3>1, <3>3
  <2> QED
    BY <2>1, <2>2, <2>3, <2>4
<1> QED
  BY <1>2, <1>3 DEF Ends

LEMMA NegotiateMoves ==
    ASSUME Inv, Boxes, Lengths, NEW e \in Ends, Local(e), Negotiate(e)
    PROVE  Outcome(e)
<1>0. Peer(e) \in Ends /\ Peer(e) # e /\ Shape /\ Typed(e) /\ Begun(e) /\ Sourced(e) /\ Turns(e)
  BY PeerFacts DEF Inv, Local
<1>1. kl[e].pc = "kex" /\ kl[e].alg = <<>> /\ UNCHANGED <<scene, up, rd, app>>
  BY DEF Negotiate
<1>2. CASE ExchangeFails(e)
  BY <1>1, <1>2, ExchangeFailsMoves
<1>3. CASE ~ExchangeFails(e)
  <2> PICK a, s, script, sc, sk :
         /\ a = FindAgreed(ClientInit(e), ServerInit(e))
         /\ s = (hs[e].sid = <<>> /\ kl[e].req[1].strict /\ hs[e].sent[1].strict)
         /\ script = KexScript(a.kex, e = "c")
         /\ sc = IF GuessedRight(e) THEN Tail(script) ELSE script
         /\ sk = WrongGuess(e)
    OBVIOUS
  <2>1. /\ a.kex \in KnownKex
        /\ hs' = [hs EXCEPT ![e].strict = @ \/ s]
        /\ kl' = [kl EXCEPT ![e].alg = <<a>>, ![e].skip = sk, ![e].script = sc]
        /\ UNCHANGED <<wire, wr, rl>>
    BY <1>3 DEF Negotiate
  <2>2. ScriptSound(e, sc) /\ sc # <<>>
    <3>1. ScriptSound(e, script) /\ script # <<>> /\ Tail(script) # <<>>
      BY ONLY <2>1, e \in Ends, script = KexScript(a.kex, e = "c"), ScriptsSound
    <3>2. ScriptSound(e, Tail(script))
      BY ONLY <3>1, e \in Ends, ScriptTail
    <3> QED
      BY <3>1, <3>2
  <2>3. /\ kl'[Peer(e)] = kl[Peer(e)] /\ kl'[e].pc = "kex" /\ kl'[e].req = kl[e].req /\ kl'[e].alg = <<a>>
        /\ kl'[e].script = sc
    BY <1>0, <1>1, <2>1 DEF Shape, KlFields
  <2>4. /\ hs'[Peer(e)] = hs[Peer(e)] /\ hs'[e].sent = hs[e].sent /\ hs'[e].inits = hs[e].inits
        /\ hs'[e].sid = hs[e].sid /\ hs'[e].queue = hs[e].queue /\ hs'[e].strict = (hs[e].strict \/ s)
    BY <1>0, <2>1 DEF Shape, HsFields
  <2>5. InKex(e) /\ InKex(e)' /\ ~Settled(e) /\ ~Settled(e)' /\ rd[e].pending = <<>>
    <3>1. InKex(e) /\ InKex(e)' /\ ~Settled(e) /\ ~Settled(e)'
      BY <1>1, <2>2, <2>3 DEF InKex, Settled
    <3> QED
      BY <1>0, <3>1 DEF Sourced
  <2>6. ClientInit(e)' = ClientInit(e) /\ ServerInit(e)' = ServerInit(e)
    BY <2>3, <2>4, Zenon DEF ClientInit, ServerInit
  <2>7. Strict(View(e))' <=> kl[e].req[1].strict /\ hs[e].sent[1].strict
    <3>1. Strict(View(e))' <=> ClientInit(e)'.strict /\ ServerInit(e)'.strict
      BY DEF Strict, View, Hash, ExchangeHash
    <3>2. ClientInit(e).strict /\ ServerInit(e).strict <=> kl[e].req[1].strict /\ hs[e].sent[1].strict
      BY DEF ClientInit, ServerInit
    <3> QED
      BY <2>6, <3>1, <3>2
  <2>8. /\ hs'[e].strict \in BOOLEAN /\ (hs[e].sid # <<>> => hs'[e].strict = hs[e].strict)
        /\ ~Dead(e) /\ hs[e].sid = <<>> => (hs'[e].strict <=> kl[e].req[1].strict /\ hs[e].sent[1].strict)
    <3>1. hs[e].strict \in BOOLEAN
      BY <1>0 DEF Typed
    <3>2. hs[e].sid # <<>> => ~s
      OBVIOUS
    <3>3. ~Dead(e) /\ hs[e].sid = <<>> => ~hs[e].strict
      BY <1>0, <1>1 DEF Sourced
    <3> QED
      BY <2>4, <3>1, <3>2, <3>3
  <2>9. Dead(e)' <=> Dead(e)
    BY <1>1, <2>1 DEF Dead, Broken
  <2>10. Typed(e)'
    BY <1>0, <1>1, <2>1, <2>4, <2>8 DEF Typed
  <2>11. Begun(e)'
    <3>1. kl'[e].alg = <<FindAgreed(ClientInit(e)', ServerInit(e)')>> /\ ScriptSound(e, kl'[e].script)
      BY <2>2, <2>3, <2>6
    <3>2. kl'[e].alg # <<>> /\ hs'[e].sent # <<>>
      BY <1>0, <2>3, <2>4, <2>5 DEF Begun
    <3>3. /\ hs'[e].sent # <<>> => hs'[e].sent[1].cookie = hs'[e].inits
          /\ wr'[e].key # Plain => OwnCookie(e, wr'[e].key.h) \in Nat /\ OwnCookie(e, wr'[e].key.h) <= hs'[e].inits
          /\ wr'[e].key # Plain /\ hs'[e].sent # <<>> /\ rd'[e].pending = <<>> =>
                OwnCookie(e, wr'[e].key.h) < hs'[e].inits
      BY <1>0, <1>1, <2>1, <2>4 DEF Begun
    <3> QED
      BY <3>1, <3>2, <3>3 DEF Begun, ScriptSound
  <2>12. Sourced(e)'
    <3>1. rd'[e].pending = <<>>
      BY <1>1, <2>5
    <3>2. /\ hs'[e].sid = <<>> => wr'[e].mode = "none" /\ wr'[e].key = Plain
          /\ hs'[e].sid # <<>> =>
                /\ wr'[e].key = Key(wr'[e].key.h, OutDir(e)) /\ wr'[e].mode = Mode(wr'[e].key.h, OutDir(e))
                /\ wr'[e].mode # "none"
                /\ hs'[e].strict <=> Strict(hs'[e].sid)
      BY <1>0, <2>1, <2>4, <2>8 DEF Sourced
    <3>3. kl'[e].alg # <<>>
      BY <2>3
    <3>4. ~Dead(e)' /\ hs'[e].sid = <<>> =>
            (hs'[e].strict <=> InKex(e)' /\ kl'[e].alg # <<>> /\ Strict(View(e))')
      BY <2>4, <2>5, <2>7, <2>8, <2>9, <3>3
    <3> QED
      BY <3>1, <3>2, <3>4 DEF Sourced, Mode, Key, Strict
  <2>13. Others(e) /\ Apart(e) /\ Local(e)'
    <3>1. Others(e)
      BY <1>1, <2>1, <2>3, <2>4 DEF Others, Boxes
    <3> QED
      BY <2>9, <2>10, <2>11, <2>12, <3>1, OthersApart DEF Local
  <2>14. Written(e, wr[e], <<>>)
    BY <1>0, <2>1, WrittenNone DEF Shape
  <2>15. Sends(e, <<>>)
    BY <1>1, <2>1, <2>4, <2>5, <2>8, <2>14, Nothing DEF Sends, Calm
  <2>16. Tidy(e, <<>>)
    BY <1>1, <2>1, <2>3, <2>4, Nothing DEF Tidy, Failing
  <2> QED
    BY <2>13, <2>15, <2>16 DEF Outcome, Move
<1> QED
  BY <1>2, <1>3

-----------------------------------------------------------------------------
(* newkeys goes out, and comes in                                          *)

\* newkeys, and what the server sends with its first
LEMMA KeysPackets ==
    ASSUME NEW ps, NEW extra, ps = <<P("newkeys", 0)>> \o extra, extra = <<>> \/ extra = <<P("extinfo", 0)>>
    PROVE  WithKeys(ps)
<1> PICK p, q : p = P("newkeys", 0) /\ q = P("extinfo", 0)
  OBVIOUS
<1>1. p.t = "newkeys" /\ q.t = "extinfo"
  BY DEF P
<1>2. CASE extra = <<>>
  <2>1. ps = <<p>>
    BY <1>2
  <2>2. IsASeq(ps) /\ DOMAIN ps = {1} /\ ps[1] = p /\ ps # <<>>
    BY ONLY <2>1, ShortSeq
  <2> QED
    BY ONLY <1>1, <2>2 DEF WithKeys
<1>3. CASE extra = <<q>>
  <2>1. ps = <<p>> \o <<q>>
    BY <1>3
  <2>2. IsASeq(<<p>>) /\ IsASeq(<<q>>) /\ Len(<<p>>) = 1 /\ Len(<<q>>) = 1 /\ <<p>>[1] = p /\ <<q>>[1] = q
    BY ShortSeq
  <2>3. IsASeq(ps) /\ DOMAIN ps = 1 .. 1 + 1 /\ ps[1] = p /\ ps[1 + 1] = q
    BY ONLY <2>1, <2>2, ConcatSeq
  <2>4. (\A i \in DOMAIN ps : (i = 1 /\ ps[i] = p) \/ (i = 2 /\ ps[i] = q)) /\ 1 \in DOMAIN ps
    BY ONLY <2>3
  <2>5. ps # <<>>
    BY ONLY <2>4, ShortSeq
  <2> QED
    BY ONLY <1>1, <2>3, <2>4, <2>5 DEF WithKeys
<1> QED
  BY <1>2, <1>3

\* The hash stands for what was agreed on, and for the inits.
LEMMA ViewFacts ==
    ASSUME NEW e \in Ends, Begun(e), Settled(e)
    PROVE  /\ \A dir : Mode(View(e), dir) = kl[e].alg[1].cipher[dir]
           /\ OwnCookie(e, View(e)) = hs[e].inits /\ View(e) # <<>>
<1> PICK c, s, g, v : c = ClientInit(e) /\ s = ServerInit(e) /\ g = kl[e].group /\ v = View(e)
  OBVIOUS
<1>1. v = <<c, s, g>>
  BY DEF View, Hash, ExchangeHash
<1>2. v[1] = c /\ v[2] = s /\ v # <<>>
  BY ONLY <1>1
<1>3. kl[e].alg = <<FindAgreed(c, s)>> /\ hs[e].sent[1].cookie = hs[e].inits
  BY DEF Begun, Settled
<1>4. kl[e].alg[1] = FindAgreed(c, s)
  BY <1>3
<1>5. hs[e].sent[1] = v[IF e = "c" THEN 1 ELSE 2]
  BY <1>2 DEF ClientInit, ServerInit
<1> QED
  BY <1>2, <1>3, <1>4, <1>5 DEF Mode, OwnCookie

LEMMA SendNewKeysMoves ==
    ASSUME Inv, Boxes, Lengths, NEW e \in Ends, Local(e), SendNewKeys(e)
    PROVE  Outcome(e)
<1> PICK o : o = Peer(e)
  OBVIOUS
<1>0. o \in Ends /\ o # e /\ Peer(e) = o /\ Shape /\ Typed(e) /\ Begun(e) /\ Sourced(e) /\ Turns(e)
  BY PeerFacts DEF Inv, Local
<1>1. /\ kl[e].pc = "kex" /\ kl[e].alg # <<>> /\ kl[e].script = <<>> /\ ~kl[e].skip /\ rd[e].pending = <<>>
      /\ UNCHANGED <<scene, up, app>>
  BY DEF SendNewKeys
<1>2. CASE ~up[e] \/ \E d \in Directions : kl[e].alg[1].cipher[d] \notin KnownCiphers
  <2>1. ExchangeFails(e) /\ UNCHANGED rd
    BY <1>2 DEF SendNewKeys
  <2> QED
    BY <1>1, <2>1, ExchangeFailsMoves
<1>3. CASE ~(~up[e] \/ \E d \in Directions : kl[e].alg[1].cipher[d] \notin KnownCiphers)
  <2> PICK v, a, extra, in1, new, ps, c, x, id :
        /\ v = View(e) /\ a = kl[e].alg[1]
        /\ extra = IF e = "s" /\ hs[e].sid = <<>> /\ kl[e].req[1].ext THEN <<P("extinfo", 0)>> ELSE <<>>
        /\ in1 = NewCipher(a.cipher[OutDir(o)], OutDir(o), v)
        /\ new = NewCipher(a.cipher[OutDir(e)], OutDir(e), v)
        /\ ps = <<P("newkeys", 0)>> \o extra
        /\ c = [wr[e] EXCEPT !.pending = <<new>>] /\ x = WriteAll(c, ps, hs[e].strict)
        /\ id = IF hs[e].sid = <<>> THEN v ELSE hs[e].sid
    OBVIOUS
  <2>0. v = Hash(e, kl[e].group)
    BY DEF View
  <2>1. /\ hs' = [hs EXCEPT ![e].sid = id]
        /\ rd' = [rd EXCEPT ![e].pending = <<in1>>]
        /\ wr' = [wr EXCEPT ![e] = x.state]
        /\ wire' = IF up[o] THEN [wire EXCEPT ![o] = @ \o x.out] ELSE wire
        /\ UNCHANGED <<rl, kl>>
    BY <1>0, <1>3, <2>0, Zenon DEF SendNewKeys, Shape, HsFields
  <2>2. WithKeys(ps)
    <3>1. extra = <<>> \/ extra = <<P("extinfo", 0)>>
      OBVIOUS
    <3> QED
      BY ONLY <3>1, ps = <<P("newkeys", 0)>> \o extra, KeysPackets
  <2>3. /\ hs'[o] = hs[o] /\ hs'[e].sid = id /\ hs'[e].sent = hs[e].sent /\ hs'[e].inits = hs[e].inits
        /\ hs'[e].strict = hs[e].strict /\ hs'[e].queue = hs[e].queue
    BY <1>0, <2>1, Zenon DEF Shape, HsFields
  <2>4. /\ DOMAIN rd' = Ends /\ rd'[o] = rd[o] /\ rd'[e].pending = <<in1>> /\ Sound(rd'[e]) /\ Same(rd[e], rd'[e])
    <3>1. Sound(rd[e]) /\ DOMAIN rd = Ends
      BY <1>0 DEF Typed, Boxes
    <3>2. DOMAIN rd' = Ends /\ rd'[o] = rd[o] /\ rd'[e] = [rd[e] EXCEPT !.pending = <<in1>>]
      BY <1>0, <2>1, <3>1, Zenon
    <3> QED
      BY <3>1, <3>2 DEF Sound, CsFields, Same
  <2>5. DOMAIN wr' = Ends /\ wr'[o] = wr[o] /\ wr'[e] = x.state
    BY <1>0, <2>1, Zenon DEF Boxes
  <2>6. wire'[e] = wire[e] /\ wire'[o] = IF up[o] THEN wire[o] \o x.out ELSE wire[o]
    BY <1>0, <2>1, Zenon DEF Shape
  <2>7. InKex(e) /\ Settled(e) /\ Told(e) /\ ~Dead(e) /\ up[e]
    BY ONLY e \in Ends, <1>0, <1>1, <1>3 DEF InKex, Settled, Told, Dead, Broken, Turns
  <2>8. /\ Mode(v, OutDir(e)) = a.cipher[OutDir(e)] /\ Mode(v, OutDir(o)) = a.cipher[OutDir(o)]
        /\ OwnCookie(e, v) = hs[e].inits /\ v # <<>>
    BY ONLY e \in Ends, v = View(e), a = kl[e].alg[1], <1>0, <2>7, ViewFacts
  <2>9. a.cipher[OutDir(e)] \in Modes \ {"none"} /\ a.cipher[OutDir(o)] \in Modes
    <3>1. OutDir(e) \in Directions /\ OutDir(o) \in Directions
      BY ONLY <1>0 DEF OutDir, Directions
    <3>2. a.cipher[OutDir(e)] \in KnownCiphers /\ a.cipher[OutDir(o)] \in KnownCiphers
      BY <1>3, <3>1
    <3> QED
      BY ONLY <3>2, AlgorithmsAssumption DEF Modes
  <2>10. new.mode = a.cipher[OutDir(e)] /\ new.key = Key(v, OutDir(e))
    BY DEF NewCipher, Key
  <2>11. Sound(wr'[e]) /\ wr'[e].pending = <<>> /\ wr'[e].mode = new.mode /\ wr'[e].key = new.key
    <3> PICK w0, s, w, b : w0 = wr[e] /\ s = hs[e].strict /\ w = <<>> /\ b = 0
      OBVIOUS
    <3>0. IsASeq(w)
      BY ONLY w = <<>>, ShortSeq
    <3>1. Sound(w0) /\ new.mode \in Modes /\ IsASeq(w)
      BY <1>0, <2>9, <2>10, <3>0 DEF Typed
    <3>2. c = [w0 EXCEPT !.pending = <<new>>] /\ x = WriteAll(c, ps, s)
      OBVIOUS
    <3>3. /\ Sound(x.state) /\ x.state.pending = <<>> /\ x.state.mode = new.mode /\ x.state.key = new.key
          /\ Link(w, b, w0, s) => Link(w \o x.out, b, x.state, s)
      BY ONLY <2>2, <3>1, <3>2, KeysWrite
    <3> QED
      BY <2>5, <3>3, Zenon
  <2>12. View(e)' = v /\ InKex(e)' /\ Settled(e)' /\ Keyed(e)' /\ (Dead(e)' <=> Dead(e))
    <3>0. kl'[e] = kl[e] /\ hs'[e].sent = hs[e].sent
      BY <2>1, <2>3, Zenon
    <3>1. View(e)' = View(e)
      BY ONLY <3>0 DEF View, Hash, ClientInit, ServerInit
    <3>2. rd'[e].pending # <<>>
      BY <2>4
    <3> QED
      BY <1>1, <2>1, <2>7, <3>1, <3>2, Zenon DEF InKex, Settled, Keyed, Dead, Broken
  <2>13. Typed(e)'
    BY <1>0, <2>3, <2>4, <2>11, Zenon DEF Typed
  <2>14. Key(v, OutDir(e)) # Plain /\ Key(v, OutDir(e)).h = v
    BY ONLY <2>8 DEF Key, Plain
  <2>15. Begun(e)'
    <3>1. /\ hs'[e].sent # <<>> /\ hs'[e].sent[1].cookie = hs'[e].inits
          /\ kl'[e].alg # <<>> /\ ScriptSound(e, kl'[e].script)
      BY <1>0, <1>1, <2>1, <2>3, <2>7, Zenon DEF Begun
    <3>2. kl'[e].alg = <<FindAgreed(ClientInit(e)', ServerInit(e)')>>
      BY <1>0, <1>1, <2>1, <2>3, <2>7, Zenon DEF Begun, ClientInit, ServerInit
    <3>3. OwnCookie(e, wr'[e].key.h) \in Nat /\ OwnCookie(e, wr'[e].key.h) <= hs'[e].inits
      <4>1. wr'[e].key.h = v /\ hs[e].inits \in Nat
        BY ONLY <1>0, <2>10, <2>11, <2>14 DEF Typed
      <4> QED
        BY ONLY <2>3, <2>8, <4>1
    <3>4. rd'[e].pending # <<>>
      BY <2>4
    <3> QED
      BY <3>1, <3>2, <3>3, <3>4 DEF Begun, ScriptSound
  <2>16. id # <<>> /\ (hs[e].strict <=> Strict(id))
    BY ONLY id = IF hs[e].sid = <<>> THEN v ELSE hs[e].sid, v = View(e), <1>0, <1>1, <2>7, <2>8 DEF Sourced
  <2>17. Sourced(e)'
    <3>1. /\ rd'[e].pending = <<NewCipher(Mode(View(e)', OutDir(o)), OutDir(o), View(e)')>>
          /\ Mode(View(e)', OutDir(o)) \in Modes /\ wr'[e].key = Key(View(e)', OutDir(e)) /\ ~kl'[e].skip
      BY <1>1, <2>1, <2>4, <2>8, <2>9, <2>10, <2>11, <2>12, Zenon
    <3>2. hs'[e].sid # <<>> /\ (hs'[e].strict <=> Strict(hs'[e].sid))
      BY <2>3, <2>16
    <3>3. /\ wr'[e].key = Key(wr'[e].key.h, OutDir(e)) /\ wr'[e].mode = Mode(wr'[e].key.h, OutDir(e))
          /\ wr'[e].mode # "none"
      BY <2>8, <2>9, <2>10, <2>11, <2>14, Zenon
    <3> QED
      BY <1>0, <2>12, <3>1, <3>2, <3>3 DEF Sourced, Mode, Key, Strict
  <2>18. Others(e) /\ Apart(e) /\ Local(e)'
    <3>1. Others(e)
      BY <1>0, <1>1, <2>1, <2>3, <2>4, <2>5, Zenon DEF Others, Boxes
    <3> QED
      BY <2>12, <2>13, <2>15, <2>17, <3>1, OthersApart DEF Local
  <2>19. Written(e, c, ps)
    <3>1. IsASeq(ps)
      BY <2>2 DEF WithKeys
    <3> QED
      BY <1>0, <2>5, <2>6, <3>1 DEF Written
  <2>20. Keys(e, new, ps)
    <3>1. rl'[e].pc # "start"
      BY <1>0, <1>1, <2>1, Zenon DEF Turns
    <3>2. Written(e, [wr[e] EXCEPT !.pending = <<new>>], ps)
      BY <2>19
    <3> QED
      BY <1>1, <2>2, <2>3, <2>4, <2>6, <2>7, <2>9, <2>10, <2>12, <3>1, <3>2, Zenon DEF Keys
  <2>21. Failing(e) => Failing(e)'
    BY <2>1, Zenon DEF Failing
  <2> QED
    BY <2>18, <2>20, <2>21 DEF Outcome, Move
<1> QED
  BY <1>2, <1>3

LEMMA TakeNewKeysMoves ==
    ASSUME Inv, Boxes, Lengths, NEW e \in Ends, Local(e), TakeNewKeys(e)
    PROVE  Outcome(e)
<1> PICK o : o = Peer(e)
  OBVIOUS
<1>0. o \in Ends /\ o # e /\ Peer(e) = o /\ Shape /\ Typed(e) /\ Begun(e) /\ Sourced(e) /\ Turns(e) /\ QueueTyped(hs[e].queue)
  BY PeerFacts, LocalQueue DEF Inv, Local
<1>1. /\ kl[e].pc = "kex" /\ kl[e].alg # <<>> /\ kl[e].script = <<>> /\ rd[e].pending # <<>>
      /\ UNCHANGED <<scene, up, app>>
  BY DEF TakeNewKeys, KexReads
<1>2. CASE Failed(e) \/ Incoming(e).t # "newkeys"
  <2>1. ExchangeFails(e) /\ UNCHANGED rd
    BY <1>2 DEF TakeNewKeys
  <2> QED
    BY <1>1, <2>1, ExchangeFailsMoves
<1>3. CASE ~Failed(e) /\ Incoming(e).t = "newkeys"
  <2> PICK h, h1, k, ps, x, d, p, s :
        /\ h = Flush(e, TRUE) /\ h1 = [h EXCEPT !.kexDone = TRUE] /\ k = AfterExchange(e, h)
        /\ ps = hs[e].queue /\ s = hs[e].strict /\ x = WriteAll(wr[e], ps, s)
        /\ d = (IF hs[e].kexDone THEN "again" ELSE "first") /\ p = Incoming(e)
    OBVIOUS
  <2>1. up[e] /\ wire[e] # <<>> /\ p = wire[e][1] /\ p.t = "newkeys"
    <3>1. up[e] /\ wire[e] # <<>> /\ IsASeq(wire[e])
      BY <1>0, <1>3 DEF Failed, Shape
    <3> QED
      BY <1>3, <3>1, TailSeq DEF Incoming
  <2>2. /\ rd' = [rd EXCEPT ![e] = Advance(@, p, s)]
        /\ hs' = [hs EXCEPT ![e] = h1] /\ rl' = [rl EXCEPT ![e].done = d] /\ kl' = [kl EXCEPT ![e] = k]
        /\ wr' = IF up[e] THEN [wr EXCEPT ![e] = x.state] ELSE wr
        /\ wire' = [f \in Ends |-> IF f = e THEN Tail(wire[e])
                                   ELSE IF up[e] /\ up[f] THEN wire[f] \o x.out ELSE wire[f]]
    BY <1>3 DEF TakeNewKeys
  <2>3. /\ DOMAIN rd' = Ends /\ rd'[o] = rd[o] /\ rd'[e] = Advance(rd[e], p, s)
        /\ DOMAIN wr' = Ends /\ wr'[o] = wr[o] /\ wr'[e] = x.state
    BY <1>0, <2>1, <2>2 DEF Boxes
  <2>4. /\ wire'[e] = Tail(wire[e]) /\ wire'[o] = IF up[o] THEN wire[o] \o x.out ELSE wire[o]
    BY <1>0, <2>1, <2>2
  <2>5. /\ hs'[e] = h1 /\ hs'[o] = hs[o] /\ kl'[e] = k /\ kl'[o] = kl[o]
        /\ rl'[o] = rl[o] /\ rl'[e].pc = rl[e].pc /\ rl'[e].done = d
    BY <1>0, <2>2 DEF Shape, RlFields
  <2>6. /\ h1.sent = <<>> /\ h1.queue = <<>>
        /\ h1.inits = hs[e].inits /\ h1.sid = hs[e].sid /\ h1.strict = hs[e].strict
        /\ k.pc \in {"close", "select"} /\ ~k.sent
    <3>1. /\ DOMAIN h = HsFields /\ h.sent = <<>> /\ h.queue = <<>>
          /\ h.inits = hs[e].inits /\ h.sid = hs[e].sid /\ h.strict = hs[e].strict
      BY ONLY <1>0, e \in Ends, h = Flush(e, TRUE), FlushFacts, Zenon
    <3>2. k.pc \in {"close", "select"} /\ ~k.sent
      BY ONLY <1>0, e \in Ends, k = AfterExchange(e, h), AfterFacts
    <3>3. /\ h1.sent = h.sent /\ h1.queue = h.queue /\ h1.inits = h.inits /\ h1.sid = h.sid /\ h1.strict = h.strict
      BY ONLY <3>1, h1 = [h EXCEPT !.kexDone = TRUE] DEF HsFields
    <3> QED
      BY ONLY <3>1, <3>2, <3>3
  <2>7. InKex(e) /\ Settled(e) /\ Keyed(e) /\ ~Broken(e) /\ ~Dead(e) /\ ~InKex(e)' /\ rl[e].pc = "wait"
    BY <1>0, <1>1, <2>1, <2>5, <2>6 DEF InKex, Settled, Keyed, Dead, Broken, Turns
  <2>8. hs[e].sid # <<>> /\ Sound(rd'[e]) /\ rd'[e].pending = <<>>
    <3> PICK new, c, mode : /\ mode = Mode(View(e), OutDir(o)) /\ new = NewCipher(mode, OutDir(o), View(e)) /\ c = rd[e]
      OBVIOUS
    <3>1. hs[e].sid # <<>> /\ c.pending = <<new>> /\ mode \in Modes /\ Sound(c)
      BY <1>0, <1>1, <2>7 DEF Sourced, Typed
    <3>2. new.mode \in Modes
      BY <3>1 DEF NewCipher
    <3>3. Sound(Advance(c, p, s)) /\ Advance(c, p, s).pending = <<>>
      BY ONLY <2>1, <3>1, <3>2, AdvanceKeys
    <3> QED
      BY <2>3, <3>1, <3>3
  <2>9. Written(e, wr[e], ps)
    <3>1. IsASeq(ps)
      BY <1>0 DEF Shape
    <3> QED
      BY <1>0, <2>3, <2>4, <3>1 DEF Written
  <2>10. /\ Without(ps, "newkeys") /\ Without(ps, "init")
         /\ \A i \in DOMAIN ps : ps[i].t \notin {"newkeys", "init", "kex"}
    BY <1>0, QueuePlain
  <2>11. Sound(wr'[e]) /\ wr'[e].pending = <<>> /\ wr'[e].mode = wr[e].mode /\ wr'[e].key = wr[e].key
    BY <1>0, <2>9, <2>10, WrittenPlain
  <2>12. Local(e)'
    BY <2>5, <2>6, <2>8, <2>11, EndedLocal
  <2>13. Others(e)
    BY <1>0, <1>1, <2>3, <2>5 DEF Others, Boxes
  <2>14. Apart(e)
    BY <2>7, <2>13, OthersApart
  <2>15. Takes(e, ps)
    BY <1>0, <1>1, <2>1, <2>3, <2>4, <2>5, <2>6, <2>7, <2>9, <2>10 DEF Takes
  <2>16. Tidy(e, ps)
    <3>1. ~Failing(e)
      BY <1>0, <1>1 DEF Failing, Turns
    <3> QED
      BY <1>1, <2>10, <3>1 DEF Tidy
  <2> QED
    BY <2>12, <2>13, <2>14, <2>15, <2>16 DEF Outcome, Move
<1> QED
  BY <1>2, <1>3

-----------------------------------------------------------------------------
(* Every step of an end is a move, and the peer's state stays sound        *)

LEMMA EveryMove ==
    ASSUME Inv, Waiting, Boxes, Lengths, NEW e \in Ends, Local(e),
           \/ Library(e)
           \/ AppReads(e) \/ AppCloses(e) \/ CloseReturns(e) \/ WritePacket(e) \/ WriteResumes(e)
    PROVE  Outcome(e)
<1>1. CASE ReadPacket(e) \/ KexIgnores(e)
  BY <1>1, ReadPacketMoves, KexIgnoresMoves
<1>2. CASE PushIncoming(e) \/ ExchangeSeen(e) \/ ReadLoopEnds(e) \/ DrainStart(e)
  BY <1>2, ReadLoopSteps
<1>3. CASE SelectRequest(e) \/ SelectStart(e)
  BY <1>3, SelectMoves
<1>4. CASE SelectClosed(e) \/ KexLoopDone(e)
  BY <1>4, KexLoopSteps
<1>5. CASE Negotiate(e) \/ SkipGuess(e) \/ KexSends(e) \/ KexReceives(e)
  BY <1>5, NegotiateMoves, SkipGuessMoves, KexSendsMoves, KexReceivesMoves
<1>6. CASE SendNewKeys(e) \/ TakeNewKeys(e)
  BY <1>6, SendNewKeysMoves, TakeNewKeysMoves
<1>7. CASE CloseConn(e) \/ AppCloses(e)
  BY <1>7, ShutsMoves
<1>8. CASE AppReads(e) \/ CloseReturns(e)
  <2>1. UNCHANGED <<scene, wire, up, rd, wr, hs, rl, kl>>
    BY <1>8 DEF AppReads, CloseReturns
  <2> QED
    BY <2>1, AppSteps
<1>9. CASE WritePacket(e) \/ WriteResumes(e)
  BY <1>9, WritePacketMoves, WriteResumesMoves
<1> QED
  BY <1>1, <1>2, <1>3, <1>4, <1>5, <1>6, <1>7, <1>8, <1>9 DEF Library

LEMMA InvLengths == ASSUME Inv, Inv' PROVE Lengths
  BY DEF Inv, Shape, Lengths

LEMMA KeysInvNext == ASSUME KeysInv, [Next]_vars PROVE KeysInv'
<1>0. Inv /\ Waiting /\ Boxes /\ (\A f \in Ends : Local(f) /\ Wired(f)) /\ Stepped
  BY DEF KeysInv
<1>1. Inv' /\ Waiting'
  BY <1>0, NextInv, WaitingKept
<1>2. Lengths
  BY <1>0, <1>1, InvLengths
<1>3. \E e \in Ends : Outcome(e)
  <2>1. CASE Next
    <3>1. PICK e \in Ends :
            \/ Library(e)
            \/ AppReads(e) \/ AppCloses(e) \/ CloseReturns(e) \/ WritePacket(e) \/ WriteResumes(e)
      BY <2>1 DEF Next
    <3>2. Outcome(e)
      BY <1>0, <1>2, <3>1, EveryMove
    <3> QED
      BY <3>2
  <2>2. CASE UNCHANGED vars
    <3>1. "c" \in Ends
      BY DEF Ends
    <3>2. UNCHANGED <<scene, wire, up, rd, wr, hs, rl, kl>>
      BY <2>2 DEF vars
    <3>3. Outcome("c")
      BY <1>0, <3>1, <3>2, AppSteps
    <3> QED
      BY <3>1, <3>3
  <2> QED
    BY <2>1, <2>2
<1>4. PICK e \in Ends : Outcome(e)
  BY <1>3
<1>5. Others(e) /\ Apart(e) /\ Move(e) /\ Local(e)'
  BY <1>4 DEF Outcome
<1>6. \A f \in Ends : Wired(f)'
  BY <1>0, <1>2, <1>5, MoveWired
<1>7. Stepped'
  BY <1>0, <1>2, <1>5, MoveStepped
<1>8. \A f \in Ends : Local(f)'
  <2>1. Peer(e) \in Ends /\ \A f \in Ends : f = e \/ f = Peer(e)
    BY PeerFacts
  <2>2. Local(Peer(e))'
    BY <1>0, <1>5, <2>1, PeerLocal
  <2> QED
    BY <1>5, <2>1, <2>2
<1>9. Boxes'
  BY <1>5 DEF Others
<1> QED
  BY <1>1, <1>6, <1>7, <1>8, <1>9 DEF KeysInv

LEMMA KeysInvInit == ASSUME Init PROVE KeysInv
<1>0. Inv /\ Waiting
  BY InitInv
<1> PICK c : c = FreshState
  OBVIOUS
<1>1. Sound(c) /\ Same(c, c) /\ c.pending = <<>> /\ c.mode = "none" /\ c.key = Plain
  BY DEF FreshState, Sound, CsFields, Modes, Same
<1>2. /\ DOMAIN rd = Ends /\ DOMAIN wr = Ends
      /\ \A e \in Ends : wire[e] = <<>> /\ up[e] /\ rd[e] = c /\ wr[e] = c
  BY DEF Init
<1>3. \A e \in Ends : /\ hs[e].sent = <<>> /\ hs[e].inits = 0 /\ hs[e].queue = <<>> /\ hs[e].sid = <<>>
                      /\ hs[e].strict = FALSE
  BY DEF Init
<1>4. \A e \in Ends : kl[e].pc = "select" /\ ~kl[e].sent
  BY DEF Init
<1>5. Boxes
  BY <1>2 DEF Boxes
<1>6. DOMAIN <<>> = {}
  BY ShortSeq
<1>7. ASSUME NEW e \in Ends PROVE Local(e)
  <2>1. ~InKex(e)
    BY <1>4 DEF InKex
  <2>2. Typed(e)
    <3>1. hs[e].strict \in BOOLEAN
      BY <1>3, Zenon
    <3>2. Sound(rd[e]) /\ Sound(wr[e]) /\ wr[e].pending = <<>>
      BY <1>1, <1>2
    <3>3. hs[e].inits \in Nat
      BY <1>3
    <3>4. \A i \in DOMAIN hs[e].queue : hs[e].queue[i].t \in {"data", "ignore", "disconnect"}
      BY <1>3, <1>6
    <3> QED
      BY ONLY <3>1, <3>2, <3>3, <3>4 DEF Typed
  <2>3. Begun(e)
    BY <1>1, <1>2, <1>3, <1>4, <2>1 DEF Begun
  <2>4. Sourced(e)
    BY <1>1, <1>2, <1>3, <2>1 DEF Sourced
  <2> QED
    BY <2>2, <2>3, <2>4 DEF Local
<1>8. ASSUME NEW e \in Ends PROVE Wired(e) /\ Linked(e) /\ Once(e)
  <2>1. Peer(e) \in Ends
    BY PeerFacts
  <2>2. Link(<<>>, c, c, FALSE)
    BY <1>1, LinkEmpty
  <2>3. Without(<<>>, "newkeys")
    BY Nothing
  <2>4. Wired(e)
    <3>1. wire[Peer(e)] = <<>>
      BY <1>2, <2>1
    <3>2. \A n : AloneIn(<<>>, n) /\ ~Open(<<>>)
      BY <1>6 DEF AloneIn, Open
    <3>3. \A x : FreshTags(e, x, <<>>)
      BY <1>6 DEF FreshTags
    <3> QED
      BY <3>1, <3>2, <3>3 DEF Wired, Alone
  <2>5. Linked(e)
    BY <1>2, <1>3, <2>1, <2>2, <2>3 DEF Linked
  <2>6. Once(e)
    BY <1>2, <1>6, <2>3 DEF Once
  <2> QED
    BY <2>4, <2>5, <2>6
<1>9. Agreement
  <2>1. "c" \in Ends /\ "s" \in Ends
    BY DEF Ends
  <2>2. Without(<<>>, "newkeys") /\ ~Settled("c")
    BY <1>4, <2>1, Nothing DEF Settled, InKex
  <2> QED
    BY <1>2, <1>6, <2>1, <2>2 DEF Agreement
<1>10. SameSession
  <2>1. "c" \in Ends /\ \A e \in Ends : Peer(e) \in Ends
    BY PeerFacts DEF Ends
  <2> QED
    BY <1>3, <2>1 DEF SameSession
<1> QED
  BY <1>0, <1>5, <1>7, <1>8, <1>9, <1>10 DEF KeysInv, Stepped

LEMMA KeysInvInStep == ASSUME KeysInv PROVE KeysInStep
<1> SUFFICES ASSUME NEW e \in Ends
             PROVE  LET w == wire[e] IN
                    /\ w # <<>> => Opens(rd[e], w[1].tag)
                    /\ \A i, j \in DOMAIN w : i < j => w[i].tag # w[j].tag \/ w[i].tag.key = Plain
                    /\ \A i, j \in DOMAIN w :
                        i < j /\ w[i].t = "init" /\ ~Failing(Peer(e)) /\ (\A k \in i .. j : w[k].t # "newkeys")
                            => w[j].t = "kex" \/ (scene[Peer(e)].noise /\ w[j].t = "ignore")
  BY DEF KeysInStep
<1> PICK w, o, c, d, s : w = wire[e] /\ o = Peer(e) /\ c = rd[e] /\ d = wr[o] /\ s = hs[o].strict
  OBVIOUS
<1>1. o \in Ends /\ Peer(o) = e /\ Peer(e) = o
  BY PeerFacts
<1>2. Linked(e) /\ Wired(o) /\ Typed(e) /\ IsASeq(w)
  BY <1>1 DEF KeysInv, Stepped, Local, Inv, Shape
<1>3. w # <<>> => Opens(c, w[1].tag)
  <2> SUFFICES ASSUME w # <<>> PROVE Opens(c, w[1].tag)
    OBVIOUS
  <2>1. Link(w, c, d, s) /\ Sound(c)
    BY <1>1, <1>2 DEF Linked, Typed
  <2> QED
    BY ONLY <1>2, <2>1, w # <<>>, LinkOpens
<1>4. \A i, j \in DOMAIN w : i < j => w[i].tag # w[j].tag \/ w[i].tag.key = Plain
  BY <1>1, <1>2 DEF Wired, FreshTags
<1>5. ~Failing(o) => AloneIn(w, scene[o].noise)
  BY <1>1, <1>2 DEF Wired, Alone
<1> QED
  BY <1>1, <1>3, <1>4, <1>5 DEF AloneIn

\* connectionState, enterKeyExchange, kexLoop: the two directions change keys
\* and sequence numbers in step.  What is on the way can be read by the end that
\* it comes to, no two packets are bound to one position of a key, and from its
\* init to its newkeys an end sends nothing else: for every scenario, channel
\* capacity, queue length and rekey threshold, and whichever side asks for an
\* exchange.
THEOREM KeysInStepCorrect == Spec => []KeysInStep
<1>1. Init => KeysInv
  BY KeysInvInit
<1>2. KeysInv /\ [Next]_vars => KeysInv'
  BY KeysInvNext
<1>3. KeysInv => KeysInStep
  BY KeysInvInStep
<1> QED
  BY <1>1, <1>2, <1>3, PTL DEF Spec

-----------------------------------------------------------------------------
(* No exchange without a cause                                             *)

Numbers == \A f \in Ends : hs[f].inits \in Nat /\ app[f].wrote \in Nat

\* ps are behind the k packets that were on the way to f: l, or none if f has closed.
Extends(f, ps, k, l) ==
    /\ k \in Nat /\ l \in Nat /\ l = (IF up[f] THEN Len(ps) ELSE 0)
    /\ DOMAIN wire[f] = 1 .. k /\ Len(wire[f]) = k
    /\ DOMAIN wire'[f] = 1 .. k + l /\ Len(wire'[f]) = k + l
    /\ \A i \in 1 .. k : wire'[f][i] = wire[f][i]
    /\ \A i \in 1 .. l : i \in DOMAIN ps /\ wire'[f][k + i].t = ps[i].t /\ wire'[f][k + i].body = ps[i].body

LEMMA AppendedExtends ==
    ASSUME NEW f, IsASeq(wire[f]), NEW ps, IsASeq(ps), Appended(f, ps)
    PROVE  \E k, l : Extends(f, ps, k, l)
<1>1. PICK out : Copy(out, ps) /\ wire'[f] = IF up[f] THEN wire[f] \o out ELSE wire[f]
  BY DEF Appended
<1> PICK w, v, k, m : w = wire[f] /\ v = wire'[f] /\ k = Len(w) /\ m = Len(ps)
  OBVIOUS
<1>2. IsASeq(out) /\ DOMAIN out = DOMAIN ps
  BY <1>1 DEF Copy
<1>3. /\ k \in Nat /\ m \in Nat /\ DOMAIN w = 1 .. k /\ DOMAIN ps = 1 .. m /\ Len(out) \in Nat /\ DOMAIN out = 1 .. Len(out)
      /\ Len(w \o out) = k + Len(out) /\ DOMAIN (w \o out) = 1 .. k + Len(out)
      /\ \A i \in 1 .. k : (w \o out)[i] = w[i]
      /\ \A i \in 1 .. Len(out) : (w \o out)[k + i] = out[i]
  BY ONLY <1>2, IsASeq(wire[f]), IsASeq(ps), w = wire[f], k = Len(w), m = Len(ps), ConcatSeq
<1>4. Len(out) = m
  BY ONLY <1>2, <1>3
<1>5. CASE up[f]
  <2>1. v = w \o out
    BY <1>1, <1>5
  <2>2. \A i \in 1 .. m : i \in DOMAIN ps /\ v[k + i].t = ps[i].t /\ v[k + i].body = ps[i].body
    <3>1. \A i \in DOMAIN ps : out[i].t = ps[i].t /\ out[i].body = ps[i].body
      BY <1>1 DEF Copy
    <3> QED
      BY ONLY <1>3, <1>4, <2>1, <3>1
  <2>3. DOMAIN v = 1 .. k + m /\ Len(v) = k + m /\ \A i \in 1 .. k : v[i] = w[i]
    BY ONLY <1>3, <1>4, <2>1
  <2>4. Extends(f, ps, k, m)
    BY <1>3, <1>5, <2>2, <2>3 DEF Extends
  <2> QED
    BY <2>4
<1>6. CASE ~up[f]
  <2>1. v = w /\ k + 0 = k
    BY <1>1, <1>3, <1>6
  <2>2. Extends(f, ps, k, 0)
    BY <1>3, <1>6, <2>1 DEF Extends
  <2> QED
    BY <2>2
<1> QED
  BY <1>5, <1>6

LEMMA UntouchedExtends ==
    ASSUME NEW f, IsASeq(wire[f]), wire'[f] = wire[f]
    PROVE  \E k, l : Extends(f, <<>>, k, l)
<1> PICK w, k : w = wire[f] /\ k = Len(w)
  OBVIOUS
<1>1. k \in Nat /\ DOMAIN w = 1 .. k
  BY ConcatSeq
<1>2. k + 0 = k /\ Len(<<>>) = 0 /\ 0 \in Nat
  BY <1>1
<1>3. Extends(f, <<>>, k, 0)
  BY <1>1, <1>2 DEF Extends
<1> QED
  BY <1>3

\* What a step of e leaves alone, and what never goes down.
Onward(e) ==
    LET o == Peer(e) IN
    /\ hs'[o] = hs[o] /\ rl'[o] = rl[o] /\ kl'[o] = kl[o] /\ up'[o] = up[o] /\ rd'[o] = rd[o]
    /\ hs'[e].inits \in Nat /\ hs[e].inits <= hs'[e].inits
    /\ Total' \in Nat /\ Total <= Total'

LEMMA PeerRests ==
    ASSUME NEW e \in Ends, Onward(e), NEW o, o = Peer(e)
    PROVE  /\ Idle(o)' = Idle(o) /\ Due(o)' = Due(o) /\ Midway(o)' = Midway(o) /\ Dead(o)' = Dead(o)
<1>1. hs'[o] = hs[o] /\ rl'[o] = rl[o] /\ kl'[o] = kl[o] /\ up'[o] = up[o]
  BY DEF Onward
<1>2. Idle(o)' = Idle(o) /\ Midway(o)' = Midway(o)
  BY <1>1 DEF Idle, Midway, InKex
<1>3. Dead(o)' = Dead(o)
  BY <1>1 DEF Dead, Broken
<1>4. Due(o)' = Due(o)
  BY <1>1 DEF Due, Idle, InKex
<1> QED
  BY <1>2, <1>3, <1>4, Zenon

LEMMA PeerAhead ==
    ASSUME Numbers, NEW e \in Ends, Onward(e), Ahead(Peer(e))
    PROVE  Ahead(Peer(e))'
<1> PICK o : o = Peer(e)
  OBVIOUS
<1>1. o \in Ends /\ Peer(o) = e
  BY PeerFacts
<1>2. hs'[o] = hs[o] /\ kl'[o] = kl[o] /\ hs[e].inits <= hs'[e].inits
      /\ hs[o].inits \in Nat /\ hs[e].inits \in Nat /\ hs'[e].inits \in Nat
  BY <1>1 DEF Onward, Numbers
<1>3. hs[o].inits <= hs[e].inits + 1 /\ (Idle(o) => hs[o].inits <= hs[e].inits)
  BY <1>1 DEF Ahead
<1> QED
  BY <1>1, <1>2, <1>3 DEF Ahead, Idle, InKex

\* The inits among ps: one at most, in front, and a new one.
NewInits(e, ps) ==
    /\ hs'[e].inits = hs[e].inits \/ hs'[e].inits = hs[e].inits + 1
    /\ \A i \in DOMAIN ps : ps[i].t = "init" =>
        i = 1 /\ ps[i].body[1].cookie = hs[e].inits + 1 /\ hs'[e].inits = hs[e].inits + 1

LEMMA PeerInits ==
    ASSUME Numbers, NEW e \in Ends, Onward(e), Ahead(Peer(e)), InitsDue(Peer(e)),
           NEW ps, NEW k, NEW l, Extends(Peer(e), ps, k, l), NewInits(e, ps)
    PROVE  InitsDue(Peer(e))'
<1> PICK o, w, v, a, b, c, d : o = Peer(e) /\ w = wire[o] /\ v = wire'[o] /\ a = Due(o) /\ b = hs[e].inits /\ c = hs'[e].inits
                                 /\ d = rl[o].pkt[1].body[1].cookie
  OBVIOUS
<1>1. o \in Ends /\ Peer(o) = e /\ Due(o)' = a /\ rl'[o] = rl[o] /\ b <= c /\ b \in Nat /\ c \in Nat
  <2>1. o \in Ends /\ Peer(o) = e /\ Due(o)' = a
    BY PeerFacts, PeerRests, Zenon
  <2> QED
    BY <2>1 DEF Onward, Numbers
<1>2. a \in Nat /\ a <= b + 1
  <2>1. hs[o].inits \in Nat /\ hs[o].inits <= b + 1 /\ (Idle(o) => hs[o].inits <= b)
    BY <1>1 DEF Ahead, Numbers
  <2> QED
    BY <1>1, <2>1 DEF Due
<1>3. /\ \A i \in DOMAIN w : w[i].t = "init" =>
            w[i].body[1].cookie \in Nat /\ a <= w[i].body[1].cookie /\ w[i].body[1].cookie <= b
      /\ \A i, j \in DOMAIN w : i < j /\ w[i].t = "init" /\ w[j].t = "init"
            => w[i].body[1].cookie < w[j].body[1].cookie
      /\ rl[o].pc = "start" =>
        /\ d \in Nat /\ a <= d /\ d <= b
        /\ \A i \in DOMAIN w : w[i].t = "init" => d < w[i].body[1].cookie
  BY <1>1 DEF InitsDue, CookieIn
<1>4. /\ k \in Nat /\ l \in Nat /\ DOMAIN w = 1 .. k /\ DOMAIN v = 1 .. k + l
      /\ \A i \in 1 .. k : v[i] = w[i]
      /\ \A i \in 1 .. l : i \in DOMAIN ps /\ v[k + i].t = ps[i].t /\ v[k + i].body = ps[i].body
  BY DEF Extends
<1>5. \A i \in DOMAIN ps : ps[i].t = "init" => i = 1 /\ ps[i].body[1].cookie = b + 1 /\ c = b + 1
  BY DEF NewInits
<1>6. ASSUME NEW i \in DOMAIN v, v[i].t = "init"
      PROVE  \/ i \in DOMAIN w /\ v[i] = w[i]
             \/ i = k + 1 /\ v[i].body[1].cookie = b + 1 /\ c = b + 1
  <2>1. CASE i \in 1 .. k
    BY ONLY <1>4, <2>1
  <2>2. CASE i - k \in 1 .. l
    <3> PICK m : m = i - k
      OBVIOUS
    <3>1. m \in DOMAIN ps /\ v[i].t = ps[m].t /\ v[i].body = ps[m].body /\ i = k + m
      BY ONLY <1>4, <2>2, m = i - k, i \in DOMAIN v
    <3> QED
      BY ONLY <1>5, <1>6, <3>1
  <2> QED
    BY ONLY <1>4, <2>1, <2>2, i \in DOMAIN v
<1>7. ASSUME NEW i \in DOMAIN v, v[i].t = "init"
      PROVE  v[i].body[1].cookie \in Nat /\ a <= v[i].body[1].cookie /\ v[i].body[1].cookie <= c
  BY ONLY <1>1, <1>2, <1>3, <1>6, <1>7
<1>8. ASSUME NEW i \in DOMAIN v, NEW j \in DOMAIN v, i < j, v[i].t = "init", v[j].t = "init"
      PROVE  v[i].body[1].cookie < v[j].body[1].cookie
  <2>1. CASE i \in DOMAIN w /\ v[i] = w[i] /\ j \in DOMAIN w /\ v[j] = w[j]
    BY ONLY <1>3, <1>8, <2>1
  <2>2. CASE i \in DOMAIN w /\ v[i] = w[i] /\ v[j].body[1].cookie = b + 1
    BY ONLY <1>1, <1>2, <1>3, <1>8, <2>2
  <2>3. ~(i = k + 1)
    BY ONLY <1>4, <1>6, <1>8, i \in DOMAIN v, j \in DOMAIN v
  <2> QED
    BY ONLY <1>6, <1>8, <2>1, <2>2, <2>3, i \in DOMAIN v, j \in DOMAIN v
<1>9. ASSUME rl[o].pc = "start", NEW i \in DOMAIN v, v[i].t = "init" PROVE d < v[i].body[1].cookie
  BY ONLY <1>1, <1>2, <1>3, <1>6, <1>9
<1>10. rl[o].pc = "start" => d \in Nat /\ a <= d /\ d <= c
  BY ONLY <1>1, <1>2, <1>3
<1> QED
  BY <1>1, <1>7, <1>8, <1>9, <1>10 DEF InitsDue, CookieIn

\* What e may write: an init and the message guessed with it, messages of a
\* method, newkeys and the ext-info, or packets of the application.
Batch(e, ps) ==
    /\ NewInits(e, ps)
    /\ \A i \in DOMAIN ps :
        /\ ps[i].t \in PacketTypes
        /\ ps[i].t = "kex" => \/ ps[1].t = "init" /\ i > 1 /\ Without(ps, "newkeys")
                              \/ hs[e].sent # <<>> /\ rd[e].pending = <<>> /\ Without(ps, "newkeys")
        /\ ps[i].t = "extinfo" => i = 2 /\ ps[1].t = "newkeys"
        /\ ps[i].t = "newkeys" => InKex(e) /\ hs[e].sent # <<>> /\ rd[e].pending = <<>>
        /\ ps[i].t = "data" => Without(ps, "newkeys") /\ (Total < Total' \/ (hs[e].queue # <<>> /\ InKex(e)))

LEMMA PeerMethods ==
    ASSUME NEW e \in Ends, Onward(e), MethodsFramed(Peer(e)), InitSeen(e),
           NEW ps, NEW k, NEW l, Extends(Peer(e), ps, k, l), Batch(e, ps)
    PROVE  MethodsFramed(Peer(e))'
<1> PICK o, w, v : o = Peer(e) /\ w = wire[o] /\ v = wire'[o]
  OBVIOUS
<1>1. Midway(o)' = Midway(o) /\ Dead(o)' = Dead(o)
  BY PeerRests
<1>2. /\ k \in Nat /\ l \in Nat /\ DOMAIN w = 1 .. k /\ DOMAIN v = 1 .. k + l /\ Len(w) = k
      /\ \A i \in 1 .. k : v[i] = w[i]
      /\ \A i \in 1 .. l : i \in DOMAIN ps /\ v[k + i].t = ps[i].t
  BY DEF Extends
<1>3. SUFFICES ASSUME NEW i \in DOMAIN v
               PROVE  /\ v[i].t \in PacketTypes
                      /\ v[i].t = "kex" /\ ~Dead(o) => Framed(v, i) \/ (Midway(o) /\ \A j \in 1 .. i : v[j].t # "newkeys")
  BY <1>1 DEF MethodsFramed
<1>4. CASE i \in 1 .. k
  <2>1. w[i].t \in PacketTypes /\ v[i] = w[i]
    BY <1>2, <1>4 DEF MethodsFramed
  <2> SUFFICES ASSUME w[i].t = "kex", ~Dead(o)
               PROVE  Framed(v, i) \/ (Midway(o) /\ \A j \in 1 .. i : v[j].t # "newkeys")
    BY <2>1
  <2>2. Framed(w, i) \/ (Midway(o) /\ \A j \in 1 .. i : w[j].t # "newkeys")
    BY <1>2, <1>4 DEF MethodsFramed
  <2>3. CASE Framed(w, i)
    <3>1. PICK j \in DOMAIN w : j < i /\ w[j].t = "init" /\ \A q \in j .. i : w[q].t # "newkeys"
      BY <2>3 DEF Framed
    <3>2. j \in DOMAIN v /\ v[j].t = "init" /\ \A q \in j .. i : v[q].t # "newkeys"
      BY ONLY <1>2, <1>4, <3>1
    <3> QED
      BY <3>1, <3>2 DEF Framed
  <2>4. CASE Midway(o) /\ \A j \in 1 .. i : w[j].t # "newkeys"
    <3>1. \A j \in 1 .. i : v[j].t # "newkeys"
      BY ONLY <1>2, <1>4, <2>4
    <3> QED
      BY <2>4, <3>1
  <2> QED
    BY <2>2, <2>3, <2>4
<1>5. CASE i - k \in 1 .. l
  <2> PICK m : m = i - k
    OBVIOUS
  <2>1. m \in 1 .. l /\ i = k + m /\ m \in DOMAIN ps /\ v[i].t = ps[m].t /\ 1 \in 1 .. l /\ 1 <= m
    BY ONLY <1>2, <1>3, <1>5, m = i - k
  <2>2. v[i].t \in PacketTypes
    BY <2>1 DEF Batch
  <2> SUFFICES ASSUME v[i].t = "kex", ~Dead(o)
               PROVE  Framed(v, i) \/ (Midway(o) /\ \A j \in 1 .. i : v[j].t # "newkeys")
    BY <2>2
  <2>3. /\ \A j \in DOMAIN ps : ps[j].t # "newkeys"
        /\ (ps[1].t = "init" /\ m > 1) \/ (hs[e].sent # <<>> /\ rd[e].pending = <<>>)
    BY <2>1 DEF Batch, Without
  <2>4. \A q \in k + 1 .. i : q \in DOMAIN v /\ v[q].t # "newkeys"
    <3> SUFFICES ASSUME NEW q \in k + 1 .. i PROVE q \in DOMAIN v /\ v[q].t # "newkeys"
      OBVIOUS
    <3>1. q - k \in 1 .. l /\ q = k + (q - k)
      BY ONLY <1>2, <2>1
    <3>2. v[k + (q - k)].t = ps[q - k].t /\ q - k \in DOMAIN ps
      BY ONLY <1>2, <3>1
    <3> QED
      BY ONLY <1>2, <2>3, <3>1, <3>2
  <2>5. CASE ps[1].t = "init" /\ m > 1
    <3>1. k + 1 \in DOMAIN v /\ k + 1 < i /\ v[k + 1].t = "init"
      BY ONLY <1>2, <2>1, <2>5
    <3> QED
      BY <2>4, <3>1 DEF Framed
  <2>6. CASE Open(w)
    <3>1. PICK j \in DOMAIN w : w[j].t = "init" /\ \A q \in j .. Len(w) : w[q].t # "newkeys"
      BY <2>6 DEF Open
    <3>2. \A q \in j .. i : v[q].t # "newkeys"
      <4> SUFFICES ASSUME NEW q \in j .. i PROVE v[q].t # "newkeys"
        OBVIOUS
      <4>1. q \in j .. k \/ q \in k + 1 .. i
        BY ONLY <1>2, <2>1, j \in DOMAIN w
      <4> QED
        BY ONLY <1>2, <2>4, <3>1, <4>1
    <3>3. j \in DOMAIN v /\ v[j].t = "init" /\ j < i
      BY ONLY <1>2, <2>1, <3>1
    <3> QED
      BY <3>2, <3>3 DEF Framed
  <2>7. CASE Without(w, "newkeys") /\ Midway(o)
    <3>1. \A q \in 1 .. k : w[q].t # "newkeys"
      BY <1>2, <2>7 DEF Without
    <3>2. \A q \in 1 .. i : v[q].t # "newkeys"
      BY ONLY <1>2, <2>1, <2>4, <3>1
    <3> QED
      BY <2>7, <3>2
  <2> QED
    BY <2>3, <2>5, <2>6, <2>7 DEF InitSeen
<1> QED
  BY ONLY <1>2, <1>4, <1>5, i \in DOMAIN v

LEMMA PeerExt ==
    ASSUME NEW e \in Ends, Onward(e), ExtUncounted(Peer(e)),
           NEW ps, NEW k, NEW l, Extends(Peer(e), ps, k, l), Batch(e, ps)
    PROVE  ExtUncounted(Peer(e))'
<1> PICK o, w, v : o = Peer(e) /\ w = wire[o] /\ v = wire'[o]
  OBVIOUS
<1>1. hs'[o] = hs[o] /\ rl'[o] = rl[o]
  BY DEF Onward
<1>2. /\ k \in Nat /\ l \in Nat /\ DOMAIN w = 1 .. k /\ DOMAIN v = 1 .. k + l
      /\ \A i \in 1 .. k : v[i] = w[i]
      /\ \A i \in 1 .. l : i \in DOMAIN ps /\ v[k + i].t = ps[i].t
  BY DEF Extends
<1>3. \A i \in DOMAIN ps : ps[i].t = "extinfo" => i = 2 /\ ps[1].t = "newkeys"
  BY DEF Batch
<1>4. ASSUME NEW i \in DOMAIN v, v[i].t = "extinfo", ~(i - 1 \in DOMAIN v /\ v[i - 1].t = "newkeys")
      PROVE  i \in DOMAIN w /\ v[i] = w[i] /\ ~(i - 1 \in DOMAIN w /\ w[i - 1].t = "newkeys")
  <2>1. CASE i \in 1 .. k
    BY ONLY <1>2, <1>4, <2>1
  <2>2. CASE i - k \in 1 .. l
    <3>1. i - k \in DOMAIN ps /\ i = k + (i - k) /\ v[k + (i - k)].t = ps[i - k].t
      BY ONLY <1>2, <2>2, i \in DOMAIN v
    <3>2. i - k = 2 /\ ps[1].t = "newkeys"
      BY ONLY <1>3, <1>4, <3>1
    <3>3. i - 1 = k + 1 /\ 1 \in 1 .. l
      BY ONLY <1>2, <2>2, <3>2, i \in DOMAIN v
    <3> QED
      BY ONLY <1>2, <1>4, <3>2, <3>3
  <2> QED
    BY ONLY <1>2, <2>1, <2>2, i \in DOMAIN v
<1> QED
  BY <1>1, <1>4 DEF ExtUncounted

\* When e sends newkeys its peer has sent an init for that exchange, and got no further.
LEMMA NewkeysAnswered ==
    ASSUME Numbers, NEW e \in Ends, Ahead(e), Ahead(Peer(e)), InitsDue(Peer(e)), InitSeen(e), Begun(Peer(e)),
           InKex(e), hs[e].sent # <<>>, rd[e].pending = <<>>, ~Dead(Peer(e))
    PROVE  hs[Peer(e)].sent # <<>> /\ hs[Peer(e)].inits <= hs[e].inits
<1> PICK o, a, b : o = Peer(e) /\ a = hs[e].inits /\ b = hs[o].inits
  OBVIOUS
<1>1. o \in Ends /\ Peer(o) = e /\ a \in Nat /\ b \in Nat
  BY PeerFacts DEF Numbers
<1>2. a <= b
  BY <1>1 DEF Ahead, Idle
<1>3. Due(o) = IF Idle(o) THEN b + 1 ELSE b
  BY DEF Due
<1>4. hs[o].sent = <<>> => Idle(o)
  BY DEF Idle
<1>5. ASSUME NEW n, CookieIn(o, n) PROVE hs[o].sent # <<>> /\ b <= a
  <2>1. n \in Nat /\ Due(o) <= n /\ n <= a
    BY <1>1, <1>5 DEF CookieIn
  <2> QED
    BY ONLY <1>1, <1>2, <1>3, <1>4, <2>1
<1>6. CASE Open(wire[o])
  <2>1. PICK i \in DOMAIN wire[o] : wire[o][i].t = "init"
    BY <1>6 DEF Open
  <2>2. CookieIn(o, wire[o][i].body[1].cookie)
    BY <2>1 DEF InitsDue
  <2> QED
    BY <1>5, <2>2
<1>7. CASE rl[o].pc = "start"
  <2>1. CookieIn(o, rl[o].pkt[1].body[1].cookie)
    BY <1>7 DEF InitsDue
  <2> QED
    BY <1>5, <2>1
<1>8. CASE InKex(o)
  <2>1. Idle(o) /\ hs[o].sent # <<>>
    BY <1>8 DEF Idle, Begun
  <2> QED
    BY <1>1, <2>1 DEF Ahead
<1> QED
  BY <1>6, <1>7, <1>8 DEF InitSeen, Midway

LEMMA PeerNewkeys ==
    ASSUME Numbers, NEW e \in Ends, Onward(e), Ahead(e), Ahead(Peer(e)), InitsDue(Peer(e)), InitSeen(e), Begun(Peer(e)),
           NewkeysDue(Peer(e)), NEW ps, NEW k, NEW l, Extends(Peer(e), ps, k, l), Batch(e, ps)
    PROVE  NewkeysDue(Peer(e))'
<1> PICK o, w, v, a, b : o = Peer(e) /\ w = wire[o] /\ v = wire'[o] /\ a = hs[e].inits /\ b = hs[o].inits
  OBVIOUS
<1>0. o \in Ends /\ Peer(o) = e /\ a \in Nat /\ b \in Nat
  BY PeerFacts DEF Numbers
<1>1. hs'[o] = hs[o] /\ Dead(o)' = Dead(o) /\ hs'[e].inits \in Nat /\ a <= hs'[e].inits
  BY PeerRests DEF Onward
<1> SUFFICES ASSUME ~Dead(o), ~Without(v, "newkeys") PROVE hs[o].sent # <<>> /\ b <= hs'[e].inits
  BY <1>0, <1>1 DEF NewkeysDue
<1>2. /\ k \in Nat /\ l \in Nat /\ DOMAIN w = 1 .. k /\ DOMAIN v = 1 .. k + l
      /\ \A i \in 1 .. k : v[i] = w[i]
      /\ \A i \in 1 .. l : i \in DOMAIN ps /\ v[k + i].t = ps[i].t
  BY DEF Extends
<1>3. PICK i \in DOMAIN v : v[i].t = "newkeys"
  BY DEF Without
<1>4. CASE i \in 1 .. k
  <2>1. ~Without(w, "newkeys")
    BY <1>2, <1>3, <1>4 DEF Without
  <2>2. hs[o].sent # <<>> /\ b <= a
    BY <1>0, <2>1 DEF NewkeysDue
  <2> QED
    BY ONLY <1>0, <1>1, <2>2
<1>5. CASE i - k \in 1 .. l
  <2>1. i - k \in DOMAIN ps /\ ps[i - k].t = "newkeys"
    <3>1. k + (i - k) = i
      BY ONLY <1>2, i \in DOMAIN v
    <3> QED
      BY ONLY <1>2, <1>3, <1>5, <3>1
  <2>2. InKex(e) /\ hs[e].sent # <<>> /\ rd[e].pending = <<>>
    BY <2>1 DEF Batch
  <2>3. hs[o].sent # <<>> /\ b <= a
    BY <2>2, NewkeysAnswered
  <2> QED
    BY ONLY <1>0, <1>1, <2>3
<1> QED
  BY ONLY <1>2, <1>4, <1>5, i \in DOMAIN v

LEMMA SpentLess ==
    ASSUME Numbers, NEW e \in Ends, Onward(e), Total \in Nat, ~Spent(Peer(e))
    PROVE  ~Spent(Peer(e))'
<1> PICK o : o = Peer(e)
  OBVIOUS
<1>0. o \in Ends /\ Peer(o) = e /\ hs[o].inits \in Nat /\ hs[e].inits \in Nat
  BY PeerFacts DEF Numbers
<1>1. hs'[o] = hs[o] /\ hs'[e].inits \in Nat /\ hs[e].inits <= hs'[e].inits /\ Total' \in Nat /\ Total <= Total'
  BY DEF Onward
<1>2. hs[e].inits > hs[o].inits \/ hs[o].inits <= Total
  BY <1>0 DEF Spent
<1>3. hs'[e].inits > hs'[o].inits \/ hs'[o].inits <= Total'
  BY ONLY <1>0, <1>1, <1>2, Total \in Nat
<1> QED
  BY <1>0, <1>1, <1>3 DEF Spent

LEMMA PeerCauses ==
    ASSUME Numbers, Total \in Nat, NEW e \in Ends, Onward(e), Ahead(Peer(e)), NewkeysDue(Peer(e)),
           Causes(e), Causes(Peer(e)), NEW ps, NEW k, NEW l, Extends(Peer(e), ps, k, l), Batch(e, ps)
    PROVE  Causes(Peer(e))'
<1> PICK o, w, v, a, b, c : o = Peer(e) /\ w = wire[o] /\ v = wire'[o] /\ a = hs[e].inits /\ b = hs[o].inits /\ c = hs'[e].inits
  OBVIOUS
<1>0. o \in Ends /\ Peer(o) = e /\ Peer(e) = o /\ a \in Nat /\ b \in Nat
  BY PeerFacts DEF Numbers
<1>1. hs'[o] = hs[o] /\ Dead(o)' = Dead(o) /\ c \in Nat /\ a <= c /\ Total' \in Nat /\ Total <= Total'
  BY PeerRests DEF Onward
<1>2. ~Spent(o) => ~Spent(o)'
  BY SpentLess
<1>3. b <= 1 + Total /\ b <= 1 + Total'
  <2> PICK t, u : t = Total /\ u = Total'
    OBVIOUS
  <2>1. b <= 1 + t
    BY DEF Causes
  <2>2. t \in Nat /\ u \in Nat /\ t <= u
    BY <1>1
  <2>3. b <= 1 + u
    BY ONLY <1>0, <2>1, <2>2
  <2> QED
    BY <2>1, <2>3
<1>4. /\ k \in Nat /\ l \in Nat /\ DOMAIN w = 1 .. k /\ DOMAIN v = 1 .. k + l
      /\ \A i \in 1 .. k : v[i] = w[i]
      /\ \A i \in 1 .. l : i \in DOMAIN ps /\ v[k + i].t = ps[i].t
  BY DEF Extends
<1>5. ASSUME NEW i \in DOMAIN ps, ps[i].t = "data", b <= a PROVE ~Spent(o)'
  <2>1. CASE Total < Total'
    <3>1. b <= Total'
      BY ONLY <1>0, <1>1, <1>3, <2>1, Total \in Nat
    <3> QED
      BY <1>0, <1>1, <3>1 DEF Spent
  <2>2. CASE hs[e].queue # <<>>
    <3>1. ~(b <= a /\ a > Total)
      BY <1>0, <2>2 DEF Causes, Spent
    <3>2. ~(c <= b /\ b > Total')
      BY ONLY <1>0, <1>1, <1>5, <3>1, Total \in Nat
    <3> QED
      BY <1>0, <1>1, <3>2 DEF Spent
  <2> QED
    BY <1>5, <2>1, <2>2 DEF Batch
<1>6. \A i \in DOMAIN v : (i \in DOMAIN w /\ v[i] = w[i]) \/ (i - k \in DOMAIN ps /\ v[i].t = ps[i - k].t /\ i > k)
  <2> SUFFICES ASSUME NEW i \in DOMAIN v
               PROVE  (i \in DOMAIN w /\ v[i] = w[i]) \/ (i - k \in DOMAIN ps /\ v[i].t = ps[i - k].t /\ i > k)
    OBVIOUS
  <2>1. i \in 1 .. k \/ (i - k \in 1 .. l /\ k + (i - k) = i /\ i > k)
    BY ONLY <1>4, i \in DOMAIN v
  <2> QED
    BY ONLY <1>4, <2>1
<1>7. hs[o].sent = <<>> /\ hs[o].token => ~Spent(o)'
  BY <1>2 DEF Causes
<1>8. hs[o].queue # <<>> => ~Spent(o)'
  BY <1>2 DEF Causes
<1>9. ASSUME ~Dead(o), hs[o].sent = <<>>, ~Without(v, "data") PROVE ~Spent(o)'
  <2>1. PICK i \in DOMAIN v : v[i].t = "data"
    BY <1>9 DEF Without
  <2>2. CASE i \in DOMAIN w /\ v[i] = w[i]
    <3>1. ~Without(w, "data")
      BY <2>1, <2>2 DEF Without
    <3> QED
      BY <1>2, <1>9, <3>1 DEF Causes
  <2>3. CASE i - k \in DOMAIN ps /\ v[i].t = ps[i - k].t
    <3>1. b <= a
      BY <1>0, <1>9 DEF Ahead, Idle
    <3> QED
      BY <1>5, <2>1, <2>3, <3>1
  <2> QED
    BY <1>6, <2>2, <2>3
<1>10. ASSUME ~Dead(o), NEW i \in DOMAIN v, NEW j \in DOMAIN v, i < j, v[i].t = "newkeys", v[j].t = "data" PROVE ~Spent(o)'
  <2>1. CASE j \in DOMAIN w /\ v[j] = w[j]
    <3>1. i \in DOMAIN w /\ v[i] = w[i]
      BY ONLY <1>4, <1>10, <2>1, i \in DOMAIN v
    <3> QED
      BY <1>2, <1>10, <2>1, <3>1 DEF Causes
  <2>2. CASE j - k \in DOMAIN ps /\ v[j].t = ps[j - k].t
    <3>1. Without(ps, "newkeys")
      BY <1>10, <2>2 DEF Batch
    <3>2. i \in DOMAIN w /\ v[i] = w[i]
      BY <1>6, <1>10, <3>1 DEF Without
    <3>3. ~Without(w, "newkeys")
      BY <1>10, <3>2 DEF Without
    <3>4. b <= a
      BY <1>0, <1>10, <3>3 DEF NewkeysDue
    <3> QED
      BY <1>5, <1>10, <2>2, <3>4
  <2> QED
    BY <1>6, <2>1, <2>2
<1> QED
  BY <1>1, <1>3, <1>7, <1>8, <1>9, <1>10 DEF Causes

LEMMA PeerReader ==
    ASSUME Numbers, Total \in Nat, NEW e \in Ends, Onward(e), Counted(e), Counted(Peer(e)), Begun(Peer(e)),
           NEW ps, NEW k, NEW l, Extends(Peer(e), ps, k, l), Batch(e, ps)
    PROVE  Reader(Peer(e))' /\ StrictWaits(Peer(e))' /\ hs'[Peer(e)].rleft \in Nat
<1> PICK o : o = Peer(e)
  OBVIOUS
<1>1. /\ Ahead(o) /\ InitsDue(o) /\ MethodsFramed(o) /\ ExtUncounted(o) /\ Causes(o) /\ NewkeysDue(o)
      /\ Ahead(e) /\ Causes(e) /\ InitSeen(e) /\ StrictWaits(o) /\ hs[o].rleft \in Nat
  BY DEF Counted, Reader
<1>2. Ahead(o)'
  BY <1>1, PeerAhead
<1>3. InitsDue(o)'
  BY <1>1, PeerInits DEF Batch
<1>4. MethodsFramed(o)'
  BY <1>1, PeerMethods
<1>5. ExtUncounted(o)'
  BY <1>1, PeerExt
<1>6. Causes(o)'
  BY <1>1, PeerCauses
<1>7. NewkeysDue(o)'
  BY <1>1, PeerNewkeys
<1>8. StrictWaits(o)' /\ hs'[o].rleft \in Nat
  <2>1. hs'[o] = hs[o] /\ rl'[o] = rl[o]
    BY DEF Onward
  <2> QED
    BY <1>1, <2>1 DEF StrictWaits
<1> QED
  BY <1>2, <1>3, <1>4, <1>5, <1>6, <1>7, <1>8 DEF Reader

\* e's exchange is the one it was, or begins with ps.
Continues(e, ps) ==
    hs'[e].sent # <<>> /\ rd'[e].pending = <<>> =>
        /\ Without(ps, "newkeys")
        /\ (hs[e].sent # <<>> /\ rd[e].pending = <<>>) \/ (1 \in DOMAIN ps /\ ps[1].t = "init")

LEMMA WriterSeen ==
    ASSUME NEW e \in Ends, Onward(e), InitSeen(e), NEW ps, IsASeq(ps), Continues(e, ps),
           NEW k, NEW l, Extends(Peer(e), ps, k, l)
    PROVE  InitSeen(e)'
<1> PICK o, w, v : o = Peer(e) /\ w = wire[o] /\ v = wire'[o]
  OBVIOUS
<1>1. Midway(o)' = Midway(o) /\ Dead(o)' = Dead(o)
  BY PeerRests
<1> SUFFICES ASSUME hs'[e].sent # <<>>, rd'[e].pending = <<>>, ~Dead(o)
             PROVE  Open(v) \/ (Without(v, "newkeys") /\ Midway(o))
  BY <1>1 DEF InitSeen
<1>2. \A i \in DOMAIN ps : ps[i].t # "newkeys"
  BY DEF Continues, Without
<1>3. /\ k \in Nat /\ l \in Nat /\ DOMAIN w = 1 .. k /\ Len(w) = k /\ DOMAIN v = 1 .. k + l /\ Len(v) = k + l
      /\ \A i \in 1 .. k : v[i] = w[i]
      /\ \A i \in 1 .. l : i \in DOMAIN ps /\ v[k + i].t = ps[i].t
      /\ up[o] => l = Len(ps)
  BY DEF Extends
<1>4. \A i \in k + 1 .. k + l : v[i].t # "newkeys"
  <2> SUFFICES ASSUME NEW i \in k + 1 .. k + l PROVE v[i].t # "newkeys"
    OBVIOUS
  <2>1. i - k \in 1 .. l /\ k + (i - k) = i
    BY ONLY <1>3
  <2> QED
    BY ONLY <1>2, <1>3, <2>1
<1>5. CASE 1 \in DOMAIN ps /\ ps[1].t = "init"
  <2>1. l \in Nat /\ l = Len(ps) /\ DOMAIN ps = 1 .. Len(ps)
    BY <1>3, ConcatSeq DEF Dead
  <2>2. 1 \in 1 .. l /\ k + 1 \in DOMAIN v
    BY ONLY <1>3, <1>5, <2>1
  <2>3. v[k + 1].t = "init" /\ \A i \in k + 1 .. Len(v) : v[i].t # "newkeys"
    BY ONLY <1>3, <1>4, <1>5, <2>2
  <2> QED
    BY <2>2, <2>3 DEF Open
<1>6. CASE Open(w)
  <2>1. PICK j \in DOMAIN w : w[j].t = "init" /\ \A q \in j .. Len(w) : w[q].t # "newkeys"
    BY <1>6 DEF Open
  <2>2. j \in DOMAIN v /\ v[j].t = "init"
    BY ONLY <1>3, <2>1
  <2>3. \A q \in j .. Len(v) : v[q].t # "newkeys"
    <3> SUFFICES ASSUME NEW q \in j .. Len(v) PROVE v[q].t # "newkeys"
      OBVIOUS
    <3>1. (q \in j .. k /\ q \in 1 .. k) \/ q \in k + 1 .. k + l
      BY ONLY <1>3, <2>1
    <3> QED
      BY ONLY <1>3, <1>4, <2>1, <3>1
  <2> QED
    BY <2>2, <2>3 DEF Open
<1>7. CASE Without(w, "newkeys") /\ Midway(o)
  <2>1. \A q \in 1 .. k : w[q].t # "newkeys"
    BY <1>3, <1>7 DEF Without
  <2>2. \A q \in DOMAIN v : v[q].t # "newkeys"
    <3> SUFFICES ASSUME NEW q \in DOMAIN v PROVE v[q].t # "newkeys"
      OBVIOUS
    <3>1. q \in 1 .. k \/ q \in k + 1 .. k + l
      BY ONLY <1>3
    <3> QED
      BY ONLY <1>3, <1>4, <2>1, <3>1
  <2> QED
    BY <1>7, <2>2 DEF Without
<1> QED
  BY <1>5, <1>6, <1>7 DEF Continues, InitSeen

-----------------------------------------------------------------------------
(* The end that takes a step                                               *)

\* e is where it was between two exchanges or in one.
Keeps(e) ==
    /\ hs'[e].sent = hs[e].sent /\ hs'[e].inits = hs[e].inits /\ InKex(e)' = InKex(e)
    /\ Dead(e) => Dead(e)'
    /\ Midway(e) => Midway(e)' \/ Dead(e)'

\* ... and what may set its token has a cause.
Justified(e) ==
    /\ hs'[e].token => hs[e].token \/ Total < Total' \/ hs[e].sent # <<>> \/ ~Spent(e)
    /\ hs'[e].queue # <<>> => hs[e].queue # <<>> \/ Total < Total'

LEMMA KeepsAhead ==
    ASSUME NEW e \in Ends, Onward(e), Keeps(e), Ahead(e)
    PROVE  Ahead(e)' /\ Due(e)' = Due(e) /\ \A n : CookieIn(e, n)' = CookieIn(e, n)
<1>1. hs'[Peer(e)] = hs[Peer(e)] /\ Idle(e)' = Idle(e) /\ hs'[e].inits = hs[e].inits
  BY DEF Onward, Keeps, Idle
<1>2. Ahead(e)'
  BY <1>1 DEF Ahead
<1>3. Due(e)' = Due(e)
  BY <1>1 DEF Due
<1>4. \A n : CookieIn(e, n)' = CookieIn(e, n)
  BY <1>1, <1>3 DEF CookieIn
<1> QED
  BY <1>2, <1>3, <1>4, Zenon

LEMMA OwnSpent ==
    ASSUME Numbers, Total \in Nat, NEW e \in Ends, Onward(e), hs'[e].inits = hs[e].inits,
           ~Spent(e) \/ (Total < Total' /\ hs[e].inits <= 1 + Total)
    PROVE  ~Spent(e)'
<1> PICK a, b, t, u : a = hs[e].inits /\ b = hs[Peer(e)].inits /\ t = Total /\ u = Total'
  OBVIOUS
<1>1. hs'[Peer(e)] = hs[Peer(e)] /\ a \in Nat /\ b \in Nat /\ t \in Nat /\ u \in Nat /\ t <= u
  BY PeerFacts DEF Onward, Numbers
<1>2. ~(b <= a /\ a > t) \/ (t < u /\ a <= 1 + t)
  BY DEF Spent
<1>3. ~(b <= a /\ a > u)
  BY ONLY <1>1, <1>2
<1> QED
  BY <1>1, <1>3 DEF Spent

\* the packets on the way to e are among those that were
Fewer(v, w) == \A i, j \in DOMAIN v : \E g, h \in DOMAIN w : v[i] = w[g] /\ v[j] = w[h] /\ (i < j => g < h)

LEMMA KeepsCauses ==
    ASSUME Numbers, Total \in Nat, NEW e \in Ends, Onward(e), Keeps(e), Justified(e), Causes(e),
           Fewer(wire'[e], wire[e])
    PROVE  Causes(e)'
<1> PICK v, w : v = wire'[e] /\ w = wire[e]
  OBVIOUS
<1>1. hs'[e].sent = hs[e].sent /\ hs'[e].inits = hs[e].inits /\ (Dead(e) => Dead(e)')
  BY DEF Keeps
<1>2. hs[e].inits <= 1 + Total
  BY DEF Causes
<1>3. ~Spent(e) \/ Total < Total' => ~Spent(e)'
  BY <1>1, <1>2, OwnSpent
<1>4. hs'[e].inits <= 1 + Total'
  <2> PICK a, t, u : a = hs[e].inits /\ t = Total /\ u = Total'
    OBVIOUS
  <2>1. a \in Nat /\ t \in Nat /\ u \in Nat /\ t <= u /\ a <= 1 + t
    BY <1>2 DEF Onward, Numbers
  <2>2. a <= 1 + u
    BY ONLY <2>1
  <2> QED
    BY <1>1, <2>2
<1>5. hs'[e].sent = <<>> /\ hs'[e].token => ~Spent(e)'
  BY <1>1, <1>3 DEF Causes, Justified
<1>6. hs'[e].queue # <<>> => ~Spent(e)'
  BY <1>3 DEF Causes, Justified
<1>7. ASSUME ~Dead(e)', hs'[e].sent = <<>>, ~Without(v, "data") PROVE ~Spent(e)'
  <2>1. PICK i \in DOMAIN v : v[i].t = "data"
    BY <1>7 DEF Without
  <2>2. PICK g \in DOMAIN w : v[i] = w[g]
    BY <2>1 DEF Fewer
  <2>3. ~Without(w, "data")
    BY <2>1, <2>2 DEF Without
  <2> QED
    BY <1>1, <1>3, <1>7, <2>3 DEF Causes
<1>8. ASSUME ~Dead(e)', NEW i \in DOMAIN v, NEW j \in DOMAIN v, i < j, v[i].t = "newkeys", v[j].t = "data" PROVE ~Spent(e)'
  <2>1. PICK g \in DOMAIN w, h \in DOMAIN w : v[i] = w[g] /\ v[j] = w[h] /\ g < h
    BY <1>8 DEF Fewer
  <2>2. ~Spent(e)
    BY <1>1, <1>8, <2>1 DEF Causes
  <2> QED
    BY <1>3, <2>2
<1> QED
  BY <1>4, <1>5, <1>6, <1>7, <1>8 DEF Causes

LEMMA OwnStays ==
    ASSUME Numbers, Total \in Nat, NEW e \in Ends, Onward(e), Reader(e), InitSeen(Peer(e)), Keeps(e), Justified(e),
           wire'[e] = wire[e] \/ (wire'[e] = <<>> /\ Dead(e)'),
           rl'[e].pc = "start" => rl[e].pc = "start" /\ rl'[e].pkt = rl[e].pkt,
           \/ hs'[e].rleft = hs[e].rleft /\ rl'[e].pc = rl[e].pc /\ rl'[e].done = rl[e].done
           \/ hs'[e].rleft = hs[e].rleft /\ rl[e].pc \in {"read", "push", "start"}
           \/ hs'[e].rleft > 0 \/ rl'[e].pc \in {"err", "ended"}
    PROVE  Reader(e)' /\ InitSeen(Peer(e))'
<1> PICK o, v, w : o = Peer(e) /\ v = wire'[e] /\ w = wire[e]
  OBVIOUS
<1>0. o \in Ends /\ Peer(o) = e /\ Peer(e) = o
  BY PeerFacts
<1>1. Ahead(e) /\ InitsDue(e) /\ MethodsFramed(e) /\ ExtUncounted(e) /\ Causes(e) /\ NewkeysDue(e)
  BY DEF Reader
<1>2. hs'[e].sent = hs[e].sent /\ hs'[e].inits = hs[e].inits /\ (Dead(e) => Dead(e)') /\ (Midway(e) => Midway(e)' \/ Dead(e)')
  BY DEF Keeps
<1>3. hs'[o] = hs[o] /\ rd'[o] = rd[o]
  BY DEF Onward
<1>4. Ahead(e)' /\ \A n : CookieIn(e, n)' = CookieIn(e, n)
  BY <1>1, KeepsAhead
<1>5. DOMAIN <<>> = {} /\ Without(<<>>, "newkeys")
  BY Nothing
<1>6. InitsDue(e)'
  <2>1. CASE v = w
    BY <1>1, <1>4, <2>1 DEF InitsDue
  <2>2. CASE v = <<>>
    BY <1>1, <1>4, <1>5, <2>2 DEF InitsDue
  <2> QED
    BY <2>1, <2>2
<1>7. MethodsFramed(e)'
  <2>1. CASE v = w
    BY <1>1, <1>2, <2>1 DEF MethodsFramed
  <2>2. CASE v = <<>>
    BY <1>5, <2>2 DEF MethodsFramed
  <2> QED
    BY <2>1, <2>2
<1>8. ExtUncounted(e)'
  <2>1. CASE v = w
    BY <1>1, <2>1 DEF ExtUncounted
  <2>2. CASE v = <<>>
    BY <1>5, <2>2 DEF ExtUncounted
  <2> QED
    BY <2>1, <2>2
<1>9. Causes(e)'
  <2>1. Fewer(v, w)
    BY <1>5 DEF Fewer
  <2> QED
    BY <1>1, <2>1, KeepsCauses
<1>10. NewkeysDue(e)'
  BY <1>1, <1>2, <1>3, <1>5 DEF NewkeysDue
<1>11. InitSeen(o)'
  <2>1. CASE v = w
    BY <1>0, <1>2, <1>3, <2>1 DEF InitSeen
  <2>2. CASE Dead(e)'
    BY <1>0, <2>2 DEF InitSeen
  <2> QED
    BY <2>1, <2>2
<1> QED
  BY <1>4, <1>6, <1>7, <1>8, <1>9, <1>10, <1>11 DEF Reader

LEMMA TailFacts ==
    ASSUME NEW w, IsASeq(w), w # <<>>
    PROVE  LET v == Tail(w) IN
           /\ Fewer(v, w) /\ Len(w) \in Nat \ {0} /\ DOMAIN w = 1 .. Len(w) /\ DOMAIN v = 1 .. Len(w) - 1 /\ Len(v) = Len(w) - 1
           /\ \A i \in DOMAIN v : i + 1 \in DOMAIN w /\ v[i] = w[i + 1]
           /\ \A i \in DOMAIN w : i # 1 => i - 1 \in DOMAIN v /\ v[i - 1] = w[i]
<1> PICK v, l : v = Tail(w) /\ l = Len(w)
  OBVIOUS
<1>1. /\ l \in Nat \ {0} /\ DOMAIN w = 1 .. l /\ DOMAIN v = 1 .. l - 1 /\ Len(v) = l - 1
      /\ \A i \in 1 .. l - 1 : v[i] = w[i + 1]
  BY TailSeq
<1>2. \A i \in DOMAIN v : i + 1 \in DOMAIN w /\ v[i] = w[i + 1]
  BY ONLY <1>1
<1>3. \A i \in DOMAIN w : i # 1 => i - 1 \in DOMAIN v /\ v[i - 1] = w[i]
  <2> SUFFICES ASSUME NEW i \in DOMAIN w, i # 1 PROVE i - 1 \in DOMAIN v /\ v[i - 1] = w[i]
    OBVIOUS
  <2>1. i - 1 \in 1 .. l - 1 /\ (i - 1) + 1 = i
    BY ONLY <1>1, i \in DOMAIN w, i # 1
  <2> QED
    BY ONLY <1>1, <2>1
<1>4. Fewer(v, w)
  <2> SUFFICES ASSUME NEW i \in DOMAIN v, NEW j \in DOMAIN v
               PROVE  \E g, h \in DOMAIN w : v[i] = w[g] /\ v[j] = w[h] /\ (i < j => g < h)
    BY DEF Fewer
  <2>1. i + 1 \in DOMAIN w /\ j + 1 \in DOMAIN w /\ v[i] = w[i + 1] /\ v[j] = w[j + 1] /\ (i < j => i + 1 < j + 1)
    BY ONLY <1>1, <1>2, i \in DOMAIN v, j \in DOMAIN v
  <2> QED
    BY ONLY <2>1
<1> QED
  BY <1>1, <1>2, <1>3, <1>4

LEMMA TailFramed ==
    ASSUME NEW w, IsASeq(w), w # <<>>, NEW v, v = Tail(w), NEW i \in DOMAIN v, Framed(w, i + 1)
    PROVE  Framed(v, i) \/ (w[1].t = "init" /\ \A k \in 1 .. i : v[k].t # "newkeys")
<1>1. /\ Len(w) \in Nat \ {0} /\ DOMAIN w = 1 .. Len(w) /\ DOMAIN v = 1 .. Len(w) - 1
      /\ \A k \in DOMAIN v : k + 1 \in DOMAIN w /\ v[k] = w[k + 1]
      /\ \A k \in DOMAIN w : k # 1 => k - 1 \in DOMAIN v /\ v[k - 1] = w[k]
  BY TailFacts
<1>2. PICK j \in DOMAIN w : j < i + 1 /\ w[j].t = "init" /\ \A k \in j .. i + 1 : w[k].t # "newkeys"
  BY DEF Framed
<1>3. \A k \in 1 .. i : k \in DOMAIN v /\ v[k] = w[k + 1] /\ (j - 1 <= k => v[k].t # "newkeys")
  <2> SUFFICES ASSUME NEW k \in 1 .. i PROVE k \in DOMAIN v /\ v[k] = w[k + 1] /\ (j - 1 <= k => v[k].t # "newkeys")
    OBVIOUS
  <2>1. k \in DOMAIN v /\ (j - 1 <= k => k + 1 \in j .. i + 1)
    BY ONLY <1>1, i \in DOMAIN v, j \in DOMAIN w, k \in 1 .. i
  <2> QED
    BY ONLY <1>1, <1>2, <2>1
<1>4. CASE j = 1
  BY ONLY <1>1, <1>2, <1>3, <1>4
<1>5. CASE j # 1
  <2>1. j - 1 \in DOMAIN v /\ j - 1 < i /\ v[j - 1].t = "init" /\ \A k \in j - 1 .. i : k \in 1 .. i
    BY ONLY <1>1, <1>2, <1>5, i \in DOMAIN v, j \in DOMAIN w
  <2>2. \A k \in j - 1 .. i : v[k].t # "newkeys"
    BY ONLY <1>1, <1>3, <2>1, i \in DOMAIN v, j \in DOMAIN w
  <2> QED
    BY <2>1, <2>2 DEF Framed
<1> QED
  BY <1>4, <1>5

LEMMA TailOpen ==
    ASSUME NEW w, IsASeq(w), w # <<>>, NEW v, v = Tail(w), Open(w)
    PROVE  Open(v) \/ (w[1].t = "init" /\ Without(v, "newkeys"))
<1>1. /\ Len(w) \in Nat \ {0} /\ DOMAIN w = 1 .. Len(w) /\ DOMAIN v = 1 .. Len(w) - 1 /\ Len(v) = Len(w) - 1
      /\ \A k \in DOMAIN v : k + 1 \in DOMAIN w /\ v[k] = w[k + 1]
      /\ \A k \in DOMAIN w : k # 1 => k - 1 \in DOMAIN v /\ v[k - 1] = w[k]
  BY TailFacts
<1>2. PICK j \in DOMAIN w : w[j].t = "init" /\ \A k \in j .. Len(w) : w[k].t # "newkeys"
  BY DEF Open
<1>3. \A k \in DOMAIN v : j - 1 <= k => v[k].t # "newkeys"
  <2> SUFFICES ASSUME NEW k \in DOMAIN v, j - 1 <= k PROVE v[k].t # "newkeys"
    OBVIOUS
  <2>1. k + 1 \in j .. Len(w)
    BY ONLY <1>1, k \in DOMAIN v, j - 1 <= k, j \in DOMAIN w
  <2> QED
    BY ONLY <1>1, <1>2, <2>1, k \in DOMAIN v
<1>4. CASE j = 1
  <2>1. \A k \in DOMAIN v : j - 1 <= k
    BY ONLY <1>1, <1>4
  <2> QED
    BY <1>2, <1>3, <1>4, <2>1 DEF Without
<1>5. CASE j # 1
  <2>1. j - 1 \in DOMAIN v /\ v[j - 1].t = "init" /\ \A k \in j - 1 .. Len(v) : k \in DOMAIN v /\ j - 1 <= k
    BY ONLY <1>1, <1>2, <1>5, j \in DOMAIN w
  <2> QED
    BY <1>3, <2>1 DEF Open
<1> QED
  BY <1>4, <1>5

LEMMA OwnReads ==
    ASSUME Numbers, Total \in Nat, NEW e \in Ends, Onward(e), Reader(e), InitSeen(Peer(e)), Keeps(e), Justified(e),
           IsASeq(wire[e]), wire[e] # <<>>, wire'[e] = Tail(wire[e]), wire[e][1].t # "newkeys",
           wire[e][1].t = "init" => rl'[e].pc = "start" \/ Dead(e)',
           rl'[e].pc = "start" => \/ rl[e].pc = "start" /\ rl'[e].pkt = rl[e].pkt
                                  \/ wire[e][1].t = "init" /\ rl'[e].pkt[1].body = wire[e][1].body
    PROVE  Reader(e)' /\ InitSeen(Peer(e))'
<1> PICK o, v, w : o = Peer(e) /\ v = wire'[e] /\ w = wire[e]
  OBVIOUS
<1>0. o \in Ends /\ Peer(o) = e /\ Peer(e) = o
  BY PeerFacts
<1>1. Ahead(e) /\ InitsDue(e) /\ MethodsFramed(e) /\ ExtUncounted(e) /\ Causes(e) /\ NewkeysDue(e)
  BY DEF Reader
<1>2. hs'[e].sent = hs[e].sent /\ hs'[e].inits = hs[e].inits /\ (Dead(e) => Dead(e)') /\ (Midway(e) => Midway(e)' \/ Dead(e)')
  BY DEF Keeps
<1>3. hs'[o] = hs[o] /\ rd'[o] = rd[o]
  BY DEF Onward
<1>4. Ahead(e)' /\ \A n : CookieIn(e, n)' = CookieIn(e, n)
  BY <1>1, KeepsAhead
<1>5. /\ Fewer(v, w) /\ Len(w) \in Nat \ {0} /\ DOMAIN w = 1 .. Len(w) /\ DOMAIN v = 1 .. Len(w) - 1 /\ Len(v) = Len(w) - 1
      /\ \A i \in DOMAIN v : i + 1 \in DOMAIN w /\ v[i] = w[i + 1]
      /\ \A i \in DOMAIN w : i # 1 => i - 1 \in DOMAIN v /\ v[i - 1] = w[i]
  BY TailFacts
<1>6. 1 \in DOMAIN w /\ \A i \in DOMAIN v : 1 < i + 1
  BY ONLY <1>5
<1>7. InitsDue(e)'
  <2>1. \A i \in DOMAIN v : v[i].t = "init" => CookieIn(e, v[i].body[1].cookie)
    BY <1>1, <1>5 DEF InitsDue
  <2>2. \A i, j \in DOMAIN v : i < j /\ v[i].t = "init" /\ v[j].t = "init"
            => v[i].body[1].cookie < v[j].body[1].cookie
    <3> SUFFICES ASSUME NEW i \in DOMAIN v, NEW j \in DOMAIN v, i < j, v[i].t = "init", v[j].t = "init"
                 PROVE  v[i].body[1].cookie < v[j].body[1].cookie
      OBVIOUS
    <3>1. i + 1 < j + 1
      BY ONLY <1>5, i \in DOMAIN v, j \in DOMAIN v, i < j
    <3> QED
      BY <1>1, <1>5, <3>1 DEF InitsDue
  <2>3. ASSUME rl[e].pc = "start"
        PROVE  /\ CookieIn(e, rl[e].pkt[1].body[1].cookie)
               /\ \A i \in DOMAIN v : v[i].t = "init" => rl[e].pkt[1].body[1].cookie < v[i].body[1].cookie
    BY <1>1, <1>5, <2>3 DEF InitsDue
  <2>4. ASSUME w[1].t = "init"
        PROVE  /\ CookieIn(e, w[1].body[1].cookie)
               /\ \A i \in DOMAIN v : v[i].t = "init" => w[1].body[1].cookie < v[i].body[1].cookie
    BY <1>1, <1>5, <1>6, <2>4 DEF InitsDue
  <2>5. rl'[e].pc = "start" =>
            /\ CookieIn(e, rl'[e].pkt[1].body[1].cookie)
            /\ \A i \in DOMAIN v : v[i].t = "init" => rl'[e].pkt[1].body[1].cookie < v[i].body[1].cookie
    BY <2>3, <2>4
  <2> QED
    BY <1>4, <2>1, <2>2, <2>5 DEF InitsDue
<1>8. MethodsFramed(e)'
  <2> SUFFICES ASSUME NEW i \in DOMAIN v
               PROVE  /\ v[i].t \in PacketTypes
                      /\ v[i].t = "kex" => Dead(e)' \/ Framed(v, i) \/ (Midway(e)' /\ \A k \in 1 .. i : v[k].t # "newkeys")
    BY DEF MethodsFramed
  <2>1. v[i].t \in PacketTypes
    BY <1>1, <1>5 DEF MethodsFramed
  <2> SUFFICES ASSUME v[i].t = "kex", ~Dead(e)'
               PROVE  Framed(v, i) \/ (Midway(e)' /\ \A k \in 1 .. i : v[k].t # "newkeys")
    BY <2>1
  <2>2. Framed(w, i + 1) \/ (Midway(e) /\ \A k \in 1 .. i + 1 : w[k].t # "newkeys")
    BY <1>1, <1>2, <1>5 DEF MethodsFramed
  <2>3. CASE Framed(w, i + 1)
    <3>1. Framed(v, i) \/ (w[1].t = "init" /\ \A k \in 1 .. i : v[k].t # "newkeys")
      BY <2>3, TailFramed
    <3>2. w[1].t = "init" => Midway(e)'
      BY DEF Midway
    <3> QED
      BY <3>1, <3>2
  <2>4. CASE Midway(e) /\ \A k \in 1 .. i + 1 : w[k].t # "newkeys"
    <3>1. \A k \in 1 .. i : k \in DOMAIN v /\ k + 1 \in 1 .. i + 1
      BY ONLY <1>5, i \in DOMAIN v
    <3>2. \A k \in 1 .. i : v[k].t # "newkeys"
      BY ONLY <1>5, <2>4, <3>1
    <3> QED
      BY <1>2, <2>4, <3>2
  <2> QED
    BY <2>2, <2>3, <2>4
<1>9. ExtUncounted(e)'
  <2> SUFFICES ASSUME NEW i \in DOMAIN v, v[i].t = "extinfo" PROVE i - 1 \in DOMAIN v /\ v[i - 1].t = "newkeys"
    BY DEF ExtUncounted
  <2>1. i + 1 # 1 /\ (i + 1) - 1 = i
    BY ONLY <1>5, i \in DOMAIN v
  <2>2. i \in DOMAIN w /\ w[i].t = "newkeys"
    BY <1>1, <1>5, <2>1 DEF ExtUncounted
  <2>3. i # 1
    BY <2>2
  <2> QED
    BY <1>5, <2>2, <2>3
<1>10. Causes(e)'
  BY <1>1, <1>5, KeepsCauses
<1>11. NewkeysDue(e)'
  <2>1. Without(w, "newkeys") => Without(v, "newkeys")
    BY <1>5 DEF Without
  <2> QED
    BY <1>1, <1>2, <1>3, <2>1 DEF NewkeysDue
<1>12. InitSeen(o)'
  <2> SUFFICES ASSUME hs[o].sent # <<>>, rd[o].pending = <<>>, ~Dead(e)'
               PROVE  Open(v) \/ (Without(v, "newkeys") /\ Midway(e)')
    BY <1>0, <1>3 DEF InitSeen
  <2>1. CASE Open(w)
    <3>1. Open(v) \/ (w[1].t = "init" /\ Without(v, "newkeys"))
      BY <2>1, TailOpen
    <3>2. w[1].t = "init" => Midway(e)'
      BY DEF Midway
    <3> QED
      BY <3>1, <3>2
  <2>2. CASE Without(w, "newkeys") /\ Midway(e)
    <3>1. Without(v, "newkeys")
      BY <1>5, <2>2 DEF Without
    <3> QED
      BY <1>2, <2>2, <3>1
  <2> QED
    BY <1>0, <1>2, <2>1, <2>2 DEF InitSeen
<1> QED
  BY <1>4, <1>7, <1>8, <1>9, <1>10, <1>11, <1>12 DEF Reader

\* An exchange ends: it fails, or newkeys is read.
EndsKex(e) ==
    /\ InKex(e) /\ ~InKex(e)' /\ hs'[e].sent = <<>> /\ hs'[e].inits = hs[e].inits
    /\ ~hs'[e].token /\ hs'[e].queue = <<>>
    /\ rl'[e].pc = "wait" /\ rl'[e].done # "none"

LEMMA EndsAhead ==
    ASSUME NEW e \in Ends, Onward(e), EndsKex(e), Ahead(e)
    PROVE  Ahead(e)' /\ \A n : CookieIn(e, n)' = CookieIn(e, n)
<1>1. hs'[Peer(e)] = hs[Peer(e)] /\ Idle(e)' /\ Idle(e) /\ hs'[e].inits = hs[e].inits
  BY DEF Onward, EndsKex, Idle
<1>2. Ahead(e)'
  BY <1>1 DEF Ahead
<1>3. Due(e)' = Due(e)
  BY <1>1 DEF Due
<1>4. \A n : CookieIn(e, n)' = CookieIn(e, n)
  BY <1>1, <1>3 DEF CookieIn
<1> QED
  BY <1>2, <1>4, Zenon

LEMMA EndsBound ==
    ASSUME Numbers, Total \in Nat, NEW e \in Ends, Onward(e), EndsKex(e), Causes(e)
    PROVE  hs'[e].inits <= 1 + Total'
<1> PICK a, t, u : a = hs[e].inits /\ t = Total /\ u = Total'
  OBVIOUS
<1>1. a \in Nat /\ t \in Nat /\ u \in Nat /\ t <= u /\ a <= 1 + t
  BY DEF Onward, Numbers, Causes
<1>2. a <= 1 + u
  BY ONLY <1>1
<1> QED
  BY <1>2 DEF EndsKex

LEMMA OwnFails ==
    ASSUME Numbers, Total \in Nat, NEW e \in Ends, Onward(e), Reader(e), InitSeen(Peer(e)), EndsKex(e),
           wire'[e] = wire[e], Dead(e)'
    PROVE  Reader(e)' /\ InitSeen(Peer(e))'
<1>1. Ahead(e) /\ InitsDue(e) /\ MethodsFramed(e) /\ ExtUncounted(e) /\ Causes(e) /\ NewkeysDue(e)
  BY DEF Reader
<1>2. Ahead(e)' /\ \A n : CookieIn(e, n)' = CookieIn(e, n)
  BY <1>1, EndsAhead
<1>3. InitsDue(e)'
  BY <1>1, <1>2 DEF InitsDue, EndsKex
<1>4. MethodsFramed(e)'
  BY <1>1 DEF MethodsFramed
<1>5. ExtUncounted(e)'
  BY <1>1 DEF ExtUncounted, EndsKex
<1>6. Causes(e)'
  BY <1>1, EndsBound DEF Causes, EndsKex
<1>7. NewkeysDue(e)'
  BY DEF NewkeysDue
<1>8. InitSeen(Peer(e))'
  BY PeerFacts DEF InitSeen
<1> QED
  BY <1>2, <1>3, <1>4, <1>5, <1>6, <1>7, <1>8 DEF Reader

LEMMA OwnTakes ==
    ASSUME Numbers, Total \in Nat, NEW e \in Ends, Onward(e), Reader(e), InitSeen(Peer(e)), EndsKex(e),
           IsASeq(wire[e]), wire[e] # <<>>, wire'[e] = Tail(wire[e]), wire[e][1].t = "newkeys", ~Dead(e),
           \A i, j \in DOMAIN wire[e] : wire[e][i].t = "newkeys" /\ wire[e][j].t = "newkeys" => i = j
    PROVE  Reader(e)' /\ InitSeen(Peer(e))'
<1> PICK o, v, w : o = Peer(e) /\ v = wire'[e] /\ w = wire[e]
  OBVIOUS
<1>0. o \in Ends /\ Peer(o) = e /\ Peer(e) = o /\ hs'[o] = hs[o] /\ rd'[o] = rd[o]
  BY PeerFacts DEF Onward
<1>1. Ahead(e) /\ InitsDue(e) /\ MethodsFramed(e) /\ ExtUncounted(e) /\ Causes(e) /\ NewkeysDue(e)
  BY DEF Reader
<1>2. Ahead(e)' /\ \A n : CookieIn(e, n)' = CookieIn(e, n)
  BY <1>1, EndsAhead
<1>3. /\ Len(w) \in Nat \ {0} /\ DOMAIN w = 1 .. Len(w) /\ DOMAIN v = 1 .. Len(w) - 1
      /\ \A i \in DOMAIN v : i + 1 \in DOMAIN w /\ v[i] = w[i + 1]
      /\ \A i \in DOMAIN w : i # 1 => i - 1 \in DOMAIN v /\ v[i - 1] = w[i]
  BY TailFacts
<1>4. 1 \in DOMAIN w /\ \A i \in DOMAIN v : 1 < i + 1 /\ i + 1 # 1 /\ (i + 1) - 1 = i /\ 1 \in 1 .. i + 1
  BY ONLY <1>3
<1>5. Without(v, "newkeys")
  BY <1>3, <1>4 DEF Without
<1>6. InitsDue(e)'
  <2>1. \A i \in DOMAIN v : v[i].t = "init" => CookieIn(e, v[i].body[1].cookie)
    BY <1>1, <1>3 DEF InitsDue
  <2>2. \A i, j \in DOMAIN v : i < j /\ v[i].t = "init" /\ v[j].t = "init"
            => v[i].body[1].cookie < v[j].body[1].cookie
    <3> SUFFICES ASSUME NEW i \in DOMAIN v, NEW j \in DOMAIN v, i < j, v[i].t = "init", v[j].t = "init"
                 PROVE  v[i].body[1].cookie < v[j].body[1].cookie
      OBVIOUS
    <3>1. i + 1 < j + 1
      BY ONLY <1>3, i \in DOMAIN v, j \in DOMAIN v, i < j
    <3> QED
      BY <1>1, <1>3, <3>1 DEF InitsDue
  <2> QED
    BY <1>2, <2>1, <2>2 DEF InitsDue, EndsKex
<1>7. MethodsFramed(e)'
  <2> SUFFICES ASSUME NEW i \in DOMAIN v
               PROVE  v[i].t \in PacketTypes /\ (v[i].t = "kex" => Framed(v, i))
    BY DEF MethodsFramed
  <2>1. v[i].t \in PacketTypes
    BY <1>1, <1>3 DEF MethodsFramed
  <2>2. ASSUME v[i].t = "kex" PROVE Framed(v, i)
    <3>1. Framed(w, i + 1)
      BY <1>1, <1>3, <1>4, <2>2 DEF MethodsFramed
    <3> QED
      BY <3>1, TailFramed
  <2> QED
    BY <2>1, <2>2
<1>8. ExtUncounted(e)'
  <2> SUFFICES ASSUME NEW i \in DOMAIN v, v[i].t = "extinfo", i # 1 PROVE i - 1 \in DOMAIN v /\ v[i - 1].t = "newkeys"
    BY DEF ExtUncounted, EndsKex
  <2>1. i \in DOMAIN w /\ w[i].t = "newkeys"
    BY <1>1, <1>3, <1>4 DEF ExtUncounted
  <2> QED
    BY <1>3, <2>1
<1>9. Causes(e)'
  <2>1. hs'[e].inits <= 1 + Total'
    BY <1>1, EndsBound
  <2>2. ~hs'[e].token /\ hs'[e].queue = <<>> /\ hs'[e].inits = hs[e].inits
    BY DEF EndsKex
  <2>3. ASSUME NEW i \in DOMAIN v, v[i].t = "data" PROVE ~Spent(e)'
    <3>0. 1 \in DOMAIN w /\ i + 1 \in DOMAIN w /\ 1 < i + 1 /\ w[1].t = "newkeys" /\ w[i + 1].t = "data"
      BY <1>3, <1>4, <2>3
    <3>1. ~Spent(e)
      BY <1>1, <3>0 DEF Causes
    <3> QED
      BY <2>2, <3>1, OwnSpent
  <2> QED
    BY <1>5, <2>1, <2>2, <2>3 DEF Causes, Without
<1>10. NewkeysDue(e)'
  BY <1>5 DEF NewkeysDue
<1>11. InitSeen(o)'
  <2> SUFFICES ASSUME hs[o].sent # <<>>, rd[o].pending = <<>> PROVE Open(v)
    BY <1>0 DEF InitSeen
  <2>1. Open(w)
    BY <1>0, <1>4 DEF InitSeen, Without
  <2> QED
    BY <2>1, TailOpen
<1> QED
  BY <1>2, <1>6, <1>7, <1>8, <1>9, <1>10, <1>11 DEF Reader

\* kexLoop's select: it sends an init, enters the exchange that its peer has
\* begun, or both.
Begins(e) ==
    /\ ~InKex(e) /\ wire'[e] = wire[e] /\ hs'[e].rleft = hs[e].rleft /\ hs'[e].queue = hs[e].queue
    /\ \/ rl'[e] = rl[e] /\ ~InKex(e)'
       \/ rl[e].pc = "start" /\ rl'[e].pc = "wait" /\ (InKex(e)' \/ Dead(e)')
    /\ \/ hs[e].sent # <<>> /\ hs'[e].sent = hs[e].sent /\ hs'[e].inits = hs[e].inits
       \/ /\ hs[e].sent = <<>> /\ hs'[e].sent # <<>> /\ hs'[e].inits = hs[e].inits + 1
          /\ rl'[e] = rl[e] => hs[e].token

LEMMA BeginsDue ==
    ASSUME Numbers, NEW e \in Ends, Onward(e), Reader(e), Begins(e)
    PROVE  /\ Ahead(e)'
           /\ \A n : CookieIn(e, n) /\ (rl'[e] # rl[e] => rl[e].pkt[1].body[1].cookie < n) => CookieIn(e, n)'
<1> PICK o, a, b, d, x, c : /\ o = Peer(e) /\ a = hs[e].inits /\ b = hs[o].inits /\ d = hs'[e].inits /\ x = Due(e)'
                         /\ c = rl[e].pkt[1].body[1].cookie
  OBVIOUS
<1>1. o \in Ends /\ hs'[o] = hs[o] /\ a \in Nat /\ b \in Nat /\ d \in Nat
  BY PeerFacts DEF Onward, Numbers
<1>2. a <= b + 1 /\ (hs[e].sent = <<>> => a <= b)
  BY DEF Reader, Ahead, Idle
<1>3. Due(e) = IF hs[e].sent = <<>> THEN a + 1 ELSE a
  BY DEF Due, Idle, Begins
<1>4. hs'[e].sent # <<>> /\ x = (IF InKex(e)' THEN d + 1 ELSE d) /\ (Idle(e)' <=> InKex(e)')
  BY DEF Due, Idle, Begins
<1>5. IF hs[e].sent = <<>> THEN d = a + 1 ELSE d = a
  BY DEF Begins
<1>6. rl'[e] # rl[e] => c \in Nat /\ Due(e) <= c /\ c <= b
  BY DEF Reader, InitsDue, CookieIn, Begins
<1>7. InKex(e)' => rl'[e] # rl[e]
  BY DEF Begins
<1>8. Ahead(e)'
  <2>1. d <= b + 1 /\ (InKex(e)' => d <= b)
    BY ONLY <1>1, <1>2, <1>3, <1>5, <1>6, <1>7
  <2> QED
    BY <1>1, <1>4, <2>1 DEF Ahead
<1>9. ASSUME NEW n, CookieIn(e, n), rl'[e] # rl[e] => c < n PROVE CookieIn(e, n)'
  <2>1. n \in Nat /\ Due(e) <= n /\ n <= b
    BY <1>9 DEF CookieIn
  <2>2. x <= n
    BY ONLY <1>1, <1>3, <1>4, <1>5, <1>6, <1>7, <1>9, <2>1
  <2> QED
    BY <1>1, <2>1, <2>2 DEF CookieIn
<1> QED
  BY <1>8, <1>9

LEMMA OwnBegins ==
    ASSUME Numbers, Total \in Nat, Total' = Total, NEW e \in Ends, Onward(e), Reader(e), Causes(Peer(e)),
           InitSeen(Peer(e)), Queued(e), Begins(e), Dead(e) => Dead(e)'
    PROVE  Reader(e)' /\ InitSeen(Peer(e))'
<1> PICK o, w : o = Peer(e) /\ w = wire[e]
  OBVIOUS
<1>0. o \in Ends /\ Peer(o) = e /\ Peer(e) = o /\ hs'[o] = hs[o] /\ rd'[o] = rd[o]
  BY PeerFacts DEF Onward
<1>1. Ahead(e) /\ InitsDue(e) /\ MethodsFramed(e) /\ ExtUncounted(e) /\ Causes(e) /\ NewkeysDue(e)
  BY DEF Reader
<1>2. Ahead(e)' /\ \A n : CookieIn(e, n) /\ (rl'[e] # rl[e] => rl[e].pkt[1].body[1].cookie < n) => CookieIn(e, n)'
  BY BeginsDue
<1>3. wire'[e] = w /\ (Midway(e) => Midway(e)' \/ Dead(e)') /\ hs'[e].sent # <<>> /\ (rl'[e] = rl[e] \/ rl[e].pc = "start")
  BY DEF Begins, Midway, InKex
<1>4. InitsDue(e)'
  <2>1. rl'[e] # rl[e] => rl'[e].pc # "start" /\ rl[e].pc = "start"
    BY DEF Begins
  <2>2. \A i \in DOMAIN w : w[i].t = "init" => CookieIn(e, w[i].body[1].cookie)'
    BY <1>1, <1>2, <2>1 DEF InitsDue
  <2>3. ASSUME rl'[e] = rl[e], rl[e].pc = "start" PROVE CookieIn(e, rl[e].pkt[1].body[1].cookie)'
    BY <1>1, <1>2, <2>3 DEF InitsDue
  <2> QED
    BY <1>1, <1>3, <2>1, <2>2, <2>3 DEF InitsDue
<1>5. MethodsFramed(e)'
  BY <1>1, <1>3 DEF MethodsFramed
<1>6. ExtUncounted(e)'
  BY <1>1, <1>3 DEF ExtUncounted, Begins
<1>7. ~Dead(e)' /\ hs[e].sent = <<>> => Without(w, "newkeys")
  BY <1>1 DEF NewkeysDue
<1>8. NewkeysDue(e)'
  BY <1>0, <1>1, <1>3, <1>7 DEF NewkeysDue, Begins
<1>9. InitSeen(o)'
  BY <1>0, <1>3 DEF InitSeen
<1>10. Causes(e)'
  <2> PICK a, b, t, c : a = hs[e].inits /\ b = hs[o].inits /\ t = Total /\ c = rl[e].pkt[1].body[1].cookie
    OBVIOUS
  <2>1. a \in Nat /\ b \in Nat /\ t \in Nat /\ b <= 1 + t /\ a <= 1 + t
    BY <1>0, <1>1 DEF Numbers, Causes
  <2>2. hs'[e].inits <= 1 + Total'
    <3>1. CASE hs'[e].inits = a
      BY <2>1, <3>1
    <3>2. CASE hs[e].sent = <<>> /\ hs'[e].inits = a + 1 /\ rl'[e] = rl[e]
      <4>1. ~(b <= a /\ a > t)
        BY <1>0, <1>1, <3>2 DEF Causes, Spent, Begins
      <4>2. a + 1 <= 1 + t
        BY ONLY <2>1, <4>1
      <4> QED
        BY <3>2, <4>2
    <3>3. CASE hs[e].sent = <<>> /\ hs'[e].inits = a + 1 /\ rl[e].pc = "start"
      <4>1. c \in Nat /\ a + 1 <= c /\ c <= b
        BY <1>0, <1>1, <3>3 DEF InitsDue, CookieIn, Due, Idle
      <4>2. a + 1 <= 1 + t
        BY ONLY <2>1, <4>1
      <4> QED
        BY <3>3, <4>2
    <3> QED
      BY <1>3, <3>1, <3>2, <3>3 DEF Begins
  <2>3. ~Spent(e) /\ hs[e].sent # <<>> => ~Spent(e)'
    BY <1>0 DEF Spent, Begins
  <2>4. hs'[e].queue # <<>> => ~Spent(e)'
    BY <1>1, <2>3 DEF Causes, Begins, Queued
  <2>5. ~Dead(e)' /\ (\E i, j \in DOMAIN w : i < j /\ w[i].t = "newkeys" /\ w[j].t = "data") => ~Spent(e)'
    <3> SUFFICES ASSUME ~Dead(e)', NEW i \in DOMAIN w, NEW j \in DOMAIN w, i < j, w[i].t = "newkeys", w[j].t = "data"
                 PROVE  ~Spent(e)'
      OBVIOUS
    <3>1. hs[e].sent # <<>>
      BY <1>7 DEF Without
    <3>2. ~Spent(e)
      BY <1>1 DEF Causes
    <3> QED
      BY <2>3, <3>1, <3>2
  <2> QED
    BY <1>3, <2>2, <2>4, <2>5 DEF Causes
<1> QED
  BY <1>2, <1>4, <1>5, <1>6, <1>8, <1>9, <1>10 DEF Reader

-----------------------------------------------------------------------------
(* The steps of an end, one by one                                         *)

\* A step of e from a state of the invariant.
Step(e) == CountInv /\ Others(e) /\ Apart(e)

BothCounted(e) == Counted(e)' /\ Counted(Peer(e))'

LEMMA StepFacts ==
    ASSUME NEW e \in Ends, Step(e)
    PROVE  /\ Numbers /\ Total \in Nat /\ Counted(e) /\ Counted(Peer(e)) /\ Reader(e) /\ StrictWaits(e) /\ hs[e].rleft \in Nat
           /\ InitSeen(Peer(e)) /\ Causes(Peer(e)) /\ Begun(Peer(e))
           /\ Inv /\ Shape /\ Turns(e) /\ Queued(e) /\ Boxes /\ Typed(e) /\ Begun(e) /\ Sourced(e) /\ QueueTyped(hs[e].queue)
           /\ IsASeq(wire[e]) /\ IsASeq(wire[Peer(e)]) /\ (Dead(e) => Dead(e)')
           /\ Peer(e) \in Ends /\ Peer(e) # e
<1>1. KeysInv /\ Counted(e) /\ Counted(Peer(e)) /\ Peer(e) \in Ends /\ Peer(e) # e
  BY PeerFacts DEF Step, CountInv
<1>2. Inv /\ Shape /\ Boxes /\ Turns(e) /\ Queued(e) /\ \A f \in Ends : Local(f)
  BY <1>1 DEF KeysInv, Inv
<1>3. Typed(e) /\ Begun(e) /\ Sourced(e) /\ QueueTyped(hs[e].queue) /\ Begun(Peer(e))
  BY <1>1, <1>2, LocalQueue DEF Local
<1>4. Numbers
  BY <1>2 DEF Numbers, Shape, Local, Typed
<1>5. Total \in Nat
  <2>1. "c" \in Ends /\ "s" \in Ends
    BY DEF Ends
  <2> QED
    BY <1>4, <2>1 DEF Numbers, Total
<1>6. /\ Reader(e) /\ StrictWaits(e) /\ hs[e].rleft \in Nat /\ InitSeen(Peer(e)) /\ Causes(Peer(e))
  BY <1>1 DEF Counted, Reader
<1>7. IsASeq(wire[e]) /\ IsASeq(wire[Peer(e)])
  BY <1>1, <1>2 DEF Shape
<1>8. Dead(e) => Dead(e)'
  BY DEF Step, Apart
<1> QED
  BY <1>1, <1>2, <1>3, <1>4, <1>5, <1>6, <1>7, <1>8

LEMMA TotalGrows ==
    ASSUME NEW e \in Ends, Step(e), app'[Peer(e)].wrote = app[Peer(e)].wrote,
           app'[e].wrote \in Nat, app[e].wrote <= app'[e].wrote
    PROVE  Total' \in Nat /\ Total <= Total' /\ (app[e].wrote < app'[e].wrote => Total < Total')
<1>1. app["c"].wrote \in Nat /\ app["s"].wrote \in Nat
  BY StepFacts DEF Numbers, Ends
<1>2. (e = "c" /\ Peer(e) = "s") \/ (e = "s" /\ Peer(e) = "c")
  BY DEF Ends, Peer
<1> QED
  BY <1>1, <1>2 DEF Total

LEMMA TotalRests ==
    ASSUME NEW e \in Ends, Step(e), \A f \in Ends : app'[f].wrote = app[f].wrote
    PROVE  Total' = Total /\ Total' \in Nat /\ Total <= Total'
<1>1. Total' = Total
  BY DEF Total, Ends
<1>2. Total \in Nat
  BY StepFacts
<1> QED
  BY <1>1, <1>2

LEMMA StepOnward ==
    ASSUME NEW e \in Ends, Step(e), Total' \in Nat, Total <= Total',
           hs'[e].inits = hs[e].inits \/ hs'[e].inits = hs[e].inits + 1
    PROVE  Onward(e)
<1>1. hs[e].inits \in Nat
  BY StepFacts DEF Numbers
<1>2. hs'[e].inits \in Nat /\ hs[e].inits <= hs'[e].inits
  BY <1>1
<1> QED
  BY <1>2 DEF Onward, Step, Others

\* ps go out, or nothing
Goes(e, ps) == IsASeq(ps) /\ (Appended(Peer(e), ps) \/ (ps = <<>> /\ wire'[Peer(e)] = wire[Peer(e)]))

LEMMA Combined ==
    ASSUME NEW e \in Ends, Step(e), Onward(e), NEW ps, Goes(e, ps), Batch(e, ps), Continues(e, ps),
           Reader(e)', InitSeen(Peer(e))', StrictWaits(e)', hs'[e].rleft \in Nat
    PROVE  BothCounted(e)
<1>1. /\ Numbers /\ Total \in Nat /\ Counted(e) /\ Counted(Peer(e)) /\ Begun(Peer(e)) /\ IsASeq(wire[Peer(e)])
      /\ InitSeen(e)
  BY StepFacts DEF Counted
<1>2. IsASeq(ps)
  BY DEF Goes
<1>3. PICK k, l : Extends(Peer(e), ps, k, l)
  BY <1>1, <1>2, AppendedExtends, UntouchedExtends DEF Goes
<1>4. Reader(Peer(e))' /\ StrictWaits(Peer(e))' /\ hs'[Peer(e)].rleft \in Nat
  BY <1>1, <1>3, PeerReader
<1>5. InitSeen(e)'
  BY <1>1, <1>2, <1>3, WriterSeen
<1> QED
  BY <1>4, <1>5 DEF BothCounted, Counted

LEMMA Silent ==
    ASSUME NEW e, hs'[e].inits = hs[e].inits,
           hs'[e].sent # <<>> /\ rd'[e].pending = <<>> => hs[e].sent # <<>> /\ rd[e].pending = <<>>,
           wire'[Peer(e)] = wire[Peer(e)]
    PROVE  Goes(e, <<>>) /\ Batch(e, <<>>) /\ Continues(e, <<>>)
<1>1. IsASeq(<<>>) /\ DOMAIN <<>> = {} /\ Without(<<>>, "newkeys")
  BY Nothing
<1>2. Goes(e, <<>>)
  BY <1>1 DEF Goes
<1>3. Batch(e, <<>>)
  BY <1>1 DEF Batch, NewInits
<1>4. Continues(e, <<>>)
  BY <1>1 DEF Continues
<1> QED
  BY <1>2, <1>3, <1>4

\* e goes on as it was; it may write ps.
LEMMA StaysCounted ==
    ASSUME NEW e \in Ends, Step(e), Total' \in Nat, Total <= Total', NEW ps, Goes(e, ps), Batch(e, ps), Continues(e, ps),
           hs'[e].sent = hs[e].sent, hs'[e].inits = hs[e].inits, InKex(e)' = InKex(e),
           Midway(e) => Midway(e)' \/ Dead(e)', Justified(e),
           wire'[e] = wire[e] \/ (wire'[e] = <<>> /\ Dead(e)'),
           rl'[e].pc = "start" => rl[e].pc = "start" /\ rl'[e].pkt = rl[e].pkt,
           \/ hs'[e].rleft = hs[e].rleft /\ rl'[e].pc = rl[e].pc /\ rl'[e].done = rl[e].done
           \/ hs'[e].rleft = hs[e].rleft /\ rl[e].pc \in {"read", "push", "start"}
           \/ hs'[e].rleft > 0 \/ rl'[e].pc \in {"err", "ended"},
           StrictWaits(e)', hs'[e].rleft \in Nat
    PROVE  BothCounted(e)
<1>1. Numbers /\ Total \in Nat /\ Reader(e) /\ InitSeen(Peer(e)) /\ (Dead(e) => Dead(e)')
  BY StepFacts
<1>2. Onward(e)
  BY StepOnward
<1>3. Keeps(e)
  BY <1>1 DEF Keeps
<1>4. Reader(e)' /\ InitSeen(Peer(e))'
  BY <1>1, <1>2, <1>3, OwnStays
<1> QED
  BY <1>2, <1>4, Combined

\* ... and what it asks for and has queued is what it was
LEMMA AsksNothing ==
    ASSUME NEW e, hs'[e].token => hs[e].token, hs'[e].queue = hs[e].queue
    PROVE  Justified(e)
  BY DEF Justified

\* e writes nothing, takes nothing from the connection and asks for nothing.
LEMMA RestsCounted ==
    ASSUME NEW e \in Ends, Step(e), Total' \in Nat, Total <= Total', UNCHANGED <<wire, rd>>,
           hs'[e].sent = hs[e].sent, hs'[e].inits = hs[e].inits, hs'[e].token => hs[e].token, hs'[e].queue = hs[e].queue,
           InKex(e)' = InKex(e), Midway(e) => Midway(e)' \/ Dead(e)',
           rl'[e].pc = "start" => rl[e].pc = "start" /\ rl'[e].pkt = rl[e].pkt,
           \/ hs'[e].rleft = hs[e].rleft /\ rl'[e].pc = rl[e].pc /\ rl'[e].done = rl[e].done
           \/ hs'[e].rleft = hs[e].rleft /\ rl[e].pc \in {"read", "push", "start"}
           \/ hs'[e].rleft > 0 \/ rl'[e].pc \in {"err", "ended"},
           StrictWaits(e)', hs'[e].rleft \in Nat
    PROVE  BothCounted(e)
<1>1. Justified(e)
  BY AsksNothing
<1>2. Goes(e, <<>>) /\ Batch(e, <<>>) /\ Continues(e, <<>>)
  BY Silent
<1> QED
  BY <1>1, <1>2, StaysCounted

LEMMA ReadFailsCounted ==
    ASSUME NEW e \in Ends, Step(e), ReadPacket(e), Failed(e)
    PROVE  BothCounted(e)
<1>0. StrictWaits(e) /\ hs[e].rleft \in Nat /\ Turns(e) /\ Shape
  BY StepFacts
<1>1. rl[e].pc = "read" /\ rl' = [rl EXCEPT ![e].pc = "err"] /\ UNCHANGED <<scene, wire, up, rd, wr, hs, kl, app>>
  BY DEF ReadPacket
<1>2. rl'[e].pc = "err" /\ rl'[e].done = rl[e].done
  BY <1>0, <1>1 DEF Shape, RlFields
<1>3. Total' \in Nat /\ Total <= Total'
  BY <1>1, TotalRests
<1>4. StrictWaits(e)'
  BY <1>0, <1>1, <1>2 DEF StrictWaits
<1>5. InKex(e)' = InKex(e) /\ Dead(e)'
  BY <1>1, <1>2 DEF InKex, Dead, Broken
<1> QED
  BY <1>0, <1>1, <1>2, <1>3, <1>4, <1>5, RestsCounted

LEMMA PushIncomingCounted ==
    ASSUME NEW e \in Ends, Step(e), PushIncoming(e)
    PROVE  BothCounted(e)
<1>0. StrictWaits(e) /\ hs[e].rleft \in Nat /\ Turns(e) /\ Shape
  BY StepFacts
<1>1. /\ rl[e].pc = "push" /\ rl' = [rl EXCEPT ![e].pc = "read", ![e].pkt = <<>>]
      /\ UNCHANGED <<scene, wire, up, rd, wr, hs, kl>>
      /\ app' = [app EXCEPT ![e].inq = @ \o rl[e].pkt]
  BY DEF PushIncoming
<1>2. rl'[e].pc = "read" /\ rl'[e].done = rl[e].done
  BY <1>0, <1>1 DEF Shape, RlFields
<1>3. \A f \in Ends : app'[f].wrote = app[f].wrote
  BY <1>0, <1>1 DEF Shape, AppFields
<1>4. Total' \in Nat /\ Total <= Total'
  BY <1>3, TotalRests
<1>5. StrictWaits(e)'
  BY <1>0, <1>1, <1>2 DEF StrictWaits
<1>6. InKex(e)' = InKex(e) /\ ~Midway(e)
  BY <1>0, <1>1 DEF InKex, Midway, Turns
<1> QED
  BY <1>0, <1>1, <1>2, <1>4, <1>5, <1>6, RestsCounted

LEMMA ExchangeSeenCounted ==
    ASSUME NEW e \in Ends, Step(e), ExchangeSeen(e)
    PROVE  BothCounted(e)
<1>0. StrictWaits(e) /\ hs[e].rleft \in Nat /\ Turns(e) /\ Shape
  BY StepFacts
<1>1. rl[e].pc = "wait" /\ rl[e].done # "none" /\ UNCHANGED <<scene, wire, up, rd, wr, kl, app>>
  BY DEF ExchangeSeen
<1>2. Total' \in Nat /\ Total <= Total'
  BY <1>1, TotalRests
<1>3. InKex(e)' = InKex(e) /\ ~Midway(e)
  BY <1>0, <1>1 DEF InKex, Midway, Turns
<1>4. CASE rl[e].done = "err"
  <2>1. rl' = [rl EXCEPT ![e].pc = "err"] /\ hs' = hs
    BY <1>4 DEF ExchangeSeen
  <2>2. rl'[e].pc = "err" /\ rl'[e].done = rl[e].done
    BY <1>0, <2>1 DEF Shape, RlFields
  <2>3. StrictWaits(e)'
    BY <1>0, <2>1, <2>2 DEF StrictWaits
  <2> QED
    BY <1>0, <1>1, <1>2, <1>3, <2>1, <2>2, <2>3, RestsCounted
<1>5. CASE rl[e].done # "err"
  <2> PICK x, y : /\ x = (IF rl[e].done = "first" THEN <<P("newkeys", 0)>> ELSE <<>>)
                  /\ y = (IF rl[e].done = "first" THEN "push" ELSE "read")
    OBVIOUS
  <2>1. hs' = [hs EXCEPT ![e].rleft = Threshold] /\ rl' = [rl EXCEPT ![e].done = "none", ![e].pkt = x, ![e].pc = y]
    BY <1>5 DEF ExchangeSeen
  <2>2. rl'[e].pc = y /\ rl'[e].done = "none" /\ y # "start"
    BY <1>0, <2>1 DEF Shape, RlFields
  <2>3. /\ hs'[e].rleft = Threshold /\ hs'[e].sent = hs[e].sent /\ hs'[e].inits = hs[e].inits /\ hs'[e].token = hs[e].token
        /\ hs'[e].queue = hs[e].queue /\ hs'[e].kexDone = hs[e].kexDone
    BY <1>0, <2>1 DEF Shape, HsFields
  <2>4. StrictWaits(e)'
    BY <1>0, <1>1, <1>5, <2>2, <2>3 DEF StrictWaits
  <2>5. hs'[e].rleft \in Nat /\ hs'[e].rleft > 0
    BY <2>3, TransportAssumption
  <2> QED
    BY <1>1, <1>2, <1>3, <2>2, <2>3, <2>4, <2>5, RestsCounted
<1> QED
  BY <1>4, <1>5

LEMMA ReadLoopEndsCounted ==
    ASSUME NEW e \in Ends, Step(e), ReadLoopEnds(e)
    PROVE  BothCounted(e)
<1>0. StrictWaits(e) /\ hs[e].rleft \in Nat /\ Turns(e) /\ Shape
  BY StepFacts
<1>1. /\ rl[e].pc = "err" /\ rl' = [rl EXCEPT ![e].pc = "ended"] /\ hs' = [hs EXCEPT ![e].werr = TRUE]
      /\ UNCHANGED <<scene, wire, up, rd, wr, kl, app>>
  BY DEF ReadLoopEnds
<1>2. rl'[e].pc = "ended" /\ rl'[e].done = rl[e].done
  BY <1>0, <1>1 DEF Shape, RlFields
<1>3. Total' \in Nat /\ Total <= Total'
  BY <1>1, TotalRests
<1>4. /\ hs'[e].rleft = hs[e].rleft /\ hs'[e].sent = hs[e].sent /\ hs'[e].inits = hs[e].inits /\ hs'[e].token = hs[e].token
      /\ hs'[e].queue = hs[e].queue /\ hs'[e].kexDone = hs[e].kexDone /\ hs'[e].strict = hs[e].strict
  BY <1>0, <1>1 DEF Shape, HsFields
<1>5. StrictWaits(e)'
  BY <1>0, <1>2, <1>4 DEF StrictWaits
<1>6. InKex(e)' = InKex(e) /\ Dead(e)'
  BY <1>1, <1>2 DEF InKex, Dead, Broken
<1> QED
  BY <1>0, <1>1, <1>2, <1>3, <1>4, <1>5, <1>6, RestsCounted

LEMMA KexLoopCounted ==
    ASSUME NEW e \in Ends, Step(e), SelectClosed(e) \/ KexLoopDone(e)
    PROVE  BothCounted(e)
<1>0. StrictWaits(e) /\ hs[e].rleft \in Nat /\ Shape
  BY StepFacts
<1>1. /\ rl[e].pc = "ended" /\ UNCHANGED <<scene, wire, up, rd, wr, hs, rl, app>>
      /\ kl[e].pc # "kex" /\ \E x \in {"close", "done"} : kl' = [kl EXCEPT ![e].pc = x]
  BY DEF SelectClosed, KexLoopDone
<1>2. kl'[e].pc # "kex"
  BY <1>0, <1>1 DEF Shape, KlFields
<1>3. Total' \in Nat /\ Total <= Total'
  BY <1>1, TotalRests
<1>4. StrictWaits(e)'
  BY <1>0, <1>1 DEF StrictWaits
<1>5. InKex(e)' = InKex(e) /\ ~Midway(e)
  BY <1>1, <1>2 DEF InKex, Midway
<1> QED
  BY <1>0, <1>1, <1>3, <1>4, <1>5, RestsCounted

LEMMA DrainStartCounted ==
    ASSUME NEW e \in Ends, Step(e), DrainStart(e)
    PROVE  BothCounted(e)
<1>0. StrictWaits(e) /\ hs[e].rleft \in Nat /\ Shape
  BY StepFacts
<1>1. /\ rl[e].pc = "start" /\ rl' = [rl EXCEPT ![e].pc = "wait", ![e].done = "err"]
      /\ UNCHANGED <<scene, wire, up, rd, wr, hs, kl, app>>
  BY DEF DrainStart
<1>2. rl'[e].pc = "wait" /\ rl'[e].done = "err"
  BY <1>0, <1>1 DEF Shape, RlFields
<1>3. Total' \in Nat /\ Total <= Total'
  BY <1>1, TotalRests
<1>4. StrictWaits(e)'
  BY <1>2 DEF StrictWaits
<1>5. InKex(e)' = InKex(e) /\ Dead(e)'
  BY <1>1, <1>2 DEF InKex, Dead, Broken
<1> QED
  BY <1>0, <1>1, <1>2, <1>3, <1>4, <1>5, RestsCounted

LEMMA AppRestsCounted ==
    ASSUME NEW e \in Ends, Step(e), UNCHANGED <<wire, up, rd, hs, rl, kl>>, Total' \in Nat, Total <= Total'
    PROVE  BothCounted(e)
<1>0. StrictWaits(e) /\ hs[e].rleft \in Nat
  BY StepFacts
<1>1. StrictWaits(e)'
  BY <1>0 DEF StrictWaits
<1>2. InKex(e)' = InKex(e) /\ Midway(e)' = Midway(e)
  BY DEF InKex, Midway
<1> QED
  BY <1>0, <1>1, <1>2, RestsCounted

LEMMA AppReadsCounted ==
    ASSUME NEW e \in Ends, Step(e), AppReads(e) \/ CloseReturns(e)
    PROVE  BothCounted(e)
<1>0. Shape
  BY StepFacts
<1>1. UNCHANGED <<wire, up, rd, hs, rl, kl>>
  BY DEF AppReads, CloseReturns
<1>2. \A f \in Ends : app'[f].wrote = app[f].wrote
  <2>1. \E x, y, z : app' = [app EXCEPT ![e].inq = x, ![e].pc = y, ![e].got = z]
    <3>1. CASE AppReads(e)
      <4> PICK p, x, y, z : /\ p = Head(app[e].inq) /\ x = Tail(app[e].inq)
            /\ y = (IF app[e].pc = "wait" THEN (IF p.t = "newkeys" THEN "use" ELSE "quit")
                    ELSE IF p.t = "data" /\ e \in scene.quits /\ app[e].pc = "use" THEN "quit" ELSE app[e].pc)
            /\ z = (IF p.t = "data" THEN Append(app[e].got, p.n) ELSE app[e].got)
        OBVIOUS
      <4>1. app' = [app EXCEPT ![e].inq = x, ![e].pc = y, ![e].got = z]
        BY <1>0, <3>1, Zenon DEF AppReads, Shape, AppFields
      <4> QED
        BY <4>1
    <3>2. CASE CloseReturns(e)
      <4> PICK x, z : x = app[e].inq /\ z = app[e].got
        OBVIOUS
      <4>1. app' = [app EXCEPT ![e].inq = x, ![e].pc = "end", ![e].got = z]
        BY <1>0, <3>2 DEF CloseReturns, Shape, AppFields
      <4> QED
        BY <4>1
    <3> QED
      BY <3>1, <3>2
  <2> QED
    BY <1>0, <2>1 DEF Shape, AppFields
<1>3. Total' \in Nat /\ Total <= Total'
  BY <1>2, TotalRests
<1> QED
  BY <1>1, <1>3, AppRestsCounted

LEMMA ShutsCounted ==
    ASSUME NEW e \in Ends, Step(e), CloseConn(e) \/ AppCloses(e)
    PROVE  BothCounted(e)
<1>0. StrictWaits(e) /\ hs[e].rleft \in Nat /\ Shape /\ Peer(e) \in Ends /\ Peer(e) # e
  BY StepFacts
<1>1. /\ up' = [up EXCEPT ![e] = FALSE] /\ wire' = [wire EXCEPT ![e] = <<>>] /\ UNCHANGED <<rd, hs, rl>>
      /\ kl' = kl \/ (kl[e].pc = "close" /\ kl' = [kl EXCEPT ![e].pc = "drain"])
      /\ app' = app \/ \E x : app' = [app EXCEPT ![e].pc = x]
  BY DEF CloseConn, AppCloses
<1>2. ~up'[e] /\ wire'[e] = <<>> /\ wire'[Peer(e)] = wire[Peer(e)]
  BY <1>0, <1>1 DEF Shape
<1>3. \A f \in Ends : app'[f].wrote = app[f].wrote
  BY <1>0, <1>1 DEF Shape, AppFields
<1>4. Total' \in Nat /\ Total <= Total'
  BY <1>3, TotalRests
<1>5. StrictWaits(e)' /\ Dead(e)'
  BY <1>0, <1>1, <1>2 DEF StrictWaits, Dead
<1>6. InKex(e)' = InKex(e)
  BY <1>0, <1>1 DEF InKex, Shape, KlFields
<1>7. Justified(e)
  BY <1>1, AsksNothing
<1>8. Goes(e, <<>>) /\ Batch(e, <<>>) /\ Continues(e, <<>>)
  BY <1>1, <1>2, Silent
<1> QED
  BY <1>0, <1>1, <1>2, <1>4, <1>5, <1>6, <1>7, <1>8, StaysCounted

LEMMA GiveUpCounted ==
    ASSUME NEW e \in Ends, Step(e), GiveUp(e), HasWrite(e), UNCHANGED <<scene, up, rd, rl, kl>>
    PROVE  BothCounted(e)
<1>0. Shape /\ Peer(e) \in Ends /\ Peer(e) # e
  BY StepFacts
<1>1. UNCHANGED <<wire, wr, hs>> /\ app' = [app EXCEPT ![e].wrote = Len(scene[e].write), ![e].blocked = FALSE]
  BY DEF GiveUp
<1>2. Len(scene[e].write) \in Nat /\ app[e].wrote \in Nat /\ app[e].wrote < Len(scene[e].write)
  BY <1>0, DataTyped DEF Shape, HasWrite
<1>3. app'[Peer(e)] = app[Peer(e)] /\ app'[e].wrote = Len(scene[e].write)
  BY <1>0, <1>1 DEF Shape, AppFields
<1>4. app'[e].wrote \in Nat /\ app[e].wrote <= app'[e].wrote
  BY <1>2, <1>3
<1>5. Total' \in Nat /\ Total <= Total'
  BY <1>3, <1>4, TotalGrows
<1> QED
  BY <1>1, <1>5, AppRestsCounted

LEMMA PushPacketCounted ==
    ASSUME NEW e \in Ends, Step(e), PushPacket(e), HasWrite(e), hs[e].sent = <<>>, UNCHANGED <<scene, up, rd, rl, kl>>
    PROVE  BothCounted(e)
<1>0. Inv /\ Shape /\ Peer(e) \in Ends /\ Peer(e) # e /\ StrictWaits(e) /\ hs[e].rleft \in Nat
  BY StepFacts
<1>1. app' = [app EXCEPT ![e].wrote = @ + 1, ![e].blocked = FALSE]
  BY DEF PushPacket
<1>2. app'[Peer(e)] = app[Peer(e)] /\ app'[e].wrote = app[e].wrote + 1 /\ app[e].wrote \in Nat
  BY <1>0, <1>1 DEF Shape, AppFields
<1>3. app'[e].wrote \in Nat /\ app[e].wrote <= app'[e].wrote /\ app[e].wrote < app'[e].wrote
  BY <1>2
<1>4. Total' \in Nat /\ Total <= Total' /\ Total < Total'
  BY <1>2, <1>3, TotalGrows
<1>5. /\ hs'[e].sent = hs[e].sent /\ hs'[e].inits = hs[e].inits /\ hs'[e].queue = hs[e].queue /\ hs'[e].rleft = hs[e].rleft
      /\ hs'[e].strict = hs[e].strict /\ hs'[e].kexDone = hs[e].kexDone
  <2> PICK x, y, z : /\ x = (IF hs[e].wleft > 0 THEN hs[e].wleft - 1 ELSE hs[e].wleft)
                     /\ y = (hs[e].token \/ hs[e].wleft = 0) /\ z = ~up[e]
    OBVIOUS
  <2>1. hs' = [hs EXCEPT ![e].wleft = x, ![e].token = y, ![e].werr = z]
    BY <1>0 DEF PushPacket, Shape, HsFields
  <2> QED
    BY <1>0, <2>1 DEF Shape, HsFields
<1>6. Justified(e)
  BY <1>4, <1>5 DEF Justified
<1>7. StrictWaits(e)'
  BY <1>0, <1>5 DEF StrictWaits
<1>8. InKex(e)' = InKex(e) /\ Midway(e)' = Midway(e)
  BY DEF InKex, Midway
<1>9. CASE ~up[e]
  <2>1. UNCHANGED wire
    BY <1>9 DEF PushPacket
  <2>2. Goes(e, <<>>) /\ Batch(e, <<>>) /\ Continues(e, <<>>)
    BY <1>5, <2>1, Silent
  <2> QED
    BY <1>0, <1>4, <1>5, <1>6, <1>7, <1>8, <2>1, <2>2, StaysCounted
<1>10. CASE up[e]
  <2> PICK p, ps : p = NextWrite(e) /\ ps = <<p>>
    OBVIOUS
  <2>1. p.t \in {"data", "ignore", "disconnect"}
    BY <1>0, NextTyped
  <2>2. IsASeq(ps) /\ DOMAIN ps = {1} /\ ps[1] = p
    BY ShortSeq
  <2>3. wire'[e] = wire[e] /\ Appended(Peer(e), ps)
    BY <1>0, <1>10, <2>2, PutAppends DEF PushPacket
  <2>4. Goes(e, ps)
    BY <2>2, <2>3 DEF Goes
  <2>5. Batch(e, ps)
    BY <1>4, <1>5, <2>1, <2>2 DEF Batch, NewInits, PacketTypes, Without
  <2>6. Continues(e, ps)
    BY <1>5 DEF Continues
  <2> QED
    BY <1>0, <1>4, <1>5, <1>6, <1>7, <1>8, <2>3, <2>4, <2>5, <2>6, StaysCounted
<1> QED
  BY <1>9, <1>10

LEMMA WritePacketCounted ==
    ASSUME NEW e \in Ends, Step(e), WritePacket(e)
    PROVE  BothCounted(e)
<1>0. Shape /\ Peer(e) \in Ends /\ Peer(e) # e /\ StrictWaits(e) /\ hs[e].rleft \in Nat
  BY StepFacts
<1>1. HasWrite(e) /\ UNCHANGED <<scene, up, rd, rl, kl>>
  BY DEF WritePacket
<1>2. CASE hs[e].werr
  BY <1>1, <1>2, GiveUpCounted DEF WritePacket
<1>3. CASE ~hs[e].werr /\ hs[e].sent = <<>>
  BY <1>1, <1>3, PushPacketCounted DEF WritePacket
<1>4. CASE ~hs[e].werr /\ hs[e].sent # <<>> /\ Len(hs[e].queue) < MaxPending
  <2> PICK q : q = Append(hs[e].queue, NextWrite(e))
    OBVIOUS
  <2>1. hs' = [hs EXCEPT ![e].queue = q] /\ UNCHANGED <<wire, wr>> /\ app' = [app EXCEPT ![e].wrote = @ + 1]
    BY <1>0, <1>4 DEF WritePacket, Shape
  <2>2. app'[Peer(e)] = app[Peer(e)] /\ app'[e].wrote = app[e].wrote + 1 /\ app[e].wrote \in Nat
    BY <1>0, <2>1 DEF Shape, AppFields
  <2>3. app'[e].wrote \in Nat /\ app[e].wrote <= app'[e].wrote /\ app[e].wrote < app'[e].wrote
    BY <2>2
  <2>4. Total' \in Nat /\ Total <= Total' /\ Total < Total'
    BY <2>2, <2>3, TotalGrows
  <2>5. /\ hs'[e].sent = hs[e].sent /\ hs'[e].inits = hs[e].inits /\ hs'[e].token = hs[e].token /\ hs'[e].rleft = hs[e].rleft
        /\ hs'[e].strict = hs[e].strict /\ hs'[e].kexDone = hs[e].kexDone
    BY <1>0, <2>1 DEF Shape, HsFields
  <2>6. Justified(e)
    BY <2>4, <2>5 DEF Justified
  <2>7. StrictWaits(e)'
    BY <1>0, <1>1, <2>5 DEF StrictWaits
  <2>8. InKex(e)' = InKex(e) /\ Midway(e)' = Midway(e)
    BY <1>1 DEF InKex, Midway
  <2>9. Goes(e, <<>>) /\ Batch(e, <<>>) /\ Continues(e, <<>>)
    BY <1>1, <2>1, <2>5, Silent
  <2> QED
    BY <1>0, <1>1, <2>1, <2>4, <2>5, <2>6, <2>7, <2>8, <2>9, StaysCounted
<1>5. CASE ~hs[e].werr /\ hs[e].sent # <<>> /\ ~(Len(hs[e].queue) < MaxPending)
  <2>1. UNCHANGED <<wire, wr, hs>> /\ app' = [app EXCEPT ![e].blocked = TRUE]
    BY <1>5 DEF WritePacket
  <2>2. \A f \in Ends : app'[f].wrote = app[f].wrote
    BY <1>0, <2>1 DEF Shape, AppFields
  <2>3. Total' \in Nat /\ Total <= Total'
    BY <2>2, TotalRests
  <2> QED
    BY <1>1, <2>1, <2>3, AppRestsCounted
<1> QED
  BY <1>2, <1>3, <1>4, <1>5

LEMMA WriteResumesCounted ==
    ASSUME NEW e \in Ends, Step(e), WriteResumes(e)
    PROVE  BothCounted(e)
<1>1. HasWrite(e) /\ UNCHANGED <<scene, up, rd, rl, kl>>
  BY DEF WriteResumes, Waiting, Step, CountInv, KeysInv
<1>2. CASE hs[e].werr
  BY <1>1, <1>2, GiveUpCounted DEF WriteResumes
<1>3. CASE ~hs[e].werr
  BY <1>1, <1>3, PushPacketCounted DEF WriteResumes
<1> QED
  BY <1>2, <1>3

\* e takes a packet from the connection and goes on as it was.
LEMMA ReadsCounted ==
    ASSUME NEW e \in Ends, Step(e), ~Failed(e), Consume(e), wire[e][1].t # "newkeys", UNCHANGED <<up, wr, app>>,
           hs'[e].sent = hs[e].sent, hs'[e].inits = hs[e].inits, hs'[e].queue = hs[e].queue, InKex(e)' = InKex(e),
           Midway(e) => Midway(e)' \/ Dead(e)', Justified(e),
           wire[e][1].t = "init" => rl'[e].pc = "start" \/ Dead(e)',
           rl'[e].pc = "start" => \/ rl[e].pc = "start" /\ rl'[e].pkt = rl[e].pkt
                                  \/ wire[e][1].t = "init" /\ rl'[e].pkt[1].body = wire[e][1].body,
           StrictWaits(e)', hs'[e].rleft \in Nat
    PROVE  BothCounted(e)
<1>0. /\ Inv /\ Boxes /\ Numbers /\ Total \in Nat /\ Reader(e) /\ InitSeen(Peer(e)) /\ (Dead(e) => Dead(e)')
      /\ Typed(e) /\ IsASeq(wire[e])
  BY StepFacts
<1>1. /\ up[e] /\ wire[e] # <<>> /\ wire'[e] = Tail(wire[e]) /\ wire'[Peer(e)] = wire[Peer(e)]
      /\ rd'[e] = Advance(rd[e], wire[e][1], hs[e].strict)
  BY <1>0, ConsumeFacts
<1>2. rd'[e].pending = rd[e].pending
  <2> PICK c, p, s : c = rd[e] /\ p = wire[e][1] /\ s = hs[e].strict
    OBVIOUS
  <2>1. Sound(c) /\ p.t # "newkeys"
    BY <1>0 DEF Typed
  <2>2. Advance(c, p, s).pending = c.pending
    BY <2>1, AdvancePlain
  <2> QED
    BY <1>1, <2>2
<1>3. Total' \in Nat /\ Total <= Total'
  BY TotalRests
<1>4. Onward(e)
  BY <1>3, StepOnward
<1>5. Keeps(e)
  BY <1>0 DEF Keeps
<1>6. Reader(e)' /\ InitSeen(Peer(e))'
  BY <1>0, <1>1, <1>4, <1>5, OwnReads
<1>7. Goes(e, <<>>) /\ Batch(e, <<>>) /\ Continues(e, <<>>)
  BY <1>1, <1>2, Silent
<1> QED
  BY <1>4, <1>6, <1>7, Combined

LEMMA KexReadsCounted ==
    ASSUME NEW e \in Ends, Step(e), ~Failed(e), Consume(e), kl[e].pc = "kex", kl'[e].pc = "kex", UNCHANGED <<up, wr, hs, rl, app>>,
           wire[e][1].t \in {"ignore", "kex"}
    PROVE  BothCounted(e)
<1>0. Turns(e) /\ StrictWaits(e) /\ hs[e].rleft \in Nat
  BY StepFacts
<1>1. rl[e].pc = "wait"
  BY <1>0 DEF Turns
<1>2. Justified(e)
  BY AsksNothing
<1>3. StrictWaits(e)'
  BY <1>0 DEF StrictWaits
<1>4. InKex(e)' = InKex(e) /\ Midway(e)'
  BY DEF InKex, Midway
<1> QED
  BY <1>0, <1>1, <1>2, <1>3, <1>4, ReadsCounted

LEMMA KexIgnoresCounted ==
    ASSUME NEW e \in Ends, Step(e), KexIgnores(e)
    PROVE  BothCounted(e)
<1>0. Inv /\ Boxes
  BY StepFacts
<1>1. ~Failed(e) /\ Consume(e) /\ Incoming(e).t = "ignore" /\ kl[e].pc = "kex" /\ UNCHANGED <<scene, up, wr, hs, rl, kl, app>>
  BY DEF KexIgnores, Skipped, KexReads
<1>2. wire[e][1].t = "ignore"
  BY <1>0, <1>1, ConsumeFacts
<1> QED
  BY <1>1, <1>2, KexReadsCounted

LEMMA SkipReadsCounted ==
    ASSUME NEW e \in Ends, Step(e), SkipGuess(e), ~Failed(e)
    PROVE  BothCounted(e)
<1>0. Inv /\ Boxes /\ Shape /\ Guess(e)
  BY StepFacts DEF Inv
<1>1. /\ Consume(e) /\ kl[e].pc = "kex" /\ kl[e].skip /\ kl' = [kl EXCEPT ![e].skip = FALSE]
      /\ UNCHANGED <<scene, up, wr, hs, rl, app>>
  BY DEF SkipGuess, KexReads
<1>2. wire[e][1].t = "kex"
  <2>1. up[e]
    BY <1>0, <1>1, ConsumeFacts
  <2> QED
    BY <1>0, <1>1, <2>1 DEF Guess, GuessDue
<1>3. kl'[e].pc = "kex"
  BY <1>0, <1>1 DEF Shape, KlFields
<1> QED
  BY <1>1, <1>2, <1>3, KexReadsCounted

LEMMA ReceivesCounted ==
    ASSUME NEW e \in Ends, Step(e), KexReceives(e), ~Failed(e), Acceptable(e, Head(kl[e].script).m, Incoming(e))
    PROVE  BothCounted(e)
<1>0. Inv /\ Boxes /\ Shape
  BY StepFacts
<1> PICK m, p, g : /\ m = Head(kl[e].script).m /\ p = Incoming(e)
                   /\ g = IF m = "gexrequest" THEN ChooseDH(p.body[1].req)
                          ELSE IF m = "gexgroup" THEN p.body[1].req.pref ELSE kl[e].group
  OBVIOUS
<1>1. /\ Consume(e) /\ kl[e].pc = "kex"
      /\ kl' = [kl EXCEPT ![e].script = Tail(@), ![e].group = g]
      /\ UNCHANGED <<scene, up, wr, hs, rl, app>>
  BY <1>0 DEF KexReceives, KexReads, Shape, KlFields
<1>2. wire[e][1].t = "kex"
  BY <1>0, <1>1, ConsumeFacts DEF Acceptable
<1>3. kl'[e].pc = "kex"
  BY <1>0, <1>1 DEF Shape, KlFields
<1> QED
  BY <1>1, <1>2, <1>3, KexReadsCounted

\* What readLoop counts as read when the threshold is reached, between two
\* exchanges, is the init of an exchange that its peer has begun, or data.
LEMMA ReadAsks ==
    ASSUME NEW e \in Ends, Step(e), rl[e].pc = "read", ~Failed(e), Consume(e), ~Skipped(e), ~(hs[e].rleft > 0), hs[e].sent = <<>>,
           wire[e][1].t # "newkeys"
    PROVE  ~Spent(e)
<1> PICK o, w : o = Peer(e) /\ w = wire[e]
  OBVIOUS
<1>0. /\ Inv /\ Boxes /\ Numbers /\ Turns(e) /\ StrictWaits(e) /\ IsASeq(w) /\ o \in Ends
      /\ InitsDue(e) /\ MethodsFramed(e) /\ ExtUncounted(e) /\ Causes(e)
  BY StepFacts DEF Reader
<1>1. up[e] /\ w # <<>> /\ Incoming(e) = w[1]
  BY <1>0, ConsumeFacts
<1>2. 1 \in DOMAIN w /\ \A j \in DOMAIN w : ~(j < 1) /\ j # 0
  <2>1. Len(w) \in Nat \ {0} /\ DOMAIN w = 1 .. Len(w)
    BY <1>0, <1>1, TailFacts
  <2> QED
    BY ONLY <2>1
<1>3. ~InKex(e) /\ ~Midway(e) /\ ~Dead(e) /\ rl[e].done = "none"
  BY <1>0, <1>1 DEF Turns, InKex, Midway, Dead, Broken
<1>4. w[1].t \in PacketTypes /\ w[1].t # "kex"
  <2>1. ~Framed(w, 1)
    BY <1>2 DEF Framed
  <2> QED
    BY <1>0, <1>2, <1>3, <2>1 DEF MethodsFramed
<1>5. w[1].t # "extinfo"
  <2>1. ~(1 - 1 \in DOMAIN w)
    BY <1>2
  <2> QED
    BY <1>0, <1>2, <2>1 DEF ExtUncounted
<1>6. w[1].t # "ignore"
  BY <1>0, <1>1 DEF Skipped, StrictWaits
<1>7. w[1].t # "disconnect"
  BY <1>1 DEF Failed, ReadRefuses
<1>8. CASE w[1].t = "data"
  <2>1. ~Without(w, "data")
    BY <1>2, <1>8 DEF Without
  <2> QED
    BY <1>0, <1>3, <2>1 DEF Causes
<1>9. CASE w[1].t = "init"
  <2> PICK n, a, b : n = w[1].body[1].cookie /\ a = hs[e].inits /\ b = hs[o].inits
    OBVIOUS
  <2>1. n \in Nat /\ a + 1 <= n /\ n <= b
    BY <1>0, <1>2, <1>9 DEF InitsDue, CookieIn, Due, Idle
  <2>2. a \in Nat /\ b \in Nat
    BY <1>0 DEF Numbers
  <2>3. ~(b <= a)
    BY ONLY <2>1, <2>2
  <2> QED
    BY <2>3 DEF Spent
<1> QED
  BY <1>4, <1>5, <1>6, <1>7, <1>8, <1>9 DEF PacketTypes

LEMMA ReadPacketCounted ==
    ASSUME NEW e \in Ends, Step(e), ReadPacket(e)
    PROVE  BothCounted(e)
<1>0. /\ Inv /\ Boxes /\ Shape /\ Turns(e) /\ Sourced(e) /\ StrictWaits(e) /\ hs[e].rleft \in Nat
      /\ Peer(e) \in Ends /\ Peer(e) # e
  BY StepFacts
<1>1. CASE Failed(e)
  BY <1>1, ReadFailsCounted
<1>2. CASE ~Failed(e)
  <2>1. Consume(e) /\ UNCHANGED <<scene, up, wr, kl, app>> /\ rl[e].pc = "read"
    BY <1>2 DEF ReadPacket
  <2>2. ~Broken(e) /\ ~InKex(e) /\ ~Midway(e) /\ InKex(e)' = InKex(e)
    BY <1>0, <2>1 DEF Turns, Broken, InKex, Midway
  <2>3. wire[e][1].t # "newkeys" /\ Incoming(e) = wire[e][1]
    BY <1>0, <1>2, <2>1, <2>2, ConsumeFacts DEF Sourced
  <2>4. CASE Skipped(e)
    <3>1. UNCHANGED <<rl, hs>> /\ wire[e][1].t = "ignore"
      BY <1>2, <2>3, <2>4 DEF ReadPacket, Skipped
    <3>2. Justified(e)
      BY <3>1, AsksNothing
    <3>3. StrictWaits(e)'
      BY <1>0, <3>1 DEF StrictWaits
    <3> QED
      BY <1>0, <1>2, <2>1, <2>2, <2>3, <3>1, <3>2, <3>3, ReadsCounted
  <2>5. CASE ~Skipped(e)
    <3> PICK r, p : p = wire[e][1] /\ r = ReadOutcome(e, p)
      OBVIOUS
    <3>1. rl' = [rl EXCEPT ![e] = r]
          /\ hs' = IF hs[e].rleft > 0 THEN [hs EXCEPT ![e].rleft = @ - 1] ELSE [hs EXCEPT ![e].token = TRUE]
      BY <1>2, <2>3, <2>5 DEF ReadPacket
    <3>2. /\ r.pc = "start" => p.t = "init" /\ r.pkt = <<p>>
          /\ p.t = "init" => r.pc = "start"
          /\ r.done = "none"
      <4>1. DOMAIN rl[e] = RlFields /\ rl[e].done = "none"
        BY <1>0, <2>1 DEF Shape, Turns
      <4> QED
        BY <2>1, <4>1 DEF ReadOutcome, RlFields
    <3>3. rl'[e] = r
      BY <1>0, <3>1 DEF Shape
    <3>4. /\ hs'[e].sent = hs[e].sent /\ hs'[e].inits = hs[e].inits /\ hs'[e].queue = hs[e].queue
          /\ hs'[e].strict = hs[e].strict /\ hs'[e].kexDone = hs[e].kexDone
          /\ hs[e].rleft > 0 => hs'[e].rleft = hs[e].rleft - 1 /\ hs'[e].token = hs[e].token
          /\ ~(hs[e].rleft > 0) => hs'[e].rleft = hs[e].rleft
      BY <1>0, <3>1 DEF Shape, HsFields
    <3>5. hs'[e].rleft \in Nat
      BY <1>0, <3>4
    <3>6. Justified(e)
      BY <1>2, <2>1, <2>3, <2>5, <3>4, ReadAsks DEF Justified
    <3>7. StrictWaits(e)'
      BY <1>0, <2>1, <3>2, <3>3, <3>4 DEF StrictWaits
    <3>8. rl'[e].pc = "start" => wire[e][1].t = "init" /\ rl'[e].pkt[1].body = wire[e][1].body
      BY <3>2, <3>3
    <3> QED
      BY <1>2, <2>1, <2>2, <2>3, <3>2, <3>3, <3>4, <3>5, <3>6, <3>7, <3>8, ReadsCounted
  <2> QED
    BY <2>4, <2>5
<1> QED
  BY <1>1, <1>2

\* The queue is written when an exchange has ended.
LEMMA QueueBatch ==
    ASSUME NEW e \in Ends, Step(e), InKex(e), hs'[e].inits = hs[e].inits, hs'[e].sent = <<>>
    PROVE  Batch(e, hs[e].queue) /\ Continues(e, hs[e].queue)
<1> PICK q : q = hs[e].queue
  OBVIOUS
<1>1. QueueTyped(q) /\ IsASeq(q)
  BY StepFacts DEF Shape
<1>2. Without(q, "newkeys")
  BY <1>1, QueuePlain
<1>3. \A i \in DOMAIN q : q # <<>>
  BY ShortSeq
<1>4. Batch(e, q)
  BY <1>1, <1>2, <1>3 DEF Batch, NewInits, PacketTypes, QueueTyped
<1>5. Continues(e, q)
  BY DEF Continues
<1> QED
  BY <1>4, <1>5

LEMMA FlushAsks ==
    ASSUME Shape, NEW e \in Ends, NEW ok, NEW h, h = Flush(e, ok)
    PROVE  ~h.token /\ h.rleft = hs[e].rleft /\ h.kexDone = hs[e].kexDone
  BY DEF Shape, HsFields, Flush

LEMMA ExchangeFailsCounted ==
    ASSUME NEW e \in Ends, Step(e), kl[e].pc = "kex", ExchangeFails(e), UNCHANGED <<scene, up, rd, app>>
    PROVE  BothCounted(e)
<1>0. /\ Inv /\ Shape /\ Turns(e) /\ StrictWaits(e) /\ hs[e].rleft \in Nat /\ Numbers /\ Total \in Nat /\ Reader(e)
      /\ InitSeen(Peer(e)) /\ Peer(e) \in Ends /\ Peer(e) # e
  BY StepFacts
<1> PICK h, k : h = Flush(e, FALSE) /\ k = AfterExchange(e, h)
  OBVIOUS
<1>1. /\ hs' = [hs EXCEPT ![e] = h] /\ kl' = [kl EXCEPT ![e] = k] /\ rl' = [rl EXCEPT ![e].done = "err"]
      /\ IF up[e] THEN Put(e, hs[e].queue) ELSE UNCHANGED <<wire, wr>>
  BY DEF ExchangeFails
<1>2. /\ h.sent = <<>> /\ h.queue = <<>> /\ h.inits = hs[e].inits /\ ~h.token /\ h.rleft = hs[e].rleft
      /\ k.pc \in {"close", "select"}
  <2>1. h.sent = <<>> /\ h.queue = <<>> /\ h.inits = hs[e].inits
    BY ONLY <1>0, e \in Ends, h = Flush(e, FALSE), FlushFacts
  <2>2. ~h.token /\ h.rleft = hs[e].rleft
    BY ONLY <1>0, e \in Ends, h = Flush(e, FALSE), FlushAsks
  <2>3. k.pc \in {"close", "select"}
    BY ONLY <1>0, e \in Ends, k = AfterExchange(e, h), AfterFacts
  <2> QED
    BY <2>1, <2>2, <2>3
<1>3. hs'[e] = h /\ kl'[e] = k /\ rl'[e].done = "err" /\ rl'[e].pc = rl[e].pc /\ rl[e].pc = "wait"
  BY <1>0, <1>1 DEF Shape, RlFields, Turns
<1>4. Total' \in Nat /\ Total <= Total'
  BY TotalRests
<1>5. Onward(e)
  BY <1>2, <1>3, <1>4, StepOnward
<1>6. EndsKex(e) /\ Dead(e)' /\ InKex(e)
  BY <1>2, <1>3 DEF EndsKex, InKex, Dead, Broken
<1>7. StrictWaits(e)' /\ hs'[e].rleft \in Nat
  BY <1>0, <1>2, <1>3 DEF StrictWaits
<1>8. CASE up[e]
  <2>1. IsASeq(hs[e].queue) /\ Put(e, hs[e].queue)
    BY <1>0, <1>1, <1>8 DEF Shape
  <2>2. wire'[e] = wire[e] /\ Appended(Peer(e), hs[e].queue)
    BY <1>0, <2>1, PutAppends
  <2>3. Goes(e, hs[e].queue)
    BY <2>1, <2>2 DEF Goes
  <2>4. Batch(e, hs[e].queue) /\ Continues(e, hs[e].queue)
    BY <1>2, <1>3, <1>6, QueueBatch
  <2>5. Reader(e)' /\ InitSeen(Peer(e))'
    BY <1>0, <1>5, <1>6, <2>2, OwnFails
  <2> QED
    BY <1>5, <1>7, <2>3, <2>4, <2>5, Combined
<1>9. CASE ~up[e]
  <2>1. UNCHANGED wire
    BY <1>1, <1>9
  <2>2. Goes(e, <<>>) /\ Batch(e, <<>>) /\ Continues(e, <<>>)
    BY <1>2, <1>3, <2>1, Silent
  <2>3. Reader(e)' /\ InitSeen(Peer(e))'
    BY <1>0, <1>5, <1>6, <2>1, OwnFails
  <2> QED
    BY <1>5, <1>7, <2>2, <2>3, Combined
<1> QED
  BY <1>8, <1>9

LEMMA KexSendsCounted ==
    ASSUME NEW e \in Ends, Step(e), KexSends(e)
    PROVE  BothCounted(e)
<1>0. /\ Inv /\ Shape /\ Turns(e) /\ Begun(e) /\ Sourced(e) /\ StrictWaits(e) /\ hs[e].rleft \in Nat
      /\ Peer(e) \in Ends /\ Peer(e) # e
  BY StepFacts
<1>1. kl[e].pc = "kex" /\ kl[e].script # <<>> /\ UNCHANGED <<scene, up, rd, app>>
  BY DEF KexSends
<1>2. CASE ~up[e]
  BY <1>1, <1>2, ExchangeFailsCounted DEF KexSends
<1>3. CASE up[e]
  <2> PICK m, p, ps : m = Head(kl[e].script).m /\ p = KexMessage(e, m) /\ ps = Noise(e) \o <<p>>
    OBVIOUS
  <2>1. Put(e, ps) /\ kl' = [kl EXCEPT ![e].script = Tail(@)] /\ UNCHANGED <<hs, rl>>
    BY <1>3 DEF KexSends
  <2>2. p.t = "kex"
    BY DEF KexMessage, B
  <2>3. IsASeq(ps) /\ Without(ps, "newkeys")
    BY ONLY <2>2, e \in Ends, ps = Noise(e) \o <<p>>, NoisePackets
  <2>4. Within(ps, scene[e].noise)
    BY ONLY <2>2, e \in Ends, ps = Noise(e) \o <<p>>, NoisePackets
  <2>5. InKex(e) /\ hs[e].sent # <<>> /\ rd[e].pending = <<>>
    BY <1>0, <1>1 DEF InKex, Begun, Sourced, Settled
  <2>6. InKex(e)' = InKex(e) /\ Midway(e)' /\ rl[e].pc = "wait"
    BY <1>0, <1>1, <2>1 DEF InKex, Midway, Shape, KlFields, Turns
  <2>7. wire'[e] = wire[e] /\ Goes(e, ps)
    BY ONLY e \in Ends, <1>0, <2>1, <2>3, PutAppends DEF Goes
  <2>8. Batch(e, ps)
    BY <2>1, <2>3, <2>4, <2>5 DEF Batch, NewInits, PacketTypes, Within
  <2>9. Continues(e, ps)
    BY <2>3, <2>5 DEF Continues
  <2>10. Justified(e) /\ StrictWaits(e)'
    BY <1>0, <2>1, AsksNothing DEF StrictWaits
  <2>11. Total' \in Nat /\ Total <= Total'
    BY <1>1, TotalRests
  <2> QED
    BY <1>0, <2>1, <2>6, <2>7, <2>8, <2>9, <2>10, <2>11, StaysCounted
<1> QED
  BY <1>2, <1>3

LEMMA KeysExt ==
    ASSUME NEW ps, NEW extra, ps = <<P("newkeys", 0)>> \o extra, extra = <<>> \/ extra = <<P("extinfo", 0)>>
    PROVE  /\ IsASeq(ps) /\ ps[1].t = "newkeys"
           /\ \A i \in DOMAIN ps : (i = 1 /\ ps[i].t = "newkeys") \/ (i = 2 /\ ps[i].t = "extinfo")
<1> PICK p, q : p = P("newkeys", 0) /\ q = P("extinfo", 0)
  OBVIOUS
<1>1. p.t = "newkeys" /\ q.t = "extinfo"
  BY DEF P
<1>2. CASE extra = <<>>
  <2>1. ps = <<p>>
    BY <1>2
  <2>2. IsASeq(ps) /\ DOMAIN ps = {1} /\ ps[1] = p
    BY ONLY <2>1, ShortSeq
  <2> QED
    BY ONLY <1>1, <2>2
<1>3. CASE extra = <<q>>
  <2>1. ps = <<p>> \o <<q>>
    BY <1>3
  <2>2. IsASeq(<<p>>) /\ IsASeq(<<q>>) /\ Len(<<p>>) = 1 /\ Len(<<q>>) = 1 /\ <<p>>[1] = p /\ <<q>>[1] = q
    BY ShortSeq
  <2>3. IsASeq(ps) /\ DOMAIN ps = 1 .. 1 + 1 /\ ps[1] = p /\ ps[1 + 1] = q
    BY ONLY <2>1, <2>2, ConcatSeq
  <2>4. \A i \in DOMAIN ps : (i = 1 /\ ps[i] = p) \/ (i = 2 /\ ps[i] = q)
    BY ONLY <2>3
  <2> QED
    BY ONLY <1>1, <2>3, <2>4
<1> QED
  BY <1>2, <1>3

LEMMA SendNewKeysCounted ==
    ASSUME NEW e \in Ends, Step(e), SendNewKeys(e)
    PROVE  BothCounted(e)
<1> PICK o : o = Peer(e)
  OBVIOUS
<1>0. /\ Inv /\ Shape /\ Boxes /\ Turns(e) /\ Begun(e) /\ Typed(e) /\ StrictWaits(e) /\ hs[e].rleft \in Nat
      /\ o \in Ends /\ o # e /\ Peer(e) = o
  BY StepFacts
<1>1. kl[e].pc = "kex" /\ rd[e].pending = <<>> /\ UNCHANGED <<scene, up, app>>
  BY DEF SendNewKeys
<1>2. CASE ~up[e] \/ \E d \in Directions : kl[e].alg[1].cipher[d] \notin KnownCiphers
  BY <1>1, <1>2, ExchangeFailsCounted DEF SendNewKeys
<1>3. CASE ~(~up[e] \/ \E d \in Directions : kl[e].alg[1].cipher[d] \notin KnownCiphers)
  <2> PICK v, a, extra, in1, new, ps, c, x, id :
        /\ v = Hash(e, kl[e].group) /\ a = kl[e].alg[1]
        /\ extra = IF e = "s" /\ hs[e].sid = <<>> /\ kl[e].req[1].ext THEN <<P("extinfo", 0)>> ELSE <<>>
        /\ in1 = NewCipher(a.cipher[OutDir(o)], OutDir(o), v)
        /\ new = NewCipher(a.cipher[OutDir(e)], OutDir(e), v)
        /\ ps = <<P("newkeys", 0)>> \o extra
        /\ c = [wr[e] EXCEPT !.pending = <<new>>] /\ x = WriteAll(c, ps, hs[e].strict)
        /\ id = IF hs[e].sid = <<>> THEN v ELSE hs[e].sid
    OBVIOUS
  <2>1. /\ hs' = [hs EXCEPT ![e].sid = id]
        /\ rd' = [rd EXCEPT ![e].pending = <<in1>>]
        /\ wire' = IF up[o] THEN [wire EXCEPT ![o] = @ \o x.out] ELSE wire
        /\ UNCHANGED <<rl, kl>>
    BY <1>0, <1>3, Zenon DEF SendNewKeys, Shape, HsFields
  <2>2. /\ IsASeq(ps) /\ ps[1].t = "newkeys"
        /\ \A i \in DOMAIN ps : (i = 1 /\ ps[i].t = "newkeys") \/ (i = 2 /\ ps[i].t = "extinfo")
    <3>1. extra = <<>> \/ extra = <<P("extinfo", 0)>>
      OBVIOUS
    <3> QED
      BY ONLY <3>1, ps = <<P("newkeys", 0)>> \o extra, KeysExt
  <2>3. /\ hs'[e].sent = hs[e].sent /\ hs'[e].inits = hs[e].inits /\ hs'[e].token = hs[e].token /\ hs'[e].queue = hs[e].queue
        /\ hs'[e].rleft = hs[e].rleft /\ hs'[e].strict = hs[e].strict /\ hs'[e].kexDone = hs[e].kexDone
    BY <1>0, <2>1, Zenon DEF Shape, HsFields
  <2>4. rd'[e].pending # <<>>
    <3>1. DOMAIN rd = Ends /\ Sound(rd[e])
      BY <1>0 DEF Boxes, Typed
    <3>2. rd'[e] = [rd[e] EXCEPT !.pending = <<in1>>]
      BY <2>1, <3>1, Zenon
    <3>3. rd'[e].pending = <<in1>>
      BY <3>1, <3>2 DEF Sound, CsFields
    <3> QED
      BY <3>3
  <2>5. InKex(e) /\ hs[e].sent # <<>> /\ rl[e].pc = "wait" /\ InKex(e)' = InKex(e) /\ Midway(e)'
    <3>1. InKex(e) /\ hs[e].sent # <<>> /\ rl[e].pc = "wait"
      BY <1>0, <1>1, Zenon DEF InKex, Begun, Turns
    <3> QED
      BY <2>1, <3>1, Zenon DEF InKex, Midway
  <2>6. wire'[e] = wire[e] /\ Goes(e, ps)
    <3>1. Copy(x.out, ps)
      BY ONLY <2>2, x = WriteAll(c, ps, hs[e].strict), WriteAllOut DEF Copy
    <3>2. wire'[e] = wire[e] /\ wire'[o] = IF up[o] THEN wire[o] \o x.out ELSE wire[o]
      BY <1>0, <2>1, Zenon DEF Shape
    <3>3. Appended(o, ps)
      BY <3>1, <3>2, Zenon DEF Appended
    <3> QED
      BY <1>0, <2>2, <3>2, <3>3 DEF Goes
  <2>7. Batch(e, ps)
    BY ONLY <1>1, <2>2, <2>3, <2>5 DEF Batch, NewInits, PacketTypes
  <2>8. Continues(e, ps)
    BY <2>4 DEF Continues
  <2>9. Justified(e)
    BY ONLY <2>3, AsksNothing
  <2>10. StrictWaits(e)' /\ hs'[e].rleft \in Nat
    BY ONLY <1>0, <2>1, <2>3 DEF StrictWaits
  <2>11. Total' \in Nat /\ Total <= Total'
    BY <1>1, TotalRests
  <2> QED
    BY ONLY e \in Ends, Step(e), <2>1, <2>3, <2>5, <2>6, <2>7, <2>8, <2>9, <2>10, <2>11, StaysCounted
<1> QED
  BY <1>2, <1>3

LEMMA TakeNewKeysCounted ==
    ASSUME NEW e \in Ends, Step(e), TakeNewKeys(e)
    PROVE  BothCounted(e)
<1> PICK o : o = Peer(e)
  OBVIOUS
<1>0. /\ Inv /\ Shape /\ Turns(e) /\ StrictWaits(e) /\ hs[e].rleft \in Nat /\ Numbers /\ Total \in Nat /\ Reader(e)
      /\ InitSeen(Peer(e)) /\ o \in Ends /\ o # e /\ Peer(e) = o /\ IsASeq(wire[e])
  BY StepFacts
<1>1. kl[e].pc = "kex" /\ UNCHANGED <<scene, up, app>>
  BY DEF TakeNewKeys, KexReads
<1>2. CASE Failed(e) \/ Incoming(e).t # "newkeys"
  BY <1>1, <1>2, ExchangeFailsCounted DEF TakeNewKeys
<1>3. CASE ~Failed(e) /\ Incoming(e).t = "newkeys"
  <2> PICK h, h1, k, ps, out, d :
        /\ h = Flush(e, TRUE) /\ h1 = [h EXCEPT !.kexDone = TRUE] /\ k = AfterExchange(e, h)
        /\ ps = hs[e].queue /\ out = WriteAll(wr[e], ps, hs[e].strict).out
        /\ d = (IF hs[e].kexDone THEN "again" ELSE "first")
    OBVIOUS
  <2>1. up[e] /\ wire[e] # <<>> /\ wire[e][1].t = "newkeys"
    <3>1. up[e] /\ wire[e] # <<>> /\ IsASeq(wire[e])
      BY <1>0, <1>3 DEF Failed
    <3> QED
      BY <1>3, <3>1, TailSeq DEF Incoming
  <2>2. /\ hs' = [hs EXCEPT ![e] = h1] /\ rl' = [rl EXCEPT ![e].done = d] /\ kl' = [kl EXCEPT ![e] = k]
        /\ wire' = [f \in Ends |-> IF f = e THEN Tail(wire[e])
                                   ELSE IF up[e] /\ up[f] THEN wire[f] \o out ELSE wire[f]]
    BY <1>3 DEF TakeNewKeys
  <2>3. /\ h1.sent = <<>> /\ h1.queue = <<>> /\ h1.inits = hs[e].inits /\ ~h1.token /\ h1.rleft = hs[e].rleft
        /\ h1.kexDone = TRUE /\ k.pc \in {"close", "select"}
    <3>1. DOMAIN h = HsFields /\ h.sent = <<>> /\ h.queue = <<>> /\ h.inits = hs[e].inits
      BY ONLY <1>0, e \in Ends, h = Flush(e, TRUE), FlushFacts, Zenon
    <3>2. ~h.token /\ h.rleft = hs[e].rleft
      BY ONLY <1>0, e \in Ends, h = Flush(e, TRUE), FlushAsks
    <3>3. k.pc \in {"close", "select"}
      BY ONLY <1>0, e \in Ends, k = AfterExchange(e, h), AfterFacts
    <3>4. /\ h1.sent = h.sent /\ h1.queue = h.queue /\ h1.inits = h.inits /\ h1.token = h.token /\ h1.rleft = h.rleft
          /\ h1.kexDone = TRUE
      BY ONLY <3>1, h1 = [h EXCEPT !.kexDone = TRUE] DEF HsFields
    <3> QED
      BY ONLY <3>1, <3>2, <3>3, <3>4
  <2>4. /\ hs'[e] = h1 /\ kl'[e] = k /\ rl'[e].pc = rl[e].pc /\ rl'[e].done = d /\ rl[e].pc = "wait" /\ rl[e].done = "none"
    BY <1>0, <1>1, <2>2 DEF Shape, RlFields, Turns
  <2>5. wire'[e] = Tail(wire[e]) /\ wire'[o] = IF up[o] THEN wire[o] \o out ELSE wire[o]
    BY <1>0, <2>1, <2>2
  <2>6. Goes(e, ps)
    <3>1. IsASeq(ps)
      BY <1>0 DEF Shape
    <3>2. Copy(out, ps)
      BY ONLY <3>1, out = WriteAll(wr[e], ps, hs[e].strict).out, WriteAllOut DEF Copy
    <3> QED
      BY <1>0, <2>5, <3>1, <3>2 DEF Goes, Appended
  <2>7. InKex(e) /\ ~Dead(e) /\ EndsKex(e)
    BY <1>1, <2>1, <2>3, <2>4 DEF InKex, Dead, Broken, EndsKex
  <2>8. Batch(e, ps) /\ Continues(e, ps)
    BY <2>3, <2>4, <2>7, QueueBatch
  <2>9. Total' \in Nat /\ Total <= Total'
    BY <1>1, TotalRests
  <2>10. Onward(e)
    BY <2>3, <2>4, <2>9, StepOnward
  <2>11. \A i, j \in DOMAIN wire[e] : wire[e][i].t = "newkeys" /\ wire[e][j].t = "newkeys" => i = j
    BY <2>7 DEF Step, CountInv, KeysInv, Stepped, Once
  <2>12. Reader(e)' /\ InitSeen(Peer(e))'
    BY <1>0, <2>1, <2>5, <2>7, <2>10, <2>11, OwnTakes
  <2>13. StrictWaits(e)' /\ hs'[e].rleft \in Nat
    BY <1>0, <2>3, <2>4 DEF StrictWaits
  <2> QED
    BY <2>6, <2>8, <2>10, <2>12, <2>13, Combined
<1> QED
  BY <1>2, <1>3

LEMMA NegotiateCounted ==
    ASSUME NEW e \in Ends, Step(e), Negotiate(e)
    PROVE  BothCounted(e)
<1>0. Shape /\ Turns(e) /\ StrictWaits(e) /\ hs[e].rleft \in Nat
  BY StepFacts
<1>1. kl[e].pc = "kex" /\ UNCHANGED <<scene, up, rd, app>>
  BY DEF Negotiate
<1>2. CASE ExchangeFails(e)
  BY <1>1, <1>2, ExchangeFailsCounted
<1>3. CASE ~ExchangeFails(e)
  <2> PICK a, s, script, sc, sk :
         /\ a = FindAgreed(ClientInit(e), ServerInit(e))
         /\ s = (hs[e].sid = <<>> /\ kl[e].req[1].strict /\ hs[e].sent[1].strict)
         /\ script = KexScript(a.kex, e = "c")
         /\ sc = IF GuessedRight(e) THEN Tail(script) ELSE script
         /\ sk = WrongGuess(e)
    OBVIOUS
  <2>1. /\ hs' = [hs EXCEPT ![e].strict = @ \/ s]
        /\ kl' = [kl EXCEPT ![e].alg = <<a>>, ![e].skip = sk, ![e].script = sc]
        /\ UNCHANGED <<wire, wr, rl>>
    BY <1>3 DEF Negotiate
  <2>2. kl'[e].pc = "kex"
    BY <1>0, <1>1, <2>1 DEF Shape, KlFields
  <2>3. /\ hs'[e].sent = hs[e].sent /\ hs'[e].inits = hs[e].inits /\ hs'[e].token = hs[e].token /\ hs'[e].queue = hs[e].queue
        /\ hs'[e].rleft = hs[e].rleft /\ hs'[e].kexDone = hs[e].kexDone
    <3> PICK z : z = (hs[e].strict \/ s)
      OBVIOUS
    <3>1. hs' = [hs EXCEPT ![e].strict = z]
      BY <1>0, <2>1 DEF Shape, HsFields
    <3> QED
      BY <1>0, <3>1 DEF Shape, HsFields
  <2>4. InKex(e)' = InKex(e) /\ Midway(e)' /\ rl[e].pc = "wait"
    BY <1>0, <1>1, <2>2 DEF InKex, Midway, Turns
  <2>5. StrictWaits(e)'
    BY <1>0, <2>1, <2>3, <2>4 DEF StrictWaits
  <2>6. Total' \in Nat /\ Total <= Total'
    BY <1>1, TotalRests
  <2> QED
    BY <1>0, <1>1, <2>1, <2>3, <2>4, <2>5, <2>6, RestsCounted
<1> QED
  BY <1>2, <1>3

LEMMA OfferFirst ==
    ASSUME NEW e \in Ends, NEW init, NEW ps, ps = OfferPackets(e, init)
    PROVE  /\ 1 \in DOMAIN ps /\ ps[1].t = "init" /\ ps[1].body[1] = init
           /\ \A i \in DOMAIN ps : i = 1 \/ (i > 1 /\ ps[i].t = "kex")
<1> PICK p, q : /\ p = B("init", init)
                /\ q = B("kex", [m |-> Head(KexScript(Head(init.kex), TRUE)).m,
                                 ok |-> ~scene[e].bad, req |-> scene[e].gex, h |-> <<>>])
  OBVIOUS
<1>1. p.t = "init" /\ q.t = "kex" /\ p.body = <<init>>
  BY DEF B
<1>2. p.body[1] = init
  BY <1>1
<1>3. CASE init.follows
  <2>1. ps = <<p>> \o <<q>>
    BY <1>3 DEF OfferPackets
  <2>2. IsASeq(<<p>>) /\ IsASeq(<<q>>) /\ Len(<<p>>) = 1 /\ Len(<<q>>) = 1 /\ <<p>>[1] = p /\ <<q>>[1] = q
    BY ShortSeq
  <2>3. DOMAIN ps = 1 .. 1 + 1 /\ ps[1] = p /\ ps[1 + 1] = q
    BY ONLY <2>1, <2>2, ConcatSeq
  <2> QED
    BY ONLY <1>1, <1>2, <2>3
<1>4. CASE ~init.follows
  <2>1. ps = <<p>> \o <<>>
    BY <1>4 DEF OfferPackets
  <2>2. ps = <<p>>
    BY <2>1
  <2>3. DOMAIN ps = {1} /\ ps[1] = p
    BY ONLY <2>2, ShortSeq
  <2> QED
    BY ONLY <1>1, <1>2, <2>3
<1> QED
  BY <1>3, <1>4

LEMMA OfferBatch ==
    ASSUME NEW e \in Ends, NEW init, init.cookie = hs[e].inits + 1, hs'[e].inits = hs[e].inits + 1,
           NEW ps, ps = OfferPackets(e, init)
    PROVE  IsASeq(ps) /\ Batch(e, ps) /\ Continues(e, ps)
<1>1. IsASeq(ps) /\ Without(ps, "newkeys")
  BY OfferShape
<1>2. /\ 1 \in DOMAIN ps /\ ps[1].t = "init" /\ ps[1].body[1] = init
      /\ \A i \in DOMAIN ps : i = 1 \/ (i > 1 /\ ps[i].t = "kex")
  BY OfferFirst
<1>3. Batch(e, ps)
  <2>1. NewInits(e, ps)
    BY <1>2 DEF NewInits
  <2> QED
    BY <1>1, <1>2, <2>1 DEF Batch, PacketTypes
<1>4. Continues(e, ps)
  BY <1>1, <1>2 DEF Continues
<1> QED
  BY <1>1, <1>3, <1>4

LEMMA TurnCounted ==
    ASSUME NEW e \in Ends, Step(e), kl[e].pc = "select", NEW req, NEW r, NEW h, Turn(e, req, r, h),
           DOMAIN h = HsFields, h.queue = hs[e].queue, h.sent = hs[e].sent, h.inits = hs[e].inits,
           h.strict = hs[e].strict, h.kexDone = hs[e].kexDone, h.rleft = hs[e].rleft, h.token => hs[e].token,
           DOMAIN r = RlFields,
           \/ req = <<>> /\ r = rl[e] /\ hs[e].token
           \/ req = <<rl[e].pkt[1].body[1]>> /\ rl[e].pc = "start" /\ r.pc = "wait" /\ r.done = rl[e].done
    PROVE  BothCounted(e)
<1>0. /\ Inv /\ Shape /\ Turns(e) /\ Queued(e) /\ Begun(e) /\ StrictWaits(e) /\ hs[e].rleft \in Nat
      /\ Numbers /\ Total \in Nat /\ Reader(e) /\ Causes(Peer(e)) /\ InitSeen(Peer(e)) /\ (Dead(e) => Dead(e)')
      /\ Peer(e) \in Ends /\ Peer(e) # e
  BY StepFacts
<1>1. kl[e].req = <<>>
  BY <1>0 DEF Turns
<1>2. req \o kl[e].req = req
  <2>1. <<>> \o <<>> = <<>>
    OBVIOUS
  <2>2. \A x : <<x>> \o <<>> = <<x>>
    OBVIOUS
  <2> QED
    BY <1>1, <2>1, <2>2
<1> PICK init, send, h1 :
        /\ init = Offer(e) /\ send = (h.sent = <<>> /\ ~kl[e].sent)
        /\ h1 = IF send /\ up[e] THEN [h EXCEPT !.sent = <<init>>, !.inits = @ + 1]
                ELSE IF send THEN [h EXCEPT !.werr = TRUE] ELSE h
  BY Zenon
<1>3. /\ hs' = [hs EXCEPT ![e] = h1]
      /\ IF send /\ up[e] THEN Put(e, OfferPackets(e, init)) ELSE UNCHANGED <<wire, wr>>
      /\ UNCHANGED <<scene, up, rd, app>>
  BY DEF Turn
<1>4. \/ /\ kl' = [kl EXCEPT ![e].pc = "close"]
         /\ rl' = [rl EXCEPT ![e] = IF req # <<>> THEN [r EXCEPT !.done = "err"] ELSE r]
      \/ /\ ~(send /\ ~up[e])
         /\ kl' = [kl EXCEPT ![e] = Enter(e, req)]
         /\ rl' = [rl EXCEPT ![e] = r]
  BY <1>2 DEF Turn
<1>5. <<init>> # <<>> /\ <<>> # <<rl[e].pkt[1].body[1]>>
  OBVIOUS
<1>6. /\ h1.queue = hs[e].queue /\ h1.strict = hs[e].strict /\ h1.kexDone = hs[e].kexDone /\ h1.rleft = hs[e].rleft
      /\ h1.token => hs[e].token
      /\ IF send /\ up[e] THEN hs[e].sent = <<>> /\ h1.sent = <<init>> /\ h1.inits = hs[e].inits + 1
         ELSE h1.sent = hs[e].sent /\ h1.inits = hs[e].inits
  BY DEF HsFields
<1>7. hs'[e] = h1
  BY <1>0, <1>3 DEF Shape
<1>8. \/ req = <<>> /\ rl'[e] = rl[e] /\ hs[e].token
      \/ /\ req # <<>> /\ rl[e].pc = "start" /\ rl'[e].pc = "wait" /\ rl'[e] # rl[e]
         /\ rl'[e].done \in {"none", "err"} /\ (kl'[e].pc = "close" => rl'[e].done = "err")
  <2>1. CASE req = <<>> /\ r = rl[e] /\ hs[e].token
    BY <1>0, <1>4, <2>1 DEF Shape
  <2>2. CASE req # <<>> /\ rl[e].pc = "start" /\ r.pc = "wait" /\ r.done = rl[e].done
    <3>1. rl[e].done = "none"
      BY <1>0, <2>2 DEF Turns
    <3>2. CASE rl' = [rl EXCEPT ![e] = [r EXCEPT !.done = "err"]]
      <4>1. rl'[e] = [r EXCEPT !.done = "err"]
        BY <1>0, <3>2 DEF Shape
      <4>2. rl'[e].pc = "wait" /\ rl'[e].done = "err"
        BY <2>2, <4>1 DEF RlFields
      <4> QED
        BY <2>2, <4>2
    <3>3. CASE rl' = [rl EXCEPT ![e] = r] /\ kl' = [kl EXCEPT ![e] = Enter(e, req)]
      <4>1. rl'[e] = r
        BY <1>0, <3>3 DEF Shape
      <4>2. kl'[e].pc = "kex"
        BY <1>0, <2>2, <3>3 DEF Shape, KlFields, Enter
      <4> QED
        BY <2>2, <3>1, <4>1, <4>2
    <3> QED
      BY <1>4, <2>2, <3>2, <3>3
  <2> QED
    BY <1>5, <2>1, <2>2
<1>9. \/ kl'[e].pc = "close"
      \/ ~(send /\ ~up[e]) /\ kl'[e].pc = "select" /\ req = <<>>
      \/ ~(send /\ ~up[e]) /\ kl'[e].pc = "kex" /\ req # <<>>
  <2>1. CASE kl' = [kl EXCEPT ![e].pc = "close"]
    BY <1>0, <2>1 DEF Shape, KlFields
  <2>2. CASE ~(send /\ ~up[e]) /\ kl' = [kl EXCEPT ![e] = Enter(e, req)]
    <3> PICK k : k = Enter(e, req)
      OBVIOUS
    <3>1. (k.pc = "select" /\ req = <<>>) \/ (k.pc = "kex" /\ req # <<>>)
      BY <1>0 DEF Shape, KlFields, Enter
    <3>2. kl'[e] = k
      BY <1>0, <2>2 DEF Shape
    <3> QED
      BY <2>2, <3>1, <3>2
  <2> QED
    BY <1>4, <2>1, <2>2
<1>10. ~InKex(e)
  BY DEF InKex
<1>11. /\ rl'[e] = rl[e] => ~InKex(e)' /\ hs[e].token
       /\ rl'[e] # rl[e] => rl[e].pc = "start" /\ rl'[e].pc = "wait" /\ (InKex(e)' \/ Dead(e)')
  BY <1>8, <1>9 DEF InKex, Dead, Broken
<1>12. Total' = Total /\ Total' \in Nat /\ Total <= Total'
  BY <1>3, TotalRests
<1>13. StrictWaits(e)' /\ hs'[e].rleft \in Nat
  BY <1>0, <1>6, <1>7, <1>8 DEF StrictWaits
<1>14. Onward(e)
  BY <1>6, <1>7, <1>12, StepOnward
<1>15. CASE send /\ up[e]
  <2> PICK ps : ps = OfferPackets(e, init)
    OBVIOUS
  <2>1. init.cookie = hs[e].inits + 1
    BY ONLY <1>0, init = Offer(e), e \in Ends, OfferFacts
  <2>2. hs'[e].inits = hs[e].inits + 1 /\ hs'[e].sent = <<init>> /\ hs[e].sent = <<>>
    BY <1>6, <1>7, <1>15
  <2>3. IsASeq(ps) /\ Batch(e, ps) /\ Continues(e, ps)
    BY <2>1, <2>2, OfferBatch
  <2>4. wire'[e] = wire[e] /\ Goes(e, ps)
    BY <1>0, <1>3, <1>15, <2>3, PutAppends DEF Goes
  <2>5. Begins(e)
    BY <1>5, <1>6, <1>7, <1>10, <1>11, <2>2, <2>4 DEF Begins
  <2>6. Reader(e)' /\ InitSeen(Peer(e))'
    BY <1>0, <1>12, <1>14, <2>5, OwnBegins
  <2> QED
    BY <1>13, <1>14, <2>3, <2>4, <2>6, Combined
<1>16. CASE ~(send /\ up[e])
  <2>1. UNCHANGED <<wire, rd>> /\ hs'[e].sent = hs[e].sent /\ hs'[e].inits = hs[e].inits
    BY <1>3, <1>6, <1>7, <1>16
  <2>2. CASE InKex(e)'
    <3>1. hs[e].sent # <<>>
      BY <1>0, <1>9, <1>16, <2>2 DEF InKex, Begun
    <3>2. Begins(e)
      BY <1>6, <1>7, <1>10, <1>11, <2>1, <3>1 DEF Begins
    <3>3. Reader(e)' /\ InitSeen(Peer(e))'
      BY <1>0, <1>12, <1>14, <3>2, OwnBegins
    <3>4. Goes(e, <<>>) /\ Batch(e, <<>>) /\ Continues(e, <<>>)
      BY <2>1, Silent
    <3> QED
      BY <1>13, <1>14, <3>3, <3>4, Combined
  <2>3. CASE ~InKex(e)'
    <3>1. InKex(e)' = InKex(e)
      BY <1>10, <2>3 DEF InKex
    <3>2. Midway(e) => Midway(e)' \/ Dead(e)'
      BY <1>10, <1>11, <2>3 DEF Midway
    <3>3. /\ rl'[e].pc = "start" => rl[e].pc = "start" /\ rl'[e].pkt = rl[e].pkt
          /\ \/ hs'[e].rleft = hs[e].rleft /\ rl'[e].pc = rl[e].pc /\ rl'[e].done = rl[e].done
             \/ hs'[e].rleft = hs[e].rleft /\ rl[e].pc \in {"read", "push", "start"}
      BY <1>6, <1>7, <1>11
    <3>4. (hs'[e].token => hs[e].token) /\ hs'[e].queue = hs[e].queue
      BY <1>6, <1>7
    <3> QED
      BY <1>12, <1>13, <2>1, <3>1, <3>2, <3>3, <3>4, RestsCounted
  <2> QED
    BY <2>2, <2>3
<1> QED
  BY <1>15, <1>16

LEMMA SelectCounted ==
    ASSUME NEW e \in Ends, Step(e), SelectRequest(e) \/ SelectStart(e)
    PROVE  BothCounted(e)
<1>0. Shape
  BY StepFacts
<1>1. CASE SelectRequest(e)
  <2> PICK h : h = [hs[e] EXCEPT !.token = FALSE]
    OBVIOUS
  <2>1. kl[e].pc = "select" /\ hs[e].token /\ Turn(e, <<>>, rl[e], h)
    BY <1>1 DEF SelectRequest
  <2>2. /\ DOMAIN h = HsFields /\ h.queue = hs[e].queue /\ h.sent = hs[e].sent /\ h.inits = hs[e].inits
        /\ h.strict = hs[e].strict /\ h.kexDone = hs[e].kexDone /\ h.rleft = hs[e].rleft /\ DOMAIN rl[e] = RlFields
    BY <1>0 DEF Shape, HsFields
  <2> QED
    BY <2>1, <2>2, TurnCounted
<1>2. CASE SelectStart(e)
  <2> PICK r : r = [rl[e] EXCEPT !.pc = "wait", !.pkt = <<>>]
    OBVIOUS
  <2>1. kl[e].pc = "select" /\ rl[e].pc = "start" /\ Turn(e, <<rl[e].pkt[1].body[1]>>, r, hs[e])
    BY <1>2 DEF SelectStart
  <2>2. DOMAIN r = RlFields /\ r.pc = "wait" /\ r.done = rl[e].done /\ DOMAIN hs[e] = HsFields
    BY <1>0 DEF Shape, RlFields
  <2> QED
    BY <2>1, <2>2, TurnCounted
<1> QED
  BY <1>1, <1>2

LEMMA SkipGuessCounted ==
    ASSUME NEW e \in Ends, Step(e), SkipGuess(e)
    PROVE  BothCounted(e)
<1>1. CASE Failed(e)
  <2>1. kl[e].pc = "kex" /\ ExchangeFails(e) /\ UNCHANGED <<scene, up, rd, app>>
    BY <1>1 DEF SkipGuess, KexReads
  <2> QED
    BY <2>1, ExchangeFailsCounted
<1> QED
  BY <1>1, SkipReadsCounted

LEMMA KexReceivesCounted ==
    ASSUME NEW e \in Ends, Step(e), KexReceives(e)
    PROVE  BothCounted(e)
<1>1. CASE Failed(e) \/ ~Acceptable(e, Head(kl[e].script).m, Incoming(e))
  <2>1. kl[e].pc = "kex" /\ ExchangeFails(e) /\ UNCHANGED <<scene, up, rd, app>>
    BY <1>1 DEF KexReceives, KexReads
  <2> QED
    BY <2>1, ExchangeFailsCounted
<1> QED
  BY <1>1, ReceivesCounted

LEMMA EveryCounted ==
    ASSUME NEW e \in Ends, Step(e),
           \/ Library(e)
           \/ AppReads(e) \/ AppCloses(e) \/ CloseReturns(e) \/ WritePacket(e) \/ WriteResumes(e)
    PROVE  BothCounted(e)
<1>1. CASE ReadPacket(e) \/ KexIgnores(e)
  BY <1>1, ReadPacketCounted, KexIgnoresCounted
<1>2. CASE PushIncoming(e) \/ ExchangeSeen(e) \/ ReadLoopEnds(e) \/ DrainStart(e)
  BY <1>2, PushIncomingCounted, ExchangeSeenCounted, ReadLoopEndsCounted, DrainStartCounted
<1>3. CASE SelectRequest(e) \/ SelectStart(e)
  BY <1>3, SelectCounted
<1>4. CASE SelectClosed(e) \/ KexLoopDone(e)
  BY <1>4, KexLoopCounted
<1>5. CASE Negotiate(e) \/ SkipGuess(e) \/ KexSends(e) \/ KexReceives(e)
  BY <1>5, NegotiateCounted, SkipGuessCounted, KexSendsCounted, KexReceivesCounted
<1>6. CASE SendNewKeys(e) \/ TakeNewKeys(e)
  BY <1>6, SendNewKeysCounted, TakeNewKeysCounted
<1>7. CASE CloseConn(e) \/ AppCloses(e)
  BY <1>7, ShutsCounted
<1>8. CASE AppReads(e) \/ CloseReturns(e)
  BY <1>8, AppReadsCounted
<1>9. CASE WritePacket(e) \/ WriteResumes(e)
  BY <1>9, WritePacketCounted, WriteResumesCounted
<1> QED
  BY <1>1, <1>2, <1>3, <1>4, <1>5, <1>6, <1>7, <1>8, <1>9 DEF Library

LEMMA CountInvNext == ASSUME CountInv, [Next]_vars PROVE CountInv'
<1>0. KeysInv /\ Inv /\ Waiting /\ Boxes /\ \A f \in Ends : Local(f)
  BY DEF CountInv, KeysInv
<1>1. KeysInv' /\ Inv'
  BY <1>0, KeysInvNext DEF KeysInv
<1>2. Lengths
  BY <1>0, <1>1, InvLengths
<1>3. CASE Next
  <2>1. PICK e \in Ends :
          \/ Library(e)
          \/ AppReads(e) \/ AppCloses(e) \/ CloseReturns(e) \/ WritePacket(e) \/ WriteResumes(e)
    BY <1>3 DEF Next
  <2>2. Outcome(e)
    BY <1>0, <1>2, <2>1, EveryMove
  <2>3. Step(e)
    BY <2>2 DEF Step, Outcome
  <2>4. BothCounted(e)
    BY <2>1, <2>3, EveryCounted
  <2>5. \A f \in Ends : f = e \/ f = Peer(e)
    BY PeerFacts
  <2> QED
    BY <1>1, <2>4, <2>5 DEF CountInv, BothCounted
<1>4. CASE UNCHANGED vars
  <2>0. "c" \in Ends
    BY DEF Ends
  <2>1. UNCHANGED <<scene, wire, up, rd, wr, hs, rl, kl, app>>
    BY <1>4 DEF vars
  <2>2. Outcome("c")
    BY <1>0, <2>0, <2>1, AppSteps
  <2>3. Step("c")
    BY <2>2 DEF Step, Outcome
  <2>4. Total' \in Nat /\ Total <= Total'
    BY <2>0, <2>1, <2>3, TotalRests
  <2>5. BothCounted("c")
    BY <2>0, <2>1, <2>3, <2>4, AppRestsCounted
  <2>6. \A f \in Ends : f = "c" \/ f = Peer("c")
    BY <2>0, PeerFacts
  <2> QED
    BY <1>1, <2>5, <2>6 DEF CountInv, BothCounted
<1> QED
  BY <1>3, <1>4

LEMMA CountInvInit == ASSUME Init PROVE CountInv
<1>1. KeysInv
  BY KeysInvInit
<1>2. \A e \in Ends : wire[e] = <<>> /\ kl[e].pc = "select" /\ app[e].wrote = 0
  BY DEF Init
<1>3. \A e \in Ends : /\ hs[e].sent = <<>> /\ hs[e].inits = 0 /\ hs[e].queue = <<>>
                      /\ hs[e].strict = FALSE /\ hs[e].rleft = Threshold
  BY DEF Init
<1>4. \A e \in Ends : rl[e].pc = "read" /\ rl[e].done = "none"
  BY DEF Init
<1>5. Total = 0
  BY <1>2 DEF Total, Ends
<1>6. DOMAIN <<>> = {}
  BY ShortSeq
<1>7. ASSUME NEW e \in Ends PROVE Counted(e)
  <2>0. Peer(e) \in Ends
    BY PeerFacts
  <2>1. ~InKex(e) /\ DOMAIN wire[e] = {}
    BY <1>2, <1>6 DEF InKex
  <2>2. Ahead(e)
    BY <1>3, <2>0 DEF Ahead
  <2>3. InitsDue(e)
    BY <1>4, <2>1 DEF InitsDue
  <2>4. MethodsFramed(e) /\ ExtUncounted(e)
    BY <2>1 DEF MethodsFramed, ExtUncounted
  <2>5. ~Spent(e)
    BY <1>3, <1>5 DEF Spent
  <2>6. Causes(e)
    BY <1>3, <1>5, <2>5 DEF Causes
  <2>7. NewkeysDue(e)
    BY <2>1 DEF NewkeysDue, Without
  <2>8. InitSeen(e)
    BY <1>3 DEF InitSeen
  <2>9. StrictWaits(e)
    BY <1>3, <1>4 DEF StrictWaits
  <2>10. hs[e].rleft \in Nat
    BY <1>3, TransportAssumption
  <2> QED
    BY <2>2, <2>3, <2>4, <2>6, <2>7, <2>8, <2>9, <2>10 DEF Counted, Reader
<1> QED
  BY <1>1, <1>7 DEF CountInv

LEMMA CountInvCause == ASSUME CountInv PROVE RekeyHasCause
<1>1. "c" \in Ends /\ "s" \in Ends /\ Peer("c") = "s" /\ Peer("s") = "c"
  BY DEF Ends, Peer
<1>2. Inv /\ \A e \in Ends : Local(e) /\ Counted(e)
  BY DEF CountInv, KeysInv
<1>3. \A e \in Ends : hs[e].inits \in Nat /\ app[e].wrote \in Nat
  BY <1>2 DEF Inv, Shape, Local, Typed
<1>4. \A e \in Ends : hs[e].inits <= 1 + app["c"].wrote + app["s"].wrote
  BY <1>1, <1>2, <1>3 DEF Counted, Reader, Causes, Total
<1>5. hs["c"].inits <= hs["s"].inits + 1 /\ hs["s"].inits <= hs["c"].inits + 1
  BY <1>1, <1>2 DEF Counted, Reader, Ahead
<1>6. hs["c"].inits - hs["s"].inits \in {-1, 0, 1}
  BY <1>1, <1>3, <1>5
<1> QED
  BY <1>4, <1>6 DEF RekeyHasCause

\* handshake.go (kexLoop, requestKeyExchange, readOnePacket, writePacket): an end
\* begins an exchange only for a cause, in every scenario and for every
\* threshold and queue length.  Neither has sent more inits than one for the
\* first exchange and one for each packet that the two applications have
\* written, so the ends do not go on asking each other for new keys, and
\* neither is more than one exchange ahead of the other.
THEOREM RekeyHasCauseCorrect == Spec => []RekeyHasCause
<1>1. Init => CountInv
  BY CountInvInit
<1>2. CountInv /\ [Next]_vars => CountInv'
  BY CountInvNext
<1>3. CountInv => RekeyHasCause
  BY CountInvCause
<1> QED
  BY <1>1, <1>2, <1>3, PTL DEF Spec
=============================================================================
