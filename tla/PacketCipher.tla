----------------------------- MODULE PacketCipher ----------------------------
(***************************************************************************)
(* One direction of the SSH packet layer (connectionState in               *)
(* third/ssh/transport.go, the packetCiphers in cipher.go), as a record:   *)
(*   mode     the cipher in use                                            *)
(*   key      where its keys come from: direction and key exchange         *)
(*   cnt      packets under this key (counter, IV or chaining state)       *)
(*   seq      seqNum                                                       *)
(*   pending  pendingKeyChange: empty or one [mode, key]                   *)
(* Encryption is abstracted to the tag of a packet: the key and the        *)
(* position that the packet is bound to.  A reader whose own position      *)
(* differs cannot read it.                                                 *)
(***************************************************************************)
EXTENDS Integers, Sequences

Plain == [dir |-> "none", h |-> <<>>]

\* newTransport: nothing is encrypted yet
FreshState == [mode |-> "none", key |-> Plain, cnt |-> 0, seq |-> 0, pending |-> <<>>]

\* CTR and RC4 streams, and CBC: the position in the stream (or the last
\* block), and the sequence number under the MAC.  GCM counts for itself and
\* ignores the sequence number; ChaCha20 has only that.  Nothing binds a
\* packet that is not encrypted.
StreamWrite(c) == [key |-> c.key, at |-> c.cnt, mac |-> c.seq]
CbcWrite(c)    == [key |-> c.key, at |-> c.cnt, mac |-> c.seq]
GcmWrite(c)    == [key |-> c.key, at |-> c.cnt, mac |-> -1]
ChachaWrite(c) == [key |-> c.key, at |-> -1, mac |-> c.seq]
NoneWrite(c)   == [key |-> Plain, at |-> -1, mac |-> -1]

StreamRead(c, tag) == tag = [key |-> c.key, at |-> c.cnt, mac |-> c.seq]
CbcRead(c, tag)    == tag = [key |-> c.key, at |-> c.cnt, mac |-> c.seq]
GcmRead(c, tag)    == tag = [key |-> c.key, at |-> c.cnt, mac |-> -1]
ChachaRead(c, tag) == tag = [key |-> c.key, at |-> -1, mac |-> c.seq]

Tag(c) ==
    CASE c.mode = "none"   -> NoneWrite(c)
      [] c.mode = "stream" -> StreamWrite(c)
      [] c.mode = "cbc"    -> CbcWrite(c)
      [] c.mode = "gcm"    -> GcmWrite(c)
      [] c.mode = "chacha" -> ChachaWrite(c)

Opens(c, tag) ==
    CASE c.mode = "none"   -> tag.key = Plain
      [] c.mode = "stream" -> StreamRead(c, tag)
      [] c.mode = "cbc"    -> CbcRead(c, tag)
      [] c.mode = "gcm"    -> GcmRead(c, tag)
      [] c.mode = "chacha" -> ChachaRead(c, tag)

\* connectionState.readPacket and writePacket: the number goes up, and
\* msgNewKeys puts the pending cipher in use
Advance(c, p, strict) ==
    LET d == [c EXCEPT !.seq = @ + 1, !.cnt = @ + 1] IN
    IF p.t # "newkeys" THEN d
    ELSE [d EXCEPT !.mode = Head(c.pending).mode, !.key = Head(c.pending).key, !.cnt = 0,
                   !.pending = <<>>, !.seq = IF strict THEN 0 ELSE @]

\* Mutant: the number is not reset in strict mode, on the writing side.
WriteOneUnreset(c, p, strict) ==
    [state |-> Advance(c, p, FALSE), out |-> [t |-> p.t, n |-> p.n, body |-> p.body, tag |-> Tag(c)]]

WriteOne(c, p, strict) ==
    [state |-> Advance(c, p, strict), out |-> [t |-> p.t, n |-> p.n, body |-> p.body, tag |-> Tag(c)]]

\* several packets, one after the other: the state before each, and after all
States(c, ps, strict) ==
    LET state[i \in 0 .. Len(ps)] ==
            IF i = 0 THEN c ELSE WriteOne(state[i - 1], ps[i], strict).state
    IN  state

WriteAll(c, ps, strict) ==
    LET state == States(c, ps, strict) IN
    [state |-> state[Len(ps)], out |-> [i \in 1 .. Len(ps) |-> WriteOne(state[i - 1], ps[i], strict).out]]

\* newPacketCipher for a direction of an exchange
NewCipher(mode, dir, h) == [mode |-> mode, key |-> [dir |-> dir, h |-> h]]

\* a packet the reader takes an error from: it does not open, or is a
\* disconnect, or newkeys at a time when no key is pending
ReadRefuses(c, p) ==
    ~Opens(c, p.tag) \/ p.t = "disconnect" \/ (p.t = "newkeys" /\ c.pending = <<>>)
=============================================================================
