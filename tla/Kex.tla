--------------------------------- MODULE Kex ---------------------------------
(***************************************************************************)
(* Algorithm negotiation (third/ssh/common.go) and the key exchange methods *)
(* (kex.go, mlkem.go).  A method is the sequence of messages that each side *)
(* sends and receives; a message carries what the outcome depends on: its  *)
(* name, whether its public value is in range, a group, a signature.       *)
(* Groups are in units of 1024 bits.                                       *)
(***************************************************************************)
EXTENDS Integers, SequencesExt

CONSTANTS
    KnownKex, KnownCiphers,         \* kexAlgoMap, cipherModes: algorithms there is code for
    DefaultKex, DefaultCiphers      \* defaultKexAlgos, defaultCiphers

Aead == {"gcm", "chacha"}

InSeq(x, s) == \E i \in DOMAIN s : s[i] = x

\* Config.SetDefaults, for one list
Effective(list, known, default) ==
    SelectSeq(IF list = <<>> THEN default ELSE list, LAMBDA a : a \in known)

\* ... and the other name of curve25519
EffectiveKex(list) ==
    LET l == Effective(list, KnownKex, DefaultKex) IN
    FlattenSeq([i \in DOMAIN l |->
        IF l[i] = "curve25519" /\ ~InSeq("curve25519-libssh", list)
        THEN <<l[i], "curve25519-libssh">> ELSE <<l[i]>>])

\* findCommon: the client's first choice that the server has
FindCommon(client, server) ==
    IF \E i \in DOMAIN client : InSeq(client[i], server)
    THEN client[CHOOSE i \in DOMAIN client :
            InSeq(client[i], server) /\ \A j \in 1 .. i - 1 : ~InSeq(client[j], server)]
    ELSE "none"

\* findAgreedAlgorithms on two kexInitMsg; each direction (cs, client to server,
\* and sc) has its cipher, and a MAC unless the cipher needs none.
Directions == {"cs", "sc"}

FindAgreed(c, s) ==
    LET cipher == [d \in Directions |-> FindCommon(c.ciphers[d], s.ciphers[d])]
        mac == [d \in Directions |-> IF cipher[d] \in Aead THEN "implicit" ELSE FindCommon(c.macs, s.macs)]
    IN  [kex |-> FindCommon(c.kex, s.kex), host |-> FindCommon(c.host, s.host),
         cipher |-> cipher, mac |-> mac]

Agreed(a) ==
    /\ a.kex # "none" /\ a.host # "none"
    /\ \A d \in Directions : a.cipher[d] # "none" /\ a.mac[d] # "none"

\* algorithmsForKeyFormat
AlgorithmsForKeyFormat(format) == IF format = "rsa" THEN <<"rsa-sha2", "rsa">> ELSE <<format>>

\* sendKexInit: what the host keys can sign with
HostKeyAlgos(keys) == FlattenSeq([i \in DOMAIN keys |-> AlgorithmsForKeyFormat(keys[i])])

\* pickHostKey: the index of a host key for the algorithm, or 0
PickHostKey(keys, algo) ==
    LET able == {i \in DOMAIN keys : InSeq(algo, AlgorithmsForKeyFormat(keys[i]))} IN
    IF able = {} THEN 0 ELSE CHOOSE i \in able : \A j \in able : i <= j

-----------------------------------------------------------------------------
Out(m) == [dir |-> "out", m |-> m]
In(m)  == [dir |-> "in", m |-> m]

DHClient  == <<Out("dhinit"), In("dhreply")>>
DHServer  == <<In("dhinit"), Out("dhreply")>>
ECDHClient == <<Out("ecdhinit"), In("ecdhreply")>>
ECDHServer == <<In("ecdhinit"), Out("ecdhreply")>>
Curve25519Client == <<Out("ecdhinit"), In("ecdhreply")>>
Curve25519Server == <<In("ecdhinit"), Out("ecdhreply")>>
MLKEMClient == <<Out("ecdhinit"), In("ecdhreply")>>
MLKEMServer == <<In("ecdhinit"), Out("ecdhreply")>>
GEXClient == <<Out("gexrequest"), In("gexgroup"), Out("gexinit"), In("gexreply")>>
GEXServer == <<In("gexrequest"), Out("gexgroup"), In("gexinit"), Out("gexreply")>>

KexScript(alg, client) ==
    CASE alg = "dh"   -> IF client THEN DHClient ELSE DHServer
      [] alg = "ecdh" -> IF client THEN ECDHClient ELSE ECDHServer
      [] alg \in {"curve25519", "curve25519-libssh"} ->
            IF client THEN Curve25519Client ELSE Curve25519Server
      [] alg = "mlkem" -> IF client THEN MLKEMClient ELSE MLKEMServer
      [] alg = "gex"  -> IF client THEN GEXClient ELSE GEXServer

Replies == {"dhreply", "ecdhreply", "gexreply"}

\* what dhGEXSHA.Client asks for
GexRequest == [min |-> 2, pref |-> 2, max |-> 8]

\* dhGEXSHA.Server refuses a request out of range
GexInRange(q) ==
    /\ q.max >= q.min /\ q.pref >= q.min /\ q.max >= q.pref
    /\ q.max >= 2 /\ q.min <= 4

\* chooseDH: a pass over the groups, as in OpenSSH; 0 if none fits
ChooseDH(q) ==
    FoldLeft(LAMBDA best, g :
                IF g < q.min \/ g > q.max THEN best
                ELSE IF best = 0 THEN g
                ELSE IF (g >= q.pref /\ g < best) \/ (g > best /\ best < q.pref) THEN g ELSE best,
             0, <<2, 3, 4>>)

\* kexResult.H: both inits, in the order client, server, and the group
ExchangeHash(ci, si, group) == <<ci, si, group>>
=============================================================================
