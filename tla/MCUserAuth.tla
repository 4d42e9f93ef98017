----------------------------- MODULE MCUserAuth ------------------------------
EXTENDS UserAuth, Callbacks

P(name, ss, n) ==
    [name |-> name, stages |-> ss, tries |-> n, none |-> FALSE, verified |-> FALSE,
     banner |-> FALSE, openSSH |-> FALSE, extInfo |-> FALSE, rounds |-> 1, mutual |-> FALSE,
     git |-> FALSE]

TwoFactor == <<{"publickey", "password"}, {"publickey", "password"}>>
Interactive == <<{"gssapi-with-mic", "keyboard-interactive"}>>

MCPolicies ==
    {[P("fakessh", <<{"password", "publickey"}>>, 2) EXCEPT !.git = TRUE, !.openSSH = TRUE],
     [P("twofactor", TwoFactor, 2) EXCEPT !.banner = TRUE, !.extInfo = TRUE],
     [P("ca", <<{"publickey"}>>, 0) EXCEPT !.verified = TRUE],
     [P("asks", Interactive, 3) EXCEPT !.rounds = 2, !.banner = TRUE],
     [P("asks", Interactive, 3) EXCEPT !.mutual = TRUE, !.extInfo = TRUE],
     [P("open", <<{}>>, 1) EXCEPT !.none = TRUE],
     [P("misuse", <<{"publickey"}, {"password"}>>, 2) EXCEPT !.verified = TRUE],
     P("misuse", <<{"publickey"}, {"password"}>>, -1)}

Cert(b, a) == [certType |-> "user", authority |-> "ca", serial |-> 1, options |-> {},
               principals |-> {"root"}, validAfter |-> a, validBefore |-> b, signed |-> TRUE]
Good == Cert(3, 1)
Now == 2

CertOf(name) ==
    CASE name = "good" -> Good
      [] name = "noEnd" -> Cert(7, 0)
      [] name = "justEnded" -> Cert(2, 1)
      [] name = "endNegative" -> Cert(5, 1)
      [] name = "later" -> Cert(7, 3)
      [] name = "startNegative" -> Cert(7, 6)
      [] name = "anyone" -> [Good EXCEPT !.principals = {}]
      [] name = "somebody" -> [Good EXCEPT !.principals = {"git"}]
      [] name = "host" -> [Good EXCEPT !.certType = "host"]
      [] name = "unknownOption" -> [Good EXCEPT !.options = {"verify-required"}]
      [] name = "knownOption" -> [Good EXCEPT !.options = {"force-command"}]
      [] name = "elsewhere" -> [Good EXCEPT !.options = {SourceAddress}]
      [] name = "revoked" -> [Good EXCEPT !.serial = 2]
      [] name = "forged" -> [Good EXCEPT !.signed = FALSE]
      [] name = "otherCA" -> [Good EXCEPT !.authority = "mallory"]
      [] OTHER -> [Good EXCEPT !.signed = FALSE]

CertNames == {"good", "noEnd", "justEnded", "endNegative", "later", "startNegative", "anyone",
              "somebody", "host", "unknownOption", "knownOption", "elsewhere", "revoked",
              "forged", "otherCA"}

MCAccounts == {"", "root", "git", "guest"}
MCCredentials == CertNames \cup {"", "k1", "k2", "right", "wrong", "gss"}

Checker == [userAuthorities |-> {"ca"}, revoked |-> {2}, supported |-> {"force-command"}]

AppConfig == [gitUser |-> "git", users |-> [u \in {"root"} |-> "right"], ratio |-> 50, hashes |-> 4,
              hash |-> [p \in MCAccounts \X MCCredentials |-> IF p[2] = "right" THEN 1 ELSE 2]]

MCVerdict(p, s, m, u, c) ==
    CASE p.name = "fakessh" -> AuthCallback(AppConfig, u, c)
      [] p.name = "twofactor" /\ s = 1 -> IF u = "root" /\ c \in {"k1", "right"} THEN "partial" ELSE "fail"
      [] p.name = "twofactor" /\ s = 2 -> IF u = "root" /\ c \in {"k2", "right"} THEN "ok" ELSE "fail"
      [] p.name = "ca" -> CertCallback(Checker, u, CertOf(c), Now, FALSE)
      [] p.name = "asks" -> IF u = "root" /\ c \in {"gss", "right"} THEN "ok" ELSE "fail"
      [] p.name = "open" -> IF u = "guest" THEN "ok" ELSE "fail"
      [] p.name = "misuse" -> IF c \in {"k2", "wrong"} THEN "misuse"
                               ELSE IF s = 1 /\ c = "k1" THEN "partial"
                               ELSE IF s = 2 /\ c = "right" THEN "ok" ELSE "fail"

MCVerifiedVerdict(p, u, c) == IF c = "anyone" THEN "partial" ELSE "ok"

MCEntitled(p, s, m, u, c) ==
    CASE p.name = "fakessh" -> m = "password" /\ (u = "root" => c = "right") /\ u # "git"
      [] p.name = "twofactor" -> u = "root" /\ c \in {"right", IF s = 1 THEN "k1" ELSE "k2"}
      [] p.name = "ca" -> \/ u = "root" /\ c \in {"good", "noEnd", "knownOption", "anyone"}
                          \/ c = "anyone"
                          \/ u = "git" /\ c = "somebody"
      [] p.name = "asks" -> u = "root" /\ c \in {"gss", "right"}
      [] p.name = "open" -> u = "guest"
      [] p.name = "misuse" -> IF s = 1 THEN c = "k1" /\ ~p.verified ELSE c = "right"

C(user, auth, secret, keys) ==
    [user |-> user, auth |-> auth, secret |-> secret, keys |-> keys,
     retry |-> [m \in Methods |-> 1], answers |-> TRUE, callback |-> FALSE, noAlgo |-> {},
     rsaCerts |-> {}, gss |-> "good"]

MCClientConfigs ==
    {C("root", <<"password">>, s, <<>>) : s \in {"right", "wrong"}} \cup
    {C("root", <<"publickey", "password">>, "right", <<"k1", "k2">>),
     C("root", <<"publickey", "password">>, "right", <<"k2", "k1">>),
     C("git", <<"publickey", "password">>, "right", <<"k1">>),
     C("guest", <<"password", "publickey">>, "wrong", <<"k1">>),
     C("guest", <<"keyboard-interactive">>, "wrong", <<>>),
     [C("root", <<"keyboard-interactive", "gssapi-with-mic">>, "wrong", <<>>) EXCEPT !.answers = FALSE],
     [C("root", <<"keyboard-interactive">>, "wrong", <<>>) EXCEPT !.retry["keyboard-interactive"] = 2],
     C("root", <<"keyboard-interactive">>, "right", <<>>),
     C("root", <<"gssapi-with-mic">>, "right", <<>>),
     [C("root", <<"gssapi-with-mic", "password">>, "right", <<>>) EXCEPT !.gss = "bad"],
     [C("root", <<"publickey">>, "", <<"k1", "k2", "k1">>) EXCEPT !.noAlgo = {"k1"}],
     [C("root", <<"password", "publickey">>, "wrong", <<"k1">>) EXCEPT !.callback = TRUE],
     [C("root", <<"publickey">>, "", <<"revoked", "good">>) EXCEPT !.rsaCerts = {"revoked"}],
     C("root", <<"publickey">>, "", <<"later", "noEnd">>)}

\* Clients whose keys the policy's callback can look at; an arbitrary client has
\* no configuration, and only one policy has a Git server.
Fitting(p, c) ==
    /\ \A i \in DOMAIN c.keys : c.keys[i] \in CertNames <=> p.name = "ca"
    /\ p.name = "misuse" => c.keys = <<>>
    /\ p.git => c.auth[1] \in {"password", "publickey"} /\ c.noAlgo = {} /\ Len(c.keys) < 2

MCInit ==
    /\ Init /\ Fitting(policy, config)
    /\ peer = "any" => config = C("root", <<"password">>, "right", <<>>)
    /\ ~policy.git => ~watch /\ file = <<"k2", "k2">>
MCSpec == MCInit /\ [][Next]_vars /\ Fairness

Users(p) == CASE p.name = "fakessh" -> {"git", "guest"}
              [] p.name = "open" -> {"guest", "root"}
              [] p.name = "ca" -> {"root"}
              [] OTHER -> {"root", "git"}
Keys(p) == CASE p.name = "ca" -> CertNames [] p.name = "fakessh" -> {"k1"} [] OTHER -> {"k1", "k2"}

Junk == Packet("junk", "", "", "good")

\* what may follow the first packet of a method, and other things
MCAnyPackets(p, s) ==
    CASE s = "ident" -> {Packet("ident", "", "", q) : q \in Idents}
      [] s = "service" -> {Packet("service", "", "", "good"), Junk}
      [] s = "kbd" -> {Packet("answer", "", c, "good") : c \in {"right", "wrong"}} \cup {Junk}
      [] s = "gssToken" -> {Packet("token", "", "", q) : q \in {"good", "bad"}} \cup {Junk}
      [] s = "gssMIC" -> {Packet("mic", "", "", q) : q \in {"good", "bad"}} \cup {Junk}
      [] OTHER ->
        {Junk} \cup
        {Packet(t, u, "", "good") : t \in IF p.git THEN {} ELSE {"none", "other"}, u \in Users(p)} \cup
        {Packet(t, u, "", q) : t \in IF p.name = "asks" THEN {"gss", "kbdint"} ELSE {},
                               q \in {"good", "algo"}, u \in Users(p)} \cup
        {Packet("password", u, c, "good") : u \in IF p.name = "ca" THEN {} ELSE Users(p),
                                            c \in IF p.git THEN {"right"} ELSE {"right", "wrong"}} \cup
        {Packet("query", u, k, "good") : u \in Users(p), k \in Keys(p) \ {"later", "host", "forged"}} \cup
        {Packet("signed", u, k, q) : u \in Users(p), k \in Keys(p),
                    q \in IF p.name \in {"ca", "fakessh"} THEN {"good"}
                          ELSE {"good", "bad", "sigAlgo", "algo"}}

MCFiles == {<<"comment", "k1">>, <<"k2", "k2">>, <<"k1", "bad">>}
=============================================================================
