----------------------------- MODULE AuthServer -----------------------------
(***************************************************************************)
(* The server's half of SSH user authentication (third/ssh/server.go): the *)
(* identification line, the service request and serverAuthenticate, as     *)
(* NewServerConn runs them over one connection.  Key exchange lies between *)
(* the first two and is left out here.                                     *)
(*                                                                         *)
(* A packet of the client is a record: t its kind, user the account, cred  *)
(* what is presented (a password or an answer, "right" or "wrong", or a    *)
(* key) and q its quality:                                                 *)
(*   good                                                                  *)
(*   bad      parses, but the signature, token or MIC does not verify      *)
(*   algo     its public key algorithm is not accepted (or the key cannot  *)
(*            be parsed)                                                   *)
(*   sigAlgo  the signature's format does not fit key or configuration     *)
(* "junk" stands for every packet that does not parse where it is read,    *)
(* and for another service than ssh-connection.                            *)
(*                                                                         *)
(* The callbacks are those of a policy: which methods each stage of the    *)
(* login configures (a partial success moves to the next stage, whose      *)
(* callbacks are PartialSuccessError.Next), and what they answer, Verdict: *)
(*   ok, fail, partial                                                     *)
(*   addr     ok, with a source-address that the client does not have      *)
(*   misuse   partial, with permissions                                    *)
(* With policy.git the public keys are checked by GitAuth, step by step.   *)
(***************************************************************************)
EXTENDS GitAuth

CONSTANTS
    Policies,
    Verdict(_, _, _, _, _),     \* (policy, stage, method, user, credential)
    VerifiedVerdict(_, _, _),   \* (policy, user, key): VerifiedPublicKeyCallback
    Self,                       \* the login this connection is
    MaxAttempts,                \* maxAuthServerAttempts
    Accounts, Credentials       \* account names; passwords, answers and keys

ASSUME AttemptsAssumption == MaxAttempts \in Nat \ {0}
ASSUME SelfAssumption == Self \in Logins
ASSUME NamesAssumption == "" \in Accounts /\ {"", "gss"} \subseteq Credentials

Methods == {"none", "password", "keyboard-interactive", "publickey", "gssapi-with-mic"}

\* The first stage is the server's own configuration.
ASSUME PoliciesAssumption ==
    \A p \in Policies : p.stages \in Seq(SUBSET Methods) /\ p.stages # <<>>

VARIABLES
    policy,
    toServer, toClient,     \* packets under way
    hungUp,                 \* the client has closed its side
    srv,            \* a place of SrvStates
    request,        \* the request whose method is under way
    stage, sUser,
    failures, attempts, nones,
    cache,          \* the last key the callback was asked about
    bannerSent,
    chain           \* what the client presented in each step that the server took
                    \* for a success or a partial success; the code keeps only
                    \* whether there was one, partialSuccessReturned

counters == <<failures, attempts, nones>>
serverVars == <<policy, srv, request, stage, sUser, counters, cache, bannerSent, chain>>

SrvStates == {"ident", "service", "loop", "callback", "kbd", "gssToken", "gssMIC",
              "success", "failed"}

Requests == {"none", "password", "kbdint", "query", "signed", "gss", "other"}
Followups == {"ident", "service", "answer", "token", "mic", "junk", "none yet"}

\* Kinds of identification lines: v2 is SSH-2.0-..., v199 and v1 the versions
\* 1.99 and 1.x, bare one without software suffix, cr has a stray CR, nul a
\* NUL, long exceeds 255 bytes, huge 8192, noise does not start with SSH-.
Idents == {"v2", "v199", "v1", "bare", "cr", "nul", "long", "huge", "noise"}

\* a "none" request carries no credential
Packets ==
    {p \in [t : Requests \cup Followups, user : Accounts, cred : Credentials,
            q : {"good", "bad", "algo", "sigAlgo", "again"} \cup Idents] :
        p.t = "none" => p.cred = ""}

Packet(t, u, c, q) == [t |-> t, user |-> u, cred |-> c, q |-> q]
NoPacket == Packet("none yet", "", "", "good")
NoKey == [user |-> "", key |-> "", result |-> "fail"]
Answer(t) == [t |-> t, methods |-> {}]
Refusal(t, ms) == [t |-> t, methods |-> ms]

ServerInit ==
    /\ policy \in Policies
    /\ toServer = <<>> /\ toClient = <<>> /\ hungUp = FALSE
    /\ srv = "ident" /\ request = NoPacket
    /\ stage = 1 /\ sUser = ""
    /\ failures = 0 /\ attempts = 0 /\ nones = 0
    /\ cache = NoKey /\ bannerSent = FALSE
    /\ chain = <<>>

MethodOf(t) ==
    CASE t = "none" -> "none"
      [] t = "password" -> "password"
      [] t = "kbdint" -> "keyboard-interactive"
      [] t \in {"query", "signed"} -> "publickey"
      [] t = "gss" -> "gssapi-with-mic"
      [] OTHER -> "unknown"

\* the callbacks in force: authConfig
Configured(s) == policy.stages[s]
NextStage == IF stage < Len(policy.stages) THEN stage + 1 ELSE stage

partialSuccessReturned == chain # <<>>

-----------------------------------------------------------------------------
(* Identification and service                                              *)

Arrives(t) == toServer # <<>> /\ Head(toServer).t = t

\* readVersionOpenSSH is strict about the line, readVersion about its length
ReadVersion(line) ==
    IF policy.openSSH THEN line \notin {"cr", "nul", "huge", "noise"}
    ELSE line \notin {"long", "huge"}

\* readVersion passes over lines that are no identification
Skipped(line) == ~policy.openSSH /\ line = "noise"

\* fakesshParseOpenSSHProtocolVersion, fakesshOpenSSHProtocolMismatch
OpenSSHAccepts(line) == line \in {"v2", "v199", "long"}

\* isOpenSSHCompatClientVersion, the CheckClientVersion of anti-scan mode; a
\* NUL or a CR in the suffix does not trouble it
CheckClientVersion(line) == line \in {"v2", "v199", "long", "cr", "nul"}

IdentAccepted(line) ==
    /\ ReadVersion(line)
    /\ policy.openSSH => OpenSSHAccepts(line) /\ CheckClientVersion(line)

\* NewServerConn closes the connection on every error.
Abort ==
    /\ srv' = "failed"
    /\ toServer' = <<>>
    /\ UNCHANGED <<policy, request, stage, sUser, counters, cache, bannerSent, chain>>

RecvIdent ==
    /\ srv = "ident" /\ Arrives("ident")
    /\ \/ /\ Skipped(Head(toServer).q)
          /\ toServer' = Tail(toServer)
          /\ UNCHANGED <<toClient, serverVars>>
       \/ /\ ~Skipped(Head(toServer).q) /\ IdentAccepted(Head(toServer).q)
          /\ srv' = "service" /\ toServer' = Tail(toServer)
          /\ toClient' = IF policy.extInfo THEN Append(toClient, Answer("extinfo")) ELSE toClient
          /\ UNCHANGED <<policy, request, stage, sUser, counters, cache, bannerSent, chain>>
       \/ ~IdentAccepted(Head(toServer).q) /\ Abort /\ UNCHANGED toClient
    /\ UNCHANGED <<hungUp, gitVars>>

RecvService ==
    /\ srv = "service" /\ toServer # <<>>
    /\ \/ /\ Arrives("service")
          /\ srv' = "loop" /\ toServer' = Tail(toServer)
          /\ toClient' = Append(toClient, Answer("accept"))
          /\ UNCHANGED <<policy, request, stage, sUser, counters, cache, bannerSent, chain>>
       \/ ~Arrives("service") /\ Abort /\ UNCHANGED toClient
    /\ UNCHANGED <<hungUp, gitVars>>

\* A read on a connection the client has left.
ReadFails ==
    /\ srv \notin {"success", "failed", "callback"}
    /\ toServer = <<>> /\ hungUp
    /\ Abort
    /\ UNCHANGED <<toClient, hungUp, gitVars>>

-----------------------------------------------------------------------------
(* The end of an attempt                                                   *)

\* BannerCallback's message goes out with the first request.
Banner == IF policy.banner /\ ~bannerSent THEN <<Answer("banner")>> ELSE <<>>

Evidence(r, c) == [stage |-> stage, user |-> r.user, method |-> MethodOf(r.t), cred |-> c, q |-> r.q,
                   listed |-> listed[Self]]

\* authErr = nil.  Here and below k is the cache as the method leaves it.
Succeed(r, c, k) ==
    /\ srv' = "success" /\ cache' = k
    /\ chain' = Append(chain, Evidence(r, c))
    /\ toClient' = toClient \o Banner \o <<Answer("success")>>
    /\ UNCHANGED <<stage, failures>>

\* a failure message lists the methods that are left, if any are
Refuse(msg, s) ==
    IF Configured(s) = {}
    THEN srv' = "failed" /\ toClient' = toClient \o Banner
    ELSE srv' = "loop" /\ toClient' = toClient \o Banner \o <<Refusal(msg, Configured(s))>>

\* Mutant: what the callback of the previous stage said about a key stays.
PartlySucceedKeepsCache(r, c, k) ==
    /\ stage' = NextStage /\ cache' = k
    /\ chain' = Append(chain, Evidence(r, c))
    /\ Refuse("partial", NextStage)
    /\ UNCHANGED failures

\* authErr is a PartialSuccessError: other callbacks, an empty cache
PartlySucceed(r, c, k) ==
    /\ stage' = NextStage /\ cache' = NoKey
    /\ chain' = Append(chain, Evidence(r, c))
    /\ Refuse("partial", NextStage)
    /\ UNCHANGED failures

\* Mutant: a failed "none" counts like any other attempt.
PenaltyForNone(m, n) == TRUE

\* The first attempt costs nothing if it is "none"; n counts this one.
Penalty(m, n) == failures > 0 \/ m # "none" \/ n # 1

\* NewServerConn: six tries if none are configured; a negative number is no bound.
MaxAuthTries == IF policy.tries = 0 THEN 6 ELSE policy.tries

\* Mutant: the last failure but one is not answered either.
FailQuietly(m, n, k) ==
    LET f == IF Penalty(m, n) THEN failures + 1 ELSE failures IN
    /\ failures' = f /\ cache' = k
    /\ IF MaxAuthTries > 0 /\ f + 1 >= MaxAuthTries
       THEN srv' = "loop" /\ toClient' = toClient \o Banner
       ELSE Refuse("failure", stage)
    /\ UNCHANGED <<stage, chain>>

\* any other authErr: counted, and answered unless it was the last one
\* (the disconnect follows, at the top of the loop)
Fail(m, n, k) ==
    LET f == IF Penalty(m, n) THEN failures + 1 ELSE failures IN
    /\ failures' = f /\ cache' = k
    /\ IF MaxAuthTries > 0 /\ f >= MaxAuthTries
       THEN srv' = "loop" /\ toClient' = toClient \o Banner
       ELSE Refuse("failure", stage)
    /\ UNCHANGED <<stage, chain>>

\* What the loop makes of the answer v of a callback (or of its own checks);
\* a partial success with permissions ends the handshake.
Conclude(r, c, v, n, k) ==
    CASE v = "ok" -> Succeed(r, c, k)
      [] v = "partial" -> PartlySucceed(r, c, k)
      [] v = "misuse" -> /\ srv' = "failed" /\ toClient' = toClient \o Banner
                         /\ UNCHANGED <<stage, failures, cache, chain>>
      [] OTHER -> Fail(MethodOf(r.t), n, k)

\* The end of a method that takes more than its first packet.
Ends(c, v, k) ==
    /\ Conclude(request, c, v, nones, k)
    /\ bannerSent' = TRUE /\ request' = NoPacket
    /\ UNCHANGED <<policy, sUser, attempts, nones>>

-----------------------------------------------------------------------------
(* The loop                                                                *)

TooManyFailures == MaxAuthTries > 0 /\ failures >= MaxAuthTries

Disconnect ==
    /\ srv = "loop"
    /\ TooManyFailures \/ attempts >= MaxAttempts
    /\ toClient' = Append(toClient, Answer("disconnect"))
    /\ Abort
    /\ UNCHANGED <<hungUp, gitVars>>

\* A client that changes the account after a partial success is dropped.
Acceptable(r) == r.t \in Requests /\ (partialSuccessReturned => r.user = sUser)

\* The next request, with the counters it moves.
Reads ==
    /\ srv = "loop" /\ ~TooManyFailures /\ attempts < MaxAttempts

Takes(r) ==
    /\ toServer' = Tail(toServer)
    /\ attempts' = attempts + 1
    /\ sUser' = r.user
    /\ UNCHANGED <<policy, hungUp>>

RecvUnacceptable ==
    /\ toServer # <<>>
    /\ LET r == Head(toServer) IN Reads /\ ~Acceptable(r)
    /\ Abort
    /\ UNCHANGED <<toClient, hungUp, gitVars>>

\* none, a password, and every method that is refused where it is read: not
\* configured, unknown, an algorithm or a mechanism that is not accepted
Immediate(r) ==
    LET m == MethodOf(r.t) IN
    CASE m = "none" -> IF policy.none /\ ~partialSuccessReturned
                       THEN Verdict(policy, stage, "none", r.user, "") ELSE "fail"
      [] m # "none" /\ m \notin Configured(stage) -> "fail"
      [] m = "password" /\ m \in Configured(stage) -> Verdict(policy, stage, m, r.user, r.cred)
      [] OTHER -> IF r.q = "good" \/ (r.t = "signed" /\ r.q # "algo") THEN "later" ELSE "fail"

RecvImmediate ==
    /\ toServer # <<>>
    /\ LET r == Head(toServer) IN
        /\ Reads /\ Acceptable(r) /\ Immediate(r) # "later"
        /\ Takes(r)
        /\ nones' = IF r.t = "none" THEN nones + 1 ELSE nones
        /\ Conclude(r, r.cred, Immediate(r), nones', cache)
        /\ bannerSent' = TRUE
        /\ UNCHANGED <<request, gitVars>>

\* keyboard-interactive asks; gssapi-with-mic answers with the mechanism
RecvStart ==
    /\ toServer # <<>>
    /\ LET r == Head(toServer) IN
        /\ Reads /\ Acceptable(r) /\ Immediate(r) = "later"
        /\ r.t \in {"kbdint", "gss"}
        /\ Takes(r)
        /\ srv' = IF r.t = "gss" THEN "gssToken" ELSE "kbd"
        /\ toClient' = toClient \o Banner
                          \o <<Answer(IF r.t = "gss" THEN "gssresp" ELSE "info")>>
        /\ request' = r /\ bannerSent' = TRUE
        /\ UNCHANGED <<stage, failures, nones, cache, chain, gitVars>>

-----------------------------------------------------------------------------
(* Public keys                                                             *)

Cached(r) == cache.user = r.user /\ cache.key = r.cred

RecvKey ==
    /\ toServer # <<>>
    /\ LET r == Head(toServer) IN
        /\ Reads /\ Acceptable(r) /\ Immediate(r) = "later"
        /\ r.t \in {"query", "signed"}
        /\ Takes(r)
        /\ srv' = "callback" /\ request' = r
        /\ toClient' = toClient \o Banner /\ bannerSent' = TRUE
        /\ IF policy.git /\ ~Cached(r) THEN CallGit(Self, r.user, r.cred) ELSE UNCHANGED gitVars
        /\ UNCHANGED <<stage, failures, nones, cache, chain>>

\* What PublicKeyCallback returns; a source-address that does not match is
\* remembered as a refusal.
KeyVerdict(r) ==
    LET v == IF policy.git THEN (IF call[Self] = "granted" THEN "ok" ELSE "fail")
             ELSE Verdict(policy, stage, "publickey", r.user, r.cred)
    IN  IF v = "addr" THEN "fail" ELSE v

Candidate(r) == IF Cached(r) THEN cache
                ELSE [user |-> r.user, key |-> r.cred, result |-> KeyVerdict(r)]

CallbackReturned == policy.git /\ ~Cached(request) => call[Self] \in {"granted", "refused"}

\* PublicKeyCallback may not be partial when a key is confirmed afterwards
InvalidUsage(r) == ~Cached(r) /\ policy.verified /\ Candidate(r).result \in {"partial", "misuse"}

\* A query: the key would do, or it is refused like a failed attempt.
AnswerQuery ==
    /\ srv = "callback" /\ request.t = "query" /\ CallbackReturned
    /\ LET k == Candidate(request) IN
       \/ InvalidUsage(request) /\ Abort /\ UNCHANGED toClient
       \/ /\ ~InvalidUsage(request) /\ k.result \in {"ok", "partial", "misuse"}
          /\ srv' = "loop" /\ cache' = k /\ request' = NoPacket /\ bannerSent' = TRUE
          /\ toClient' = toClient \o Banner \o <<Answer("pkok")>>
          /\ UNCHANGED <<policy, toServer, stage, sUser, counters, chain>>
       \/ k.result = "fail" /\ Ends(request.cred, "fail", k) /\ UNCHANGED toServer
    /\ UNCHANGED <<hungUp, gitVars>>

\* pubKey.Verify; a signature that fails it ends the connection
Verifies(r) == r.q = "good"

\* A signed request: signature format, signature, then the callback's answer,
\* confirmed by VerifiedPublicKeyCallback where there is one.
AnswerSigned ==
    /\ srv = "callback" /\ request.t = "signed" /\ CallbackReturned
    /\ LET k == Candidate(request)
           v == IF k.result = "ok" /\ policy.verified
                THEN VerifiedVerdict(policy, request.user, request.cred) ELSE k.result
       IN
       \/ InvalidUsage(request) /\ Abort /\ UNCHANGED toClient
       \/ /\ ~InvalidUsage(request) /\ request.q = "sigAlgo"
          /\ Ends(request.cred, "fail", k) /\ UNCHANGED toServer
       \/ /\ ~InvalidUsage(request) /\ request.q # "sigAlgo" /\ ~Verifies(request)
          /\ Abort /\ UNCHANGED toClient
       \/ /\ ~InvalidUsage(request) /\ request.q # "sigAlgo" /\ Verifies(request)
          /\ Ends(request.cred, v, k) /\ UNCHANGED toServer
    /\ UNCHANGED <<hungUp, gitVars>>

-----------------------------------------------------------------------------
(* Methods that exchange further packets                                   *)

\* Challenge: the callback asks once or twice, and fails if the client sends
\* anything but an answer.
RecvAnswer ==
    /\ srv = "kbd" /\ toServer # <<>>
    /\ toServer' = Tail(toServer)
    /\ \/ /\ Arrives("answer") /\ policy.rounds = 2 /\ request.q = "good"
          /\ request' = [request EXCEPT !.q = "again"]
          /\ toClient' = Append(toClient, Answer("info"))
          /\ UNCHANGED <<policy, srv, stage, sUser, counters, cache, bannerSent, chain>>
       \/ /\ Arrives("answer") /\ ~(policy.rounds = 2 /\ request.q = "good")
          /\ LET c == Head(toServer).cred IN
             Ends(c, Verdict(policy, stage, "keyboard-interactive", request.user, c), cache)
       \/ ~Arrives("answer") /\ Ends("", "fail", cache)
    /\ UNCHANGED <<hungUp, gitVars>>

\* gssExchangeToken: a token the mechanism rejects fails the attempt, any other
\* packet the handshake
RecvToken ==
    /\ srv = "gssToken" /\ toServer # <<>>
    /\ \/ /\ Arrives("token") /\ Head(toServer).q = "good"
          /\ srv' = "gssMIC" /\ toServer' = Tail(toServer)
          /\ toClient' = IF policy.mutual THEN Append(toClient, Answer("gsstoken")) ELSE toClient
          /\ UNCHANGED <<policy, request, stage, sUser, counters, cache, bannerSent, chain>>
       \/ /\ Arrives("token") /\ Head(toServer).q # "good"
          /\ toServer' = Tail(toServer)
          /\ Ends("", "fail", cache)
       \/ ~Arrives("token") /\ Abort /\ UNCHANGED toClient
    /\ UNCHANGED <<hungUp, gitVars>>

\* VerifyMIC, then AllowLogin for the name the mechanism vouches for
RecvMIC ==
    /\ srv = "gssMIC" /\ toServer # <<>>
    /\ \/ /\ Arrives("mic")
          /\ toServer' = Tail(toServer)
          /\ Ends("gss", IF Head(toServer).q = "good"
                         THEN Verdict(policy, stage, "gssapi-with-mic", request.user, "gss")
                         ELSE "fail", cache)
       \/ ~Arrives("mic") /\ Abort /\ UNCHANGED toClient
    /\ UNCHANGED <<hungUp, gitVars>>

ServerStep ==
    \/ RecvIdent \/ RecvService \/ ReadFails \/ Disconnect
    \/ RecvUnacceptable \/ RecvImmediate \/ RecvStart \/ RecvKey
    \/ AnswerQuery \/ AnswerSigned
    \/ RecvAnswer \/ RecvToken \/ RecvMIC
=============================================================================
