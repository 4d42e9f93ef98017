------------------------------- MODULE UserAuth ------------------------------
(***************************************************************************)
(* One SSH login: AuthServer against the library's client (peer = "lib")   *)
(* or against a client that sends any packets it likes ("any"), while      *)
(* other logins use the same Git server and an operator edits its          *)
(* authorized_keys.                                                        *)
(***************************************************************************)
EXTENDS AuthClient

CONSTANTS
    AnyPackets(_, _),   \* (policy, srv): what an arbitrary client may send
    MaxPackets,         \* bound: how many of them
    Entitled(_, _, _, _, _)     \* (policy, stage, method, user, credential): who
                                \* is meant to get in, independently of the code

ASSUME PacketsAssumption ==
    \A p \in Policies, s \in SrvStates : AnyPackets(p, s) \subseteq Packets

Passing == {"ok", "partial"}

\* a key passes with PublicKeyCallback, confirmed where there is a
\* VerifiedPublicKeyCallback
KeyPasses(p, s, u, c) ==
    IF p.verified
    THEN Verdict(p, s, "publickey", u, c) = "ok" /\ VerifiedVerdict(p, u, c) \in Passing
    ELSE Verdict(p, s, "publickey", u, c) \in Passing

\* The callbacks of a policy pass only whom they are meant to pass: what the
\* library cannot know of them.  The keys of a Git server are GitAuth's.

ASSUME CallbacksAssumption ==
    \A p \in Policies, u \in Accounts : \A s \in DOMAIN p.stages :
        /\ p.none /\ Verdict(p, s, "none", u, "") \in Passing => Entitled(p, s, "none", u, "")
        /\ \A m \in p.stages[s] \ {"publickey"}, c \in Credentials :
                Verdict(p, s, m, u, c) \in Passing => Entitled(p, s, m, u, c)
        /\ "publickey" \in p.stages[s] /\ ~p.git =>
              \A c \in Credentials : KeyPasses(p, s, u, c) => Entitled(p, s, "publickey", u, c)

VARIABLES peer, sent

vars == <<gitVars, serverVars, clientVars, toServer, toClient, hungUp, peer, sent>>

Init ==
    /\ GitInit /\ ServerInit /\ ClientInit
    /\ peer \in {"lib", "any"} /\ sent = 0

Server == ServerStep /\ UNCHANGED <<clientVars, peer, sent>>

Client ==
    /\ peer = "lib"
    /\ ClientStep
    /\ UNCHANGED <<serverVars, hungUp, gitVars, peer, sent>>

ClientHangsUp == peer = "lib" /\ HangUp /\ UNCHANGED <<peer, sent>>

\* Another program at the other end: it reads everything at once.
AnyClientSends ==
    /\ peer = "any" /\ ~hungUp /\ srv \notin {"success", "failed"}
    /\ toServer = <<>> /\ sent < MaxPackets
    /\ \E p \in AnyPackets(policy, srv) : toServer' = <<p>>
    /\ toClient' = <<>> /\ sent' = sent + 1
    /\ UNCHANGED <<serverVars, clientVars, hungUp, gitVars, peer>>

AnyClientHangsUp ==
    /\ peer = "any" /\ ~hungUp /\ toServer = <<>>
    /\ hungUp' = TRUE /\ toClient' = <<>>
    /\ UNCHANGED <<serverVars, clientVars, toServer, gitVars, peer, sent>>

Operator ==
    /\ policy.git /\ EditFile
    /\ UNCHANGED <<serverVars, clientVars, toServer, toClient, hungUp, peer, sent>>

GitCallback(l) ==
    /\ GitStep(l)
    /\ UNCHANGED <<serverVars, clientVars, toServer, toClient, hungUp, peer, sent>>

OtherLogin(l) ==
    /\ policy.git /\ call[l] = "idle"
    /\ \E k \in GitKeys : CallGit(l, GitUser, k)
    /\ UNCHANGED <<serverVars, clientVars, toServer, toClient, hungUp, peer, sent>>

Next ==
    \/ Server \/ Client \/ ClientHangsUp \/ AnyClientSends \/ AnyClientHangsUp
    \/ Operator
    \/ \E l \in Logins : GitCallback(l)
    \/ \E l \in Logins \ {Self} : OtherLogin(l)

\* Go runs both goroutines; a callback returns.  Nothing is assumed of the
\* operator, the other logins' arrival or another program's packets.
Fairness ==
    /\ WF_vars(Server) /\ WF_vars(Client) /\ WF_vars(ClientHangsUp)
    /\ \A l \in Logins : WF_vars(GitCallback(l))

Spec == Init /\ [][Next]_vars /\ Fairness

-----------------------------------------------------------------------------
\* What step i of a login rested on: an account and a credential that were
\* meant to get in at that stage, a signature that verified, a key that
\* authorized_keys listed at some time since the key was first offered.
Rests(i) ==
    LET e == chain[i] IN
    /\ e.user = sUser
    /\ e.stage >= i \/ e.stage = Len(policy.stages)
    /\ e.method = "none" => i = 1 /\ policy.none
    /\ e.method # "none" => e.method \in policy.stages[e.stage]
    /\ e.method \in {"publickey", "gssapi-with-mic"} => e.q = "good"
    /\ IF policy.git /\ e.method = "publickey"
       THEN e.user = GitUser /\ (watch => e.cred \in e.listed)
       ELSE Entitled(policy, e.stage, e.method, e.user, e.cred)

\* serverAuthenticate (server.go:700-1100): a login that succeeds has passed
\* every stage in order with one account and credentials that were meant for
\* it, whatever the client sent, whatever the key cache held and whatever
\* other logins and the operator did; the client never believes otherwise.
AuthSound ==
    /\ srv = "success" =>
        /\ chain # <<>> /\ chain[Len(chain)].stage = stage
        /\ \A s \in 1 .. stage : \E i \in DOMAIN chain : chain[i].stage = s
        /\ \A i \in DOMAIN chain : Rests(i)
    /\ cli = "ok" => srv = "success"

\* The client has, for every stage, something that is meant to get it in, and
\* no other method of its own to try before it.
FirstMethod(s) ==
    LET usable == {i \in DOMAIN config.auth : config.auth[i] \in policy.stages[s]} IN
    IF usable = {} THEN "none" ELSE config.auth[First(usable)]

Credential(m) == IF m = "gssapi-with-mic" THEN "gss" ELSE config.secret

GoodKeys(s) ==
    {i \in DOMAIN config.keys :
        /\ config.keys[i] \notin config.noAlgo
        /\ Entitled(policy, s, "publickey", config.user, config.keys[i])}

Fits ==
    /\ peer = "lib" /\ ~policy.git /\ ~config.callback
    /\ \A s \in DOMAIN policy.stages :
        LET m == FirstMethod(s) IN
        /\ m = "publickey" => /\ GoodKeys(s) # {}
                              /\ MaxAuthTries < 0 \/ MaxAuthTries >= First(GoodKeys(s))
        /\ m \in {"password", "keyboard-interactive", "gssapi-with-mic"} =>
                Entitled(policy, s, m, config.user, Credential(m))
        /\ m = "keyboard-interactive" => config.answers
        /\ m = "gssapi-with-mic" => config.gss = "good"
        /\ m # "none"

\* clientAuthenticate and serverAuthenticate together: such a client is never
\* turned away - by attempts counted against it that were none, by a banner or
\* extension message at the wrong moment, by a list of methods or keys given
\* up too early.
CapableGetsIn == Fits => cli # "failed" /\ srv # "failed"

\* Every login of the library's client ends, on both sides: neither waits for
\* a packet the other will not send.
AuthEnds == peer = "lib" ~> (cli \in {"ok", "failed"} /\ srv \in {"success", "failed"})
=============================================================================
