----------------------------- MODULE AuthClient -----------------------------
(***************************************************************************)
(* The client's half of SSH user authentication: clientAuthenticate and    *)
(* the authentication methods of third/ssh/client_auth.go, connected to    *)
(* AuthServer by the two packet queues.                                    *)
(*                                                                         *)
(* config is the client's configuration: its account, the methods of       *)
(* config.Auth in order, the secret for passwords and questions, its keys, *)
(* how often a method is retried (RetryableAuthMethod), what its keyboard  *)
(* callback does, and whether an AuthCallback chooses the methods.         *)
(*                                                                         *)
(* cli is the place in clientAuthenticate:                                 *)
(*   start, accept      before and after the service request               *)
(*   next               a method has ended; the next one is chosen         *)
(*   key, ack           the loop over the signers; waiting for the answer  *)
(*                      to a query                                         *)
(*   resp, kbd, gssresp, gsstoken   waiting in handleAuthResponse, in the  *)
(*                      keyboard loop, for the mechanism, for a token      *)
(*   ok, failed         returned                                           *)
(***************************************************************************)
EXTENDS AuthServer

CONSTANTS
    ClientConfigs,
    MaxTried        \* maxAuthClientTried

ASSUME ConfigsAssumption ==
    \A c \in ClientConfigs :
        /\ c.user \in Accounts /\ c.secret \in Credentials /\ c.gss \in {"good", "bad"}
        /\ c.auth \in Seq(Methods) /\ c.keys \in Seq(Credentials)

VARIABLES
    config,
    cli,
    cur, tries,         \* the method under way, and its attempts so far
    result,             \* what it returned: [res, methods, err]
    tried, triedCount,  \* failed methods; failures and partial successes
    lastMethods,
    signers, idx,       \* publickey: the signers still to try
    algoErr,            \* ... one had no usable algorithm (errSigAlgo)
    gotExt, gotInfo

keyLoop == <<signers, idx, algoErr>>
method == <<cur, tries, keyLoop, gotExt, gotInfo>>
attempted == <<tried, triedCount, lastMethods>>
clientVars == <<config, cli, method, result, attempted>>

Returned(r, ms, e) == [res |-> r, methods |-> ms, err |-> e]
NoMethods == {"nil"}    \* the nil slice: the last list stays valid

ClientInit ==
    /\ config \in ClientConfigs
    /\ cli = "start" /\ cur = "none" /\ tries = 0
    /\ result = Returned("none", NoMethods, "nil")
    /\ tried = {} /\ triedCount = 0 /\ lastMethods = {}
    /\ signers = <<>> /\ idx = 1 /\ algoErr = FALSE
    /\ gotExt = FALSE /\ gotInfo = FALSE

Answered == toClient # <<>>
Got(t) == Answered /\ Head(toClient).t = t

\* the server has closed, and everything it sent is read
Eof == toClient = <<>> /\ srv = "failed"

Sends(ps) == toServer' = IF srv = "failed" THEN <<>> ELSE toServer \o ps
Sent(t, c, q) == Packet(t, config.user, c, q)

\* the identification and the service request
Hello ==
    /\ cli = "start"
    /\ Sends(<<Packet("ident", "", "", "v2"), Packet("service", "", "", "good")>>)
    /\ cli' = "accept"
    /\ UNCHANGED <<config, method, result, attempted, toClient>>

-----------------------------------------------------------------------------
(* The methods' first packets                                              *)

Starts(m, c, ps, n) ==
    /\ cur' = m /\ cli' = c /\ tries' = n
    /\ gotExt' = FALSE /\ gotInfo' = FALSE
    /\ Sends(ps)

\* auth(): send what the method begins with; public keys go to their loop
Begin(m, n) ==
    CASE m = "none" -> Starts(m, "resp", <<Sent("none", "", "good")>>, n) /\ UNCHANGED keyLoop
      [] m = "password" ->
            Starts(m, "resp", <<Sent("password", config.secret, "good")>>, n) /\ UNCHANGED keyLoop
      [] m = "keyboard-interactive" ->
            Starts(m, "kbd", <<Sent("kbdint", "", "good")>>, n) /\ UNCHANGED keyLoop
      [] m = "gssapi-with-mic" ->
            Starts(m, "gssresp", <<Sent("gss", "", "good")>>, n) /\ UNCHANGED keyLoop
      [] m = "publickey" ->
            /\ Starts(m, "key", <<>>, n)
            /\ signers' = config.keys /\ idx' = 1 /\ algoErr' = FALSE

\* a method has returned
Ended(r, ms, e) ==
    /\ cli' = "next" /\ result' = Returned(r, ms, e)
    /\ UNCHANGED <<cur, tries, keyLoop, gotExt, gotInfo>>

\* a disconnect is returned at once, as an error
Dropped == cli' = "failed" /\ UNCHANGED <<method, result>>

\* SSH_MSG_EXT_INFO may come before the accept, and is optional
RecvAccept ==
    /\ cli = "accept"
    /\ \/ /\ Got("extinfo") /\ ~gotExt
          /\ gotExt' = TRUE
          /\ UNCHANGED <<cli, cur, tries, keyLoop, gotInfo, toServer, result>>
       \/ Got("accept") /\ Begin("none", 1) /\ UNCHANGED result
       \/ /\ Eof \/ (Answered /\ ~Got("accept") /\ (Got("extinfo") => gotExt))
          /\ Dropped /\ UNCHANGED toServer
    /\ toClient' = IF Answered THEN Tail(toClient) ELSE toClient
    /\ UNCHANGED <<config, attempted>>

-----------------------------------------------------------------------------
(* Choosing the next method                                                *)

\* methods of config.Auth that the server allows and that have not failed
Untried(t) == {i \in DOMAIN config.auth : config.auth[i] \in lastMethods' \ t}

First(s) == CHOOSE i \in s : \A j \in s : i <= j

\* RetryableAuthMethod repeats a failure that is no error
Retries == config.retry[cur] > tries /\ result.res = "fail" /\ result.err = "nil"

Retry ==
    /\ cli = "next" /\ Retries
    /\ Begin(cur, tries + 1)
    /\ UNCHANGED <<config, result, attempted, toClient>>

\* The body of the loop after auth.auth: the books, the bound, the AuthCallback
\* (which picks a method, declines to, or fails), the next method of config.Auth.
ChooseNext ==
    /\ cli = "next" /\ ~Retries
    /\ tried' = IF result.res = "fail" THEN tried \cup {cur} ELSE tried
    /\ triedCount' = triedCount + 1
    /\ lastMethods' = IF result.methods = NoMethods THEN lastMethods ELSE result.methods
    /\ \/ /\ triedCount' > MaxTried
          /\ cli' = "failed" /\ UNCHANGED <<method, toServer>>
       \/ /\ triedCount' <= MaxTried /\ config.callback
          /\ \E i \in DOMAIN config.auth : Begin(config.auth[i], 1)
       \/ /\ triedCount' <= MaxTried /\ Untried(tried') # {}
          /\ Begin(config.auth[First(Untried(tried'))], 1)
       \/ /\ triedCount' <= MaxTried /\ (Untried(tried') = {} \/ config.callback)
          /\ cli' = "failed" /\ UNCHANGED <<method, toServer>>
    /\ UNCHANGED <<config, result, toClient>>

-----------------------------------------------------------------------------
(* Waiting for the outcome                                                 *)

\* A failure of publickey: unless the server dropped the method, the loop over
\* the signers goes on.
KeysRemain(ms) == cur = "publickey" /\ "publickey" \in ms

\* handleAuthResponse
RecvResponse ==
    /\ cli = "resp"
    /\ \/ Got("banner") /\ UNCHANGED <<cli, method, result>>
       \/ /\ Got("extinfo") /\ ~gotExt
          /\ gotExt' = TRUE
          /\ UNCHANGED <<cli, cur, tries, keyLoop, gotInfo, result>>
       \/ Got("success") /\ cli' = "ok" /\ UNCHANGED <<method, result>>
       \/ Got("partial") /\ Ended("partial", Head(toClient).methods, "nil")
       \/ /\ Got("failure") /\ ~KeysRemain(Head(toClient).methods)
          /\ Ended("fail", Head(toClient).methods, "nil")
       \/ /\ Got("failure") /\ KeysRemain(Head(toClient).methods)
          /\ cli' = "key" /\ idx' = idx + 1
          /\ result' = Returned("none", Head(toClient).methods, "nil")
          /\ UNCHANGED <<cur, tries, signers, algoErr, gotExt, gotInfo>>
       \/ Got("disconnect") /\ Dropped
       \/ /\ Eof \/ (Got("extinfo") /\ gotExt) \/ Got("pkok") \/ Got("info") \/ Got("gssresp")
             \/ Got("gsstoken")
          /\ Ended("fail", NoMethods, "err")
    /\ toClient' = IF Answered THEN Tail(toClient) ELSE toClient
    /\ UNCHANGED <<config, attempted, toServer>>

-----------------------------------------------------------------------------
(* Public keys                                                             *)

\* pickSignatureAlgorithm finds nothing for the signer
NoAlgorithm(k) == k \in config.noAlgo

\* The first signer without an algorithm is passed over; a later one is
\* offered all the same, with an algorithm no server accepts.
TryKey ==
    /\ cli = "key"
    /\ \/ /\ idx > Len(signers)
          /\ Ended("fail", result.methods, IF algoErr THEN "err" ELSE "nil")
          /\ UNCHANGED toServer
       \/ /\ idx <= Len(signers) /\ NoAlgorithm(signers[idx]) /\ ~algoErr
          /\ algoErr' = TRUE /\ idx' = idx + 1
          /\ UNCHANGED <<cli, cur, tries, signers, gotExt, gotInfo, result, toServer>>
       \/ /\ idx <= Len(signers) /\ (NoAlgorithm(signers[idx]) => algoErr)
          /\ Sends(<<Sent("query", signers[idx],
                          IF NoAlgorithm(signers[idx]) THEN "algo" ELSE "good")>>)
          /\ cli' = "ack"
          /\ UNCHANGED <<method, result>>
    /\ UNCHANGED <<config, attempted, toClient>>

\* A refused RSA certificate is tried once more, after all others, with the
\* algorithm that servers without server-sig-algs expect.
Compat == config.rsaCerts \cap {signers[idx]} # {} /\ idx <= Len(config.keys)

\* validateKey, confirmKeyAck; then the signature
RecvKeyAck ==
    /\ cli = "ack"
    /\ \/ Got("banner") /\ UNCHANGED <<cli, method, result, toServer>>
       \/ /\ Got("pkok")
          /\ Sends(<<Sent("signed", signers[idx], "good")>>)
          /\ cli' = "resp" /\ gotExt' = FALSE
          /\ UNCHANGED <<cur, tries, keyLoop, gotInfo, result>>
       \/ /\ Got("failure") \/ Got("partial")
          /\ signers' = IF Compat THEN Append(signers, signers[idx]) ELSE signers
          /\ idx' = idx + 1 /\ cli' = "key"
          /\ UNCHANGED <<cur, tries, algoErr, gotExt, gotInfo, result, toServer>>
       \/ Got("disconnect") /\ Dropped /\ UNCHANGED toServer
       \/ /\ Eof \/ Got("success") \/ Got("extinfo") \/ Got("info") \/ Got("gssresp")
             \/ Got("gsstoken")
          /\ Ended("fail", NoMethods, "err") /\ UNCHANGED toServer
    /\ toClient' = IF Answered THEN Tail(toClient) ELSE toClient
    /\ UNCHANGED <<config, attempted>>

-----------------------------------------------------------------------------
(* keyboard-interactive and gssapi-with-mic                                *)

\* A failure before any question is reported as an unexpected message; a
\* callback that gives up leaves the server's question unanswered.
RecvQuestion ==
    /\ cli = "kbd"
    /\ \/ Got("banner") /\ UNCHANGED <<cli, method, result, toServer>>
       \/ /\ Got("extinfo") /\ ~gotExt
          /\ gotExt' = TRUE
          /\ UNCHANGED <<cli, cur, tries, keyLoop, gotInfo, result, toServer>>
       \/ /\ Got("info") /\ config.answers
          /\ Sends(<<Sent("answer", config.secret, "good")>>)
          /\ gotInfo' = TRUE
          /\ UNCHANGED <<cli, cur, tries, keyLoop, gotExt, result>>
       \/ /\ Got("info") /\ ~config.answers
          /\ Ended("fail", NoMethods, "err") /\ UNCHANGED toServer
       \/ Got("success") /\ cli' = "ok" /\ UNCHANGED <<method, result, toServer>>
       \/ /\ Got("partial")
          /\ Ended("partial", Head(toClient).methods, "nil") /\ UNCHANGED toServer
       \/ /\ Got("failure")
          /\ Ended("fail", Head(toClient).methods, IF gotInfo THEN "nil" ELSE "err")
          /\ UNCHANGED toServer
       \/ Got("disconnect") /\ Dropped /\ UNCHANGED toServer
       \/ /\ Eof \/ (Got("extinfo") /\ gotExt) \/ Got("pkok") \/ Got("gssresp") \/ Got("gsstoken")
          /\ Ended("fail", NoMethods, "err") /\ UNCHANGED toServer
    /\ toClient' = IF Answered THEN Tail(toClient) ELSE toClient
    /\ UNCHANGED <<config, attempted>>

Mic == Sent("mic", "", config.gss)

\* The first packet must be the mechanism (a failure is an error here).  With
\* mutual authentication the server's token is awaited, without it the MIC
\* follows the token.
RecvMechanism ==
    /\ cli = "gssresp"
    /\ \/ /\ Got("gssresp") /\ policy.mutual
          /\ Sends(<<Sent("token", "", config.gss)>>)
          /\ cli' = "gsstoken" /\ UNCHANGED <<method, result>>
       \/ /\ Got("gssresp") /\ ~policy.mutual
          /\ Sends(<<Sent("token", "", config.gss), Mic>>)
          /\ cli' = "resp" /\ UNCHANGED <<method, result>>
       \/ Got("disconnect") /\ Dropped /\ UNCHANGED toServer
       \/ /\ Eof \/ (Answered /\ ~Got("gssresp") /\ ~Got("disconnect"))
          /\ Ended("fail", NoMethods, "err") /\ UNCHANGED toServer
    /\ toClient' = IF Answered THEN Tail(toClient) ELSE toClient
    /\ UNCHANGED <<config, attempted>>

\* Other packets than those named change nothing: InitSecContext sees the old
\* token again (and, being mutual, asks for another).
RecvGssToken ==
    /\ cli = "gsstoken"
    /\ \/ Got("gsstoken") /\ Sends(<<Mic>>) /\ cli' = "resp" /\ UNCHANGED <<method, result>>
       \/ /\ Got("failure") \/ Got("partial")
          /\ Ended(IF Got("partial") THEN "partial" ELSE "fail", Head(toClient).methods, "nil")
          /\ UNCHANGED toServer
       \/ Got("disconnect") /\ Dropped /\ UNCHANGED toServer
       \/ Eof /\ Ended("fail", NoMethods, "err") /\ UNCHANGED toServer
    /\ toClient' = IF Answered THEN Tail(toClient) ELSE toClient
    /\ UNCHANGED <<config, attempted>>

ClientStep ==
    \/ Hello \/ RecvAccept \/ ChooseNext \/ Retry \/ RecvResponse
    \/ TryKey \/ RecvKeyAck \/ RecvQuestion \/ RecvMechanism \/ RecvGssToken

\* clientHandshake's caller closes the connection when it fails
HangUp ==
    /\ cli = "failed" /\ ~hungUp
    /\ hungUp' = TRUE
    /\ UNCHANGED <<clientVars, serverVars, toServer, toClient, gitVars>>
=============================================================================
