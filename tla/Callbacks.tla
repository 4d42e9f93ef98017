------------------------------ MODULE Callbacks ------------------------------
(***************************************************************************)
(* The authentication callbacks fakessh and its users install: authCallback*)
(* and checkCouldSuccess of main.go for passwords, CertChecker for keys.   *)
(* Their answers are those of AuthServer's Verdict.                        *)
(***************************************************************************)
EXTENDS Certs

\* checkCouldSuccess: a pair of account and password succeeds or fails for
\* good, by its hash; about ratio per cent of the hashes are below the limit.
CheckCouldSuccess(ratio, hash, hashes) ==
    /\ ratio # 0
    /\ ratio = 100 \/ hash * 100 <= ratio * (hashes - 1)

\* authCallback: c has the configured users with their passwords, the account
\* of the Git server ("" when it is off), the success ratio and the hash.
AuthCallback(c, user, password) ==
    IF user = c.gitUser THEN "fail"
    ELSE IF user \in DOMAIN c.users
         THEN IF password = c.users[user] THEN "ok" ELSE "fail"
         ELSE IF CheckCouldSuccess(c.ratio, c.hash[user, password], c.hashes) THEN "ok" ELSE "fail"

\* CertChecker.Authenticate as a PublicKeyCallback; a certificate may carry a
\* source-address that the client does not have.
CertCallback(checker, user, cert, now, addrMatches) ==
    IF ~Authenticate(checker, user, cert, now) THEN "fail"
    ELSE IF SourceAddress \in cert.options /\ ~addrMatches THEN "addr" ELSE "ok"
=============================================================================
