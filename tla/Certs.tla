-------------------------------- MODULE Certs --------------------------------
(***************************************************************************)
(* CertChecker of third/ssh/certs.go: whether a certificate may be used    *)
(* by a principal, now.                                                    *)
(*                                                                         *)
(* A certificate is a record:                                              *)
(*   certType     "user" or "host"                                         *)
(*   authority    the key that signed it (SignatureKey)                    *)
(*   serial       what IsRevoked looks up                                  *)
(*   options      its critical options                                     *)
(*   principals   ValidPrincipals; none means all                          *)
(*   validAfter, validBefore   unsigned times of Width bits                *)
(*   signed       the authority's signature over it verifies               *)
(* A checker says which authorities it knows, what is revoked and which    *)
(* critical options the application understands.                           *)
(***************************************************************************)
EXTENDS Integers

CONSTANT Width      \* bits of a time stamp (64 in the code)

ASSUME WidthAssumption == Width \in Nat \ {0}

CertTimeInfinity == 2 ^ Width - 1

\* The conversion int64(uint64): the upper half of the range is negative.
Signed(v) == IF v < 2 ^ (Width - 1) THEN v ELSE v - 2 ^ Width

SourceAddress == "source-address"

\* Past ValidBefore, or a ValidBefore no clock can be compared with.
Expired(cert, now) ==
    LET before == Signed(cert.validBefore) IN
    cert.validBefore # CertTimeInfinity /\ (now >= before \/ before < 0)

NotYetValid(cert, now) ==
    LET after == Signed(cert.validAfter) IN after < 0 \/ now < after

\* source-address is left to serverAuthenticate, the rest must be known
UnknownOption(checker, cert) ==
    \E o \in cert.options : o # SourceAddress /\ o \notin checker.supported

\* ValidPrincipals, revocation, critical options, the clock and the signature.
CheckCert(checker, principal, cert, now) ==
    /\ cert.serial \notin checker.revoked
    /\ ~UnknownOption(checker, cert)
    /\ cert.principals # {} => principal \in cert.principals
    /\ ~NotYetValid(cert, now)
    /\ ~Expired(cert, now)
    /\ cert.signed

\* The callback for user certificates: the certificate's own permissions, and
\* among them the source-address restriction, become the connection's.
Authenticate(checker, user, cert, now) ==
    /\ cert.certType = "user"
    /\ cert.authority \in checker.userAuthorities
    /\ CheckCert(checker, user, cert, now)

\* The callback for host certificates; the principal is the host name alone.
CheckHostKey(checker, host, cert, now) ==
    /\ cert.certType = "host"
    /\ <<cert.authority, host>> \in checker.hostAuthorities
    /\ CheckCert(checker, host, cert, now)
=============================================================================
