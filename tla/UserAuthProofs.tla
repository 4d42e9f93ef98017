-------------------------- MODULE UserAuthProofs ----------------------------
(***************************************************************************)
(* TLAPS proofs about one SSH login and the Git server's callback beside   *)
(* it, for any number of logins, keys, files, edits, policies, packets and *)
(* attempts.                                                               *)
(***************************************************************************)
EXTENDS UserAuth, TLAPS, WellFoundedInduction

Calling == {"lock", "read", "store", "lookup"}
Entries == GitKeys \cup {"comment", "bad"}

GitTyped ==
    /\ watch \in BOOLEAN /\ file \in Files
    /\ keysByFP \subseteq GitKeys
    /\ call \in [Logins -> Calling \cup {"idle", "granted", "refused"}]
    /\ DOMAIN offered = Logins
    /\ snapshot \in [Logins -> SUBSET GitKeys]
    /\ listed \in [Logins -> SUBSET Entries]

\* watchMu is held from the read of the file to the look at the keys.
Holding(l) == call[l] \in {"read", "store"} \/ (watch /\ call[l] = "lookup")
LockHeld == \A l \in Logins : Holding(l) => watchMu = l

\* What a login works with was in the file since it called.
Fresh(l) ==
    /\ call[l] \in Calling => Lines(file) \subseteq listed[l]
    /\ call[l] = "store" => snapshot[l] \subseteq listed[l]
    /\ call[l] = "lookup" => keysByFP \subseteq listed[l]
    /\ call[l] = "granted" => offered[l] \in listed[l]

GitInv == GitTyped /\ LockHeld /\ (watch => \A l \in Logins : Fresh(l))

-----------------------------------------------------------------------------
LEMMA LinesTyped == \A f \in Files : Lines(f) \subseteq Entries
  BY FilesAssumption DEF Lines, Entries

LEMMA ParseTyped ==
    \A f \in Files : /\ ParseAuthorizedKeys(f).keys \subseteq Lines(f)
                     /\ ParseAuthorizedKeys(f).keys \subseteq GitKeys
  BY DEF ParseAuthorizedKeys

LEMMA GitInitInv == GitInit => GitInv
<1> SUFFICES ASSUME GitInit PROVE GitInv
  OBVIOUS
<1>1. GitTyped
  BY ParseTyped DEF GitInit, GitTyped, Calling
<1>2. \A l \in Logins : call[l] = "idle"
  BY DEF GitInit
<1> QED
  BY <1>1, <1>2 DEF GitInv, LockHeld, Holding, Fresh, Calling

LEMMA EditFileInv == GitInv /\ EditFile => GitInv'
<1> SUFFICES ASSUME GitInv, EditFile PROVE GitInv'
  OBVIOUS
<1> PICK f \in Files \ {file} :
        file' = f /\ listed' = [l \in Logins |-> listed[l] \cup Lines(f)]
  BY DEF EditFile
<1>1. GitTyped'
  BY LinesTyped DEF EditFile, GitInv, GitTyped
<1>2. LockHeld'
  BY DEF EditFile, GitInv, LockHeld, Holding
<1>3. watch' => \A l \in Logins : Fresh(l)'
  BY DEF EditFile, GitInv, GitTyped, Fresh
<1> QED
  BY <1>1, <1>2, <1>3 DEF GitInv

LEMMA CallGitInv ==
    ASSUME NEW l \in Logins, NEW u, NEW k, GitInv, CallGit(l, u, k)
    PROVE  GitInv'
<1>1. GitTyped'
  BY LinesTyped DEF CallGit, GitInv, GitTyped, Calling
<1>2. LockHeld'
  BY DEF CallGit, GitInv, GitTyped, LockHeld, Holding
<1>3. watch' => \A m \in Logins : Fresh(m)'
  <2> SUFFICES ASSUME watch, NEW m \in Logins PROVE Fresh(m)'
    BY DEF CallGit
  <2>1. CASE m = l
    BY <2>1 DEF CallGit, GitInv, GitTyped, Fresh, Calling
  <2>2. CASE m # l
    BY <2>2 DEF CallGit, GitInv, GitTyped, Fresh, Calling
  <2> QED
    BY <2>1, <2>2
<1> QED
  BY <1>1, <1>2, <1>3 DEF GitInv

LEMMA GitStepInv == ASSUME NEW l \in Logins, GitInv, GitStep(l) PROVE GitInv'
<1> USE DEF GitInv
<1>1. CASE WatchLock(l)
  <2>1. GitTyped'
    BY <1>1 DEF WatchLock, GitTyped, Calling
  <2>2. LockHeld'
    BY <1>1, LoginsAssumption DEF WatchLock, GitTyped, LockHeld, Holding
  <2>3. watch' => \A m \in Logins : Fresh(m)'
    BY <1>1 DEF WatchLock, GitTyped, Fresh, Calling
  <2> QED
    BY <2>1, <2>2, <2>3
<1>2. CASE ReadFile(l)
  <2>1. GitTyped'
    BY <1>2, ParseTyped DEF ReadFile, GitTyped, Calling
  <2>2. LockHeld'
    BY <1>2 DEF ReadFile, Unlocked, GitTyped, LockHeld, Holding
  <2>3. watch' => \A m \in Logins : Fresh(m)'
    <3> SUFFICES ASSUME watch, NEW m \in Logins PROVE Fresh(m)'
      BY <1>2 DEF ReadFile
    <3>1. ParseAuthorizedKeys(file).keys \subseteq Lines(file)
      BY ParseTyped DEF GitTyped
    <3> QED
      BY <1>2, <3>1 DEF ReadFile, GitTyped, Fresh, Calling
  <2> QED
    BY <2>1, <2>2, <2>3
<1>3. CASE StoreKeys(l)
  <2>1. GitTyped'
    BY <1>3 DEF StoreKeys, GitTyped, Calling
  <2>2. LockHeld'
    BY <1>3 DEF StoreKeys, GitTyped, LockHeld, Holding
  <2>3. watch' => \A m \in Logins : Fresh(m)'
    <3> SUFFICES ASSUME watch, NEW m \in Logins PROVE Fresh(m)'
      BY <1>3 DEF StoreKeys
    <3>1. CASE m = l
      BY <1>3, <3>1 DEF StoreKeys, GitTyped, Fresh, Calling
    <3>2. CASE m # l
      <4>1. call[m] # "lookup"
        BY <1>3, <3>2 DEF StoreKeys, LockHeld, Holding
      <4> QED
        BY <1>3, <3>2, <4>1 DEF StoreKeys, GitTyped, Fresh, Calling
    <3> QED
      BY <3>1, <3>2
  <2> QED
    BY <2>1, <2>2, <2>3
<1>4. CASE Lookup(l)
  <2>1. GitTyped'
    BY <1>4 DEF Lookup, GitTyped, Calling
  <2>2. LockHeld'
    BY <1>4 DEF Lookup, Unlocked, GitTyped, LockHeld, Holding
  <2>3. watch' => \A m \in Logins : Fresh(m)'
    BY <1>4 DEF Lookup, GitTyped, Fresh, Calling
  <2> QED
    BY <2>1, <2>2, <2>3
<1> QED
  BY <1>1, <1>2, <1>3, <1>4 DEF GitStep

\* The connection's own steps leave the callback alone, or call it.
LEMMA ServerCallsGit ==
    ServerStep => UNCHANGED gitVars \/ \E u, k : CallGit(Self, u, k)
  BY DEF ServerStep, RecvIdent, RecvService, ReadFails, Disconnect, RecvUnacceptable,
         RecvImmediate, RecvStart, RecvKey, AnswerQuery, AnswerSigned, RecvAnswer,
         RecvToken, RecvMIC

LEMMA GitUnchanged == GitInv /\ UNCHANGED gitVars => GitInv'
  BY DEF gitVars, GitInv, GitTyped, LockHeld, Holding, Fresh

LEMMA GitInvStep == GitInv /\ [Next]_vars => GitInv'
<1> SUFFICES ASSUME GitInv, [Next]_vars PROVE GitInv'
  OBVIOUS
<1>1. CASE Server
  BY <1>1, ServerCallsGit, CallGitInv, GitUnchanged, SelfAssumption DEF Server
<1>2. CASE Client \/ ClientHangsUp \/ AnyClientSends \/ AnyClientHangsUp
  BY <1>2, GitUnchanged DEF Client, ClientHangsUp, HangUp, AnyClientSends, AnyClientHangsUp
<1>3. CASE Operator
  BY <1>3, EditFileInv DEF Operator
<1>4. ASSUME NEW l \in Logins, GitCallback(l) PROVE GitInv'
  BY <1>4, GitStepInv DEF GitCallback
<1>5. ASSUME NEW l \in Logins \ {Self}, OtherLogin(l) PROVE GitInv'
  BY <1>5, CallGitInv DEF OtherLogin
<1>6. CASE UNCHANGED vars
  BY <1>6, GitUnchanged DEF vars
<1> QED
  BY <1>1, <1>2, <1>3, <1>4, <1>5, <1>6 DEF Next

\* A key that a watching Git server grants was in authorized_keys at some
\* moment of the call, however many logins read, store and look up beside it
\* and whenever the operator edits the file.
THEOREM SnapshotFreshCorrect == Spec => []SnapshotFresh
<1>1. Init => GitInv
  BY GitInitInv DEF Init
<1>2. GitInv => SnapshotFresh
  BY DEF GitInv, Fresh, SnapshotFresh
<1> QED
  BY <1>1, <1>2, GitInvStep, PTL DEF Spec

-----------------------------------------------------------------------------
(* Types of the login                                                      *)

Kinds == {"extinfo", "accept", "banner", "success", "failure", "partial", "pkok", "info",
          "gssresp", "gsstoken", "disconnect"}
Qualities == {"good", "bad", "algo", "sigAlgo", "again"} \cup Idents

Answers == [t : Kinds, methods : SUBSET Methods]
Steps == [stage : Nat, user : Accounts, method : Methods \cup {"unknown"}, cred : Credentials,
          q : Qualities, listed : SUBSET Entries]

ServerTyped ==
    /\ policy \in Policies /\ srv \in SrvStates
    /\ request \in Packets /\ sUser \in Accounts
    /\ stage \in DOMAIN policy.stages
    /\ cache.user \in Accounts /\ cache.key \in Credentials
    /\ chain \in Seq(Steps)
    /\ toServer \in Seq(Packets) /\ toClient \in Seq(Answers)

ClientTyped ==
    /\ config \in ClientConfigs /\ cur \in Methods
    /\ signers \in Seq(Credentials) /\ idx \in Nat \ {0}
    /\ cli = "ack" => idx <= Len(signers)

AuthTyped == GitTyped /\ ServerTyped /\ ClientTyped

-----------------------------------------------------------------------------
LEMMA FirstIn == ASSUME NEW S, S \subseteq Nat, S # {} PROVE First(S) \in S
<1> DEFINE Less == {ss \in Nat \X Nat : ss[1] < ss[2]}
<1>1. IsWellFoundedOn(Less, Nat)
  BY NatLessThanWellFounded, Zenon DEF OpToRel
<1>2. PICK i \in S : \A j \in S : ~ (<<j, i>> \in Less)
  <2> HIDE DEF Less
  <2> QED
    BY <1>1, WFMin
<1>3. ASSUME NEW j \in S PROVE i <= j
  <2>1. <<j, i>> \in Less <=> j < i
    OBVIOUS
  <2> HIDE DEF Less
  <2> QED
    BY <1>2, <2>1
<1> QED
  BY <1>3 DEF First

LEMMA StagesTyped ==
    ASSUME NEW p \in Policies
    PROVE  /\ Len(p.stages) \in Nat \ {0} /\ DOMAIN p.stages = 1 .. Len(p.stages)
           /\ \A s \in DOMAIN p.stages : p.stages[s] \in SUBSET Methods
  BY PoliciesAssumption

LEMMA MethodTyped == \A t : MethodOf(t) \in Methods \cup {"unknown"}
  BY DEF MethodOf, Methods

-----------------------------------------------------------------------------
(* What a step of the server says, and what the end of an attempt does     *)

\* a success is on its way to the client
Told(q) == \E i \in DOMAIN q : q[i].t = "success"

LEMMA AnswerTyped ==
    ASSUME NEW t \in Kinds
    PROVE  Answer(t) \in Answers /\ Answer(t).t = t
<1>1. {} \in SUBSET Methods
  OBVIOUS
<1> QED
  BY <1>1 DEF Answer, Answers

LEMMA RefusalTyped ==
    ASSUME NEW t \in Kinds, NEW ms \in SUBSET Methods
    PROVE  Refusal(t, ms) \in Answers /\ Refusal(t, ms).t = t
  BY DEF Refusal, Answers

LEMMA AppendTold ==
    ASSUME NEW q \in Seq(Answers), NEW x \in Answers
    PROVE  /\ Append(q, x) \in Seq(Answers)
           /\ Told(Append(q, x)) => Told(q) \/ x.t = "success"
  BY DEF Told

LEMMA BannerTold ==
    ASSUME NEW q \in Seq(Answers)
    PROVE  /\ q \o Banner \in Seq(Answers)
           /\ Told(q \o Banner) => Told(q)
<1>1. CASE Banner = <<>>
  <2>1. q \o Banner = q
    BY <1>1
  <2> QED
    BY <2>1
<1>2. CASE Banner = <<Answer("banner")>>
  <2>1. q \o Banner = Append(q, Answer("banner"))
    BY <1>2
  <2> QED
    BY <2>1, AppendTold, AnswerTyped DEF Kinds
<1> QED
  BY <1>1, <1>2 DEF Banner

LEMMA SaysTold ==
    ASSUME NEW q \in Seq(Answers), NEW x \in Answers
    PROVE  /\ q \o Banner \o <<x>> \in Seq(Answers)
           /\ Told(q \o Banner \o <<x>>) => Told(q) \/ x.t = "success"
<1> DEFINE b == q \o Banner
<1>1. b \in Seq(Answers) /\ (Told(b) => Told(q))
  BY BannerTold
<1>2. b \o <<x>> = Append(b, x)
  BY <1>1
<1> HIDE DEF b
<1>3. b \o <<x>> \in Seq(Answers) /\ (Told(b \o <<x>>) => Told(q) \/ x.t = "success")
  BY <1>1, <1>2, AppendTold
<1> QED
  BY <1>3 DEF b

\* authErr as the loop sees it: a success, a partial success, a failure.  k is
\* the cache as the method leaves it.
Outcome(r, c, v, k) ==
    /\ \/ /\ v = "ok" /\ srv' = "success" /\ cache' = k /\ stage' = stage
          /\ chain' = Append(chain, Evidence(r, c))
       \/ /\ v = "partial" /\ srv' \in {"loop", "failed"} /\ cache' = NoKey /\ stage' = NextStage
          /\ chain' = Append(chain, Evidence(r, c))
       \/ /\ v \notin Passing /\ srv' \in {"loop", "failed"}
          /\ cache' = k \/ (srv' = "failed" /\ cache' = cache)
          /\ stage' = stage /\ chain' = chain
    /\ toClient' \in Seq(Answers)
    /\ Told(toClient') => Told(toClient) \/ srv' = "success"

LEMMA RefuseOutcome ==
    ASSUME ServerTyped, NEW msg \in Kinds, msg # "success", NEW s \in DOMAIN policy.stages,
           Refuse(msg, s)
    PROVE  /\ srv' \in {"loop", "failed"} /\ toClient' \in Seq(Answers)
           /\ Told(toClient') => Told(toClient)
<1>1. Refusal(msg, Configured(s)) \in Answers /\ Refusal(msg, Configured(s)).t = msg
  BY StagesTyped, RefusalTyped DEF Configured, ServerTyped
<1>2. toClient \in Seq(Answers)
  BY DEF ServerTyped
<1> QED
  BY <1>1, <1>2, BannerTold, SaysTold DEF Refuse

LEMMA NextStageTyped == ServerTyped => NextStage \in DOMAIN policy.stages
  BY StagesTyped DEF ServerTyped, NextStage

LEMMA ConcludeOutcome ==
    ASSUME ServerTyped, NEW r, NEW c, NEW v, NEW n, NEW k, Conclude(r, c, v, n, k)
    PROVE  Outcome(r, c, v, k)
<1>0. Answer("success") \in Answers /\ toClient \in Seq(Answers)
  BY AnswerTyped DEF ServerTyped, Kinds
<1>1. CASE v = "ok"
  BY <1>0, <1>1, SaysTold DEF Conclude, Succeed, Outcome, Answer, Passing
<1>2. CASE v = "partial"
  BY <1>2, RefuseOutcome, NextStageTyped DEF Conclude, PartlySucceed, Outcome, Passing, Kinds
<1>3. CASE v = "misuse"
  BY <1>0, <1>3, BannerTold DEF Conclude, Outcome, Passing
<1>4. CASE v \notin {"ok", "partial", "misuse"}
  <2>1. Fail(MethodOf(r.t), n, k)
    BY <1>4 DEF Conclude
  <2>2. CASE Refuse("failure", stage)
    BY <1>4, <2>1, <2>2, RefuseOutcome DEF Fail, Outcome, Passing, ServerTyped, Kinds
  <2>3. CASE srv' = "loop" /\ toClient' = toClient \o Banner
    BY <1>0, <1>4, <2>1, <2>3, BannerTold DEF Fail, Outcome, Passing
  <2> QED
    BY <2>1, <2>2, <2>3 DEF Fail
<1> QED
  BY <1>1, <1>2, <1>3, <1>4

LEMMA OutcomeTyped ==
    ASSUME AuthTyped, NEW r \in Packets, NEW c \in Credentials, NEW v, NEW k,
           k.user \in Accounts, k.key \in Credentials, Outcome(r, c, v, k)
    PROVE  /\ srv' \in SrvStates /\ stage' \in DOMAIN policy.stages
           /\ cache'.user \in Accounts /\ cache'.key \in Credentials
           /\ chain' \in Seq(Steps) /\ toClient' \in Seq(Answers)
<1>1. Evidence(r, c) \in Steps
  <2>1. stage \in Nat
    BY StagesTyped DEF AuthTyped, ServerTyped
  <2>2. MethodOf(r.t) \in Methods \cup {"unknown"}
    BY MethodTyped
  <2>3. listed[Self] \in SUBSET Entries
    BY SelfAssumption DEF AuthTyped, GitTyped
  <2> QED
    BY <2>1, <2>2, <2>3 DEF Evidence, Steps, Packets, Qualities
<1>2. srv' \in SrvStates /\ stage' \in DOMAIN policy.stages
  BY NextStageTyped DEF Outcome, SrvStates, AuthTyped, ServerTyped
<1>3. cache'.user \in Accounts /\ cache'.key \in Credentials
  <2>1. cache' = k \/ cache' = NoKey \/ cache' = cache
    BY DEF Outcome
  <2>2. NoKey.user \in Accounts /\ NoKey.key \in Credentials
    BY NamesAssumption DEF NoKey
  <2> QED
    BY <2>1, <2>2 DEF AuthTyped, ServerTyped
<1>4. chain' \in Seq(Steps) /\ toClient' \in Seq(Answers)
  <2>1. chain' = chain \/ chain' = Append(chain, Evidence(r, c))
    BY DEF Outcome
  <2>2. chain \in Seq(Steps)
    BY DEF AuthTyped, ServerTyped
  <2>3. Append(chain, Evidence(r, c)) \in Seq(Steps)
    BY <1>1, <2>2
  <2> QED
    BY <2>1, <2>2, <2>3 DEF Outcome
<1> QED
  BY <1>2, <1>3, <1>4

-----------------------------------------------------------------------------
(* The inductive invariant of AuthSound                                    *)

\* A method that takes several packets is one the stage configures, for the
\* account of its first packet.
Underway ==
    srv \in {"callback", "kbd", "gssToken", "gssMIC"} =>
        /\ request.user = sUser /\ MethodOf(request.t) \in policy.stages[stage]
        /\ srv = "callback" => request.t \in {"query", "signed"}
        /\ srv = "kbd" => request.t = "kbdint"
        /\ srv \in {"gssToken", "gssMIC"} => request.t = "gss" /\ request.q = "good"

\* PublicKeyCallback of the Git server is asked about the key of the request.
Asked ==
    srv = "callback" /\ policy.git /\ ~Cached(request) =>
        /\ offered[Self] = request.cred
        /\ call[Self] \in Calling \cup {"granted"} => request.user = GitUser

\* A candidate holds what the callback of this very stage says of its key, or
\* what the Git server said of it during the last call.
KeyRight(k) ==
    /\ k.result # "fail" =>
          IF policy.git
          THEN k.result = "ok" /\ k.user = GitUser /\ (watch => k.key \in listed[Self])
          ELSE k.result = Verdict(policy, stage, "publickey", k.user, k.key)
    /\ policy.verified => k.result \notin {"partial", "misuse"}

\* The cache is right whenever it can be used: not while it is being replaced.
CacheRight == srv # "failed" /\ ~(srv = "callback" /\ ~Cached(request)) => KeyRight(cache)

\* The stages are passed one after the other; a policy that is partial in its
\* last stage stays there.
Reached(n) == IF n <= Len(policy.stages) THEN n ELSE Len(policy.stages)

ChainRight ==
    /\ stage = IF srv = "success" THEN Reached(Len(chain)) ELSE Reached(Len(chain) + 1)
    /\ srv = "success" => chain # <<>>
    /\ \A i \in DOMAIN chain : chain[i].stage = Reached(i) /\ Rests(i)

\* The client believes what it was told.
Belief == (Told(toClient) \/ cli = "ok") => srv = "success"

AuthInv == AuthTyped /\ Underway /\ Asked /\ CacheRight /\ ChainRight /\ Belief

\* what a passing answer to request r with credential c rests on
Justified(r, c) ==
    /\ MethodOf(r.t) = "none" => chain = <<>> /\ policy.none
    /\ MethodOf(r.t) # "none" => MethodOf(r.t) \in policy.stages[stage]
    /\ MethodOf(r.t) \in {"publickey", "gssapi-with-mic"} => r.q = "good"
    /\ IF policy.git /\ MethodOf(r.t) = "publickey"
       THEN r.user = GitUser /\ (watch => c \in listed[Self])
       ELSE Entitled(policy, stage, MethodOf(r.t), r.user, c)

-----------------------------------------------------------------------------
(* How an attempt ends                                                     *)

LEMMA OutcomeChain ==
    ASSUME AuthTyped, ChainRight, srv # "success",
           NEW r \in Packets, NEW c \in Credentials, NEW v, NEW k, Outcome(r, c, v, k),
           policy' = policy, watch' = watch, sUser' = r.user,
           chain # <<>> => r.user = sUser,
           v \in Passing => Justified(r, c)
    PROVE  ChainRight'
<1> PICK n : n = Len(chain)
  OBVIOUS
<1>0. /\ chain \in Seq(Steps) /\ n \in Nat
      /\ Len(policy.stages) \in Nat \ {0} /\ stage \in 1 .. Len(policy.stages)
      /\ stage = Reached(n + 1)
  BY StagesTyped DEF AuthTyped, ServerTyped, ChainRight
<1>1. \A i \in DOMAIN chain : chain[i].stage = Reached(i) /\ Rests(i) /\ chain[i].user = r.user
  BY DEF ChainRight, Rests
<1>2. CASE chain' = chain /\ stage' = stage /\ srv' # "success"
  <2>1. \A i \in DOMAIN chain : Rests(i)'
    BY <1>1, <1>2 DEF Rests
  <2> QED
    BY <1>0, <1>1, <1>2, <2>1 DEF ChainRight, Reached
<1>3. CASE v \in Passing /\ chain' = Append(chain, Evidence(r, c))
  <2> DEFINE e == Evidence(r, c)
  <2>1. /\ DOMAIN chain' = 1 .. n + 1 /\ Len(chain') = n + 1
        /\ chain'[n + 1] = e /\ \A i \in 1 .. n : chain'[i] = chain[i]
    BY <1>0, <1>3
  <2>2. \A i \in 1 .. n : chain'[i].stage = Reached(i) /\ Rests(i)'
    BY <1>0, <1>1, <2>1 DEF Rests
  <2>3. e.stage = stage /\ e.user = r.user /\ e.method = MethodOf(r.t) /\ e.cred = c
        /\ e.q = r.q /\ e.listed = listed[Self]
    BY DEF Evidence
  <2>4. Rests(n + 1)'
    <3>1. chain = <<>> => n = 0
      OBVIOUS
    <3>2. e.stage >= n + 1 \/ e.stage = Len(policy.stages)
      BY <1>0, <2>3 DEF Reached
    <3>3. Justified(r, c)
      BY <1>3
    <3>4. chain'[n + 1] = e
      BY <2>1
    <3> HIDE DEF e
    <3> QED
      BY <1>0, <2>3, <3>1, <3>2, <3>3, <3>4 DEF Rests, Justified
  <2>5. chain' # <<>>
    BY <2>1, <1>0
  <2>6. stage' = IF srv' = "success" THEN Reached(n + 1) ELSE Reached(n + 2)
    BY <1>0, <1>3 DEF Outcome, NextStage, Reached, Passing
  <2>7. \A i \in 1 .. n + 1 : chain'[i].stage = Reached(i) /\ Rests(i)'
    BY <1>0, <2>1, <2>2, <2>3, <2>4
  <2> QED
    BY <1>0, <2>1, <2>5, <2>6, <2>7 DEF ChainRight, Reached
<1> QED
  BY <1>2, <1>3 DEF Outcome, Passing

LEMMA OutcomeCache ==
    ASSUME NEW r, NEW c, NEW v, NEW k, Outcome(r, c, v, k), KeyRight(k),
           policy' = policy, UNCHANGED gitVars
    PROVE  CacheRight'
<1>1. KeyRight(NoKey)'
  BY DEF KeyRight, NoKey
<1>2. ASSUME cache' = k, stage' = stage PROVE KeyRight(cache)'
  BY <1>2 DEF KeyRight, gitVars
<1> QED
  BY <1>1, <1>2 DEF Outcome, CacheRight

LEMMA OutcomeRest ==
    ASSUME NEW r, NEW c, NEW v, NEW k, Outcome(r, c, v, k), cli' = cli, Belief, srv # "success"
    PROVE  Underway' /\ Asked' /\ Belief'
  BY DEF Outcome, Underway, Asked, Belief

-----------------------------------------------------------------------------
(* The server's steps                                                      *)

\* all of AuthInv but the types of GitAuth and of the client
ServerInv == ServerTyped /\ Underway /\ Asked /\ CacheRight /\ ChainRight /\ Belief

LEMMA TailTyped ==
    ASSUME ServerTyped, toServer # <<>>
    PROVE  Head(toServer) \in Packets /\ Tail(toServer) \in Seq(Packets)
  BY DEF ServerTyped

LEMMA PacketTyped ==
    ASSUME NEW r \in Packets
    PROVE  /\ r.user \in Accounts /\ r.cred \in Credentials
           /\ r.t = "none" => r.cred = ""
  BY DEF Packets

LEMMA NoPacketTyped == NoPacket \in Packets
  BY NamesAssumption DEF NoPacket, Packet, Packets, Followups

\* Aborting and waiting: nothing is concluded.
LEMMA IdleStep ==
    ASSUME AuthInv, cli' = cli, srv # "success",
           srv' \in {"ident", "service", "loop", "failed"}, srv = "callback" => srv' = "failed",
           srv = "failed" => srv' = "failed",
           UNCHANGED <<policy, request, stage, sUser, cache, chain, gitVars>>,
           toServer' \in Seq(Packets), toClient' \in Seq(Answers),
           Told(toClient') => Told(toClient)
    PROVE  ServerInv'
<1>1. ServerTyped'
  BY DEF AuthInv, AuthTyped, ServerTyped, SrvStates
<1>2. Underway' /\ Asked' /\ Belief'
  BY DEF AuthInv, Underway, Asked, Belief
<1>3. CacheRight'
  BY DEF AuthInv, CacheRight, KeyRight, gitVars
<1>4. ChainRight'
  <2>1. \A i \in DOMAIN chain : Rests(i)'
    BY DEF AuthInv, ChainRight, Rests, gitVars
  <2> QED
    BY <2>1 DEF AuthInv, ChainRight, Reached
<1> QED
  BY <1>1, <1>2, <1>3, <1>4 DEF ServerInv

LEMMA RecvIdentInv == ASSUME AuthInv, cli' = cli, RecvIdent PROVE ServerInv'
<1>0. Head(toServer) \in Packets /\ Tail(toServer) \in Seq(Packets) /\ toClient \in Seq(Answers)
      /\ srv = "ident" /\ <<>> \in Seq(Packets)
  BY TailTyped DEF RecvIdent, Arrives, AuthInv, AuthTyped, ServerTyped
<1>1. Answer("extinfo") \in Answers /\ Answer("extinfo").t = "extinfo"
  BY AnswerTyped DEF Kinds
<1>2. toClient' \in Seq(Answers) /\ (Told(toClient') => Told(toClient))
  <2>1. toClient' = toClient \/ toClient' = Append(toClient, Answer("extinfo"))
    BY DEF RecvIdent
  <2> QED
    BY <1>0, <1>1, <2>1, AppendTold
<1> QED
  BY <1>0, <1>2, IdleStep DEF RecvIdent, Abort, serverVars

LEMMA RecvServiceInv == ASSUME AuthInv, cli' = cli, RecvService PROVE ServerInv'
<1>0. Head(toServer) \in Packets /\ Tail(toServer) \in Seq(Packets) /\ toClient \in Seq(Answers)
      /\ srv = "service" /\ <<>> \in Seq(Packets)
  BY TailTyped DEF RecvService, AuthInv, AuthTyped, ServerTyped
<1>1. Answer("accept") \in Answers /\ Answer("accept").t = "accept"
  BY AnswerTyped DEF Kinds
<1>2. toClient' \in Seq(Answers) /\ (Told(toClient') => Told(toClient))
  BY <1>0, <1>1, AppendTold DEF RecvService
<1> QED
  BY <1>0, <1>2, IdleStep DEF RecvService, Abort

LEMMA AbortInv ==
    ASSUME AuthInv, cli' = cli, Abort, UNCHANGED gitVars, srv # "success",
           toClient' \in Seq(Answers), Told(toClient') => Told(toClient)
    PROVE  ServerInv'
<1>1. <<>> \in Seq(Packets)
  OBVIOUS
<1> QED
  BY <1>1, IdleStep DEF Abort

LEMMA ReadFailsInv == ASSUME AuthInv, cli' = cli, ReadFails PROVE ServerInv'
  BY AbortInv DEF ReadFails, AuthInv, AuthTyped, ServerTyped

LEMMA DisconnectInv == ASSUME AuthInv, cli' = cli, Disconnect PROVE ServerInv'
<1>1. Answer("disconnect") \in Answers /\ Answer("disconnect").t = "disconnect"
  BY AnswerTyped DEF Kinds
<1> QED
  BY <1>1, AbortInv, AppendTold DEF Disconnect, AuthInv, AuthTyped, ServerTyped

LEMMA RecvUnacceptableInv == ASSUME AuthInv, cli' = cli, RecvUnacceptable PROVE ServerInv'
  BY AbortInv DEF RecvUnacceptable, Reads, AuthInv, AuthTyped, ServerTyped

\* An attempt that ends where AuthInv holds, with the cache as it is or with a
\* candidate that is right.
LEMMA EndedInv ==
    ASSUME AuthInv, cli' = cli, srv # "success",
           NEW r \in Packets, NEW c \in Credentials, NEW v, NEW k, Outcome(r, c, v, k),
           KeyRight(k), k.user \in Accounts, k.key \in Credentials,
           policy' = policy, UNCHANGED gitVars, sUser' = r.user,
           chain # <<>> => r.user = sUser,
           v \in Passing => Justified(r, c),
           request' \in Packets, toServer' \in Seq(Packets)
    PROVE  ServerInv'
<1>1. ServerTyped'
  <2>1. /\ srv' \in SrvStates /\ stage' \in DOMAIN policy.stages
        /\ cache'.user \in Accounts /\ cache'.key \in Credentials
        /\ chain' \in Seq(Steps) /\ toClient' \in Seq(Answers)
    BY OutcomeTyped DEF AuthInv
  <2>2. sUser' \in Accounts /\ policy' \in Policies
    BY PacketTyped DEF AuthInv, AuthTyped, ServerTyped
  <2> QED
    BY <2>1, <2>2 DEF ServerTyped
<1>2. ChainRight'
  BY OutcomeChain DEF AuthInv, gitVars
<1>3. CacheRight'
  BY OutcomeCache
<1>4. Underway' /\ Asked' /\ Belief'
  BY OutcomeRest DEF AuthInv
<1> QED
  BY <1>1, <1>2, <1>3, <1>4 DEF ServerInv

\* none and passwords are decided where they are read.
LEMMA ImmediateJustified ==
    ASSUME ServerTyped, NEW r \in Packets, Immediate(r) \in Passing
    PROVE  Justified(r, r.cred)
<1> DEFINE m == MethodOf(r.t)
<1>0. policy \in Policies /\ stage \in DOMAIN policy.stages
  BY DEF ServerTyped
<1>1. CASE m = "none"
  <2>1. r.t = "none" /\ r.cred = ""
    BY <1>1, PacketTyped DEF MethodOf
  <2>2. policy.none /\ chain = <<>> /\ Verdict(policy, stage, "none", r.user, "") \in Passing
    BY <1>1 DEF Immediate, Passing, partialSuccessReturned
  <2>3. Entitled(policy, stage, "none", r.user, "")
    BY <1>0, <2>2, PacketTyped, CallbacksAssumption
  <2> QED
    BY <1>1, <2>1, <2>2, <2>3 DEF Justified
<1>2. CASE m = "password"
  <2>1. m \in policy.stages[stage] /\ Verdict(policy, stage, m, r.user, r.cred) \in Passing
    BY <1>2 DEF Immediate, Passing, Configured
  <2>2. Entitled(policy, stage, m, r.user, r.cred)
    BY <1>0, <1>2, <2>1, PacketTyped, CallbacksAssumption
  <2> QED
    BY <1>2, <2>1, <2>2 DEF Justified
<1>3. CASE m \notin {"none", "password"}
  BY <1>3 DEF Immediate, Passing
<1> QED
  BY <1>1, <1>2, <1>3

LEMMA RecvImmediateInv == ASSUME AuthInv, cli' = cli, RecvImmediate PROVE ServerInv'
<1> DEFINE r == Head(toServer)
<1>1. r \in Packets /\ Tail(toServer) \in Seq(Packets) /\ ServerTyped
  BY TailTyped DEF RecvImmediate, AuthInv, AuthTyped
<1>2. Outcome(r, r.cred, Immediate(r), cache)
  <2>1. Conclude(r, r.cred, Immediate(r), nones', cache)
    BY DEF RecvImmediate
  <2> QED
    BY <1>1, <2>1, ConcludeOutcome
<1>3. /\ srv = "loop" /\ policy' = policy /\ UNCHANGED gitVars /\ sUser' = r.user
      /\ chain # <<>> => r.user = sUser
      /\ request' = request /\ toServer' = Tail(toServer)
  BY DEF RecvImmediate, Reads, Takes, Acceptable, partialSuccessReturned
<1>4. KeyRight(cache) /\ cache.user \in Accounts /\ cache.key \in Credentials
  BY <1>1, <1>3 DEF AuthInv, CacheRight, ServerTyped
<1>5. Immediate(r) \in Passing => Justified(r, r.cred)
  BY <1>1, ImmediateJustified
<1>6. r.cred \in Credentials /\ request' \in Packets
  BY <1>1, <1>3, PacketTyped DEF ServerTyped
<1> HIDE DEF r
<1> QED
  BY <1>1, <1>2, <1>3, <1>4, <1>5, <1>6, EndedInv

\* A method that goes on is one the stage configures.
LEMMA LaterConfigured ==
    ASSUME NEW r, Immediate(r) = "later", ServerTyped, r \in Packets,
           r.t \in {"kbdint", "gss", "query", "signed"}
    PROVE  /\ MethodOf(r.t) \in policy.stages[stage]
           /\ r.t = "gss" => r.q = "good"
  BY DEF Immediate, MethodOf, Configured

LEMMA RecvStartInv == ASSUME AuthInv, cli' = cli, RecvStart PROVE ServerInv'
<1> DEFINE r == Head(toServer)
<1>1. r \in Packets /\ Tail(toServer) \in Seq(Packets) /\ ServerTyped
  BY TailTyped DEF RecvStart, AuthInv, AuthTyped
<1>2. /\ srv = "loop" /\ policy' = policy /\ UNCHANGED gitVars /\ sUser' = r.user
      /\ chain # <<>> => r.user = sUser
      /\ request' = r /\ toServer' = Tail(toServer)
      /\ UNCHANGED <<stage, cache, chain>>
      /\ srv' = IF r.t = "gss" THEN "gssToken" ELSE "kbd"
      /\ r.t \in {"kbdint", "gss"} /\ Immediate(r) = "later"
  BY DEF RecvStart, Reads, Takes, Acceptable, partialSuccessReturned
<1>3. toClient' \in Seq(Answers) /\ (Told(toClient') => Told(toClient))
  <2>1. PICK x \in {"gssresp", "info"} : toClient' = toClient \o Banner \o <<Answer(x)>>
    BY DEF RecvStart
  <2>2. Answer(x) \in Answers /\ Answer(x).t # "success"
    BY AnswerTyped DEF Kinds
  <2> QED
    BY <1>1, <2>1, <2>2, SaysTold DEF ServerTyped
<1>4. MethodOf(r.t) \in policy.stages[stage] /\ (r.t = "gss" => r.q = "good")
  BY <1>1, <1>2, LaterConfigured
<1>5. r.user \in Accounts
  BY <1>1, PacketTyped
<1> HIDE DEF r
<1>6. ServerTyped'
  BY <1>1, <1>2, <1>3, <1>5 DEF ServerTyped, SrvStates
<1>7. Underway' /\ Asked' /\ Belief'
  BY <1>2, <1>3, <1>4 DEF AuthInv, Underway, Asked, Belief
<1>8. CacheRight'
  BY <1>2 DEF AuthInv, CacheRight, KeyRight, gitVars
<1>9. ChainRight'
  <2>1. \A i \in DOMAIN chain : Rests(i)'
    BY <1>2 DEF AuthInv, ChainRight, Rests, gitVars
  <2> QED
    BY <1>2, <2>1 DEF AuthInv, ChainRight, Reached
<1> QED
  BY <1>6, <1>7, <1>8, <1>9 DEF ServerInv

LEMMA RecvKeyInv == ASSUME AuthInv, cli' = cli, RecvKey PROVE ServerInv'
<1> DEFINE r == Head(toServer)
<1>1. r \in Packets /\ Tail(toServer) \in Seq(Packets) /\ ServerTyped
  BY TailTyped DEF RecvKey, AuthInv, AuthTyped
<1>2. /\ srv = "loop" /\ policy' = policy /\ sUser' = r.user
      /\ chain # <<>> => r.user = sUser
      /\ request' = r /\ toServer' = Tail(toServer)
      /\ UNCHANGED <<stage, cache, chain>>
      /\ srv' = "callback" /\ toClient' = toClient \o Banner
      /\ r.t \in {"query", "signed"} /\ Immediate(r) = "later"
  BY DEF RecvKey, Reads, Takes, Acceptable, partialSuccessReturned
<1>3. IF policy.git /\ ~Cached(r) THEN CallGit(Self, r.user, r.cred) ELSE UNCHANGED gitVars
  BY DEF RecvKey
<1>4. toClient' \in Seq(Answers) /\ (Told(toClient') => Told(toClient))
  BY <1>1, <1>2, BannerTold DEF ServerTyped
<1>5. MethodOf(r.t) \in policy.stages[stage] /\ r.user \in Accounts
  BY <1>1, <1>2, LaterConfigured, PacketTyped
<1> HIDE DEF r
<1>6. ServerTyped'
  BY <1>1, <1>2, <1>4, <1>5 DEF ServerTyped, SrvStates
<1>7. Underway' /\ Belief'
  BY <1>2, <1>4, <1>5 DEF AuthInv, Underway, Belief
<1>8. Cached(request)' <=> Cached(r)
  BY <1>2 DEF Cached
<1>9. Asked'
  BY <1>2, <1>3, <1>8, SelfAssumption DEF Asked, CallGit, AuthInv, AuthTyped, GitTyped, Calling
<1>10. CacheRight'
  <2>1. CASE Cached(r)
    BY <1>2, <1>3, <2>1 DEF AuthInv, CacheRight, KeyRight, gitVars
  <2>2. CASE ~Cached(r)
    BY <1>2, <1>8, <2>2 DEF CacheRight
  <2> QED
    BY <2>1, <2>2
<1>11. ChainRight'
  <2>1. watch' = watch
    BY <1>3 DEF CallGit, gitVars
  <2>2. \A i \in DOMAIN chain : Rests(i)'
    BY <1>2, <2>1 DEF AuthInv, ChainRight, Rests
  <2> QED
    BY <1>2, <2>2 DEF AuthInv, ChainRight, Reached
<1> QED
  BY <1>6, <1>7, <1>9, <1>10, <1>11 DEF ServerInv

\* What a query or a signed request goes by is right: taken from the cache, or
\* from the callback that has just returned.
LEMMA CandidateRight ==
    ASSUME AuthInv, GitInv, srv = "callback", CallbackReturned, ~InvalidUsage(request)
    PROVE  /\ KeyRight(Candidate(request))
           /\ Candidate(request).user = request.user /\ Candidate(request).key = request.cred
<1>1. CASE Cached(request)
  BY <1>1 DEF Candidate, Cached, AuthInv, CacheRight
<1>2. CASE ~Cached(request)
  <2> DEFINE k == [user |-> request.user, key |-> request.cred, result |-> KeyVerdict(request)]
  <2>1. Candidate(request) = k
    BY <1>2 DEF Candidate
  <2>2. policy.verified => k.result \notin {"partial", "misuse"}
    BY <1>2, <2>1 DEF InvalidUsage
  <2>3. CASE policy.git
    <3>1. k.result = IF call[Self] = "granted" THEN "ok" ELSE "fail"
      BY <2>3 DEF KeyVerdict
    <3>2. offered[Self] = request.cred /\ (call[Self] = "granted" => request.user = GitUser)
      BY <1>2, <2>3 DEF AuthInv, Asked
    <3>3. watch /\ call[Self] = "granted" => request.cred \in listed[Self]
      BY <3>2, SelfAssumption DEF GitInv, Fresh
    <3> QED
      BY <2>1, <2>2, <2>3, <3>1, <3>2, <3>3 DEF KeyRight
  <2>4. CASE ~policy.git
    <3>1. k.result # "fail" => k.result = Verdict(policy, stage, "publickey", k.user, k.key)
      BY <2>4 DEF KeyVerdict
    <3> QED
      BY <2>1, <2>2, <2>4, <3>1 DEF KeyRight
  <2> QED
    BY <2>3, <2>4
<1> QED
  BY <1>1, <1>2

\* A method that took several packets ends.
LEMMA EndsInv ==
    ASSUME AuthInv, cli' = cli, srv \in {"callback", "kbd", "gssToken", "gssMIC"},
           NEW c \in Credentials, NEW v, NEW k, Ends(c, v, k),
           KeyRight(k), k.user \in Accounts, k.key \in Credentials,
           UNCHANGED gitVars, v \in Passing => Justified(request, c), toServer' \in Seq(Packets)
    PROVE  ServerInv'
<1>1. ServerTyped /\ request \in Packets
  BY DEF AuthInv, AuthTyped, ServerTyped
<1>2. Outcome(request, c, v, k)
  BY <1>1, ConcludeOutcome DEF Ends
<1>3. /\ srv # "success" /\ policy' = policy /\ sUser' = request.user
      /\ request.user = sUser /\ request' \in Packets
  BY NoPacketTyped DEF Ends, AuthInv, Underway
<1> QED
  BY <1>1, <1>2, <1>3, EndedInv

LEMMA AnswerQueryInv == ASSUME AuthInv, GitInv, cli' = cli, AnswerQuery PROVE ServerInv'
<1> DEFINE k == Candidate(request)
<1>0. /\ ServerTyped /\ request \in Packets /\ toClient \in Seq(Answers)
      /\ toServer \in Seq(Packets) /\ srv = "callback" /\ CallbackReturned
      /\ UNCHANGED gitVars
  BY DEF AuthInv, AuthTyped, ServerTyped, AnswerQuery
<1>1. request.user \in Accounts /\ request.cred \in Credentials
  BY <1>0, PacketTyped
<1>2. CASE InvalidUsage(request) /\ Abort /\ UNCHANGED toClient
  BY <1>0, <1>2, AbortInv
<1>3. CASE k.result = "fail" /\ Ends(request.cred, "fail", k) /\ UNCHANGED toServer
  <2>1. ~InvalidUsage(request)
    BY <1>3 DEF InvalidUsage
  <2>2. KeyRight(k) /\ k.user = request.user /\ k.key = request.cred
    BY <1>0, <2>1, CandidateRight
  <2> HIDE DEF k
  <2> QED
    BY <1>0, <1>1, <1>3, <2>2, EndsInv DEF Passing
<1>4. CASE /\ ~InvalidUsage(request) /\ k.result \in {"ok", "partial", "misuse"}
           /\ srv' = "loop" /\ cache' = k /\ request' = NoPacket /\ bannerSent' = TRUE
           /\ toClient' = toClient \o Banner \o <<Answer("pkok")>>
           /\ UNCHANGED <<policy, toServer, stage, sUser, counters, chain>>
  <2>1. KeyRight(k) /\ k.user = request.user /\ k.key = request.cred
    BY <1>0, <1>4, CandidateRight
  <2>2. toClient' \in Seq(Answers) /\ (Told(toClient') => Told(toClient))
    <3>1. Answer("pkok") \in Answers /\ Answer("pkok").t # "success"
      BY AnswerTyped DEF Kinds
    <3> QED
      BY <1>0, <1>4, <3>1, SaysTold
  <2> HIDE DEF k
  <2>3. ServerTyped'
    BY <1>0, <1>1, <1>4, <2>1, <2>2, NoPacketTyped DEF ServerTyped, SrvStates
  <2>4. Underway' /\ Asked' /\ Belief'
    BY <1>0, <1>4, <2>2 DEF AuthInv, Underway, Asked, Belief
  <2>5. CacheRight'
    BY <1>0, <1>4, <2>1 DEF CacheRight, KeyRight, gitVars
  <2>6. ChainRight'
    <3>1. \A i \in DOMAIN chain : Rests(i)'
      BY <1>0, <1>4 DEF AuthInv, ChainRight, Rests, gitVars
    <3> QED
      BY <1>0, <1>4, <3>1 DEF AuthInv, ChainRight, Reached
  <2> QED
    BY <2>3, <2>4, <2>5, <2>6 DEF ServerInv
<1> QED
  BY <1>2, <1>3, <1>4 DEF AnswerQuery

LEMMA AnswerSignedInv == ASSUME AuthInv, GitInv, cli' = cli, AnswerSigned PROVE ServerInv'
<1> DEFINE k == Candidate(request)
           v == IF k.result = "ok" /\ policy.verified
                THEN VerifiedVerdict(policy, request.user, request.cred) ELSE k.result
<1>0. /\ ServerTyped /\ request \in Packets /\ toClient \in Seq(Answers)
      /\ toServer \in Seq(Packets) /\ srv = "callback" /\ CallbackReturned
      /\ request.t = "signed" /\ UNCHANGED gitVars
  BY DEF AuthInv, AuthTyped, ServerTyped, AnswerSigned
<1>1. request.user \in Accounts /\ request.cred \in Credentials
  BY <1>0, PacketTyped
<1>2. CASE Abort /\ UNCHANGED toClient
  BY <1>0, <1>2, AbortInv
<1>3. CASE ~InvalidUsage(request)
  <2>1. KeyRight(k) /\ k.user = request.user /\ k.key = request.cred
    BY <1>0, <1>3, CandidateRight
  <2>2. CASE Ends(request.cred, "fail", k) /\ UNCHANGED toServer
    <3> HIDE DEF k
    <3> QED
      BY <1>0, <1>1, <2>1, <2>2, EndsInv DEF Passing
  <2>3. CASE Verifies(request) /\ Ends(request.cred, v, k) /\ UNCHANGED toServer
    <3>1. MethodOf(request.t) = "publickey" /\ "publickey" \in policy.stages[stage]
      BY <1>0 DEF MethodOf, AuthInv, Underway
    <3> HIDE DEF k
    <3>2. ASSUME v \in Passing, policy.git
          PROVE  request.user = GitUser /\ (watch => request.cred \in listed[Self])
      BY <2>1, <3>2 DEF KeyRight, Passing
    <3>3. ASSUME v \in Passing, ~policy.git
          PROVE  Entitled(policy, stage, "publickey", request.user, request.cred)
      <4>1. KeyPasses(policy, stage, request.user, request.cred)
        BY <2>1, <3>3 DEF KeyRight, Passing, KeyPasses
      <4> QED
        BY <1>0, <1>1, <3>1, <3>3, <4>1, CallbacksAssumption DEF ServerTyped
    <3>4. v \in Passing => Justified(request, request.cred)
      BY <2>3, <3>1, <3>2, <3>3 DEF Justified, Verifies
    <3> HIDE DEF v
    <3> QED
      BY <1>0, <1>1, <2>1, <2>3, <3>4, EndsInv
  <2> QED
    BY <1>2, <1>3, <2>2, <2>3 DEF AnswerSigned
<1> QED
  BY <1>2, <1>3 DEF AnswerSigned

\* The cache is as right as it was while a method goes on without it.
LEMMA CacheKept ==
    ASSUME AuthInv, srv \in {"kbd", "gssToken", "gssMIC"}
    PROVE  KeyRight(cache) /\ cache.user \in Accounts /\ cache.key \in Credentials
  BY DEF AuthInv, CacheRight, AuthTyped, ServerTyped

\* A method goes on to its next packet.
LEMMA GoesOn ==
    ASSUME AuthInv, cli' = cli, srv \in {"kbd", "gssToken"},
           \/ srv = "kbd" /\ srv' = "kbd" /\ request' = [request EXCEPT !.q = "again"]
           \/ srv = "gssToken" /\ srv' = "gssMIC" /\ request' = request,
           UNCHANGED <<policy, stage, sUser, cache, chain, gitVars>>,
           toServer' \in Seq(Packets), toClient' \in Seq(Answers),
           Told(toClient') => Told(toClient)
    PROVE  ServerInv'
<1>1. /\ request' \in Packets /\ request'.t = request.t /\ request'.user = request.user
      /\ srv' = "gssMIC" => request'.q = request.q
  BY DEF Packets, AuthInv, AuthTyped, ServerTyped
<1>2. ServerTyped'
  BY <1>1 DEF AuthInv, AuthTyped, ServerTyped, SrvStates
<1>3. Underway' /\ Asked' /\ Belief'
  BY <1>1 DEF AuthInv, Underway, Asked, Belief
<1>4. CacheRight'
  BY CacheKept DEF CacheRight, KeyRight, gitVars
<1>5. ChainRight'
  <2>1. \A i \in DOMAIN chain : Rests(i)'
    BY DEF AuthInv, ChainRight, Rests, gitVars
  <2> QED
    BY <2>1 DEF AuthInv, ChainRight, Reached
<1> QED
  BY <1>2, <1>3, <1>4, <1>5 DEF ServerInv

LEMMA RecvAnswerInv == ASSUME AuthInv, cli' = cli, RecvAnswer PROVE ServerInv'
<1>0. /\ srv = "kbd" /\ Head(toServer) \in Packets /\ toServer' \in Seq(Packets)
      /\ toClient \in Seq(Answers) /\ UNCHANGED gitVars
      /\ policy \in Policies /\ stage \in DOMAIN policy.stages /\ request \in Packets
  BY TailTyped DEF RecvAnswer, AuthInv, AuthTyped, ServerTyped
<1>1. MethodOf(request.t) = "keyboard-interactive"
      /\ "keyboard-interactive" \in policy.stages[stage]
  BY <1>0 DEF MethodOf, AuthInv, Underway
<1>2. KeyRight(cache) /\ cache.user \in Accounts /\ cache.key \in Credentials
  BY <1>0, CacheKept
<1>3. CASE /\ request' = [request EXCEPT !.q = "again"]
           /\ toClient' = Append(toClient, Answer("info"))
           /\ UNCHANGED <<policy, srv, stage, sUser, counters, cache, bannerSent, chain>>
  <2>1. Answer("info") \in Answers /\ Answer("info").t # "success"
    BY AnswerTyped DEF Kinds
  <2>2. toClient' \in Seq(Answers) /\ (Told(toClient') => Told(toClient))
    BY <1>0, <1>3, <2>1, AppendTold
  <2> QED
    BY <1>0, <1>3, <2>2, GoesOn
<1>4. CASE Ends("", "fail", cache)
  BY <1>0, <1>2, <1>4, NamesAssumption, EndsInv DEF Passing
<1>5. ASSUME NEW c \in Credentials,
             Ends(c, Verdict(policy, stage, "keyboard-interactive", request.user, c), cache)
      PROVE  ServerInv'
  <2> DEFINE v == Verdict(policy, stage, "keyboard-interactive", request.user, c)
  <2>1. v \in Passing => Justified(request, c)
    BY <1>0, <1>1, PacketTyped, CallbacksAssumption DEF Justified
  <2> HIDE DEF v
  <2> QED
    BY <1>0, <1>2, <1>5, <2>1, EndsInv DEF v
<1>6. Head(toServer).cred \in Credentials
  BY <1>0, PacketTyped
<1> QED
  BY <1>3, <1>4, <1>5, <1>6 DEF RecvAnswer

LEMMA RecvTokenInv == ASSUME AuthInv, cli' = cli, RecvToken PROVE ServerInv'
<1>0. /\ srv = "gssToken" /\ Tail(toServer) \in Seq(Packets) /\ toClient \in Seq(Answers)
      /\ UNCHANGED gitVars
  BY TailTyped DEF RecvToken, AuthInv, AuthTyped, ServerTyped
<1>1. CASE Abort /\ UNCHANGED toClient
  BY <1>0, <1>1, AbortInv
<1>2. CASE toServer' = Tail(toServer) /\ Ends("", "fail", cache)
  BY <1>0, <1>2, CacheKept, NamesAssumption, EndsInv DEF Passing
<1>3. CASE /\ srv' = "gssMIC" /\ toServer' = Tail(toServer)
           /\ toClient' = IF policy.mutual THEN Append(toClient, Answer("gsstoken")) ELSE toClient
           /\ UNCHANGED <<policy, request, stage, sUser, counters, cache, bannerSent, chain>>
  <2>1. Answer("gsstoken") \in Answers /\ Answer("gsstoken").t # "success"
    BY AnswerTyped DEF Kinds
  <2>2. toClient' \in Seq(Answers) /\ (Told(toClient') => Told(toClient))
    BY <1>0, <1>3, <2>1, AppendTold
  <2> QED
    BY <1>0, <1>3, <2>2, GoesOn
<1> QED
  BY <1>1, <1>2, <1>3 DEF RecvToken

LEMMA RecvMICInv == ASSUME AuthInv, cli' = cli, RecvMIC PROVE ServerInv'
<1> DEFINE v == IF Head(toServer).q = "good"
                THEN Verdict(policy, stage, "gssapi-with-mic", request.user, "gss") ELSE "fail"
<1>0. /\ srv = "gssMIC" /\ Tail(toServer) \in Seq(Packets) /\ toClient \in Seq(Answers)
      /\ UNCHANGED gitVars
      /\ policy \in Policies /\ stage \in DOMAIN policy.stages /\ request \in Packets
  BY TailTyped DEF RecvMIC, AuthInv, AuthTyped, ServerTyped
<1>1. CASE Abort /\ UNCHANGED toClient
  BY <1>0, <1>1, AbortInv
<1>2. CASE toServer' = Tail(toServer) /\ Ends("gss", v, cache)
  <2>1. /\ MethodOf(request.t) = "gssapi-with-mic" /\ request.q = "good"
        /\ "gssapi-with-mic" \in policy.stages[stage]
    BY <1>0 DEF MethodOf, AuthInv, Underway
  <2>2. "gss" \in Credentials /\ request.user \in Accounts
    BY <1>0, NamesAssumption, PacketTyped
  <2>3. v \in Passing => Justified(request, "gss")
    BY <1>0, <2>1, <2>2, CallbacksAssumption DEF Justified, Passing
  <2> HIDE DEF v
  <2> QED
    BY <1>0, <1>2, <2>2, <2>3, CacheKept, EndsInv
<1> QED
  BY <1>1, <1>2 DEF RecvMIC

-----------------------------------------------------------------------------
(* The client's steps                                                      *)

\* what the client leaves of the packets it has read
Rest == IF Answered THEN Tail(toClient) ELSE toClient

LEMMA RestTyped ==
    ASSUME ServerTyped
    PROVE  /\ Rest \in Seq(Answers) /\ (Told(Rest) => Told(toClient))
           /\ Got("success") => Told(toClient)
<1>1. toClient \in Seq(Answers)
  BY DEF ServerTyped
<1>2. CASE toClient = <<>>
  BY <1>1, <1>2 DEF Rest, Answered, Got
<1>3. CASE toClient # <<>>
  <2>1. Rest = Tail(toClient) /\ Tail(toClient) \in Seq(Answers) /\ Len(toClient) \in Nat \ {0}
    BY <1>1, <1>3 DEF Rest, Answered
  <2>2. /\ \A i \in DOMAIN Tail(toClient) : i + 1 \in DOMAIN toClient
                                            /\ Tail(toClient)[i] = toClient[i + 1]
        /\ 1 \in DOMAIN toClient /\ Head(toClient) = toClient[1]
    BY <1>1, <1>3
  <2> QED
    BY <2>1, <2>2 DEF Told, Got
<1> QED
  BY <1>2, <1>3

LEMMA SentTyped ==
    ASSUME ClientTyped, NEW t \in Requests \cup Followups, NEW c \in Credentials,
           NEW q \in {"good", "bad", "algo"}, t = "none" => c = ""
    PROVE  Sent(t, c, q) \in Packets
<1>1. config.user \in Accounts
  BY ConfigsAssumption DEF ClientTyped
<1> QED
  BY <1>1 DEF Sent, Packet, Packets

LEMMA SendsTyped ==
    ASSUME ServerTyped, NEW ps \in Seq(Packets), Sends(ps)
    PROVE  toServer' \in Seq(Packets)
<1>1. toServer \in Seq(Packets) /\ <<>> \in Seq(Packets)
  BY DEF ServerTyped
<1>2. toServer \o ps \in Seq(Packets)
  BY <1>1
<1> QED
  BY <1>1, <1>2 DEF Sends

\* one packet, or two
LEMMA SendsOne ==
    ASSUME ServerTyped, NEW p \in Packets, Sends(<<p>>)
    PROVE  toServer' \in Seq(Packets)
<1>1. <<p>> \in Seq(Packets)
  OBVIOUS
<1> QED
  BY <1>1, SendsTyped

LEMMA SendsTwo ==
    ASSUME ServerTyped, NEW p1 \in Packets, NEW p2 \in Packets, Sends(<<p1, p2>>)
    PROVE  toServer' \in Seq(Packets)
<1>1. <<p1, p2>> \in Seq(Packets)
  OBVIOUS
<1> QED
  BY <1>1, SendsTyped

\* A step of the client keeps its types, sends packets and believes nothing,
\* unless it has read a success.
ClientKeeps ==
    /\ ClientTyped' /\ toServer' \in Seq(Packets)
    /\ cli' = "ok" => cli = "ok" \/ Got("success")

LEMMA BeginKeeps ==
    ASSUME AuthTyped, NEW m \in Methods, NEW n, Begin(m, n), config' = config
    PROVE  ClientKeeps
<1>0. ServerTyped /\ ClientTyped /\ "" \in Credentials
      /\ config.secret \in Credentials /\ config.keys \in Seq(Credentials)
  BY ConfigsAssumption, NamesAssumption DEF AuthTyped, ClientTyped
<1>1. ASSUME NEW t \in {"none", "password", "kbdint", "gss"}, NEW c \in Credentials,
             t = "none" => c = "",
             NEW s \in {"resp", "kbd", "gssresp"},
             Starts(m, s, <<Sent(t, c, "good")>>, n), UNCHANGED keyLoop
      PROVE  ClientKeeps
  <2>1. Sent(t, c, "good") \in Packets
    BY <1>0, <1>1, SentTyped DEF Requests
  <2>2. toServer' \in Seq(Packets)
    BY <1>0, <1>1, <2>1, SendsOne DEF Starts
  <2>3. cur' = m /\ cli' = s /\ signers' = signers /\ idx' = idx
    BY <1>1 DEF Starts, keyLoop
  <2>4. s \notin {"ack", "ok"}
    OBVIOUS
  <2> QED
    BY <1>0, <2>2, <2>3, <2>4 DEF ClientKeeps, ClientTyped
<1>2. CASE m = "none"
  BY <1>0, <1>1, <1>2 DEF Begin
<1>3. CASE m = "password"
  BY <1>0, <1>1, <1>3 DEF Begin
<1>4. CASE m = "keyboard-interactive"
  BY <1>0, <1>1, <1>4 DEF Begin
<1>5. CASE m = "gssapi-with-mic"
  BY <1>0, <1>1, <1>5 DEF Begin
<1>6. CASE m = "publickey"
  <2>1. Starts(m, "key", <<>>, n) /\ signers' = config.keys /\ idx' = 1
    BY <1>6 DEF Begin
  <2>2. <<>> \in Seq(Packets)
    OBVIOUS
  <2>3. toServer' \in Seq(Packets)
    BY <1>0, <2>1, <2>2, SendsTyped DEF Starts
  <2>4. cur' \in Methods /\ cli' = "key" /\ idx' \in Nat \ {0}
    BY <2>1 DEF Starts
  <2>5. signers' \in Seq(Credentials)
    BY <1>0, <2>1
  <2>6. ClientTyped'
    BY <1>0, <2>4, <2>5 DEF ClientTyped
  <2> QED
    BY <2>3, <2>4, <2>6 DEF ClientKeeps
<1> QED
  BY <1>2, <1>3, <1>4, <1>5, <1>6 DEF Methods

\* a method that ends, or a step within one that sends nothing
LEMMA QuietKeeps ==
    ASSUME AuthTyped, config' = config, cur' = cur, signers' = signers,
           idx' = idx \/ idx' = idx + 1, toServer' = toServer,
           cli' \in {"next", "failed", "key"} \/ (cli' = cli /\ cli # "ack")
              \/ (cli' = cli /\ idx' = idx) \/ (cli' = "ok" /\ Got("success"))
    PROVE  ClientKeeps
  BY DEF AuthTyped, ClientTyped, ServerTyped, ClientKeeps

\* a step that sends one packet, or two
LEMMA SpeaksKeeps ==
    ASSUME AuthTyped, config' = config, cur' = cur, signers' = signers, idx' = idx,
           cli' \in {"accept", "resp", "gsstoken", "kbd"} \/ (cli' = "ack" /\ idx <= Len(signers)),
           toServer' \in Seq(Packets)
    PROVE  ClientKeeps
  BY DEF AuthTyped, ClientTyped, ClientKeeps

LEMMA ClientFacts ==
    ASSUME AuthTyped
    PROVE  /\ ServerTyped /\ ClientTyped
           /\ "" \in Credentials /\ config.secret \in Credentials /\ config.gss \in {"good", "bad"}
           /\ config.auth \in Seq(Methods)
           /\ cli = "ack" => signers[idx] \in Credentials
<1>1. ServerTyped /\ ClientTyped
  BY DEF AuthTyped
<1>2. cli = "ack" => signers[idx] \in Credentials
  BY <1>1 DEF ClientTyped
<1> QED
  BY <1>1, <1>2, ConfigsAssumption, NamesAssumption DEF ClientTyped

LEMMA ClientStepKeeps == ASSUME AuthTyped, ClientStep PROVE ClientKeeps
<1>0. /\ ServerTyped /\ ClientTyped
      /\ "" \in Credentials /\ config.secret \in Credentials /\ config.gss \in {"good", "bad"}
  BY ClientFacts
<1>a. config.auth \in Seq(Methods)
  BY ClientFacts
<1>b. cli = "ack" => signers[idx] \in Credentials
  BY ClientFacts
<1>s. signers \in Seq(Credentials) /\ idx \in Nat \ {0}
  BY <1>0 DEF ClientTyped
<1>1. CASE Hello
  <2>1. /\ Packet("ident", "", "", "v2") \in Packets
        /\ Packet("service", "", "", "good") \in Packets
    BY NamesAssumption DEF Packet, Packets, Followups, Idents
  <2>2. toServer' \in Seq(Packets)
    BY <1>0, <1>1, <2>1, SendsTwo DEF Hello
  <2> QED
    BY <1>1, <2>2, SpeaksKeeps DEF Hello, method, keyLoop
<1>2. CASE RecvAccept
  <2>1. CASE Begin("none", 1)
    BY <1>2, <2>1, BeginKeeps DEF RecvAccept, Methods
  <2>2. CASE UNCHANGED <<cli, cur, tries, keyLoop, gotInfo, toServer, result>>
    BY <1>2, <2>2, QuietKeeps DEF RecvAccept, keyLoop
  <2>3. CASE Dropped /\ UNCHANGED toServer
    BY <1>2, <2>3, QuietKeeps DEF RecvAccept, Dropped, method, keyLoop
  <2> QED
    BY <1>2, <2>1, <2>2, <2>3 DEF RecvAccept
<1>3. CASE ChooseNext
  <2>1. CASE cli' = "failed" /\ UNCHANGED <<method, toServer>>
    BY <1>3, <2>1, QuietKeeps DEF ChooseNext, method, keyLoop
  <2>2. ASSUME NEW i \in DOMAIN config.auth, Begin(config.auth[i], 1) PROVE ClientKeeps
    <3>1. config.auth[i] \in Methods
      BY <1>a
    <3> QED
      BY <1>3, <2>2, <3>1, BeginKeeps DEF ChooseNext
  <2>3. ASSUME Untried(tried') # {} PROVE First(Untried(tried')) \in DOMAIN config.auth
    <3>1. Untried(tried') \subseteq DOMAIN config.auth /\ DOMAIN config.auth \subseteq Nat
      BY <1>a DEF Untried
    <3>2. First(Untried(tried')) \in Untried(tried')
      BY <2>3, <3>1, FirstIn
    <3> QED
      BY <3>1, <3>2
  <2> QED
    BY <1>3, <2>1, <2>2, <2>3 DEF ChooseNext
<1>4. CASE Retry
  BY <1>0, <1>4, BeginKeeps DEF Retry, ClientTyped
<1>5. CASE RecvResponse
  BY <1>0, <1>5, QuietKeeps DEF RecvResponse, Ended, Dropped, method, keyLoop
<1>6. CASE TryKey
  <2>1. CASE /\ UNCHANGED <<toServer, cur, signers>>
             /\ (idx' = idx /\ cli' = "next") \/ (idx' = idx + 1 /\ cli' = cli)
    BY <1>6, <2>1, QuietKeeps DEF TryKey
  <2>2. ASSUME NEW q \in {"algo", "good"}, idx <= Len(signers),
               Sends(<<Sent("query", signers[idx], q)>>), cli' = "ack", UNCHANGED <<method, result>>
        PROVE  ClientKeeps
    <3>1. signers[idx] \in Credentials
      BY <1>s, <2>2
    <3>2. Sent("query", signers[idx], q) \in Packets
      BY <1>0, <3>1, SentTyped DEF Requests
    <3>3. toServer' \in Seq(Packets)
      BY <1>0, <2>2, <3>2, SendsOne
    <3> QED
      BY <1>6, <2>2, <3>3, SpeaksKeeps DEF TryKey, method, keyLoop
  <2>3. (IF NoAlgorithm(signers[idx]) THEN "algo" ELSE "good") \in {"algo", "good"}
    OBVIOUS
  <2> QED
    BY <1>6, <2>1, <2>2, <2>3 DEF TryKey, Ended, keyLoop
<1>7. CASE RecvKeyAck
  <2>0. config' = config
    BY <1>7 DEF RecvKeyAck
  <2>1. CASE UNCHANGED <<toServer, cur, signers, idx>> /\ cli' \in {cli, "next", "failed"}
    BY <2>0, <2>1, QuietKeeps
  <2>2. CASE /\ Sends(<<Sent("signed", signers[idx], "good")>>)
             /\ cli' = "resp" /\ UNCHANGED <<cur, tries, keyLoop, gotInfo, result>>
    <3>1. Sent("signed", signers[idx], "good") \in Packets
      BY <1>0, <1>b, <1>7, SentTyped DEF RecvKeyAck, Requests
    <3>2. toServer' \in Seq(Packets)
      BY <1>0, <2>2, <3>1, SendsOne
    <3> QED
      BY <1>7, <2>2, <3>2, SpeaksKeeps DEF RecvKeyAck, keyLoop
  <2>3. CASE /\ signers' = IF Compat THEN Append(signers, signers[idx]) ELSE signers
             /\ idx' = idx + 1 /\ cli' = "key" /\ UNCHANGED <<cur, toServer>>
    <3>1. signers[idx] \in Credentials
      BY <1>b, <1>7 DEF RecvKeyAck
    <3>2. signers' \in Seq(Credentials)
      BY <1>s, <2>3, <3>1
    <3>3. idx' \in Nat \ {0} /\ cli' # "ack"
      BY <1>s, <2>3
    <3>4. config' \in ClientConfigs /\ cur' \in Methods
      BY <1>0, <2>0, <2>3 DEF ClientTyped
    <3>5. ClientTyped'
      BY <3>2, <3>3, <3>4 DEF ClientTyped
    <3> QED
      BY <1>0, <2>3, <3>5 DEF ClientKeeps, ServerTyped
  <2> QED
    BY <1>7, <2>1, <2>2, <2>3 DEF RecvKeyAck, Ended, Dropped, method, keyLoop
<1>8. CASE RecvQuestion
  <2>1. CASE UNCHANGED toServer
    BY <1>0, <1>8, <2>1, QuietKeeps DEF RecvQuestion, Ended, Dropped, method, keyLoop
  <2>2. CASE /\ Sends(<<Sent("answer", config.secret, "good")>>)
             /\ UNCHANGED <<cli, cur, tries, keyLoop, gotExt, result>>
    <3>1. Sent("answer", config.secret, "good") \in Packets
      BY <1>0, SentTyped DEF Followups
    <3>2. toServer' \in Seq(Packets)
      BY <1>0, <2>2, <3>1, SendsOne
    <3> QED
      BY <1>8, <2>2, <3>2, SpeaksKeeps DEF RecvQuestion, keyLoop
  <2> QED
    BY <1>8, <2>1, <2>2 DEF RecvQuestion
<1>9. CASE RecvMechanism
  <2>0. Sent("token", "", config.gss) \in Packets /\ Mic \in Packets
    BY <1>0, SentTyped DEF Followups, Mic
  <2>1. CASE UNCHANGED <<toServer, cur, signers, idx>> /\ cli' \in {"next", "failed"}
    BY <1>9, <2>1, QuietKeeps DEF RecvMechanism
  <2>2. CASE /\ Sends(<<Sent("token", "", config.gss)>>)
             /\ cli' = "gsstoken" /\ UNCHANGED <<method, result>>
    BY <1>0, <1>9, <2>0, <2>2, SendsOne, SpeaksKeeps DEF RecvMechanism, method, keyLoop
  <2>3. CASE /\ Sends(<<Sent("token", "", config.gss), Mic>>)
             /\ cli' = "resp" /\ UNCHANGED <<method, result>>
    BY <1>0, <1>9, <2>0, <2>3, SendsTwo, SpeaksKeeps DEF RecvMechanism, method, keyLoop
  <2> QED
    BY <1>9, <2>1, <2>2, <2>3 DEF RecvMechanism, Ended, Dropped, method, keyLoop
<1>10. CASE RecvGssToken
  <2>0. Mic \in Packets
    BY <1>0, SentTyped DEF Followups, Mic
  <2>1. CASE UNCHANGED <<toServer, cur, signers, idx>> /\ cli' \in {"next", "failed"}
    BY <1>10, <2>1, QuietKeeps DEF RecvGssToken
  <2>2. CASE Sends(<<Mic>>) /\ cli' = "resp" /\ UNCHANGED <<method, result>>
    BY <1>0, <1>10, <2>0, <2>2, SendsOne, SpeaksKeeps DEF RecvGssToken, method, keyLoop
  <2> QED
    BY <1>10, <2>1, <2>2 DEF RecvGssToken, Ended, Dropped, method, keyLoop
<1> QED
  BY <1>1, <1>2, <1>3, <1>4, <1>5, <1>6, <1>7, <1>8, <1>9, <1>10 DEF ClientStep

-----------------------------------------------------------------------------
(* The whole login                                                         *)

LEMMA AuthInvInit == Init => AuthInv
<1> SUFFICES ASSUME Init PROVE AuthInv
  OBVIOUS
<1>1. GitTyped
  BY GitInitInv DEF GitInv, Init
<1>2. policy \in Policies /\ stage = 1 /\ srv = "ident" /\ chain = <<>>
  BY DEF Init, ServerInit
<1>3. toServer = <<>> /\ toClient = <<>> /\ sUser = "" /\ request = NoPacket /\ cache = NoKey
  BY DEF Init, ServerInit
<1>4. config \in ClientConfigs /\ cli = "start" /\ cur = "none" /\ signers = <<>> /\ idx = 1
  BY DEF Init, ClientInit
<1>5. PICK n \in Nat : n >= 1 /\ n = Len(policy.stages) /\ DOMAIN policy.stages = 1..n
  <2>1. Len(policy.stages) \in Nat \ {0} /\ DOMAIN policy.stages = 1 .. Len(policy.stages)
    BY <1>2, StagesTyped
  <2> QED
    BY <2>1
<1>6. ServerTyped
  <2>1. cache.user \in Accounts /\ cache.key \in Credentials
    BY <1>3, NamesAssumption DEF NoKey
  <2>2. stage \in DOMAIN policy.stages
    BY <1>2, <1>5
  <2>3. srv \in SrvStates
    BY <1>2 DEF SrvStates
  <2>4. chain \in Seq(Steps)
    BY <1>2
  <2>5. toServer \in Seq(Packets) /\ toClient \in Seq(Answers)
    <3>1. ASSUME NEW S PROVE <<>> \in Seq(S)
      OBVIOUS
    <3> QED
      BY <1>3, <3>1, Zenon
  <2>6. request \in Packets /\ sUser \in Accounts
    BY <1>3, NoPacketTyped, NamesAssumption
  <2> QED
    BY <1>2, <2>1, <2>2, <2>3, <2>4, <2>5, <2>6 DEF ServerTyped
<1>7. ClientTyped
  <2>1. cur \in Methods
    BY <1>4 DEF Methods
  <2>2. signers \in Seq(Credentials)
    BY <1>4
  <2> QED
    BY <1>4, <2>1, <2>2 DEF ClientTyped
<1>8. Underway /\ Asked
  BY <1>2 DEF Underway, Asked
<1>9. Belief
  <2>1. ~Told(<<>>)
    BY DEF Told
  <2> QED
    BY <1>3, <1>4, <2>1 DEF Belief
<1>10. CacheRight
  BY <1>3 DEF CacheRight, KeyRight, NoKey
<1>11. ChainRight
  <2>1. Len(chain) = 0 /\ DOMAIN chain = {}
    BY <1>2
  <2>2. Reached(Len(chain) + 1) = 1
    BY <1>5, <2>1 DEF Reached
  <2> QED
    BY <1>2, <2>1, <2>2 DEF ChainRight
<1> QED
  BY <1>1, <1>6, <1>7, <1>8, <1>9, <1>10, <1>11 DEF AuthInv, AuthTyped

LEMMA ServerStepInv == ASSUME AuthInv, GitInv, cli' = cli, ServerStep PROVE ServerInv'
  BY RecvIdentInv, RecvServiceInv, ReadFailsInv, DisconnectInv, RecvUnacceptableInv,
     RecvImmediateInv, RecvStartInv, RecvKeyInv, AnswerQueryInv, AnswerSignedInv,
     RecvAnswerInv, RecvTokenInv, RecvMICInv DEF ServerStep

\* What the other end does moves packets and nothing else of the server's.
LEMMA PeerInv ==
    ASSUME AuthInv, UNCHANGED <<serverVars, gitVars>>,
           toServer' \in Seq(Packets), toClient' \in Seq(Answers),
           Told(toClient') => Told(toClient), cli' = "ok" => cli = "ok" \/ Told(toClient)
    PROVE  ServerInv'
<1>1. ServerTyped'
  BY DEF AuthInv, AuthTyped, ServerTyped, serverVars
<1>2. Underway' /\ Asked' /\ Belief'
  BY DEF AuthInv, Underway, Asked, Belief, Cached, serverVars, gitVars
<1>3. CacheRight'
  BY DEF AuthInv, CacheRight, KeyRight, Cached, serverVars, gitVars
<1>4. ChainRight'
  <2>1. \A i \in DOMAIN chain : Rests(i)'
    BY DEF AuthInv, ChainRight, Rests, serverVars, gitVars
  <2> QED
    BY <2>1 DEF AuthInv, ChainRight, Reached, serverVars
<1> QED
  BY <1>1, <1>2, <1>3, <1>4 DEF ServerInv

\* The operator and the other logins, and the callback itself: the listed keys
\* of this login only grow, and a call that goes on is about the same key.
LEMMA BesideInv ==
    ASSUME AuthInv, UNCHANGED <<serverVars, toServer, toClient, cli>>, watch' = watch,
           listed[Self] \subseteq listed'[Self], offered'[Self] = offered[Self],
           call'[Self] \in Calling \cup {"granted"} => call[Self] \in Calling \cup {"granted"}
    PROVE  ServerInv'
<1>1. ServerTyped'
  BY DEF AuthInv, AuthTyped, ServerTyped, serverVars
<1>2. Underway' /\ Asked' /\ Belief'
  BY DEF AuthInv, Underway, Asked, Belief, Cached, serverVars
<1>3. CacheRight'
  BY DEF AuthInv, CacheRight, KeyRight, Cached, serverVars
<1>4. ChainRight'
  <2>1. \A i \in DOMAIN chain : Rests(i)'
    BY DEF AuthInv, ChainRight, Rests, serverVars
  <2> QED
    BY <2>1 DEF AuthInv, ChainRight, Reached, serverVars
<1> QED
  BY <1>1, <1>2, <1>3, <1>4 DEF ServerInv

LEMMA AuthInvStep == AuthInv /\ GitInv /\ [Next]_vars => AuthInv'
<1> SUFFICES ASSUME AuthInv, GitInv, [Next]_vars PROVE AuthInv'
  OBVIOUS
<1>1. GitTyped'
  BY GitInvStep DEF GitInv
<1>2. ServerInv' /\ ClientTyped' => AuthInv'
  BY <1>1 DEF AuthInv, AuthTyped, ServerInv
<1>3. UNCHANGED clientVars => ClientTyped' /\ cli' = cli
  BY DEF clientVars, method, keyLoop, AuthInv, AuthTyped, ClientTyped
<1>4. ServerTyped /\ toClient \in Seq(Answers) /\ toServer \in Seq(Packets) /\ srv \in SrvStates
      /\ policy \in Policies
  BY DEF AuthInv, AuthTyped, ServerTyped
<1>5. <<>> \in Seq(Answers) /\ ~Told(<<>>)
  BY DEF Told
<1>6. CASE Server
  BY <1>2, <1>3, <1>6, ServerStepInv DEF Server
<1>7. CASE Client
  <2>1. ClientKeeps
    BY <1>7, ClientStepKeeps DEF Client, AuthInv
  <2>2. toClient' = toClient \/ toClient' = Rest
    BY <1>7 DEF Client, ClientStep, Hello, RecvAccept, ChooseNext, Retry, RecvResponse,
                TryKey, RecvKeyAck, RecvQuestion, RecvMechanism, RecvGssToken, Rest
  <2>3. toClient' \in Seq(Answers) /\ (Told(toClient') => Told(toClient))
        /\ (Got("success") => Told(toClient))
    BY <1>4, <2>2, RestTyped
  <2> QED
    BY <1>2, <1>7, <2>1, <2>3, PeerInv DEF Client, ClientKeeps
<1>8. CASE ClientHangsUp
  BY <1>2, <1>3, <1>4, <1>8, PeerInv DEF ClientHangsUp, HangUp
<1>9. CASE AnyClientSends
  <2>1. PICK p \in AnyPackets(policy, srv) : toServer' = <<p>>
    BY <1>9 DEF AnyClientSends
  <2>2. p \in Packets
    BY <1>4, <2>1, PacketsAssumption
  <2>3. toServer' \in Seq(Packets)
    BY <2>1, <2>2
  <2> QED
    BY <1>2, <1>3, <1>5, <1>9, <2>3, PeerInv DEF AnyClientSends
<1>10. CASE AnyClientHangsUp
  BY <1>2, <1>3, <1>4, <1>5, <1>10, PeerInv DEF AnyClientHangsUp
<1>11. CASE Operator
  <2>1. listed[Self] \subseteq listed'[Self]
    BY <1>11, SelfAssumption DEF Operator, EditFile
  <2> QED
    BY <1>2, <1>3, <1>11, <2>1, BesideInv DEF Operator, EditFile
<1>12. ASSUME NEW l \in Logins, GitCallback(l) PROVE AuthInv'
  <2>1. /\ watch' = watch /\ listed' = listed /\ offered' = offered
        /\ \E a \in Calling : \E b : call[l] = a /\ call' = [call EXCEPT ![l] = b]
    BY <1>12 DEF GitCallback, GitStep, WatchLock, ReadFile, StoreKeys, Lookup, Calling
  <2>2. call'[Self] \in Calling \cup {"granted"} => call[Self] \in Calling \cup {"granted"}
    BY <2>1, SelfAssumption DEF AuthInv, AuthTyped, GitTyped
  <2> QED
    BY <1>2, <1>3, <1>12, <2>1, <2>2, BesideInv DEF GitCallback
<1>13. ASSUME NEW l \in Logins \ {Self}, OtherLogin(l) PROVE AuthInv'
  <2>1. /\ watch' = watch /\ listed'[Self] = listed[Self] /\ offered'[Self] = offered[Self]
        /\ call'[Self] = call[Self]
    BY <1>13, SelfAssumption DEF OtherLogin, CallGit, AuthInv, AuthTyped, GitTyped
  <2> QED
    BY <1>2, <1>3, <1>13, <2>1, BesideInv DEF OtherLogin
<1>14. CASE UNCHANGED vars
  BY <1>2, <1>3, <1>4, <1>14, PeerInv DEF vars
<1> QED
  BY <1>6, <1>7, <1>8, <1>9, <1>10, <1>11, <1>12, <1>13, <1>14 DEF Next

\* A login that succeeds has passed every stage in order, with one account and
\* credentials meant for it, whatever the client sent, whatever the key cache
\* held and whatever other logins and the operator did; and the client never
\* believes otherwise.
THEOREM AuthSoundCorrect == Spec => []AuthSound
<1>1. Init => AuthInv /\ GitInv
  BY AuthInvInit, GitInitInv DEF Init
<1>2. AuthInv /\ GitInv /\ [Next]_vars => (AuthInv /\ GitInv)'
  BY AuthInvStep, GitInvStep
<1>3. AuthInv => AuthSound
  <2> SUFFICES ASSUME AuthInv, srv = "success"
               PROVE  /\ chain # <<>> /\ chain[Len(chain)].stage = stage
                      /\ \A s \in 1 .. stage : \E i \in DOMAIN chain : chain[i].stage = s
                      /\ \A i \in DOMAIN chain : Rests(i)
    BY DEF AuthInv, Belief, AuthSound
  <2>1. /\ chain # <<>> /\ stage = Reached(Len(chain))
        /\ \A i \in DOMAIN chain : chain[i].stage = Reached(i) /\ Rests(i)
    BY DEF AuthInv, ChainRight
  <2>2. /\ Len(chain) \in Nat \ {0} /\ DOMAIN chain = 1 .. Len(chain)
        /\ Len(policy.stages) \in Nat \ {0}
    BY <2>1, StagesTyped DEF AuthInv, AuthTyped, ServerTyped
  <2>3. \A s \in 1 .. stage : s \in DOMAIN chain /\ Reached(s) = s
    BY <2>1, <2>2 DEF Reached
  <2> QED
    BY <2>1, <2>2, <2>3
<1> QED
  BY <1>1, <1>2, <1>3, PTL DEF Spec
=============================================================================
