-------------------------- MODULE ConnectionProofs --------------------------
(***************************************************************************)
(* Proofs about connections.  WorkerHandshake: both ends of an accepted     *)
(* handshake agree, for any number of runs, keys and nodes, whatever the    *)
(* handshakes that failed left behind on their connections.  PeerRegistry:  *)
(* the registry of every node is the set of its sessions, for any number    *)
(* of nodes, connections and failures and for every limit.                  *)
(***************************************************************************)
EXTENDS WorkerHandshake, PeerRegistry, FiniteSetTheorems, TLAPS

-----------------------------------------------------------------------------
(* The handshake and its inductive invariant.                               *)

\* The answer of a run to the challenge it has taken.
Auth(r) == sign_worker_auth(KeyOf[r], Hello(r), worker[r].challenge)

\* A connection nobody has accepted holds the hello and nothing else; a
\* challenge arrives when the hello was read; what a run that has answered
\* finds on its connection was accepted.
RunInv(r) ==
  /\ worker[r].pc = "new" =>
       /\ worker[r].node = Absent /\ ~worker[r].taken
       /\ up[r] = <<>> /\ down[r] = <<>>
  /\ worker[r].node \in Node /\ ~worker[r].taken =>
       /\ worker[r].pc \in {"hello", "failed"}
       /\ up[r] = <<Hello(r)>> /\ down[r] = <<>>
  /\ worker[r].pc = "hello" /\ down[r] # <<>> =>
       up[r] = <<>> /\ \E c \in ChallengeMessage : down[r] = <<c>>
  /\ worker[r].pc = "auth" =>
       /\ worker[r].challenge \in ChallengeMessage
       /\ worker[r].challenge.node = Paired[r]
       /\ down[r] # <<>> =>
            \E a \in AcceptMessage : down[r] = <<a>> /\ <<r, a>> \in accepted
  /\ worker[r].pc = "session" =>
       <<r, worker[r].session>> \in accepted /\ worker[r].session.node = Paired[r]

\* A service in a handshake has a connection of its own, and finds there what
\* its next read expects.
ServiceInv(n) ==
  /\ svc[n].pc \in {"hello", "auth", "session"} =>
       /\ svc[n].run \in Run /\ svc[n].handled < MaxConnections
       /\ worker[svc[n].run].node = n /\ worker[svc[n].run].taken
  /\ svc[n].pc = "hello" =>
       /\ worker[svc[n].run].pc \in {"hello", "failed"}
       /\ up[svc[n].run] = <<Hello(svc[n].run)>> /\ down[svc[n].run] = <<>>
  /\ svc[n].pc \in {"auth", "session"} =>
       svc[n].hello = Hello(svc[n].run) /\ KeyOf[svc[n].run] \in Allowed[n]
  /\ svc[n].pc = "auth" =>
       /\ worker[svc[n].run].pc \in {"hello", "auth", "failed"}
       /\ worker[svc[n].run].pc = "hello" =>
            up[svc[n].run] = <<>> /\ down[svc[n].run] # <<>>
       /\ worker[svc[n].run].pc = "auth" => down[svc[n].run] = <<>>
       /\ up[svc[n].run] # <<>> =>
            /\ worker[svc[n].run].challenge \in ChallengeMessage
            /\ up[svc[n].run] = <<Auth(svc[n].run)>>

\* What was accepted is the answer of the run to the challenge it has taken.
AcceptedInv(r, a) ==
  /\ worker[r].pc \in {"auth", "session", "failed"}
  /\ a.hello = Hello(r) /\ KeyOf[r] \in Allowed[a.node]
  /\ a.over = worker[r].challenge

HandshakeInv ==
  /\ HandshakeTypeOK
  /\ \A r \in Run : RunInv(r)
  /\ \A n \in Node : ServiceInv(n)
  /\ \A r \in Run, a \in AcceptMessage : <<r, a>> \in accepted => AcceptedInv(r, a)

-----------------------------------------------------------------------------
(* Lemmas about the messages.                                               *)

\* A connection holds at most one message at a time while both ends are up.
LEMMA OneMessage ==
  ASSUME NEW S, NEW x \in S
  PROVE  /\ <<x>> \in Seq(S) /\ <<x>> # <<>> /\ Head(<<x>>) = x
         /\ Tail(<<x>>) = <<>> /\ Append(<<>>, x) = <<x>>
OBVIOUS

\* Reading and writing keep the type of a connection.
LEMMA ReadWrite ==
  ASSUME NEW S, NEW s \in Seq(S)
  PROVE  /\ \A x \in S : Append(s, x) \in Seq(S)
         /\ s # <<>> => Head(s) \in S /\ Tail(s) \in Seq(S)
OBVIOUS

\* WORKER_HELLO and WORKER_AUTH of a run.
LEMMA RunMessages ==
  ASSUME NEW r \in Run, NEW c \in ChallengeMessage
  PROVE  /\ Hello(r) \in HelloMessage /\ Hello(r).key = KeyOf[r] /\ Hello(r).nonce = r
         /\ sign_worker_auth(KeyOf[r], Hello(r), c) \in AuthMessage
         /\ \A d \in ChallengeMessage :
              sign_worker_auth(KeyOf[r], Hello(r), c) = sign_worker_auth(KeyOf[r], Hello(r), d)
                => c = d
<1>1. KeyOf[r] \in Key
  BY PairingAssumption
<1>2. Hello(r) \in HelloMessage /\ Hello(r).key = KeyOf[r] /\ Hello(r).nonce = r
  BY <1>1 DEF Hello, HelloMessage
<1>3. sign_worker_auth(KeyOf[r], Hello(r), c) \in AuthMessage
  BY <1>1, <1>2 DEF sign_worker_auth, AuthMessage
<1>4. \A d \in ChallengeMessage :
        sign_worker_auth(KeyOf[r], Hello(r), c) = sign_worker_auth(KeyOf[r], Hello(r), d) => c = d
  BY DEF sign_worker_auth
<1> QED
  BY <1>2, <1>3, <1>4

\* The challenge of a service.
LEMMA ServiceMessages ==
  ASSUME NEW n \in Node, NEW hello \in HelloMessage, NEW nonce \in Nat
  PROVE  /\ Challenge(n, hello, nonce) \in ChallengeMessage
         /\ Challenge(n, hello, nonce).node = n
BY DEF Challenge, ChallengeMessage, HelloMessage

-----------------------------------------------------------------------------
(* Every step keeps the invariant.                                          *)

\* The components of the state are well formed.
LEMMA HandshakeTyped ==
  ASSUME HandshakeInv
  PROVE  /\ worker \in [Run -> WorkerState] /\ svc \in [Node -> ServiceState]
         /\ \A r \in Run : /\ worker[r].node \in Node \cup {Absent}
                           /\ worker[r].taken \in BOOLEAN
                           /\ up[r] \in Seq(HelloMessage \cup AuthMessage)
                           /\ down[r] \in Seq(ChallengeMessage \cup AcceptMessage)
         /\ Absent \notin Node /\ Absent \notin Run
<1>1. worker \in [Run -> WorkerState] /\ svc \in [Node -> ServiceState]
  BY DEF HandshakeInv, HandshakeTypeOK
<1>2. \A r \in Run : worker[r].node \in Node \cup {Absent} /\ worker[r].taken \in BOOLEAN
  BY <1>1 DEF WorkerState
<1>3. \A r \in Run : /\ up[r] \in Seq(HelloMessage \cup AuthMessage)
                     /\ down[r] \in Seq(ChallengeMessage \cup AcceptMessage)
  BY Zenon DEF HandshakeInv, HandshakeTypeOK
<1>4. Absent \notin Node /\ Absent \notin Run
  BY AbsentAssumption
<1> QED
  BY Zenon, <1>1, <1>2, <1>3, <1>4

\* What a step does not touch stays as it was: a run whose connection is left
\* alone,
LEMMA RunKept ==
  ASSUME NEW q \in Run, RunInv(q), worker'[q] = worker[q], up'[q] = up[q],
         down'[q] = down[q], accepted \subseteq accepted'
  PROVE  RunInv(q)'
BY Zenon DEF RunInv

\* a service whose handshake is left alone,
LEMMA ServiceKept ==
  ASSUME NEW m \in Node, ServiceInv(m), svc'[m] = svc[m],
         svc[m].pc \in {"hello", "auth", "session"} =>
           /\ worker'[svc[m].run] = worker[svc[m].run]
           /\ up'[svc[m].run] = up[svc[m].run] /\ down'[svc[m].run] = down[svc[m].run]
  PROVE  ServiceInv(m)'
BY DEF ServiceInv, Auth

\* and a session whose worker has not gone back.
LEMMA AcceptedKept ==
  ASSUME NEW q \in Run, NEW a \in AcceptMessage, AcceptedInv(q, a),
         worker'[q].challenge = worker[q].challenge,
         worker[q].pc \in {"auth", "session", "failed"} =>
           worker'[q].pc \in {"auth", "session", "failed"}
  PROVE  AcceptedInv(q, a)'
BY DEF AcceptedInv

\* No two services handle one connection.
LEMMA OneService ==
  ASSUME HandshakeInv, NEW m \in Node, NEW n \in Node, m # n,
         svc[m].pc \in {"hello", "auth", "session"},
         svc[n].pc \in {"hello", "auth", "session"}
  PROVE  svc[m].run # svc[n].run
BY DEF HandshakeInv, ServiceInv

\* A run connects and says hello.
LEMMA ConnectKeeps ==
  ASSUME HandshakeInv, NEW r \in Run, NEW n \in Node, Connect(r, n)
  PROVE  HandshakeInv'
<1>a. /\ HandshakeTypeOK /\ worker[r].pc = "new" /\ UNCHANGED <<down, svc, accepted>>
      /\ RunInv(r) /\ Absent \notin Node
  BY HandshakeTyped DEF HandshakeInv, Connect
<1>b. /\ worker' = [worker EXCEPT ![r].pc = "hello", ![r].node = n]
      /\ up' = [up EXCEPT ![r] = <<Hello(r)>>]
  BY DEF Connect
<1>c. Hello(r) \in HelloMessage /\ <<Hello(r)>> \in Seq(HelloMessage \cup AuthMessage)
  <2>1. Hello(r) \in HelloMessage
    BY PairingAssumption DEF Hello, HelloMessage
  <2> QED
    BY <2>1, OneMessage
<1>d. /\ worker'[r].pc = "hello" /\ worker'[r].node = n /\ worker'[r].taken = worker[r].taken
      /\ worker'[r].challenge = worker[r].challenge
      /\ \A q \in Run : q # r => worker'[q] = worker[q] /\ up'[q] = up[q]
      /\ up'[r] = <<Hello(r)>>
  BY <1>a, <1>b, HandshakeTyped DEF HandshakeTypeOK, WorkerState
<1>1. HandshakeTypeOK'
  <2>1. worker' \in [Run -> WorkerState]
    <3>1. PICK w \in WorkerState : w = [worker[r] EXCEPT !.pc = "hello", !.node = n]
      BY Zenon, HandshakeTyped DEF WorkerState
    <3>2. worker' = [worker EXCEPT ![r] = w]
      BY Zenon, <1>b, <3>1
    <3> QED
      BY <3>1, <3>2, HandshakeTyped
  <2>2. up' \in [Run -> Seq(HelloMessage \cup AuthMessage)]
    BY Zenon, <1>a, <1>b, <1>c DEF HandshakeTypeOK
  <2> QED
    BY <2>1, <2>2, <1>a DEF HandshakeTypeOK
<1>2. ASSUME NEW q \in Run PROVE RunInv(q)'
  <2>1. CASE q = r
    BY <2>1, <1>a, <1>d DEF RunInv
  <2>2. CASE q # r
    <3>1. RunInv(q)
      BY DEF HandshakeInv
    <3>2. worker'[q] = worker[q] /\ up'[q] = up[q] /\ down' = down /\ accepted' = accepted
      BY Zenon, <2>2, <1>a, <1>d
    <3> QED
      BY <3>1, <3>2, RunKept
  <2> QED
    BY <2>1, <2>2
<1>3. ASSUME NEW m \in Node PROVE ServiceInv(m)'
  <2>1. ServiceInv(m)
    BY DEF HandshakeInv
  <2>2. svc[m].pc \in {"hello", "auth", "session"} => svc[m].run \in Run /\ svc[m].run # r
    BY <2>1, <1>a DEF ServiceInv, RunInv
  <2> QED
    BY <2>1, <2>2, <1>a, <1>d DEF ServiceInv, Auth
<1>4. ASSUME NEW q \in Run, NEW a \in AcceptMessage, <<q, a>> \in accepted'
      PROVE  AcceptedInv(q, a)'
  <2>1. AcceptedInv(q, a)
    BY <1>4, <1>a DEF HandshakeInv
  <2>2. q # r
    BY <2>1, <1>a DEF AcceptedInv
  <2> QED
    BY <2>1, <2>2, <1>d DEF AcceptedInv
<1> QED
  BY <1>1, <1>2, <1>3, <1>4 DEF HandshakeInv

\* A run takes the challenge of the node it is paired with, or gives up.
LEMMA ReadChallengeKeeps ==
  ASSUME HandshakeInv, NEW r \in Run, ReadChallenge(r)
  PROVE  HandshakeInv'
<1>a. /\ HandshakeTypeOK /\ worker[r].pc = "hello" /\ down[r] # <<>>
      /\ UNCHANGED <<svc, accepted>> /\ down' = [down EXCEPT ![r] = Tail(@)]
      /\ RunInv(r) /\ Absent \notin Node
  BY HandshakeTyped DEF HandshakeInv, ReadChallenge
<1>b. PICK c \in ChallengeMessage : down[r] = <<c>> /\ up[r] = <<>>
  BY <1>a DEF RunInv
<1>c. /\ Head(down[r]) = c /\ Tail(down[r]) = <<>>
      /\ <<>> \in Seq(ChallengeMessage \cup AcceptMessage)
  BY <1>b, OneMessage
<1>d. PICK sig \in AuthMessage : sig = sign_worker_auth(KeyOf[r], Hello(r), c)
  BY RunMessages
<1>e. /\ down'[r] = <<>> /\ \A q \in Run : q # r => down'[q] = down[q]
      /\ down' \in [Run -> Seq(ChallengeMessage \cup AcceptMessage)]
  BY <1>a, <1>c DEF HandshakeTypeOK
<1>1. CASE Trusted(r, c)
  <2>a. /\ worker' = [worker EXCEPT ![r].pc = "auth", ![r].challenge = c]
        /\ up' = [up EXCEPT ![r] = Append(@, sig)]
    BY <1>1, <1>c, <1>d DEF ReadChallenge
  <2>b. Append(up[r], sig) = <<sig>> /\ <<sig>> \in Seq(HelloMessage \cup AuthMessage)
    BY <1>b, OneMessage
  <2>c. /\ worker'[r].pc = "auth" /\ worker'[r].challenge = c
        /\ worker'[r].node = worker[r].node /\ worker'[r].taken = worker[r].taken
        /\ \A q \in Run : q # r => worker'[q] = worker[q] /\ up'[q] = up[q]
        /\ up'[r] = <<sig>>
    BY <1>a, <2>a, <2>b, HandshakeTyped DEF HandshakeTypeOK, WorkerState
  <2>d. c.node = Paired[r]
    BY <1>1 DEF Trusted
  <2>1. HandshakeTypeOK'
    <3>1. worker' \in [Run -> WorkerState]
      <4>1. PICK w \in WorkerState : w = [worker[r] EXCEPT !.pc = "auth", !.challenge = c]
        BY Zenon, HandshakeTyped DEF WorkerState
      <4>2. worker' = [worker EXCEPT ![r] = w]
        BY Zenon, <2>a, <4>1
      <4> QED
        BY <4>1, <4>2, HandshakeTyped
    <3>2. up' \in [Run -> Seq(HelloMessage \cup AuthMessage)]
      BY Zenon, <1>a, <2>a, <2>b DEF HandshakeTypeOK
    <3> QED
      BY <3>1, <3>2, <1>a, <1>e DEF HandshakeTypeOK
  <2>2. ASSUME NEW q \in Run PROVE RunInv(q)'
    <3>1. CASE q = r
      <4>1. ~(worker[r].node \in Node /\ ~worker[r].taken)
        BY <1>a DEF RunInv
      <4> QED
        BY <3>1, <4>1, <1>e, <2>c, <2>d DEF RunInv
    <3>2. CASE q # r
      <4>1. RunInv(q)
        BY DEF HandshakeInv
      <4> QED
        BY <3>2, <4>1, <1>a, <1>e, <2>c, RunKept
    <3> QED
      BY <3>1, <3>2
  <2>3. ASSUME NEW m \in Node PROVE ServiceInv(m)'
    <3>1. ServiceInv(m)
      BY Zenon DEF HandshakeInv
    <3>2. CASE svc[m].pc \in {"hello", "auth", "session"} /\ svc[m].run = r
      <4>1. svc[m].pc # "hello"
        BY <3>1, <3>2, <1>a DEF ServiceInv
      <4>2. Auth(r)' = sig
        BY Zenon, <2>c, <1>d DEF Auth
      <4> QED
        BY Zenon, <3>1, <3>2, <4>1, <4>2, <1>a, <1>e, <2>c DEF ServiceInv
    <3>3. CASE ~(svc[m].pc \in {"hello", "auth", "session"} /\ svc[m].run = r)
      BY <3>1, <3>3, <1>a, <1>e, <2>c DEF ServiceInv, Auth
    <3> QED
      BY <3>2, <3>3
  <2>4. ASSUME NEW q \in Run, NEW a \in AcceptMessage, <<q, a>> \in accepted'
        PROVE  AcceptedInv(q, a)'
    <3>1. AcceptedInv(q, a)
      BY <2>4, <1>a DEF HandshakeInv
    <3>2. q # r
      BY <3>1, <1>a DEF AcceptedInv
    <3> QED
      BY <3>1, <3>2, <2>c DEF AcceptedInv
  <2> QED
    BY <2>1, <2>2, <2>3, <2>4 DEF HandshakeInv
<1>2. CASE ~Trusted(r, c)
  <2>a. worker' = [worker EXCEPT ![r].pc = "failed"] /\ up' = up
    BY <1>2, <1>c DEF ReadChallenge
  <2>b. /\ worker'[r].pc = "failed" /\ worker'[r].challenge = worker[r].challenge
        /\ worker'[r].node = worker[r].node /\ worker'[r].taken = worker[r].taken
        /\ \A q \in Run : q # r => worker'[q] = worker[q]
    BY <1>a, <2>a, HandshakeTyped DEF HandshakeTypeOK, WorkerState
  <2>1. HandshakeTypeOK'
    <3>1. worker' \in [Run -> WorkerState]
      BY <2>a, HandshakeTyped DEF WorkerState
    <3> QED
      BY <3>1, <2>a, <1>a, <1>e DEF HandshakeTypeOK
  <2>2. ASSUME NEW q \in Run PROVE RunInv(q)'
    <3>1. CASE q = r
      BY <3>1, <1>a, <2>b DEF RunInv
    <3>2. CASE q # r
      <4>1. RunInv(q)
        BY DEF HandshakeInv
      <4> QED
        BY Zenon, <3>2, <4>1, <1>e, <2>a, <2>b, <1>a, RunKept
    <3> QED
      BY <3>1, <3>2
  <2>3. ASSUME NEW m \in Node PROVE ServiceInv(m)'
    <3>1. ServiceInv(m)
      BY DEF HandshakeInv
    <3>2. CASE svc[m].pc \in {"hello", "auth", "session"} /\ svc[m].run = r
      <4>1. svc[m].pc # "hello"
        BY <3>1, <3>2, <1>a DEF ServiceInv
      <4> QED
        BY <3>1, <3>2, <4>1, <1>a, <1>b, <2>a, <2>b DEF ServiceInv
    <3>3. CASE ~(svc[m].pc \in {"hello", "auth", "session"} /\ svc[m].run = r)
      BY <3>1, <3>3, <1>a, <1>e, <2>a, <2>b DEF ServiceInv, Auth
    <3> QED
      BY <3>2, <3>3
  <2>4. ASSUME NEW q \in Run, NEW a \in AcceptMessage, <<q, a>> \in accepted'
        PROVE  AcceptedInv(q, a)'
    BY <2>4, <1>a, <2>b DEF HandshakeInv, AcceptedInv
  <2> QED
    BY <2>1, <2>2, <2>3, <2>4 DEF HandshakeInv
<1> QED
  BY <1>1, <1>2

\* A run that has answered takes the acceptance it finds, or gives up.
LEMMA ReadAcceptKeeps ==
  ASSUME HandshakeInv, NEW r \in Run, ReadAccept(r)
  PROVE  HandshakeInv'
<1>a. /\ HandshakeTypeOK /\ worker[r].pc = "auth" /\ down[r] # <<>>
      /\ UNCHANGED <<up, svc, accepted>> /\ down' = [down EXCEPT ![r] = Tail(@)]
      /\ RunInv(r)
  BY DEF HandshakeInv, ReadAccept
<1>b. PICK a \in AcceptMessage : down[r] = <<a>> /\ <<r, a>> \in accepted
  BY Zenon, <1>a DEF RunInv
<1>c. /\ Head(down[r]) = a /\ Tail(down[r]) = <<>>
      /\ <<>> \in Seq(ChallengeMessage \cup AcceptMessage)
  BY <1>b, OneMessage
<1>d. PICK w \in WorkerState :
        /\ worker' = [worker EXCEPT ![r] = w]
        /\ w.node = worker[r].node /\ w.taken = worker[r].taken
        /\ w.challenge = worker[r].challenge
        /\ \/ w.pc = "session" /\ w.session = a /\ a.node = Paired[r]
           \/ w.pc = "failed"
  <2>1. CASE worker' = [worker EXCEPT ![r].pc = "session", ![r].session = a]
             /\ a.node = Paired[r]
    <3>1. PICK w \in WorkerState : w = [worker[r] EXCEPT !.pc = "session", !.session = a]
      BY Zenon, HandshakeTyped DEF WorkerState
    <3>2. /\ w.pc = "session" /\ w.session = a /\ w.node = worker[r].node
          /\ w.taken = worker[r].taken /\ w.challenge = worker[r].challenge
      BY <3>1, HandshakeTyped DEF WorkerState
    <3>3. worker' = [worker EXCEPT ![r] = w]
      BY Zenon, <2>1, <3>1
    <3> QED
      BY Zenon, <2>1, <3>2, <3>3
  <2>2. CASE worker' = [worker EXCEPT ![r].pc = "failed"]
    <3>1. PICK w \in WorkerState : w = [worker[r] EXCEPT !.pc = "failed"]
      BY Zenon, HandshakeTyped DEF WorkerState
    <3>2. /\ w.pc = "failed" /\ w.node = worker[r].node
          /\ w.taken = worker[r].taken /\ w.challenge = worker[r].challenge
      BY <3>1, HandshakeTyped DEF WorkerState
    <3>3. worker' = [worker EXCEPT ![r] = w]
      BY <2>2, <3>1
    <3> QED
      BY Zenon, <3>2, <3>3
  <2>3. worker[r].challenge.node = Paired[r]
    BY <1>a DEF RunInv
  <2>4. \A h, k, g : a = sign_node_accept(worker[r].challenge.node, h, k, g)
                       => a.node = Paired[r]
    BY <2>3 DEF sign_node_accept
  <2> QED
    BY <2>1, <2>2, <2>4, <1>c DEF ReadAccept, verify_node_accept, session_id
<1>e. /\ down'[r] = <<>> /\ \A q \in Run : q # r => down'[q] = down[q]
      /\ down' \in [Run -> Seq(ChallengeMessage \cup AcceptMessage)]
  BY <1>a, <1>c DEF HandshakeTypeOK
<1>f. /\ worker'[r] = w /\ \A q \in Run : q # r => worker'[q] = worker[q]
      /\ worker' \in [Run -> WorkerState]
  BY <1>d, HandshakeTyped
<1>1. HandshakeTypeOK'
  BY <1>a, <1>e, <1>f DEF HandshakeTypeOK
<1>2. ASSUME NEW q \in Run PROVE RunInv(q)'
  <2>1. CASE q = r
    <3>1. ~(worker[r].node \in Node /\ ~worker[r].taken)
      BY <1>a DEF RunInv
    <3> QED
      BY <2>1, <3>1, <1>a, <1>b, <1>d, <1>f DEF RunInv
  <2>2. CASE q # r
    <3>1. RunInv(q)
      BY DEF HandshakeInv
    <3> QED
      BY <2>2, <3>1, <1>a, <1>e, <1>f, RunKept
  <2> QED
    BY <2>1, <2>2
<1>3. ASSUME NEW m \in Node PROVE ServiceInv(m)'
  <2>1. ServiceInv(m)
    BY Zenon DEF HandshakeInv
  <2>2. CASE svc[m].pc \in {"hello", "auth", "session"} /\ svc[m].run = r
    <3>1. svc[m].pc = "session"
      BY <2>1, <2>2, <1>a DEF ServiceInv
    <3> QED
      BY Zenon, <2>1, <2>2, <3>1, <1>a, <1>d, <1>f DEF ServiceInv
  <2>3. CASE ~(svc[m].pc \in {"hello", "auth", "session"} /\ svc[m].run = r)
    <3>1. svc[m].pc \in {"hello", "auth", "session"} => svc[m].run \in Run
      BY <2>1 DEF ServiceInv
    <3> QED
      BY Zenon, <2>1, <2>3, <3>1, <1>a, <1>e, <1>f, ServiceKept
  <2> QED
    BY <2>2, <2>3
<1>4. ASSUME NEW q \in Run, NEW b \in AcceptMessage, <<q, b>> \in accepted'
      PROVE  AcceptedInv(q, b)'
  <2>1. AcceptedInv(q, b)
    BY <1>4, <1>a DEF HandshakeInv
  <2> QED
    BY <2>1, <1>d, <1>f, AcceptedKept
<1> QED
  BY <1>1, <1>2, <1>3, <1>4 DEF HandshakeInv

\* A run gives up; what it has written stays.
LEMMA WorkerFailsKeeps ==
  ASSUME HandshakeInv, NEW r \in Run, WorkerFails(r)
  PROVE  HandshakeInv'
<1>a. /\ HandshakeTypeOK /\ worker[r].pc \in {"hello", "auth"}
      /\ UNCHANGED <<up, down, svc, accepted>> /\ RunInv(r)
  BY DEF HandshakeInv, WorkerFails
<1>b. PICK w \in WorkerState : w = [worker[r] EXCEPT !.pc = "failed"]
  BY Zenon, HandshakeTyped DEF WorkerState
<1>c. /\ w.pc = "failed" /\ w.node = worker[r].node
      /\ w.taken = worker[r].taken /\ w.challenge = worker[r].challenge
  BY <1>b, HandshakeTyped DEF WorkerState
<1>d. worker' = [worker EXCEPT ![r] = w]
  BY <1>b DEF WorkerFails
<1>e. /\ worker'[r] = w /\ \A q \in Run : q # r => worker'[q] = worker[q]
      /\ worker' \in [Run -> WorkerState]
  BY <1>d, HandshakeTyped
<1>1. HandshakeTypeOK'
  BY <1>a, <1>e DEF HandshakeTypeOK
<1>2. ASSUME NEW q \in Run PROVE RunInv(q)'
  <2>1. CASE q = r
    BY <2>1, <1>a, <1>c, <1>e DEF RunInv
  <2>2. CASE q # r
    <3>1. RunInv(q)
      BY DEF HandshakeInv
    <3> QED
      BY <2>2, <3>1, <1>a, <1>e, RunKept
  <2> QED
    BY Zenon, <2>1, <2>2
<1>3. ASSUME NEW m \in Node PROVE ServiceInv(m)'
  <2>1. ServiceInv(m)
    BY Zenon DEF HandshakeInv
  <2>2. CASE svc[m].pc \in {"hello", "auth", "session"} /\ svc[m].run = r
    BY Zenon, <2>1, <2>2, <1>a, <1>c, <1>e DEF ServiceInv, Auth
  <2>3. CASE ~(svc[m].pc \in {"hello", "auth", "session"} /\ svc[m].run = r)
    <3>1. svc[m].pc \in {"hello", "auth", "session"} => svc[m].run \in Run
      BY <2>1 DEF ServiceInv
    <3> QED
      BY Zenon, <2>1, <2>3, <3>1, <1>a, <1>e, ServiceKept
  <2> QED
    BY <2>2, <2>3
<1>4. ASSUME NEW q \in Run, NEW b \in AcceptMessage, <<q, b>> \in accepted'
      PROVE  AcceptedInv(q, b)'
  <2>1. AcceptedInv(q, b)
    BY <1>4, <1>a DEF HandshakeInv
  <2> QED
    BY <2>1, <1>c, <1>e, AcceptedKept
<1> QED
  BY <1>1, <1>2, <1>3, <1>4 DEF HandshakeInv

\* A service takes a connection that nobody has taken.
LEMMA TakeConnectionKeeps ==
  ASSUME HandshakeInv, NEW n \in Node, NEW r \in Run, TakeConnection(n, r)
  PROVE  HandshakeInv'
<1>a. /\ HandshakeTypeOK /\ UNCHANGED <<up, down, accepted>> /\ RunInv(r)
      /\ svc[n].pc = "accept" /\ svc[n].handled < MaxConnections
      /\ worker[r].node = n /\ ~worker[r].taken
  BY DEF HandshakeInv, TakeConnection, Waiting
<1>b. worker[r].pc \in {"hello", "failed"} /\ up[r] = <<Hello(r)>> /\ down[r] = <<>>
  BY <1>a DEF RunInv
<1>c. PICK w \in WorkerState : w = [worker[r] EXCEPT !.taken = TRUE]
  BY Zenon, HandshakeTyped DEF WorkerState
<1>d. /\ w.pc = worker[r].pc /\ w.node = n /\ w.taken
      /\ w.challenge = worker[r].challenge
  BY <1>a, <1>c, HandshakeTyped DEF WorkerState
<1>e. worker' = [worker EXCEPT ![r] = w]
  BY <1>c DEF TakeConnection
<1>f. /\ worker'[r] = w /\ \A q \in Run : q # r => worker'[q] = worker[q]
      /\ worker' \in [Run -> WorkerState]
  BY <1>e, HandshakeTyped
<1>g. PICK v \in ServiceState : v = [svc[n] EXCEPT !.pc = "hello", !.run = r]
  BY Zenon, HandshakeTyped DEF ServiceState
<1>h. v.pc = "hello" /\ v.run = r /\ v.handled = svc[n].handled
  BY <1>g, HandshakeTyped DEF ServiceState
<1>i. svc' = [svc EXCEPT ![n] = v]
  BY Zenon, <1>g DEF TakeConnection
<1>j. /\ svc'[n] = v /\ \A m \in Node : m # n => svc'[m] = svc[m]
      /\ svc' \in [Node -> ServiceState]
  BY <1>i, HandshakeTyped
<1>1. HandshakeTypeOK'
  BY <1>a, <1>f, <1>j DEF HandshakeTypeOK
<1>2. ASSUME NEW q \in Run PROVE RunInv(q)'
  <2>1. CASE q = r
    BY Zenon, <2>1, <1>a, <1>b, <1>d, <1>f DEF RunInv
  <2>2. CASE q # r
    <3>1. RunInv(q)
      BY DEF HandshakeInv
    <3> QED
      BY <2>2, <3>1, <1>a, <1>f, RunKept
  <2> QED
    BY Zenon, <2>1, <2>2
<1>3. ASSUME NEW m \in Node PROVE ServiceInv(m)'
  <2>1. CASE m = n
    BY Zenon, <2>1, <1>a, <1>b, <1>d, <1>f, <1>h, <1>j DEF ServiceInv
  <2>2. CASE m # n
    <3>1. ServiceInv(m)
      BY Zenon DEF HandshakeInv
    <3>2. svc[m].pc \in {"hello", "auth", "session"} => svc[m].run \in Run /\ svc[m].run # r
      BY <3>1, <1>a DEF ServiceInv
    <3> QED
      BY <2>2, <3>1, <3>2, <1>a, <1>f, <1>j, ServiceKept
  <2> QED
    BY Zenon, <2>1, <2>2
<1>4. ASSUME NEW q \in Run, NEW b \in AcceptMessage, <<q, b>> \in accepted'
      PROVE  AcceptedInv(q, b)'
  <2>1. AcceptedInv(q, b)
    BY <1>4, <1>a DEF HandshakeInv
  <2> QED
    BY <2>1, <1>d, <1>f, AcceptedKept
<1> QED
  BY <1>1, <1>2, <1>3, <1>4 DEF HandshakeInv

\* The loop goes on after a handshake.
LEMMA NextConnectionType ==
  ASSUME HandshakeInv, NEW n \in Node, svc[n].handled < MaxConnections, NEW A \in SUBSET Key
  PROVE  /\ NextConnection(svc[n], A) \in ServiceState
         /\ NextConnection(svc[n], A).pc = "accept"
<1>1. /\ svc[n] \in ServiceState /\ svc[n].handled \in 0 .. MaxConnections
      /\ svc[n].handled + 1 \in 0 .. MaxConnections
  <2>1. svc[n] \in ServiceState /\ svc[n].handled \in 0 .. MaxConnections
    BY HandshakeTyped DEF ServiceState
  <2> QED
    BY <2>1, ConnectionsAssumption
<1> QED
  BY Zenon, <1>1 DEF NextConnection, ServiceState

\* A service that gives up a handshake, or ends, leaves the others alone.
LEMMA ServiceRests ==
  ASSUME HandshakeInv, NEW n \in Node, NEW v \in ServiceState, v.pc \in {"accept", "ended"},
         svc' = [svc EXCEPT ![n] = v], UNCHANGED <<worker, up, down, accepted>>
  PROVE  HandshakeInv'
<1>a. /\ svc'[n] = v /\ \A m \in Node : m # n => svc'[m] = svc[m]
      /\ svc' \in [Node -> ServiceState]
  BY HandshakeTyped
<1>1. HandshakeTypeOK'
  BY <1>a DEF HandshakeInv, HandshakeTypeOK
<1>2. ASSUME NEW q \in Run PROVE RunInv(q)'
  BY RunKept DEF HandshakeInv
<1>3. ASSUME NEW m \in Node PROVE ServiceInv(m)'
  <2>1. CASE m = n
    BY <2>1, <1>a DEF ServiceInv
  <2>2. CASE m # n
    BY <2>2, <1>a, ServiceKept DEF HandshakeInv
  <2> QED
    BY Zenon, <2>1, <2>2
<1>4. ASSUME NEW q \in Run, NEW b \in AcceptMessage, <<q, b>> \in accepted'
      PROVE  AcceptedInv(q, b)'
  BY <1>4, AcceptedKept DEF HandshakeInv
<1> QED
  BY <1>1, <1>2, <1>3, <1>4 DEF HandshakeInv

\* A read fails, the session is released, or the listener fails.
LEMMA RestKeeps ==
  ASSUME HandshakeInv, NEW n \in Node, ReadFails(n) \/ ReleaseSession(n) \/ ListenerFails(n)
  PROVE  HandshakeInv'
<1>a. svc[n].active \in SUBSET Key /\ svc[n].active \ {svc[n].hello.key} \in SUBSET Key
  BY Zenon, HandshakeTyped DEF ServiceState
<1>b. svc[n].pc \in {"hello", "auth", "session"} => svc[n].handled < MaxConnections
  BY DEF HandshakeInv, ServiceInv
<1>1. CASE ReadFails(n)
  BY Zenon, <1>1, <1>a, <1>b, NextConnectionType, ServiceRests DEF ReadFails
<1>2. CASE ReleaseSession(n)
  BY Zenon, <1>2, <1>a, <1>b, NextConnectionType, ServiceRests DEF ReleaseSession
<1>3. CASE ListenerFails(n)
  <2>1. PICK v \in ServiceState : v = [svc[n] EXCEPT !.pc = "ended"]
    BY Zenon, HandshakeTyped DEF ServiceState
  <2>2. v.pc = "ended"
    BY <2>1, HandshakeTyped DEF ServiceState
  <2>3. svc' = [svc EXCEPT ![n] = v] /\ UNCHANGED <<worker, up, down, accepted>>
    BY <1>3, <2>1 DEF ListenerFails
  <2> QED
    BY Zenon, <2>2, <2>3, ServiceRests
<1> QED
  BY <1>1, <1>2, <1>3

\* A service reads the hello and challenges the worker, or goes on.
LEMMA ReadHelloKeeps ==
  ASSUME HandshakeInv, NEW n \in Node, ReadHello(n)
  PROVE  HandshakeInv'
<1>a. /\ HandshakeTypeOK /\ svc[n].pc = "hello" /\ ServiceInv(n)
      /\ UNCHANGED <<worker, accepted>>
  BY DEF HandshakeInv, ReadHello
<1>b. PICK r \in Run : r = svc[n].run
  BY <1>a DEF ServiceInv
<1>c. /\ svc[n].handled < MaxConnections /\ worker[r].node = n /\ worker[r].taken
      /\ worker[r].pc \in {"hello", "failed"}
      /\ up[r] = <<Hello(r)>> /\ down[r] = <<>>
  BY <1>a, <1>b DEF ServiceInv
<1>d. PICK hello \in HelloMessage :
        /\ hello = Hello(r) /\ hello.key = KeyOf[r] /\ Head(up[r]) = hello
        /\ Tail(up[r]) = <<>> /\ <<>> \in Seq(HelloMessage \cup AuthMessage)
  <2>1. Hello(r) \in HelloMessage /\ Hello(r).key = KeyOf[r]
    BY PairingAssumption DEF Hello, HelloMessage
  <2> QED
    BY <2>1, <1>c, OneMessage
<1>e. svc[n].handled \in Nat /\ svc[n].active \in SUBSET Key
  BY HandshakeTyped, ConnectionsAssumption DEF ServiceState
<1>f. PICK c \in ChallengeMessage : c = Challenge(n, hello, svc[n].handled)
  BY <1>e, ServiceMessages
<1>g. up' = [up EXCEPT ![r] = Tail(@)]
  BY <1>b DEF ReadHello
<1>h. /\ up'[r] = <<>> /\ \A q \in Run : q # r => up'[q] = up[q]
      /\ up' \in [Run -> Seq(HelloMessage \cup AuthMessage)]
  BY Zenon, <1>a, <1>d, <1>g DEF HandshakeTypeOK
<1>i. PICK v \in ServiceState :
        /\ svc' = [svc EXCEPT ![n] = v]
        /\ \/ /\ v.pc = "accept" /\ UNCHANGED down
           \/ /\ v.pc = "auth" /\ v.run = r /\ v.hello = hello
              /\ v.handled = svc[n].handled /\ KeyOf[r] \in Allowed[n]
              /\ down' = [down EXCEPT ![r] = <<c>>]
  <2>1. CASE /\ svc' = [svc EXCEPT ![n] = NextConnection(@, @.active)]
             /\ UNCHANGED down
    BY Zenon, <2>1, <1>c, <1>e, NextConnectionType
  <2>2. CASE /\ svc' = [svc EXCEPT ![n].pc = "auth", ![n].hello = hello]
             /\ down' = [down EXCEPT ![r] = Append(@, c)] /\ IsAllowed(n, hello)
    <3>1. PICK v \in ServiceState : v = [svc[n] EXCEPT !.pc = "auth", !.hello = hello]
      BY Zenon, HandshakeTyped DEF ServiceState
    <3>2. /\ v.pc = "auth" /\ v.run = r /\ v.hello = hello
          /\ v.handled = svc[n].handled
      BY <3>1, <1>b, HandshakeTyped DEF ServiceState
    <3>3. svc' = [svc EXCEPT ![n] = v]
      BY Zenon, <2>2, <3>1
    <3>4. Append(down[r], c) = <<c>>
      BY <1>c, OneMessage
    <3> QED
      BY Zenon, <2>2, <3>2, <3>3, <3>4, <1>d DEF IsAllowed
  <2> QED
    BY <2>1, <2>2, <1>b, <1>d, <1>f DEF ReadHello
<1>j. /\ svc'[n] = v /\ \A m \in Node : m # n => svc'[m] = svc[m]
      /\ svc' \in [Node -> ServiceState]
  BY <1>i, HandshakeTyped
<1>k. /\ down' \in [Run -> Seq(ChallengeMessage \cup AcceptMessage)]
      /\ down'[r] \in {<<>>, <<c>>} /\ (v.pc = "auth" => down'[r] = <<c>>)
      /\ \A q \in Run : q # r => down'[q] = down[q]
  <2>1. <<c>> \in Seq(ChallengeMessage \cup AcceptMessage)
    BY OneMessage
  <2> QED
    BY Zenon, <2>1, <1>a, <1>c, <1>i DEF HandshakeTypeOK
<1>1. HandshakeTypeOK'
  BY Zenon, <1>a, <1>h, <1>j, <1>k DEF HandshakeTypeOK
<1>2. ASSUME NEW q \in Run PROVE RunInv(q)'
  <2>1. CASE q = r
    BY Zenon, <2>1, <1>a, <1>c, <1>h, <1>k DEF RunInv
  <2>2. CASE q # r
    <3>1. RunInv(q)
      BY DEF HandshakeInv
    <3> QED
      BY <2>2, <3>1, <1>a, <1>h, <1>k, RunKept
  <2> QED
    BY <2>1, <2>2
<1>3. ASSUME NEW m \in Node PROVE ServiceInv(m)'
  <2>1. CASE m = n
    <3>1. <<c>> # <<>>
      BY Zenon, OneMessage
    <3>2. CASE v.pc = "accept"
      BY Zenon, <2>1, <3>2, <1>j DEF ServiceInv
    <3>3. CASE v.pc = "auth"
      <4>1. /\ v.run = r /\ v.hello = Hello(r) /\ v.handled = svc[n].handled
            /\ KeyOf[r] \in Allowed[n] /\ down'[r] # <<>>
        BY Zenon, <3>1, <3>3, <1>d, <1>i, <1>k
      <4> QED
        BY <2>1, <3>3, <4>1, <1>a, <1>c, <1>h, <1>j DEF ServiceInv
    <3> QED
      BY <3>2, <3>3, <1>i
  <2>2. CASE m # n
    <3>1. ServiceInv(m)
      BY DEF HandshakeInv
    <3>2. svc[m].pc \in {"hello", "auth", "session"} => svc[m].run \in Run /\ svc[m].run # r
      BY Zenon, <2>2, <3>1, <1>a, <1>b, OneService DEF ServiceInv
    <3> QED
      BY Zenon, <2>2, <3>1, <3>2, <1>a, <1>h, <1>j, <1>k, ServiceKept
  <2> QED
    BY Zenon, <2>1, <2>2
<1>4. ASSUME NEW q \in Run, NEW b \in AcceptMessage, <<q, b>> \in accepted'
      PROVE  AcceptedInv(q, b)'
  BY <1>4, <1>a, AcceptedKept DEF HandshakeInv
<1> QED
  BY <1>1, <1>2, <1>3, <1>4 DEF HandshakeInv

\* A service reads the answer to its challenge and accepts it, or goes on.  The
\* signature names the challenge, so the worker took the one of this handshake.
LEMMA ReadAuthKeeps ==
  ASSUME HandshakeInv, NEW n \in Node, ReadAuth(n)
  PROVE  HandshakeInv'
<1>a. /\ HandshakeTypeOK /\ svc[n].pc = "auth" /\ ServiceInv(n)
      /\ up[svc[n].run] # <<>> /\ UNCHANGED worker
  BY Zenon DEF HandshakeInv, ReadAuth
<1>b. PICK r \in Run : r = svc[n].run
  BY Zenon, <1>a DEF ServiceInv
<1>c. /\ svc[n].handled < MaxConnections /\ worker[r].node = n /\ worker[r].taken
      /\ worker[r].pc \in {"auth", "failed"} /\ (worker[r].pc = "auth" => down[r] = <<>>)
      /\ worker[r].challenge \in ChallengeMessage
      /\ up[r] = <<Auth(r)>> /\ svc[n].hello = Hello(r) /\ KeyOf[r] \in Allowed[n]
  BY Zenon, <1>a, <1>b DEF ServiceInv
<1>d. PICK sig \in AuthMessage :
        /\ sig = Auth(r) /\ Head(up[r]) = sig
        /\ Tail(up[r]) = <<>> /\ <<>> \in Seq(HelloMessage \cup AuthMessage)
  <2>1. Auth(r) \in AuthMessage
    BY <1>c, RunMessages DEF Auth
  <2> QED
    BY <2>1, <1>c, OneMessage
<1>e. svc[n].handled \in Nat /\ svc[n].active \in SUBSET Key /\ KeyOf[r] \in Key
  BY HandshakeTyped, ConnectionsAssumption, PairingAssumption DEF ServiceState
<1>f. PICK c \in ChallengeMessage : c = Challenge(n, Hello(r), svc[n].handled)
  BY <1>e, ServiceMessages, RunMessages, <1>c
<1>g. PICK accept \in AcceptMessage :
        /\ accept = sign_node_accept(n, Hello(r), c, sig)
        /\ accept.node = n /\ accept.hello = Hello(r) /\ accept.over = c
  <2>1. Hello(r) \in HelloMessage
    BY RunMessages, <1>c
  <2>2. sign_node_accept(n, Hello(r), c, sig) \in AcceptMessage
    BY <2>1 DEF sign_node_accept, AcceptMessage
  <2>3. /\ sign_node_accept(n, Hello(r), c, sig).node = n
        /\ sign_node_accept(n, Hello(r), c, sig).hello = Hello(r)
        /\ sign_node_accept(n, Hello(r), c, sig).over = c
    BY DEF sign_node_accept
  <2> QED
    BY <2>2, <2>3
<1>h. up' = [up EXCEPT ![r] = Tail(@)]
  BY <1>b DEF ReadAuth
<1>i. /\ up'[r] = <<>> /\ \A q \in Run : q # r => up'[q] = up[q]
      /\ up' \in [Run -> Seq(HelloMessage \cup AuthMessage)]
  BY Zenon, <1>a, <1>d, <1>h DEF HandshakeTypeOK
<1>j. PICK v \in ServiceState :
        /\ svc' = [svc EXCEPT ![n] = v]
        /\ \/ v.pc = "accept" /\ UNCHANGED <<down, accepted>>
           \/ /\ v.pc = "session" /\ v.run = r /\ v.hello = Hello(r)
              /\ v.handled = svc[n].handled /\ worker[r].challenge = c
              /\ down' = [down EXCEPT ![r] = Append(@, accept)]
              /\ accepted' = accepted \cup {<<r, accept>>}
  <2>1. CASE /\ svc' = [svc EXCEPT ![n] = NextConnection(@, @.active)]
             /\ UNCHANGED <<down, accepted>>
    BY Zenon, <2>1, <1>c, <1>e, NextConnectionType
  <2>2. CASE /\ svc' = [svc EXCEPT ![n].pc = "session", ![n].active = @ \cup {KeyOf[r]}]
             /\ down' = [down EXCEPT ![r] = Append(@, accept)]
             /\ accepted' = accepted \cup {<<r, accept>>}
             /\ sig = sign_worker_auth(KeyOf[r], Hello(r), c)
    <3>1. PICK v \in ServiceState :
            v = [svc[n] EXCEPT !.pc = "session", !.active = @ \cup {KeyOf[r]}]
      BY Zenon, <1>e, HandshakeTyped DEF ServiceState
    <3>2. /\ v.pc = "session" /\ v.run = r /\ v.hello = Hello(r)
          /\ v.handled = svc[n].handled
      BY <3>1, <1>b, <1>c, HandshakeTyped DEF ServiceState
    <3>3. svc' = [svc EXCEPT ![n] = v]
      BY Zenon, <2>2, <3>1
    <3>4. worker[r].challenge = c
      <4>1. sign_worker_auth(KeyOf[r], Hello(r), worker[r].challenge)
              = sign_worker_auth(KeyOf[r], Hello(r), c)
        BY Zenon, <2>2, <1>d DEF Auth
      <4> QED
        BY <4>1, <1>c, RunMessages
    <3> QED
      BY Zenon, <2>2, <3>2, <3>3, <3>4
  <2>3. /\ Hello(r).key = KeyOf[r] /\ svc[n].run = r /\ svc[n].hello.key = KeyOf[r]
        /\ Challenge(n, svc[n].hello, svc[n].handled) = c /\ Head(up[r]) = sig
        /\ sign_node_accept(n, svc[n].hello, c, sig) = accept
    BY RunMessages, <1>b, <1>c, <1>d, <1>f, <1>g
  <2>4. \/ /\ svc' = [svc EXCEPT ![n] = NextConnection(@, @.active)]
           /\ UNCHANGED <<down, accepted>>
        \/ /\ svc' = [svc EXCEPT ![n].pc = "session", ![n].active = @ \cup {KeyOf[r]}]
           /\ down' = [down EXCEPT ![r] = Append(@, accept)]
           /\ accepted' = accepted \cup {<<r, accept>>}
           /\ sig = sign_worker_auth(KeyOf[r], Hello(r), c)
    BY Zenon, <2>3, <1>b, <1>c DEF ReadAuth, verify_worker_auth, session_id
  <2> QED
    BY Zenon, <2>1, <2>2, <2>4
<1>k. /\ svc'[n] = v /\ \A m \in Node : m # n => svc'[m] = svc[m]
      /\ svc' \in [Node -> ServiceState]
  BY <1>j, HandshakeTyped
<1>l. /\ down' \in [Run -> Seq(ChallengeMessage \cup AcceptMessage)]
      /\ \A q \in Run : q # r => down'[q] = down[q]
      /\ worker[r].pc = "auth" => \/ down'[r] = <<>>
                                  \/ down'[r] = <<accept>> /\ <<r, accept>> \in accepted'
  <2>1. Append(down[r], accept) \in Seq(ChallengeMessage \cup AcceptMessage)
    BY HandshakeTyped, ReadWrite
  <2>2. Append(<<>>, accept) = <<accept>>
    BY OneMessage
  <2> QED
    BY Zenon, <2>1, <2>2, <1>a, <1>c, <1>j DEF HandshakeTypeOK
<1>m. accepted \subseteq accepted' /\ accepted' \subseteq Run \X AcceptMessage
  BY <1>a, <1>j DEF HandshakeTypeOK
<1>1. HandshakeTypeOK'
  BY Zenon, <1>a, <1>i, <1>k, <1>l, <1>m DEF HandshakeTypeOK
<1>2. ASSUME NEW q \in Run PROVE RunInv(q)'
  <2>1. RunInv(q)
    BY DEF HandshakeInv
  <2>2. CASE q = r
    BY Zenon, <2>1, <2>2, <1>a, <1>c, <1>l DEF RunInv
  <2>3. CASE q # r
    BY Zenon, <2>1, <2>3, <1>a, <1>i, <1>l, <1>m, RunKept
  <2> QED
    BY <2>2, <2>3
<1>3. ASSUME NEW m \in Node PROVE ServiceInv(m)'
  <2>1. CASE m = n
    BY Zenon, <2>1, <1>a, <1>c, <1>j, <1>k DEF ServiceInv
  <2>2. CASE m # n
    <3>1. ServiceInv(m)
      BY Zenon DEF HandshakeInv
    <3>2. svc[m].pc \in {"hello", "auth", "session"} => svc[m].run \in Run /\ svc[m].run # r
      BY <2>2, <3>1, <1>a, <1>b, OneService DEF ServiceInv
    <3> QED
      BY Zenon, <2>2, <3>1, <3>2, <1>a, <1>i, <1>k, <1>l, ServiceKept
  <2> QED
    BY Zenon, <2>1, <2>2
<1>4. ASSUME NEW q \in Run, NEW b \in AcceptMessage, <<q, b>> \in accepted'
      PROVE  AcceptedInv(q, b)'
  <2>1. CASE <<q, b>> \in accepted
    BY Zenon, <2>1, <1>a, AcceptedKept DEF HandshakeInv
  <2>2. CASE <<q, b>> \notin accepted
    <3>0. /\ accepted' = accepted \cup {<<r, accept>>} \/ accepted' = accepted
          /\ accepted' # accepted => worker[r].challenge = c
      BY Zenon, <1>j
    <3>1. q = r /\ b = accept /\ worker[r].challenge = c
      BY <2>2, <1>4, <3>0
    <3> QED
      BY <3>1, <1>a, <1>c, <1>g DEF AcceptedInv
  <2> QED
    BY Zenon, <2>1, <2>2
<1> QED
  BY Zenon, <1>1, <1>2, <1>3, <1>4 DEF HandshakeInv

-----------------------------------------------------------------------------
(* The theorems.                                                            *)

\* The invariant holds when the services start.
LEMMA HandshakeInitInv == HandshakeInit => HandshakeInv
<1> SUFFICES ASSUME HandshakeInit PROVE HandshakeInv
  BY Zenon
<1>1. HandshakeTypeOK
  BY SMTT(30), ConnectionsAssumption DEF HandshakeInit, HandshakeTypeOK, WorkerState, ServiceState
<1>2. (\A r \in Run : RunInv(r)) /\ Absent \notin Node
  BY Zenon, AbsentAssumption DEF HandshakeInit, RunInv
<1>3. \A n \in Node : ServiceInv(n)
  BY DEF HandshakeInit, ServiceInv
<1>4. accepted = {}
  BY DEF HandshakeInit
<1> QED
  BY <1>1, <1>2, <1>3, <1>4 DEF HandshakeInv

\* No step of a worker or of a service breaks it.
LEMMA HandshakeNextInv == HandshakeInv /\ [HandshakeNext]_handshakeVars => HandshakeInv'
<1> SUFFICES ASSUME HandshakeInv, [HandshakeNext]_handshakeVars PROVE HandshakeInv'
  OBVIOUS
<1>1. CASE HandshakeNext
  BY <1>1, ConnectKeeps, ReadChallengeKeeps, ReadAcceptKeeps, WorkerFailsKeeps,
     TakeConnectionKeeps, ReadHelloKeeps, ReadAuthKeeps, RestKeeps
     DEF HandshakeNext, ServiceStep
<1>2. CASE UNCHANGED handshakeVars
  <2>1. HandshakeTypeOK'
    BY <1>2 DEF handshakeVars, HandshakeInv, HandshakeTypeOK
  <2>2. \A r \in Run : RunInv(r)'
    BY Zenon, <1>2, RunKept DEF handshakeVars, HandshakeInv
  <2>3. \A n \in Node : ServiceInv(n)'
    BY Zenon, <1>2, ServiceKept DEF handshakeVars, HandshakeInv
  <2>4. \A r \in Run, a \in AcceptMessage : <<r, a>> \in accepted' => AcceptedInv(r, a)'
    BY <1>2, AcceptedKept DEF handshakeVars, HandshakeInv
  <2> QED
    BY <2>1, <2>2, <2>3, <2>4 DEF HandshakeInv
<1> QED
  BY <1>1, <1>2

\* Whatever the interleaving of the handshakes, and wherever they are given up,
\* a connection holds what its two ends expect next and nothing of an earlier
\* handshake.
THEOREM HandshakeInvariant == Handshakes => []HandshakeInv
BY HandshakeInitInv, HandshakeNextInv, PTL DEF Handshakes

\* accept_worker_handshake and initiate_worker_handshake agree: a worker with a
\* session shares its SessionID with the node it is paired with, a node accepts
\* only allowed workers that answered its own challenge, and no two sessions
\* have one SessionID.
THEOREM EndsAgree == Handshakes => []BothEndsAgree
<1>1. HandshakeInv => BothEndsAgree
  <2> SUFFICES ASSUME HandshakeInv PROVE BothEndsAgree
    OBVIOUS
  <2>1. HandshakeTypeOK /\ accepted \subseteq Run \X AcceptMessage
    BY Zenon DEF HandshakeInv, HandshakeTypeOK
  <2>2. WorkersAgree
    BY DEF HandshakeInv, RunInv, WorkersAgree
  <2>3. ASSUME NEW p \in accepted
        PROVE  /\ p[2].hello.key \in Allowed[p[2].node] /\ KeyOf[p[1]] = p[2].hello.key
               /\ worker[p[1]].challenge = p[2].over
               /\ p[2].hello.nonce = p[1] /\ p = <<p[1], p[2]>>
    <3>1. p[1] \in Run /\ p[2] \in AcceptMessage /\ p = <<p[1], p[2]>>
      BY <2>1
    <3>2. AcceptedInv(p[1], p[2])
      BY <3>1 DEF HandshakeInv
    <3> QED
      BY <3>1, <3>2 DEF AcceptedInv, Hello
  <2>4. NodesAgree
    BY SMTT(30), <2>3 DEF NodesAgree
  <2> QED
    BY <2>1, <2>2, <2>4 DEF BothEndsAgree
<1> QED
  BY <1>1, HandshakeInvariant, PTL

-----------------------------------------------------------------------------
(* The registry of peer sessions.                                           *)

\* Some step closes the ends of node n of the connections in `closed', and ends
\* the handshakes of n in `done'.
Moved(n, closed, done) ==
  /\ conn' \in [Conns -> Connection]
  /\ \A d \in Conns :
       /\ conn'[d].src = conn[d].src /\ conn'[d].dst = conn[d].dst
       /\ conn'[d].up = IF d \in closed THEN conn[d].up \ {n} ELSE conn[d].up
       /\ conn'[d].shaking = IF d \in done THEN conn[d].shaking \ {n} ELSE conn[d].shaking

\* The registries of a node.
Rows == [Nodes -> Entry \cup {None}]

-----------------------------------------------------------------------------
\* The parts of the type invariant.
LEMMA Typed ==
  ASSUME RegistryTypeOK
  PROVE  /\ conn \in [Conns -> Connection]
         /\ \A d \in Conns : /\ conn[d].up \subseteq Nodes /\ conn[d].shaking \subseteq Nodes
                             /\ conn[d].up \cup conn[d].shaking \subseteq {conn[d].src, conn[d].dst}
         /\ reg \in [Nodes -> [Nodes -> Entry \cup {None}]]
         /\ \A n \in Nodes : reg[n] \in [Nodes -> Entry \cup {None}]
         /\ \A n, m \in Nodes :
              /\ reg[n][m] \in Entry \cup {None}
              /\ reg[n][m] # None => reg[n][m].c \in Conns /\ reg[n][m].addr \in Nodes \cup {None}
         /\ None \notin Nodes /\ None \notin Entry
<1>1. conn \in [Conns -> Connection] /\ reg \in [Nodes -> [Nodes -> Entry \cup {None}]]
  BY DEF RegistryTypeOK
<1>2. \A d \in Conns : conn[d].up \subseteq Nodes /\ conn[d].shaking \subseteq Nodes
  BY <1>1 DEF Connection
<1>3. \A n \in Nodes : reg[n] \in [Nodes -> Entry \cup {None}]
  BY <1>1
<1>4. \A n, m \in Nodes : reg[n][m] \in Entry \cup {None}
  BY <1>3
<1>5. \A n, m \in Nodes : reg[n][m] # None =>
        reg[n][m].c \in Conns /\ reg[n][m].addr \in Nodes \cup {None}
  BY <1>4 DEF Entry
<1>6. None \notin Nodes /\ None \notin Entry
  BY RegistryAssumption
<1> QED
  BY Zenon, <1>1, <1>2, <1>3, <1>4, <1>5, <1>6 DEF RegistryTypeOK

\* An entry names the connection to the node it is filed under.
LEMMA EntryEnds ==
  ASSUME RegistryTypeOK, NEW p \in Nodes, NEW q \in Nodes, reg[p][q] # None
  PROVE  /\ reg[p][q].c \in Conns /\ p # q
         /\ {conn[reg[p][q].c].src, conn[reg[p][q].c].dst} = {p, q}
<1>1. reg[p][q].c \in Conns
  BY Typed
<1> QED
  BY Zenon, <1>1 DEF RegistryTypeOK

\* Live sessions are a finite set of nodes.
LEMMA LiveFinite ==
  ASSUME NEW cs, NEW r, NEW n
  PROVE  /\ live(cs, r, n) \subseteq Nodes /\ IsFiniteSet(live(cs, r, n))
         /\ Cardinality(live(cs, r, n)) \in Nat
<1>1. live(cs, r, n) \subseteq Nodes
  BY DEF live
<1>2. IsFiniteSet(live(cs, r, n))
  BY <1>1, FS_Subset, RegistryAssumption
<1> QED
  BY <1>1, <1>2, FS_CardinalityType

\* Nothing was added to what is live, so the limit still holds.
LEMMA FewerLive ==
  ASSUME NEW S \in SUBSET Nodes, NEW T \in SUBSET S, Cardinality(S) <= MAX_LIVE_DUPLEX_PEERS
  PROVE  Cardinality(T) <= MAX_LIVE_DUPLEX_PEERS
<1>1. IsFiniteSet(S)
  BY Zenon, FS_Subset, RegistryAssumption
<1>2. Cardinality(T) <= Cardinality(S) /\ IsFiniteSet(T)
  BY <1>1, FS_Subset
<1>3. Cardinality(S) \in Nat /\ Cardinality(T) \in Nat
  BY <1>1, <1>2, FS_CardinalityType
<1> QED
  BY <1>2, <1>3, RegistryAssumption

\* Where the limit is not reached one more session fits.
LEMMA OneMoreLive ==
  ASSUME NEW S \in SUBSET Nodes, NEW m \in Nodes, NEW T \in SUBSET (S \cup {m}),
         Cardinality(S) < MAX_LIVE_DUPLEX_PEERS
  PROVE  Cardinality(T) <= MAX_LIVE_DUPLEX_PEERS
<1>1. IsFiniteSet(S) /\ Cardinality(S) \in Nat
  BY Zenon, FS_Subset, FS_CardinalityType, RegistryAssumption
<1>2. /\ IsFiniteSet(S \cup {m})
      /\ Cardinality(S \cup {m}) = IF m \in S THEN Cardinality(S) ELSE Cardinality(S) + 1
  BY <1>1, FS_AddElement
<1>3. Cardinality(S \cup {m}) <= MAX_LIVE_DUPLEX_PEERS
  BY SMTT(30), <1>1, <1>2, RegistryAssumption
<1> QED
  BY <1>3, FewerLive

\* Closing an end, or ending a handshake, leaves the two ends as they are.
LEMMA MovedConnections ==
  ASSUME RegistryTypeOK, NEW n \in Nodes, NEW closed, NEW done, Moved(n, closed, done)
  PROVE  /\ \A d \in Conns :
              /\ conn'[d].up \cup conn'[d].shaking \subseteq {conn'[d].src, conn'[d].dst}
              /\ conn'[d].up \cup conn'[d].shaking # {} =>
                  conn'[d].src \in Nodes /\ conn'[d].dst \in Nodes /\ conn'[d].src # conn'[d].dst
         /\ \A d \in Conns : \A p : OtherEnd(conn', d, p) = OtherEnd(conn, d, p)
<1>1. ASSUME NEW d \in Conns
      PROVE  /\ conn'[d].up \cup conn'[d].shaking \subseteq {conn'[d].src, conn'[d].dst}
             /\ conn'[d].up \cup conn'[d].shaking # {} =>
                  conn'[d].src \in Nodes /\ conn'[d].dst \in Nodes /\ conn'[d].src # conn'[d].dst
  <2>1. /\ conn[d].up \cup conn[d].shaking \subseteq {conn[d].src, conn[d].dst}
        /\ conn[d].up \cup conn[d].shaking # {} =>
             conn[d].src \in Nodes /\ conn[d].dst \in Nodes /\ conn[d].src # conn[d].dst
    BY DEF RegistryTypeOK
  <2>2. /\ conn'[d].up \cup conn'[d].shaking \subseteq conn[d].up \cup conn[d].shaking
        /\ conn'[d].src = conn[d].src /\ conn'[d].dst = conn[d].dst
    BY Zenon DEF Moved
  <2> QED
    BY Zenon, <2>1, <2>2
<1>2. \A d \in Conns : \A p : OtherEnd(conn', d, p) = OtherEnd(conn, d, p)
  BY Zenon DEF Moved, OtherEnd
<1> QED
  BY Zenon, <1>1, <1>2

-----------------------------------------------------------------------------
\* A step that ends sessions of node n, and leaves the registry alone, keeps the
\* invariant when it leaves the handshakes alone.
LEMMA CloseKeeps ==
  ASSUME RegistryMatchesSessions, NEW n \in Nodes, NEW c \in Conns,
         conn' = CloseEnd(conn, c, n), UNCHANGED <<reg, known, waiting>>
  PROVE  RegistryMatchesSessions'
<1>a. RegistryTypeOK /\ NoForgottenSession /\ LiveLimit
  BY DEF RegistryMatchesSessions
<1>t. /\ conn \in [Conns -> Connection] /\ conn[c] \in Connection
      /\ conn[c].up \ {n} \in SUBSET Nodes
  BY <1>a, Typed
<1>b. PICK k \in Connection : k = [conn[c] EXCEPT !.up = @ \ {n}]
  BY Zenon, <1>t DEF Connection
<1>c. /\ k.src = conn[c].src /\ k.dst = conn[c].dst
      /\ k.up = conn[c].up \ {n} /\ k.shaking = conn[c].shaking
  BY <1>t, <1>b DEF Connection
<1>d. conn' = [conn EXCEPT ![c] = k]
  BY Zenon, <1>b DEF CloseEnd
<1>e. Moved(n, {c}, {})
  <2>1. conn'[c] = k /\ \A d \in Conns : d # c => conn'[d] = conn[d]
    BY <1>t, <1>d
  <2>2. conn' \in [Conns -> Connection]
    BY <1>t, <1>d
  <2> QED
    BY Zenon, <2>1, <2>2, <1>c DEF Moved
<1>1. RegistryTypeOK'
  <2>2. ASSUME NEW p \in Nodes, NEW q \in Nodes, reg'[p][q] # None
        PROVE  {conn'[reg'[p][q].c].src, conn'[reg'[p][q].c].dst} = {p, q} /\ p # q
    <3>1. reg'[p][q] = reg[p][q] /\ reg[p][q] # None
      BY Zenon, <2>2
    <3>2. /\ reg[p][q].c \in Conns /\ p # q
          /\ {conn[reg[p][q].c].src, conn[reg[p][q].c].dst} = {p, q}
      BY Zenon, <3>1, <1>a, EntryEnds
    <3> QED
      BY Zenon, <3>1, <3>2, <1>e DEF Moved
  <2> QED
    <3>1. conn' \in [Conns -> Connection]
      BY Zenon, <1>e DEF Moved
    <3>2. \A d \in Conns :
            /\ conn'[d].up \cup conn'[d].shaking \subseteq {conn'[d].src, conn'[d].dst}
            /\ conn'[d].up \cup conn'[d].shaking # {} =>
                 conn'[d].src \in Nodes /\ conn'[d].dst \in Nodes /\ conn'[d].src # conn'[d].dst
      BY <1>a, <1>e, MovedConnections
    <3> QED
      BY Zenon, <2>2, <3>1, <3>2, <1>a DEF RegistryTypeOK
<1>2. NoForgottenSession'
  <2> SUFFICES ASSUME NEW d \in Conns, NEW p \in conn'[d].up, p \notin conn'[d].shaking
               PROVE  LET e == reg'[p][OtherEnd(conn', d, p)]
                      IN  e # None /\ (e # None => e.c = d)
    BY DEF NoForgottenSession
  <2>1. p \in conn[d].up /\ p \notin conn[d].shaking
    BY Zenon, <1>e DEF Moved
  <2>2. OtherEnd(conn', d, p) = OtherEnd(conn, d, p)
    BY Zenon, <1>a, <1>e, MovedConnections
  <2> QED
    BY <2>1, <2>2, <1>a DEF NoForgottenSession
<1>3. ASSUME NEW p \in Nodes
      PROVE  Cardinality(live(conn', reg'[p], p)) <= MAX_LIVE_DUPLEX_PEERS
  <2>1. live(conn', reg'[p], p) \subseteq live(conn, reg[p], p)
    BY Zenon, <1>a, <1>e, Typed DEF live, is_live, Moved
  <2> QED
    BY <2>1, <1>a, LiveFinite, FewerLive DEF LiveLimit
<1> QED
  BY <1>1, <1>2, <1>3 DEF RegistryMatchesSessions, LiveLimit

\* The node at the other end of a connection.
LEMMA TheOtherEnd ==
  ASSUME RegistryTypeOK, NEW c \in Conns, NEW n \in conn[c].up \cup conn[c].shaking
  PROVE  /\ n \in Nodes /\ OtherEnd(conn, c, n) \in Nodes /\ OtherEnd(conn, c, n) # n
         /\ {conn[c].src, conn[c].dst} = {n, OtherEnd(conn, c, n)}
<1>1. n \in Nodes /\ n \in {conn[c].src, conn[c].dst}
  BY Zenon, Typed
<1>2. conn[c].src \in Nodes /\ conn[c].dst \in Nodes /\ conn[c].src # conn[c].dst
  BY Zenon DEF RegistryTypeOK
<1> QED
  BY <1>1, <1>2 DEF OtherEnd

\* The row of n after the registration of c with peer m, which closes the ends
\* in closed: other entries stay unless they are dead, and the entry of m is
\* the session that stays open.
Refiled(n, c, m, closed, row) ==
    /\ \A q \in Nodes : q # m =>
          row[q] = reg[n][q] \/ (row[q] = None /\ ~is_live(conn, reg[n][q], n))
    /\ row[m] # None => \/ row[m].c = c
                        \/ reg[n][m] # None /\ row[m].c = reg[n][m].c
    /\ c \notin closed => row[m] # None /\ row[m].c = c
    /\ is_live(conn, reg[n][m], n) =>
          reg[n][m].c \in closed \/ (row[m] # None /\ row[m].c = reg[n][m].c)

\* What register_duplex_candidate must do with the entries of node n to forget no
\* session: `row' is its new registry, and m the node at the other end of c.
LEMMA RowKeeps ==
  ASSUME RegistryMatchesSessions, NEW n \in Nodes, NEW c \in Conns, n \in conn[c].shaking,
         NEW m \in Nodes, m = OtherEnd(conn, c, n),
         NEW closed \in SUBSET Conns, Moved(n, closed, {c}),
         NEW row \in Rows, reg' = [reg EXCEPT ![n] = row],
         UNCHANGED <<known, waiting>>,
         Refiled(n, c, m, closed, row),
         Cardinality(live(conn', row, n)) <= MAX_LIVE_DUPLEX_PEERS
  PROVE  RegistryMatchesSessions'
<1>a. RegistryTypeOK /\ NoForgottenSession /\ LiveLimit
  BY Zenon DEF RegistryMatchesSessions
<1>b. /\ reg \in [Nodes -> [Nodes -> Entry \cup {None}]]
      /\ reg'[n] = row /\ \A p \in Nodes : p # n => reg'[p] = reg[p]
      /\ reg' \in [Nodes -> [Nodes -> Entry \cup {None}]]
  <2>1. reg \in [Nodes -> [Nodes -> Entry \cup {None}]] /\ row \in [Nodes -> Entry \cup {None}]
    BY Zenon, <1>a, Typed DEF Rows
  <2> QED
    BY Zenon, <2>1
<1>c. n # m /\ {conn[c].src, conn[c].dst} = {n, m}
  BY <1>a, TheOtherEnd
<1>d. /\ conn' \in [Conns -> Connection]
      /\ \A d \in Conns :
           /\ conn'[d].src = conn[d].src /\ conn'[d].dst = conn[d].dst
           /\ \A p : p \in conn'[d].up <=> p \in conn[d].up /\ (p = n => d \notin closed)
           /\ \A p : p \in conn'[d].shaking <=> p \in conn[d].shaking /\ (p = n => d # c)
  BY Zenon DEF Moved
<1>1. RegistryTypeOK'
  <2>1. \A d \in Conns :
          /\ conn'[d].up \cup conn'[d].shaking \subseteq {conn'[d].src, conn'[d].dst}
          /\ conn'[d].up \cup conn'[d].shaking # {} =>
               conn'[d].src \in Nodes /\ conn'[d].dst \in Nodes /\ conn'[d].src # conn'[d].dst
    BY <1>a, MovedConnections
  <2>2. ASSUME NEW p \in Nodes, NEW q \in Nodes, reg'[p][q] # None
        PROVE  {conn'[reg'[p][q].c].src, conn'[reg'[p][q].c].dst} = {p, q} /\ p # q
    <3>1. CASE p = n /\ q = m /\ row[m].c = c
      BY Zenon, <3>1, <1>b, <1>c, <1>d
    <3>2. CASE reg[p][q] # None /\ reg'[p][q].c = reg[p][q].c
      <4>1. /\ reg[p][q].c \in Conns /\ p # q
            /\ {conn[reg[p][q].c].src, conn[reg[p][q].c].dst} = {p, q}
        BY Zenon, <3>2, <1>a, EntryEnds
      <4> QED
        BY Zenon, <3>2, <4>1, <1>d
    <3>3. p # n => reg[p][q] # None /\ reg'[p][q].c = reg[p][q].c
      BY Zenon, <2>2, <1>b
    <3>4. p = n /\ q # m => reg[p][q] # None /\ reg'[p][q].c = reg[p][q].c
      BY Zenon, <2>2, <1>b DEF Refiled
    <3> QED
      BY Zenon, <2>2, <3>1, <3>2, <3>3, <3>4, <1>b DEF Refiled
  <2> QED
    BY Zenon, <2>1, <2>2, <1>a, <1>b, <1>d DEF RegistryTypeOK
<1>2. NoForgottenSession'
  <2> SUFFICES ASSUME NEW d \in Conns, NEW p \in conn'[d].up, p \notin conn'[d].shaking
               PROVE  LET e == reg'[p][OtherEnd(conn', d, p)]
                      IN  e # None /\ (e # None => e.c = d)
    BY Zenon DEF NoForgottenSession
  <2>1. OtherEnd(conn', d, p) = OtherEnd(conn, d, p)
    BY Zenon, <1>a, MovedConnections
  <2>2. p \in conn[d].up /\ (p = n => d \notin closed)
    BY Zenon, <1>d
  <2>3. CASE p = n /\ d = c
    BY Zenon, <2>1, <2>2, <2>3, <1>b DEF Refiled
  <2>4. CASE ~(p = n /\ d = c)
    <3>1. p \notin conn[d].shaking
      BY Zenon, <2>4, <1>d
    <3>2. PICK k \in Nodes : k = OtherEnd(conn, d, p) /\ p \in Nodes
      BY Zenon, <2>2, <1>a, TheOtherEnd
    <3>3. reg[p][k] # None /\ reg[p][k].c = d
      BY Zenon, <2>2, <3>1, <3>2, <1>a DEF NoForgottenSession
    <3>4. CASE p # n
      BY Zenon, <2>1, <3>2, <3>3, <3>4, <1>b
    <3>5. CASE p = n
      <4>1. is_live(conn, reg[n][k], n)
        BY Zenon, <2>2, <3>3, <3>5 DEF is_live
      <4>2. row[k] # None /\ row[k].c = d
        BY Zenon, <2>2, <3>3, <3>5, <4>1 DEF Refiled
      <4> QED
        BY Zenon, <2>1, <3>2, <3>5, <4>2, <1>b
    <3> QED
      BY Zenon, <3>4, <3>5
  <2> QED
    BY Zenon, <2>3, <2>4
<1>3. ASSUME NEW p \in Nodes
      PROVE  Cardinality(live(conn', reg'[p], p)) <= MAX_LIVE_DUPLEX_PEERS
  <2>1. CASE p = n
    BY Zenon, <2>1, <1>b
  <2>2. CASE p # n
    <3>1. live(conn', reg'[p], p) \subseteq live(conn, reg[p], p)
      <4>1. \A q \in Nodes : reg[p][q] # None => reg[p][q].c \in Conns
        BY Zenon, <1>a, Typed
      <4> QED
        BY Zenon, <2>2, <4>1, <1>b, <1>d DEF live, is_live
    <3> QED
      BY Zenon, <3>1, <1>a, LiveFinite, FewerLive DEF LiveLimit
  <2> QED
    BY Zenon, <2>1, <2>2
<1> QED
  BY Zenon, <1>1, <1>2, <1>3 DEF RegistryMatchesSessions, LiveLimit

\* A new entry.
LEMMA NewEntry ==
  ASSUME NEW c \in Conns, NEW a \in Nodes \cup {None}
  PROVE  /\ [c |-> c, addr |-> a] \in Entry /\ [c |-> c, addr |-> a].c = c
         /\ [c |-> c, addr |-> a] # None
<1>1. [c |-> c, addr |-> a] \in Entry
  BY Zenon DEF Entry
<1> QED
  BY <1>1, RegistryAssumption

\* An end registers its session: elected, dropped, admitted or refused, no
\* session is forgotten and the limit holds.
LEMMA RegisterKeeps ==
  ASSUME RegistryMatchesSessions, NEW n \in Nodes, NEW c \in Conns,
         NEW addr \in Nodes \cup {None}, RegisterAt(n, c, addr)
  PROVE  RegistryMatchesSessions'
<1> DEFINE r == reg[n]
<1>a. /\ RegistryTypeOK /\ NoForgottenSession /\ LiveLimit
      /\ n \in conn[c].shaking /\ UNCHANGED <<known, waiting>>
  BY DEF RegistryMatchesSessions, RegisterAt
<1>u. n \in conn[c].shaking /\ UNCHANGED <<known, waiting>>
  BY Zenon, <1>a
<1>t. /\ conn \in [Conns -> Connection] /\ r \in [Nodes -> Entry \cup {None}]
      /\ \A q \in Nodes : r[q] # None => r[q] \in Entry /\ r[q].c \in Conns
      /\ None \notin Entry
  BY <1>a, Typed
<1>k. PICK k \in Connection :
        /\ [conn EXCEPT ![c].shaking = @ \ {n}] = [conn EXCEPT ![c] = k]
        /\ k.src = conn[c].src /\ k.dst = conn[c].dst
        /\ k.shaking = conn[c].shaking \ {n} /\ k.up = conn[c].up
  <2>1. conn[c] \in Connection /\ conn[c].shaking \ {n} \in SUBSET Nodes
    BY <1>t DEF Connection
  <2>2. PICK k \in Connection : k = [conn[c] EXCEPT !.shaking = @ \ {n}]
    BY Zenon, <2>1 DEF Connection
  <2>3. /\ k.src = conn[c].src /\ k.dst = conn[c].dst
        /\ k.shaking = conn[c].shaking \ {n} /\ k.up = conn[c].up
    BY <2>1, <2>2 DEF Connection
  <2> QED
    BY Zenon, <2>2, <2>3
<1>l. PICK cs \in [Conns -> Connection] : cs = [conn EXCEPT ![c] = k]
  BY Zenon, <1>t
<1>b. \A d \in Conns :
        /\ cs[d].src = conn[d].src /\ cs[d].dst = conn[d].dst /\ cs[d].up = conn[d].up
        /\ cs[d].shaking = IF d \in {c} THEN conn[d].shaking \ {n} ELSE conn[d].shaking
  <2>1. cs[c] = k /\ \A d \in Conns : d # c => cs[d] = conn[d]
    BY <1>l, <1>t
  <2> QED
    BY Zenon, <2>1, <1>k
<1>c. PICK m \in Nodes : m = OtherEnd(conn, c, n) /\ m = OtherEnd(cs, c, n)
  <2>1. OtherEnd(conn, c, n) \in Nodes
    BY <1>a, TheOtherEnd
  <2>2. OtherEnd(cs, c, n) = OtherEnd(conn, c, n)
    BY Zenon, <1>b DEF OtherEnd
  <2> QED
    BY <2>1, <2>2
<1>d. \A q \in Nodes : /\ is_live(cs, r[q], n) <=> is_live(conn, r[q], n)
                       /\ is_live(conn, r[q], n) <=> r[q] # None /\ n \in conn[r[q].c].up
  BY Zenon, <1>b, <1>t DEF is_live
<1>e. /\ Pruned(cs, r, n) \in [Nodes -> Entry \cup {None}]
      /\ \A q \in Nodes : Pruned(cs, r, n)[q] = IF is_live(conn, r[q], n) THEN r[q] ELSE None
  BY <1>d, <1>t DEF Pruned
<1>f. /\ conn' = register_duplex_candidate(cs, r, n, c, addr).cs
      /\ reg' = [reg EXCEPT ![n] = register_duplex_candidate(cs, r, n, c, addr).reg]
  BY Zenon, <1>k, <1>l DEF RegisterAt
<1>g. ASSUME NEW d \in Conns, conn' = CloseEnd(cs, d, n) PROVE Moved(n, {d}, {c})
  <2>1. cs[d] \in Connection /\ cs[d].up \ {n} \in SUBSET Nodes
    BY DEF Connection
  <2>2. PICK w \in Connection : w = [cs[d] EXCEPT !.up = @ \ {n}]
    BY Zenon, <2>1 DEF Connection
  <2>3. /\ w.src = cs[d].src /\ w.dst = cs[d].dst
        /\ w.up = cs[d].up \ {n} /\ w.shaking = cs[d].shaking
    BY <2>1, <2>2 DEF Connection
  <2>4. conn' = [cs EXCEPT ![d] = w]
    BY <2>2, <1>g DEF CloseEnd
  <2>5. /\ conn' \in [Conns -> Connection] /\ conn'[d] = w
        /\ \A b \in Conns : b # d => conn'[b] = cs[b]
    BY Zenon, <2>4
  <2> QED
    BY <2>3, <2>5, <1>b DEF Moved
<1>h. ASSUME NEW row \in [Nodes -> Entry \cup {None}], NEW d \in Conns, Moved(n, {d}, {c}),
             \A q \in Nodes : row[q] # None => r[q] # None /\ (row[q].c = r[q].c \/ is_live(conn, r[q], n))
      PROVE  Cardinality(live(conn', row, n)) <= MAX_LIVE_DUPLEX_PEERS
  <2>1. live(conn', row, n) \subseteq live(conn, r, n)
    <3>1. \A b \in Conns : conn'[b].up \subseteq conn[b].up
      BY Zenon, <1>h DEF Moved
    <3>2. \A q \in Nodes : row[q] # None => row[q].c \in Conns
      BY Zenon, <1>h DEF Entry
    <3> QED
      BY Zenon, <1>h, <1>t, <1>d, <3>1, <3>2 DEF live, is_live
  <2> QED
    BY Zenon, <2>1, <1>a, LiveFinite, FewerLive DEF LiveLimit
<1>1. CASE /\ is_live(cs, r[m], n)
           /\ candidate_should_replace(n, m, Outbound(cs, r[m].c, n), Outbound(cs, c, n))
  <2>1. PICK a \in Nodes \cup {None} : a = IF addr = None THEN r[m].addr ELSE addr
    <3>1. r[m] \in Entry
      BY Zenon, <1>1, <1>d, <1>t
    <3> QED
      BY Zenon, <3>1 DEF Entry
  <2>2. PICK e \in Entry : e = [c |-> c, addr |-> a] /\ e.c = c /\ e # None
    BY Zenon, NewEntry
  <2>r. PICK row \in [Nodes -> Entry \cup {None}] : row = [r EXCEPT ![m] = e]
    BY Zenon, <1>t
  <2>3. row[m] = e /\ \A q \in Nodes : q # m => row[q] = r[q]
    BY <2>r, <1>t
  <2>4. conn' = CloseEnd(cs, r[m].c, n) /\ reg' = [reg EXCEPT ![n] = row]
    BY <1>1, <1>c, <1>f, <2>1, <2>2, <2>r DEF register_duplex_candidate
  <2>5. Moved(n, {r[m].c}, {c}) /\ r[m].c \in Conns
    BY Zenon, <2>4, <1>g, <1>1, <1>d, <1>t
  <2>6. Cardinality(live(conn', row, n)) <= MAX_LIVE_DUPLEX_PEERS
    BY Zenon, <2>2, <2>3, <2>5, <1>1, <1>d, <1>h
  <2>7. Refiled(n, c, m, {r[m].c}, row)
    BY Zenon, <2>2, <2>3, <1>1, <1>d DEF Refiled
  <2>8. {r[m].c} \in SUBSET Conns
    BY <2>5
  <2>9. row \in Rows
    BY DEF Rows
  <2> QED
    BY Zenon, <2>3, <2>4, <2>5, <2>6, <2>7, <2>8, <1>u, <2>9, <1>c, RowKeeps
<1>2. CASE /\ is_live(cs, r[m], n)
           /\ ~candidate_should_replace(n, m, Outbound(cs, r[m].c, n), Outbound(cs, c, n))
  <2>1. r[m] \in Entry /\ r[m].c \in Conns /\ r[m].addr \in Nodes \cup {None}
    BY Zenon, <1>2, <1>d, <1>t DEF Entry
  <2>2. PICK e \in Entry : /\ e = [r[m] EXCEPT !.addr = IF @ = None THEN addr ELSE @]
                           /\ e.c = r[m].c /\ e # None
    <3>1. [r[m] EXCEPT !.addr = IF @ = None THEN addr ELSE @]
            = [c |-> r[m].c, addr |-> IF r[m].addr = None THEN addr ELSE r[m].addr]
      BY <2>1 DEF Entry
    <3>2. (IF r[m].addr = None THEN addr ELSE r[m].addr) \in Nodes \cup {None}
      BY <2>1
    <3> QED
      BY <2>1, <3>1, <3>2, NewEntry
  <2>r. PICK row \in [Nodes -> Entry \cup {None}] : row = [r EXCEPT ![m] = e]
    BY Zenon, <1>t
  <2>3. row[m] = e /\ \A q \in Nodes : q # m => row[q] = r[q]
    BY Zenon, <2>r, <1>t
  <2>4. conn' = CloseEnd(cs, c, n) /\ reg' = [reg EXCEPT ![n] = row]
    BY <1>2, <1>c, <1>f, <2>2, <2>r DEF register_duplex_candidate
  <2>5. Moved(n, {c}, {c}) /\ c \in Conns
    BY Zenon, <2>4, <1>g, <1>2, <1>d, <1>t
  <2>6. Cardinality(live(conn', row, n)) <= MAX_LIVE_DUPLEX_PEERS
    BY Zenon, <2>2, <2>3, <2>5, <1>2, <1>d, <1>h
  <2>7. Refiled(n, c, m, {c}, row)
    BY <2>2, <2>3, <1>2, <1>d DEF Refiled
  <2>8. {c} \in SUBSET Conns
    OBVIOUS
  <2>9. row \in Rows
    BY DEF Rows
  <2> QED
    BY Zenon, <2>3, <2>4, <2>5, <2>6, <2>7, <2>8, <1>u, <2>9, <1>c, RowKeeps
<1>3. CASE ~is_live(cs, r[m], n) /\ WithinLimits(cs, Pruned(cs, r, n), n, c)
  <2>1. PICK e \in Entry : e = [c |-> c, addr |-> addr] /\ e.c = c /\ e # None
    BY Zenon, NewEntry
  <2>r. PICK row \in [Nodes -> Entry \cup {None}] : row = [Pruned(cs, r, n) EXCEPT ![m] = e]
    BY Zenon, <1>e
  <2>2. row[m] = e /\ \A q \in Nodes : q # m => row[q] = Pruned(cs, r, n)[q]
    BY <1>e, <2>r
  <2>3. conn' = cs /\ reg' = [reg EXCEPT ![n] = row]
    BY Zenon, <1>3, <1>c, <1>f, <2>1, <2>r DEF register_duplex_candidate
  <2>4. Moved(n, {}, {c})
    BY Zenon, <2>3, <1>b DEF Moved
  <2>5. Cardinality(live(conn', row, n)) <= MAX_LIVE_DUPLEX_PEERS
    <3>1. live(conn', row, n) \subseteq live(cs, Pruned(cs, r, n), n) \cup {m}
      BY Zenon, <2>2, <2>3 DEF live
    <3>2. Cardinality(live(cs, Pruned(cs, r, n), n)) < MAX_LIVE_DUPLEX_PEERS
      BY Zenon, <1>3 DEF WithinLimits
    <3> QED
      BY Zenon, <3>1, <3>2, LiveFinite, OneMoreLive
  <2>6. Refiled(n, c, m, {}, row)
    BY Zenon, <2>1, <2>2, <1>3, <1>d, <1>e DEF Refiled
  <2>8. {} \in SUBSET Conns
    OBVIOUS
  <2>9. row \in Rows
    BY DEF Rows
  <2> QED
    BY Zenon, <2>2, <2>3, <2>4, <2>5, <2>6, <2>8, <1>u, <2>9, <1>c, RowKeeps
<1>4. CASE ~is_live(cs, r[m], n) /\ ~WithinLimits(cs, Pruned(cs, r, n), n, c)
  <2>r. PICK row \in [Nodes -> Entry \cup {None}] : row = Pruned(cs, r, n)
    BY <1>e
  <2>1. conn' = CloseEnd(cs, c, n) /\ reg' = [reg EXCEPT ![n] = row]
    BY Zenon, <1>4, <1>c, <1>f, <2>r DEF register_duplex_candidate
  <2>2. /\ row[m] = None
        /\ \A q \in Nodes : row[q] = IF is_live(conn, r[q], n) THEN r[q] ELSE None
    BY <1>4, <1>d, <1>e, <2>r
  <2>3. Moved(n, {c}, {c})
    BY <2>1, <1>g
  <2>4. Cardinality(live(conn', row, n)) <= MAX_LIVE_DUPLEX_PEERS
    BY Zenon, <2>2, <2>3, <1>d, <1>h
  <2>5. Refiled(n, c, m, {c}, row)
    BY Zenon, <2>2, <1>4, <1>d DEF Refiled
  <2>8. {c} \in SUBSET Conns
    OBVIOUS
  <2>9. row \in Rows
    BY DEF Rows
  <2> QED
    BY Zenon, <2>1, <2>2, <2>3, <2>4, <2>5, <2>8, <1>u, <2>9, <1>c, RowKeeps
<1> QED
  BY <1>1, <1>2, <1>3, <1>4

-----------------------------------------------------------------------------
\* The row of n, when every entry that goes is dead and the others keep their
\* connection.
SameSessions(n, row) ==
    \A q \in Nodes : IF row[q] = None THEN ~is_live(conn, reg[n][q], n)
                     ELSE reg[n][q] # None /\ row[q].c = reg[n][q].c

\* Dropping dead entries and learning addresses keep the registry.
LEMMA SameSessionsKeep ==
  ASSUME RegistryMatchesSessions, NEW n \in Nodes, NEW row \in Rows, SameSessions(n, row),
         reg' = [reg EXCEPT ![n] = row], UNCHANGED conn,
         known' \in [Nodes -> SUBSET Nodes], waiting' \in [Nodes -> SUBSET Nodes],
         \A p \in Nodes : waiting'[p] \subseteq known'[p]
  PROVE  RegistryMatchesSessions'
<1>a. RegistryTypeOK /\ NoForgottenSession /\ LiveLimit
  BY Zenon DEF RegistryMatchesSessions
<1>b. /\ reg'[n] = row /\ \A p \in Nodes : p # n => reg'[p] = reg[p]
      /\ reg' \in [Nodes -> [Nodes -> Entry \cup {None}]]
  BY <1>a, Typed DEF Rows
<1>c. \A p, q \in Nodes : reg'[p][q] # None => reg[p][q] # None /\ reg'[p][q].c = reg[p][q].c
  BY Zenon, <1>b DEF SameSessions
<1>d. \A p, q \in Nodes : is_live(conn, reg[p][q], p) => reg'[p][q] # None
  BY <1>b DEF SameSessions, is_live
<1>1. RegistryTypeOK'
  <2>1. ASSUME NEW p \in Nodes, NEW q \in Nodes, reg'[p][q] # None
        PROVE  {conn'[reg'[p][q].c].src, conn'[reg'[p][q].c].dst} = {p, q} /\ p # q
    BY Zenon, <2>1, <1>a, <1>c, EntryEnds
  <2> QED
    BY Zenon, <2>1, <1>a, <1>b DEF RegistryTypeOK
<1>2. NoForgottenSession'
  <2> SUFFICES ASSUME NEW d \in Conns, NEW p \in conn'[d].up, p \notin conn'[d].shaking
               PROVE  LET e == reg'[p][OtherEnd(conn', d, p)]
                      IN  e # None /\ (e # None => e.c = d)
    BY Zenon DEF NoForgottenSession
  <2>0. /\ conn' = conn /\ p \in conn[d].up /\ p \notin conn[d].shaking
        /\ OtherEnd(conn', d, p) = OtherEnd(conn, d, p)
    BY Zenon DEF OtherEnd
  <2>1. PICK q \in Nodes : q = OtherEnd(conn, d, p) /\ p \in Nodes
    BY Zenon, <2>0, <1>a, TheOtherEnd
  <2>2. reg[p][q] # None /\ reg[p][q].c = d
    BY Zenon, <2>0, <2>1, <1>a DEF NoForgottenSession
  <2>3. is_live(conn, reg[p][q], p)
    BY Zenon, <2>0, <2>2 DEF is_live
  <2>4. reg'[p][q] # None /\ reg'[p][q].c = d
    BY Zenon, <2>1, <2>2, <2>3, <1>c, <1>d
  <2> QED
    BY Zenon, <2>0, <2>1, <2>4
<1>3. ASSUME NEW p \in Nodes
      PROVE  Cardinality(live(conn', reg'[p], p)) <= MAX_LIVE_DUPLEX_PEERS
  <2>1. live(conn', reg'[p], p) \subseteq live(conn, reg[p], p)
    BY <1>c DEF live, is_live
  <2> QED
    BY Zenon, <2>1, <1>a, LiveFinite, FewerLive DEF LiveLimit
<1> QED
  BY <1>1, <1>2, <1>3 DEF RegistryMatchesSessions, LiveLimit

\* The next snapshot of the live peers drops the closed sessions.
LEMMA SnapshotKeeps ==
  ASSUME RegistryMatchesSessions, NEW n \in Nodes, live_duplex_snapshot(n)
  PROVE  RegistryMatchesSessions'
<1>a. RegistryTypeOK
  BY DEF RegistryMatchesSessions
<1>b. reg[n] \in Rows /\ reg \in [Nodes -> [Nodes -> Entry \cup {None}]]
  BY <1>a, Typed DEF Rows
<1>1. PICK row \in Rows : row = Pruned(conn, reg[n], n)
  BY Zenon, <1>b DEF Rows, Pruned
<1>2. reg' = [reg EXCEPT ![n] = row] /\ UNCHANGED <<conn, known, waiting>>
  BY Zenon, <1>1, <1>b DEF live_duplex_snapshot
<1>3. SameSessions(n, row)
  <2>1. \A q \in Nodes : row[q] = IF is_live(conn, reg[n][q], n) THEN reg[n][q] ELSE None
    BY Zenon, <1>1 DEF Pruned
  <2> QED
    BY <2>1 DEF SameSessions, is_live
<1>4. /\ known' \in [Nodes -> SUBSET Nodes] /\ waiting' \in [Nodes -> SUBSET Nodes]
      /\ \A p \in Nodes : waiting'[p] \subseteq known'[p]
  BY <1>2, <1>a DEF RegistryTypeOK
<1> QED
  BY Zenon, <1>2, <1>3, <1>4, SameSessionsKeep

\* An ADDR frame gives the address of a registered session.
LEMMA LearnAddressKeeps ==
  ASSUME RegistryMatchesSessions, NEW n \in Nodes, NEW c \in Conns, LearnAddress(n, c)
  PROVE  RegistryMatchesSessions'
<1>a. RegistryTypeOK
  BY DEF RegistryMatchesSessions
<1>b. /\ reg[n] \in Rows /\ reg[n] \in [Nodes -> Entry \cup {None}]
      /\ reg \in [Nodes -> [Nodes -> Entry \cup {None}]]
  BY <1>a, Typed DEF Rows
<1>c. PICK m \in Nodes : m = OtherEnd(conn, c, n)
  BY <1>a, TheOtherEnd DEF LearnAddress
<1>d. /\ reg[n][m] # None /\ UNCHANGED <<conn, waiting>>
      /\ known' = [known EXCEPT ![n] = IF Cardinality(@) >= MAX_RUNTIME_PEERS THEN @ ELSE @ \cup {m}]
      /\ reg' = [reg EXCEPT ![n][m].addr = m]
  BY <1>c DEF LearnAddress, is_live
<1>e. reg[n][m] \in Entry /\ None \notin Entry
  BY <1>a, <1>d, Typed
<1>1. PICK e \in Entry : e = [reg[n][m] EXCEPT !.addr = m]
  BY Zenon, <1>e DEF Entry
<1>2. e.c = reg[n][m].c /\ e # None
  BY <1>1, <1>e DEF Entry
<1>3. PICK row \in Rows : row = [reg[n] EXCEPT ![m] = e]
  BY Zenon, <1>b DEF Rows
<1>4. reg' = [reg EXCEPT ![n] = row]
  BY <1>1, <1>3, <1>d, <1>b
<1>5. SameSessions(n, row)
  <2>1. row[m] = e /\ \A q \in Nodes : q # m => row[q] = reg[n][q]
    BY <1>3, <1>b
  <2> QED
    BY <2>1, <1>2, <1>d DEF SameSessions, is_live
<1>6. /\ known' \in [Nodes -> SUBSET Nodes] /\ waiting' \in [Nodes -> SUBSET Nodes]
      /\ \A p \in Nodes : waiting'[p] \subseteq known'[p]
  <2>1. /\ known \in [Nodes -> SUBSET Nodes] /\ waiting \in [Nodes -> SUBSET Nodes]
        /\ \A p \in Nodes : waiting[p] \subseteq known[p]
    BY <1>a DEF RegistryTypeOK
  <2>2. PICK ks \in SUBSET Nodes : /\ ks = IF Cardinality(known[n]) >= MAX_RUNTIME_PEERS
                                           THEN known[n] ELSE known[n] \cup {m}
                                   /\ known[n] \subseteq ks
    BY Zenon, <2>1
  <2>3. known' = [known EXCEPT ![n] = ks]
    BY <2>2, <1>d
  <2> QED
    BY Zenon, <2>1, <2>2, <2>3, <1>d
<1> QED
  BY Zenon, <1>3, <1>4, <1>5, <1>6, <1>d, SameSessionsKeep

-----------------------------------------------------------------------------
\* A dial takes a slot that no registry names: nothing is registered by it.
LEMMA DialKeeps ==
  ASSUME RegistryMatchesSessions, NEW n \in Nodes, NEW m \in Nodes, Dial(n, m)
  PROVE  RegistryMatchesSessions'
<1>a. RegistryTypeOK /\ NoForgottenSession /\ LiveLimit
  BY DEF RegistryMatchesSessions
<1>b. n # m /\ UNCHANGED <<reg, known, waiting>>
  BY DEF Dial, MayDial
<1>c. PICK c \in UnusedSlots :
        conn' = [conn EXCEPT ![c] = [src |-> n, dst |-> m, up |-> {n, m}, shaking |-> {n, m}]]
  BY Zenon DEF Dial
<1>d. c \in Conns /\ \A p, q \in Nodes : reg[p][q] # None => reg[p][q].c # c
  BY DEF UnusedSlots, FreeSlot, Registered
<1>e. PICK k \in Connection : k = [src |-> n, dst |-> m, up |-> {n, m}, shaking |-> {n, m}]
  BY Zenon DEF Connection
<1>f. k.src = n /\ k.dst = m /\ k.up = {n, m} /\ k.shaking = {n, m}
  BY Zenon, <1>e
<1>g. /\ conn' \in [Conns -> Connection] /\ conn'[c] = k
      /\ \A d \in Conns : d # c => conn'[d] = conn[d]
  <2>1. conn \in [Conns -> Connection] /\ conn' = [conn EXCEPT ![c] = k]
    BY Zenon, <1>a, <1>c, <1>e, Typed
  <2> QED
    BY Zenon, <2>1, <1>d
<1>h. \A p, q \in Nodes : reg[p][q] # None =>
        reg[p][q].c \in Conns /\ conn'[reg[p][q].c] = conn[reg[p][q].c]
  BY <1>a, <1>d, <1>g, Typed
<1>1. RegistryTypeOK'
  <2>1. ASSUME NEW d \in Conns
        PROVE  /\ conn'[d].up \cup conn'[d].shaking \subseteq {conn'[d].src, conn'[d].dst}
               /\ conn'[d].up \cup conn'[d].shaking # {} =>
                    conn'[d].src \in Nodes /\ conn'[d].dst \in Nodes /\ conn'[d].src # conn'[d].dst
    <3>1. CASE d = c
      BY Zenon, <3>1, <1>b, <1>f, <1>g
    <3>2. CASE d # c
      BY Zenon, <3>2, <1>a, <1>g DEF RegistryTypeOK
    <3> QED
      BY Zenon, <3>1, <3>2
  <2>2. ASSUME NEW p \in Nodes, NEW q \in Nodes, reg[p][q] # None
        PROVE  {conn'[reg[p][q].c].src, conn'[reg[p][q].c].dst} = {p, q} /\ p # q
    BY Zenon, <2>2, <1>a, <1>h, EntryEnds
  <2>3. \A p, q \in Nodes : reg'[p][q] # None =>
          {conn'[reg'[p][q].c].src, conn'[reg'[p][q].c].dst} = {p, q} /\ p # q
    BY Zenon, <2>2, <1>b
  <2>4. /\ reg' \in [Nodes -> [Nodes -> Entry \cup {None}]]
        /\ known' \in [Nodes -> SUBSET Nodes] /\ waiting' \in [Nodes -> SUBSET Nodes]
        /\ \A p \in Nodes : waiting'[p] \subseteq known'[p]
    BY Zenon, <1>a, <1>b DEF RegistryTypeOK
  <2> QED
    BY Zenon, <2>1, <2>3, <2>4, <1>g DEF RegistryTypeOK
<1>2. NoForgottenSession'
  <2> SUFFICES ASSUME NEW d \in Conns, NEW p \in conn'[d].up, p \notin conn'[d].shaking
               PROVE  LET e == reg'[p][OtherEnd(conn', d, p)]
                      IN  e # None /\ (e # None => e.c = d)
    BY Zenon DEF NoForgottenSession
  <2>1. d # c
    BY Zenon, <1>f, <1>g
  <2>2. conn'[d] = conn[d] /\ OtherEnd(conn', d, p) = OtherEnd(conn, d, p)
    BY Zenon, <2>1, <1>g DEF OtherEnd
  <2> QED
    BY SMTT(30), <2>2, <1>a, <1>b DEF NoForgottenSession
<1>3. ASSUME NEW p \in Nodes
      PROVE  Cardinality(live(conn', reg'[p], p)) <= MAX_LIVE_DUPLEX_PEERS
  <2>1. live(conn', reg'[p], p) \subseteq live(conn, reg[p], p)
    BY <1>b, <1>h DEF live, is_live
  <2> QED
    BY Zenon, <2>1, <1>a, LiveFinite, FewerLive DEF LiveLimit
<1> QED
  BY <1>1, <1>2, <1>3 DEF RegistryMatchesSessions, LiveLimit

\* Backoff only touches the addresses that wait.
LEMMA BackoffKeeps ==
  ASSUME RegistryMatchesSessions, NEW n \in Nodes, NEW m \in Nodes,
         DialFails(n, m) \/ BackoffOver(n, m)
  PROVE  RegistryMatchesSessions'
<1>a. RegistryTypeOK /\ NoForgottenSession /\ LiveLimit
  BY Zenon DEF RegistryMatchesSessions
<1>b. /\ known \in [Nodes -> SUBSET Nodes] /\ waiting \in [Nodes -> SUBSET Nodes]
      /\ \A p \in Nodes : waiting[p] \subseteq known[p]
  BY Zenon, <1>a DEF RegistryTypeOK
<1>c. UNCHANGED <<conn, reg, known>>
  BY Zenon DEF DialFails, BackoffOver
<1>d. PICK w \in SUBSET Nodes : waiting' = [waiting EXCEPT ![n] = w] /\ w \subseteq known[n]
  BY <1>b DEF DialFails, BackoffOver, MayDial
<1>1. RegistryTypeOK'
  <2>1. waiting' \in [Nodes -> SUBSET Nodes] /\ \A p \in Nodes : waiting'[p] \subseteq known'[p]
    BY Zenon, <1>b, <1>c, <1>d
  <2> QED
    BY Zenon, <2>1, <1>a, <1>c DEF RegistryTypeOK
<1>2. NoForgottenSession'
  BY Zenon, <1>a, <1>c DEF NoForgottenSession, OtherEnd
<1>3. LiveLimit'
  BY Zenon, <1>a, <1>c DEF LiveLimit, live, is_live
<1> QED
  BY <1>1, <1>2, <1>3 DEF RegistryMatchesSessions

\* No connection and no entry: the registry matches the sessions at the start.
LEMMA RegistryInitInv ==
  ASSUME RegistryInit
  PROVE  RegistryMatchesSessions
<1>1. /\ conn \in [Conns -> Connection]
      /\ \A c \in Conns : conn[c].up = {} /\ conn[c].shaking = {}
  <2>1. Free \in Connection /\ Free.up = {} /\ Free.shaking = {}
    BY DEF Free, Connection
  <2> QED
    BY Zenon, <2>1 DEF RegistryInit
<1>2. /\ reg \in [Nodes -> [Nodes -> Entry \cup {None}]]
      /\ \A n, m \in Nodes : reg[n][m] = None
  BY DEF RegistryInit
<1>3. /\ known \in [Nodes -> SUBSET Nodes] /\ waiting \in [Nodes -> SUBSET Nodes]
      /\ \A n \in Nodes : waiting[n] \subseteq known[n]
  BY Zenon, RegistryAssumption DEF RegistryInit
<1>4. RegistryTypeOK
  BY Zenon, <1>1, <1>2, <1>3 DEF RegistryTypeOK
<1>5. NoForgottenSession
  BY Zenon, <1>1 DEF NoForgottenSession
<1>6. ASSUME NEW n \in Nodes PROVE Cardinality(live(conn, reg[n], n)) <= MAX_LIVE_DUPLEX_PEERS
  <2>1. live(conn, reg[n], n) = {}
    BY Zenon, <1>2 DEF live, is_live
  <2> QED
    BY <2>1, FS_EmptySet, RegistryAssumption
<1> QED
  BY <1>4, <1>5, <1>6 DEF RegistryMatchesSessions, LiveLimit

\* Every step of every node keeps it.
LEMMA RegistryNextInv ==
  ASSUME RegistryMatchesSessions, [RegistryNext]_registryVars
  PROVE  RegistryMatchesSessions'
<1>1. ASSUME NEW n \in Nodes, NEW m \in Nodes,
             Dial(n, m) \/ DialFails(n, m) \/ BackoffOver(n, m)
      PROVE  RegistryMatchesSessions'
  BY <1>1, DialKeeps, BackoffKeeps
<1>2. ASSUME NEW c \in Conns, RegisterOutbound(c) \/ RegisterInbound(c)
      PROVE  RegistryMatchesSessions'
  <2>1. conn[c].src \in Nodes \cup {None} /\ conn[c].dst \in Nodes \cup {None}
    BY Zenon, Typed DEF RegistryMatchesSessions, Connection
  <2>2. CASE RegisterOutbound(c)
    <3>1. conn[c].src \in Nodes /\ RegisterAt(conn[c].src, c, conn[c].dst)
      BY <2>1, <2>2 DEF RegisterOutbound
    <3> QED
      BY Zenon, <2>1, <3>1, RegisterKeeps
  <2>3. CASE RegisterInbound(c)
    <3>1. conn[c].dst \in Nodes /\ RegisterAt(conn[c].dst, c, None)
      BY <2>1, <2>3 DEF RegisterInbound
    <3>2. None \in Nodes \cup {None}
      OBVIOUS
    <3> QED
      BY Zenon, <3>1, <3>2, RegisterKeeps
  <2> QED
    BY Zenon, <1>2, <2>2, <2>3
<1>3. ASSUME NEW n \in Nodes, NEW c \in Conns, SeesClose(n, c) \/ PingFails(n, c)
      PROVE  RegistryMatchesSessions'
  <2>1. conn' = CloseEnd(conn, c, n) /\ UNCHANGED <<reg, known, waiting>>
    BY <1>3 DEF SeesClose, PingFails
  <2> QED
    BY Zenon, <2>1, CloseKeeps
<1>4. CASE UNCHANGED registryVars
  <2>1. UNCHANGED <<conn, reg, known, waiting>>
    BY <1>4 DEF registryVars
  <2>2. RegistryTypeOK'
    BY Zenon, <2>1 DEF RegistryMatchesSessions, RegistryTypeOK
  <2>3. NoForgottenSession'
    BY Zenon, <2>1 DEF RegistryMatchesSessions, NoForgottenSession, OtherEnd
  <2>4. LiveLimit'
    BY <2>1 DEF RegistryMatchesSessions, LiveLimit, live, is_live
  <2> QED
    BY <2>2, <2>3, <2>4 DEF RegistryMatchesSessions
<1> QED
  BY Zenon, <1>1, <1>2, <1>3, <1>4, LearnAddressKeeps, SnapshotKeeps DEF RegistryNext

\* However dials, handshakes, elections, closes and snapshots of any number of
\* nodes interleave, the registry of every node is the set of its sessions and
\* the limit on live sessions holds.
THEOREM RegistryIsTheSessions == RegistrySpec => []RegistryMatchesSessions
<1>1. RegistryInit => RegistryMatchesSessions
  BY RegistryInitInv
<1>2. RegistryMatchesSessions /\ [RegistryNext]_registryVars => RegistryMatchesSessions'
  BY RegistryNextInv
<1> QED
  BY <1>1, <1>2, PTL DEF RegistrySpec
=============================================================================
