-------------------------- MODULE WorkerHandshake --------------------------
(***************************************************************************)
(* The mutual authentication of mining workers: accept_worker_handshake and *)
(* initiate_worker_handshake (mutiny-worker/src/endpoint.rs) with the       *)
(* messages of mutiny-worker/src/lib.rs, and the accept loop of             *)
(* serve_authenticated_workers_on_listener (worker_service.rs).             *)
(*                                                                          *)
(* A run is one start of a worker process, with one connection.  It may     *)
(* dial another node than the one it is paired with, and may give up at any *)
(* time; what it has written before can still be read.  A signature is the  *)
(* signer together with what it signs.                                      *)
(***************************************************************************)
EXTENDS Integers, FiniteSets, Sequences

CONSTANTS Run,            \* runs of worker processes
          Key,            \* worker keys; the WorkerID is derived from the key
          Node,           \* nodes, each with its own key
          KeyOf,          \* the key of a run
          Paired,         \* the node whose NodeID a run expects
          Allowed,        \* the allowlist of a node
          MaxConnections, \* --max-connections
          Absent

VARIABLES
  worker, \* the runs
  up,     \* what a run has written and its node has not read
  down,   \* what the node has written and the run has not read
  svc,    \* the accept loops
  accepted \* history: the <<run, session>> pairs that a node accepted

handshakeVars == <<worker, up, down, svc, accepted>>

ASSUME PairingAssumption ==
  /\ KeyOf \in [Run -> Key] /\ Paired \in [Run -> Node]
  /\ Allowed \in [Node -> SUBSET Key]

ASSUME ConnectionsAssumption == MaxConnections \in Nat

-----------------------------------------------------------------------------
(* The messages                                                              *)

HelloMessage == [key : Key, nonce : Run]

ChallengeMessage ==
  [node : Node, key : Key, worker_nonce : Run, node_nonce : Nat]

AuthMessage == [by : Key, hello : HelloMessage, over : ChallengeMessage]

AcceptMessage == [node : Node, hello : HelloMessage, over : ChallengeMessage,
                  worker_sig : AuthMessage]

ASSUME AbsentAssumption ==
  Absent \notin Run \cup Node \cup HelloMessage \cup ChallengeMessage

\* WorkerHelloV1: every run draws its own nonce.
Hello(r) == [key |-> KeyOf[r], nonce |-> r]

\* NodeChallengeV1: the node's nonce is drawn for every attempted handshake.
Challenge(n, hello, nonce) ==
  [node |-> n, key |-> hello.key, worker_nonce |-> hello.nonce,
   node_nonce |-> nonce]

validate_for_hello(c, hello) ==
  c.key = hello.key /\ c.worker_nonce = hello.nonce

sign_worker_auth(key, hello, c) == [by |-> key, hello |-> hello, over |-> c]

verify_worker_auth(key, hello, c, sig) ==
  /\ validate_for_hello(c, hello)
  /\ sig = sign_worker_auth(key, hello, c)

sign_node_accept(n, hello, c, sig) ==
  [node |-> n, hello |-> hello, over |-> c, worker_sig |-> sig]

verify_node_accept(n, hello, c, sig, accept) ==
  accept = sign_node_accept(n, hello, c, sig)

\* session_id hashes the messages of the handshake, all of which NODE_ACCEPT
\* signs.
session_id(accept) == accept

-----------------------------------------------------------------------------
(* initiate_worker_handshake                                                 *)

Connect(r, n) ==
  /\ worker[r].pc = "new"
  /\ worker' = [worker EXCEPT ![r].pc = "hello", ![r].node = n]
  /\ up' = [up EXCEPT ![r] = <<Hello(r)>>]
  /\ UNCHANGED <<down, svc, accepted>>

\* Mutant: a challenge that fits the hello is enough.
AnyNodeTrusted(r, c) == validate_for_hello(c, Hello(r))

\* The challenge answers this hello and comes from the paired node.
Trusted(r, c) == validate_for_hello(c, Hello(r)) /\ c.node = Paired[r]

ReadChallenge(r) ==
  /\ worker[r].pc = "hello"
  /\ down[r] # <<>>
  /\ IF Trusted(r, Head(down[r]))
       THEN /\ worker' = [worker EXCEPT ![r].pc = "auth",
                                        ![r].challenge = Head(down[r])]
            /\ up' = [up EXCEPT ![r] = Append(@,
                 sign_worker_auth(KeyOf[r], Hello(r), Head(down[r])))]
       ELSE /\ worker' = [worker EXCEPT ![r].pc = "failed"]
            /\ UNCHANGED up
  /\ down' = [down EXCEPT ![r] = Tail(@)]
  /\ UNCHANGED <<svc, accepted>>

ReadAccept(r) ==
  /\ worker[r].pc = "auth"
  /\ down[r] # <<>>
  /\ LET c == worker[r].challenge
         sig == sign_worker_auth(KeyOf[r], Hello(r), c)
     IN  IF verify_node_accept(c.node, Hello(r), c, sig, Head(down[r]))
           THEN worker' = [worker EXCEPT
                  ![r].pc = "session",
                  ![r].session = session_id(Head(down[r]))]
           ELSE worker' = [worker EXCEPT ![r].pc = "failed"]
  /\ down' = [down EXCEPT ![r] = Tail(@)]
  /\ UNCHANGED <<up, svc, accepted>>

\* A read times out or ends, or the process is killed.
WorkerFails(r) ==
  /\ worker[r].pc \in {"hello", "auth"}
  /\ worker' = [worker EXCEPT ![r].pc = "failed"]
  /\ UNCHANGED <<up, down, svc, accepted>>

-----------------------------------------------------------------------------
(* serve_authenticated_workers_on_listener and accept_worker_handshake       *)

Waiting(n) == {r \in Run : worker[r].node = n /\ ~worker[r].taken}

\* listener.accept.  The worker may have given up while it was queued.
TakeConnection(n, r) ==
  /\ svc[n].pc = "accept"
  /\ svc[n].handled < MaxConnections
  /\ r \in Waiting(n)
  /\ worker' = [worker EXCEPT ![r].taken = TRUE]
  /\ svc' = [svc EXCEPT ![n].pc = "hello", ![n].run = r]
  /\ UNCHANGED <<up, down, accepted>>

\* The handshake ended, in a session or not, and the loop goes on.
NextConnection(s, active) ==
  [s EXCEPT !.pc = "accept", !.handled = @ + 1, !.run = Absent, !.hello = Absent,
            !.active = active]

\* Writing to a stream that the worker has closed may succeed or fail.
Writable(r) == IF worker[r].pc = "failed" THEN {TRUE, FALSE} ELSE {TRUE}

IsAllowed(n, hello) == hello.key \in Allowed[n]

\* WORKER_HELLO is read and NODE_CHALLENGE is written.
ReadHello(n) ==
  LET r == svc[n].run
      hello == Head(up[r])
  IN  /\ svc[n].pc = "hello"
      /\ up[r] # <<>>
      /\ up' = [up EXCEPT ![r] = Tail(@)]
      /\ \E written \in Writable(r) :
           IF IsAllowed(n, hello) /\ written
             THEN /\ svc' = [svc EXCEPT ![n].pc = "auth", ![n].hello = hello]
                  /\ down' = [down EXCEPT ![r] =
                       Append(@, Challenge(n, hello, svc[n].handled))]
             ELSE /\ svc' = [svc EXCEPT ![n] = NextConnection(@, @.active)]
                  /\ UNCHANGED down
      /\ UNCHANGED <<worker, accepted>>

\* WORKER_AUTH is read and verified and the worker is claimed in the registry;
\* NODE_ACCEPT is written, or else the claim is released.
ReadAuth(n) ==
  LET r == svc[n].run
      c == Challenge(n, svc[n].hello, svc[n].handled)
      key == svc[n].hello.key
      accept == sign_node_accept(n, svc[n].hello, c, Head(up[r]))
  IN  /\ svc[n].pc = "auth"
      /\ up[r] # <<>>
      /\ up' = [up EXCEPT ![r] = Tail(@)]
      /\ \E written \in Writable(r) :
           IF /\ verify_worker_auth(key, svc[n].hello, c, Head(up[r]))
              /\ key \notin svc[n].active
              /\ written
             THEN /\ svc' = [svc EXCEPT ![n].pc = "session",
                                        ![n].active = @ \cup {key}]
                  /\ down' = [down EXCEPT ![r] = Append(@, accept)]
                  /\ accepted' = accepted \cup {<<r, session_id(accept)>>}
             ELSE /\ svc' = [svc EXCEPT ![n] = NextConnection(@, @.active)]
                  /\ UNCHANGED <<down, accepted>>
      /\ UNCHANGED worker

\* The loop only authenticates: release_session and shutdown follow at once.
ReleaseSession(n) ==
  /\ svc[n].pc = "session"
  /\ svc' = [svc EXCEPT ![n] =
       NextConnection(@, @.active \ {@.hello.key})]
  /\ UNCHANGED <<worker, up, down, accepted>>

\* A read meets HANDSHAKE_TIMEOUT or the end of the stream.
ReadFails(n) ==
  /\ svc[n].pc \in {"hello", "auth"}
  /\ svc' = [svc EXCEPT ![n] = NextConnection(@, @.active)]
  /\ UNCHANGED <<worker, up, down, accepted>>

\* listener.accept itself fails, which ends the service.
ListenerFails(n) ==
  /\ svc[n].pc = "accept"
  /\ svc[n].handled < MaxConnections
  /\ svc' = [svc EXCEPT ![n].pc = "ended"]
  /\ UNCHANGED <<worker, up, down, accepted>>

-----------------------------------------------------------------------------
HandshakeInit ==
  /\ worker = [r \in Run |-> [pc |-> "new", node |-> Absent, taken |-> FALSE,
                              challenge |-> Absent, session |-> Absent]]
  /\ up = [r \in Run |-> <<>>] /\ down = [r \in Run |-> <<>>]
  /\ svc = [n \in Node |-> [pc |-> "accept", run |-> Absent, hello |-> Absent,
                            active |-> {}, handled |-> 0]]
  /\ accepted = {}

ServiceStep(n) ==
  \/ \E r \in Run : TakeConnection(n, r)
  \/ ReadHello(n) \/ ReadAuth(n) \/ ReleaseSession(n) \/ ReadFails(n)

HandshakeNext ==
  \/ \E r \in Run :
       \/ \E n \in Node : Connect(r, n)
       \/ ReadChallenge(r) \/ ReadAccept(r) \/ WorkerFails(r)
  \/ \E n \in Node : ServiceStep(n) \/ ListenerFails(n)

Handshakes == HandshakeInit /\ [][HandshakeNext]_handshakeVars

-----------------------------------------------------------------------------
(* Properties                                                                *)

WorkerState ==
  [pc : {"new", "hello", "auth", "session", "failed"}, node : Node \cup {Absent},
   taken : BOOLEAN, challenge : ChallengeMessage \cup {Absent},
   session : AcceptMessage \cup {Absent}]

ServiceState ==
  [pc : {"accept", "hello", "auth", "session", "ended"}, run : Run \cup {Absent},
   hello : HelloMessage \cup {Absent}, active : SUBSET Key,
   handled : 0 .. MaxConnections]

\* Type invariant: in particular the loop handles no more than the
\* connections it was started for.
HandshakeTypeOK ==
  /\ worker \in [Run -> WorkerState]
  /\ up \in [Run -> Seq(HelloMessage \cup AuthMessage)]
  /\ down \in [Run -> Seq(ChallengeMessage \cup AcceptMessage)]
  /\ svc \in [Node -> ServiceState]
  /\ accepted \subseteq Run \X AcceptMessage

\* A worker that holds a session shares it with the node it is paired with:
\* that node accepted the same SessionID on this very connection, so a worker
\* never works for a node it only happened to dial.
WorkersAgree ==
  \A r \in Run :
    worker[r].pc = "session" =>
      /\ <<r, worker[r].session>> \in accepted
      /\ worker[r].session.node = Paired[r]

\* What a node accepts is a session with an allowed worker that answered this
\* challenge of this handshake, also where the worker has given up since; no
\* two sessions have one SessionID.
NodesAgree ==
  \A p \in accepted :
    /\ p[2].hello.key \in Allowed[p[2].node]
    /\ KeyOf[p[1]] = p[2].hello.key
    /\ worker[p[1]].challenge = p[2].over
    /\ \A q \in accepted : p[2] = q[2] => p = q

\* Both ends of an authenticated session agree on who the other is and on the
\* SessionID.
BothEndsAgree == HandshakeTypeOK /\ WorkersAgree /\ NodesAgree

=============================================================================
