------------------------- MODULE DuplexSessionProofs -------------------------
(***************************************************************************)
(* Proofs about a session, for any number of callers at each end, any       *)
(* limits and any number of requests: callers get the answer to their own   *)
(* request, none of them waits for a reader that is gone, and no slot of    *)
(* the pending map leaks.                                                   *)
(***************************************************************************)
EXTENDS DuplexSession, FiniteSetTheorems, TLAPS

-----------------------------------------------------------------------------
(* The inductive invariant.                                                  *)

\* What an end is sent: requests of its peer and answers to its own, under
\* RequestIDs that were allocated; an announcement carries one of its sender.
FrameInv(e, f) ==
  /\ f.id.n <= next[f.id.lane]
  /\ f.asker = IF f.kind \in {"announce", "get"} THEN Peer(e) ELSE e
  /\ f.kind = "announce" => f.id.lane = Peer(e)

FramesInv(e) ==
  /\ \A i \in 1 .. Len(wire[e]) : wire[e][i] # None => FrameInv(e, wire[e][i])
  /\ \A i \in 1 .. Len(queue[e]) : FrameInv(e, queue[e][i])

\* An announcement that the caller has yet to write.
Unsent(e, c) ==
  /\ pc[e][c] \in {"begun", "registered", "sending"}
  /\ req[e][c] # None /\ req[e][c].type = "announce"

WireAnnounces(e, i) == wire[e][i] # None /\ wire[e][i].kind = "announce"
QueueAnnounces(e, i) == queue[e][i].kind = "announce"

\* Nobody at this end uses the RequestID.
Untaken(e, id) ==
  /\ \A c \in Caller : req[e][c] # None => req[e][c].id # id
  /\ routed[e] # None => routed[e].entry.id # id

\* An announcement is somewhere once, on its way from the map of the peer to a
\* worker: that is what lets both ends use one RequestID at a time.
AnnouncedOnce(e) ==
  /\ \A i \in 1 .. Len(queue[e]) : QueueAnnounces(e, i) =>
       /\ Untaken(e, queue[e][i].id)
       /\ \A j \in 1 .. Len(queue[e]) :
            QueueAnnounces(e, j) /\ queue[e][i].id = queue[e][j].id => i = j
  /\ \A i \in 1 .. Len(wire[e]) : WireAnnounces(e, i) =>
       /\ Untaken(e, wire[e][i].id)
       /\ \A j \in 1 .. Len(wire[e]) :
            WireAnnounces(e, j) /\ wire[e][i].id = wire[e][j].id => i = j
       /\ \A j \in 1 .. Len(queue[e]) :
            QueueAnnounces(e, j) => wire[e][i].id # queue[e][j].id
  /\ \A c \in Caller : Unsent(Peer(e), c) =>
       /\ Untaken(e, req[Peer(e)][c].id)
       /\ \A i \in 1 .. Len(wire[e]) :
            WireAnnounces(e, i) => req[Peer(e)][c].id # wire[e][i].id
       /\ \A i \in 1 .. Len(queue[e]) :
            QueueAnnounces(e, i) => req[Peer(e)][c].id # queue[e][i].id

\* A caller at work has a request under a RequestID of its own.
CallerInv(e, c) ==
  /\ pc[e][c] = "idle" <=> req[e][c] = None
  /\ pc[e][c] \in {"idle", "begun"} => chan[e][c] = None
  /\ req[e][c] # None =>
       /\ req[e][c].id.n <= next[req[e][c].id.lane]
       /\ req[e][c].type = "announce" => req[e][c].id.lane = e
       /\ \A d \in Caller : req[e][d] # None /\ req[e][d].id = req[e][c].id => d = c
  /\ chan[e][c] \notin {None, Stopped} =>
       /\ chan[e][c].id = req[e][c].id
       /\ chan[e][c].kind = Expected(req[e][c].type)
       /\ chan[e][c].asker = e

\* The entries of the map, and the one that the reader took out of it, belong
\* to callers that have nothing in their channel.
PendingInv(e) ==
  /\ IsFiniteSet(pending[e]) /\ Cardinality(pending[e]) <= MaxPending[e]
  /\ \A p \in pending[e] :
       pc[e][p.by] \in Waiting /\ p = Entry(e, p.by) /\ chan[e][p.by] = None

RoutedInv(e) ==
  /\ routed[e] # None <=> reader[e] = "deliver"
  /\ routed[e] # None =>
       /\ routed[e].frame.id = routed[e].entry.id
       /\ routed[e].frame.kind = routed[e].entry.kind
       /\ FrameInv(e, routed[e].frame)
       /\ \A p \in pending[e] : p.id # routed[e].entry.id
       /\ \A c \in Caller :
            req[e][c] # None /\ req[e][c].id = routed[e].entry.id =>
              /\ pc[e][c] \in Waiting /\ chan[e][c] = None
              /\ routed[e].entry = Entry(e, c)

\* A caller with an empty channel is known to the reader.
WaitInv(e, c) ==
  /\ pc[e][c] \in {"registered", "sending", "waiting"} /\ chan[e][c] = None =>
       \/ Entry(e, c) \in pending[e]
       \/ routed[e] # None /\ routed[e].entry = Entry(e, c)
  /\ pc[e][c] \in {"sending", "waiting"} /\ chan[e][c] = None =>
       reader[e] # "exited"

ReaderInv(e) == reader[e] \in {"drain", "drain_shut", "exited"} => closed[e]

IInv ==
  /\ TypeOK
  /\ \A e \in End :
       /\ FramesInv(e) /\ AnnouncedOnce(e) /\ PendingInv(e) /\ RoutedInv(e)
       /\ ReaderInv(e)
       /\ \A c \in Caller : CallerInv(e, c) /\ WaitInv(e, c)

-----------------------------------------------------------------------------
(* Lemmas about the operators of the model.                                  *)

\* There are two ends.
LEMMA PeerFacts ==
  ASSUME NEW e \in End
  PROVE  /\ Peer(e) \in End /\ Peer(e) # e /\ Peer(Peer(e)) = e
         /\ \A d \in End : d # e => d = Peer(e)
BY DEF End, Peer

\* What a channel holds after a frame was sent on it.
LEMMA AppendFacts ==
  ASSUME NEW S, NEW s \in Seq(S), NEW x \in S
  PROVE  /\ Append(s, x) \in Seq(S) /\ Len(Append(s, x)) = Len(s) + 1
         /\ \A i \in 1 .. Len(s) + 1 :
              Append(s, x)[i] = IF i \in 1 .. Len(s) THEN s[i] ELSE x
OBVIOUS

\* What a channel holds after its first frame was taken.
LEMMA TailFacts ==
  ASSUME NEW S, NEW s \in Seq(S), s # <<>>
  PROVE  /\ Tail(s) \in Seq(S) /\ Len(Tail(s)) = Len(s) - 1
         /\ 1 \in 1 .. Len(s) /\ Head(s) = s[1] /\ Head(s) \in S
         /\ \A i \in 1 .. Len(s) - 1 : Tail(s)[i] = s[i + 1] /\ i + 1 \in 1 .. Len(s)
OBVIOUS

\* Frames, None and Stopped are told apart, and so are requests and None.
LEMMA SentinelFacts ==
  /\ None \notin Frame /\ None \notin Request /\ None \notin Routed
  /\ Stopped \notin Frame /\ Stopped # None
BY NoneAssumption

\* Announcements to one end, on the wire or in the queue, differ in their
\* RequestIDs.
LEMMA AnnouncedApart ==
  ASSUME NEW d \in End, AnnouncedOnce(d)
  PROVE  /\ \A i, j \in 1 .. Len(queue[d]) :
              QueueAnnounces(d, i) /\ QueueAnnounces(d, j) /\ queue[d][i].id = queue[d][j].id
                => i = j
         /\ \A i, j \in 1 .. Len(wire[d]) :
              WireAnnounces(d, i) /\ WireAnnounces(d, j) /\ wire[d][i].id = wire[d][j].id
                => i = j
         /\ \A i \in 1 .. Len(wire[d]), j \in 1 .. Len(queue[d]) :
              WireAnnounces(d, i) /\ QueueAnnounces(d, j) => wire[d][i].id # queue[d][j].id
BY Zenon DEF AnnouncedOnce

-----------------------------------------------------------------------------
(* Every step keeps the invariant.                                           *)

\* RequestIDs stay allocated.
LEMMA FrameKept ==
  ASSUME next \in [End -> Nat], next' \in [End -> Nat],
         \A l \in End : next[l] <= next'[l], NEW d \in End
  PROVE  \A f \in Frame : FrameInv(d, f) => FrameInv(d, f)'
BY DEF FrameInv, Frame, Id

\* What is on its way stays valid when a RequestID is allocated ...
LEMMA FramesKept ==
  ASSUME TypeOK, NEW d \in End, FramesInv(d), UNCHANGED <<wire, queue>>,
         next' \in [End -> Nat], \A l \in End : next[l] <= next'[l]
  PROVE  FramesInv(d)'
<1>1. \A f \in Frame : FrameInv(d, f) => FrameInv(d, f)'
  BY FrameKept DEF TypeOK
<1>2. ASSUME NEW i \in 1 .. Len(wire[d]), wire[d][i] # None
      PROVE  FrameInv(d, wire[d][i])'
  <2>1. wire[d][i] \in Frame /\ FrameInv(d, wire[d][i])
    BY <1>2 DEF FramesInv, TypeOK
  <2> QED
    BY <1>1, <2>1 DEF FrameInv
<1>3. ASSUME NEW i \in 1 .. Len(queue[d])
      PROVE  FrameInv(d, queue[d][i])'
  <2>1. queue[d][i] \in Frame /\ FrameInv(d, queue[d][i])
    BY <1>3 DEF FramesInv, TypeOK
  <2> QED
    BY <1>1, <2>1 DEF FrameInv
<1> QED
  BY <1>2, <1>3 DEF FramesInv

\* ... when nothing moves ...
LEMMA FramesSame ==
  ASSUME NEW d \in End, FramesInv(d), UNCHANGED <<wire, queue, next>>
  PROVE  FramesInv(d)'
BY DEF FramesInv, FrameInv

\* ... and when the first frame of a wire is read.
LEMMA FramesMoved ==
  ASSUME NEW d \in End, FramesInv(d), next' = next, queue'[d] = queue[d], NEW w \in {0, 1},
         \A i \in 1 .. Len(wire'[d]) :
           i + w \in 1 .. Len(wire[d]) /\ wire'[d][i] = wire[d][i + w]
  PROVE  FramesInv(d)'
BY DEF FramesInv, FrameInv

Step == Waiting \cup {"idle", "begun", "reply"}

\* The caller moves on, and nothing else does.
LEMMA GotoEffect ==
  ASSUME TypeOK, NEW e \in End, NEW c \in Caller, NEW step \in Step, Goto(e, c, step)
  PROVE  /\ pc' \in [End -> [Caller -> Step]]
         /\ \A d \in End, b \in Caller :
              pc'[d][b] = IF d = e /\ b = c THEN step ELSE pc[d][b]
         /\ req' = req /\ chan' = chan
BY DEF TypeOK, Goto, Step

\* The caller has a request.
LEMMA StartEffect ==
  ASSUME TypeOK, NEW e \in End, NEW c \in Caller, NEW step \in Step,
         NEW r \in Request, Start(e, c, step, r)
  PROVE  /\ pc' \in [End -> [Caller -> Step]]
         /\ req' \in [End -> [Caller -> Request \cup {None}]]
         /\ \A d \in End, b \in Caller :
              /\ pc'[d][b] = IF d = e /\ b = c THEN step ELSE pc[d][b]
              /\ req'[d][b] = IF d = e /\ b = c THEN r ELSE req[d][b]
         /\ chan' = chan
BY DEF TypeOK, Start, Step

\* The caller is done with its request.
LEMMA ReturnEffect ==
  ASSUME TypeOK, NEW e \in End, NEW c \in Caller, Return(e, c)
  PROVE  /\ pc' \in [End -> [Caller -> Step]]
         /\ req' \in [End -> [Caller -> Request \cup {None}]]
         /\ chan' \in [End -> [Caller -> Frame \cup {None, Stopped}]]
         /\ \A d \in End, b \in Caller :
              /\ pc'[d][b] = IF d = e /\ b = c THEN "idle" ELSE pc[d][b]
              /\ req'[d][b] = IF d = e /\ b = c THEN None ELSE req[d][b]
              /\ chan'[d][b] = IF d = e /\ b = c THEN None ELSE chan[d][b]
BY DEF TypeOK, Return, Step

\* A caller that is not idle has a request, for which there is an entry.
LEMMA CallerFacts ==
  ASSUME IInv, NEW e \in End, NEW c \in Caller, pc[e][c] # "idle"
  PROVE  /\ req[e][c] \in Request /\ req[e][c] # None /\ req[e][c].id \in Id
         /\ Entry(e, c) \in Entries
         /\ Entry(e, c).id = req[e][c].id /\ Entry(e, c).by = c
         /\ Entry(e, c).kind = Expected(req[e][c].type)
<1>1. req[e][c] \in Request /\ req[e][c] # None
  BY DEF IInv, TypeOK, CallerInv
<1>2. req[e][c].id \in Id /\ Expected(req[e][c].type) \in {"result", "data"}
  BY <1>1 DEF Request, Expected
<1> QED
  BY <1>1, <1>2 DEF Entry, Entries

\* Announcements stay unique while none is written or changes hands: what is
\* left on the wire and in the queue was there before, w or q places later.
LEMMA AnnouncedKept ==
  ASSUME NEW d \in End, AnnouncedOnce(d), NEW w \in {0, 1}, NEW q \in {0, 1},
         \A i \in 1 .. Len(wire'[d]) : WireAnnounces(d, i)' =>
           i + w \in 1 .. Len(wire[d]) /\ wire'[d][i] = wire[d][i + w],
         \A i \in 1 .. Len(queue'[d]) : QueueAnnounces(d, i)' =>
           i + q \in 1 .. Len(queue[d]) /\ queue'[d][i] = queue[d][i + q],
         \A c \in Caller : req'[d][c] # None => req'[d][c] = req[d][c],
         routed'[d] # None => \/ routed[d] # None /\ routed'[d] = routed[d]
                              \/ \E c \in Caller : req[d][c] # None /\ req[d][c].id = routed'[d].entry.id,
         \A c \in Caller : Unsent(Peer(d), c)' =>
           Unsent(Peer(d), c) /\ req'[Peer(d)][c] = req[Peer(d)][c]
  PROVE  AnnouncedOnce(d)'
<1>1. \A id : Untaken(d, id) => Untaken(d, id)'
  BY DEF Untaken
<1>2. ASSUME NEW i \in 1 .. Len(queue'[d]), QueueAnnounces(d, i)'
      PROVE  /\ Untaken(d, queue[d][i].id)'
             /\ i + q \in 1 .. Len(queue[d]) /\ QueueAnnounces(d, i + q)
             /\ queue'[d][i].id = queue[d][i + q].id
  BY <1>1, <1>2 DEF AnnouncedOnce, QueueAnnounces, Untaken
<1>3. ASSUME NEW i \in 1 .. Len(wire'[d]), WireAnnounces(d, i)'
      PROVE  /\ Untaken(d, wire[d][i].id)'
             /\ i + w \in 1 .. Len(wire[d]) /\ WireAnnounces(d, i + w)
             /\ wire'[d][i].id = wire[d][i + w].id
  <2>1. i + w \in 1 .. Len(wire[d]) /\ wire'[d][i] = wire[d][i + w]
    BY <1>3
  <2>2. WireAnnounces(d, i + w)
    BY <1>3, <2>1 DEF WireAnnounces
  <2>3. Untaken(d, wire[d][i + w].id)
    BY <2>1, <2>2 DEF AnnouncedOnce
  <2> QED
    BY <1>1, <2>1, <2>2, <2>3 DEF Untaken
<1>4. ASSUME NEW i \in 1 .. Len(queue'[d]), QueueAnnounces(d, i)',
             NEW j \in 1 .. Len(queue'[d]), QueueAnnounces(d, j)',
             queue'[d][i].id = queue'[d][j].id
      PROVE  i = j
  <2>1. i + q \in 1 .. Len(queue[d]) /\ QueueAnnounces(d, i + q)
        /\ queue'[d][i].id = queue[d][i + q].id
    BY Zenon, <1>2, <1>4
  <2>2. j + q \in 1 .. Len(queue[d]) /\ QueueAnnounces(d, j + q)
        /\ queue'[d][j].id = queue[d][j + q].id
    BY Zenon, <1>2, <1>4
  <2>3. i + q = j + q
    BY Zenon, <1>4, <2>1, <2>2, AnnouncedApart
  <2> QED
    BY <2>3
<1>5. ASSUME NEW i \in 1 .. Len(wire'[d]), WireAnnounces(d, i)',
             NEW j \in 1 .. Len(wire'[d]), WireAnnounces(d, j)',
             wire'[d][i].id = wire'[d][j].id
      PROVE  i = j
  <2>1. i + w \in 1 .. Len(wire[d]) /\ WireAnnounces(d, i + w)
        /\ wire'[d][i].id = wire[d][i + w].id
    BY Zenon, <1>3, <1>5
  <2>2. j + w \in 1 .. Len(wire[d]) /\ WireAnnounces(d, j + w)
        /\ wire'[d][j].id = wire[d][j + w].id
    BY Zenon, <1>3, <1>5
  <2>3. i + w = j + w
    BY Zenon, <1>5, <2>1, <2>2, AnnouncedApart
  <2> QED
    BY <2>3
<1>6. ASSUME NEW i \in 1 .. Len(wire'[d]), WireAnnounces(d, i)',
             NEW j \in 1 .. Len(queue'[d]), QueueAnnounces(d, j)'
      PROVE  wire'[d][i].id # queue'[d][j].id
  <2>1. i + w \in 1 .. Len(wire[d]) /\ WireAnnounces(d, i + w)
        /\ wire'[d][i].id = wire[d][i + w].id
    BY Zenon, <1>3, <1>6
  <2>2. j + q \in 1 .. Len(queue[d]) /\ QueueAnnounces(d, j + q)
        /\ queue'[d][j].id = queue[d][j + q].id
    BY Zenon, <1>2, <1>6
  <2>3. wire[d][i + w].id # queue[d][j + q].id
    BY Zenon, <2>1, <2>2 DEF AnnouncedOnce
  <2> QED
    BY Zenon, <2>1, <2>2, <2>3
<1>7. ASSUME NEW c \in Caller, Unsent(Peer(d), c)'
      PROVE  /\ Untaken(d, req[Peer(d)][c].id)'
             /\ \A i \in 1 .. Len(wire'[d]) :
                  WireAnnounces(d, i)' => req'[Peer(d)][c].id # wire'[d][i].id
             /\ \A i \in 1 .. Len(queue'[d]) :
                  QueueAnnounces(d, i)' => req'[Peer(d)][c].id # queue'[d][i].id
  <2>1. Unsent(Peer(d), c) /\ req'[Peer(d)][c] = req[Peer(d)][c]
    BY Zenon, <1>7
  <2>2. /\ Untaken(d, req[Peer(d)][c].id)
        /\ \A i \in 1 .. Len(wire[d]) :
             WireAnnounces(d, i) => req[Peer(d)][c].id # wire[d][i].id
        /\ \A i \in 1 .. Len(queue[d]) :
             QueueAnnounces(d, i) => req[Peer(d)][c].id # queue[d][i].id
    BY Zenon, <2>1 DEF AnnouncedOnce
  <2>3. Untaken(d, req[Peer(d)][c].id)'
    BY Zenon, <2>1, <2>2, <1>1 DEF Untaken
  <2>4. ASSUME NEW i \in 1 .. Len(wire'[d]), WireAnnounces(d, i)'
        PROVE  req'[Peer(d)][c].id # wire'[d][i].id
    <3>1. /\ i + w \in 1 .. Len(wire[d]) /\ WireAnnounces(d, i + w)
          /\ wire'[d][i].id = wire[d][i + w].id
      BY Zenon, <1>3, <2>4
    <3> QED
      BY Zenon, <3>1, <2>1, <2>2
  <2>5. ASSUME NEW i \in 1 .. Len(queue'[d]), QueueAnnounces(d, i)'
        PROVE  req'[Peer(d)][c].id # queue'[d][i].id
    <3>1. /\ i + q \in 1 .. Len(queue[d]) /\ QueueAnnounces(d, i + q)
          /\ queue'[d][i].id = queue[d][i + q].id
      BY Zenon, <1>2, <2>5
    <3> QED
      BY Zenon, <3>1, <2>1, <2>2
  <2> QED
    BY <2>3, <2>4, <2>5
<1> QED
  BY <1>2, <1>3, <1>4, <1>5, <1>6, <1>7 DEF AnnouncedOnce

\* The same when no frame moves.
LEMMA AnnouncedUnmoved ==
  ASSUME NEW d \in End, AnnouncedOnce(d), UNCHANGED <<wire, queue>>,
         \A c \in Caller : req'[d][c] # None => req'[d][c] = req[d][c],
         routed'[d] # None => routed'[d] = routed[d],
         \A c \in Caller : Unsent(Peer(d), c)' =>
           Unsent(Peer(d), c) /\ req'[Peer(d)][c] = req[Peer(d)][c]
  PROVE  AnnouncedOnce(d)'
BY DEF AnnouncedOnce, Untaken, WireAnnounces, QueueAnnounces

\* What is on the wires after a frame was written, or lost.
LEMMA WrittenFacts ==
  ASSUME TypeOK, NEW e \in End, NEW f \in Frame \cup {None},
         wire' = wire \/ wire' = Written(e, f)
  PROVE  /\ wire' \in [End -> Seq(Frame \cup {None})]
         /\ \A d \in End : \A i \in 1 .. Len(wire'[d]) :
              \/ i \in 1 .. Len(wire[d]) /\ wire'[d][i] = wire[d][i]
              \/ d = Peer(e) /\ i = Len(wire[d]) + 1 /\ wire'[d][i] = f
<1>1. wire \in [End -> Seq(Frame \cup {None})] /\ Peer(e) \in End
  BY PeerFacts DEF TypeOK
<1>2. CASE wire' = wire
  BY <1>1, <1>2
<1>3. CASE wire' = [wire EXCEPT ![Peer(e)] = Append(@, f)]
  <2>1. /\ Append(wire[Peer(e)], f) \in Seq(Frame \cup {None})
        /\ Len(Append(wire[Peer(e)], f)) = Len(wire[Peer(e)]) + 1
        /\ \A i \in 1 .. Len(wire[Peer(e)]) + 1 :
             Append(wire[Peer(e)], f)[i] =
               IF i \in 1 .. Len(wire[Peer(e)]) THEN wire[Peer(e)][i] ELSE f
    BY <1>1, AppendFacts
  <2>2. /\ wire'[Peer(e)] = Append(wire[Peer(e)], f)
        /\ \A d \in End : d # Peer(e) => wire'[d] = wire[d]
        /\ wire' \in [End -> Seq(Frame \cup {None})]
    BY <1>1, <1>3, <2>1
  <2>3. Len(wire[Peer(e)]) \in Nat
    BY <1>1
  <2>4. ASSUME NEW d \in End, NEW i \in 1 .. Len(wire'[d])
        PROVE  \/ i \in 1 .. Len(wire[d]) /\ wire'[d][i] = wire[d][i]
               \/ d = Peer(e) /\ i = Len(wire[d]) + 1 /\ wire'[d][i] = f
    <3>1. CASE d = Peer(e)
      BY <3>1, <2>1, <2>2, <2>3, <2>4
    <3>2. CASE d # Peer(e)
      BY <3>2, <2>2, <2>4
    <3> QED
      BY <3>1, <3>2
  <2> QED
    BY <2>2, <2>4
<1> QED
  BY <1>1, <1>2, <1>3 DEF Written

\* Frames other than announcements may be written at any time.
LEMMA SentKeeps ==
  ASSUME IInv, NEW e \in End, NEW f \in Frame \cup {None},
         f # None => f.kind # "announce" /\ FrameInv(Peer(e), f),
         wire' = wire \/ wire' = Written(e, f), UNCHANGED <<next, queue>>,
         NEW d \in End,
         \A c \in Caller : req'[d][c] # None => req'[d][c] = req[d][c],
         routed'[d] # None => routed'[d] = routed[d],
         \A c \in Caller : Unsent(Peer(d), c)' =>
           Unsent(Peer(d), c) /\ req'[Peer(d)][c] = req[Peer(d)][c]
  PROVE  FramesInv(d)' /\ AnnouncedOnce(d)'
<1>1. \A i \in 1 .. Len(wire'[d]) :
        \/ i \in 1 .. Len(wire[d]) /\ wire'[d][i] = wire[d][i]
        \/ d = Peer(e) /\ wire'[d][i] = f
  BY WrittenFacts DEF IInv
<1>2. FramesInv(d) /\ AnnouncedOnce(d)
  BY DEF IInv
<1>3. FramesInv(d)'
  BY <1>1, <1>2 DEF FramesInv, FrameInv
<1>4. \A i \in 1 .. Len(wire'[d]) : WireAnnounces(d, i)' =>
        i + 0 \in 1 .. Len(wire[d]) /\ wire'[d][i] = wire[d][i + 0]
  BY <1>1 DEF WireAnnounces
<1>5. \A i \in 1 .. Len(queue'[d]) : QueueAnnounces(d, i)' =>
        i + 0 \in 1 .. Len(queue[d]) /\ queue'[d][i] = queue[d][i + 0]
  OBVIOUS
<1>6. AnnouncedOnce(d)'
  BY <1>2, <1>4, <1>5, AnnouncedKept
<1> QED
  BY <1>3, <1>6

\* The limit on the map holds when entries are removed.
LEMMA PendingShrinks ==
  ASSUME NEW d \in End, NEW S, NEW T \in SUBSET S,
         IsFiniteSet(S), Cardinality(S) <= MaxPending[d]
  PROVE  IsFiniteSet(T) /\ Cardinality(T) <= MaxPending[d]
<1>1. IsFiniteSet(T) /\ Cardinality(T) <= Cardinality(S)
  BY FS_Subset
<1>2. Cardinality(T) \in Nat /\ Cardinality(S) \in Nat /\ MaxPending[d] \in Nat
  BY <1>1, FS_CardinalityType, LimitsAssumption
<1> QED
  BY <1>1, <1>2

\* A caller that returns leaves nothing behind, if its entry goes with it.
LEMMA ReturnKeeps ==
  ASSUME IInv, NEW e \in End, NEW c \in Caller, Return(e, c),
         UNCHANGED <<link, closed, next, reader, routed, queue>>,
         wire' \in [End -> Seq(Frame \cup {None})],
         pending' = [pending EXCEPT ![e] = {p \in @ : p.by # c}]
  PROVE  /\ TypeOK'
         /\ \A d \in End : PendingInv(d)' /\ RoutedInv(d)' /\ ReaderInv(d)'
         /\ \A d \in End, b \in Caller :
              /\ CallerInv(d, b)' /\ WaitInv(d, b)'
              /\ req'[d][b] # None => req'[d][b] = req[d][b]
              /\ Unsent(d, b)' => Unsent(d, b) /\ req'[d][b] = req[d][b]
<1>a. TypeOK
  BY DEF IInv
<1>b. /\ pc' \in [End -> [Caller -> Step]]
      /\ req' \in [End -> [Caller -> Request \cup {None}]]
      /\ chan' \in [End -> [Caller -> Frame \cup {None, Stopped}]]
      /\ \A d \in End, b \in Caller :
           /\ pc'[d][b] = IF d = e /\ b = c THEN "idle" ELSE pc[d][b]
           /\ req'[d][b] = IF d = e /\ b = c THEN None ELSE req[d][b]
           /\ chan'[d][b] = IF d = e /\ b = c THEN None ELSE chan[d][b]
  BY <1>a, ReturnEffect
<1>c. /\ pending' \in [End -> SUBSET Entries]
      /\ pending'[e] = {p \in pending[e] : p.by # c}
      /\ \A d \in End : d # e => pending'[d] = pending[d]
  BY <1>a DEF TypeOK
<1>1. TypeOK'
  BY <1>a, <1>b, <1>c DEF TypeOK, Step
<1>2. ASSUME NEW d \in End PROVE PendingInv(d)'
  <2>1. PendingInv(d) /\ pending[d] \subseteq Entries
    BY <1>a DEF IInv, TypeOK
  <2>2. pending'[d] \subseteq pending[d]
    BY <1>c
  <2>3. IsFiniteSet(pending'[d]) /\ Cardinality(pending'[d]) <= MaxPending[d]
    BY <2>1, <2>2, PendingShrinks DEF PendingInv
  <2>4. ASSUME NEW p \in pending'[d]
        PROVE  /\ pc'[d][p.by] \in Waiting /\ p = Entry(d, p.by)' /\ chan'[d][p.by] = None
    <3>1. /\ p \in pending[d] /\ p.by \in Caller /\ ~(d = e /\ p.by = c)
          /\ pc[d][p.by] \in Waiting /\ p = Entry(d, p.by) /\ chan[d][p.by] = None
      BY <2>1, <2>2, <1>c DEF PendingInv, Entries
    <3>2. /\ pc'[d][p.by] = pc[d][p.by] /\ req'[d][p.by] = req[d][p.by]
          /\ chan'[d][p.by] = chan[d][p.by]
      BY <3>1, <1>b
    <3> QED
      BY <3>1, <3>2 DEF Entry
  <2> QED
    BY <2>3, <2>4 DEF PendingInv
<1>3. ASSUME NEW d \in End PROVE RoutedInv(d)' /\ ReaderInv(d)'
  <2>1. RoutedInv(d) /\ ReaderInv(d)
    BY DEF IInv
  <2>2. pending'[d] \subseteq pending[d]
    BY <1>c
  <2>3. \A b \in Caller : req'[d][b] # None =>
          /\ req'[d][b] = req[d][b] /\ pc'[d][b] = pc[d][b] /\ chan'[d][b] = chan[d][b]
          /\ Entry(d, b)' = Entry(d, b)
    BY <1>b DEF Entry
  <2>4. routed[d] # None => FrameInv(d, routed[d].frame)'
    BY <2>1 DEF RoutedInv, FrameInv
  <2>5. ReaderInv(d)'
    BY <2>1 DEF ReaderInv
  <2>6. ASSUME routed[d] # None, NEW b \in Caller,
               req'[d][b] # None, req'[d][b].id = routed[d].entry.id
        PROVE  /\ pc'[d][b] \in Waiting /\ chan'[d][b] = None
               /\ routed[d].entry = Entry(d, b)'
    BY <2>1, <2>3, <2>6 DEF RoutedInv
  <2> QED
    BY <2>1, <2>2, <2>4, <2>5, <2>6 DEF RoutedInv
<1>4. ASSUME NEW d \in End, NEW b \in Caller PROVE CallerInv(d, b)'
  <2>1. CallerInv(d, b)
    BY DEF IInv
  <2> QED
    BY Zenon, <2>1, <1>b DEF CallerInv
<1>5. ASSUME NEW d \in End, NEW b \in Caller PROVE WaitInv(d, b)'
  <2>1. CASE d = e /\ b = c
    BY <2>1, <1>b DEF WaitInv
  <2>2. CASE ~(d = e /\ b = c)
    <3>1. /\ pc'[d][b] = pc[d][b] /\ req'[d][b] = req[d][b] /\ chan'[d][b] = chan[d][b]
          /\ WaitInv(d, b)
      BY <2>2, <1>b DEF IInv
    <3>2. Entry(d, b)' = Entry(d, b) /\ Entry(d, b).by = b
      BY <3>1 DEF Entry
    <3>3. Entry(d, b) \in pending[d] => Entry(d, b) \in pending'[d]
      BY <2>2, <3>2, <1>c
    <3> QED
      BY <3>1, <3>2, <3>3 DEF WaitInv
  <2> QED
    BY <2>1, <2>2
<1>6. \A d \in End, b \in Caller :
        /\ req'[d][b] # None => req'[d][b] = req[d][b]
        /\ Unsent(d, b)' => Unsent(d, b) /\ req'[d][b] = req[d][b]
  BY <1>b DEF Unsent
<1> QED
  BY <1>1, <1>2, <1>3, <1>4, <1>5, <1>6

\* An entry belongs to a caller exactly when it has the RequestID of the caller.
LEMMA RemoveFacts ==
  ASSUME IInv, NEW e \in End, NEW c \in Caller, pc[e][c] # "idle"
  PROVE  \A p \in pending[e] : p.id = req[e][c].id <=> p.by = c
<1> TAKE p \in pending[e]
<1>1. p.by \in Caller /\ p = Entry(e, p.by) /\ pc[e][p.by] \in Waiting
  BY DEF IInv, TypeOK, PendingInv, Entries
<1>2. req[e][p.by] # None /\ p.id = req[e][p.by].id /\ req[e][c] # None
  BY <1>1, CallerFacts DEF Waiting
<1> QED
  BY <1>1, <1>2 DEF IInv, CallerInv

\* A request starts under a RequestID that nobody has used before.
LEMMA BeginKeeps ==
  ASSUME IInv, NEW e \in End, NEW c \in Caller, NEW type \in {"announce", "get"},
         Begin(e, c, type)
  PROVE  IInv'
<1>a. TypeOK /\ next \in [End -> Nat]
  BY DEF IInv, TypeOK
<1>b. /\ next' \in [End -> Nat] /\ next'[e] = next[e] + 1
      /\ \A d \in End : d # e => next'[d] = next[d]
  BY <1>a DEF Begin
<1>c. \A d \in End : next[d] <= next'[d] /\ next'[d] <= Requests[d]
  BY <1>a, <1>b, RequestsAssumption DEF Begin, TypeOK
<1>d. PICK r \in Request :
        r = [type |-> type, reply |-> FALSE, id |-> [lane |-> e, n |-> next[e] + 1]]
  <2>1. [type |-> type, reply |-> FALSE, id |-> [lane |-> e, n |-> next[e] + 1]] \in Request
    BY <1>a DEF Request, Id
  <2> QED
    BY <2>1
<1>e. r # None
  BY SentinelFacts
<1>f. Start(e, c, "begun", r)
  BY <1>b, <1>d DEF Begin
<1>g. /\ pc' \in [End -> [Caller -> Step]]
      /\ req' \in [End -> [Caller -> Request \cup {None}]]
      /\ \A d \in End, b \in Caller :
           /\ pc'[d][b] = IF d = e /\ b = c THEN "begun" ELSE pc[d][b]
           /\ req'[d][b] = IF d = e /\ b = c THEN r ELSE req[d][b]
      /\ chan' = chan
  BY <1>a, <1>f, StartEffect DEF Step
<1>h. /\ UNCHANGED <<wire, link, closed, pending, reader, routed, queue>>
      /\ pc[e][c] = "idle"
  BY DEF Begin
<1>i. r.id \in Id /\ r.id.lane = e /\ r.id.n = next[e] + 1
  BY <1>a, <1>d DEF Id
\* The RequestID is new.
<1>j. \A id \in Id : id.n <= next[id.lane] => id # r.id
  BY <1>a, <1>i DEF Id
<1>k. \A d \in End, b \in Caller : req[d][b] # None =>
        /\ req[d][b] \in Request /\ req[d][b].id \in Id
        /\ req[d][b].id.n <= next[req[d][b].id.lane] /\ req[d][b].id # r.id
  <2> TAKE d \in End, b \in Caller
  <2> HAVE req[d][b] # None
  <2>1. req[d][b] \in Request
    BY <1>a DEF TypeOK
  <2>2. req[d][b].id.n <= next[req[d][b].id.lane]
    BY DEF IInv, CallerInv
  <2> QED
    BY <1>j, <2>1, <2>2 DEF Request
<1>1. TypeOK'
  BY <1>a, <1>b, <1>c, <1>g, <1>h DEF TypeOK, Step
<1>2. ASSUME NEW d \in End PROVE FramesInv(d)'
  BY <1>a, <1>b, <1>c, <1>h, FramesKept DEF IInv
<1>4. ASSUME NEW d \in End PROVE PendingInv(d)'
  <2>1. PendingInv(d) /\ pending[d] \subseteq Entries
    BY <1>a DEF IInv, TypeOK
  <2> QED
    BY Zenon, <2>1, <1>g, <1>h DEF PendingInv, Entry, Entries, Waiting
<1>l. \A d \in End : routed[d] # None =>
        /\ routed[d].frame \in Frame /\ routed[d].entry.id # r.id
        /\ FrameInv(d, routed[d].frame)
  <2> TAKE d \in End
  <2> HAVE routed[d] # None
  <2>1. routed[d].frame \in Frame /\ routed[d].frame.id \in Id
    BY <1>a DEF TypeOK, Frame, Routed
  <2>2. FrameInv(d, routed[d].frame) /\ routed[d].entry.id = routed[d].frame.id
    BY DEF IInv, RoutedInv
  <2> QED
    BY <1>j, <2>1, <2>2 DEF FrameInv
<1>5. ASSUME NEW d \in End PROVE RoutedInv(d)' /\ ReaderInv(d)'
  <2>1. RoutedInv(d) /\ ReaderInv(d)
    BY DEF IInv
  <2>2. \A f \in Frame : FrameInv(d, f) => FrameInv(d, f)'
    BY <1>a, <1>b, <1>c, FrameKept
  <2>3. routed[d] # None => FrameInv(d, routed[d].frame)'
    BY <2>2, <1>h, <1>l DEF FrameInv
  <2> QED
    BY <2>1, <2>3, <1>g, <1>h, <1>l DEF RoutedInv, ReaderInv, Entry, Waiting
<1>6. ASSUME NEW d \in End, NEW b \in Caller PROVE CallerInv(d, b)'
  <2>1. CallerInv(d, b) /\ CallerInv(e, c)
    BY DEF IInv
  <2>2. CASE d = e /\ b = c
    <3>1. /\ req'[d][b] = r /\ pc'[d][b] = "begun" /\ chan'[d][b] = None
          /\ r.id.n <= next'[r.id.lane]
      <4>1. chan[d][b] = None
        BY Zenon, <2>1, <2>2, <1>h DEF CallerInv
      <4>2. r.id.n <= next'[r.id.lane]
        BY <1>a, <1>b, <1>i
      <4> QED
        BY Zenon, <2>2, <4>1, <4>2, <1>g
    <3>2. ASSUME NEW a \in Caller, req'[d][a] # None, req'[d][a].id = r.id
          PROVE  a = b
      <4>1. CASE a # b
        <5>1. req'[d][a] = req[d][a]
          BY <2>2, <4>1, <1>g
        <5> QED
          BY Zenon, <3>2, <5>1, <1>k
      <4> QED
        BY <4>1
    <3>3. r.type = "announce" => r.id.lane = d
      BY Zenon, <2>2, <1>i
    <3> QED
      BY <3>1, <3>2, <3>3, <1>e DEF CallerInv
  <2>3. CASE ~(d = e /\ b = c)
    <3>1. req[d][b] # None => /\ req[d][b].id.lane \in End /\ req[d][b].id.n \in Nat
                              /\ next'[req[d][b].id.lane] \in Nat
                              /\ req[d][b].id.n <= next'[req[d][b].id.lane]
      BY <1>a, <1>b, <1>c, <1>k DEF Id
    <3>2. req'[d][b] = req[d][b] /\ pc'[d][b] = pc[d][b] /\ chan'[d][b] = chan[d][b]
      BY <2>3, <1>g
    <3>3. ASSUME req[d][b] # None, NEW a \in Caller, req'[d][a] # None,
                 req'[d][a].id = req[d][b].id
          PROVE  a = b
      <4>1. req'[d][a] = req[d][a]
        BY <3>3, <1>g, <1>k
      <4> QED
        BY <2>1, <3>3, <4>1 DEF CallerInv
    <3> QED
      BY <2>1, <3>1, <3>2, <3>3 DEF CallerInv
  <2> QED
    BY <2>2, <2>3
<1>7. ASSUME NEW d \in End, NEW b \in Caller PROVE WaitInv(d, b)'
  <2>1. WaitInv(d, b)
    BY DEF IInv
  <2> QED
    BY Zenon, <2>1, <1>g, <1>h DEF WaitInv, Entry
<1>8. ASSUME NEW d \in End PROVE AnnouncedOnce(d)'
  <2>1. AnnouncedOnce(d) /\ FramesInv(d) /\ Peer(d) \in End
    BY PeerFacts DEF IInv
  <2>2. \A id \in Id : Untaken(d, id) /\ id # r.id => Untaken(d, id)'
    BY <1>g, <1>h DEF Untaken
  <2>3. \A i \in 1 .. Len(wire[d]) : WireAnnounces(d, i) =>
          wire[d][i].id \in Id /\ wire[d][i].id # r.id
    <3> SUFFICES ASSUME NEW i \in 1 .. Len(wire[d]), WireAnnounces(d, i)
                 PROVE  wire[d][i].id \in Id /\ wire[d][i].id # r.id
      OBVIOUS
    <3>1. wire[d][i] \in Frame
      BY <1>a DEF TypeOK, WireAnnounces
    <3> QED
      BY <1>j, <2>1, <3>1 DEF FramesInv, FrameInv, WireAnnounces, Frame
  <2>4. \A i \in 1 .. Len(queue[d]) : queue[d][i].id \in Id /\ queue[d][i].id # r.id
    <3> TAKE i \in 1 .. Len(queue[d])
    <3>1. queue[d][i] \in Frame
      BY <1>a DEF TypeOK
    <3> QED
      BY <1>j, <2>1, <3>1 DEF FramesInv, FrameInv, Frame
  <2>5. \A i \in 1 .. Len(queue[d]) :
          QueueAnnounces(d, i) => Untaken(d, queue[d][i].id)'
    BY <2>1, <2>2, <2>4, <1>h DEF AnnouncedOnce, Untaken
  <2>6. \A i \in 1 .. Len(wire[d]) :
          WireAnnounces(d, i) => Untaken(d, wire[d][i].id)'
    BY <2>1, <2>2, <2>3, <1>h DEF AnnouncedOnce, Untaken
  <2>7. ASSUME NEW b \in Caller, Unsent(Peer(d), b)'
        PROVE  /\ Untaken(d, req[Peer(d)][b].id)'
               /\ \A i \in 1 .. Len(wire[d]) :
                    WireAnnounces(d, i) => req'[Peer(d)][b].id # wire[d][i].id
               /\ \A i \in 1 .. Len(queue[d]) :
                    QueueAnnounces(d, i) => req'[Peer(d)][b].id # queue[d][i].id
    <3>1. CASE Peer(d) = e /\ b = c
      <4>1. req'[Peer(d)][b] = r /\ d # e
        BY <3>1, <2>1, <1>g, PeerFacts
      <4>2. Untaken(d, r.id)'
        BY <4>1, <1>g, <1>h, <1>k, <1>l DEF Untaken
      <4> QED
        BY <4>1, <4>2, <2>3, <2>4 DEF Untaken
    <3>2. CASE ~(Peer(d) = e /\ b = c)
      <4>1. req'[Peer(d)][b] = req[Peer(d)][b] /\ Unsent(Peer(d), b)
        BY <3>2, <2>7, <2>1, <1>g DEF Unsent
      <4>2. req[Peer(d)][b].id \in Id /\ req[Peer(d)][b].id # r.id
        BY <4>1, <1>k, <2>1 DEF Unsent
      <4>3. /\ Untaken(d, req[Peer(d)][b].id)
            /\ \A i \in 1 .. Len(wire[d]) :
                 WireAnnounces(d, i) => req[Peer(d)][b].id # wire[d][i].id
            /\ \A i \in 1 .. Len(queue[d]) :
                 QueueAnnounces(d, i) => req[Peer(d)][b].id # queue[d][i].id
        BY Zenon, <4>1, <2>1 DEF AnnouncedOnce
      <4>4. Untaken(d, req[Peer(d)][b].id)'
        BY Zenon, <4>1, <4>2, <4>3, <2>2 DEF Untaken
      <4> QED
        BY Zenon, <4>1, <4>3, <4>4
    <3> QED
      BY <3>1, <3>2
  <2> QED
    BY Zenon, <2>1, <2>5, <2>6, <2>7, <1>h DEF AnnouncedOnce, QueueAnnounces, WireAnnounces
<1> QED
  BY <1>1, <1>2, <1>4, <1>5, <1>6, <1>7, <1>8 DEF IInv

\* The entry of a request is the only one under its RequestID.
LEMMA RegisterKeeps ==
  ASSUME IInv, NEW e \in End, NEW c \in Caller, Register(e, c)
  PROVE  IInv'
<1>a. TypeOK /\ pc[e][c] = "begun"
  BY DEF IInv, Register
<1>b. /\ pc' \in [End -> [Caller -> Step]]
      /\ \A d \in End, b \in Caller :
           pc'[d][b] = IF d = e /\ b = c THEN "registered" ELSE pc[d][b]
      /\ req' = req /\ chan' = chan
  BY <1>a, GotoEffect DEF Register, Step, Waiting
<1>c. UNCHANGED <<wire, link, closed, next, reader, routed, queue>>
  BY DEF Register
<1>d. /\ Entry(e, c) \in Entries /\ Entry(e, c).id = req[e][c].id /\ Entry(e, c).by = c
      /\ req[e][c] # None /\ chan[e][c] = None
  BY <1>a, CallerFacts DEF IInv, CallerInv
<1>e. /\ pending' \in [End -> SUBSET Entries]
      /\ pending'[e] = pending[e] \cup {Entry(e, c)}
      /\ \A d \in End : d # e => pending'[d] = pending[d]
  BY <1>a, <1>d DEF TypeOK, Register
<1>1. TypeOK'
  BY <1>a, <1>b, <1>c, <1>e DEF TypeOK, Step
<1>2. ASSUME NEW d \in End PROVE FramesInv(d)'
  BY <1>c, FramesSame DEF IInv
<1>3. ASSUME NEW d \in End PROVE AnnouncedOnce(d)'
  <2>1. AnnouncedOnce(d) /\ Peer(d) \in End
    BY PeerFacts DEF IInv
  <2>2. \A b \in Caller : Unsent(Peer(d), b)' => Unsent(Peer(d), b)
    BY <2>1, <1>a, <1>b DEF Unsent
  <2> QED
    BY <2>1, <2>2, <1>b, <1>c, AnnouncedUnmoved
<1>4. ASSUME NEW d \in End PROVE PendingInv(d)'
  <2>1. PendingInv(d) /\ pending[d] \subseteq Entries
    BY <1>a DEF IInv, TypeOK
  <2>2. CASE d # e
    BY <2>1, <2>2, <1>b, <1>e DEF PendingInv, Entry, Entries
  <2>3. CASE d = e
    <3>1. IsFiniteSet(pending'[e]) /\ Cardinality(pending'[e]) <= MaxPending[e]
      <4>1. /\ IsFiniteSet(pending[e]) /\ Cardinality(pending[e]) < MaxPending[e]
            /\ Entry(e, c) \notin pending[e]
        BY <2>1, <2>3, <1>d DEF PendingInv, Register, Admits
      <4>2. Cardinality(pending[e]) \in Nat /\ MaxPending[e] \in Nat
        BY <4>1, FS_CardinalityType, LimitsAssumption
      <4>3. /\ IsFiniteSet(pending[e] \cup {Entry(e, c)})
            /\ Cardinality(pending[e] \cup {Entry(e, c)}) = Cardinality(pending[e]) + 1
        BY <4>1, FS_AddElement
      <4> QED
        BY <4>1, <4>2, <4>3, <1>e
    <3>2. ASSUME NEW p \in pending'[e]
          PROVE  /\ pc'[e][p.by] \in Waiting /\ p = Entry(e, p.by)' /\ chan'[e][p.by] = None
      BY <2>1, <2>3, <1>a, <1>b, <1>d, <1>e DEF PendingInv, Entry, Entries, Waiting
    <3> QED
      BY <2>3, <3>1, <3>2 DEF PendingInv
  <2> QED
    BY <2>2, <2>3
<1>5. ASSUME NEW d \in End PROVE RoutedInv(d)' /\ ReaderInv(d)'
  <2>1. RoutedInv(d) /\ ReaderInv(d)
    BY DEF IInv
  <2>2. d = e /\ routed[d] # None => routed[d].entry.id # req[e][c].id
    BY Zenon, <2>1, <1>a, <1>d DEF RoutedInv, Waiting
  <2>3. ReaderInv(d)'
    BY Zenon, <2>1, <1>c DEF ReaderInv
  <2>4. \A b \in Caller : Entry(d, b)' = Entry(d, b)
    BY Zenon, <1>b DEF Entry
  <2>5. routed[d] # None => \A q \in pending'[d] : q.id # routed[d].entry.id
    BY Zenon, <2>1, <2>2, <1>d, <1>e DEF RoutedInv
  <2>6. \A b \in Caller : pc[d][b] \in Waiting => pc'[d][b] \in Waiting
    BY Zenon, <1>b DEF Waiting
  <2>7. RoutedInv(d)'
    BY Zenon, <2>1, <2>4, <2>5, <2>6, <1>b, <1>c DEF RoutedInv, FrameInv
  <2> QED
    BY <2>3, <2>7
<1>6. ASSUME NEW d \in End, NEW b \in Caller PROVE CallerInv(d, b)'
  <2>1. CallerInv(d, b)
    BY DEF IInv
  <2> QED
    BY Zenon, <2>1, <1>a, <1>b, <1>c DEF CallerInv
<1>7. ASSUME NEW d \in End, NEW b \in Caller PROVE WaitInv(d, b)'
  <2>1. WaitInv(d, b)
    BY DEF IInv
  <2> QED
    BY Zenon, <2>1, <1>b, <1>c, <1>e DEF WaitInv, Entry
<1> QED
  BY <1>1, <1>2, <1>3, <1>4, <1>5, <1>6, <1>7 DEF IInv

\* A request that is refused has left nothing in the map.
LEMMA RefuseKeeps ==
  ASSUME IInv, NEW e \in End, NEW c \in Caller, Refuse(e, c)
  PROVE  IInv'
<1>1. /\ pc[e][c] = "begun" /\ Return(e, c)
      /\ UNCHANGED <<wire, link, closed, next, pending, reader, routed, queue>>
  BY DEF Refuse
<1>2. pending' = [pending EXCEPT ![e] = {p \in @ : p.by # c}]
  <2>1. pending \in [End -> SUBSET Entries]
    BY DEF IInv, TypeOK
  <2>2. \A p \in pending[e] : p.by # c
    BY Zenon, <1>1 DEF IInv, PendingInv, Waiting
  <2> QED
    BY <2>1, <2>2, <1>1
<1>3. wire' \in [End -> Seq(Frame \cup {None})]
  BY <1>1 DEF IInv, TypeOK
<1>4. /\ TypeOK'
      /\ \A d \in End : PendingInv(d)' /\ RoutedInv(d)' /\ ReaderInv(d)'
      /\ \A d \in End, b \in Caller :
           /\ CallerInv(d, b)' /\ WaitInv(d, b)'
           /\ req'[d][b] # None => req'[d][b] = req[d][b]
           /\ Unsent(d, b)' => Unsent(d, b) /\ req'[d][b] = req[d][b]
  BY Zenon, <1>1, <1>2, <1>3, ReturnKeeps
<1>5. ASSUME NEW d \in End PROVE FramesInv(d)' /\ AnnouncedOnce(d)'
  <2>1. Peer(d) \in End
    BY PeerFacts
  <2> QED
    BY Zenon, <1>1, <1>4, <2>1, FramesSame, AnnouncedUnmoved DEF IInv
<1> QED
  BY <1>4, <1>5 DEF IInv

\* A request that cannot be sent takes its entry with it ...
LEMMA SendFailsKeeps ==
  ASSUME IInv, NEW e \in End, NEW c \in Caller, SendFails(e, c)
  PROVE  IInv'
<1>1. /\ pc[e][c] \in {"registered", "sending"} /\ Return(e, c)
      /\ wire' = wire \/ wire' = Written(e, None)
      /\ UNCHANGED <<link, closed, next, reader, routed, queue>>
  BY DEF SendFails
<1>2. pending' = [pending EXCEPT ![e] = {p \in @ : p.by # c}]
  <2>1. pending \in [End -> SUBSET Entries]
    BY DEF IInv, TypeOK
  <2>2. {p \in pending[e] : p.id # req[e][c].id} = {p \in pending[e] : p.by # c}
    BY <1>1, RemoveFacts
  <2> QED
    BY Zenon, <2>1, <2>2 DEF SendFails, Remove
<1>3. wire' \in [End -> Seq(Frame \cup {None})]
  BY <1>1, WrittenFacts DEF IInv
<1>4. /\ TypeOK'
      /\ \A d \in End : PendingInv(d)' /\ RoutedInv(d)' /\ ReaderInv(d)'
      /\ \A d \in End, b \in Caller :
           /\ CallerInv(d, b)' /\ WaitInv(d, b)'
           /\ req'[d][b] # None => req'[d][b] = req[d][b]
           /\ Unsent(d, b)' => Unsent(d, b) /\ req'[d][b] = req[d][b]
  BY Zenon, <1>1, <1>2, <1>3, ReturnKeeps
<1>5. ASSUME NEW d \in End PROVE FramesInv(d)' /\ AnnouncedOnce(d)'
  <2>1. Peer(d) \in End
    BY PeerFacts
  <2> QED
    BY Zenon, <1>1, <1>4, <2>1, SentKeeps
<1> QED
  BY <1>4, <1>5 DEF IInv

\* ... and so does one that timed out.
LEMMA ExpireKeeps ==
  ASSUME IInv, NEW e \in End, NEW c \in Caller, Expire(e, c)
  PROVE  IInv'
<1>1. /\ pc[e][c] = "expired" /\ Return(e, c)
      /\ UNCHANGED <<wire, link, closed, next, reader, routed, queue>>
  BY DEF Expire
<1>2. pending' = [pending EXCEPT ![e] = {p \in @ : p.by # c}]
  <2>1. pending \in [End -> SUBSET Entries]
    BY DEF IInv, TypeOK
  <2>2. {p \in pending[e] : p.id # req[e][c].id} = {p \in pending[e] : p.by # c}
    BY <1>1, RemoveFacts
  <2> QED
    BY Zenon, <2>1, <2>2 DEF Expire, Remove
<1>3. wire' \in [End -> Seq(Frame \cup {None})]
  BY <1>1 DEF IInv, TypeOK
<1>4. /\ TypeOK'
      /\ \A d \in End : PendingInv(d)' /\ RoutedInv(d)' /\ ReaderInv(d)'
      /\ \A d \in End, b \in Caller :
           /\ CallerInv(d, b)' /\ WaitInv(d, b)'
           /\ req'[d][b] # None => req'[d][b] = req[d][b]
           /\ Unsent(d, b)' => Unsent(d, b) /\ req'[d][b] = req[d][b]
  BY Zenon, <1>1, <1>2, <1>3, ReturnKeeps
<1>5. ASSUME NEW d \in End PROVE FramesInv(d)' /\ AnnouncedOnce(d)'
  <2>1. Peer(d) \in End
    BY PeerFacts
  <2> QED
    BY Zenon, <1>1, <1>4, <2>1, FramesSame, AnnouncedUnmoved DEF IInv
<1> QED
  BY <1>4, <1>5 DEF IInv

\* The verdict on an announcement answers a request of the peer.
LEMMA ReplyKeeps ==
  ASSUME IInv, NEW e \in End, NEW c \in Caller, Reply(e, c)
  PROVE  IInv'
<1>a. /\ pc[e][c] = "reply" /\ Return(e, c)
      /\ UNCHANGED <<link, closed, next, pending, reader, routed, queue>>
  BY DEF Reply
<1>b. req[e][c].id \in Id /\ req[e][c].id.n <= next[req[e][c].id.lane] /\ Peer(e) \in End
  BY Zenon, <1>a, CallerFacts, PeerFacts DEF IInv, CallerInv
<1>1. PICK f \in Frame : f = [kind |-> "result", id |-> req[e][c].id, asker |-> Peer(e)]
  <2>1. [kind |-> "result", id |-> req[e][c].id, asker |-> Peer(e)] \in Frame
    BY <1>b DEF Frame
  <2> QED
    BY <2>1
<1>c. /\ wire' = wire \/ wire' = Written(e, f)
      /\ f.kind # "announce" /\ FrameInv(Peer(e), f)
  BY <1>1, <1>b DEF Reply, FrameInv
<1>2. pending' = [pending EXCEPT ![e] = {p \in @ : p.by # c}]
  <2>1. pending \in [End -> SUBSET Entries]
    BY DEF IInv, TypeOK
  <2>2. \A p \in pending[e] : p.by # c
    BY Zenon, <1>a DEF IInv, PendingInv, Waiting
  <2> QED
    BY <2>1, <2>2, <1>a
<1>3. wire' \in [End -> Seq(Frame \cup {None})]
  BY Zenon, <1>c, WrittenFacts DEF IInv
<1>4. /\ TypeOK'
      /\ \A d \in End : PendingInv(d)' /\ RoutedInv(d)' /\ ReaderInv(d)'
      /\ \A d \in End, b \in Caller :
           /\ CallerInv(d, b)' /\ WaitInv(d, b)'
           /\ req'[d][b] # None => req'[d][b] = req[d][b]
           /\ Unsent(d, b)' => Unsent(d, b) /\ req'[d][b] = req[d][b]
  BY <1>a, <1>2, <1>3, ReturnKeeps
<1>5. ASSUME NEW d \in End PROVE FramesInv(d)' /\ AnnouncedOnce(d)'
  <2>1. Peer(d) \in End
    BY PeerFacts
  <2> QED
    BY Zenon, <1>a, <1>c, <1>4, <2>1, SentKeeps
<1> QED
  BY Zenon, <1>4, <1>5 DEF IInv

\* A caller that has registered its request moves on.
LEMMA GotoKeeps ==
  ASSUME IInv, NEW e \in End, NEW c \in Caller,
         NEW step \in {"sending", "waiting", "expired", "reply"},
         pc[e][c] \in {"registered", "sending", "waiting"}, Goto(e, c, step),
         step = "sending" => pc[e][c] = "registered" /\ ~closed[e],
         step = "waiting" => pc[e][c] = "sending",
         step = "reply" => chan[e][c] # None,
         UNCHANGED <<link, closed, next, pending, reader, routed, queue>>,
         wire' \in [End -> Seq(Frame \cup {None})]
  PROVE  /\ TypeOK'
         /\ \A d \in End : PendingInv(d)' /\ RoutedInv(d)' /\ ReaderInv(d)'
         /\ \A d \in End, b \in Caller :
              /\ CallerInv(d, b)' /\ WaitInv(d, b)'
              /\ Unsent(d, b)' => Unsent(d, b)
         /\ req' = req
<1>a. TypeOK
  BY DEF IInv
<1>b. /\ pc' \in [End -> [Caller -> Step]]
      /\ \A d \in End, b \in Caller :
           pc'[d][b] = IF d = e /\ b = c THEN step ELSE pc[d][b]
      /\ req' = req /\ chan' = chan
  BY <1>a, GotoEffect DEF Step, Waiting
<1>c. \A d \in End, b \in Caller : Entry(d, b)' = Entry(d, b)
  BY <1>b DEF Entry
<1>1. TypeOK'
  BY <1>a, <1>b DEF TypeOK, Step
<1>2. ASSUME NEW d \in End PROVE PendingInv(d)'
  <2>1. PendingInv(d) /\ pending[d] \subseteq Entries
    BY Zenon, <1>a DEF IInv, TypeOK
  <2>2. \A p \in pending[d] : p.by \in Caller
    BY Zenon, <2>1 DEF Entries
  <2> QED
    BY Zenon, <2>1, <2>2, <1>b, <1>c DEF PendingInv, Waiting
<1>3. ASSUME NEW d \in End PROVE RoutedInv(d)' /\ ReaderInv(d)'
  <2>1. RoutedInv(d) /\ ReaderInv(d)
    BY DEF IInv
  <2>2. routed[d] # None => FrameInv(d, routed[d].frame)'
    BY Zenon, <2>1 DEF RoutedInv, FrameInv
  <2>3. ReaderInv(d)'
    BY <2>1 DEF ReaderInv
  <2>4. ASSUME routed[d] # None, NEW b \in Caller,
               req'[d][b] # None, req'[d][b].id = routed[d].entry.id
        PROVE  /\ pc'[d][b] \in Waiting /\ chan'[d][b] = None
               /\ routed[d].entry = Entry(d, b)'
    BY Zenon, <2>1, <2>4, <1>b, <1>c DEF RoutedInv, Waiting
  <2> QED
    BY Zenon, <2>1, <2>2, <2>3, <2>4 DEF RoutedInv
<1>4. ASSUME NEW d \in End, NEW b \in Caller PROVE CallerInv(d, b)'
  <2>1. CallerInv(d, b)
    BY Zenon DEF IInv
  <2> QED
    BY <2>1, <1>b DEF CallerInv
<1>5. ASSUME NEW d \in End, NEW b \in Caller PROVE WaitInv(d, b)'
  <2>1. WaitInv(d, b) /\ ReaderInv(d)
    BY DEF IInv
  <2> QED
    BY <2>1, <1>b, <1>c DEF WaitInv, ReaderInv
<1>6. \A d \in End, b \in Caller : Unsent(d, b)' => Unsent(d, b)
  BY Zenon, <1>b DEF Unsent
<1> QED
  BY Zenon, <1>1, <1>2, <1>3, <1>4, <1>5, <1>6, <1>b

\* A caller that goes on to send, or that gives up waiting, keeps its entry.
LEMMA SendFrameKeeps ==
  ASSUME IInv, NEW e \in End, NEW c \in Caller, SendFrame(e, c) \/ Timeout(e, c)
  PROVE  IInv'
<1>1. PICK step \in {"sending", "expired"} :
        /\ Goto(e, c, step) /\ pc[e][c] \in {"registered", "waiting"}
        /\ step = "sending" => pc[e][c] = "registered" /\ ~closed[e]
        /\ UNCHANGED <<wire, link, closed, next, pending, reader, routed, queue>>
  BY DEF SendFrame, Timeout
<1>2. wire' \in [End -> Seq(Frame \cup {None})]
  BY <1>1 DEF IInv, TypeOK
<1>3. /\ TypeOK'
      /\ \A d \in End : PendingInv(d)' /\ RoutedInv(d)' /\ ReaderInv(d)'
      /\ \A d \in End, b \in Caller :
           /\ CallerInv(d, b)' /\ WaitInv(d, b)'
           /\ Unsent(d, b)' => Unsent(d, b)
      /\ req' = req
  BY Zenon, <1>1, <1>2, GotoKeeps
<1>4. ASSUME NEW d \in End PROVE FramesInv(d)' /\ AnnouncedOnce(d)'
  <2>1. Peer(d) \in End
    BY PeerFacts
  <2> QED
    BY Zenon, <1>1, <1>3, <2>1, FramesSame, AnnouncedUnmoved DEF IInv
<1> QED
  BY <1>3, <1>4 DEF IInv

\* A caller that received something has no entry left.
LEMMA ReceiveKeeps ==
  ASSUME IInv, NEW e \in End, NEW c \in Caller, Receive(e, c)
  PROVE  IInv'
<1>1. /\ pc[e][c] = "waiting" /\ chan[e][c] # None
      /\ Goto(e, c, "reply") \/ Return(e, c)
      /\ UNCHANGED <<wire, link, closed, next, pending, reader, routed, queue>>
  BY DEF Receive
<1>2. wire' \in [End -> Seq(Frame \cup {None})]
  BY <1>1 DEF IInv, TypeOK
<1>3. pending' = [pending EXCEPT ![e] = {p \in @ : p.by # c}]
  <2>1. pending \in [End -> SUBSET Entries]
    BY DEF IInv, TypeOK
  <2>2. \A p \in pending[e] : p.by # c
    BY Zenon, <1>1 DEF IInv, PendingInv
  <2> QED
    BY Zenon, <2>1, <2>2, <1>1
<1>4. /\ TypeOK'
      /\ \A d \in End : PendingInv(d)' /\ RoutedInv(d)' /\ ReaderInv(d)'
      /\ \A d \in End, b \in Caller :
           /\ CallerInv(d, b)' /\ WaitInv(d, b)'
           /\ req'[d][b] # None => req'[d][b] = req[d][b]
           /\ Unsent(d, b)' => Unsent(d, b) /\ req'[d][b] = req[d][b]
  <2>1. CASE Goto(e, c, "reply")
    BY <2>1, <1>1, <1>2, GotoKeeps
  <2>2. CASE Return(e, c)
    BY <2>2, <1>1, <1>2, <1>3, ReturnKeeps
  <2> QED
    BY Zenon, <1>1, <2>1, <2>2
<1>5. ASSUME NEW d \in End PROVE FramesInv(d)' /\ AnnouncedOnce(d)'
  <2>1. Peer(d) \in End
    BY PeerFacts
  <2> QED
    BY Zenon, <1>1, <1>4, <2>1, FramesSame, AnnouncedUnmoved DEF IInv
<1> QED
  BY <1>4, <1>5 DEF IInv

\* An announcement leaves its caller when it is written.
LEMMA WriteKeeps ==
  ASSUME IInv, NEW e \in End, NEW c \in Caller, Write(e, c)
  PROVE  IInv'
<1>a. /\ pc[e][c] = "sending" /\ Goto(e, c, "waiting")
      /\ UNCHANGED <<link, closed, next, pending, reader, routed, queue>>
  BY DEF Write
<1>b. /\ req[e][c] \in Request /\ req[e][c] # None /\ req[e][c].id \in Id
      /\ CallerInv(e, c) /\ Peer(e) \in End /\ Peer(e) # e /\ Peer(Peer(e)) = e
  BY Zenon, <1>a, CallerFacts, PeerFacts DEF IInv
<1>1. PICK f \in Frame : f = [kind |-> req[e][c].type, id |-> req[e][c].id, asker |-> e]
  <2>1. [kind |-> req[e][c].type, id |-> req[e][c].id, asker |-> e] \in Frame
    BY <1>b DEF Frame, Request
  <2> QED
    BY <2>1
<1>c. wire' = Written(e, f) /\ f # None /\ f.id = req[e][c].id /\ f.kind = req[e][c].type
  BY <1>1, SentinelFacts DEF Write
<1>d. FrameInv(Peer(e), f)
  <2>1. f.kind \in {"announce", "get"}
    BY <1>b, <1>c DEF Request
  <2> QED
    BY <1>1, <1>b, <2>1 DEF FrameInv, CallerInv
<1>2. /\ wire' \in [End -> Seq(Frame \cup {None})]
      /\ \A d \in End : \A i \in 1 .. Len(wire'[d]) :
           \/ i \in 1 .. Len(wire[d]) /\ wire'[d][i] = wire[d][i]
           \/ d = Peer(e) /\ i = Len(wire[d]) + 1 /\ wire'[d][i] = f
  BY <1>c, WrittenFacts DEF IInv
<1>3. /\ TypeOK'
      /\ \A d \in End : PendingInv(d)' /\ RoutedInv(d)' /\ ReaderInv(d)'
      /\ \A d \in End, b \in Caller :
           /\ CallerInv(d, b)' /\ WaitInv(d, b)'
           /\ Unsent(d, b)' => Unsent(d, b)
      /\ req' = req
  BY <1>a, <1>2, GotoKeeps
<1>4. ASSUME NEW d \in End PROVE FramesInv(d)'
  <2>1. FramesInv(d)
    BY DEF IInv
  <2> QED
    BY Zenon, <2>1, <1>2, <1>a, <1>d DEF FramesInv, FrameInv
<1>5. ASSUME NEW d \in End PROVE AnnouncedOnce(d)'
  <2>a. AnnouncedOnce(d) /\ Peer(d) \in End /\ queue' = queue /\ routed' = routed
    BY <1>a, PeerFacts DEF IInv
  <2>b. \A i \in 1 .. Len(queue'[d]) : QueueAnnounces(d, i)' =>
          i + 0 \in 1 .. Len(queue[d]) /\ queue'[d][i] = queue[d][i + 0]
    BY <2>a
  <2>1. CASE d = e \/ f.kind # "announce"
    <3>1. \A i \in 1 .. Len(wire'[d]) : WireAnnounces(d, i)' =>
            i + 0 \in 1 .. Len(wire[d]) /\ wire'[d][i] = wire[d][i + 0]
      BY <2>1, <1>2, <1>b DEF WireAnnounces
    <3> QED
      BY Zenon, <2>a, <2>b, <3>1, <1>3, AnnouncedKept
  <2>2. CASE d = Peer(e) /\ f.kind = "announce"
    <3>a. Unsent(e, c) /\ e = Peer(d) /\ req' = req
      BY Zenon, <2>2, <1>a, <1>b, <1>c, <1>3 DEF Unsent
    <3>b. \A b \in Caller : Unsent(e, b)' => Unsent(e, b) /\ req[e][b].id # f.id
      <4> SUFFICES ASSUME NEW b \in Caller, Unsent(e, b)'
                   PROVE  Unsent(e, b) /\ req[e][b].id # f.id
        OBVIOUS
      <4>1. Unsent(e, b) /\ pc'[e][b] # "waiting" /\ req[e][b] # None
        BY <1>3 DEF Unsent
      <4>2. pc'[e][c] = "waiting"
        <5>1. "waiting" \in Step
          BY DEF Step, Waiting
        <5>2. TypeOK
          BY Zenon DEF IInv
        <5>3. Goto(e, c, "waiting")
          BY Zenon, <1>a
        <5> QED
          BY <5>1, <5>2, <5>3, GotoEffect
      <4> QED
        BY Zenon, <4>1, <4>2, <1>b, <1>c DEF CallerInv
    <3>c. \A id : Untaken(d, id) => Untaken(d, id)'
      BY Zenon, <1>3, <2>a DEF Untaken
    <3>d. \A i \in 1 .. Len(wire'[d]) : WireAnnounces(d, i)' =>
            \/ i \in 1 .. Len(wire[d]) /\ wire'[d][i] = wire[d][i] /\ WireAnnounces(d, i)
            \/ i = Len(wire[d]) + 1 /\ wire'[d][i] = f
      BY <1>2 DEF WireAnnounces
    <3>1. ASSUME NEW i \in 1 .. Len(queue'[d]), QueueAnnounces(d, i)'
          PROVE  /\ Untaken(d, queue[d][i].id)'
                 /\ \A j \in 1 .. Len(queue'[d]) :
                      QueueAnnounces(d, j)' /\ queue'[d][i].id = queue'[d][j].id => i = j
      <4>1. i \in 1 .. Len(queue[d]) /\ QueueAnnounces(d, i)
        BY <2>a, <3>1 DEF QueueAnnounces
      <4> QED
        BY Zenon, <2>a, <3>c, <4>1 DEF AnnouncedOnce, QueueAnnounces, Untaken
    <3>2. ASSUME NEW i \in 1 .. Len(wire'[d]), WireAnnounces(d, i)'
          PROVE  Untaken(d, wire[d][i].id)'
      <4>1. CASE i \in 1 .. Len(wire[d]) /\ wire'[d][i] = wire[d][i] /\ WireAnnounces(d, i)
        <5>1. Untaken(d, wire[d][i].id)
          BY Zenon, <2>a, <4>1 DEF AnnouncedOnce
        <5> QED
          BY Zenon, <3>c, <4>1, <5>1 DEF Untaken
      <4>2. CASE wire'[d][i] = f
        <5>1. Untaken(d, req[Peer(d)][c].id)
          BY Zenon, <2>a, <3>a DEF AnnouncedOnce
        <5>2. Untaken(d, f.id)'
          BY Zenon, <3>a, <3>c, <5>1, <1>c DEF Untaken
        <5> QED
          BY Zenon, <4>2, <5>2 DEF Untaken
      <4> QED
        BY <3>2, <3>d, <4>1, <4>2
    <3>3. ASSUME NEW i \in 1 .. Len(wire'[d]), WireAnnounces(d, i)',
                 NEW j \in 1 .. Len(wire'[d]), WireAnnounces(d, j)',
                 wire'[d][i].id = wire'[d][j].id
          PROVE  i = j
      <4>1. \A k \in 1 .. Len(wire[d]) : WireAnnounces(d, k) => wire[d][k].id # f.id
        BY <2>a, <3>a, <1>c DEF AnnouncedOnce
      <4>2. \A k, l \in 1 .. Len(wire[d]) :
              WireAnnounces(d, k) /\ WireAnnounces(d, l) /\ wire[d][k].id = wire[d][l].id
                => k = l
        BY <2>a DEF AnnouncedOnce
      <4> QED
        BY Zenon, <3>d, <3>3, <4>1, <4>2
    <3>4. ASSUME NEW i \in 1 .. Len(wire'[d]), WireAnnounces(d, i)',
                 NEW j \in 1 .. Len(queue'[d]), QueueAnnounces(d, j)'
          PROVE  wire'[d][i].id # queue'[d][j].id
      <4>1. j \in 1 .. Len(queue[d]) /\ QueueAnnounces(d, j) /\ queue'[d][j] = queue[d][j]
        BY Zenon, <2>a, <3>4 DEF QueueAnnounces
      <4>2. f.id # queue[d][j].id
        BY Zenon, <2>a, <3>a, <4>1, <1>c DEF AnnouncedOnce
      <4>3. i \in 1 .. Len(wire[d]) /\ WireAnnounces(d, i) => wire[d][i].id # queue[d][j].id
        BY Zenon, <2>a, <4>1 DEF AnnouncedOnce
      <4> QED
        BY Zenon, <3>d, <3>4, <4>1, <4>2, <4>3
    <3>5. ASSUME NEW b \in Caller, Unsent(Peer(d), b)'
          PROVE  /\ Untaken(d, req[Peer(d)][b].id)'
                 /\ \A i \in 1 .. Len(wire'[d]) :
                      WireAnnounces(d, i)' => req'[Peer(d)][b].id # wire'[d][i].id
                 /\ \A i \in 1 .. Len(queue'[d]) :
                      QueueAnnounces(d, i)' => req'[Peer(d)][b].id # queue'[d][i].id
      <4>1. Unsent(Peer(d), b) /\ req[Peer(d)][b].id # f.id
        BY <3>5, <3>a, <3>b
      <4>2. Untaken(d, req[Peer(d)][b].id)'
        BY Zenon, <2>a, <3>a, <3>c, <4>1 DEF AnnouncedOnce, Untaken
      <4> QED
        <5>1. /\ \A i \in 1 .. Len(wire[d]) :
                   WireAnnounces(d, i) => req[Peer(d)][b].id # wire[d][i].id
              /\ \A i \in 1 .. Len(queue[d]) :
                   QueueAnnounces(d, i) => req[Peer(d)][b].id # queue[d][i].id
          BY Zenon, <2>a, <4>1 DEF AnnouncedOnce
        <5>2. \A i \in 1 .. Len(wire'[d]) :
                WireAnnounces(d, i)' => req[Peer(d)][b].id # wire'[d][i].id
          BY Zenon, <3>d, <4>1, <5>1
        <5>3. \A i \in 1 .. Len(queue'[d]) :
                QueueAnnounces(d, i)' => req[Peer(d)][b].id # queue'[d][i].id
          BY Zenon, <2>a, <5>1 DEF QueueAnnounces
        <5> QED
          BY Zenon, <3>a, <4>2, <5>2, <5>3
    <3> QED
      BY <3>1, <3>2, <3>3, <3>4, <3>5 DEF AnnouncedOnce
  <2> QED
    BY <2>1, <2>2, PeerFacts
<1> QED
  BY <1>3, <1>4, <1>5 DEF IInv

\* What is on a wire after its first frame was read.
LEMMA ReadFacts ==
  ASSUME TypeOK, NEW e \in End, wire[e] # <<>>, wire' = [wire EXCEPT ![e] = Tail(@)]
  PROVE  /\ wire' \in [End -> Seq(Frame \cup {None})]
         /\ 1 \in 1 .. Len(wire[e]) /\ Head(wire[e]) = wire[e][1]
         /\ \A d \in End : d # e => wire'[d] = wire[d]
         /\ Len(wire'[e]) = Len(wire[e]) - 1
         /\ \A i \in 1 .. Len(wire'[e]) :
              i + 1 \in 1 .. Len(wire[e]) /\ wire'[e][i] = wire[e][i + 1]
<1>1. wire \in [End -> Seq(Frame \cup {None})] /\ wire[e] \in Seq(Frame \cup {None})
  BY DEF TypeOK
<1>2. /\ Tail(wire[e]) \in Seq(Frame \cup {None}) /\ Len(Tail(wire[e])) = Len(wire[e]) - 1
      /\ 1 \in 1 .. Len(wire[e]) /\ Head(wire[e]) = wire[e][1]
      /\ \A i \in 1 .. Len(wire[e]) - 1 :
           Tail(wire[e])[i] = wire[e][i + 1] /\ i + 1 \in 1 .. Len(wire[e])
  BY <1>1, TailFacts
<1>3. /\ wire' \in [End -> Seq(Frame \cup {None})] /\ wire'[e] = Tail(wire[e])
      /\ \A d \in End : d # e => wire'[d] = wire[d]
  BY <1>1, <1>2
<1> QED
  BY <1>2, <1>3

\* Reading a frame keeps what is known of the others.
LEMMA ReadKeeps ==
  ASSUME IInv, NEW e \in End, wire[e] # <<>>, wire' = [wire EXCEPT ![e] = Tail(@)],
         UNCHANGED <<next, queue, pc, req>>, NEW d \in End,
         routed'[d] # None => \/ routed[d] # None /\ routed'[d] = routed[d]
                              \/ \E c \in Caller : req[d][c] # None /\ req[d][c].id = routed'[d].entry.id
  PROVE  FramesInv(d)' /\ AnnouncedOnce(d)'
<1>a. FramesInv(d) /\ AnnouncedOnce(d) /\ TypeOK
  BY DEF IInv
<1>b. PICK w \in {0, 1} : \A i \in 1 .. Len(wire'[d]) :
        i + w \in 1 .. Len(wire[d]) /\ wire'[d][i] = wire[d][i + w]
  <2>1. CASE d = e
    BY <2>1, <1>a, ReadFacts
  <2>2. CASE d # e
    <3>1. wire'[d] = wire[d]
      BY <2>2, <1>a, ReadFacts
    <3>2. \A i \in 1 .. Len(wire'[d]) :
            i + 0 \in 1 .. Len(wire[d]) /\ wire'[d][i] = wire[d][i + 0]
      BY <2>2, <3>1
    <3> QED
      BY <3>2
  <2> QED
    BY <2>1, <2>2
<1>1. FramesInv(d)'
  BY <1>a, <1>b, FramesMoved
<1>2. \A i \in 1 .. Len(queue'[d]) : QueueAnnounces(d, i)' =>
        i + 0 \in 1 .. Len(queue[d]) /\ queue'[d][i] = queue[d][i + 0]
  OBVIOUS
<1>3. \A c \in Caller : Unsent(Peer(d), c)' => Unsent(Peer(d), c)
  BY DEF Unsent
<1>4. AnnouncedOnce(d)'
  BY Zenon, <1>a, <1>b, <1>2, <1>3, AnnouncedKept
<1> QED
  BY <1>1, <1>4

\* The reader gives up: the flag is set before anything else happens.
LEMMA StopKeeps ==
  ASSUME IInv, NEW e \in End, NEW then \in {"drain", "drain_shut"},
         reader[e] = "read", Stop(e, then),
         wire' \in [End -> Seq(Frame \cup {None})],
         UNCHANGED <<link, pending, routed, queue, next, pc, req, chan>>
  PROVE  /\ TypeOK'
         /\ \A d \in End : PendingInv(d)' /\ RoutedInv(d)' /\ ReaderInv(d)'
         /\ \A d \in End, b \in Caller : CallerInv(d, b)' /\ WaitInv(d, b)'
<1>a. TypeOK
  BY DEF IInv
<1>b. /\ closed' \in [End -> BOOLEAN] /\ closed'[e] = TRUE
      /\ reader' \in [End -> {"read", "deliver", "drain", "drain_shut", "exited"}]
      /\ reader'[e] = then
      /\ \A d \in End : d # e => closed'[d] = closed[d] /\ reader'[d] = reader[d]
  BY <1>a DEF TypeOK, Stop
<1>c. \A d \in End, b \in Caller : Entry(d, b)' = Entry(d, b)
  BY DEF Entry
<1>1. TypeOK'
  BY <1>a, <1>b DEF TypeOK
<1>2. ASSUME NEW d \in End PROVE PendingInv(d)'
  <2>1. PendingInv(d) /\ pending[d] \subseteq Entries
    BY <1>a DEF IInv, TypeOK
  <2>2. \A p \in pending[d] : p.by \in Caller
    BY Zenon, <2>1 DEF Entries
  <2> QED
    BY Zenon, <2>1, <2>2, <1>c DEF PendingInv
<1>3. ASSUME NEW d \in End PROVE RoutedInv(d)' /\ ReaderInv(d)'
  <2>1. RoutedInv(d) /\ ReaderInv(d)
    BY DEF IInv
  <2>2. ReaderInv(d)'
    BY <2>1, <1>b DEF ReaderInv
  <2>3. CASE d = e
    BY Zenon, <2>1, <2>2, <2>3, <1>b DEF RoutedInv
  <2>4. CASE d # e
    BY Zenon, <2>1, <2>2, <2>4, <1>b, <1>c DEF RoutedInv, FrameInv
  <2> QED
    BY <2>2, <2>3, <2>4
<1>4. ASSUME NEW d \in End, NEW b \in Caller PROVE CallerInv(d, b)'
  <2>1. CallerInv(d, b)
    BY Zenon DEF IInv
  <2> QED
    BY <2>1 DEF CallerInv
<1>5. ASSUME NEW d \in End, NEW b \in Caller PROVE WaitInv(d, b)'
  <2>1. WaitInv(d, b)
    BY DEF IInv
  <2> QED
    BY Zenon, <2>1, <1>b, <1>c DEF WaitInv
<1> QED
  BY <1>1, <1>2, <1>3, <1>4, <1>5

\* The ways a reader stops all set the flag first.
LEMMA ReadEndKeeps ==
  ASSUME IInv, NEW e \in End, RateLimit(e) \/ ReadEof(e) \/ ReadError(e)
  PROVE  IInv'
<1>1. /\ reader[e] = "read"
      /\ Stop(e, "drain") \/ Stop(e, "drain_shut")
      /\ UNCHANGED <<link, pending, routed, queue, next, pc, req, chan>>
      /\ wire' = wire \/ (wire[e] # <<>> /\ wire' = [wire EXCEPT ![e] = Tail(@)])
  BY DEF RateLimit, ReadEof, ReadError, Readable, threads
<1>2. wire' \in [End -> Seq(Frame \cup {None})]
  <2>1. TypeOK
    BY DEF IInv
  <2>2. CASE wire' = wire
    BY <2>1, <2>2 DEF TypeOK
  <2>3. CASE wire[e] # <<>> /\ wire' = [wire EXCEPT ![e] = Tail(@)]
    BY Zenon, <2>1, <2>3, ReadFacts
  <2> QED
    BY <1>1, <2>2, <2>3
<1>3. /\ TypeOK'
      /\ \A d \in End : PendingInv(d)' /\ RoutedInv(d)' /\ ReaderInv(d)'
      /\ \A d \in End, b \in Caller : CallerInv(d, b)' /\ WaitInv(d, b)'
  BY <1>1, <1>2, StopKeeps
<1>4. ASSUME NEW d \in End PROVE FramesInv(d)' /\ AnnouncedOnce(d)'
  <2>1. CASE wire' = wire
    <3>1. \A c \in Caller : Unsent(Peer(d), c)' => Unsent(Peer(d), c)
      BY <1>1 DEF Unsent
    <3> QED
      BY Zenon, <1>1, <2>1, <3>1, FramesSame, AnnouncedUnmoved DEF IInv
  <2>2. CASE wire[e] # <<>> /\ wire' = [wire EXCEPT ![e] = Tail(@)]
    BY Zenon, <1>1, <2>2, ReadKeeps
  <2> QED
    BY <1>1, <2>1, <2>2
<1> QED
  BY <1>3, <1>4 DEF IInv

\* close() leaves the map to the reader.
LEMMA CloseKeeps ==
  ASSUME IInv, NEW e \in End, Close(e) \/ Shutdown(e)
  PROVE  IInv'
<1>1. UNCHANGED <<wire, pending, reader, routed, queue, next, pc, req, chan>>
  BY DEF Close, Shutdown, threads
<1>2. /\ closed' \in [End -> BOOLEAN] /\ link' \in [End -> {"open", "closing", "shut"}]
      /\ \A d \in End : closed[d] => closed'[d]
  BY Zenon DEF IInv, TypeOK, Close, Shutdown
<1>3. TypeOK'
  BY <1>1, <1>2 DEF IInv, TypeOK
<1>4. ASSUME NEW d \in End
      PROVE  FramesInv(d)' /\ AnnouncedOnce(d)' /\ PendingInv(d)' /\ RoutedInv(d)' /\ ReaderInv(d)'
  <2>1. FramesInv(d) /\ AnnouncedOnce(d) /\ PendingInv(d) /\ RoutedInv(d) /\ ReaderInv(d)
    BY DEF IInv
  <2>2. FramesInv(d)' /\ AnnouncedOnce(d)'
    <3>1. \A c \in Caller : Unsent(Peer(d), c)' => Unsent(Peer(d), c)
      BY <1>1 DEF Unsent
    <3> QED
      BY <1>1, <2>1, <3>1, FramesSame, AnnouncedUnmoved
  <2>3. PendingInv(d)'
    BY <1>1, <2>1 DEF PendingInv, Entry
  <2>4. RoutedInv(d)' /\ ReaderInv(d)'
    BY Zenon, <1>1, <1>2, <2>1 DEF RoutedInv, ReaderInv, FrameInv, Entry
  <2> QED
    BY <2>2, <2>3, <2>4
<1>5. ASSUME NEW d \in End, NEW b \in Caller PROVE CallerInv(d, b)' /\ WaitInv(d, b)'
  <2>1. CallerInv(d, b) /\ WaitInv(d, b)
    BY DEF IInv
  <2> QED
    BY Zenon, <1>1, <2>1 DEF CallerInv, WaitInv, Entry
<1> QED
  BY <1>3, <1>4, <1>5 DEF IInv

\* A response leaves the map together with its entry.
LEMMA RouteResponseKeeps ==
  ASSUME IInv, NEW e \in End, RouteResponse(e)
  PROVE  IInv'
<1>a. /\ TypeOK /\ reader[e] = "read" /\ wire[e] # <<>> /\ Head(wire[e]) # None
      /\ wire' = [wire EXCEPT ![e] = Tail(@)]
      /\ reader' = [reader EXCEPT ![e] = "deliver"]
      /\ UNCHANGED <<link, closed, queue, next, pc, req, chan>>
  BY DEF IInv, RouteResponse, Readable, threads
<1>b. PICK p \in pending[e] :
        /\ p.id = Head(wire[e]).id /\ p.kind = Head(wire[e]).kind
        /\ pending' = [pending EXCEPT ![e] = @ \ {p}]
        /\ routed' = [routed EXCEPT ![e] = [entry |-> p, frame |-> Head(wire[e])]]
  BY Zenon DEF RouteResponse, Matching
<1>c. /\ wire' \in [End -> Seq(Frame \cup {None})]
      /\ 1 \in 1 .. Len(wire[e]) /\ Head(wire[e]) = wire[e][1]
  BY Zenon, <1>a, ReadFacts
<1>d. PICK f \in Frame : f = Head(wire[e]) /\ FrameInv(e, f)
  <2>1. Head(wire[e]) \in Frame
    BY <1>a, <1>c DEF TypeOK
  <2>2. FrameInv(e, Head(wire[e]))
    BY <1>a, <1>c DEF IInv, FramesInv
  <2> QED
    BY <2>1, <2>2
<1>e. /\ p \in Entries /\ p.by \in Caller /\ p = Entry(e, p.by)
      /\ pc[e][p.by] \in Waiting /\ chan[e][p.by] = None
      /\ req[e][p.by] # None /\ req[e][p.by].id = p.id
  <2>1. /\ p \in Entries /\ p.by \in Caller /\ p = Entry(e, p.by)
        /\ pc[e][p.by] \in Waiting /\ chan[e][p.by] = None
    <3>1. PendingInv(e) /\ p \in Entries
      BY Zenon, <1>a DEF IInv, TypeOK
    <3>2. p.by \in Caller
      BY <3>1 DEF Entries
    <3> QED
      BY Zenon, <3>1, <3>2 DEF PendingInv
  <2> QED
    BY <2>1, CallerFacts DEF Waiting
<1>f. PICK r \in Routed :
        /\ r.entry = p /\ r.frame = f /\ r # None
        /\ routed' = [routed EXCEPT ![e] = r]
  <2>2. [entry |-> p, frame |-> f] \in Routed
    BY <1>e DEF Routed
  <2>3. [entry |-> p, frame |-> f] # None
    BY <2>2, SentinelFacts
  <2> QED
    BY Zenon, <2>2, <2>3, <1>b, <1>d
<1>g. /\ routed' \in [End -> Routed \cup {None}] /\ routed'[e] = r
      /\ pending' \in [End -> SUBSET Entries] /\ pending'[e] = pending[e] \ {p}
      /\ reader' \in [End -> {"read", "deliver", "drain", "drain_shut", "exited"}]
      /\ reader'[e] = "deliver"
      /\ \A d \in End : d # e => /\ routed'[d] = routed[d] /\ pending'[d] = pending[d]
                                 /\ reader'[d] = reader[d]
  BY <1>a, <1>b, <1>f DEF TypeOK
<1>h. \A d \in End, b \in Caller : Entry(d, b)' = Entry(d, b)
  BY <1>a DEF Entry
\* The entry is the only one of its caller.
<1>i. \A q \in pending[e] : q.id = p.id => q = p
  <2>1. \A q \in pending[e] : q.id = p.id => q.by = p.by
    BY <1>e, RemoveFacts DEF Waiting
  <2> QED
    BY Zenon, <1>e, <2>1 DEF IInv, PendingInv
<1>1. TypeOK'
  BY <1>a, <1>c, <1>g DEF TypeOK
<1>2. ASSUME NEW d \in End PROVE PendingInv(d)'
  <2>1. /\ PendingInv(d) /\ pending[d] \subseteq Entries /\ pending'[d] \subseteq pending[d]
    BY Zenon, <1>a, <1>g DEF IInv, TypeOK
  <2>2. \A q \in pending[d] : q.by \in Caller
    BY <2>1 DEF Entries
  <2>3. IsFiniteSet(pending'[d]) /\ Cardinality(pending'[d]) <= MaxPending[d]
    BY Zenon, <2>1, PendingShrinks DEF PendingInv
  <2> QED
    BY Zenon, <2>1, <2>2, <2>3, <1>a, <1>h DEF PendingInv
<1>3. ASSUME NEW d \in End PROVE RoutedInv(d)'
  <2>1. RoutedInv(d)
    BY DEF IInv
  <2>2. CASE d # e
    BY Zenon, <2>1, <2>2, <1>a, <1>g, <1>h DEF RoutedInv, FrameInv
  <2>3. CASE d = e
    <3>1. routed'[e] # None /\ routed'[e].entry = p /\ routed'[e].frame = f
      BY <1>f, <1>g
    <3>2. FrameInv(e, routed[e].frame)'
      BY Zenon, <3>1, <1>a, <1>d DEF FrameInv
    <3>3. \A q \in pending'[e] : q.id # p.id
      BY <1>g, <1>i
    <3>4. ASSUME NEW c \in Caller, req[e][c] # None, req[e][c].id = p.id
          PROVE  c = p.by
      <4>1. CallerInv(e, p.by)
        BY Zenon, <1>e DEF IInv
      <4> QED
        BY Zenon, <3>4, <4>1, <1>e DEF CallerInv
    <3>5. p.id = f.id /\ p.kind = f.kind
      BY Zenon, <1>b, <1>d
    <3>6. \A c \in Caller : req[e][c] # None /\ req[e][c].id = p.id =>
            /\ pc[e][c] \in Waiting /\ chan[e][c] = None /\ p = Entry(e, c)
      BY Zenon, <3>4, <1>e
    <3> QED
      BY Zenon, <2>3, <3>1, <3>2, <3>3, <3>5, <3>6, <1>a, <1>g, <1>h DEF RoutedInv
  <2> QED
    BY Zenon, <2>2, <2>3
<1>4. ASSUME NEW d \in End PROVE ReaderInv(d)'
  BY Zenon, <1>a, <1>g DEF IInv, ReaderInv
<1>5. ASSUME NEW d \in End, NEW b \in Caller PROVE CallerInv(d, b)'
  <2>1. CallerInv(d, b)
    BY Zenon DEF IInv
  <2> QED
    BY Zenon, <2>1, <1>a DEF CallerInv
<1>6. ASSUME NEW d \in End, NEW b \in Caller PROVE WaitInv(d, b)'
  <2>1. WaitInv(d, b) /\ RoutedInv(d)
    BY Zenon DEF IInv
  <2>2. CASE d # e
    BY Zenon, <2>1, <2>2, <1>a, <1>g, <1>h DEF WaitInv
  <2>3. CASE d = e
    <3>1. routed[e] = None
      BY Zenon, <2>1, <2>3, <1>a DEF RoutedInv
    <3> QED
      BY Zenon, <2>1, <2>3, <3>1, <1>a, <1>f, <1>g, <1>h DEF WaitInv
  <2> QED
    BY <2>2, <2>3
<1>7. ASSUME NEW d \in End PROVE FramesInv(d)' /\ AnnouncedOnce(d)'
  <2>1. routed'[d] # None => \/ routed[d] # None /\ routed'[d] = routed[d]
                             \/ \E c \in Caller : req[d][c] # None /\ req[d][c].id = routed'[d].entry.id
    <3>1. CASE d = e
      BY <3>1, <1>e, <1>f, <1>g
    <3>2. CASE d # e
      BY Zenon, <3>2, <1>g
    <3> QED
      BY <3>1, <3>2
  <2> QED
    BY Zenon, <2>1, <1>a, ReadKeeps
<1> QED
  BY <1>1, <1>2, <1>3, <1>4, <1>5, <1>6, <1>7 DEF IInv

\* The response reaches the caller it was routed for, or nobody.
LEMMA DeliverKeeps ==
  ASSUME IInv, NEW e \in End, Deliver(e)
  PROVE  IInv'
<1>a. /\ TypeOK /\ RoutedInv(e) /\ routed[e] # None /\ routed[e] \in Routed
      /\ UNCHANGED <<wire, link, closed, pending, queue, next, pc, req>>
  BY Zenon DEF IInv, TypeOK, RoutedInv, Deliver, threads
<1>b. PICK entry \in Entries, f \in Frame : entry = routed[e].entry /\ f = routed[e].frame
  BY Zenon, <1>a DEF Routed
<1>c. /\ chan' \in [End -> [Caller -> Frame \cup {None, Stopped}]]
      /\ \A b \in Caller :
           chan'[e][b] = IF Listening(e, b, entry) THEN f ELSE chan[e][b]
      /\ \A d \in End : d # e => chan'[d] = chan[d]
  BY Zenon, <1>a, <1>b DEF TypeOK, Deliver
<1>d. /\ routed' \in [End -> Routed \cup {None}] /\ routed'[e] = None
      /\ reader' \in [End -> {"read", "deliver", "drain", "drain_shut", "exited"}]
      /\ reader'[e] = "read"
      /\ \A d \in End : d # e => routed'[d] = routed[d] /\ reader'[d] = reader[d]
  BY Zenon, <1>a DEF TypeOK, Deliver
<1>e. \A d \in End, b \in Caller : Entry(d, b)' = Entry(d, b)
  BY <1>a DEF Entry
<1>f. \A b \in Caller : Listening(e, b, entry) =>
        /\ pc[e][b] \in Waiting /\ chan[e][b] = None /\ entry = Entry(e, b)
        /\ req[e][b] # None
  BY Zenon, <1>a, <1>b DEF RoutedInv, Listening
<1>1. TypeOK'
  BY <1>a, <1>c, <1>d DEF TypeOK
<1>2. ASSUME NEW d \in End PROVE PendingInv(d)'
  <2>1. PendingInv(d) /\ pending[d] \subseteq Entries
    BY <1>a DEF IInv, TypeOK
  <2>2. \A p \in pending[d] : p.by \in Caller /\ p.id = req[d][p.by].id
    BY <2>1 DEF Entries, PendingInv, Entry
  <2>3. \A p \in pending[d] : chan'[d][p.by] = None
    <3>1. CASE d = e
      <4>1. \A p \in pending[e] : ~Listening(e, p.by, entry)
        BY Zenon, <3>1, <2>2, <1>a, <1>b DEF RoutedInv, Listening
      <4> QED
        BY Zenon, <3>1, <4>1, <2>1, <2>2, <1>c DEF PendingInv
    <3>2. CASE d # e
      BY Zenon, <3>2, <2>1, <1>c DEF PendingInv
    <3> QED
      BY <3>1, <3>2
  <2> QED
    BY Zenon, <2>1, <2>2, <2>3, <1>a, <1>e DEF PendingInv
<1>3. ASSUME NEW d \in End PROVE RoutedInv(d)'
  <2>1. RoutedInv(d)
    BY DEF IInv
  <2>2. CASE d = e
    BY <2>2, <1>d DEF RoutedInv
  <2>3. CASE d # e
    BY Zenon, <2>1, <2>3, <1>a, <1>c, <1>d, <1>e DEF RoutedInv, FrameInv
  <2> QED
    BY <2>2, <2>3
<1>4. ASSUME NEW d \in End PROVE ReaderInv(d)'
  BY Zenon, <1>a, <1>d DEF IInv, ReaderInv
<1>5. ASSUME NEW d \in End, NEW b \in Caller PROVE CallerInv(d, b)'
  <2>1. CallerInv(d, b)
    BY DEF IInv
  <2>2. CASE d = e /\ Listening(e, b, entry)
    <3>1. chan'[d][b] = f /\ pc[e][b] \in Waiting /\ entry = Entry(e, b) /\ req[e][b] # None
      BY Zenon, <2>2, <1>c, <1>f
    <3>2. f.id = req[e][b].id /\ f.kind = Expected(req[e][b].type)
      <4>1. f.id = entry.id /\ f.kind = entry.kind
        BY Zenon, <1>a, <1>b DEF RoutedInv
      <4>2. entry.id = req[e][b].id /\ entry.kind = Expected(req[e][b].type)
        BY <3>1 DEF Entry
      <4> QED
        BY <4>1, <4>2
    <3>3. f.asker = e
      <4>1. f.kind \in {"result", "data"}
        BY <3>2 DEF Expected
      <4> QED
        BY <4>1, <1>a, <1>b DEF RoutedInv, FrameInv
    <3> QED
      BY Zenon, <2>1, <2>2, <3>1, <3>2, <3>3, <1>a DEF CallerInv, Waiting
  <2>3. CASE ~(d = e /\ Listening(e, b, entry))
    <3>1. chan'[d][b] = chan[d][b]
      BY <2>3, <1>c
    <3> QED
      BY Zenon, <2>1, <3>1, <1>a DEF CallerInv
  <2> QED
    BY <2>2, <2>3
<1>6. ASSUME NEW d \in End, NEW b \in Caller PROVE WaitInv(d, b)'
  <2>1. WaitInv(d, b)
    BY DEF IInv
  <2>2. CASE d # e
    BY Zenon, <2>1, <2>2, <1>a, <1>c, <1>d, <1>e DEF WaitInv
  <2>3. CASE d = e
    <3>1. pc[e][b] # "idle" /\ entry = Entry(e, b) => Listening(e, b, entry)
      BY CallerFacts DEF Listening
    <3>2. Listening(e, b, entry) => chan'[e][b] # None
      BY <1>c, SentinelFacts
    <3>3. ~Listening(e, b, entry) => chan'[e][b] = chan[e][b]
      BY <1>c
    <3> QED
      BY <2>1, <2>3, <3>1, <3>2, <3>3, <1>a, <1>b, <1>d, <1>e DEF WaitInv
  <2> QED
    BY <2>2, <2>3
<1>7. ASSUME NEW d \in End PROVE FramesInv(d)' /\ AnnouncedOnce(d)'
  <2>1. \A c \in Caller : Unsent(Peer(d), c)' => Unsent(Peer(d), c)
    BY <1>a DEF Unsent
  <2>2. routed'[d] # None => routed'[d] = routed[d]
    BY <1>d
  <2> QED
    BY <1>a, <2>1, <2>2, FramesSame, AnnouncedUnmoved DEF IInv
<1> QED
  BY <1>1, <1>2, <1>3, <1>4, <1>5, <1>6, <1>7 DEF IInv

\* Every waiter of the map is told before the reader is gone.
LEMMA DrainKeeps ==
  ASSUME IInv, NEW e \in End, Drain(e)
  PROVE  IInv'
<1>a. /\ TypeOK /\ RoutedInv(e) /\ reader[e] \in {"drain", "drain_shut"} /\ closed[e]
      /\ UNCHANGED <<wire, closed, routed, queue, next, pc, req>>
  BY DEF IInv, ReaderInv, Drain, threads
<1>b. routed[e] = None
  BY <1>a DEF RoutedInv
<1>c. /\ chan' \in [End -> [Caller -> Frame \cup {None, Stopped}]]
      /\ \A b \in Caller :
           chan'[e][b] = IF \E p \in pending[e] : Listening(e, b, p) THEN Stopped
                                                                     ELSE chan[e][b]
      /\ \A d \in End : d # e => chan'[d] = chan[d]
  BY <1>a DEF TypeOK, Drain
<1>d. /\ pending' \in [End -> SUBSET Entries] /\ pending'[e] = {}
      /\ reader' \in [End -> {"read", "deliver", "drain", "drain_shut", "exited"}]
      /\ reader'[e] = "exited"
      /\ \A d \in End : d # e => pending'[d] = pending[d] /\ reader'[d] = reader[d]
      /\ link' \in [End -> {"open", "closing", "shut"}]
  BY <1>a DEF TypeOK, Drain
<1>e. \A d \in End, b \in Caller : Entry(d, b)' = Entry(d, b)
  BY <1>a DEF Entry
<1>f. \A b \in Caller : (\E p \in pending[e] : Listening(e, b, p)) => pc[e][b] \in Waiting
  BY DEF IInv, PendingInv, Listening
<1>1. TypeOK'
  BY <1>a, <1>c, <1>d DEF TypeOK
<1>2. ASSUME NEW d \in End PROVE PendingInv(d)'
  <2>1. PendingInv(d) /\ pending[d] \subseteq Entries
    BY <1>a DEF IInv, TypeOK
  <2>2. CASE d = e
    <3>1. IsFiniteSet({}) /\ Cardinality({}) = 0
      BY FS_EmptySet
    <3>2. MaxPending[e] \in Nat
      BY LimitsAssumption
    <3> QED
      BY <2>2, <3>1, <3>2, <1>d DEF PendingInv
  <2>3. CASE d # e
    <3>1. \A p \in pending[d] : p.by \in Caller
      BY Zenon, <2>1 DEF Entries
    <3> QED
      <4>1. pending'[d] = pending[d] /\ chan'[d] = chan[d] /\ pc'[d] = pc[d]
        BY Zenon, <2>3, <1>a, <1>c, <1>d
      <4> QED
        BY <2>1, <3>1, <4>1, <1>e DEF PendingInv
  <2> QED
    BY <2>2, <2>3
<1>3. ASSUME NEW d \in End PROVE RoutedInv(d)'
  <2>1. RoutedInv(d)
    BY DEF IInv
  <2>2. CASE d = e
    BY Zenon, <2>2, <1>a, <1>b, <1>d DEF RoutedInv
  <2>3. CASE d # e
    <3>1. /\ pending'[d] = pending[d] /\ chan'[d] = chan[d] /\ pc'[d] = pc[d]
          /\ reader'[d] = reader[d] /\ routed'[d] = routed[d] /\ req' = req /\ next' = next
      BY Zenon, <2>3, <1>a, <1>c, <1>d
    <3> QED
      BY Zenon, <2>1, <3>1, <1>e DEF RoutedInv, FrameInv
  <2> QED
    BY <2>2, <2>3
<1>4. ASSUME NEW d \in End PROVE ReaderInv(d)'
  BY <1>a, <1>d DEF IInv, ReaderInv
<1>5. ASSUME NEW d \in End, NEW b \in Caller PROVE CallerInv(d, b)'
  <2>1. CallerInv(d, b)
    BY DEF IInv
  <2>2. CASE d = e /\ \E p \in pending[e] : Listening(e, b, p)
    <3>1. chan'[d][b] = Stopped /\ pc[d][b] \in Waiting
      BY Zenon, <2>2, <1>c, <1>f
    <3> QED
      BY Zenon, <2>1, <3>1, <1>a DEF CallerInv, Waiting
  <2>3. CASE ~(d = e /\ \E p \in pending[e] : Listening(e, b, p))
    <3>1. chan'[d][b] = chan[d][b]
      BY <2>3, <1>c
    <3> QED
      BY Zenon, <2>1, <3>1, <1>a DEF CallerInv
  <2> QED
    BY <2>2, <2>3
<1>6. ASSUME NEW d \in End, NEW b \in Caller PROVE WaitInv(d, b)'
  <2>1. WaitInv(d, b)
    BY DEF IInv
  <2>2. CASE d # e
    BY Zenon, <2>1, <2>2, <1>a, <1>c, <1>d, <1>e DEF WaitInv
  <2>3. CASE d = e
    <3>1. pc[e][b] # "idle" => Listening(e, b, Entry(e, b))
      BY Zenon, CallerFacts DEF Listening
    <3>2. pc[e][b] \in {"registered", "sending", "waiting"} => chan'[e][b] # None
      BY Zenon, <2>1, <2>3, <3>1, <1>b, <1>c, SentinelFacts DEF WaitInv
    <3> QED
      BY Zenon, <2>3, <3>2, <1>a DEF WaitInv
  <2> QED
    BY <2>2, <2>3
<1>7. ASSUME NEW d \in End PROVE FramesInv(d)' /\ AnnouncedOnce(d)'
  <2>1. \A c \in Caller : Unsent(Peer(d), c)' => Unsent(Peer(d), c)
    BY Zenon, <1>a DEF Unsent
  <2> QED
    BY Zenon, <1>a, <2>1, FramesSame, AnnouncedUnmoved DEF IInv
<1> QED
  BY <1>1, <1>2, <1>3, <1>4, <1>5, <1>6, <1>7 DEF IInv

\* Frames that change channels leave the threads alone.
LEMMA ChannelKeeps ==
  ASSUME IInv, UNCHANGED <<link, closed, next, pending, reader, routed, pc, req, chan>>,
         wire' \in [End -> Seq(Frame \cup {None})], queue' \in [End -> Seq(Frame)],
         \A d \in End : Len(queue'[d]) <= MaxQueue
  PROVE  /\ TypeOK'
         /\ \A d \in End : PendingInv(d)' /\ RoutedInv(d)' /\ ReaderInv(d)'
         /\ \A d \in End, b \in Caller : CallerInv(d, b)' /\ WaitInv(d, b)'
<1>a. TypeOK
  BY DEF IInv
<1>b. \A d \in End, b \in Caller : Entry(d, b)' = Entry(d, b)
  BY DEF Entry
<1>1. TypeOK'
  BY <1>a DEF TypeOK
<1>2. ASSUME NEW d \in End PROVE PendingInv(d)'
  <2>1. PendingInv(d) /\ pending[d] \subseteq Entries
    BY <1>a DEF IInv, TypeOK
  <2>2. \A p \in pending[d] : p.by \in Caller
    BY Zenon, <2>1 DEF Entries
  <2> QED
    BY Zenon, <2>1, <2>2, <1>b DEF PendingInv
<1>3. ASSUME NEW d \in End PROVE RoutedInv(d)' /\ ReaderInv(d)'
  <2>1. RoutedInv(d) /\ ReaderInv(d)
    BY DEF IInv
  <2> QED
    BY Zenon, <2>1, <1>b DEF RoutedInv, ReaderInv, FrameInv
<1>4. ASSUME NEW d \in End, NEW b \in Caller PROVE CallerInv(d, b)' /\ WaitInv(d, b)'
  <2>1. CallerInv(d, b) /\ WaitInv(d, b)
    BY DEF IInv
  <2> QED
    BY Zenon, <2>1, <1>b DEF CallerInv, WaitInv
<1> QED
  BY <1>1, <1>2, <1>3, <1>4

\* A frame goes from the wire to the queue of the dispatcher, if it has room.
LEMMA RouteUnsolicitedKeeps ==
  ASSUME IInv, NEW e \in End, RouteUnsolicited(e)
  PROVE  IInv'
<1>a. /\ TypeOK /\ reader[e] = "read" /\ wire[e] # <<>> /\ Head(wire[e]) # None
      /\ wire' = [wire EXCEPT ![e] = Tail(@)]
      /\ UNCHANGED <<link, pending, routed, next, pc, req, chan>>
  BY DEF IInv, RouteUnsolicited, Readable, threads
<1>b. /\ wire' \in [End -> Seq(Frame \cup {None})]
      /\ 1 \in 1 .. Len(wire[e]) /\ Head(wire[e]) = wire[e][1]
      /\ \A d \in End : d # e => wire'[d] = wire[d]
      /\ \A i \in 1 .. Len(wire'[e]) :
           i + 1 \in 1 .. Len(wire[e]) /\ wire'[e][i] = wire[e][i + 1]
  BY Zenon, <1>a, ReadFacts
<1>1. CASE QueueFull(e)
  <2>1. Stop(e, "drain_shut") /\ queue' = queue
    BY <1>1 DEF RouteUnsolicited
  <2>2. /\ TypeOK'
        /\ \A d \in End : PendingInv(d)' /\ RoutedInv(d)' /\ ReaderInv(d)'
        /\ \A d \in End, b \in Caller : CallerInv(d, b)' /\ WaitInv(d, b)'
    BY <1>a, <1>b, <2>1, StopKeeps
  <2>3. ASSUME NEW d \in End PROVE FramesInv(d)' /\ AnnouncedOnce(d)'
    BY Zenon, <1>a, <2>1, ReadKeeps
  <2> QED
    BY <2>2, <2>3 DEF IInv
<1>2. CASE ~QueueFull(e)
  <2>a. PICK f \in Frame : f = wire[e][1]
    BY <1>a, <1>b DEF TypeOK
  <2>b. /\ queue' = [queue EXCEPT ![e] = Append(@, f)] /\ UNCHANGED <<closed, reader>>
        /\ Len(queue[e]) < MaxQueue /\ queue[e] \in Seq(Frame)
    BY <1>2, <1>a, <1>b, <2>a, LimitsAssumption DEF RouteUnsolicited, QueueFull, TypeOK
  <2>c. /\ Append(queue[e], f) \in Seq(Frame)
        /\ Len(Append(queue[e], f)) = Len(queue[e]) + 1
        /\ \A i \in 1 .. Len(queue[e]) + 1 :
             Append(queue[e], f)[i] = IF i \in 1 .. Len(queue[e]) THEN queue[e][i] ELSE f
    BY <2>b, AppendFacts
  <2>d. /\ queue'[e] = Append(queue[e], f) /\ \A d \in End : d # e => queue'[d] = queue[d]
        /\ queue' \in [End -> Seq(Frame)]
    BY Zenon, <1>a, <2>b, <2>c DEF TypeOK
  <2>e. Len(queue[e]) \in Nat
    BY <2>b
  <2>f. \A i \in 1 .. Len(queue'[e]) :
          \/ i \in 1 .. Len(queue[e]) /\ queue'[e][i] = queue[e][i]
          \/ i = Len(queue[e]) + 1 /\ queue'[e][i] = wire[e][1]
    BY <2>a, <2>c, <2>d, <2>e
  <2>1. /\ TypeOK'
        /\ \A d \in End : PendingInv(d)' /\ RoutedInv(d)' /\ ReaderInv(d)'
        /\ \A d \in End, b \in Caller : CallerInv(d, b)' /\ WaitInv(d, b)'
    <3>1. \A d \in End : Len(queue'[d]) <= MaxQueue
      BY <1>a, <2>b, <2>c, <2>d, <2>e, LimitsAssumption DEF TypeOK
    <3> QED
      BY <1>a, <1>b, <2>b, <2>d, <3>1, ChannelKeeps
  <2>2. ASSUME NEW d \in End PROVE FramesInv(d)'
    <3>1. FramesInv(d)
      BY DEF IInv
    <3>2. CASE d = e
      <4>1. FrameInv(e, wire[e][1])
        BY Zenon, <3>1, <3>2, <1>a, <1>b DEF FramesInv
      <4>2. \A i \in 1 .. Len(wire'[e]) : wire'[e][i] # None => FrameInv(e, wire'[e][i])
        BY <3>1, <3>2, <1>b DEF FramesInv
      <4>3. \A i \in 1 .. Len(queue'[e]) : FrameInv(e, queue'[e][i])
        BY <3>1, <3>2, <4>1, <2>f DEF FramesInv
      <4> QED
        BY Zenon, <3>2, <4>2, <4>3, <1>a DEF FramesInv, FrameInv
    <3>3. CASE d # e
      <4>1. wire'[d] = wire[d] /\ queue'[d] = queue[d] /\ next' = next
        BY Zenon, <3>3, <1>a, <1>b, <2>d
      <4> QED
        BY Zenon, <3>1, <4>1 DEF FramesInv, FrameInv
    <3> QED
      BY <3>2, <3>3
  <2>3. ASSUME NEW d \in End PROVE AnnouncedOnce(d)'
    <3>1. AnnouncedOnce(d) /\ Peer(d) \in End
      BY PeerFacts DEF IInv
    <3>2. /\ \A id : Untaken(d, id)' <=> Untaken(d, id)
          /\ \A c \in Caller : /\ Unsent(Peer(d), c)' <=> Unsent(Peer(d), c)
                               /\ req'[Peer(d)][c] = req[Peer(d)][c]
      BY Zenon, <1>a DEF Untaken, Unsent
    <3>3. CASE d # e
      <4>1. /\ \A i \in 1 .. Len(wire'[d]) : WireAnnounces(d, i)' =>
                 i + 0 \in 1 .. Len(wire[d]) /\ wire'[d][i] = wire[d][i + 0]
            /\ \A i \in 1 .. Len(queue'[d]) : QueueAnnounces(d, i)' =>
                 i + 0 \in 1 .. Len(queue[d]) /\ queue'[d][i] = queue[d][i + 0]
        <5>1. wire'[d] = wire[d] /\ queue'[d] = queue[d]
          BY Zenon, <3>3, <1>b, <2>d
        <5>2. /\ \A i \in 1 .. Len(wire[d]) : i + 0 = i
              /\ \A i \in 1 .. Len(queue[d]) : i + 0 = i
          OBVIOUS
        <5> QED
          BY Zenon, <5>1, <5>2
      <4> QED
        BY Zenon, <3>1, <3>2, <4>1, <1>a, AnnouncedKept
    <3>4. CASE d = e
      <4>1. ASSUME NEW i \in 1 .. Len(queue'[e]), QueueAnnounces(e, i)'
            PROVE  \/ /\ i \in 1 .. Len(queue[e]) /\ queue'[e][i] = queue[e][i]
                      /\ QueueAnnounces(e, i)
                   \/ /\ i = Len(queue[e]) + 1 /\ queue'[e][i] = wire[e][1]
                      /\ WireAnnounces(e, 1)
        BY <4>1, <2>f, <1>a, <1>b DEF QueueAnnounces, WireAnnounces
      <4>2. ASSUME NEW i \in 1 .. Len(wire'[e]), WireAnnounces(e, i)'
            PROVE  /\ i + 1 \in 1 .. Len(wire[e]) /\ wire'[e][i] = wire[e][i + 1]
                   /\ WireAnnounces(e, i + 1)
        BY <4>2, <1>b DEF WireAnnounces
      <4>3. ASSUME NEW i \in 1 .. Len(queue'[e]), QueueAnnounces(e, i)'
            PROVE  /\ Untaken(e, queue[e][i].id)'
                   /\ \A j \in 1 .. Len(queue'[e]) :
                        QueueAnnounces(e, j)' /\ queue'[e][i].id = queue'[e][j].id => i = j
        <5>1. Untaken(e, queue'[e][i].id)
          BY Zenon, <4>1, <4>3, <3>1, <3>4, <1>b DEF AnnouncedOnce
        <5>2. ASSUME NEW j \in 1 .. Len(queue'[e]), QueueAnnounces(e, j)',
                     queue'[e][i].id = queue'[e][j].id
              PROVE  i = j
          <6>1. /\ \A k \in 1 .. Len(queue[e]) : QueueAnnounces(e, k) =>
                     /\ WireAnnounces(e, 1) => wire[e][1].id # queue[e][k].id
                     /\ \A l \in 1 .. Len(queue[e]) :
                          QueueAnnounces(e, l) /\ queue[e][k].id = queue[e][l].id => k = l
            BY Zenon, <3>1, <3>4, <1>b DEF AnnouncedOnce
          <6> QED
            BY <4>1, <4>3, <5>2, <6>1
        <5>3. Untaken(e, queue[e][i].id)'
          BY Zenon, <5>1, <1>a DEF Untaken
        <5> QED
          BY <5>2, <5>3
      <4>4. ASSUME NEW i \in 1 .. Len(wire'[e]), WireAnnounces(e, i)'
            PROVE  /\ Untaken(e, wire[e][i].id)'
                   /\ \A j \in 1 .. Len(wire'[e]) :
                        WireAnnounces(e, j)' /\ wire'[e][i].id = wire'[e][j].id => i = j
                   /\ \A j \in 1 .. Len(queue'[e]) :
                        QueueAnnounces(e, j)' => wire'[e][i].id # queue'[e][j].id
        <5>1. Untaken(e, wire'[e][i].id)
          BY Zenon, <4>2, <4>4, <3>1, <3>4 DEF AnnouncedOnce
        <5>2. ASSUME NEW j \in 1 .. Len(wire'[e]), WireAnnounces(e, j)',
                     wire'[e][i].id = wire'[e][j].id
              PROVE  i = j
          <6>1. i + 1 = j + 1
            BY Zenon, <4>2, <4>4, <5>2, <3>1, <3>4, AnnouncedApart
          <6> QED
            BY <6>1
        <5>3. ASSUME NEW j \in 1 .. Len(queue'[e]), QueueAnnounces(e, j)'
              PROVE  wire'[e][i].id # queue'[e][j].id
          <6>1. CASE j \in 1 .. Len(queue[e]) /\ queue'[e][j] = queue[e][j] /\ QueueAnnounces(e, j)
            <7>1. wire[e][i + 1].id # queue[e][j].id
              BY Zenon, <4>2, <4>4, <6>1, <3>1, <3>4, AnnouncedApart
            <7> QED
              BY Zenon, <4>2, <4>4, <6>1, <7>1
          <6>2. CASE queue'[e][j] = wire[e][1] /\ WireAnnounces(e, 1)
            <7>1. wire[e][i + 1].id = wire[e][1].id => i + 1 = 1
              BY Zenon, <4>2, <4>4, <6>2, <3>1, <3>4, <1>b DEF AnnouncedOnce
            <7> QED
              BY <4>2, <4>4, <6>2, <7>1
          <6> QED
            BY <4>1, <5>3, <6>1, <6>2
        <5>4. Untaken(e, wire[e][i].id)'
          BY <5>1, <1>a DEF Untaken
        <5> QED
          BY <5>2, <5>3, <5>4
      <4>5. ASSUME NEW c \in Caller, Unsent(Peer(e), c)'
            PROVE  /\ Untaken(e, req[Peer(e)][c].id)'
                   /\ \A i \in 1 .. Len(wire'[e]) :
                        WireAnnounces(e, i)' => req'[Peer(e)][c].id # wire'[e][i].id
                   /\ \A i \in 1 .. Len(queue'[e]) :
                        QueueAnnounces(e, i)' => req'[Peer(e)][c].id # queue'[e][i].id
        <5>1. Unsent(Peer(e), c) /\ req'[Peer(e)][c] = req[Peer(e)][c]
          BY Zenon, <4>5, <3>2, <3>4
        <5>2. Untaken(e, req[Peer(e)][c].id)'
          BY Zenon, <5>1, <3>1, <3>4, <1>a DEF AnnouncedOnce, Untaken
        <5>3. /\ \A i \in 1 .. Len(wire[e]) :
                   WireAnnounces(e, i) => req[Peer(e)][c].id # wire[e][i].id
              /\ \A i \in 1 .. Len(queue[e]) :
                   QueueAnnounces(e, i) => req[Peer(e)][c].id # queue[e][i].id
          BY Zenon, <5>1, <3>1, <3>4 DEF AnnouncedOnce
        <5>4. \A i \in 1 .. Len(wire'[e]) :
                WireAnnounces(e, i)' => req'[Peer(e)][c].id # wire'[e][i].id
          BY Zenon, <4>2, <5>1, <5>3
        <5>5. \A i \in 1 .. Len(queue'[e]) :
                QueueAnnounces(e, i)' => req'[Peer(e)][c].id # queue'[e][i].id
          BY Zenon, <4>1, <5>1, <5>3, <1>b
        <5> QED
          BY <5>2, <5>4, <5>5
      <4> QED
        BY Zenon, <3>4, <4>3, <4>4, <4>5 DEF AnnouncedOnce
    <3> QED
      BY <3>3, <3>4
  <2> QED
    BY <2>1, <2>2, <2>3 DEF IInv
<1> QED
  BY <1>1, <1>2

\* What is in the queue after the dispatcher took a frame.
LEMMA TakeFacts ==
  ASSUME TypeOK, NEW e \in End, queue[e] # <<>>, queue' = [queue EXCEPT ![e] = Tail(@)]
  PROVE  /\ queue' \in [End -> Seq(Frame)] /\ \A d \in End : Len(queue'[d]) <= MaxQueue
         /\ 1 \in 1 .. Len(queue[e]) /\ Head(queue[e]) = queue[e][1]
         /\ Head(queue[e]) \in Frame
         /\ \A d \in End : d # e => queue'[d] = queue[d]
         /\ \A i \in 1 .. Len(queue'[e]) :
              i + 1 \in 1 .. Len(queue[e]) /\ queue'[e][i] = queue[e][i + 1]
<1>1. /\ queue \in [End -> Seq(Frame)] /\ queue[e] \in Seq(Frame)
      /\ \A d \in End : Len(queue[d]) <= MaxQueue
  BY DEF TypeOK
<1>2. /\ Tail(queue[e]) \in Seq(Frame) /\ Len(Tail(queue[e])) = Len(queue[e]) - 1
      /\ 1 \in 1 .. Len(queue[e]) /\ Head(queue[e]) = queue[e][1]
      /\ Head(queue[e]) \in Frame
      /\ \A i \in 1 .. Len(queue[e]) - 1 :
           Tail(queue[e])[i] = queue[e][i + 1] /\ i + 1 \in 1 .. Len(queue[e])
  BY <1>1, TailFacts
<1>3. /\ queue' \in [End -> Seq(Frame)] /\ queue'[e] = Tail(queue[e])
      /\ \A d \in End : d # e => queue'[d] = queue[d]
  BY <1>1, <1>2
<1>4. Len(queue'[e]) <= MaxQueue
  BY <1>1, <1>2, <1>3, LimitsAssumption
<1> QED
  BY <1>1, <1>2, <1>3, <1>4

\* A request of the peer is answered under its RequestID, and a frame that is
\* dropped was in nobody's way.
LEMMA DispatchKeeps ==
  ASSUME IInv, NEW e \in End, DispatchGet(e) \/ DispatchDrop(e)
  PROVE  IInv'
<1>a. /\ TypeOK /\ queue[e] # <<>> /\ queue' = [queue EXCEPT ![e] = Tail(@)]
      /\ UNCHANGED <<link, closed, next, pending, reader, routed, pc, req, chan>>
  BY DEF IInv, DispatchGet, DispatchDrop, threads
<1>b. /\ queue' \in [End -> Seq(Frame)] /\ \A d \in End : Len(queue'[d]) <= MaxQueue
      /\ 1 \in 1 .. Len(queue[e]) /\ Head(queue[e]) = queue[e][1]
      /\ Head(queue[e]) \in Frame
      /\ \A d \in End : d # e => queue'[d] = queue[d]
      /\ \A i \in 1 .. Len(queue'[e]) :
           i + 1 \in 1 .. Len(queue[e]) /\ queue'[e][i] = queue[e][i + 1]
  BY Zenon, <1>a, TakeFacts
<1>c. PICK f \in Frame \cup {None} :
        /\ f # None => f.kind # "announce" /\ FrameInv(Peer(e), f)
        /\ wire' = wire \/ wire' = Written(e, f)
  <2>1. CASE wire' = wire
    BY <2>1, SentinelFacts
  <2>2. CASE /\ Head(queue[e]).kind = "get"
             /\ wire' = Written(e, [Head(queue[e]) EXCEPT !.kind = "data"])
    <3>1. PICK g \in Frame : g = Head(queue[e])
      BY <1>b
    <3>2. PICK f \in Frame : f = [g EXCEPT !.kind = "data"]
      <4>1. [g EXCEPT !.kind = "data"] \in Frame
        BY <3>1 DEF Frame
      <4> QED
        BY <4>1
    <3>3. f.kind = "data" /\ f.id = g.id /\ f.asker = g.asker
      BY <3>2 DEF Frame
    <3>4. FrameInv(e, g) /\ g.kind = "get"
      BY <1>b, <2>2, <3>1 DEF IInv, FramesInv
    <3>5. FrameInv(Peer(e), f)
      BY <3>3, <3>4 DEF FrameInv
    <3> QED
      BY Zenon, <2>2, <3>1, <3>2, <3>3, <3>5
  <2> QED
    BY <2>1, <2>2 DEF DispatchGet, DispatchDrop
<1>d. /\ wire' \in [End -> Seq(Frame \cup {None})]
      /\ \A d \in End : \A i \in 1 .. Len(wire'[d]) :
           \/ i \in 1 .. Len(wire[d]) /\ wire'[d][i] = wire[d][i]
           \/ d = Peer(e) /\ i = Len(wire[d]) + 1 /\ wire'[d][i] = f
  BY Zenon, <1>a, <1>c, WrittenFacts
<1>1. /\ TypeOK'
      /\ \A d \in End : PendingInv(d)' /\ RoutedInv(d)' /\ ReaderInv(d)'
      /\ \A d \in End, b \in Caller : CallerInv(d, b)' /\ WaitInv(d, b)'
  BY Zenon, <1>a, <1>b, <1>d, ChannelKeeps
<1>e. ASSUME NEW d \in End
      PROVE  \E q \in {0, 1} : \A i \in 1 .. Len(queue'[d]) :
               i + q \in 1 .. Len(queue[d]) /\ queue'[d][i] = queue[d][i + q]
  <2>1. CASE d = e
    BY Zenon, <2>1, <1>b
  <2>2. CASE d # e
    <3>1. \A i \in 1 .. Len(queue'[d]) :
            i + 0 \in 1 .. Len(queue[d]) /\ queue'[d][i] = queue[d][i + 0]
      BY <2>2, <1>b
    <3> QED
      BY <3>1
  <2> QED
    BY <2>1, <2>2
<1>2. ASSUME NEW d \in End PROVE FramesInv(d)'
  <2>1. FramesInv(d)
    BY DEF IInv
  <2>2. \A i \in 1 .. Len(wire'[d]) : wire'[d][i] # None => FrameInv(d, wire'[d][i])
    BY <2>1, <1>c, <1>d DEF FramesInv
  <2>3. \A i \in 1 .. Len(queue'[d]) : FrameInv(d, queue'[d][i])
    BY <2>1, <1>e DEF FramesInv
  <2> QED
    BY Zenon, <2>2, <2>3, <1>a DEF FramesInv, FrameInv
<1>3. ASSUME NEW d \in End PROVE AnnouncedOnce(d)'
  <2>1. AnnouncedOnce(d)
    BY DEF IInv
  <2>2. PICK q \in {0, 1} : \A i \in 1 .. Len(queue'[d]) :
          i + q \in 1 .. Len(queue[d]) /\ queue'[d][i] = queue[d][i + q]
    BY Zenon, <1>e
  <2>3. \A i \in 1 .. Len(wire'[d]) : WireAnnounces(d, i)' =>
          i + 0 \in 1 .. Len(wire[d]) /\ wire'[d][i] = wire[d][i + 0]
    <3>1. ASSUME NEW i \in 1 .. Len(wire'[d]), WireAnnounces(d, i)'
          PROVE  i \in 1 .. Len(wire[d]) /\ wire'[d][i] = wire[d][i]
      <4>1. wire'[d][i] # None /\ wire'[d][i].kind = "announce"
        BY Zenon, <3>1 DEF WireAnnounces
      <4> QED
        BY Zenon, <4>1, <3>1, <1>c, <1>d
    <3>2. \A i \in 1 .. Len(wire'[d]) : i + 0 = i
      OBVIOUS
    <3> QED
      BY Zenon, <3>1, <3>2
  <2>4. \A c \in Caller : Unsent(Peer(d), c)' => Unsent(Peer(d), c)
    BY <1>a DEF Unsent
  <2> QED
    BY Zenon, <2>1, <2>2, <2>3, <2>4, <1>a, AnnouncedKept
<1> QED
  BY <1>1, <1>2, <1>3 DEF IInv

\* A worker takes over the RequestID of an announcement, which is its own from
\* then on: nobody at this end uses it and it is announced nowhere else.
LEMMA DispatchAnnounceKeeps ==
  ASSUME IInv, NEW e \in End, NEW c \in Caller, DispatchAnnounce(e, c)
  PROVE  IInv'
<1>a. /\ TypeOK /\ queue[e] # <<>> /\ queue' = [queue EXCEPT ![e] = Tail(@)]
      /\ Head(queue[e]).kind = "announce" /\ pc[e][c] = "idle"
      /\ UNCHANGED <<wire, link, closed, next, pending, reader, routed>>
  BY Zenon DEF IInv, DispatchAnnounce
<1>b. /\ queue' \in [End -> Seq(Frame)] /\ \A d \in End : Len(queue'[d]) <= MaxQueue
      /\ 1 \in 1 .. Len(queue[e]) /\ Head(queue[e]) = queue[e][1]
      /\ Head(queue[e]) \in Frame
      /\ \A d \in End : d # e => queue'[d] = queue[d]
      /\ \A i \in 1 .. Len(queue'[e]) :
           i + 1 \in 1 .. Len(queue[e]) /\ queue'[e][i] = queue[e][i + 1]
  BY Zenon, <1>a, TakeFacts
<1>c. PICK r \in Request : r = [type |-> "get", reply |-> TRUE, id |-> Head(queue[e]).id]
  <2>1. Head(queue[e]).id \in Id
    BY Zenon, <1>b DEF Frame
  <2>2. [type |-> "get", reply |-> TRUE, id |-> Head(queue[e]).id] \in Request
    BY Zenon, <2>1 DEF Request
  <2> QED
    BY Zenon, <2>2
<1>d. PICK step \in {"begun", "reply"} : Start(e, c, step, r)
  BY <1>c DEF DispatchAnnounce
<1>e. /\ pc' \in [End -> [Caller -> Step]]
      /\ req' \in [End -> [Caller -> Request \cup {None}]]
      /\ \A d \in End, b \in Caller :
           /\ pc'[d][b] = IF d = e /\ b = c THEN step ELSE pc[d][b]
           /\ req'[d][b] = IF d = e /\ b = c THEN r ELSE req[d][b]
      /\ chan' = chan
  BY Zenon, <1>a, <1>d, StartEffect DEF Step
<1>f. /\ r # None /\ r.id = queue[e][1].id /\ r.type = "get"
      /\ QueueAnnounces(e, 1) /\ FrameInv(e, queue[e][1])
      /\ Untaken(e, r.id)
  <2>1. r # None /\ r.id = queue[e][1].id /\ r.type = "get" /\ QueueAnnounces(e, 1)
    BY Zenon, <1>a, <1>b, <1>c, SentinelFacts DEF QueueAnnounces
  <2> QED
    BY Zenon, <2>1, <1>b DEF IInv, FramesInv, AnnouncedOnce
<1>g. pc[e][c] = "idle" /\ req[e][c] = None /\ chan[e][c] = None
  <2>1. CallerInv(e, c)
    BY Zenon DEF IInv
  <2> QED
    BY Zenon, <2>1, <1>a DEF CallerInv
<1>1. TypeOK'
  BY <1>a, <1>b, <1>e DEF TypeOK, Step
<1>2. ASSUME NEW d \in End PROVE FramesInv(d)'
  <2>1. FramesInv(d)
    BY DEF IInv
  <2>2. \A i \in 1 .. Len(queue'[d]) : FrameInv(d, queue'[d][i])
    BY <2>1, <1>b DEF FramesInv
  <2> QED
    BY Zenon, <2>1, <2>2, <1>a DEF FramesInv, FrameInv
<1>3. ASSUME NEW d \in End PROVE PendingInv(d)'
  <2>1. PendingInv(d) /\ pending[d] \subseteq Entries
    BY Zenon, <1>a DEF IInv, TypeOK
  <2> QED
    BY Zenon, <2>1, <1>a, <1>e DEF PendingInv, Entry, Entries, Waiting
<1>4. ASSUME NEW d \in End PROVE RoutedInv(d)'
  <2>1. RoutedInv(d)
    BY DEF IInv
  <2>2. d = e /\ routed[d] # None => routed[d].entry.id # r.id
    BY <1>f DEF Untaken
  <2> QED
    BY Zenon, <2>1, <2>2, <1>a, <1>e DEF RoutedInv, FrameInv, Entry
<1>5. ASSUME NEW d \in End PROVE ReaderInv(d)'
  BY Zenon, <1>a DEF IInv, ReaderInv
<1>6. ASSUME NEW d \in End, NEW b \in Caller PROVE CallerInv(d, b)'
  <2>1. CallerInv(d, b)
    BY DEF IInv
  <2>2. CASE d = e /\ b = c
    <3>1. r.id.n <= next[r.id.lane]
      BY Zenon, <1>f DEF FrameInv
    <3>2. \A a \in Caller : req'[e][a] # None /\ req'[e][a].id = r.id => a = c
      BY Zenon, <1>e, <1>f DEF Untaken
    <3>3. chan'[e][c] = None /\ pc'[e][c] # "idle" /\ req'[e][c] = r
      BY Zenon, <1>d, <1>e, <1>g
    <3> QED
      BY Zenon, <2>2, <3>1, <3>2, <3>3, <1>a, <1>f DEF CallerInv
  <2>3. CASE ~(d = e /\ b = c)
    <3>1. req'[d][b] = req[d][b] /\ pc'[d][b] = pc[d][b] /\ chan'[d][b] = chan[d][b]
      BY Zenon, <2>3, <1>e
    <3>2. ASSUME req[d][b] # None, NEW a \in Caller, req'[d][a] # None,
                 req'[d][a].id = req[d][b].id
          PROVE  a = b
      <4>1. req'[d][a] = req[d][a]
        BY Zenon, <3>2, <1>e, <1>f DEF Untaken
      <4> QED
        BY Zenon, <2>1, <3>2, <4>1 DEF CallerInv
    <3> QED
      BY Zenon, <2>1, <3>1, <3>2, <1>a DEF CallerInv
  <2> QED
    BY <2>2, <2>3
<1>7. ASSUME NEW d \in End, NEW b \in Caller PROVE WaitInv(d, b)'
  <2>1. WaitInv(d, b)
    BY DEF IInv
  <2> QED
    BY Zenon, <2>1, <1>a, <1>e DEF WaitInv, Entry
<1>8. AnnouncedOnce(Peer(e))'
  <2>1. /\ AnnouncedOnce(Peer(e)) /\ Peer(e) \in End /\ Peer(e) # e /\ Peer(Peer(e)) = e
    BY PeerFacts DEF IInv
  <2>2. /\ \A i \in 1 .. Len(wire'[Peer(e)]) : WireAnnounces(Peer(e), i)' =>
             /\ i + 0 \in 1 .. Len(wire[Peer(e)])
             /\ wire'[Peer(e)][i] = wire[Peer(e)][i + 0]
        /\ \A i \in 1 .. Len(queue'[Peer(e)]) : QueueAnnounces(Peer(e), i)' =>
             /\ i + 0 \in 1 .. Len(queue[Peer(e)])
             /\ queue'[Peer(e)][i] = queue[Peer(e)][i + 0]
    <3>1. wire'[Peer(e)] = wire[Peer(e)] /\ queue'[Peer(e)] = queue[Peer(e)]
      BY Zenon, <2>1, <1>a, <1>b
    <3>2. /\ \A i \in 1 .. Len(wire[Peer(e)]) : i + 0 = i
          /\ \A i \in 1 .. Len(queue[Peer(e)]) : i + 0 = i
      OBVIOUS
    <3> QED
      BY Zenon, <3>1, <3>2
  <2>3. /\ \A b \in Caller : req'[Peer(e)][b] = req[Peer(e)][b]
        /\ \A b \in Caller : Unsent(e, b)' => Unsent(e, b) /\ req'[e][b] = req[e][b]
    BY Zenon, <2>1, <1>e, <1>f DEF Unsent
  <2> QED
    BY Zenon, <2>1, <2>2, <2>3, <1>a, AnnouncedKept
<1>9. AnnouncedOnce(e)'
  <2>1. AnnouncedOnce(e) /\ Peer(e) \in End /\ Peer(e) # e
    BY PeerFacts DEF IInv
  <2>2. \A id : Untaken(e, id) /\ id # r.id => Untaken(e, id)'
    BY <1>a, <1>e DEF Untaken
  <2>3. ASSUME NEW i \in 1 .. Len(queue'[e]), QueueAnnounces(e, i)'
        PROVE  /\ i + 1 \in 1 .. Len(queue[e]) /\ queue'[e][i] = queue[e][i + 1]
               /\ QueueAnnounces(e, i + 1)
    BY Zenon, <2>3, <1>b DEF QueueAnnounces
  <2>4. ASSUME NEW i \in 1 .. Len(queue'[e]), QueueAnnounces(e, i)'
        PROVE  /\ Untaken(e, queue[e][i].id)'
               /\ \A j \in 1 .. Len(queue'[e]) :
                    QueueAnnounces(e, j)' /\ queue'[e][i].id = queue'[e][j].id => i = j
    <3>1. Untaken(e, queue[e][i + 1].id) /\ queue[e][i + 1].id # queue[e][1].id
      <4>1. i + 1 # 1
        OBVIOUS
      <4> QED
        BY Zenon, <4>1, <2>1, <2>3, <2>4, <1>b, <1>f DEF AnnouncedOnce
    <3>2. Untaken(e, queue[e][i].id)'
      BY Zenon, <2>2, <2>3, <2>4, <3>1, <1>f DEF Untaken
    <3>3. ASSUME NEW j \in 1 .. Len(queue'[e]), QueueAnnounces(e, j)',
                 queue'[e][i].id = queue'[e][j].id
          PROVE  i = j
      <4>1. i + 1 = j + 1
        BY Zenon, <2>1, <2>3, <2>4, <3>3, AnnouncedApart
      <4> QED
        BY <4>1
    <3> QED
      BY <3>2, <3>3
  <2>5. ASSUME NEW i \in 1 .. Len(wire[e]), WireAnnounces(e, i)
        PROVE  /\ Untaken(e, wire[e][i].id)'
               /\ \A j \in 1 .. Len(queue'[e]) :
                    QueueAnnounces(e, j)' => wire[e][i].id # queue'[e][j].id
    <3>1. /\ Untaken(e, wire[e][i].id)
          /\ \A j \in 1 .. Len(queue[e]) :
               QueueAnnounces(e, j) => wire[e][i].id # queue[e][j].id
      BY Zenon, <2>1, <2>5 DEF AnnouncedOnce
    <3>2. Untaken(e, wire[e][i].id)'
      BY Zenon, <2>2, <3>1, <1>a, <1>b, <1>f DEF Untaken
    <3> QED
      BY Zenon, <2>3, <3>1, <3>2
  <2>6. ASSUME NEW b \in Caller, Unsent(Peer(e), b)'
        PROVE  /\ Untaken(e, req[Peer(e)][b].id)'
               /\ \A i \in 1 .. Len(wire[e]) :
                    WireAnnounces(e, i) => req'[Peer(e)][b].id # wire[e][i].id
               /\ \A i \in 1 .. Len(queue'[e]) :
                    QueueAnnounces(e, i)' => req'[Peer(e)][b].id # queue'[e][i].id
    <3>1. Unsent(Peer(e), b) /\ req'[Peer(e)][b] = req[Peer(e)][b]
      BY Zenon, <2>1, <2>6, <1>e DEF Unsent
    <3>2. /\ Untaken(e, req[Peer(e)][b].id)
          /\ \A i \in 1 .. Len(wire[e]) :
               WireAnnounces(e, i) => req[Peer(e)][b].id # wire[e][i].id
          /\ \A i \in 1 .. Len(queue[e]) :
               QueueAnnounces(e, i) => req[Peer(e)][b].id # queue[e][i].id
      BY Zenon, <2>1, <3>1 DEF AnnouncedOnce
    <3>3. Untaken(e, req[Peer(e)][b].id)'
      <4>1. req[Peer(e)][b].id # r.id
        BY Zenon, <3>2, <1>b, <1>f
      <4> QED
        BY Zenon, <3>1, <3>2, <4>1, <1>a, <1>e DEF Untaken
    <3> QED
      BY Zenon, <2>3, <3>1, <3>2, <3>3
  <2>7. \A i, j \in 1 .. Len(wire[e]) :
          WireAnnounces(e, i) /\ WireAnnounces(e, j) /\ wire[e][i].id = wire[e][j].id => i = j
    BY Zenon, <2>1 DEF AnnouncedOnce
  <2> QED
    BY Zenon, <2>4, <2>5, <2>6, <2>7, <1>a DEF AnnouncedOnce, WireAnnounces
<1>10. ASSUME NEW d \in End PROVE AnnouncedOnce(d)'
  BY <1>8, <1>9, PeerFacts
<1> QED
  BY <1>1, <1>2, <1>3, <1>4, <1>5, <1>6, <1>7, <1>10 DEF IInv

-----------------------------------------------------------------------------
(* The theorems.                                                             *)

\* A session that was just established satisfies the invariant.
LEMMA InitInv == Init => IInv
<1> SUFFICES ASSUME Init PROVE IInv
  OBVIOUS
<1>1. TypeOK
  <2>1. <<>> \in Seq(Frame) /\ <<>> \in Seq(Frame \cup {None}) /\ Len(<<>>) = 0
    OBVIOUS
  <2>2. 0 <= MaxQueue /\ \A e \in End : 0 <= Requests[e]
    BY LimitsAssumption, RequestsAssumption
  <2> QED
    BY <2>1, <2>2 DEF Init, TypeOK
<1>2. ASSUME NEW e \in End PROVE FramesInv(e) /\ AnnouncedOnce(e)
  <2>1. /\ wire[e] = <<>> /\ queue[e] = <<>> /\ Peer(e) \in End
        /\ \A c \in Caller : pc[Peer(e)][c] = "idle"
    BY PeerFacts DEF Init
  <2>2. 1 .. Len(wire[e]) = {} /\ 1 .. Len(queue[e]) = {}
    <3>1. 1 .. Len(<<>>) = {}
      OBVIOUS
    <3> QED
      BY Zenon, <2>1, <3>1
  <2> QED
    BY Zenon, <2>1, <2>2 DEF FramesInv, AnnouncedOnce, Unsent
<1>3. ASSUME NEW e \in End PROVE PendingInv(e)
  <2>1. IsFiniteSet({}) /\ Cardinality({}) = 0 /\ MaxPending[e] \in Nat
    BY FS_EmptySet, LimitsAssumption
  <2> QED
    BY <2>1 DEF Init, PendingInv
<1>4. ASSUME NEW e \in End PROVE RoutedInv(e) /\ ReaderInv(e)
  BY Zenon DEF Init, RoutedInv, ReaderInv
<1>5. ASSUME NEW e \in End, NEW c \in Caller PROVE CallerInv(e, c) /\ WaitInv(e, c)
  BY Zenon DEF Init, CallerInv, WaitInv
<1> QED
  BY <1>1, <1>2, <1>3, <1>4, <1>5 DEF IInv

\* Every step of a caller, the reader, the dispatcher or close() keeps it.
LEMMA NextInv == IInv /\ [Next]_vars => IInv'
<1> SUFFICES ASSUME IInv, [Next]_vars PROVE IInv'
  OBVIOUS
<1>1. CASE UNCHANGED vars
  <2>1. UNCHANGED <<wire, link, closed, next, pending, reader, routed, queue, pc, req, chan>>
    BY <1>1 DEF vars
  <2>2. /\ TypeOK'
        /\ \A d \in End : PendingInv(d)' /\ RoutedInv(d)' /\ ReaderInv(d)'
        /\ \A d \in End, b \in Caller : CallerInv(d, b)' /\ WaitInv(d, b)'
    BY Zenon, <2>1, ChannelKeeps DEF IInv, TypeOK
  <2>3. ASSUME NEW d \in End PROVE FramesInv(d)' /\ AnnouncedOnce(d)'
    <3>1. \A c \in Caller : Unsent(Peer(d), c)' => Unsent(Peer(d), c)
      BY <2>1 DEF Unsent
    <3> QED
      BY Zenon, <2>1, <3>1, FramesSame, AnnouncedUnmoved DEF IInv
  <2> QED
    BY <2>2, <2>3 DEF IInv
<1>2. ASSUME NEW e \in End, NEW c \in Caller, CallerStep(e, c) PROVE IInv'
  <2>1. CASE Proceed(e, c)
    BY <2>1, RefuseKeeps, RegisterKeeps, SendFrameKeeps, WriteKeeps, SendFailsKeeps,
       ReceiveKeeps, ExpireKeeps, ReplyKeeps DEF Proceed
  <2>2. CASE \E type \in {"announce", "get"} : Begin(e, c, type)
    BY <2>2, BeginKeeps
  <2> QED
    BY <1>2, <2>1, <2>2 DEF CallerStep
<1>3. ASSUME NEW e \in End, Reader(e) PROVE IInv'
  BY <1>3, RouteResponseKeeps, RouteUnsolicitedKeeps, ReadEndKeeps, DeliverKeeps, DrainKeeps
     DEF Reader, Finish
<1>4. ASSUME NEW e \in End, Dispatch(e) PROVE IInv'
  BY <1>4, DispatchKeeps, DispatchAnnounceKeeps DEF Dispatch
<1>5. ASSUME NEW e \in End, Close(e) \/ Shutdown(e) PROVE IInv'
  BY <1>5, CloseKeeps
<1> QED
  BY <1>1, <1>2, <1>3, <1>4, <1>5 DEF Next

\* The invariant holds in every state of a session.
THEOREM SessionInvariant == Spec => []IInv
BY InitInv, NextInv, PTL DEF Spec

\* The queue of unsolicited frames never grows past its limit, the RequestIDs
\* past those allocated, and every thread is at a step it knows.
THEOREM SessionTypes == Spec => []TypeOK
<1>1. IInv => TypeOK
  BY DEF IInv
<1> QED
  BY <1>1, SessionInvariant, PTL

\* "responses are routed by RequestID + expected message type": a caller of
\* request_with_id only ever receives the answer to its own request.
THEOREM AnswersMatch == Spec => []AnswerMatches
<1>1. IInv => AnswerMatches
  BY Zenon DEF IInv, CallerInv, AnswerMatches
<1> QED
  BY <1>1, SessionInvariant, PTL

\* A caller that waits is known to a reader thread that still runs, whatever
\* the order in which the flag is set, the map drained and the entry made.
THEOREM NobodyWaitsInVain == Spec => []NoOrphanWait
<1>1. IInv => NoOrphanWait
  BY Zenon DEF IInv, WaitInv, NoOrphanWait
<1> QED
  BY <1>1, SessionInvariant, PTL

\* Each slot of the pending map belongs to a caller that has yet to return, and
\* there are never more than max_pending_requests.
THEOREM SlotsDoNotLeak == Spec => []SlotsAreOwned
<1>1. IInv => SlotsAreOwned
  BY Zenon DEF IInv, PendingInv, SlotsAreOwned
<1> QED
  BY <1>1, SessionInvariant, PTL

=============================================================================
