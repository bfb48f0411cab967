--------------------------- MODULE DuplexSession ---------------------------
(***************************************************************************)
(* One authenticated connection between two nodes (mutiny-duplex/src/lib.rs)*)
(* with the dispatcher that serves the peer (spawn_duplex_dispatcher and    *)
(* the announcement workers of mutiny-node/src/main.rs) at both ends.       *)
(*                                                                          *)
(* Each end has one reader thread, one dispatcher thread and the threads in *)
(* Caller that make requests.  A step is what a thread does between two     *)
(* points where another thread may see the difference: the closed flag is   *)
(* not read under the mutex of the pending map, a response leaves the map   *)
(* before it is in the channel of its caller, and a caller that gave up     *)
(* waiting has yet to remove its entry.                                     *)
(***************************************************************************)
EXTENDS Integers, Sequences, FiniteSets

CONSTANTS Caller,     \* threads of each end
          MaxPending, \* DuplexLimits.max_pending_requests of each end
          MaxQueue,   \* DuplexLimits.max_unsolicited_frames
          Requests,   \* bounds the requests that each end starts by itself
          None,       \* no frame, or bytes that are not one
          Stopped     \* ReaderStopped

\* The ends are named after their lane of RequestIDs.
End == {"low", "high"}
Peer(e) == IF e = "low" THEN "high" ELSE "low"

ASSUME LimitsAssumption ==
  MaxPending \in [End -> Nat \ {0}] /\ MaxQueue \in Nat \ {0}

ASSUME RequestsAssumption == Requests \in [End -> Nat]

\* allocate_request_id: the lane and a counter that does not wrap in practice.
Id == [lane : End, n : Nat]

\* A request announces a transaction and waits for the verdict, or gets one.
Expected(type) == IF type = "announce" THEN "result" ELSE "data"

\* `asker` is the end whose request the frame is, or answers.
Frame == [kind : {"announce", "get", "result", "data"}, id : Id, asker : End]

Request == [type : {"announce", "get"}, id : Id, reply : BOOLEAN]

\* The pending map holds who waits for a frame with this id and kind.
Entries == [id : Id, kind : {"result", "data"}, by : Caller]
Routed == [entry : Entries, frame : Frame]

ASSUME NoneAssumption == /\ None \notin Frame \cup Request \cup Routed
                         /\ Stopped \notin Frame \cup {None}

VARIABLES
  wire,    \* the frames on their way to each end
  link,    \* the socket of each end: close() marks it before shutting it
  closed,  \* Inner.closed
  next,    \* Inner.next_request_id: the requests started so far
  pending, \* Inner.pending: who waits for which frame
  reader,  \* the step the reader thread is at
  routed,  \* the entry and the frame the reader took out of the map
  queue,   \* the channel of unsolicited frames
  pc, req, \* the step and the request of each caller
  chan     \* the channel a caller waits on: a frame, or Stopped

vars == <<wire, link, closed, next, pending, reader, routed, queue, pc, req,
          chan>>

threads == <<next, pc, req>>

-----------------------------------------------------------------------------
(* request_with_id                                                           *)

Goto(e, c, step) ==
  /\ pc' = [pc EXCEPT ![e][c] = step]
  /\ UNCHANGED <<req, chan>>

\* A new request has a channel of its own ...
Start(e, c, step, request) ==
  /\ pc' = [pc EXCEPT ![e][c] = step]
  /\ req' = [req EXCEPT ![e][c] = request]
  /\ UNCHANGED chan

\* ... that goes away when request_with_id returns.
Return(e, c) ==
  /\ pc' = [pc EXCEPT ![e][c] = "idle"]
  /\ req' = [req EXCEPT ![e][c] = None]
  /\ chan' = [chan EXCEPT ![e][c] = None]

Entry(e, c) == [id |-> req[e][c].id, kind |-> Expected(req[e][c].type),
                by |-> c]

\* pending.remove(&request_id)
Remove(e, c) ==
  pending' = [pending EXCEPT ![e] = {p \in @ : p.id # req[e][c].id}]

\* request: is_closed, then allocate_request_id.
Begin(e, c, type) ==
  /\ pc[e][c] = "idle"
  /\ ~closed[e]
  /\ next[e] < Requests[e]
  /\ next' = [next EXCEPT ![e] = @ + 1]
  /\ Start(e, c, "begun", [type |-> type, reply |-> FALSE,
                           id |-> [lane |-> e, n |-> next'[e]]])
  /\ UNCHANGED <<wire, link, closed, pending, reader, routed, queue>>

\* The RequestID is not in use and the map has room.
Admits(e, c) ==
  /\ \A p \in pending[e] : p.id # req[e][c].id
  /\ Cardinality(pending[e]) < MaxPending[e]

\* The second look at is_closed, and the errors of the insertion.
Refuse(e, c) ==
  /\ pc[e][c] = "begun"
  /\ closed[e] \/ ~Admits(e, c)
  /\ Return(e, c)
  /\ UNCHANGED <<wire, link, closed, next, pending, reader, routed, queue>>

\* The session may have been closed since the caller looked.
Register(e, c) ==
  /\ pc[e][c] = "begun"
  /\ Admits(e, c)
  /\ pending' = [pending EXCEPT ![e] = @ \cup {Entry(e, c)}]
  /\ Goto(e, c, "registered")
  /\ UNCHANGED <<wire, link, closed, next, reader, routed, queue>>

\* Mutant: send_frame does not look whether the session is closed.
SendFrame_Unchecked(e, c) ==
  /\ pc[e][c] = "registered"
  /\ Goto(e, c, "sending")
  /\ UNCHANGED <<wire, link, closed, next, pending, reader, routed, queue>>

\* send_frame: is_closed.
SendFrame(e, c) ==
  /\ pc[e][c] = "registered"
  /\ ~closed[e]
  /\ Goto(e, c, "sending")
  /\ UNCHANGED <<wire, link, closed, next, pending, reader, routed, queue>>

\* One of the ends shut the connection down.
Cut == \E e \in End : link[e] = "shut"

\* What the peer still receives when a frame is written.
Written(e, frame) ==
  [wire EXCEPT ![Peer(e)] = IF Cut THEN @ ELSE Append(@, frame)]

Write(e, c) ==
  /\ pc[e][c] = "sending"
  /\ link[e] # "shut"
  /\ wire' = Written(e, [kind |-> req[e][c].type, id |-> req[e][c].id,
                         asker |-> e])
  /\ Goto(e, c, "waiting")
  /\ UNCHANGED <<link, closed, next, pending, reader, routed, queue>>

\* send_frame returns Err: Closed, or an error of the write, which may leave a
\* part of the frame on the wire.
SendFails(e, c) ==
  /\ \/ pc[e][c] = "registered" /\ closed[e] /\ UNCHANGED wire
     \/ pc[e][c] = "sending" /\ wire' \in {wire, Written(e, None)}
  /\ Remove(e, c)
  /\ Return(e, c)
  /\ UNCHANGED <<link, closed, next, reader, routed, queue>>

\* recv_timeout returns what is in the channel.  The worker of an announcement
\* that fetched its transaction has yet to send the verdict.
Receive(e, c) ==
  /\ pc[e][c] = "waiting"
  /\ chan[e][c] # None
  /\ IF chan[e][c] # Stopped /\ req[e][c].reply THEN Goto(e, c, "reply")
                                                 ELSE Return(e, c)
  /\ UNCHANGED <<wire, link, closed, next, pending, reader, routed, queue>>

\* Mutant: the caller waits without a timeout.
Timeout_Never(e, c) == FALSE /\ UNCHANGED vars

\* recv_timeout returns Timeout ...
Timeout(e, c) ==
  /\ pc[e][c] = "waiting"
  /\ chan[e][c] = None
  /\ Goto(e, c, "expired")
  /\ UNCHANGED <<wire, link, closed, next, pending, reader, routed, queue>>

\* Mutant: the entry of a request that timed out stays in the map.
Expire_Keep(e, c) ==
  /\ pc[e][c] = "expired"
  /\ Return(e, c)
  /\ UNCHANGED <<wire, link, closed, next, pending, reader, routed, queue>>

\* ... and the entry is removed, if it is still there.
Expire(e, c) ==
  /\ pc[e][c] = "expired"
  /\ Remove(e, c)
  /\ Return(e, c)
  /\ UNCHANGED <<wire, link, closed, next, reader, routed, queue>>

\* The worker sends the verdict under the RequestID of the announcement.
Reply(e, c) ==
  /\ pc[e][c] = "reply"
  /\ wire' = IF closed[e] THEN wire
             ELSE Written(e, [kind |-> "result", id |-> req[e][c].id,
                              asker |-> Peer(e)])
  /\ Return(e, c)
  /\ UNCHANGED <<link, closed, next, pending, reader, routed, queue>>

-----------------------------------------------------------------------------
(* spawn_reader                                                              *)

\* Mutant: a frame is matched by its RequestID alone.
Matching_IdOnly(e, frame) == {p \in pending[e] : p.id = frame.id}

Matching(e, frame) ==
  {p \in pending[e] : p.id = frame.id /\ p.kind = frame.kind}

\* The reader gives up: closed is set before the map is drained.
Stop(e, then) ==
  /\ closed' = [closed EXCEPT ![e] = TRUE]
  /\ reader' = [reader EXCEPT ![e] = then]

\* The next bytes are a whole frame.
Readable(e) == reader[e] = "read" /\ wire[e] # <<>> /\ Head(wire[e]) # None

\* A frame that somebody waits for leaves the map together with its entry.
RouteResponse(e) ==
  /\ Readable(e)
  /\ \E p \in Matching(e, Head(wire[e])) :
       /\ pending' = [pending EXCEPT ![e] = @ \ {p}]
       /\ routed' = [routed EXCEPT ![e] = [entry |-> p,
                                           frame |-> Head(wire[e])]]
  /\ wire' = [wire EXCEPT ![e] = Tail(@)]
  /\ reader' = [reader EXCEPT ![e] = "deliver"]
  /\ UNCHANGED <<link, closed, queue, threads, chan>>

\* The caller whose request the entry was made for, if it still waits.
Listening(e, c, entry) ==
  c = entry.by /\ req[e][c] # None /\ req[e][c].id = entry.id

Deliver(e) ==
  /\ reader[e] = "deliver"
  /\ chan' = [chan EXCEPT ![e] = [c \in Caller |->
                IF Listening(e, c, routed[e].entry)
                  THEN routed[e].frame ELSE chan[e][c]]]
  /\ routed' = [routed EXCEPT ![e] = None]
  /\ reader' = [reader EXCEPT ![e] = "read"]
  /\ UNCHANGED <<wire, link, closed, pending, queue, threads>>

QueueFull(e) == Len(queue[e]) >= MaxQueue

\* Anything else is for the dispatcher; a full queue ends the session.
RouteUnsolicited(e) ==
  /\ Readable(e)
  /\ Matching(e, Head(wire[e])) = {}
  /\ wire' = [wire EXCEPT ![e] = Tail(@)]
  /\ IF QueueFull(e)
       THEN Stop(e, "drain_shut") /\ UNCHANGED queue
       ELSE /\ queue' = [queue EXCEPT ![e] = Append(@, Head(wire[e]))]
            /\ UNCHANGED <<closed, reader>>
  /\ UNCHANGED <<link, pending, routed, threads, chan>>

\* The frame exceeds the frames or the bytes of the rate window.
RateLimit(e) ==
  /\ Readable(e)
  /\ wire' = [wire EXCEPT ![e] = Tail(@)]
  /\ Stop(e, "drain_shut")
  /\ UNCHANGED <<link, pending, routed, queue, threads, chan>>

\* One of the ends shut the connection down, and the reader notices.
ReadEof(e) ==
  /\ reader[e] = "read"
  /\ Cut
  /\ Stop(e, "drain")
  /\ UNCHANGED <<wire, link, pending, routed, queue, threads, chan>>

\* A network error, or a frame that does not decode.
ReadError(e) ==
  /\ reader[e] = "read"
  /\ Stop(e, "drain")
  /\ UNCHANGED <<wire, link, pending, routed, queue, threads, chan>>

\* Every waiter of the map is told, and the reader thread ends.
Drain(e) ==
  /\ reader[e] \in {"drain", "drain_shut"}
  /\ chan' = [chan EXCEPT ![e] = [c \in Caller |->
                IF \E p \in pending[e] : Listening(e, c, p)
                  THEN Stopped ELSE chan[e][c]]]
  /\ pending' = [pending EXCEPT ![e] = {}]
  /\ link' = [link EXCEPT ![e] = IF reader[e] = "drain_shut" THEN "shut"
                                                              ELSE @]
  /\ reader' = [reader EXCEPT ![e] = "exited"]
  /\ UNCHANGED <<wire, closed, routed, queue, threads>>

\* close(), called when the registry replaces or drops the session: nothing if
\* the flag was set, and otherwise the socket is shut down ...
Close(e) ==
  /\ ~closed[e]
  /\ closed' = [closed EXCEPT ![e] = TRUE]
  /\ link' = [link EXCEPT ![e] = "closing"]
  /\ UNCHANGED <<wire, pending, reader, routed, queue, threads, chan>>

\* ... once the mutex of the writer is free.
Shutdown(e) ==
  /\ link[e] = "closing"
  /\ link' = [link EXCEPT ![e] = "shut"]
  /\ UNCHANGED <<wire, closed, pending, reader, routed, queue, threads, chan>>

-----------------------------------------------------------------------------
(* spawn_duplex_dispatcher                                                   *)

\* A request of the peer is answered under its RequestID, unless the session
\* is closed or what it asks for is not known.
DispatchGet(e) ==
  /\ queue[e] # <<>>
  /\ Head(queue[e]).kind = "get"
  /\ queue' = [queue EXCEPT ![e] = Tail(@)]
  /\ \/ UNCHANGED wire
     \/ /\ ~closed[e]
        /\ wire' = Written(e, [Head(queue[e]) EXCEPT !.kind = "data"])
  /\ UNCHANGED <<link, closed, pending, reader, routed, threads, chan>>

\* A worker fetches what was announced under the RequestID of the peer, or
\* knows it and replies at once.
DispatchAnnounce(e, c) ==
  /\ queue[e] # <<>>
  /\ Head(queue[e]).kind = "announce"
  /\ pc[e][c] = "idle"
  /\ queue' = [queue EXCEPT ![e] = Tail(@)]
  /\ \E step \in {"begun", "reply"} :
       Start(e, c, step, [type |-> "get", reply |-> TRUE,
                          id |-> Head(queue[e]).id])
  /\ UNCHANGED <<wire, link, closed, next, pending, reader, routed>>

\* No worker permit is free; or a response came too late.
DispatchDrop(e) ==
  /\ queue[e] # <<>>
  /\ Head(queue[e]).kind # "get"
  /\ queue' = [queue EXCEPT ![e] = Tail(@)]
  /\ UNCHANGED <<wire, link, closed, pending, reader, routed, threads, chan>>

-----------------------------------------------------------------------------
Init ==
  /\ wire = [e \in End |-> <<>>] /\ queue = [e \in End |-> <<>>]
  /\ link = [e \in End |-> "open"] /\ closed = [e \in End |-> FALSE]
  /\ next = [e \in End |-> 0]
  /\ pending = [e \in End |-> {}]
  /\ reader = [e \in End |-> "read"] /\ routed = [e \in End |-> None]
  /\ pc = [e \in End |-> [c \in Caller |-> "idle"]]
  /\ req = [e \in End |-> [c \in Caller |-> None]]
  /\ chan = [e \in End |-> [c \in Caller |-> None]]

\* What a caller does once it has begun.
Proceed(e, c) ==
  \/ Refuse(e, c) \/ Register(e, c) \/ SendFrame(e, c) \/ Write(e, c)
  \/ SendFails(e, c) \/ Receive(e, c) \/ Timeout(e, c) \/ Expire(e, c)
  \/ Reply(e, c)

CallerStep(e, c) ==
  Proceed(e, c) \/ \E type \in {"announce", "get"} : Begin(e, c, type)

\* What the reader does once it has left the socket.
Finish(e) == Deliver(e) \/ Drain(e)

Reader(e) ==
  \/ RouteResponse(e) \/ RouteUnsolicited(e) \/ RateLimit(e)
  \/ ReadEof(e) \/ ReadError(e) \/ Finish(e)

Dispatch(e) ==
  \/ DispatchGet(e) \/ DispatchDrop(e)
  \/ \E c \in Caller : DispatchAnnounce(e, c)

Next ==
  \E e \in End :
    \/ \E c \in Caller : CallerStep(e, c)
    \/ Reader(e) \/ Dispatch(e) \/ Close(e) \/ Shutdown(e)

\* Threads keep running, a timeout expires, and a reader that is blocked on a
\* connection that was shut down wakes up.
Fairness ==
  /\ \A e \in End : /\ WF_vars(Finish(e)) /\ WF_vars(ReadEof(e))
                    /\ WF_vars(Shutdown(e))
  /\ \A e \in End, c \in Caller : WF_vars(Proceed(e, c))

Spec == Init /\ [][Next]_vars

FairSpec == Spec /\ Fairness

-----------------------------------------------------------------------------
(* Properties.                                                               *)

Waiting == {"registered", "sending", "waiting", "expired"}

\* Type invariant: in particular the queue of unsolicited frames is bounded.
TypeOK ==
  /\ wire \in [End -> Seq(Frame \cup {None})]
  /\ queue \in [End -> Seq(Frame)] /\ \A e \in End : Len(queue[e]) <= MaxQueue
  /\ pending \in [End -> SUBSET Entries]
  /\ routed \in [End -> Routed \cup {None}]
  /\ link \in [End -> {"open", "closing", "shut"}] /\ closed \in [End -> BOOLEAN]
  /\ next \in [End -> Nat] /\ \A e \in End : next[e] <= Requests[e]
  /\ reader \in [End -> {"read", "deliver", "drain", "drain_shut", "exited"}]
  /\ pc \in [End -> [Caller -> Waiting \cup {"idle", "begun", "reply"}]]
  /\ req \in [End -> [Caller -> Request \cup {None}]]
  /\ chan \in [End -> [Caller -> Frame \cup {None, Stopped}]]

\* "responses are routed by RequestID + expected message type": what a caller
\* receives is the answer to its own request, although both ends use one
\* RequestID at a time for an announcement and the request it gives rise to,
\* and although answers may arrive after their request timed out.
AnswerMatches ==
  \A e \in End, c \in Caller :
    chan[e][c] \notin {None, Stopped} =>
      /\ chan[e][c].id = req[e][c].id
      /\ chan[e][c].kind = Expected(req[e][c].type)
      /\ chan[e][c].asker = e

\* No caller waits for a reader thread that has ended or that does not know
\* it: a caller with an empty channel is in the pending map of a reader that
\* still runs, or the frame it waits for is about to be delivered.
NoOrphanWait ==
  \A e \in End, c \in Caller :
    pc[e][c] = "waiting" /\ chan[e][c] = None =>
      /\ reader[e] # "exited"
      /\ \/ Entry(e, c) \in pending[e]
         \/ routed[e] # None /\ routed[e].entry = Entry(e, c)

\* No slot of the pending map leaks: each entry belongs to a caller that will
\* remove it, so that the limit counts requests that are under way.
SlotsAreOwned ==
  \A e \in End :
    /\ Cardinality(pending[e]) <= MaxPending[e]
    /\ \A p \in pending[e] :
         pc[e][p.by] \in Waiting /\ p = Entry(e, p.by)

\* Every request returns, also when the peer never answers.
RequestsReturn ==
  \A e \in End, c \in Caller : pc[e][c] # "idle" ~> pc[e][c] = "idle"

=============================================================================
