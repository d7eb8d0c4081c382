----------------------------- MODULE HubSession -----------------------------
(***************************************************************************)
(* One engine's session with the hub: metaapi_hub/client.py on the engine's *)
(* side of the socket and metaapi_hub/server.py on the hub's.  A request of *)
(* the engine is a task (a member of Reads or Changes); Connector is the    *)
(* engine's own connect().  Tasks are atomic between awaits; call[c].pc is  *)
(* the await a task is in:                                                  *)
(*                                                                          *)
(*   want      _reattach, waiting for _attach_lock                          *)
(*   opening   about to make an attempt of _attach (or sleeping before it)  *)
(*   hello     waiting for the reply to the hello it sent                   *)
(*   wait      waiting for the reply to its request                         *)
(*                                                                          *)
(* A socket is a pair of queues that each end can close.  The hub process   *)
(* stops and starts, frames in its hands are lost with it.                  *)
(***************************************************************************)
EXTENDS Integers, FiniteSets, Sequences, SequencesExt

CONSTANTS
    Reads,        \* requests that may be resent once
    Changes,      \* requests in MUTATING_METHODS
    Impatient,    \* requests under a wait_for of the engine, which cancels them
    Connector,    \* the engine's connect()
    Attempts,     \* reattach_attempts
    MaxSockets,   \* sockets that can be opened (bound)
    MaxStops,     \* times the hub stops (bound)
    MaxConnects   \* times the engine calls connect() (bound)

Requests == Reads \cup Changes
Callers == Requests \cup {Connector}
Sockets == 1 .. MaxSockets

ASSUME SessionAssumption ==
    /\ Reads \cap Changes = {} /\ IsFiniteSet(Requests)
    /\ Impatient \subseteq Requests
    /\ Connector \notin Requests
    /\ Attempts \in Nat \ {0}
    /\ MaxSockets \in Nat /\ MaxStops \in Nat /\ MaxConnects \in Nat

VARIABLES
    \* the client
    call,        \* caller -> its task
    ready,       \* callers whose future is set, in the order they will resume
    attachLock,  \* holder of _attach_lock, or Connector when it is free
    sock,        \* the socket of _writer, 0 when there is none
    reader,      \* the reader task is alive
    known,       \* client_id was set once
    closed,      \* _closed
    peerClosed,  \* _peer_closed
    reattaches,  \* the counter modules/book_sync.py watches
    connects,    \* ghost: times connect() was called
    cut,         \* ghost: an attach was cancelled by the engine's wait_for
    \* the sockets
    opened,      \* sockets opened so far
    clientEnd, serverEnd,   \* socket -> that end is open
    inbox,       \* socket -> frames the hub has not dispatched yet
    outbox,      \* socket -> replies the client has not read yet
    \* the hub
    up, stops,
    willing,     \* register accepts this engine (mode and account match)
    cid,         \* socket -> the connection has a client_id
    registry,    \* sockets whose registration is in owner.clients
    serving,     \* <<socket, frame>> given to the owner and not answered yet
    late,        \* ghost: sockets whose hello was served after the hub let go
    handed       \* ghost: caller -> times the owner was given the request

clientVars == <<call, ready, attachLock, sock, reader, known, closed, peerClosed,
                reattaches, connects, cut>>
hubVars == <<up, stops, willing, cid, registry, serving, late, handed>>
vars == <<clientVars, opened, clientEnd, serverEnd, inbox, outbox, hubVars>>

Outcomes == {"none", "ok", "error", "refused", "notconnected", "closed",
             "timeout", "cancelled"}
Task == [pc: {"idle", "want", "opening", "hello", "wait", "done"},
         n: Nat,                        \* futures made so far; names the frame
         fut: Outcomes,                 \* the future it waits on
         again: BOOLEAN,                \* in the one resend of request()
         tries: 0 .. Attempts - 1,
         out: Outcomes,                 \* how the request ended
         on: 0 .. MaxSockets,           \* the socket it was answered on
         seen: Nat]                     \* reattaches when it returned
Idle == [pc |-> "idle", n |-> 0, fut |-> "none", again |-> FALSE, tries |-> 0,
         out |-> "none", on |-> 0, seen |-> 0]

NoSocket == [s \in Sockets |-> FALSE]
Init ==
    /\ call = [c \in Callers |-> Idle]
    /\ ready = <<>>
    /\ attachLock = Connector
    /\ sock = 0 /\ opened = 0
    /\ reader = FALSE /\ known = FALSE /\ closed = FALSE /\ peerClosed = FALSE
    /\ reattaches = 0 /\ connects = 0 /\ cut = FALSE
    /\ clientEnd = NoSocket /\ serverEnd = NoSocket /\ cid = NoSocket
    /\ inbox = [s \in Sockets |-> <<>>] /\ outbox = [s \in Sockets |-> <<>>]
    /\ up \in BOOLEAN /\ stops = 0 /\ willing \in BOOLEAN
    /\ registry = {} /\ serving = {} /\ late = {}
    /\ handed = [c \in Requests |-> 0]

-----------------------------------------------------------------------------
(* Client: the transport. *)

Attached == ~closed /\ ~peerClosed /\ sock # 0 /\ reader

\* Callers whose future is not set yet: what _pending holds.
Waiting == {c \in Callers : call[c].pc \in {"hello", "wait"} /\ call[c].fut = "none"}

\* The reader's last act: every pending future fails with CLOSED.
FailAll(cs) ==
    /\ ready' = ready \o SetToSeq(cs)
    /\ call' = [c \in Callers |-> IF c \in cs THEN [call[c] EXCEPT !.fut = "closed"]
                                              ELSE call[c]]

\* The event loop resumes tasks in the order their futures were set.
MyTurn(c) == ready # <<>> /\ Head(ready) = c
Resumed(c) == IF MyTurn(c) THEN Tail(ready) ELSE ready

\* _teardown_transport: the reader is cancelled, which fails what is pending,
\* and the client's end closes.
Doomed(c) == IF reader THEN Waiting \ {c} ELSE {}
Bug_Hangup == IF sock = 0 \/ ~reader THEN clientEnd ELSE [clientEnd EXCEPT ![sock] = FALSE]
Hangup == IF sock = 0 THEN clientEnd ELSE [clientEnd EXCEPT ![sock] = FALSE]

Ended(t, o) == [Idle EXCEPT !.pc = "done", !.out = o]

\* The task as it stands once _send has registered its future.
Sent(t) == [t EXCEPT !.pc = "wait", !.n = @ + 1, !.fut = "none", !.tries = 0]

\* The task as it stands once _attach has sent its hello.
Greeting(t) == [t EXCEPT !.pc = "hello", !.n = @ + 1, !.fut = "none"]

Frame(c) == [who |-> c, n |-> call[c].n + 1, hello |-> FALSE]

\* _send on the current socket: the frame is on its way; or, when the hub's end
\* is gone, it is lost in a buffer or the write fails, which is a loss noted.
Send(c, others) ==
    \/ /\ call' = [others EXCEPT ![c] = Sent(@)]
       /\ inbox' = IF serverEnd[sock] THEN [inbox EXCEPT ![sock] = Append(@, Frame(c))]
                                      ELSE inbox
       /\ UNCHANGED peerClosed
    \/ /\ ~serverEnd[sock]
       /\ call' = [others EXCEPT ![c] = IF c \in Reads /\ ~@.again
                                        THEN [@ EXCEPT !.pc = "want", !.fut = "none", !.again = TRUE]
                                        ELSE Ended(@, "closed")]
       /\ peerClosed' = TRUE
       /\ UNCHANGED inbox

\* request()
Issue(c) ==
    /\ c \in Requests /\ call[c].pc = "idle" /\ call[Connector].pc = "idle"
    /\ \/ /\ closed \/ (sock = 0 /\ ~known)
          /\ call' = [call EXCEPT ![c] = Ended(@, "notconnected")]
          /\ UNCHANGED <<inbox, peerClosed>>
       \/ /\ ~closed /\ (sock # 0 \/ known)
          /\ IF Attached THEN Send(c, call)
             ELSE call' = [call EXCEPT ![c].pc = "want"] /\ UNCHANGED <<inbox, peerClosed>>
    /\ UNCHANGED <<ready, attachLock, sock, reader, known, closed, reattaches, connects,
                   cut, opened, clientEnd, serverEnd, outbox, hubVars>>

\* _reattach, once the lock is free: somebody else may have done it already.
Reattach(c) ==
    /\ call[c].pc = "want" /\ attachLock = Connector
    /\ \/ /\ closed
          /\ call' = [call EXCEPT ![c] = Ended(@, "notconnected")]
          /\ UNCHANGED <<inbox, peerClosed, attachLock>>
       \/ Attached /\ Send(c, call) /\ UNCHANGED attachLock
       \/ /\ ~closed /\ ~Attached
          /\ call' = [call EXCEPT ![c].pc = "opening"]
          /\ attachLock' = c
          /\ UNCHANGED <<inbox, peerClosed>>
    /\ UNCHANGED <<ready, sock, reader, known, closed, reattaches, connects, cut, opened,
                   clientEnd, serverEnd, outbox, hubVars>>

Bug_Retry(t) == IF t.tries < Attempts
                THEN [t EXCEPT !.pc = "opening", !.fut = "none", !.tries = @ + 1]
                ELSE Ended(t, "notconnected")
\* A failed attempt: the next one, or NOT_CONNECTED.  connect() makes only one
\* and leaves the transport as it is.
Retry(t) == IF t.tries + 1 < Attempts
            THEN [t EXCEPT !.pc = "opening", !.fut = "none", !.tries = @ + 1]
            ELSE Ended(t, "notconnected")
Failed(c, t) == IF c = Connector THEN [t EXCEPT !.pc = "idle", !.fut = "none"] ELSE Retry(t)
Bug_LockAfter(c, t) == attachLock
LockAfter(c, t) == IF t.pc = "done" THEN Connector ELSE attachLock

\* An attempt of _attach up to its hello.  peerClosed is reset even when the
\* socket cannot be opened.
OpenSocket(c) ==
    /\ call[c].pc = "opening"
    /\ peerClosed' = FALSE
    /\ ready' = ready \o SetToSeq(Doomed(c))
    /\ LET failing == [d \in Callers |-> IF d \in Doomed(c)
                                         THEN [call[d] EXCEPT !.fut = "closed"] ELSE call[d]]
       IN \/ /\ up /\ opened < MaxSockets
             /\ opened' = opened + 1
             /\ sock' = opened'
             /\ reader' = TRUE
             /\ clientEnd' = [Hangup EXCEPT ![opened'] = TRUE]
             /\ serverEnd' = [serverEnd EXCEPT ![opened'] = TRUE]
             /\ inbox' = [inbox EXCEPT ![opened'] = <<[who |-> c, n |-> call[c].n + 1, hello |-> TRUE]>>]
             /\ call' = [failing EXCEPT ![c] = Greeting(@)]
             /\ UNCHANGED attachLock
          \/ /\ ~up \/ opened = MaxSockets
             /\ sock' = 0 /\ reader' = FALSE
             /\ clientEnd' = Hangup
             /\ call' = [failing EXCEPT ![c] = Failed(c, @)]
             /\ attachLock' = LockAfter(c, Failed(c, call[c]))
             /\ UNCHANGED <<opened, serverEnd, inbox>>
    /\ UNCHANGED <<known, closed, reattaches, connects, cut, outbox, hubVars>>

\* The hello is refused, fails with the socket, or its 30 seconds run out.
\* _reattach tears the transport down, connect() lets the error out.
HelloFails(c) ==
    /\ call[c].pc = "hello"
    /\ \/ call[c].fut \in {"refused", "closed"} /\ MyTurn(c)
       \/ call[c].fut = "none"
    /\ IF c = Connector
       THEN /\ ready' = Resumed(c)
            /\ call' = [call EXCEPT ![c] = Failed(c, @)]
            /\ UNCHANGED <<sock, reader, clientEnd, attachLock>>
       ELSE /\ ready' = Resumed(c) \o SetToSeq(Doomed(c))
            /\ call' = [d \in Callers |->
                          IF d = c THEN Failed(c, call[c])
                          ELSE IF d \in Doomed(c) THEN [call[d] EXCEPT !.fut = "closed"]
                          ELSE call[d]]
            /\ sock' = 0 /\ reader' = FALSE /\ clientEnd' = Hangup
            /\ attachLock' = LockAfter(c, Failed(c, call[c]))
    /\ UNCHANGED <<known, closed, peerClosed, reattaches, connects, cut, opened, serverEnd,
                   inbox, outbox, hubVars>>

Bug_Counted(t) == IF t.again THEN reattaches ELSE reattaches + 1
Counted(t) == reattaches + 1

\* The hello is answered: the counter moves, the lock is released and the
\* request goes out, with no await in between.  The socket may be gone by then.
HelloAnswered(c) ==
    /\ call[c].pc = "hello" /\ call[c].fut = "ok"
    /\ MyTurn(c)
    /\ ready' = Resumed(c)
    /\ known' = TRUE
    /\ IF c = Connector
       THEN /\ call' = [call EXCEPT ![c] = [@ EXCEPT !.pc = "idle", !.fut = "none"]]
            /\ UNCHANGED <<reattaches, attachLock, inbox, peerClosed>>
       ELSE /\ reattaches' = Counted(call[c])
            /\ attachLock' = Connector
            /\ IF sock = 0
               THEN /\ call' = [call EXCEPT ![c] = Ended(@, "notconnected")]
                    /\ UNCHANGED <<inbox, peerClosed>>
               ELSE Send(c, call)
    /\ UNCHANGED <<sock, reader, closed, connects, cut, opened, clientEnd, serverEnd, outbox,
                   hubVars>>

Bug_Return(c) ==
    /\ call[c].pc = "wait" /\ MyTurn(c)
    /\ ready' = Resumed(c)
    /\ call' = [call EXCEPT ![c] =
                  IF @.fut = "closed" /\ ~@.again
                  THEN [@ EXCEPT !.pc = "want", !.fut = "none", !.again = TRUE]
                  ELSE [Ended(@, @.fut) EXCEPT !.on = call[c].on, !.seen = reattaches]]
    /\ UNCHANGED <<attachLock, sock, reader, known, closed, peerClosed, reattaches, connects,
                   cut, opened, clientEnd, serverEnd, inbox, outbox, hubVars>>

\* The reply to a request is there, or the socket went: a read is resent once.
Return(c) ==
    /\ call[c].pc = "wait" /\ MyTurn(c)
    /\ ready' = Resumed(c)
    /\ call' = [call EXCEPT ![c] =
                  IF @.fut = "closed" /\ c \in Reads /\ ~@.again
                  THEN [@ EXCEPT !.pc = "want", !.fut = "none", !.again = TRUE]
                  ELSE [Ended(@, @.fut) EXCEPT !.on = call[c].on, !.seen = reattaches]]
    /\ UNCHANGED <<attachLock, sock, reader, known, closed, peerClosed, reattaches, connects,
                   cut, opened, clientEnd, serverEnd, inbox, outbox, hubVars>>

\* wait_for in _send runs out.  The reply, if it comes, finds no future.
TimeOut(c) ==
    /\ call[c].pc = "wait" /\ call[c].fut = "none"
    /\ call' = [call EXCEPT ![c] = Ended(@, "timeout")]
    /\ UNCHANGED <<ready, attachLock, sock, reader, known, closed, peerClosed, reattaches,
                   connects, cut, opened, clientEnd, serverEnd, inbox, outbox, hubVars>>

\* The engine's own wait_for (griff_engine_live.py) cancels the request where
\* it stands.  Half an attach stays: the socket is open, nothing is counted.
Cancel(c) ==
    /\ c \in Impatient /\ call[c].pc \in {"want", "opening", "hello", "wait"}
    /\ call[c].fut = "none"
    /\ call' = [call EXCEPT ![c] = Ended(@, "cancelled")]
    /\ attachLock' = IF attachLock = c THEN Connector ELSE attachLock
    /\ cut' = (cut \/ call[c].pc = "hello")
    /\ UNCHANGED <<ready, sock, reader, known, closed, peerClosed, reattaches, connects,
                   opened, clientEnd, serverEnd, inbox, outbox, hubVars>>

\* connect(): engines call it before their requests, and again between them.
Connect ==
    /\ call[Connector].pc = "idle" /\ connects < MaxConnects
    /\ \A c \in Requests : call[c].pc \in {"idle", "done"}
    /\ closed' = FALSE
    /\ connects' = connects + 1
    /\ call' = [call EXCEPT ![Connector].pc = "opening"]
    /\ UNCHANGED <<ready, attachLock, sock, reader, known, peerClosed, reattaches, cut, opened,
                   clientEnd, serverEnd, inbox, outbox, hubVars>>

\* close(): _closed is set first, so the unsubscribe it means to send is never
\* sent (attached is false by then); the hub learns of it from the socket.
Close ==
    /\ ~closed /\ call[Connector].pc = "idle" /\ connects > 0
    /\ closed' = TRUE
    /\ IF reader THEN FailAll(Waiting) ELSE UNCHANGED <<call, ready>>
    /\ sock' = 0 /\ reader' = FALSE /\ clientEnd' = Hangup
    /\ UNCHANGED <<attachLock, known, peerClosed, reattaches, connects, cut, opened, serverEnd,
                   inbox, outbox, hubVars>>

\* _read_loop: a reply goes to the future of its request id, if it still waits.
Deliver ==
    /\ reader /\ outbox[sock] # <<>>
    /\ LET r == Head(outbox[sock])
           c == r.who
       IN IF c \in Waiting /\ call[c].n = r.n
          THEN /\ call' = [call EXCEPT ![c] = [@ EXCEPT !.fut = r.res, !.on = sock]]
               /\ ready' = Append(ready, c)
          ELSE UNCHANGED <<call, ready>>
    /\ outbox' = [outbox EXCEPT ![sock] = Tail(@)]
    /\ UNCHANGED <<attachLock, sock, reader, known, closed, peerClosed, reattaches, connects,
                   cut, opened, clientEnd, serverEnd, inbox, hubVars>>

\* The hub's end is closed and everything it sent is read.
ReaderEnds ==
    /\ reader /\ outbox[sock] = <<>> /\ ~serverEnd[sock]
    /\ reader' = FALSE
    /\ peerClosed' = TRUE
    /\ FailAll(Waiting)
    /\ UNCHANGED <<attachLock, sock, known, closed, reattaches, connects, cut, opened,
                   clientEnd, serverEnd, inbox, outbox, hubVars>>

-----------------------------------------------------------------------------
(* Hub: one handler per socket, one task per frame. *)

Reply(s, f, res) ==
    outbox' = IF serverEnd[s] THEN [outbox EXCEPT ![s] = Append(@, [who |-> f.who, n |-> f.n, res |-> res])]
                              ELSE outbox

\* _serve_one and _dispatch up to the first await.  Tasks start in the order
\* their frames came, also after the handler has seen the end of the socket.
Hello(s) ==
    /\ inbox[s] # <<>> /\ Head(inbox[s]).hello
    /\ inbox' = [inbox EXCEPT ![s] = Tail(@)]
    /\ IF willing
       THEN /\ registry' = registry \cup {s}
            /\ cid' = [cid EXCEPT ![s] = TRUE]
            /\ late' = IF serverEnd[s] THEN late ELSE late \cup {s}
            /\ Reply(s, Head(inbox[s]), "ok")
       ELSE /\ Reply(s, Head(inbox[s]), "refused")
            /\ UNCHANGED <<registry, cid, late>>
    /\ UNCHANGED <<clientVars, opened, clientEnd, serverEnd, up, stops, willing, serving, handed>>

Registered(s) == cid[s] /\ s \in registry

Dispatch(s) ==
    /\ inbox[s] # <<>> /\ ~Head(inbox[s]).hello
    /\ inbox' = [inbox EXCEPT ![s] = Tail(@)]
    /\ LET f == Head(inbox[s])
       IN IF Registered(s)
          THEN /\ serving' = serving \cup {<<s, f>>}
               /\ handed' = [handed EXCEPT ![f.who] = @ + 1]
               /\ UNCHANGED outbox
          ELSE Reply(s, f, "refused") /\ UNCHANGED <<serving, handed>>
    /\ UNCHANGED <<clientVars, opened, clientEnd, serverEnd, up, stops, willing, cid, registry, late>>

\* The owner is done with a request; a closed socket gets no reply.
Finish(s, f) ==
    /\ <<s, f>> \in serving
    /\ serving' = serving \ {<<s, f>>}
    /\ \E res \in {"ok", "error"} : Reply(s, f, res)
    /\ UNCHANGED <<clientVars, opened, clientEnd, serverEnd, inbox, up, stops, willing, cid,
                   registry, late, handed>>

Bug_HandlerEnds(s) ==
    /\ serverEnd[s] /\ ~clientEnd[s]
    /\ serverEnd' = [serverEnd EXCEPT ![s] = FALSE]
    /\ registry' = {}
    /\ outbox' = [outbox EXCEPT ![s] = <<>>]
    /\ UNCHANGED <<clientVars, opened, clientEnd, inbox, up, stops, willing, cid, serving, late, handed>>

\* The end of _handle: unregistered, and what is in flight goes on.
HandlerEnds(s) ==
    /\ serverEnd[s] /\ ~clientEnd[s]
    /\ serverEnd' = [serverEnd EXCEPT ![s] = FALSE]
    /\ registry' = IF cid[s] THEN registry \ {s} ELSE registry
    /\ outbox' = [outbox EXCEPT ![s] = <<>>]
    /\ UNCHANGED <<clientVars, opened, clientEnd, inbox, up, stops, willing, cid, serving, late, handed>>

\* The process ends, by close() or by a crash, and its state with it.
HubStops ==
    /\ up /\ stops < MaxStops
    /\ up' = FALSE /\ stops' = stops + 1
    /\ serverEnd' = NoSocket /\ cid' = NoSocket
    /\ inbox' = [s \in Sockets |-> <<>>]
    /\ registry' = {} /\ serving' = {} /\ late' = {}
    /\ UNCHANGED <<clientVars, opened, clientEnd, outbox, willing, handed>>

HubStarts ==
    /\ ~up /\ up' = TRUE
    /\ willing' \in BOOLEAN
    /\ UNCHANGED <<clientVars, opened, clientEnd, serverEnd, inbox, outbox, stops, cid, registry,
                   serving, late, handed>>

-----------------------------------------------------------------------------
Step(c) == \/ Issue(c) \/ Reattach(c) \/ OpenSocket(c) \/ HelloFails(c)
           \/ HelloAnswered(c) \/ Return(c) \/ TimeOut(c)

Next ==
    \/ \E c \in Callers : Step(c) \/ Cancel(c)
    \/ Connect \/ Close \/ Deliver \/ ReaderEnds
    \/ \E s \in Sockets : Hello(s) \/ Dispatch(s) \/ HandlerEnds(s)
    \/ \E t \in serving : Finish(t[1], t[2])
    \/ HubStops \/ HubStarts

Finished == \A c \in Requests : call[c].pc = "done"

\* The event loop runs every task that can run, timers included.  Nothing is
\* asked of the hub: it may never answer.
Fairness == \A c \in Callers :
    WF_vars(Reattach(c) \/ OpenSocket(c) \/ HelloFails(c) \/ HelloAnswered(c) \/ Return(c) \/ TimeOut(c))

Spec == Init /\ [][Next]_vars /\ Fairness

-----------------------------------------------------------------------------
TypeOK ==
    /\ call \in [Callers -> Task]
    /\ ready \in Seq(Callers) /\ attachLock \in Callers
    /\ sock \in 0 .. opened /\ opened \in 0 .. MaxSockets
    /\ {reader, known, closed, peerClosed, cut, up, willing} \subseteq BOOLEAN
    /\ reattaches \in 0 .. MaxSockets /\ connects \in 0 .. MaxConnects /\ stops \in 0 .. MaxStops
    /\ {clientEnd, serverEnd, cid} \subseteq [Sockets -> BOOLEAN]
    /\ registry \subseteq Sockets /\ late \subseteq Sockets
    /\ handed \in [Requests -> Nat]

\* What an engine may conclude from the outcome of a change: "ok" and "error"
\* mean the owner was given it once, "refused" and "notconnected" that it never
\* was and never will be, and no reattach, resend or late frame hands it over
\* twice (client.py:114-139, server.py:158-192).
Contract == INSTANCE HubCall WITH
    Calls <- Changes,
    outcome <- [c \in Changes |-> call[c].out],
    handed <- [c \in Changes |-> handed[c]]
HonoursContract == Contract!Spec

\* A request on a socket whose hello the hub accepted is never turned away as
\* unregistered: it may be pipelined right behind the hello, and the end of an
\* older socket of the same engine may be noticed after it (server.py:120, 186).
NeverUnregistered ==
    \A s \in Sockets : (serverEnd[s] /\ willing /\ inbox[s] # <<>> /\ ~Head(inbox[s]).hello)
                          => Registered(s)

\* Two requests answered over different sockets returned with different values
\* of the counter, so book_sync notices every reattach (client.py:172-173,
\* modules/book_sync.py:147), unless connect() made the new socket or the
\* engine's wait_for cut the attach short.
ReattachIsSeen ==
    (connects = 1 /\ ~cut) =>
        \A c, d \in Requests :
            (call[c].out = "ok" /\ call[d].out = "ok" /\ call[c].on # call[d].on)
                => call[c].seen # call[d].seen

\* The client holds at most the socket it writes to, and the hub's registry
\* holds only open connections, and those whose hello was served after their
\* socket had ended, which stay until the hub restarts (server.py:112-122,
\* 141-146; client.py:216-233).
NothingLeaks ==
    /\ \A s \in Sockets : clientEnd[s] => s = sock
    /\ \A s \in registry : serverEnd[s] \/ s \in late

\* Every request of the engine ends, whatever the hub does (client.py:157-202).
RequestsEnd == \A c \in Requests : call[c].pc # "idle" ~> call[c].pc = "done"

\* After the engine's close() no lost socket is replaced.  tests/metaapi_hub/
\* test_resilience.py:137: "detach() is the engine's own close: no further
\* reattach happens."
NoReattachAfterClose == [][closed /\ known => opened' = opened]_vars
=============================================================================
