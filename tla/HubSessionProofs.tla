---------------------------- MODULE HubSessionProofs ----------------------------
(***************************************************************************)
(* What an engine may rely on in its session with the hub, for any number   *)
(* of requests, sockets, attempts and stops of the hub.                     *)
(*                                                                          *)
(* Typed is the part of the types the rest needs.  SocketInv relates the    *)
(* two ends of a socket: a hello is in front of every queue whose           *)
(* connection is not registered.  TrackInv follows one change: its request  *)
(* is in at most one place, the ids of its hellos are used up when it goes  *)
(* out, and so a reply that its future accepts tells the truth about it.    *)
(* A step of the client moves at most the task that makes it (OneMoves),    *)
(* which makes it one answer of HubCall or none.                            *)
(*                                                                          *)
(* ReattachIsSeen needs the order in which tasks resume.  TurnInv ties ready *)
(* to the futures that are set and the lock to the one task that attaches;   *)
(* HelloInv and HearInv say what is on the current socket while a hello is   *)
(* out; and SeenInv orders the values of the counter that the answered       *)
(* requests saw, or will see when their turn comes, by their sockets.        *)
(*                                                                          *)
(* Spare and Flags are what is left of the types: the counter stays below    *)
(* the sockets opened, as one task at a time attaches.                       *)
(***************************************************************************)
EXTENDS HubSession, FiniteSetTheorems, TLAPS

USE SessionAssumption

Frames == [who : Callers, n : Nat, hello : BOOLEAN]
Replies == [who : Callers, n : Nat, res : {"ok", "error", "refused"}]

\* The types the argument needs: that of ready is in TurnInv, those of the ghost
\* counters are left out.
Typed ==
    /\ call \in [Callers -> Task]
    /\ sock \in 0 .. MaxSockets /\ opened \in 0 .. MaxSockets /\ reattaches \in Nat
    /\ reader => sock # 0
    /\ up \in BOOLEAN /\ willing \in BOOLEAN
    /\ clientEnd \in [Sockets -> BOOLEAN] /\ serverEnd \in [Sockets -> BOOLEAN]
    /\ cid \in [Sockets -> BOOLEAN] /\ registry \subseteq Sockets
    /\ inbox \in [Sockets -> Seq(Frames)] /\ outbox \in [Sockets -> Seq(Replies)]
    /\ serving \subseteq Sockets \X Frames
    /\ handed \in [Requests -> Nat]

-----------------------------------------------------------------------------
(* Tasks. *)

Pcs == {"idle", "want", "opening", "hello", "wait", "done"}

LEMMA TaskFields ==
    ASSUME NEW t \in Task
    PROVE  /\ t.pc \in Pcs /\ t.n \in Nat /\ t.fut \in Outcomes /\ t.again \in BOOLEAN
           /\ t.tries \in 0 .. Attempts - 1 /\ t.out \in Outcomes
           /\ t.on \in 0 .. MaxSockets /\ t.seen \in Nat
BY DEF Task, Pcs

LEMMA LabelsAre ==
    /\ {"idle", "want", "opening", "hello", "wait", "done"} \subseteq Pcs
    /\ {"none", "ok", "error", "refused", "notconnected", "closed", "timeout", "cancelled"}
         \subseteq Outcomes
BY DEF Pcs, Outcomes

LEMMA ATask ==
    ASSUME NEW p \in Pcs, NEW n \in Nat, NEW f \in Outcomes, NEW a \in BOOLEAN,
           NEW r \in 0 .. Attempts - 1, NEW o \in Outcomes, NEW s \in 0 .. MaxSockets, NEW k \in Nat
    PROVE  [pc |-> p, n |-> n, fut |-> f, again |-> a, tries |-> r, out |-> o, on |-> s,
            seen |-> k] \in Task
BY DEF Pcs, Task

\* A task that moves on stays a task.
LEMMA MovePc ==
    ASSUME NEW t \in Task, NEW p \in Pcs
    PROVE  [t EXCEPT !.pc = p] \in Task
BY DEF Pcs, Task

LEMMA MoveFut ==
    ASSUME NEW t \in Task, NEW f \in Outcomes
    PROVE  [t EXCEPT !.fut = f] \in Task
BY DEF Pcs, Task

LEMMA MovePcFut ==
    ASSUME NEW t \in Task, NEW p \in Pcs, NEW f \in Outcomes
    PROVE  [t EXCEPT !.pc = p, !.fut = f] \in Task
BY DEF Pcs, Task

LEMMA MovePcFutAgain ==
    ASSUME NEW t \in Task, NEW p \in Pcs, NEW f \in Outcomes, NEW a \in BOOLEAN
    PROVE  [t EXCEPT !.pc = p, !.fut = f, !.again = a] \in Task
BY DEF Pcs, Task

LEMMA MoveHello ==
    ASSUME NEW t \in Task, NEW p \in Pcs, NEW n \in Nat, NEW f \in Outcomes
    PROVE  [t EXCEPT !.pc = p, !.n = n, !.fut = f] \in Task
BY DEF Pcs, Task

LEMMA MoveSent ==
    ASSUME NEW t \in Task, NEW p \in Pcs, NEW n \in Nat, NEW f \in Outcomes, NEW r \in 0 .. Attempts - 1
    PROVE  [t EXCEPT !.pc = p, !.n = n, !.fut = f, !.tries = r] \in Task
BY DEF Pcs, Task

LEMMA MoveTries ==
    ASSUME NEW t \in Task, NEW p \in Pcs, NEW f \in Outcomes, NEW r \in 0 .. Attempts - 1
    PROVE  [t EXCEPT !.pc = p, !.fut = f, !.tries = r] \in Task
BY DEF Pcs, Task

LEMMA MoveOut ==
    ASSUME NEW t \in Task, NEW p \in Pcs, NEW o \in Outcomes
    PROVE  [t EXCEPT !.pc = p, !.out = o] \in Task
BY DEF Pcs, Task

LEMMA MoveFutOn ==
    ASSUME NEW t \in Task, NEW f \in Outcomes, NEW s \in 0 .. MaxSockets
    PROVE  [t EXCEPT !.fut = f, !.on = s] \in Task
BY DEF Pcs, Task

LEMMA MoveOnSeen ==
    ASSUME NEW t \in Task, NEW s \in 0 .. MaxSockets, NEW k \in Nat
    PROVE  [t EXCEPT !.on = s, !.seen = k] \in Task
BY DEF Pcs, Task

LEMMA IdleType == Idle \in Task
<1>1. "idle" \in Pcs /\ "none" \in Outcomes /\ 0 \in Nat /\ FALSE \in BOOLEAN
      /\ 0 \in 0 .. Attempts - 1 /\ 0 \in 0 .. MaxSockets
  BY LabelsAre
<1> QED
  BY <1>1, ATask DEF Idle

LEMMA EndedType ==
    ASSUME NEW t, NEW o \in Outcomes
    PROVE  Ended(t, o) \in Task
<1>1. "done" \in Pcs
  BY LabelsAre
<1> QED
  BY <1>1, IdleType, MoveOut DEF Ended

LEMMA SentType ==
    ASSUME NEW t \in Task
    PROVE  Sent(t) \in Task
<1>1. "wait" \in Pcs /\ "none" \in Outcomes /\ t.n + 1 \in Nat /\ 0 \in 0 .. Attempts - 1
  BY LabelsAre, TaskFields
<1> QED
  BY <1>1, MoveSent DEF Sent

LEMMA HelloType ==
    ASSUME NEW t \in Task
    PROVE  Greeting(t) \in Task
<1>1. "hello" \in Pcs /\ "none" \in Outcomes /\ t.n + 1 \in Nat
  BY LabelsAre, TaskFields
<1> QED
  BY <1>1, MoveHello DEF Greeting

LEMMA ReturnedType ==
    ASSUME NEW o \in Outcomes, NEW s \in 0 .. MaxSockets, NEW k \in Nat, NEW t
    PROVE  [Ended(t, o) EXCEPT !.on = s, !.seen = k] \in Task
BY EndedType, MoveOnSeen

LEMMA FailedType ==
    ASSUME NEW t \in Task, NEW c
    PROVE  Failed(c, t) \in Task
<1>0. "opening" \in Pcs /\ "idle" \in Pcs /\ "none" \in Outcomes /\ "notconnected" \in Outcomes
  BY LabelsAre
<1>1. Retry(t) \in Task
  <2>1. CASE t.tries + 1 < Attempts
    <3>1. t.tries + 1 \in 0 .. Attempts - 1
      BY <2>1, TaskFields
    <3>2. [t EXCEPT !.pc = "opening", !.fut = "none", !.tries = t.tries + 1] \in Task
      BY <1>0, <3>1, MoveTries
    <3> QED
      BY <2>1, <3>2 DEF Retry
  <2>2. CASE ~(t.tries + 1 < Attempts)
    BY <1>0, <2>2, EndedType DEF Retry
  <2> QED
    BY <2>1, <2>2
<1>2. [t EXCEPT !.pc = "idle", !.fut = "none"] \in Task
  BY <1>0, MovePcFut
<1> QED
  BY <1>1, <1>2 DEF Failed
-----------------------------------------------------------------------------
(* Sockets. *)

LEMMA PutTask ==
    ASSUME NEW f \in [Callers -> Task], NEW c \in Callers, NEW t \in Task
    PROVE  [f EXCEPT ![c] = t] \in [Callers -> Task]
OBVIOUS

LEMMA PutAgain ==
    ASSUME NEW f \in [Callers -> Task], NEW c \in Callers
    PROVE  [f EXCEPT ![c] = [@ EXCEPT !.pc = "want", !.fut = "none", !.again = TRUE]]
             \in [Callers -> Task]
<1>1. [f[c] EXCEPT !.pc = "want", !.fut = "none", !.again = TRUE] \in Task
  BY MovePcFutAgain, LabelsAre
<1> QED
  BY <1>1

LEMMA PutAnswer ==
    ASSUME NEW f \in [Callers -> Task], NEW c \in Callers, NEW k \in Nat
    PROVE  [f EXCEPT ![c] = [Ended(@, @.fut) EXCEPT !.on = f[c].on, !.seen = k]]
             \in [Callers -> Task]
<1>1. f[c].fut \in Outcomes /\ f[c].on \in 0 .. MaxSockets
  BY TaskFields
<1>2. [Ended(f[c], f[c].fut) EXCEPT !.on = f[c].on, !.seen = k] \in Task
  BY <1>1, ReturnedType
<1> QED
  BY <1>2

LEMMA PutFrame ==
    ASSUME Typed, NEW s \in Sockets, NEW f \in Frames
    PROVE  [inbox EXCEPT ![s] = Append(@, f)] \in [Sockets -> Seq(Frames)]
<1>1. Append(inbox[s], f) \in Seq(Frames)
  BY DEF Typed
<1> QED
  BY <1>1 DEF Typed

LEMMA FrameType ==
    ASSUME Typed, NEW c \in Callers, NEW b \in BOOLEAN
    PROVE  [who |-> c, n |-> call[c].n + 1, hello |-> b] \in Frames
<1>1. call[c].n + 1 \in Nat
  BY TaskFields DEF Typed
<1> DEFINE k == call[c].n + 1
<1> HIDE DEF k
<1>2. k \in Nat
  BY <1>1 DEF k
<1>3. [who |-> c, n |-> k, hello |-> b] \in Frames
  BY <1>2 DEF Frames
<1> QED
  BY <1>3 DEF k

LEMMA SendType ==
    ASSUME Typed, NEW c \in Callers, NEW others \in [Callers -> Task], sock # 0, Send(c, others)
    PROVE  call' \in [Callers -> Task] /\ inbox' \in [Sockets -> Seq(Frames)]
<1>1. others[c] \in Task
  OBVIOUS
<1>2. Sent(others[c]) \in Task /\ Ended(others[c], "closed") \in Task
      /\ [others[c] EXCEPT !.pc = "want", !.fut = "none", !.again = TRUE] \in Task
  BY <1>1, SentType, EndedType, MovePcFutAgain, LabelsAre
<1>3. call' \in [Callers -> Task]
  BY <1>2, PutTask DEF Send
<1>4. sock \in Sockets
  BY DEF Typed, Sockets
<1>5. Frame(c) \in Frames
  BY FrameType DEF Frame
<1>6. inbox' \in [Sockets -> Seq(Frames)]
  <2>1. [inbox EXCEPT ![sock] = Append(@, Frame(c))] \in [Sockets -> Seq(Frames)]
    BY <1>4, <1>5, PutFrame
  <2> QED
    BY <2>1 DEF Send, Typed
<1> QED
  BY <1>3, <1>6

\* The client's end after a hangup: at most the others', which there are none of.
LEMMA HangupType ==
    ASSUME Typed
    PROVE  /\ Hangup \in [Sockets -> BOOLEAN]
           /\ \A s \in Sockets : Hangup[s] => clientEnd[s] /\ s # sock
BY DEF Typed, Hangup, Sockets
LEMMA TypedInit == Init => Typed
<1> SUFFICES ASSUME Init PROVE Typed
  OBVIOUS
<1>1. call \in [Callers -> Task]
  BY IdleType DEF Init
<1>2. /\ inbox \in [Sockets -> Seq(Frames)] /\ outbox \in [Sockets -> Seq(Replies)]
      /\ NoSocket \in [Sockets -> BOOLEAN]
  BY DEF Init, NoSocket
<1> QED
  BY <1>1, <1>2 DEF Init, Typed

\* A step of a task of the client.
LEMMA TypedTask ==
    ASSUME Typed, NEW c \in Callers, Step(c) \/ Cancel(c)
    PROVE  Typed'
<1>0. call[c] \in Task
  BY DEF Typed
<1>1. CASE Issue(c)
  <2>1. call' \in [Callers -> Task] /\ inbox' \in [Sockets -> Seq(Frames)]
    <3>1. CASE call' = [call EXCEPT ![c] = Ended(@, "notconnected")] /\ UNCHANGED inbox
      BY <3>1, EndedType, LabelsAre, PutTask DEF Typed
    <3>2. CASE call' = [call EXCEPT ![c].pc = "want"] /\ UNCHANGED inbox
      BY <1>0, <3>2, MovePc, LabelsAre, PutTask DEF Typed
    <3>3. CASE Attached /\ Send(c, call)
      BY <3>3, SendType DEF Typed, Attached
    <3> QED
      BY <1>1, <3>1, <3>2, <3>3 DEF Issue
  <2> QED
    BY <1>1, <2>1 DEF Issue, Typed, hubVars
<1>2. CASE Reattach(c)
  <2>1. call' \in [Callers -> Task] /\ inbox' \in [Sockets -> Seq(Frames)]
    <3>1. CASE call' = [call EXCEPT ![c] = Ended(@, "notconnected")] /\ UNCHANGED inbox
      BY <3>1, EndedType, LabelsAre, PutTask DEF Typed
    <3>2. CASE call' = [call EXCEPT ![c].pc = "opening"] /\ UNCHANGED inbox
      BY <1>0, <3>2, MovePc, LabelsAre, PutTask DEF Typed
    <3>3. CASE Attached /\ Send(c, call)
      BY <3>3, SendType DEF Typed, Attached
    <3> QED
      BY <1>2, <3>1, <3>2, <3>3 DEF Reattach
  <2> QED
    BY <1>2, <2>1 DEF Reattach, Typed, hubVars
<1>3. CASE OpenSocket(c)
  <2> DEFINE failing == [d \in Callers |-> IF d \in Doomed(c)
                                THEN [call[d] EXCEPT !.fut = "closed"] ELSE call[d]]
  <2>1. failing \in [Callers -> Task]
    <3>1. ASSUME NEW d \in Callers PROVE [call[d] EXCEPT !.fut = "closed"] \in Task
      BY LabelsAre, MoveFut DEF Typed
    <3> QED
      BY <3>1 DEF Typed
  <2>2. failing[c] \in Task
    BY <2>1
  <2>3. CASE /\ up /\ opened < MaxSockets /\ opened' = opened + 1 /\ sock' = opened'
             /\ reader' = TRUE
             /\ clientEnd' = [Hangup EXCEPT ![opened'] = TRUE]
             /\ serverEnd' = [serverEnd EXCEPT ![opened'] = TRUE]
             /\ inbox' = [inbox EXCEPT ![opened'] = <<[who |-> c, n |-> call[c].n + 1, hello |-> TRUE]>>]
             /\ call' = [failing EXCEPT ![c] = Greeting(@)]
    <3>1. call' \in [Callers -> Task]
      <4>1. call' = [failing EXCEPT ![c] = Greeting(@)]
        BY <2>3
      <4> HIDE DEF failing
      <4> QED
        BY <2>1, <4>1, HelloType, PutTask
    <3>2. opened' \in 0 .. MaxSockets /\ sock' \in 0 .. MaxSockets /\ sock' # 0
      BY <2>3 DEF Typed
    <3>3. inbox' \in [Sockets -> Seq(Frames)]
      <4>1. [who |-> c, n |-> call[c].n + 1, hello |-> TRUE] \in Frames
        BY FrameType
      <4> DEFINE f == [who |-> c, n |-> call[c].n + 1, hello |-> TRUE]
      <4>2. inbox' = [inbox EXCEPT ![opened'] = <<f>>]
        BY <2>3
      <4> HIDE DEF f
      <4>3. <<f>> \in Seq(Frames)
        BY <4>1 DEF f
      <4> QED
        BY <4>2, <4>3 DEF Typed
    <3>4. clientEnd' \in [Sockets -> BOOLEAN] /\ serverEnd' \in [Sockets -> BOOLEAN]
      BY <2>3, HangupType DEF Typed
    <3> QED
      BY <1>3, <3>1, <3>2, <3>3, <3>4 DEF OpenSocket, Typed, hubVars
  <2>4. CASE /\ sock' = 0 /\ reader' = FALSE /\ clientEnd' = Hangup
             /\ call' = [failing EXCEPT ![c] = Failed(c, @)]
             /\ UNCHANGED <<opened, serverEnd, inbox>>
    <3>1. call' \in [Callers -> Task]
      <4>1. Failed(c, failing[c]) \in Task
        BY <2>2, FailedType
      <4> HIDE DEF failing
      <4> QED
        BY <2>1, <2>4, <4>1, PutTask
    <3>2. UNCHANGED <<opened, serverEnd, inbox, outbox, reattaches, hubVars>>
      BY <1>3, <2>4 DEF OpenSocket
    <3>3. sock' = 0 /\ reader' = FALSE /\ clientEnd' \in [Sockets -> BOOLEAN]
      BY <2>4, HangupType
    <3> HIDE DEF failing
    <3> QED
      BY <3>1, <3>2, <3>3 DEF Typed, hubVars
  <2> QED
    BY <1>3, <2>3, <2>4 DEF OpenSocket
<1>4. CASE HelloFails(c)
  <2>1. Failed(c, call[c]) \in Task
    BY <1>0, FailedType
  <2>2. CASE c = Connector
    <3>1. call' \in [Callers -> Task]
      BY <1>4, <2>1, <2>2, PutTask DEF HelloFails, Typed
    <3>2. UNCHANGED <<sock, reader, clientEnd, opened, serverEnd, inbox, outbox, reattaches,
                      hubVars>>
      BY <1>4, <2>2 DEF HelloFails
    <3> QED
      BY <3>1, <3>2 DEF Typed, hubVars
  <2>3. CASE c # Connector
    <3>1. call' \in [Callers -> Task]
      <4>1. ASSUME NEW d \in Callers PROVE [call[d] EXCEPT !.fut = "closed"] \in Task
        BY LabelsAre, MoveFut DEF Typed
      <4>2. call' = [d \in Callers |->
                          IF d = c THEN Failed(c, call[c])
                          ELSE IF d \in Doomed(c) THEN [call[d] EXCEPT !.fut = "closed"]
                          ELSE call[d]]
        BY <1>4, <2>3 DEF HelloFails
      <4> QED
        BY <2>1, <4>1, <4>2 DEF Typed
    <3> QED
      BY <1>4, <2>3, <3>1, HangupType DEF HelloFails, Typed, hubVars
  <2> QED
    BY <2>2, <2>3
<1>5. CASE HelloAnswered(c)
  <2>1. call' \in [Callers -> Task] /\ inbox' \in [Sockets -> Seq(Frames)]
    <3>1. CASE c = Connector
      <4>1. [call[c] EXCEPT !.pc = "idle", !.fut = "none"] \in Task
        BY <1>0, MovePcFut, LabelsAre
      <4> DEFINE t == [call[c] EXCEPT !.pc = "idle", !.fut = "none"]
      <4>2. call' = [call EXCEPT ![c] = t] /\ inbox' = inbox
        BY <1>5, <3>1 DEF HelloAnswered
      <4> HIDE DEF t
      <4>3. t \in Task
        BY <4>1 DEF t
      <4> QED
        BY <4>2, <4>3, PutTask DEF Typed
    <3>2. CASE c # Connector /\ sock = 0
      <4>1. call' = [call EXCEPT ![c] = Ended(@, "notconnected")] /\ inbox' = inbox
        BY <1>5, <3>2 DEF HelloAnswered
      <4> QED
        BY <4>1, EndedType, LabelsAre, PutTask DEF Typed
    <3>3. CASE c # Connector /\ sock # 0
      <4>1. Send(c, call)
        BY <1>5, <3>3 DEF HelloAnswered
      <4> QED
        BY <3>3, <4>1, SendType DEF Typed
    <3> QED
      BY <3>1, <3>2, <3>3
  <2>2. reattaches' \in Nat
    BY <1>5 DEF HelloAnswered, Typed, Counted
  <2> QED
    BY <1>5, <2>1, <2>2 DEF HelloAnswered, Typed, hubVars
<1>6. CASE Return(c)
  <2>1. call[c].fut \in Outcomes /\ call[c].on \in 0 .. MaxSockets /\ reattaches \in Nat
    BY <1>0, TaskFields DEF Typed
  <2>2. call' \in [Callers -> Task]
    <3>2. CASE call[c].fut = "closed" /\ c \in Reads /\ ~call[c].again
      <4>1. call' = [call EXCEPT ![c] = [@ EXCEPT !.pc = "want", !.fut = "none", !.again = TRUE]]
        BY <1>6, <3>2 DEF Return
      <4> QED
        BY <4>1, PutAgain DEF Typed
    <3>3. CASE ~(call[c].fut = "closed" /\ c \in Reads /\ ~call[c].again)
      <4>1. call' = [call EXCEPT ![c] = [Ended(@, @.fut) EXCEPT !.on = call[c].on, !.seen = reattaches]]
        BY <1>6, <3>3 DEF Return
      <4> QED
        BY <4>1, PutAnswer DEF Typed
    <3> QED
      BY <3>2, <3>3
  <2> QED
    BY <1>6, <2>2 DEF Return, Typed, hubVars
<1>7. CASE TimeOut(c) \/ Cancel(c)
  <2>1. call' \in [Callers -> Task]
    <3>1. Ended(call[c], "timeout") \in Task /\ Ended(call[c], "cancelled") \in Task
      BY EndedType, LabelsAre
    <3> QED
      BY <1>7, <3>1, PutTask DEF TimeOut, Cancel, Typed
  <2> QED
    BY <1>7, <2>1 DEF TimeOut, Cancel, Typed, hubVars
<1> QED
  BY <1>1, <1>2, <1>3, <1>4, <1>5, <1>6, <1>7 DEF Step

\* connect(), close() and the reader.
LEMMA TypedClient ==
    ASSUME Typed, Connect \/ Close \/ Deliver \/ ReaderEnds
    PROVE  Typed'
<1>1. ASSUME NEW cs, FailAll(cs) PROVE call' \in [Callers -> Task]
  <2>1. ASSUME NEW d \in Callers PROVE [call[d] EXCEPT !.fut = "closed"] \in Task
    BY LabelsAre, MoveFut DEF Typed
  <2> QED
    BY <1>1, <2>1 DEF FailAll, Typed
<1>2. CASE Connect
  <2>1. call[Connector] \in Task
    BY DEF Typed, Callers
  <2>2. [call[Connector] EXCEPT !.pc = "opening"] \in Task
    BY <2>1, MovePc, LabelsAre
  <2>3. call' \in [Callers -> Task]
    BY <1>2, <2>2, PutTask DEF Connect, Typed, Callers
  <2> QED
    BY <1>2, <2>3 DEF Connect, Typed, hubVars
<1>3. CASE Close
  <2>1. call' \in [Callers -> Task]
    BY <1>1, <1>3 DEF Close, Typed
  <2>2. sock' = 0 /\ reader' = FALSE /\ clientEnd' \in [Sockets -> BOOLEAN]
    BY <1>3, HangupType DEF Close
  <2>3. UNCHANGED <<opened, serverEnd, inbox, outbox, reattaches, hubVars>>
    BY <1>3 DEF Close
  <2> QED
    BY <2>1, <2>2, <2>3 DEF Typed, hubVars
<1>4. CASE Deliver
  <2>1. sock \in Sockets /\ outbox[sock] \in Seq(Replies) /\ outbox[sock] # <<>>
    BY <1>4 DEF Deliver, Typed, Sockets
  <2>2. Head(outbox[sock]) \in Replies /\ Tail(outbox[sock]) \in Seq(Replies)
    BY <2>1
  <2>3. Head(outbox[sock]).who \in Callers /\ Head(outbox[sock]).res \in Outcomes
    BY <2>2 DEF Replies, Outcomes
  <2>4. call' \in [Callers -> Task]
    <3> DEFINE r == Head(outbox[sock])
    <3>1. sock \in 0 .. MaxSockets /\ call[r.who] \in Task
      BY <2>3 DEF Typed
    <3>2. [call[r.who] EXCEPT !.fut = r.res, !.on = sock] \in Task
      BY <2>3, <3>1, MoveFutOn
    <3>3. \/ call' = [call EXCEPT ![r.who] = [@ EXCEPT !.fut = r.res, !.on = sock]]
          \/ call' = call
      BY <1>4 DEF Deliver
    <3> QED
      BY <2>3, <3>2, <3>3, PutTask DEF Typed
  <2>5. outbox' \in [Sockets -> Seq(Replies)]
    BY <1>4, <2>2 DEF Deliver, Typed
  <2>6. UNCHANGED <<sock, reader, opened, clientEnd, serverEnd, inbox, reattaches, hubVars>>
    BY <1>4 DEF Deliver
  <2> QED
    BY <2>4, <2>5, <2>6 DEF Typed, hubVars
<1>5. CASE ReaderEnds
  <2>1. call' \in [Callers -> Task]
    BY <1>1, <1>5 DEF ReaderEnds
  <2>2. reader' = FALSE
        /\ UNCHANGED <<sock, opened, clientEnd, serverEnd, inbox, outbox, reattaches, hubVars>>
    BY <1>5 DEF ReaderEnds
  <2> QED
    BY <2>1, <2>2 DEF Typed, hubVars
<1> QED
  BY <1>2, <1>3, <1>4, <1>5

LEMMA ReplyType ==
    ASSUME Typed, NEW s \in Sockets, NEW f \in Frames, NEW res \in {"ok", "error", "refused"},
           Reply(s, f, res)
    PROVE  outbox' \in [Sockets -> Seq(Replies)]
<1>1. [who |-> f.who, n |-> f.n, res |-> res] \in Replies
  BY DEF Frames, Replies
<1> DEFINE r == [who |-> f.who, n |-> f.n, res |-> res]
<1>2. outbox' = outbox \/ outbox' = [outbox EXCEPT ![s] = Append(@, r)]
  BY DEF Reply
<1> HIDE DEF r
<1>3. r \in Replies
  BY <1>1 DEF r
<1>4. Append(outbox[s], r) \in Seq(Replies)
  BY <1>3 DEF Typed
<1> QED
  BY <1>2, <1>4 DEF Typed

LEMMA InboxHead ==
    ASSUME Typed, NEW s \in Sockets, inbox[s] # <<>>
    PROVE  Head(inbox[s]) \in Frames /\ Tail(inbox[s]) \in Seq(Frames)
BY DEF Typed

\* The hub.
LEMMA TypedHub ==
    ASSUME Typed,
           \/ \E s \in Sockets : Hello(s) \/ Dispatch(s) \/ HandlerEnds(s)
           \/ \E t \in serving : Finish(t[1], t[2])
           \/ HubStops \/ HubStarts
    PROVE  Typed'
<1>1. CASE \E s \in Sockets : Hello(s)
  <2>1. PICK s \in Sockets : Hello(s)
    BY <1>1
  <2>2. Head(inbox[s]) \in Frames /\ Tail(inbox[s]) \in Seq(Frames)
    BY <2>1, InboxHead DEF Hello
  <2>3. inbox' \in [Sockets -> Seq(Frames)] /\ outbox' \in [Sockets -> Seq(Replies)]
    BY <2>1, <2>2, ReplyType DEF Hello, Typed
  <2>4. registry' \subseteq Sockets /\ cid' \in [Sockets -> BOOLEAN]
    BY <2>1 DEF Hello, Typed
  <2>5. UNCHANGED <<clientVars, opened, clientEnd, serverEnd, up, willing, serving, handed>>
    BY <2>1 DEF Hello
  <2> QED
    BY <2>3, <2>4, <2>5 DEF Typed, clientVars
<1>2. CASE \E s \in Sockets : Dispatch(s)
  <2>1. PICK s \in Sockets : Dispatch(s)
    BY <1>2
  <2>2. Head(inbox[s]) \in Frames /\ Tail(inbox[s]) \in Seq(Frames)
    BY <2>1, InboxHead DEF Dispatch
  <2>3. inbox' \in [Sockets -> Seq(Frames)] /\ outbox' \in [Sockets -> Seq(Replies)]
    BY <2>1, <2>2, ReplyType DEF Dispatch, Typed
  <2>4. serving' \subseteq Sockets \X Frames /\ handed' \in [Requests -> Nat]
    <3> DEFINE f == Head(inbox[s])
    <3>1. /\ serving' = serving \/ serving' = serving \cup {<<s, f>>}
          /\ handed' = handed \/ handed' = [handed EXCEPT ![f.who] = @ + 1]
      BY <2>1 DEF Dispatch
    <3> HIDE DEF f
    <3>2. f \in Frames
      BY <2>2 DEF f
    <3> QED
      BY <3>1, <3>2 DEF Typed
  <2>5. UNCHANGED <<clientVars, opened, clientEnd, serverEnd, up, willing, cid, registry>>
    BY <2>1 DEF Dispatch
  <2> QED
    BY <2>3, <2>4, <2>5 DEF Typed, clientVars
<1>3. CASE \E s \in Sockets : HandlerEnds(s)
  <2>1. PICK s \in Sockets : HandlerEnds(s)
    BY <1>3
  <2>2. outbox' \in [Sockets -> Seq(Replies)]
    BY <2>1 DEF HandlerEnds, Typed
  <2> QED
    BY <2>1, <2>2 DEF HandlerEnds, Typed, clientVars
<1>4. CASE \E t \in serving : Finish(t[1], t[2])
  <2>1. PICK t \in serving : Finish(t[1], t[2])
    BY <1>4
  <2>2. t[1] \in Sockets /\ t[2] \in Frames
    BY DEF Typed
  <2>3. outbox' \in [Sockets -> Seq(Replies)]
    BY <2>1, <2>2, ReplyType DEF Finish
  <2> QED
    BY <2>1, <2>3 DEF Finish, Typed, clientVars
<1>5. CASE HubStops
  <2>1. inbox' \in [Sockets -> Seq(Frames)] /\ NoSocket \in [Sockets -> BOOLEAN]
    BY <1>5 DEF HubStops, NoSocket
  <2> QED
    BY <1>5, <2>1 DEF HubStops, Typed, clientVars
<1>6. CASE HubStarts
  BY <1>6 DEF HubStarts, Typed, clientVars
<1> QED
  BY <1>1, <1>2, <1>3, <1>4, <1>5, <1>6

LEMMA TypedStep == Typed /\ [Next]_vars => Typed'
<1> SUFFICES ASSUME Typed, [Next]_vars PROVE Typed'
  OBVIOUS
<1>1. CASE UNCHANGED vars
  BY <1>1 DEF Typed, vars, clientVars, hubVars
<1>2. CASE Next
  BY <1>2, TypedTask, TypedClient, TypedHub DEF Next
<1> QED
  BY <1>1, <1>2

-----------------------------------------------------------------------------
(* What the two ends of a socket agree on. *)

\* A registration belongs to a connection with an id.
Registers == \A s \in registry : cid[s]

\* A hub that is down has no connections.
DownIsClosed == ~up => \A s \in Sockets : ~serverEnd[s]

\* A socket that is open and not registered still has its hello in front.
HelloFirst ==
    \A s \in Sockets : (serverEnd[s] /\ willing /\ ~Registered(s))
                          => (inbox[s] # <<>> /\ Head(inbox[s]).hello)

SocketInv == Typed /\ NothingLeaks /\ Registers /\ DownIsClosed /\ HelloFirst

LEMMA SocketInit == Init => SocketInv
BY TypedInit DEF Init, SocketInv, NothingLeaks, Registers, DownIsClosed, HelloFirst, NoSocket

\* What a step of the client that opens no socket does to the hub's end of them.
OnlyAppends ==
    /\ UNCHANGED <<serverEnd, hubVars>>
    /\ \A s \in Sockets : inbox'[s] = inbox[s] \/ \E f \in Frames : inbox'[s] = Append(inbox[s], f)

LEMMA SendAppends ==
    ASSUME Typed, NEW c \in Callers, NEW others \in [Callers -> Task], sock # 0, Send(c, others)
    PROVE  \A s \in Sockets :
               inbox'[s] = inbox[s] \/ \E f \in Frames : inbox'[s] = Append(inbox[s], f)
<1>1. Frame(c) \in Frames
  BY FrameType DEF Frame
<1>2. inbox' = inbox \/ inbox' = [inbox EXCEPT ![sock] = Append(@, Frame(c))]
  BY DEF Send
<1> QED
  BY <1>1, <1>2 DEF Typed

LEMMA ClientAppends ==
    ASSUME Typed,
           \/ \E c \in Callers : \/ Issue(c) \/ Reattach(c) \/ HelloFails(c) \/ HelloAnswered(c)
                                 \/ Return(c) \/ TimeOut(c) \/ Cancel(c)
           \/ Connect \/ Close \/ Deliver \/ ReaderEnds
    PROVE  OnlyAppends
<1>1. ASSUME NEW c \in Callers, Issue(c) \/ Reattach(c) \/ HelloAnswered(c) PROVE OnlyAppends
  <2>1. UNCHANGED <<serverEnd, hubVars>>
    BY <1>1 DEF Issue, Reattach, HelloAnswered
  <2>2. UNCHANGED inbox \/ (sock # 0 /\ Send(c, call))
    BY <1>1 DEF Issue, Reattach, HelloAnswered, Attached
  <2>3. call \in [Callers -> Task]
    BY DEF Typed
  <2> QED
    BY <2>1, <2>2, <2>3, SendAppends DEF OnlyAppends
<1>2. ASSUME NEW c \in Callers, HelloFails(c) \/ Return(c) \/ TimeOut(c) \/ Cancel(c)
      PROVE OnlyAppends
  BY <1>2 DEF HelloFails, Return, TimeOut, Cancel, OnlyAppends
<1>3. CASE Connect \/ Close \/ Deliver \/ ReaderEnds
  BY <1>3 DEF Connect, Close, Deliver, ReaderEnds, OnlyAppends
<1> QED
  BY <1>1, <1>2, <1>3

\* An append leaves the front of a queue where it is.
LEMMA HeadStays ==
    ASSUME NEW q \in Seq(Frames), NEW f \in Frames, q # <<>>
    PROVE  Append(q, f) # <<>> /\ Head(Append(q, f)) = Head(q)
OBVIOUS

LEMMA AppendsKeep ==
    ASSUME Typed, Registers, DownIsClosed, HelloFirst, OnlyAppends
    PROVE  Registers' /\ DownIsClosed' /\ HelloFirst'
<1>1. UNCHANGED <<serverEnd, up, willing, cid, registry>>
  BY DEF OnlyAppends, hubVars
<1>2. Registers' /\ DownIsClosed'
  BY <1>1 DEF Registers, DownIsClosed
<1>3. ASSUME NEW s \in Sockets, (serverEnd[s] /\ willing /\ ~Registered(s))'
      PROVE  inbox'[s] # <<>> /\ Head(inbox'[s]).hello
  <2>1. inbox[s] # <<>> /\ Head(inbox[s]).hello
    BY <1>1, <1>3 DEF HelloFirst, Registered
  <2>2. inbox[s] \in Seq(Frames)
    BY DEF Typed
  <2> QED
    BY <2>1, <2>2, HeadStays DEF OnlyAppends
<1> QED
  BY <1>2, <1>3 DEF HelloFirst

\* The client's end of the sockets it does not open.
LEMMA ClientLetsGo ==
    ASSUME Typed, NothingLeaks,
           \/ \E c \in Callers : \/ Issue(c) \/ Reattach(c) \/ HelloFails(c) \/ HelloAnswered(c)
                                 \/ Return(c) \/ TimeOut(c) \/ Cancel(c)
           \/ Connect \/ Close \/ Deliver \/ ReaderEnds
    PROVE  NothingLeaks'
<1>1. UNCHANGED <<serverEnd, registry, late>>
  BY ClientAppends DEF OnlyAppends, hubVars
<1>2. UNCHANGED <<sock, clientEnd>> \/ (sock' = 0 /\ clientEnd' = Hangup)
  <2>1. ASSUME NEW c \in Callers, Issue(c) \/ Reattach(c) \/ HelloFails(c) \/ HelloAnswered(c)
                                  \/ Return(c) \/ TimeOut(c) \/ Cancel(c)
        PROVE UNCHANGED <<sock, clientEnd>> \/ (sock' = 0 /\ clientEnd' = Hangup)
    BY <2>1 DEF Issue, Reattach, HelloFails, HelloAnswered, Return, TimeOut, Cancel
  <2> QED
    BY <2>1 DEF Connect, Close, Deliver, ReaderEnds
<1>3. ASSUME NEW s \in Sockets, clientEnd'[s] PROVE s = sock'
  BY <1>2, <1>3, HangupType DEF NothingLeaks
<1> QED
  BY <1>1, <1>3 DEF NothingLeaks

LEMMA SocketOpens ==
    ASSUME SocketInv, NEW c \in Callers, OpenSocket(c)
    PROVE  NothingLeaks' /\ Registers' /\ DownIsClosed' /\ HelloFirst'
<1>0. UNCHANGED <<up, willing, cid, registry, late>>
  BY DEF OpenSocket, hubVars
<1>1. Registers'
  BY <1>0 DEF SocketInv, Registers
<1>2. CASE sock' = 0 /\ clientEnd' = Hangup /\ UNCHANGED <<serverEnd, inbox>>
  <2>1. NothingLeaks'
    BY <1>0, <1>2, HangupType DEF SocketInv, NothingLeaks
  <2> QED
    BY <1>0, <1>1, <1>2, <2>1 DEF SocketInv, DownIsClosed, HelloFirst, Registered
<1>3. CASE /\ up /\ opened < MaxSockets /\ opened' = opened + 1 /\ sock' = opened'
           /\ clientEnd' = [Hangup EXCEPT ![opened'] = TRUE]
           /\ serverEnd' = [serverEnd EXCEPT ![opened'] = TRUE]
           /\ inbox' = [inbox EXCEPT ![opened'] = <<[who |-> c, n |-> call[c].n + 1, hello |-> TRUE]>>]
  <2>1. opened' \in Sockets
    BY <1>3 DEF SocketInv, Typed, Sockets
  <2>2. NothingLeaks'
    BY <1>0, <1>3, <2>1, HangupType DEF SocketInv, Typed, NothingLeaks
  <2>3. DownIsClosed'
    BY <1>0, <1>3 DEF DownIsClosed
  <2>4. ASSUME NEW s \in Sockets, (serverEnd[s] /\ willing /\ ~Registered(s))'
        PROVE  inbox'[s] # <<>> /\ Head(inbox'[s]).hello
    <3> DEFINE f == [who |-> c, n |-> call[c].n + 1, hello |-> TRUE]
    <3>1. CASE s = opened'
      <4>1. inbox'[s] = <<f>> /\ f.hello
        BY <1>3, <2>1, <3>1 DEF SocketInv, Typed
      <4> HIDE DEF f
      <4> QED
        BY <4>1
    <3>2. CASE s # opened'
      <4>1. inbox'[s] = inbox[s] /\ serverEnd'[s] = serverEnd[s]
        BY <1>3, <3>2 DEF SocketInv, Typed
      <4> QED
        BY <1>0, <2>4, <4>1 DEF SocketInv, HelloFirst, Registered
    <3> QED
      BY <3>1, <3>2
  <2> QED
    BY <1>1, <2>2, <2>3, <2>4 DEF HelloFirst
<1> QED
  BY <1>2, <1>3 DEF OpenSocket

LEMMA SocketHub ==
    ASSUME SocketInv,
           \/ \E s \in Sockets : Hello(s) \/ Dispatch(s) \/ HandlerEnds(s)
           \/ \E t \in serving : Finish(t[1], t[2])
           \/ HubStops \/ HubStarts
    PROVE  NothingLeaks' /\ Registers' /\ DownIsClosed' /\ HelloFirst'
<1> USE DEF SocketInv
<1>1. ASSUME NEW s \in Sockets, Hello(s)
      PROVE  NothingLeaks' /\ Registers' /\ DownIsClosed' /\ HelloFirst'
  <2>1. /\ UNCHANGED <<sock, clientEnd, serverEnd, up, willing>>
        /\ inbox' = [inbox EXCEPT ![s] = Tail(@)]
    BY <1>1 DEF Hello, clientVars
  <2>2. CASE willing
    <3>1. /\ registry' = registry \cup {s} /\ cid' = [cid EXCEPT ![s] = TRUE]
          /\ late' = IF serverEnd[s] THEN late ELSE late \cup {s}
      BY <1>1, <2>2 DEF Hello
    <3>2. NothingLeaks' /\ Registers' /\ DownIsClosed'
      BY <2>1, <3>1 DEF Typed, NothingLeaks, Registers, DownIsClosed
    <3>3. ASSUME NEW u \in Sockets, (serverEnd[u] /\ willing /\ ~Registered(u))'
          PROVE  inbox'[u] # <<>> /\ Head(inbox'[u]).hello
      <4>1. u # s
        BY <3>1, <3>3 DEF Typed, Registered
      <4> QED
        BY <2>1, <3>1, <3>3, <4>1 DEF Typed, HelloFirst, Registered
    <3> QED
      BY <3>2, <3>3 DEF HelloFirst
  <2>3. CASE ~willing
    <3>1. UNCHANGED <<registry, cid, late>>
      BY <1>1, <2>3 DEF Hello
    <3> QED
      BY <2>1, <2>3, <3>1 DEF NothingLeaks, Registers, DownIsClosed, HelloFirst
  <2> QED
    BY <2>2, <2>3
<1>2. ASSUME NEW s \in Sockets, Dispatch(s)
      PROVE  NothingLeaks' /\ Registers' /\ DownIsClosed' /\ HelloFirst'
  <2>1. /\ UNCHANGED <<sock, clientEnd, serverEnd, up, willing, cid, registry, late>>
        /\ inbox' = [inbox EXCEPT ![s] = Tail(@)]
        /\ ~Head(inbox[s]).hello
    BY <1>2 DEF Dispatch, clientVars
  <2>2. NothingLeaks' /\ Registers' /\ DownIsClosed'
    BY <2>1 DEF NothingLeaks, Registers, DownIsClosed
  <2>3. ASSUME NEW u \in Sockets, (serverEnd[u] /\ willing /\ ~Registered(u))'
        PROVE  inbox'[u] # <<>> /\ Head(inbox'[u]).hello
    <3>1. inbox[u] # <<>> /\ Head(inbox[u]).hello
      BY <2>1, <2>3 DEF HelloFirst, Registered
    <3> QED
      BY <2>1, <3>1 DEF Typed
  <2> QED
    BY <2>2, <2>3 DEF HelloFirst
<1>3. ASSUME NEW s \in Sockets, HandlerEnds(s)
      PROVE  NothingLeaks' /\ Registers' /\ DownIsClosed' /\ HelloFirst'
  <2>1. /\ UNCHANGED <<sock, clientEnd, inbox, up, willing, cid, late>>
        /\ serverEnd' = [serverEnd EXCEPT ![s] = FALSE]
        /\ registry' = IF cid[s] THEN registry \ {s} ELSE registry
    BY <1>3 DEF HandlerEnds, clientVars
  <2>2. s \notin registry'
    BY <2>1 DEF Registers
  <2>3. NothingLeaks' /\ Registers' /\ DownIsClosed'
    BY <2>1, <2>2 DEF Typed, NothingLeaks, Registers, DownIsClosed
  <2>4. HelloFirst'
    BY <2>1 DEF Typed, HelloFirst, Registered
  <2> QED
    BY <2>3, <2>4
<1>4. ASSUME NEW t \in serving, Finish(t[1], t[2])
      PROVE  NothingLeaks' /\ Registers' /\ DownIsClosed' /\ HelloFirst'
  <2>1. UNCHANGED <<sock, clientEnd, serverEnd, inbox, up, willing, cid, registry, late>>
    BY <1>4 DEF Finish, clientVars
  <2> QED
    BY <2>1 DEF NothingLeaks, Registers, DownIsClosed, HelloFirst, Registered
<1>5. CASE HubStops
  BY <1>5 DEF HubStops, clientVars, NoSocket, NothingLeaks, Registers, DownIsClosed, HelloFirst
<1>6. CASE HubStarts
  BY <1>6 DEF HubStarts, clientVars, NothingLeaks, Registers, DownIsClosed, HelloFirst
<1> QED
  BY <1>1, <1>2, <1>3, <1>4, <1>5, <1>6

LEMMA SocketStep == SocketInv /\ [Next]_vars => SocketInv'
<1> SUFFICES ASSUME SocketInv, [Next]_vars PROVE SocketInv'
  OBVIOUS
<1>0. Typed'
  BY TypedStep DEF SocketInv
<1>1. CASE UNCHANGED vars
  BY <1>0, <1>1 DEF SocketInv, vars, clientVars, hubVars, NothingLeaks, Registers, DownIsClosed,
                    HelloFirst, Registered
<1>2. ASSUME NEW c \in Callers, OpenSocket(c) PROVE SocketInv'
  BY <1>0, <1>2, SocketOpens DEF SocketInv
<1>3. CASE \/ \E c \in Callers : \/ Issue(c) \/ Reattach(c) \/ HelloFails(c) \/ HelloAnswered(c)
                                 \/ Return(c) \/ TimeOut(c) \/ Cancel(c)
           \/ Connect \/ Close \/ Deliver \/ ReaderEnds
  BY <1>0, <1>3, ClientAppends, AppendsKeep, ClientLetsGo DEF SocketInv
<1>4. CASE \/ \E s \in Sockets : Hello(s) \/ Dispatch(s) \/ HandlerEnds(s)
           \/ \E t \in serving : Finish(t[1], t[2])
           \/ HubStops \/ HubStarts
  BY <1>0, <1>4, SocketHub DEF SocketInv
<1> QED
  BY <1>1, <1>2, <1>3, <1>4 DEF Next, Step

LEMMA SocketsAgree == Spec => []SocketInv
<1>1. SocketInv /\ [Next]_vars => SocketInv'
  BY SocketStep
<1> QED
  BY <1>1, SocketInit, PTL DEF Spec

\* The client holds at most the socket it writes to, and the hub's registry only
\* open connections and those whose hello was served late (server.py:112-146,
\* client.py:216-233), however often either side comes and goes.
THEOREM NoLeaks == Spec => []NothingLeaks
<1>1. SocketInv => NothingLeaks
  BY DEF SocketInv
<1> QED
  BY <1>1, SocketsAgree, PTL

\* A request pipelined behind an accepted hello is never turned away as
\* unregistered (server.py:120, 186): the end of an older socket takes only its
\* own registration away.
THEOREM StaysRegistered == Spec => []NeverUnregistered
<1>1. SocketInv => NeverUnregistered
  BY DEF SocketInv, HelloFirst, NeverUnregistered
<1> QED
  BY <1>1, SocketsAgree, PTL

-----------------------------------------------------------------------------
(* Where a change is.  A change is sent once, so its request is in one place at a *)
(* time: not sent, in one inbox, with the owner, or lost.                        *)

IsReq(c, f) == f.who = c /\ ~f.hello

\* No inbox holds the request of c.
NoReq(c) == \A s \in Sockets : \A i \in 1 .. Len(inbox[s]) : ~IsReq(c, inbox[s][i])

\* It is in the inboxes at most once.
Once(c) == \A s, u \in Sockets : \A i \in 1 .. Len(inbox[s]), j \in 1 .. Len(inbox[u]) :
               IsReq(c, inbox[s][i]) /\ IsReq(c, inbox[u][j]) => s = u /\ i = j

\* The owner never was given c and never will be.
Turned(c) == handed[c] = 0 /\ NoReq(c)

Placed(c) == handed[c] \in {0, 1} /\ Once(c) /\ (handed[c] = 1 => NoReq(c))

\* What is about c in queue r was in queue q, in the same order.
Kept(c, q, r) ==
    \E k \in {0, 1} : \A i \in 1 .. Len(r) :
        r[i].who = c => (i + k \in 1 .. Len(q) /\ r[i] = q[i + k])

LEMMA KeptSame ==
    ASSUME NEW S, NEW q \in Seq(S), NEW c
    PROVE  Kept(c, q, q)
<1>1. \A i \in 1 .. Len(q) : q[i].who = c => (i + 0 \in 1 .. Len(q) /\ q[i] = q[i + 0])
  OBVIOUS
<1> QED
  BY <1>1 DEF Kept

LEMMA KeptEmpty ==
    ASSUME NEW S, NEW q \in Seq(S), NEW c
    PROVE  Kept(c, q, <<>>)
<1>1. \A i \in 1 .. Len(<<>>) : FALSE
  OBVIOUS
<1> QED
  BY <1>1 DEF Kept

LEMMA KeptTail ==
    ASSUME NEW S, NEW q \in Seq(S), q # <<>>, NEW c
    PROVE  Kept(c, q, Tail(q))
<1>1. \A i \in 1 .. Len(Tail(q)) : i + 1 \in 1 .. Len(q) /\ Tail(q)[i] = q[i + 1]
  OBVIOUS
<1> QED
  BY <1>1 DEF Kept

LEMMA KeptAppend ==
    ASSUME NEW S, NEW q \in Seq(S), NEW f \in S, NEW c, f.who # c
    PROVE  Kept(c, q, Append(q, f))
<1>1. ASSUME NEW i \in 1 .. Len(Append(q, f)), Append(q, f)[i].who = c
      PROVE  i + 0 \in 1 .. Len(q) /\ Append(q, f)[i] = q[i + 0]
  <2>1. i # Len(q) + 1
    BY <1>1
  <2> QED
    BY <2>1
<1> QED
  BY <1>1 DEF Kept

LEMMA KeptOne ==
    ASSUME NEW S, NEW q \in Seq(S), NEW f, NEW c, f.who # c
    PROVE  Kept(c, q, <<f>>)
<1>1. \A i \in 1 .. Len(<<f>>) : <<f>>[i].who # c
  OBVIOUS
<1> QED
  BY <1>1 DEF Kept

Fewer(c) == \A s \in Sockets : Kept(c, inbox[s], inbox'[s])
Unread(c) == \A s \in Sockets : Kept(c, outbox[s], outbox'[s])

\* Losing frames does not bring the request back, or double it.
LEMMA FewerKeeps ==
    ASSUME Typed, Typed', NEW c \in Changes, Fewer(c)
    PROVE  /\ NoReq(c) => NoReq(c)'
           /\ Once(c) => Once(c)'
<1>1. ASSUME NEW s \in Sockets, NEW i \in 1 .. Len(inbox'[s]), IsReq(c, inbox'[s][i]), NEW k \in {0, 1},
             \A x \in 1 .. Len(inbox'[s]) : inbox'[s][x].who = c =>
                 (x + k \in 1 .. Len(inbox[s]) /\ inbox'[s][x] = inbox[s][x + k])
      PROVE  i + k \in 1 .. Len(inbox[s]) /\ IsReq(c, inbox[s][i + k])
  BY <1>1 DEF IsReq
<1>2. ASSUME NoReq(c) PROVE NoReq(c)'
  <2> SUFFICES ASSUME NEW s \in Sockets, NEW i \in 1 .. Len(inbox'[s]), IsReq(c, inbox'[s][i])
               PROVE FALSE
    BY DEF NoReq, IsReq
  <2>1. PICK k \in {0, 1} : \A x \in 1 .. Len(inbox'[s]) : inbox'[s][x].who = c =>
                 (x + k \in 1 .. Len(inbox[s]) /\ inbox'[s][x] = inbox[s][x + k])
    BY DEF Fewer, Kept
  <2>2. i + k \in 1 .. Len(inbox[s]) /\ IsReq(c, inbox[s][i + k])
    BY <1>1, <2>1
  <2> QED
    BY <1>2, <2>2 DEF NoReq
<1>3. ASSUME Once(c) PROVE Once(c)'
  <2> SUFFICES ASSUME NEW s \in Sockets, NEW u \in Sockets,
                      NEW i \in 1 .. Len(inbox'[s]), NEW j \in 1 .. Len(inbox'[u]),
                      IsReq(c, inbox'[s][i]), IsReq(c, inbox'[u][j])
               PROVE  s = u /\ i = j
    BY DEF Once, IsReq
  <2>1. PICK k \in {0, 1} : \A x \in 1 .. Len(inbox'[s]) : inbox'[s][x].who = c =>
                 (x + k \in 1 .. Len(inbox[s]) /\ inbox'[s][x] = inbox[s][x + k])
    BY DEF Fewer, Kept
  <2>2. PICK m \in {0, 1} : \A x \in 1 .. Len(inbox'[u]) : inbox'[u][x].who = c =>
                 (x + m \in 1 .. Len(inbox[u]) /\ inbox'[u][x] = inbox[u][x + m])
    BY DEF Fewer, Kept
  <2>3. i + k \in 1 .. Len(inbox[s]) /\ IsReq(c, inbox[s][i + k])
    BY <1>1, <2>1
  <2>4. j + m \in 1 .. Len(inbox[u]) /\ IsReq(c, inbox[u][j + m])
    BY <1>1, <2>2
  <2>5. s = u
    BY <1>3, <2>3, <2>4 DEF Once
  <2>6. j + k \in 1 .. Len(inbox[s]) /\ IsReq(c, inbox[s][j + k])
    BY <1>1, <2>1, <2>5
  <2>7. i + k = j + k
    BY <1>3, <2>3, <2>6 DEF Once
  <2>8. i \in Nat /\ j \in Nat
    BY <2>5 DEF Typed
  <2> QED
    BY <2>5, <2>7, <2>8
<1> QED
  BY <1>2, <1>3

\* When the one request leaves the front of its inbox, there is none.
LEMMA TakenOnce ==
    ASSUME Typed, NEW c \in Changes, Once(c), NEW s \in Sockets, inbox[s] # <<>>,
           IsReq(c, Head(inbox[s])), inbox' = [inbox EXCEPT ![s] = Tail(@)]
    PROVE  NoReq(c)'
<1>0. inbox[s] \in Seq(Frames) /\ DOMAIN inbox = Sockets
  BY DEF Typed
<1>1. 1 \in 1 .. Len(inbox[s]) /\ IsReq(c, inbox[s][1])
  BY <1>0
<1> SUFFICES ASSUME NEW u \in Sockets, NEW j \in 1 .. Len(inbox'[u]), IsReq(c, inbox'[u][j])
             PROVE  FALSE
  BY DEF NoReq, IsReq
<1>2. CASE u = s
  <2>1. inbox'[s] = Tail(inbox[s])
    BY <1>0
  <2>2. j + 1 \in 1 .. Len(inbox[s]) /\ inbox'[s][j] = inbox[s][j + 1] /\ j \in Nat /\ j >= 1
    BY <1>0, <1>2, <2>1
  <2>3. IsReq(c, inbox[s][j + 1])
    BY <1>2, <2>2
  <2>4. j + 1 = 1
    BY <1>1, <2>2, <2>3 DEF Once
  <2> QED
    BY <2>2, <2>4
<1>3. CASE u # s
  <2>1. inbox'[u] = inbox[u]
    BY <1>0, <1>3
  <2>2. j \in 1 .. Len(inbox[u]) /\ IsReq(c, inbox[u][j])
    BY <2>1
  <2> QED
    BY <1>1, <1>3, <2>2 DEF Once
<1> QED
  BY <1>2, <1>3

-----------------------------------------------------------------------------
(* What a change knows of itself.  The ids of frames and replies say which future *)
(* they belong to: those of its hellos are used up when its request goes out.     *)

Given == {"ok", "error"}
Denied == {"refused", "notconnected"}

Unsent(c) == call[c].pc \in {"idle", "want", "opening", "hello"}

\* What the task has been told about its request.
Claim(c) == IF call[c].pc = "wait" THEN call[c].fut ELSE call[c].out

Told(c) ==
    /\ call[c].pc # "done" => call[c].out = "none"
    /\ Unsent(c) => Turned(c)
    /\ call[c].pc = "wait" => call[c].fut \in {"none", "ok", "error", "refused", "closed"}
    /\ Claim(c) \in Given => handed[c] = 1
    /\ Claim(c) \in Denied => Turned(c)

FrameFits(c, f) ==
    (f.who = c /\ call[c].pc # "done") =>
        /\ f.n <= call[c].n
        /\ (call[c].pc = "wait" /\ f.hello) => f.n < call[c].n
FramesFit(c) == \A s \in Sockets : \A i \in 1 .. Len(inbox[s]) : FrameFits(c, inbox[s][i])

ReplyFits(c, r) ==
    (r.who = c /\ call[c].pc # "done") =>
        /\ r.n <= call[c].n
        /\ (call[c].pc = "wait" /\ r.n = call[c].n) =>
               /\ r.res \in Given => handed[c] = 1
               /\ r.res = "refused" => Turned(c)
RepliesFit(c) == \A s \in Sockets : \A i \in 1 .. Len(outbox[s]) : ReplyFits(c, outbox[s][i])

ServedFits(c) ==
    \A t \in serving : t[2].who = c =>
        /\ handed[c] = 1
        /\ call[c].pc # "done" => t[2].n <= call[c].n

Tracked(c) == Told(c) /\ Placed(c) /\ FramesFit(c) /\ RepliesFit(c) /\ ServedFits(c)

TrackInv == Typed /\ \A c \in Changes : Tracked(c)

LEMMA FramesKeep ==
    ASSUME Typed, Typed', NEW c \in Changes, Fewer(c), FramesFit(c),
           \A f \in Frames : FrameFits(c, f) => FrameFits(c, f)'
    PROVE  FramesFit(c)'
<1> SUFFICES ASSUME NEW s \in Sockets, NEW i \in 1 .. Len(inbox'[s]), inbox'[s][i].who = c
             PROVE  FrameFits(c, inbox[s][i])'
  BY DEF FramesFit, FrameFits
<1>1. PICK k \in {0, 1} : \A x \in 1 .. Len(inbox'[s]) : inbox'[s][x].who = c =>
               (x + k \in 1 .. Len(inbox[s]) /\ inbox'[s][x] = inbox[s][x + k])
  BY DEF Fewer, Kept
<1>2. i + k \in 1 .. Len(inbox[s]) /\ inbox'[s][i] = inbox[s][i + k]
  BY <1>1
<1>3. FrameFits(c, inbox[s][i + k]) /\ inbox[s][i + k] \in Frames
  BY <1>2 DEF FramesFit, Typed
<1>4. FrameFits(c, inbox'[s][i]) /\ inbox'[s][i] \in Frames
  BY <1>2, <1>3
<1> QED
  BY <1>4

LEMMA RepliesKeep ==
    ASSUME Typed, Typed', NEW c \in Changes, Unread(c), RepliesFit(c),
           \A r \in Replies : ReplyFits(c, r) => ReplyFits(c, r)'
    PROVE  RepliesFit(c)'
<1> SUFFICES ASSUME NEW s \in Sockets, NEW i \in 1 .. Len(outbox'[s]), outbox'[s][i].who = c
             PROVE  ReplyFits(c, outbox[s][i])'
  BY DEF RepliesFit, ReplyFits
<1>1. PICK k \in {0, 1} : \A x \in 1 .. Len(outbox'[s]) : outbox'[s][x].who = c =>
               (x + k \in 1 .. Len(outbox[s]) /\ outbox'[s][x] = outbox[s][x + k])
  BY DEF Unread, Kept
<1>2. i + k \in 1 .. Len(outbox[s]) /\ outbox'[s][i] = outbox[s][i + k]
  BY <1>1
<1>3. ReplyFits(c, outbox[s][i + k]) /\ outbox[s][i + k] \in Replies
  BY <1>2 DEF RepliesFit, Typed
<1>4. ReplyFits(c, outbox'[s][i]) /\ outbox'[s][i] \in Replies
  BY <1>2, <1>3
<1> QED
  BY <1>4

LEMMA TrackInit == Init => TrackInv
<1> SUFFICES ASSUME Init, NEW c \in Changes PROVE Tracked(c)
  BY TypedInit DEF TrackInv
<1>1. call[c].pc = "idle" /\ call[c].out = "none" /\ handed[c] = 0
  BY DEF Init, Idle, Callers, Requests
<1>2. \A s \in Sockets : inbox[s] = <<>> /\ outbox[s] = <<>>
  BY DEF Init
<1>3. NoReq(c) /\ Once(c) /\ FramesFit(c) /\ RepliesFit(c)
  BY <1>2 DEF NoReq, Once, FramesFit, RepliesFit
<1>4. Told(c)
  BY <1>1, <1>3 DEF Told, Turned, Unsent, Claim, Given, Denied
<1> QED
  BY <1>1, <1>3, <1>4 DEF Tracked, Placed, ServedFits, Init

-----------------------------------------------------------------------------
(* What a step of the client can be to a change. *)

\* Nothing new about c is on its way.
Quiet(c) == Fewer(c) /\ Unread(c) /\ handed'[c] = handed[c] /\ serving' \subseteq serving

\* It is another task's step, which may have ended the reader.
Aside(c) ==
    /\ call'[c].pc = call[c].pc /\ call'[c].n = call[c].n /\ call'[c].out = call[c].out
    /\ call'[c].fut = call[c].fut \/ call'[c].fut = "closed"

\* It has not sent its request, and does not now.
Walks(c) ==
    /\ Unsent(c) /\ Unsent(c)' /\ call'[c].n = call[c].n /\ call'[c].out = call[c].out

\* It ends.
Ends(c) ==
    /\ call[c].pc # "done" /\ call'[c].pc = "done"
    /\ \/ Unsent(c) /\ call'[c].out = "notconnected"
       \/ call'[c].out \in {"closed", "timeout", "cancelled"}
       \/ call[c].pc = "wait" /\ call'[c].out = call[c].fut

\* It is the one the reader has a reply for.
Hears(c) ==
    /\ call'[c].pc = call[c].pc /\ call'[c].n = call[c].n /\ call'[c].out = call[c].out
    /\ \E s \in Sockets :
           /\ outbox[s] # <<>> /\ Head(outbox[s]).who = c /\ Head(outbox[s]).n = call[c].n
           /\ call'[c].fut = Head(outbox[s]).res

\* Its frames stay behind it.
Steady(c) ==
    \/ call'[c].pc = "done"
    \/ call'[c].pc = call[c].pc /\ call'[c].n = call[c].n
    \/ Unsent(c) /\ Unsent(c)' /\ call'[c].n = call[c].n

LEMMA QuietKeeps ==
    ASSUME TrackInv, Typed', NEW c \in Changes, Quiet(c), Steady(c)
    PROVE  /\ Placed(c)' /\ (Turned(c) => Turned(c)')
           /\ FramesFit(c)' /\ RepliesFit(c)' /\ ServedFits(c)'
<1>1. Typed /\ Tracked(c)
  BY DEF TrackInv
<1>2. Placed(c)' /\ (Turned(c) => Turned(c)')
  BY <1>1, FewerKeeps DEF Tracked, Placed, Turned, Quiet
<1>3. \A f \in Frames : FrameFits(c, f) => FrameFits(c, f)'
  BY DEF Steady, FrameFits, Unsent
<1>4. \A r \in Replies : ReplyFits(c, r) => ReplyFits(c, r)'
  BY <1>2 DEF Steady, ReplyFits, Unsent, Quiet
<1>5. ServedFits(c)'
  BY <1>1 DEF Steady, Tracked, ServedFits, Unsent, Quiet
<1> QED
  BY <1>1, <1>2, <1>3, <1>4, <1>5, FramesKeep, RepliesKeep DEF Tracked, Quiet

LEMMA AsideKeeps ==
    ASSUME TrackInv, Typed', NEW c \in Changes, Quiet(c), Aside(c)
    PROVE  Tracked(c)'
<1>0. Steady(c)
  BY DEF Steady, Aside
<1>1. Placed(c)' /\ (Turned(c) => Turned(c)') /\ FramesFit(c)' /\ RepliesFit(c)' /\ ServedFits(c)'
  BY <1>0, QuietKeeps
<1>2. Told(c) /\ handed'[c] = handed[c]
  BY DEF TrackInv, Tracked, Quiet
<1>3. Told(c)'
  BY <1>1, <1>2 DEF Told, Unsent, Claim, Given, Denied, Aside
<1> QED
  BY <1>1, <1>3 DEF Tracked

LEMMA WalksKeeps ==
    ASSUME TrackInv, Typed', NEW c \in Changes, Quiet(c), Walks(c)
    PROVE  Tracked(c)'
<1>0. Steady(c)
  BY DEF Steady, Walks
<1>1. Placed(c)' /\ (Turned(c) => Turned(c)') /\ FramesFit(c)' /\ RepliesFit(c)' /\ ServedFits(c)'
  BY <1>0, QuietKeeps
<1>2. Told(c) /\ handed'[c] = handed[c]
  BY DEF TrackInv, Tracked, Quiet
<1>3. Told(c)'
  BY <1>1, <1>2 DEF Told, Unsent, Claim, Given, Denied, Walks
<1> QED
  BY <1>1, <1>3 DEF Tracked

LEMMA EndsKeeps ==
    ASSUME TrackInv, Typed', NEW c \in Changes, Quiet(c), Ends(c)
    PROVE  Tracked(c)'
<1>0. Steady(c)
  BY DEF Steady, Ends
<1>1. Placed(c)' /\ (Turned(c) => Turned(c)') /\ FramesFit(c)' /\ RepliesFit(c)' /\ ServedFits(c)'
  BY <1>0, QuietKeeps
<1>2. Told(c) /\ handed'[c] = handed[c]
  BY DEF TrackInv, Tracked, Quiet
<1>3. Told(c)'
  BY <1>1, <1>2 DEF Told, Unsent, Claim, Given, Denied, Ends
<1> QED
  BY <1>1, <1>3 DEF Tracked

LEMMA HearsKeeps ==
    ASSUME TrackInv, Typed', NEW c \in Changes, Quiet(c), Hears(c)
    PROVE  Tracked(c)'
<1>0. Steady(c)
  BY DEF Steady, Hears
<1>1. Placed(c)' /\ (Turned(c) => Turned(c)') /\ FramesFit(c)' /\ RepliesFit(c)' /\ ServedFits(c)'
  BY <1>0, QuietKeeps
<1>2. Told(c) /\ RepliesFit(c) /\ handed'[c] = handed[c]
  BY DEF TrackInv, Tracked, Quiet
<1>3. PICK s \in Sockets : /\ outbox[s] # <<>> /\ Head(outbox[s]).who = c
                           /\ Head(outbox[s]).n = call[c].n /\ call'[c].fut = Head(outbox[s]).res
  BY DEF Hears
<1>4. Head(outbox[s]) \in Replies /\ ReplyFits(c, Head(outbox[s]))
  <2>1. outbox[s] \in Seq(Replies) /\ outbox[s] # <<>>
    BY <1>3 DEF TrackInv, Typed
  <2>2. 1 \in 1 .. Len(outbox[s]) /\ Head(outbox[s]) = outbox[s][1]
    BY <2>1
  <2> QED
    BY <1>2, <2>1, <2>2 DEF RepliesFit
<1>5. call'[c].fut \in {"ok", "error", "refused"}
  BY <1>3, <1>4 DEF Replies
<1>6. call[c].pc = "wait" => /\ call'[c].fut \in Given => handed[c] = 1
                             /\ call'[c].fut = "refused" => Turned(c)
  BY <1>3, <1>4 DEF ReplyFits
<1>7. Told(c)'
  BY <1>1, <1>2, <1>5, <1>6 DEF Told, Unsent, Claim, Given, Denied, Hears
<1> QED
  BY <1>1, <1>7 DEF Tracked

\* Its hello goes out on a new socket, or its request on the one there is.
Numbered(c) ==
    /\ Unsent(c) /\ call'[c].n = call[c].n + 1 /\ call'[c].out = call[c].out
    /\ UNCHANGED <<outbox, handed, serving>>

Greets(c) ==
    /\ Numbered(c) /\ call'[c].pc = "hello"
    /\ \E s \in Sockets, f \in Frames : /\ f.who = c /\ f.hello /\ f.n = call'[c].n
                                       /\ inbox' = [inbox EXCEPT ![s] = <<f>>]

Sends(c) ==
    /\ Numbered(c) /\ call'[c].pc = "wait" /\ call'[c].fut = "none"
    /\ \/ inbox' = inbox
       \/ \E s \in Sockets, f \in Frames : /\ f.who = c /\ ~f.hello /\ f.n = call'[c].n
                                          /\ inbox' = [inbox EXCEPT ![s] = Append(@, f)]

LEMMA NumberedKeeps ==
    ASSUME TrackInv, NEW c \in Changes, Numbered(c), call'[c].pc \in {"hello", "wait"}
    PROVE  /\ Turned(c) /\ call[c].out = "none" /\ call[c].n \in Nat
           /\ \A f \in Frames : FrameFits(c, f) => FrameFits(c, f)'
           /\ RepliesFit(c)' /\ ServedFits(c)'
<1>1. Typed /\ Tracked(c)
  BY DEF TrackInv
<1>2. Turned(c) /\ call[c].out = "none"
  BY <1>1 DEF Tracked, Told, Unsent, Numbered
<1>3. call[c].n \in Nat
  <2>1. call[c] \in Task
    BY <1>1 DEF Typed, Callers, Requests
  <2> QED
    BY <2>1, TaskFields
<1>4. \A f \in Frames : FrameFits(c, f) => FrameFits(c, f)'
  BY <1>3 DEF FrameFits, Frames, Numbered, Unsent
<1>5. \A r \in Replies : ReplyFits(c, r) => ReplyFits(c, r)'
  BY <1>3 DEF ReplyFits, Replies, Numbered, Unsent
<1>6. RepliesFit(c)'
  BY <1>1, <1>5 DEF Tracked, RepliesFit, Numbered, Typed
<1>7. ServedFits(c)'
  BY <1>1, <1>2 DEF Tracked, ServedFits, Turned, Numbered
<1> QED
  BY <1>2, <1>3, <1>4, <1>6, <1>7

LEMMA GreetsKeeps ==
    ASSUME TrackInv, NEW c \in Changes, Greets(c)
    PROVE  Tracked(c)'
<1>1. /\ Turned(c) /\ call[c].out = "none" /\ call[c].n \in Nat
      /\ \A f \in Frames : FrameFits(c, f) => FrameFits(c, f)'
      /\ RepliesFit(c)' /\ ServedFits(c)'
  BY NumberedKeeps DEF Greets
<1>2. PICK o \in Sockets, f \in Frames : /\ f.who = c /\ f.hello /\ f.n = call'[c].n
                                       /\ inbox' = [inbox EXCEPT ![o] = <<f>>]
  BY DEF Greets
<1>3. /\ inbox'[o] = <<f>> /\ \A s \in Sockets : s # o => inbox'[s] = inbox[s]
      /\ \A s \in Sockets : inbox[s] \in Seq(Frames)
  BY <1>2 DEF TrackInv, Typed
<1>4. NoReq(c)'
  <2> SUFFICES ASSUME NEW s \in Sockets, NEW i \in 1 .. Len(inbox'[s]), IsReq(c, inbox'[s][i])
               PROVE  FALSE
    BY DEF NoReq, IsReq
  <2>1. CASE s = o
    <3>1. inbox'[s][i] = f
      BY <1>3, <2>1
    <3> QED
      BY <1>2, <3>1 DEF IsReq
  <2>2. CASE s # o
    BY <1>1, <1>3, <2>2 DEF Turned, NoReq
  <2> QED
    BY <2>1, <2>2
<1>5. Once(c)'
  BY <1>4 DEF Once, NoReq
<1>6. handed'[c] = 0
  BY <1>1 DEF Turned, Greets, Numbered
<1>7. FramesFit(c)'
  <2> SUFFICES ASSUME NEW s \in Sockets, NEW i \in 1 .. Len(inbox'[s])
               PROVE  FrameFits(c, inbox[s][i])'
    BY DEF FramesFit
  <2>1. CASE s = o
    <3>1. inbox'[s][i] = f /\ call'[c].n \in Nat
      BY <1>1, <1>3, <2>1 DEF Greets, Numbered
    <3> QED
      BY <1>2, <3>1 DEF FrameFits, Greets
  <2>2. CASE s # o
    <3>1. inbox'[s] = inbox[s] /\ inbox[s][i] \in Frames /\ FrameFits(c, inbox[s][i])
      BY <1>3, <2>2 DEF TrackInv, Tracked, FramesFit
    <3> QED
      BY <1>1, <3>1
  <2> QED
    BY <2>1, <2>2
<1>8. Told(c)'
  BY <1>1, <1>4, <1>6 DEF Told, Turned, Unsent, Claim, Given, Denied, Greets, Numbered
<1> QED
  BY <1>1, <1>4, <1>5, <1>6, <1>7, <1>8 DEF Tracked, Placed

LEMMA SendsKeeps ==
    ASSUME TrackInv, NEW c \in Changes, Sends(c)
    PROVE  Tracked(c)'
<1>1. /\ Turned(c) /\ call[c].out = "none" /\ call[c].n \in Nat
      /\ \A f \in Frames : FrameFits(c, f) => FrameFits(c, f)'
      /\ RepliesFit(c)' /\ ServedFits(c)'
  BY NumberedKeeps DEF Sends
<1>2. handed'[c] = 0
  BY <1>1 DEF Turned, Sends, Numbered
<1>3. Told(c)'
  BY <1>1, <1>2 DEF Told, Turned, Unsent, Claim, Given, Denied, Sends, Numbered
<1>4. \A s \in Sockets : inbox[s] \in Seq(Frames)
  BY DEF TrackInv, Typed
<1>5. CASE inbox' = inbox
  <2>1. Once(c)'
    BY <1>5 DEF TrackInv, Tracked, Placed, Once
  <2>2. ASSUME NEW s \in Sockets, NEW i \in 1 .. Len(inbox'[s])
        PROVE  FrameFits(c, inbox[s][i])'
    <3>1. inbox'[s] = inbox[s] /\ inbox[s][i] \in Frames /\ FrameFits(c, inbox[s][i])
      BY <1>4, <1>5, <2>2 DEF TrackInv, Tracked, FramesFit
    <3> QED
      BY <1>1, <3>1
  <2>3. FramesFit(c)'
    BY <2>2 DEF FramesFit
  <2> QED
    BY <1>1, <1>2, <1>3, <2>1, <2>3 DEF Tracked, Placed
<1>6. CASE \E s \in Sockets, f \in Frames : /\ f.who = c /\ ~f.hello /\ f.n = call'[c].n
                                          /\ inbox' = [inbox EXCEPT ![s] = Append(@, f)]
  <2>1. PICK o \in Sockets, f \in Frames : /\ f.who = c /\ ~f.hello /\ f.n = call'[c].n
                                         /\ inbox' = [inbox EXCEPT ![o] = Append(@, f)]
    BY <1>6
  <2>2. inbox'[o] = Append(inbox[o], f) /\ \A s \in Sockets : s # o => inbox'[s] = inbox[s]
    BY <2>1 DEF TrackInv, Typed
  <2>3. ASSUME NEW s \in Sockets, NEW i \in 1 .. Len(inbox'[s])
        PROVE  \/ s = o /\ i = Len(inbox[o]) + 1 /\ inbox'[s][i] = f
               \/ i \in 1 .. Len(inbox[s]) /\ inbox'[s][i] = inbox[s][i] /\ inbox[s][i] \in Frames
    BY <1>4, <2>1, <2>2
  <2>4. Once(c)'
    <3>1. ASSUME NEW s \in Sockets, NEW i \in 1 .. Len(inbox'[s]), IsReq(c, inbox'[s][i])
          PROVE  s = o /\ i = Len(inbox[o]) + 1
      BY <1>1, <2>3, <3>1 DEF Turned, NoReq
    <3> QED
      BY <3>1 DEF Once, IsReq
  <2>5. ASSUME NEW s \in Sockets, NEW i \in 1 .. Len(inbox'[s])
        PROVE  FrameFits(c, inbox[s][i])'
    <3>1. CASE inbox'[s][i] = f
      <4>1. call'[c].n \in Nat
        BY <1>1 DEF Sends, Numbered
      <4> QED
        BY <2>1, <3>1, <4>1 DEF FrameFits
    <3>2. CASE i \in 1 .. Len(inbox[s]) /\ inbox'[s][i] = inbox[s][i] /\ inbox[s][i] \in Frames
      <4>1. FrameFits(c, inbox[s][i])
        BY <3>2 DEF TrackInv, Tracked, FramesFit
      <4> QED
        BY <1>1, <3>2, <4>1
    <3> QED
      BY <2>3, <3>1, <3>2
  <2>6. FramesFit(c)'
    BY <2>5 DEF FramesFit
  <2> QED
    BY <1>1, <1>2, <1>3, <2>4, <2>6 DEF Tracked, Placed
<1> QED
  BY <1>5, <1>6 DEF Sends

-----------------------------------------------------------------------------
(* What a step of the hub is to a change. *)

LEMMA ReplyIs ==
    ASSUME Typed, NEW s \in Sockets, NEW f \in Frames, NEW res \in {"ok", "error", "refused"},
           Reply(s, f, res)
    PROVE  \/ outbox' = outbox
           \/ \E r \in Replies : /\ r.who = f.who /\ r.n = f.n /\ r.res = res
                                 /\ outbox' = [outbox EXCEPT ![s] = Append(@, r)]
<1> DEFINE r == [who |-> f.who, n |-> f.n, res |-> res]
<1>1. r \in Replies /\ r.who = f.who /\ r.n = f.n /\ r.res = res
  BY DEF Frames, Replies
<1>2. outbox' = outbox \/ outbox' = [outbox EXCEPT ![s] = Append(@, r)]
  BY DEF Reply
<1> HIDE DEF r
<1> QED
  BY <1>1, <1>2

\* A reply that fits joins replies that fit.
LEMMA RepliesJoin ==
    ASSUME TrackInv, NEW c \in Changes, NEW s \in Sockets, NEW r \in Replies,
           outbox' = [outbox EXCEPT ![s] = Append(@, r)],
           \A x \in Replies : ReplyFits(c, x) => ReplyFits(c, x)',
           ReplyFits(c, r)'
    PROVE  RepliesFit(c)'
<1> SUFFICES ASSUME NEW u \in Sockets, NEW i \in 1 .. Len(outbox'[u])
             PROVE  ReplyFits(c, outbox[u][i])'
  BY DEF RepliesFit
<1>1. \/ outbox'[u][i] = r
      \/ i \in 1 .. Len(outbox[u]) /\ outbox'[u][i] = outbox[u][i] /\ outbox[u][i] \in Replies
  <2>1. outbox[u] \in Seq(Replies) /\ (u = s => outbox'[u] = Append(outbox[u], r))
        /\ (u # s => outbox'[u] = outbox[u])
    BY DEF TrackInv, Typed
  <2> QED
    BY <2>1
<1>2. CASE outbox'[u][i] = r
  BY <1>2
<1>3. CASE i \in 1 .. Len(outbox[u]) /\ outbox'[u][i] = outbox[u][i] /\ outbox[u][i] \in Replies
  <2>1. ReplyFits(c, outbox[u][i])
    BY <1>3 DEF TrackInv, Tracked, RepliesFit
  <2> QED
    BY <1>3, <2>1
<1> QED
  BY <1>1, <1>2, <1>3

LEMMA RepliesStay ==
    ASSUME TrackInv, NEW c \in Changes, outbox' = outbox,
           \A x \in Replies : ReplyFits(c, x) => ReplyFits(c, x)'
    PROVE  RepliesFit(c)'
BY DEF TrackInv, Tracked, RepliesFit, Typed

\* A frame leaves the front of an inbox.
LEMMA FrameLeaves ==
    ASSUME TrackInv, Typed', NEW c \in Changes, NEW s \in Sockets, inbox[s] # <<>>,
           inbox' = [inbox EXCEPT ![s] = Tail(@)], call' = call
    PROVE  /\ Head(inbox[s]) \in Frames /\ FrameFits(c, Head(inbox[s]))
           /\ IsReq(c, Head(inbox[s])) => ~NoReq(c)
           /\ Fewer(c) /\ FramesFit(c)' /\ Once(c)' /\ (NoReq(c) => NoReq(c)')
<1>1. Typed /\ Tracked(c) /\ \A u \in Sockets : inbox[u] \in Seq(Frames)
  BY DEF TrackInv, Typed
<1>2. 1 \in 1 .. Len(inbox[s]) /\ Head(inbox[s]) = inbox[s][1] /\ Head(inbox[s]) \in Frames
  BY <1>1
<1>3. FrameFits(c, Head(inbox[s])) /\ (IsReq(c, Head(inbox[s])) => ~NoReq(c))
  BY <1>1, <1>2 DEF Tracked, FramesFit, NoReq
<1>4. Fewer(c)
  <2>1. \A u \in Sockets : inbox'[u] = IF u = s THEN Tail(inbox[u]) ELSE inbox[u]
    BY <1>1 DEF Typed
  <2> QED
    BY <1>1, <2>1, KeptTail, KeptSame DEF Fewer
<1>5. FramesFit(c)'
  <2>1. \A f \in Frames : FrameFits(c, f) => FrameFits(c, f)'
    BY DEF FrameFits
  <2> QED
    BY <1>1, <1>4, <2>1, FramesKeep DEF Tracked
<1>6. Once(c)' /\ (NoReq(c) => NoReq(c)')
  BY <1>1, <1>4, FewerKeeps DEF Tracked, Placed
<1> QED
  BY <1>2, <1>3, <1>4, <1>5, <1>6

LEMMA ToldStays ==
    ASSUME NEW c \in Changes, Told(c), call' = call, handed'[c] = handed[c],
           NoReq(c) => NoReq(c)'
    PROVE  Told(c)'
BY DEF Told, Turned, Unsent, Claim, Given, Denied

LEMMA HelloTracks ==
    ASSUME TrackInv, Typed', NEW c \in Changes, NEW s \in Sockets, Hello(s)
    PROVE  Tracked(c)'
<1>1. /\ inbox[s] # <<>> /\ Head(inbox[s]).hello /\ inbox' = [inbox EXCEPT ![s] = Tail(@)]
      /\ UNCHANGED <<call, handed, serving>>
      /\ \E res \in {"ok", "refused"} : Reply(s, Head(inbox[s]), res)
  BY DEF Hello, clientVars
<1>2. /\ Head(inbox[s]) \in Frames /\ FrameFits(c, Head(inbox[s]))
      /\ FramesFit(c)' /\ Once(c)' /\ (NoReq(c) => NoReq(c)')
  BY <1>1, FrameLeaves
<1>3. Typed /\ Tracked(c)
  BY DEF TrackInv
<1>4. Told(c)' /\ Placed(c)' /\ ServedFits(c)'
  BY <1>1, <1>2, <1>3, ToldStays DEF Tracked, Placed, ServedFits
<1>5. \A x \in Replies : ReplyFits(c, x) => ReplyFits(c, x)'
  BY <1>1, <1>2 DEF ReplyFits, Turned
<1>6. RepliesFit(c)'
  <2>1. CASE outbox' = outbox
    BY <1>5, <2>1, RepliesStay
  <2>2. CASE outbox' # outbox
    <3>1. PICK res \in {"ok", "refused"} : Reply(s, Head(inbox[s]), res)
      BY <1>1
    <3>2. PICK r \in Replies : /\ r.who = Head(inbox[s]).who /\ r.n = Head(inbox[s]).n
                               /\ outbox' = [outbox EXCEPT ![s] = Append(@, r)]
      BY <1>2, <1>3, <2>2, <3>1, ReplyIs
    <3>3. ReplyFits(c, r)'
      <4>1. call[c] \in Task /\ Head(inbox[s]).n \in Nat
        BY <1>2, <1>3 DEF Typed, Callers, Requests, Frames
      <4>2. call[c].n \in Nat
        BY <4>1, TaskFields
      <4> QED
        BY <1>1, <1>2, <3>2, <4>1, <4>2 DEF FrameFits, ReplyFits
    <3> QED
      BY <1>5, <3>2, <3>3, RepliesJoin
  <2> QED
    BY <2>1, <2>2
<1> QED
  BY <1>2, <1>4, <1>6 DEF Tracked

\* The owner is given the request of c.
TakesUp(s, c) ==
    /\ Dispatch(s) /\ Registered(s) /\ IsReq(c, Head(inbox[s]))

LEMMA TakesUpTracks ==
    ASSUME TrackInv, Typed', NEW c \in Changes, NEW s \in Sockets, TakesUp(s, c)
    PROVE  /\ Tracked(c)' /\ handed[c] = 0 /\ handed' = [handed EXCEPT ![c] = 1]
           /\ call[c].out \in Outcomes /\ call[c].out \notin Given \cup Denied /\ call' = call
<1> DEFINE f == Head(inbox[s])
<1>1. /\ inbox[s] # <<>> /\ inbox' = [inbox EXCEPT ![s] = Tail(@)]
      /\ UNCHANGED <<call, outbox>>
      /\ serving' = serving \cup {<<s, f>>} /\ handed' = [handed EXCEPT ![f.who] = @ + 1]
  BY DEF TakesUp, Dispatch, clientVars
<1>2. f.who = c /\ ~f.hello /\ IsReq(c, f)
  BY DEF TakesUp, IsReq
<1>3. Typed /\ Tracked(c) /\ c \in Requests /\ c \in Callers
  BY DEF TrackInv, Requests, Callers
<1>4. /\ f \in Frames /\ FrameFits(c, f) /\ ~NoReq(c)
      /\ FramesFit(c)' /\ Once(c)'
  BY <1>1, <1>2, FrameLeaves
<1>5. handed[c] = 0
  BY <1>3, <1>4 DEF Tracked, Placed
<1>6. handed' = [handed EXCEPT ![c] = 1] /\ handed'[c] = 1
  <2>1. handed' = [handed EXCEPT ![f.who] = handed[f.who] + 1]
    BY <1>1
  <2> HIDE DEF f
  <2>2. f.who = c
    BY <1>2
  <2>3. handed[c] + 1 = 1
    BY <1>5
  <2>4. handed' = [handed EXCEPT ![c] = handed[c] + 1]
    BY <2>1, <2>2
  <2>5. handed' = [handed EXCEPT ![c] = 1]
    BY <2>3, <2>4
  <2> QED
    BY <1>3, <2>5 DEF Typed
<1>7. NoReq(c)'
  BY <1>1, <1>2, <1>3, TakenOnce DEF Tracked, Placed
<1>8. ~Unsent(c) /\ Claim(c) \notin Given /\ Claim(c) \notin Denied
  BY <1>3, <1>4, <1>5 DEF Tracked, Told, Turned
<1>9. call[c].out \in Outcomes /\ call[c].out \notin Given \cup Denied
  <2>1. call[c] \in Task
    BY <1>3 DEF Typed
  <2>2. call[c].pc = "wait" => call[c].out = "none"
    BY <1>3 DEF Tracked, Told
  <2> QED
    BY <1>8, <2>1, <2>2, TaskFields DEF Claim, Given, Denied
<1>10. Told(c)'
  BY <1>1, <1>3, <1>6, <1>8 DEF Tracked, Told, Unsent, Claim
<1>11. RepliesFit(c)'
  <2>1. \A x \in Replies : ReplyFits(c, x) => ReplyFits(c, x)'
    BY <1>1, <1>4, <1>6 DEF ReplyFits, Turned
  <2> QED
    BY <1>1, <2>1, RepliesStay
<1>12. ServedFits(c)'
  <2> SUFFICES ASSUME NEW t \in serving', t[2].who = c
               PROVE  handed'[c] = 1 /\ (call'[c].pc # "done" => t[2].n <= call'[c].n)
    BY DEF ServedFits
  <2>1. CASE t \in serving
    BY <1>1, <1>3, <1>6, <2>1 DEF Tracked, ServedFits
  <2>2. CASE t = <<s, f>>
    BY <1>1, <1>2, <1>4, <1>6, <2>2 DEF FrameFits
  <2> QED
    BY <1>1, <2>1, <2>2
<1>13. Placed(c)'
  BY <1>4, <1>6, <1>7 DEF Placed
<1> QED
  BY <1>1, <1>4, <1>5, <1>6, <1>9, <1>10, <1>11, <1>12, <1>13 DEF Tracked

\* It is given another request, or turns one away.
LEMMA DispatchTracks ==
    ASSUME TrackInv, Typed', NEW c \in Changes, NEW s \in Sockets, Dispatch(s), ~TakesUp(s, c)
    PROVE  Tracked(c)' /\ handed'[c] = handed[c] /\ call' = call
<1> DEFINE f == Head(inbox[s])
<1>1. /\ inbox[s] # <<>> /\ ~f.hello /\ inbox' = [inbox EXCEPT ![s] = Tail(@)] /\ UNCHANGED call
  BY DEF Dispatch, clientVars
<1>3. Typed /\ Tracked(c) /\ c \in Requests /\ c \in Callers
  BY DEF TrackInv, Requests, Callers
<1>4. /\ f \in Frames /\ FrameFits(c, f) /\ (IsReq(c, f) => ~NoReq(c))
      /\ FramesFit(c)' /\ Once(c)' /\ (NoReq(c) => NoReq(c)')
  BY <1>1, FrameLeaves
<1>5. CASE Registered(s)
  <2>1. f.who # c
    BY <1>1, <1>5 DEF TakesUp, IsReq
  <2>2. /\ serving' = serving \cup {<<s, f>>} /\ handed' = [handed EXCEPT ![f.who] = @ + 1]
        /\ outbox' = outbox
    BY <1>5 DEF Dispatch
  <2>3. handed'[c] = handed[c]
    BY <1>3, <2>1, <2>2 DEF Typed
  <2>4. Told(c)' /\ Placed(c)'
    BY <1>1, <1>3, <1>4, <2>3, ToldStays DEF Tracked, Placed
  <2>5. ServedFits(c)'
    <3> HIDE DEF f
    <3> QED
      BY <1>1, <1>3, <2>1, <2>2, <2>3 DEF Tracked, ServedFits
  <2>6. RepliesFit(c)'
    <3>1. \A x \in Replies : ReplyFits(c, x) => ReplyFits(c, x)'
      BY <1>1, <1>4, <2>3 DEF ReplyFits, Turned
    <3> QED
      BY <2>2, <3>1, RepliesStay
  <2> QED
    BY <1>1, <1>4, <2>3, <2>4, <2>5, <2>6 DEF Tracked
<1>6. CASE ~Registered(s)
  <2>1. Reply(s, f, "refused") /\ UNCHANGED <<serving, handed>>
    BY <1>6 DEF Dispatch
  <2>2. Told(c)' /\ Placed(c)' /\ ServedFits(c)'
    BY <1>1, <1>3, <1>4, <2>1, ToldStays DEF Tracked, Placed, ServedFits
  <2>3. \A x \in Replies : ReplyFits(c, x) => ReplyFits(c, x)'
    BY <1>1, <1>4, <2>1 DEF ReplyFits, Turned
  <2>4. RepliesFit(c)'
    <3>1. CASE outbox' = outbox
      BY <2>3, <3>1, RepliesStay
    <3>2. CASE outbox' # outbox
      <4>1. PICK r \in Replies : /\ r.who = f.who /\ r.n = f.n /\ r.res = "refused"
                                 /\ outbox' = [outbox EXCEPT ![s] = Append(@, r)]
        BY <1>3, <1>4, <2>1, <3>2, ReplyIs
      <4>2. ReplyFits(c, r)'
        <5>1. CASE f.who # c
          BY <4>1, <5>1 DEF ReplyFits
        <5>2. CASE f.who = c
          <6>1. IsReq(c, f)
            BY <1>1, <5>2 DEF IsReq
          <6>2. handed[c] = 0
            BY <1>3, <1>4, <6>1 DEF Tracked, Placed
          <6>3. NoReq(c)'
            BY <1>1, <1>3, <6>1, TakenOnce DEF Tracked, Placed
          <6>4. Turned(c)'
            BY <2>1, <6>2, <6>3 DEF Turned
          <6>5. call[c].pc # "done" => f.n <= call[c].n
            BY <1>4, <5>2 DEF FrameFits
          <6> QED
            BY <1>1, <4>1, <6>4, <6>5 DEF ReplyFits, Given
        <5> QED
          BY <5>1, <5>2
      <4> QED
        BY <2>3, <4>1, <4>2, RepliesJoin
    <3> QED
      BY <3>1, <3>2
  <2> QED
    BY <1>1, <1>4, <2>1, <2>2, <2>4 DEF Tracked
<1> QED
  BY <1>5, <1>6

LEMMA FinishTracks ==
    ASSUME TrackInv, Typed', NEW c \in Changes, NEW t \in serving, Finish(t[1], t[2])
    PROVE  Tracked(c)'
<1>1. /\ UNCHANGED <<call, inbox, handed>> /\ serving' \subseteq serving
      /\ \E res \in {"ok", "error"} : Reply(t[1], t[2], res)
  BY DEF Finish, clientVars
<1>2. Typed /\ Tracked(c) /\ t[1] \in Sockets /\ t[2] \in Frames
  BY DEF TrackInv, Typed
<1>3. NoReq(c)' = NoReq(c) /\ Once(c)' = Once(c) /\ FramesFit(c)' = FramesFit(c)
  BY <1>1 DEF NoReq, Once, FramesFit, FrameFits
<1>4. Told(c)' /\ Placed(c)' /\ FramesFit(c)' /\ ServedFits(c)'
  BY <1>1, <1>2, <1>3, ToldStays DEF Tracked, Placed, ServedFits
<1>5. \A x \in Replies : ReplyFits(c, x) => ReplyFits(c, x)'
  BY <1>1, <1>3 DEF ReplyFits, Turned
<1>6. RepliesFit(c)'
  <2>1. CASE outbox' = outbox
    BY <1>5, <2>1, RepliesStay
  <2>2. CASE outbox' # outbox
    <3>1. PICK res \in {"ok", "error"} : Reply(t[1], t[2], res)
      BY <1>1
    <3>2. PICK r \in Replies : /\ r.who = t[2].who /\ r.n = t[2].n /\ r.res = res
                               /\ outbox' = [outbox EXCEPT ![t[1]] = Append(@, r)]
      BY <1>2, <2>2, <3>1, ReplyIs
    <3>3. ReplyFits(c, r)'
      BY <1>1, <1>2, <3>1, <3>2 DEF Tracked, ServedFits, ReplyFits
    <3> QED
      BY <1>2, <1>5, <3>2, <3>3, RepliesJoin
  <2> QED
    BY <2>1, <2>2
<1> QED
  BY <1>4, <1>6 DEF Tracked

\* A connection ends, the hub stops or starts.
LEMMA HubLosesTracks ==
    ASSUME TrackInv, Typed', NEW c \in Changes,
           (\E s \in Sockets : HandlerEnds(s)) \/ HubStops \/ HubStarts
    PROVE  Tracked(c)'
<1>0. Typed
  BY DEF TrackInv
<1>1. Quiet(c) /\ call' = call
  <2>1. /\ call' = call /\ handed' = handed /\ serving' \subseteq serving
        /\ \A s \in Sockets : inbox'[s] = inbox[s] \/ inbox'[s] = <<>>
        /\ \A s \in Sockets : outbox'[s] = outbox[s] \/ outbox'[s] = <<>>
    BY <1>0 DEF Typed, HandlerEnds, HubStops, HubStarts, clientVars
  <2>2. \A s \in Sockets : inbox[s] \in Seq(Frames) /\ outbox[s] \in Seq(Replies)
    BY <1>0 DEF Typed
  <2>3. Fewer(c) /\ Unread(c)
    BY <2>1, <2>2, KeptSame, KeptEmpty DEF Fewer, Unread
  <2> QED
    BY <2>1, <2>3 DEF Quiet
<1>2. Aside(c)
  BY <1>1 DEF Aside
<1> QED
  BY <1>1, <1>2, AsideKeeps

-----------------------------------------------------------------------------
(* The steps of the client. *)

\* What each step of the client is to a change c.
ClientMove(c) ==
    \/ Quiet(c) /\ (Aside(c) \/ Walks(c) \/ Ends(c) \/ Hears(c))
    \/ Greets(c) \/ Sends(c)

LEMMA MoveTracks ==
    ASSUME TrackInv, Typed', NEW c \in Changes, ClientMove(c)
    PROVE  Tracked(c)'
BY AsideKeeps, WalksKeeps, EndsKeeps, HearsKeeps, GreetsKeeps, SendsKeeps DEF ClientMove

\* When no frame moves, nothing about c does.
LEMMA StillIsQuiet ==
    ASSUME Typed, NEW c \in Changes, UNCHANGED <<inbox, outbox, handed, serving>>
    PROVE  Quiet(c)
<1>1. \A s \in Sockets : inbox[s] \in Seq(Frames) /\ outbox[s] \in Seq(Replies)
  BY DEF Typed
<1> QED
  BY <1>1, KeptSame DEF Quiet, Fewer, Unread

\* A request that goes out is quiet for the others.
LEMMA SendIsQuiet ==
    ASSUME Typed, NEW c \in Changes, NEW d \in Callers, c # d, sock # 0, Send(d, call),
           UNCHANGED <<outbox, handed, serving>>
    PROVE  Quiet(c) /\ Aside(c)
<1>1. \A s \in Sockets : inbox[s] \in Seq(Frames) /\ outbox[s] \in Seq(Replies)
  BY DEF Typed
<1>2. Frame(d) \in Frames /\ Frame(d).who # c
  BY FrameType DEF Frame
<1>3. \A s \in Sockets : inbox'[s] = inbox[s] \/ inbox'[s] = Append(inbox[s], Frame(d))
  BY DEF Send, Typed
<1>4. Fewer(c)
  BY <1>1, <1>2, <1>3, KeptSame, KeptAppend DEF Fewer
<1>5. Unread(c)
  BY <1>1, KeptSame DEF Unread
<1>6. call'[c] = call[c]
  BY DEF Send, Typed, Callers, Requests
<1> QED
  BY <1>4, <1>5, <1>6 DEF Quiet, Aside

\* The task whose request it is.
LEMMA SendIsSends ==
    ASSUME Typed, NEW c \in Changes, sock # 0, Unsent(c), Send(c, call),
           UNCHANGED <<outbox, handed, serving>>
    PROVE  Sends(c) \/ (Quiet(c) /\ Ends(c))
<1>0. c \in Callers /\ c \notin Reads /\ call[c] \in Task /\ sock \in Sockets
  BY DEF Typed, Callers, Requests, Sockets
<1>1. CASE /\ call' = [call EXCEPT ![c] = Sent(@)]
           /\ inbox' = IF serverEnd[sock] THEN [inbox EXCEPT ![sock] = Append(@, Frame(c))]
                                          ELSE inbox
  <2>1. call'[c] = Sent(call[c])
    BY <1>0, <1>1 DEF Typed
  <2>2. /\ call'[c].pc = "wait" /\ call'[c].n = call[c].n + 1 /\ call'[c].fut = "none"
        /\ call'[c].out = call[c].out
    BY <1>0, <2>1 DEF Sent, Task
  <2>3. Frame(c) \in Frames
    BY <1>0, FrameType DEF Frame
  <2>4. Frame(c).who = c /\ ~Frame(c).hello /\ Frame(c).n = call'[c].n
    BY <2>2 DEF Frame
  <2>5. inbox' = inbox \/ inbox' = [inbox EXCEPT ![sock] = Append(@, Frame(c))]
    BY <1>1
  <2> QED
    BY <1>0, <2>2, <2>3, <2>4, <2>5 DEF Sends, Numbered
<1>2. CASE /\ call' = [call EXCEPT ![c] = IF c \in Reads /\ ~@.again
                                        THEN [@ EXCEPT !.pc = "want", !.fut = "none", !.again = TRUE]
                                        ELSE Ended(@, "closed")]
           /\ UNCHANGED inbox
  <2>1. call'[c] = Ended(call[c], "closed")
    BY <1>0, <1>2 DEF Typed
  <2>2. call'[c].pc = "done" /\ call'[c].out = "closed"
    BY <2>1 DEF Ended, Idle
  <2>3. Quiet(c)
    BY <1>2, StillIsQuiet
  <2> QED
    BY <2>2, <2>3 DEF Ends, Unsent
<1> QED
  BY <1>1, <1>2 DEF Send

\* A task that ends, or goes back to where it has not sent its request.
LEMMA EndIsEnds ==
    ASSUME Typed, NEW c \in Changes, NEW o \in {"notconnected", "closed", "timeout", "cancelled"},
           call' = [call EXCEPT ![c] = Ended(@, o)], call[c].pc # "done",
           o = "notconnected" => Unsent(c)
    PROVE  Ends(c)
<1>1. call'[c] = Ended(call[c], o)
  BY DEF Typed, Callers, Requests
<1>2. call'[c].pc = "done" /\ call'[c].out = o
  BY <1>1 DEF Ended, Idle
<1> QED
  BY <1>2 DEF Ends

LEMMA RetryMoves ==
    ASSUME NEW c \in Changes, call[c] \in Task, Unsent(c), call'[c] = Failed(c, call[c])
    PROVE  Walks(c) \/ Ends(c)
<1>1. call'[c] = Retry(call[c])
  BY DEF Failed, Requests
<1>2. CASE call[c].tries + 1 < Attempts
  <2>1. call'[c] = [call[c] EXCEPT !.pc = "opening", !.fut = "none", !.tries = @ + 1]
    BY <1>1, <1>2 DEF Retry
  <2>2. call'[c].pc = "opening" /\ call'[c].n = call[c].n /\ call'[c].out = call[c].out
    BY <2>1 DEF Task
  <2> QED
    BY <2>2 DEF Walks, Unsent
<1>3. CASE ~(call[c].tries + 1 < Attempts)
  <2>1. call'[c] = Ended(call[c], "notconnected")
    BY <1>1, <1>3 DEF Retry
  <2>2. call'[c].pc = "done" /\ call'[c].out = "notconnected"
    BY <2>1 DEF Ended, Idle
  <2> QED
    BY <2>2 DEF Ends, Unsent
<1> QED
  BY <1>2, <1>3

\* Another task, whose future may have been failed with the reader.
LEMMA FailedIsAside ==
    ASSUME NEW c \in Changes, call[c] \in Task,
           call'[c] = call[c] \/ call'[c] = [call[c] EXCEPT !.fut = "closed"]
    PROVE  Aside(c)
BY DEF Aside, Task

\* A step of the client moves at most the task that makes it.
OneMoves(d) ==
    /\ UNCHANGED handed
    /\ \A c \in Changes : ClientMove(c) /\ (c # d => Aside(c))

LEMMA IssueMoves ==
    ASSUME TrackInv, NEW d \in Callers, Issue(d) \/ Reattach(d)
    PROVE  OneMoves(d)
<1>1. Typed /\ UNCHANGED <<sock, outbox, handed, serving>>
  BY DEF TrackInv, Issue, Reattach, hubVars
<1>2. /\ call[d].pc \in {"idle", "want"}
      /\ \/ call' = [call EXCEPT ![d] = Ended(@, "notconnected")] /\ UNCHANGED inbox
         \/ call' = [call EXCEPT ![d].pc = "want"] /\ UNCHANGED inbox
         \/ call' = [call EXCEPT ![d].pc = "opening"] /\ UNCHANGED inbox
         \/ sock # 0 /\ Send(d, call)
  BY DEF Issue, Reattach, Attached
<1>3. ASSUME NEW c \in Changes PROVE ClientMove(c) /\ (c # d => Aside(c))
  <2>0. call[c] \in Task /\ call \in [Callers -> Task] /\ c \in Callers
    BY <1>1 DEF Typed, Callers, Requests
  <2>1. CASE c # d /\ UNCHANGED inbox /\ ~(sock # 0 /\ Send(d, call))
    <3>1. call'[c] = call[c]
      BY <1>2, <2>0, <2>1
    <3> QED
      BY <1>1, <2>1, <2>0, <3>1, StillIsQuiet, FailedIsAside DEF ClientMove
  <2>2. CASE c # d /\ sock # 0 /\ Send(d, call)
    BY <1>1, <2>2, SendIsQuiet DEF ClientMove
  <2>3. CASE c = d /\ sock # 0 /\ Send(d, call)
    BY <1>1, <1>2, <2>3, SendIsSends DEF ClientMove, Unsent
  <2>4. CASE c = d /\ UNCHANGED inbox /\ ~(sock # 0 /\ Send(d, call))
    <3>1. Quiet(c)
      BY <1>1, <2>4, StillIsQuiet
    <3>2. CASE call' = [call EXCEPT ![d] = Ended(@, "notconnected")]
      BY <1>1, <1>2, <2>4, <3>1, <3>2, EndIsEnds DEF ClientMove, Unsent
    <3>3. CASE call' = [call EXCEPT ![d].pc = "want"] \/ call' = [call EXCEPT ![d].pc = "opening"]
      <4>1. /\ call'[c].pc \in {"want", "opening"} /\ call'[c].n = call[c].n
            /\ call'[c].out = call[c].out
        BY <2>0, <2>4, <3>3 DEF Task
      <4>2. Walks(c)
        BY <1>2, <2>4, <4>1 DEF Walks, Unsent
      <4> QED
        BY <2>4, <3>1, <4>2 DEF ClientMove
    <3> QED
      BY <1>2, <2>4, <3>2, <3>3
  <2> QED
    BY <1>2, <2>1, <2>2, <2>3, <2>4
<1> QED
  BY <1>1, <1>3 DEF OneMoves

LEMMA OpenMoves ==
    ASSUME TrackInv, NEW d \in Callers, OpenSocket(d)
    PROVE  OneMoves(d)
<1> DEFINE failing == [x \in Callers |-> IF x \in Doomed(d)
                                 THEN [call[x] EXCEPT !.fut = "closed"] ELSE call[x]]
<1>1. Typed /\ UNCHANGED <<outbox, handed, serving>> /\ call[d].pc = "opening"
  BY DEF TrackInv, OpenSocket, hubVars
<1>2. failing[d] = call[d]
  BY DEF Doomed
<1>3. \/ /\ opened' \in Sockets
         /\ inbox' = [inbox EXCEPT ![opened'] = <<[who |-> d, n |-> call[d].n + 1, hello |-> TRUE]>>]
         /\ call' = [failing EXCEPT ![d] = Greeting(@)]
      \/ inbox' = inbox /\ call' = [failing EXCEPT ![d] = Failed(d, @)]
  <2>1. \/ /\ opened < MaxSockets /\ opened' = opened + 1
           /\ inbox' = [inbox EXCEPT ![opened'] = <<[who |-> d, n |-> call[d].n + 1, hello |-> TRUE]>>]
           /\ call' = [failing EXCEPT ![d] = Greeting(@)]
        \/ inbox' = inbox /\ call' = [failing EXCEPT ![d] = Failed(d, @)]
    BY DEF OpenSocket
  <2>2. (opened < MaxSockets /\ opened' = opened + 1) => opened' \in Sockets
    BY <1>1 DEF Typed, Sockets
  <2> HIDE DEF failing
  <2> QED
    BY <2>1, <2>2
<1>4. ASSUME NEW c \in Changes, c # d PROVE Aside(c) /\ Quiet(c)
  <2>0. call[c] \in Task /\ c \in Callers
    BY <1>1 DEF Typed, Callers, Requests
  <2>1. call'[c] = failing[c]
    BY <1>3, <1>4, <2>0
  <2>2. call'[c] = call[c] \/ call'[c] = [call[c] EXCEPT !.fut = "closed"]
    BY <2>0, <2>1
  <2>3. Aside(c)
    BY <2>0, <2>2, FailedIsAside
  <2>4. CASE inbox' = inbox
    BY <1>1, <2>3, <2>4, StillIsQuiet
  <2>5. CASE inbox' = [inbox EXCEPT ![opened'] = <<[who |-> d, n |-> call[d].n + 1, hello |-> TRUE]>>]
    <3> DEFINE f == [who |-> d, n |-> call[d].n + 1, hello |-> TRUE]
    <3>1. f.who # c /\ inbox' = [inbox EXCEPT ![opened'] = <<f>>]
      BY <1>4, <2>5
    <3> HIDE DEF f
    <3>2. \A s \in Sockets : inbox'[s] = inbox[s] \/ inbox'[s] = <<f>>
      BY <1>1, <3>1 DEF Typed
    <3>3. \A s \in Sockets : inbox[s] \in Seq(Frames) /\ outbox[s] \in Seq(Replies)
      BY <1>1 DEF Typed
    <3>4. Fewer(c)
      BY <3>1, <3>2, <3>3, KeptSame, KeptOne DEF Fewer
    <3>5. Unread(c)
      BY <1>1, <3>3, KeptSame DEF Unread
    <3> QED
      BY <1>1, <2>3, <3>4, <3>5 DEF Quiet
  <2> QED
    BY <1>3, <2>4, <2>5
<1>5. ASSUME d \in Changes PROVE ClientMove(d)
  <2>0. call[d] \in Task /\ Unsent(d)
    BY <1>1 DEF Typed, Unsent
  <2>1. CASE inbox' = inbox /\ call' = [failing EXCEPT ![d] = Failed(d, @)]
    <3>1. call'[d] = Failed(d, call[d])
      BY <1>2, <2>1
    <3>2. Quiet(d)
      BY <1>1, <1>5, <2>1, StillIsQuiet
    <3> QED
      BY <1>5, <2>0, <3>1, <3>2, RetryMoves DEF ClientMove
  <2>2. CASE /\ opened' \in Sockets
             /\ inbox' = [inbox EXCEPT ![opened'] = <<[who |-> d, n |-> call[d].n + 1, hello |-> TRUE]>>]
             /\ call' = [failing EXCEPT ![d] = Greeting(@)]
    <3>1. call'[d] = Greeting(call[d])
      BY <1>2, <2>2
    <3>2. call'[d].pc = "hello" /\ call'[d].n = call[d].n + 1 /\ call'[d].out = call[d].out
      BY <2>0, <3>1 DEF Greeting, Task
    <3>3. Numbered(d)
      BY <1>1, <2>0, <3>2 DEF Numbered
    <3> DEFINE f == [who |-> d, n |-> call[d].n + 1, hello |-> TRUE]
    <3>4. f \in Frames
      BY <1>1, FrameType
    <3>5. f.who = d /\ f.hello /\ f.n = call'[d].n /\ inbox' = [inbox EXCEPT ![opened'] = <<f>>]
      BY <2>2, <3>2
    <3> HIDE DEF f
    <3> QED
      BY <2>2, <3>2, <3>3, <3>4, <3>5 DEF ClientMove, Greets
  <2> QED
    BY <1>3, <2>1, <2>2
<1> QED
  BY <1>1, <1>4, <1>5 DEF OneMoves, ClientMove

LEMMA HelloMoves ==
    ASSUME TrackInv, NEW d \in Callers, HelloFails(d) \/ HelloAnswered(d)
    PROVE  OneMoves(d)
<1>1. /\ Typed /\ UNCHANGED <<outbox, handed, serving>> /\ call[d].pc = "hello"
      /\ call \in [Callers -> Task]
  BY DEF TrackInv, Typed, HelloFails, HelloAnswered, hubVars
<1>2. ASSUME NEW c \in Changes PROVE call[c] \in Task /\ c \in Callers /\ c # Connector
  BY <1>1 DEF Callers, Requests
<1>3. CASE HelloFails(d)
  <2>1. Typed /\ UNCHANGED <<inbox, outbox, handed, serving>>
    BY <1>1, <1>3 DEF HelloFails
  <2>2. /\ call'[d] = Failed(d, call[d])
        /\ \A c \in Callers : c # d => \/ call'[c] = call[c]
                                      \/ call'[c] = [call[c] EXCEPT !.fut = "closed"]
    <3>1. CASE d = Connector
      BY <1>1, <1>3, <3>1 DEF HelloFails
    <3>2. CASE d # Connector
      <4>1. call' = [x \in Callers |->
                          IF x = d THEN Failed(d, call[d])
                          ELSE IF x \in Doomed(d) THEN [call[x] EXCEPT !.fut = "closed"]
                          ELSE call[x]]
        BY <1>3, <3>2 DEF HelloFails
      <4> QED
        BY <4>1
    <3> QED
      BY <3>1, <3>2
  <2>3. ASSUME NEW c \in Changes PROVE ClientMove(c) /\ (c # d => Aside(c))
    <3>1. Quiet(c)
      BY <2>1, StillIsQuiet
    <3>2. CASE c # d
      BY <1>2, <2>2, <3>1, <3>2, FailedIsAside DEF ClientMove
    <3>3. CASE c = d
      <4>1. call[c] \in Task /\ Unsent(c) /\ call'[c] = Failed(c, call[c])
        BY <1>1, <1>2, <2>2, <3>3 DEF Unsent
      <4> QED
        BY <3>1, <3>3, <4>1, RetryMoves DEF ClientMove
    <3> QED
      BY <3>2, <3>3
  <2> QED
    BY <2>1, <2>3 DEF OneMoves
<1>4. CASE HelloAnswered(d)
  <2>1. \/ d = Connector /\ UNCHANGED inbox
           /\ call' = [call EXCEPT ![d] = [@ EXCEPT !.pc = "idle", !.fut = "none"]]
        \/ UNCHANGED inbox /\ call' = [call EXCEPT ![d] = Ended(@, "notconnected")]
        \/ sock # 0 /\ Send(d, call)
    BY <1>4 DEF HelloAnswered
  <2>2. ASSUME NEW c \in Changes, c # d PROVE ClientMove(c) /\ Aside(c)
    <3>1. CASE sock # 0 /\ Send(d, call)
      BY <1>1, <2>2, <3>1, SendIsQuiet DEF ClientMove
    <3>2. CASE UNCHANGED inbox /\ call'[c] = call[c]
      BY <1>1, <1>2, <3>2, StillIsQuiet, FailedIsAside DEF ClientMove
    <3> QED
      BY <1>1, <1>2, <2>1, <2>2, <3>1, <3>2
  <2>3. ASSUME d \in Changes PROVE ClientMove(d)
    <3>1. Unsent(d) /\ d # Connector
      BY <1>1, <1>2, <2>3 DEF Unsent
    <3>2. CASE sock # 0 /\ Send(d, call)
      BY <1>1, <2>3, <3>1, <3>2, SendIsSends DEF ClientMove
    <3>3. CASE UNCHANGED inbox /\ call' = [call EXCEPT ![d] = Ended(@, "notconnected")]
      BY <1>1, <2>3, <3>1, <3>3, StillIsQuiet, EndIsEnds DEF ClientMove
    <3> QED
      BY <2>1, <3>1, <3>2, <3>3
  <2> QED
    BY <1>1, <2>2, <2>3 DEF OneMoves
<1> QED
  BY <1>3, <1>4

LEMMA ReturnMoves ==
    ASSUME TrackInv, NEW d \in Callers, Return(d) \/ TimeOut(d) \/ Cancel(d)
    PROVE  OneMoves(d)
<1>1. /\ Typed /\ UNCHANGED <<inbox, outbox, handed, serving>>
      /\ call \in [Callers -> Task]
  BY DEF TrackInv, Typed, Return, TimeOut, Cancel, hubVars
<1>2. ASSUME NEW c \in Changes PROVE call[c] \in Task /\ c \in Callers /\ Quiet(c)
  BY <1>1, StillIsQuiet DEF Callers, Requests
<1>3. ASSUME NEW c \in Changes, c # d PROVE ClientMove(c) /\ Aside(c)
  <2>1. call'[c] = call[c]
    BY <1>2, <1>3, <1>1 DEF Return, TimeOut, Cancel
  <2> QED
    BY <1>2, <2>1, FailedIsAside DEF ClientMove
<1>4. ASSUME d \in Changes PROVE ClientMove(d)
  <2>1. CASE Return(d)
    <3>1. call'[d] = [Ended(call[d], call[d].fut) EXCEPT !.on = call[d].on, !.seen = reattaches]
      BY <1>1, <1>4, <2>1 DEF Return
    <3>2. call'[d].pc = "done" /\ call'[d].out = call[d].fut
      BY <3>1 DEF Ended, Idle
    <3> QED
      BY <1>2, <1>4, <2>1, <3>2 DEF ClientMove, Ends, Return
  <2>2. CASE TimeOut(d) \/ Cancel(d)
    <3>1. /\ call[d].pc # "done"
          /\ \E o \in {"timeout", "cancelled"} : call' = [call EXCEPT ![d] = Ended(@, o)]
      BY <2>2 DEF TimeOut, Cancel
    <3> QED
      BY <1>1, <1>2, <1>4, <3>1, EndIsEnds DEF ClientMove
  <2> QED
    BY <2>1, <2>2
<1> QED
  BY <1>1, <1>3, <1>4 DEF OneMoves

LEMMA ReaderMoves ==
    ASSUME TrackInv, Connect \/ Close \/ Deliver \/ ReaderEnds
    PROVE  \E d \in Callers : OneMoves(d)
<1>1. /\ Typed /\ UNCHANGED <<inbox, handed, serving>> /\ call \in [Callers -> Task]
  BY DEF TrackInv, Typed, Connect, Close, Deliver, ReaderEnds, hubVars
<1>2. ASSUME NEW c \in Changes PROVE call[c] \in Task /\ c \in Callers /\ c # Connector
  BY <1>1 DEF Callers, Requests
<1>3. CASE Connect \/ Close \/ ReaderEnds
  <2>1. UNCHANGED outbox
    BY <1>3 DEF Connect, Close, ReaderEnds
  <2>2. ASSUME NEW c \in Changes
        PROVE  call'[c] = call[c] \/ call'[c] = [call[c] EXCEPT !.fut = "closed"]
    BY <1>1, <1>2, <1>3 DEF Connect, Close, ReaderEnds, FailAll
  <2>3. ASSUME NEW c \in Changes PROVE ClientMove(c) /\ Aside(c)
    BY <1>1, <1>2, <2>1, <2>2, StillIsQuiet, FailedIsAside DEF ClientMove
  <2>4. Connector \in Callers
    BY DEF Callers
  <2> QED
    BY <1>1, <2>3, <2>4 DEF OneMoves
<1>4. CASE Deliver
  <2>1. /\ sock \in Sockets /\ outbox[sock] # <<>> /\ outbox' = [outbox EXCEPT ![sock] = Tail(@)]
        /\ \A s \in Sockets : inbox[s] \in Seq(Frames) /\ outbox[s] \in Seq(Replies)
    BY <1>1, <1>4 DEF Deliver, Typed, Sockets
  <2> DEFINE r == Head(outbox[sock])
  <2>2. r \in Replies /\ r.who \in Callers
    <3>1. outbox[sock] \in Seq(Replies) /\ outbox[sock] # <<>>
      BY <2>1
    <3>2. r \in Replies
      BY <3>1
    <3> HIDE DEF r
    <3> QED
      BY <3>2 DEF Replies
  <2>3. \/ call' = call
        \/ /\ call[r.who].n = r.n
           /\ call' = [call EXCEPT ![r.who] = [@ EXCEPT !.fut = r.res, !.on = sock]]
    BY <1>4 DEF Deliver
  <2>4. ASSUME NEW c \in Changes PROVE Quiet(c)
    <3>1. \A s \in Sockets : outbox'[s] = IF s = sock THEN Tail(outbox[s]) ELSE outbox[s]
      BY <1>1, <2>1 DEF Typed
    <3>2. Unread(c)
      BY <2>1, <3>1, KeptSame, KeptTail DEF Unread
    <3>3. Fewer(c)
      BY <1>1, <2>1, KeptSame DEF Fewer
    <3> QED
      BY <1>1, <3>2, <3>3 DEF Quiet
  <2>5. ASSUME NEW c \in Changes, c # r.who \/ call' = call PROVE ClientMove(c) /\ Aside(c)
    <3>1. call'[c] = call[c]
      BY <1>1, <1>2, <2>3, <2>5
    <3> QED
      BY <1>2, <2>4, <3>1, FailedIsAside DEF ClientMove
  <2>6. ASSUME NEW c \in Changes, c = r.who, call' # call PROVE ClientMove(c)
    <3>1. call[c].n = r.n /\ call'[c] = [call[c] EXCEPT !.fut = r.res, !.on = sock]
      BY <1>1, <2>2, <2>3, <2>6
    <3> HIDE DEF r
    <3>2. /\ call'[c].pc = call[c].pc /\ call'[c].n = call[c].n /\ call'[c].out = call[c].out
          /\ call'[c].fut = r.res
      BY <1>2, <3>1 DEF Task
    <3>3. Hears(c)
      BY <2>1, <2>6, <3>1, <3>2 DEF Hears, r
    <3> QED
      BY <2>4, <3>3 DEF ClientMove
  <2> HIDE DEF r
  <2>7. OneMoves(r.who)
    BY <1>1, <2>5, <2>6 DEF OneMoves
  <2> QED
    BY <2>2, <2>7
<1> QED
  BY <1>3, <1>4

LEMMA ClientMoves ==
    ASSUME TrackInv,
           (\E c \in Callers : Step(c) \/ Cancel(c)) \/ Connect \/ Close \/ Deliver \/ ReaderEnds
    PROVE  \E d \in Callers : OneMoves(d)
BY IssueMoves, OpenMoves, HelloMoves, ReturnMoves, ReaderMoves DEF Step

LEMMA TrackStep == TrackInv /\ [Next]_vars => TrackInv'
<1> SUFFICES ASSUME TrackInv, [Next]_vars PROVE TrackInv'
  OBVIOUS
<1>0. Typed'
  BY TypedStep DEF TrackInv
<1> SUFFICES ASSUME NEW c \in Changes PROVE Tracked(c)'
  BY <1>0 DEF TrackInv
<1>1. CASE UNCHANGED vars
  <2>1. UNCHANGED <<call, inbox, outbox, handed, serving>>
    BY <1>1 DEF vars, clientVars, hubVars
  <2>2. Quiet(c) /\ Aside(c)
    BY <2>1, StillIsQuiet DEF TrackInv, Aside
  <2> QED
    BY <1>0, <2>2, AsideKeeps
<1>2. CASE (\E d \in Callers : Step(d) \/ Cancel(d)) \/ Connect \/ Close \/ Deliver \/ ReaderEnds
  BY <1>0, <1>2, ClientMoves, MoveTracks DEF OneMoves
<1>3. ASSUME NEW s \in Sockets, Hello(s) PROVE Tracked(c)'
  BY <1>0, <1>3, HelloTracks
<1>4. ASSUME NEW s \in Sockets, Dispatch(s) PROVE Tracked(c)'
  BY <1>0, <1>4, DispatchTracks, TakesUpTracks
<1>5. ASSUME NEW t \in serving, Finish(t[1], t[2]) PROVE Tracked(c)'
  BY <1>0, <1>5, FinishTracks
<1>6. CASE (\E s \in Sockets : HandlerEnds(s)) \/ HubStops \/ HubStarts
  BY <1>0, <1>6, HubLosesTracks
<1> QED
  BY <1>1, <1>2, <1>3, <1>4, <1>5, <1>6 DEF Next

-----------------------------------------------------------------------------
(* The contract. *)

outcomes == [c \in Changes |-> call[c].out]
hands == [c \in Changes |-> handed[c]]

LEMMA ContractInit == Init => Contract!Init
<1> SUFFICES ASSUME Init PROVE Contract!Init
  OBVIOUS
<1>1. \A c \in Changes : call[c].out = "none" /\ handed[c] = 0
  BY DEF Init, Idle, Callers, Requests
<1> QED
  BY <1>1 DEF Contract!Init

LEMMA ContractStutters ==
    ASSUME \A c \in Changes : call'[c].out = call[c].out /\ handed'[c] = handed[c]
    PROVE  UNCHANGED <<outcomes, hands>>
BY DEF outcomes, hands

\* A step of the client answers at most the task that makes it.
LEMMA ContractAnswer ==
    ASSUME TrackInv, TrackInv', NEW d \in Callers, OneMoves(d)
    PROVE  UNCHANGED <<outcomes, hands>> \/ Contract!Next
<1>1. \A c \in Changes : (c # d => call'[c].out = call[c].out) /\ handed'[c] = handed[c]
  BY DEF OneMoves, Aside
<1>2. CASE d \notin Changes \/ call'[d].out = call[d].out
  BY <1>1, <1>2, ContractStutters
<1>3. CASE d \in Changes /\ call'[d].out # call[d].out
  <2>1. Ends(d)
    BY <1>3 DEF OneMoves, ClientMove, Aside, Walks, Hears, Greets, Sends, Numbered
  <2>2. Told(d) /\ Told(d)' /\ call[d] \in Task /\ call'[d] \in Task
    BY <1>3 DEF TrackInv, Tracked, Typed
  <2>3. PICK o \in Outcomes : o = call'[d].out
    BY <2>2, TaskFields
  <2>4. call[d].out = "none" /\ o # "none"
    BY <1>3, <2>1, <2>2, <2>3 DEF Told, Ends
  <2>5. (o \in Given => handed[d] = 1) /\ (o \in Denied => handed[d] = 0)
    BY <1>1, <1>3, <2>1, <2>2, <2>3 DEF Told, Ends, Claim, Turned
  <2>6. outcomes' = [outcomes EXCEPT ![d] = o] /\ hands' = hands
    BY <1>1, <1>3, <2>3 DEF outcomes, hands
  <2>7. o \in Contract!Known \cup Contract!Never \cup Contract!Unknown
    BY <2>4 DEF Outcomes, Contract!Known, Contract!Never, Contract!Unknown
  <2>8. Contract!Answer(d, o)
    BY <1>3, <2>4, <2>5, <2>6
       DEF Contract!Answer, Contract!Known, Contract!Never, Given, Denied, outcomes, hands
  <2> QED
    BY <1>3, <2>7, <2>8 DEF Contract!Next
<1> QED
  BY <1>2, <1>3

LEMMA ContractHandOver ==
    ASSUME TrackInv, TrackInv', NEW s \in Sockets, NEW c \in Changes, TakesUp(s, c)
    PROVE  Contract!Next
<1>1. /\ handed[c] = 0 /\ handed' = [handed EXCEPT ![c] = 1] /\ call' = call
      /\ call[c].out \in Outcomes /\ call[c].out \notin Given \cup Denied
  BY TakesUpTracks DEF TrackInv
<1>2. outcomes' = outcomes /\ hands' = [hands EXCEPT ![c] = 1]
  <2>1. handed \in [Requests -> Nat] /\ c \in Requests
    BY DEF TrackInv, Typed, Requests
  <2> QED
    BY <1>1, <2>1 DEF outcomes, hands, Requests
<1>3. call[c].out \in {"none"} \cup Contract!Unknown
  BY <1>1 DEF Outcomes, Given, Denied, Contract!Unknown
<1>4. Contract!HandOver(c)
  BY <1>1, <1>2, <1>3 DEF Contract!HandOver, outcomes, hands
<1> QED
  BY <1>4 DEF Contract!Next

LEMMA ContractStep ==
    ASSUME TrackInv, TrackInv', [Next]_vars
    PROVE  UNCHANGED <<outcomes, hands>> \/ Contract!Next
<1>0. Typed'
  BY DEF TrackInv
<1>1. CASE UNCHANGED vars
  BY <1>1, ContractStutters DEF vars, clientVars, hubVars
<1>2. CASE (\E d \in Callers : Step(d) \/ Cancel(d)) \/ Connect \/ Close \/ Deliver \/ ReaderEnds
  BY <1>2, ClientMoves, ContractAnswer
<1>3. ASSUME NEW s \in Sockets, Dispatch(s) PROVE UNCHANGED <<outcomes, hands>> \/ Contract!Next
  <2>1. CASE \E c \in Changes : TakesUp(s, c)
    BY <2>1, ContractHandOver
  <2>2. CASE \A c \in Changes : ~TakesUp(s, c)
    <3>1. ASSUME NEW c \in Changes
          PROVE  call'[c].out = call[c].out /\ handed'[c] = handed[c]
      <4>1. handed'[c] = handed[c] /\ call' = call
        BY <1>0, <1>3, <2>2, DispatchTracks
      <4> QED
        BY <4>1
    <3>2. UNCHANGED <<outcomes, hands>>
      BY <3>1, ContractStutters
    <3> QED
      BY <3>2
  <2> QED
    BY <2>1, <2>2
<1>4. CASE \/ \E s \in Sockets : Hello(s) \/ HandlerEnds(s)
           \/ \E t \in serving : Finish(t[1], t[2])
           \/ HubStops \/ HubStarts
  <2>1. call' = call /\ handed' = handed
    BY <1>4 DEF Hello, HandlerEnds, Finish, HubStops, HubStarts, clientVars
  <2> QED
    BY <2>1, ContractStutters
<1> QED
  BY <1>1, <1>2, <1>3, <1>4 DEF Next

\* What an engine may conclude from the outcome of a change (client.py:114-139,
\* server.py:158-192), for any number of changes, reads, sockets and attempts and
\* however often the hub stops: the session implements HubCall.
THEOREM ChangesHonoured == Spec => HonoursContract
<1>1. TrackInv /\ [Next]_vars => TrackInv'
  BY TrackStep
<1>2. TrackInv /\ TrackInv' /\ [Next]_vars => [Contract!Next]_<<outcomes, hands>>
  BY ContractStep
<1> QED
  BY <1>1, <1>2, ContractInit, TrackInit, PTL
     DEF Spec, HonoursContract, Contract!Spec, outcomes, hands

-----------------------------------------------------------------------------
(* The order in which tasks resume. *)

InQ(q, c) == \E i \in 1 .. Len(q) : q[i] = c
Before(q, a, b) == \E i, j \in 1 .. Len(q) : i < j /\ q[i] = a /\ q[j] = b
Distinct(q) == \A i, j \in 1 .. Len(q) : q[i] = q[j] => i = j

LEMMA TailOrder ==
    ASSUME NEW S, NEW q \in Seq(S), Distinct(q), q # <<>>
    PROVE  /\ Tail(q) \in Seq(S) /\ Distinct(Tail(q)) /\ Head(q) \in S
           /\ \A x : InQ(Tail(q), x) <=> InQ(q, x) /\ x # Head(q)
           /\ \A x, y : x # Head(q) => (Before(Tail(q), x, y) <=> Before(q, x, y))
           /\ \A x : ~Before(q, x, Head(q))
           /\ \A x : InQ(q, x) /\ x # Head(q) => Before(q, Head(q), x)
<1> DEFINE r == Tail(q)
<1>1. /\ r \in Seq(S) /\ Len(q) \in Nat \ {0} /\ Len(r) = Len(q) - 1 /\ Head(q) = q[1]
      /\ Head(q) \in S /\ \A i \in 1 .. Len(r) : r[i] = q[i + 1]
  OBVIOUS
<1> HIDE DEF r
<1>2. Distinct(r)
  <2> SUFFICES ASSUME NEW i \in 1 .. Len(r), NEW j \in 1 .. Len(r), r[i] = r[j] PROVE i = j
    BY DEF Distinct
  <2>1. i + 1 \in 1 .. Len(q) /\ j + 1 \in 1 .. Len(q) /\ q[i + 1] = q[j + 1]
    BY <1>1
  <2>2. i + 1 = j + 1
    BY <2>1 DEF Distinct
  <2> QED
    BY <1>1, <2>2
<1>3. ASSUME NEW x PROVE InQ(r, x) <=> InQ(q, x) /\ x # Head(q)
  <2>1. ASSUME InQ(r, x) PROVE InQ(q, x) /\ x # Head(q)
    <3>1. PICK i \in 1 .. Len(r) : r[i] = x
      BY <2>1 DEF InQ
    <3>2. i + 1 \in 1 .. Len(q) /\ q[i + 1] = x /\ i + 1 # 1 /\ 1 \in 1 .. Len(q)
      BY <1>1, <3>1
    <3>3. q[1] # x
      BY <3>2 DEF Distinct
    <3> QED
      BY <1>1, <3>2, <3>3 DEF InQ
  <2>2. ASSUME InQ(q, x), x # Head(q) PROVE InQ(r, x)
    <3>1. PICK i \in 1 .. Len(q) : q[i] = x
      BY <2>2 DEF InQ
    <3>2. i # 1
      BY <1>1, <2>2, <3>1
    <3>3. i - 1 \in 1 .. Len(r) /\ r[i - 1] = x
      BY <1>1, <3>1, <3>2
    <3> QED
      BY <3>3 DEF InQ
  <2> QED
    BY <2>1, <2>2
<1>4. ASSUME NEW x, NEW y, x # Head(q) PROVE Before(r, x, y) <=> Before(q, x, y)
  <2>1. ASSUME Before(r, x, y) PROVE Before(q, x, y)
    <3>1. PICK i, j \in 1 .. Len(r) : i < j /\ r[i] = x /\ r[j] = y
      BY <2>1 DEF Before
    <3>2. i + 1 \in 1 .. Len(q) /\ j + 1 \in 1 .. Len(q) /\ i + 1 < j + 1 /\ q[i + 1] = x /\ q[j + 1] = y
      BY <1>1, <3>1
    <3> QED
      BY <3>2 DEF Before
  <2>2. ASSUME Before(q, x, y) PROVE Before(r, x, y)
    <3>1. PICK i, j \in 1 .. Len(q) : i < j /\ q[i] = x /\ q[j] = y
      BY <2>2 DEF Before
    <3>2. i # 1
      BY <1>1, <1>4, <3>1
    <3>3. i - 1 \in 1 .. Len(r) /\ j - 1 \in 1 .. Len(r) /\ i - 1 < j - 1 /\ r[i - 1] = x /\ r[j - 1] = y
      BY <1>1, <3>1, <3>2
    <3> QED
      BY <3>3 DEF Before
  <2> QED
    BY <2>1, <2>2
<1>5. ASSUME NEW x, Before(q, x, Head(q)) PROVE FALSE
  <2>1. PICK i, j \in 1 .. Len(q) : i < j /\ q[i] = x /\ q[j] = Head(q)
    BY <1>5 DEF Before
  <2>2. 1 \in 1 .. Len(q) /\ q[j] = q[1]
    BY <1>1, <2>1
  <2>3. j = 1
    BY <2>2 DEF Distinct
  <2> QED
    BY <1>1, <2>1, <2>3
<1>6. ASSUME NEW x, InQ(q, x), x # Head(q) PROVE Before(q, Head(q), x)
  <2>1. PICK i \in 1 .. Len(q) : q[i] = x
    BY <1>6 DEF InQ
  <2>2. 1 \in 1 .. Len(q) /\ 1 < i /\ q[1] = Head(q)
    BY <1>1, <1>6, <2>1
  <2> QED
    BY <2>1, <2>2 DEF Before
<1> QED
  BY <1>1, <1>2, <1>3, <1>4, <1>5, <1>6 DEF r

LEMMA MoreOrder ==
    ASSUME NEW S, NEW q \in Seq(S), NEW w \in Seq(S), Distinct(q), Distinct(w),
           \A x : ~(InQ(q, x) /\ InQ(w, x))
    PROVE  /\ q \o w \in Seq(S) /\ Distinct(q \o w)
           /\ \A x : InQ(q \o w, x) <=> InQ(q, x) \/ InQ(w, x)
           /\ \A x, y : InQ(q, y) => (Before(q \o w, x, y) <=> Before(q, x, y))
<1> DEFINE r == q \o w
           n == Len(q)
           m == Len(w)
<1>1. /\ r \in Seq(S) /\ n \in Nat /\ m \in Nat /\ Len(r) = n + m
      /\ \A i \in 1 .. n + m : r[i] = IF i <= n THEN q[i] ELSE w[i - n]
  OBVIOUS
<1> HIDE DEF r
<1>2. ASSUME NEW i \in 1 .. n PROVE i \in 1 .. n + m /\ r[i] = q[i]
  BY <1>1
<1>3. ASSUME NEW i \in 1 .. m PROVE n + i \in 1 .. n + m /\ r[n + i] = w[i]
  <2>1. i \in Nat /\ i >= 1 /\ i <= m /\ n \in Nat /\ m \in Nat
    BY <1>1
  <2> HIDE DEF n, m
  <2>2. n + i \in 1 .. n + m /\ ~(n + i <= n) /\ (n + i) - n = i
    BY <2>1
  <2> QED
    BY <1>1, <2>2
<1>4. ASSUME NEW i \in 1 .. n + m
      PROVE  (i \in 1 .. n /\ r[i] = q[i]) \/ (i - n \in 1 .. m /\ r[i] = w[i - n])
  BY <1>1
<1> HIDE DEF n, m
<1>5. ASSUME NEW x PROVE InQ(r, x) <=> InQ(q, x) \/ InQ(w, x)
  <2>1. ASSUME InQ(r, x) PROVE InQ(q, x) \/ InQ(w, x)
    BY <1>1, <1>4, <2>1 DEF InQ, n, m
  <2>2. ASSUME InQ(q, x) PROVE InQ(r, x)
    BY <1>1, <1>2, <2>2 DEF InQ, n
  <2>3. ASSUME InQ(w, x) PROVE InQ(r, x)
    <3>1. PICK i \in 1 .. m : w[i] = x
      BY <2>3 DEF InQ, m
    <3> QED
      BY <1>1, <1>3, <3>1 DEF InQ
  <2> QED
    BY <2>1, <2>2, <2>3
<1>6. Distinct(r)
  <2> SUFFICES ASSUME NEW i \in 1 .. n + m, NEW j \in 1 .. n + m, r[i] = r[j] PROVE i = j
    BY <1>1 DEF Distinct
  <2>1. CASE i \in 1 .. n /\ j \in 1 .. n
    BY <1>2, <2>1 DEF Distinct, n
  <2>2. CASE i \in 1 .. n /\ j - n \in 1 .. m /\ r[j] = w[j - n]
    BY <1>2, <2>2 DEF InQ, n, m
  <2>3. CASE j \in 1 .. n /\ i - n \in 1 .. m /\ r[i] = w[i - n]
    BY <1>2, <2>3 DEF InQ, n, m
  <2>4. CASE i - n \in 1 .. m /\ r[i] = w[i - n] /\ j - n \in 1 .. m /\ r[j] = w[j - n]
    <3>1. i - n = j - n
      BY <2>4 DEF Distinct, m
    <3> QED
      BY <1>1, <3>1
  <2> QED
    BY <1>4, <2>1, <2>2, <2>3, <2>4
<1>7. ASSUME NEW x, NEW y, InQ(q, y) PROVE Before(r, x, y) <=> Before(q, x, y)
  <2>1. ASSUME Before(q, x, y) PROVE Before(r, x, y)
    BY <1>1, <1>2, <2>1 DEF Before, n
  <2>2. ASSUME Before(r, x, y) PROVE Before(q, x, y)
    <3>1. PICK i, j \in 1 .. n + m : i < j /\ r[i] = x /\ r[j] = y
      BY <1>1, <2>2 DEF Before
    <3>2. ~(j - n \in 1 .. m /\ r[j] = w[j - n])
      BY <1>7, <3>1 DEF InQ, m
    <3>3. j \in 1 .. n /\ i \in 1 .. n
      BY <1>1, <1>4, <3>1, <3>2
    <3>4. q[i] = x /\ q[j] = y
      BY <1>2, <3>1, <3>3
    <3> QED
      BY <3>1, <3>3, <3>4 DEF Before, n
  <2> QED
    BY <2>1, <2>2
<1> QED
  BY <1>1, <1>5, <1>6, <1>7 DEF r

LEMMA OneOrder ==
    ASSUME NEW S, NEW c \in S
    PROVE  <<c>> \in Seq(S) /\ Distinct(<<c>>) /\ (\A x : InQ(<<c>>, x) <=> x = c)
<1> DEFINE w == <<c>>
<1>1. w \in Seq(S) /\ Len(w) = 1 /\ w[1] = c
  OBVIOUS
<1> HIDE DEF w
<1>2. Distinct(w) /\ (\A x : InQ(w, x) <=> x = c)
  BY <1>1 DEF Distinct, InQ
<1> QED
  BY <1>1, <1>2 DEF w

\* SetToSeq lists a finite set, every member once.
LEMMA SetOrder ==
    ASSUME NEW S, NEW T \in SUBSET S, IsFiniteSet(T)
    PROVE  /\ SetToSeq(T) \in Seq(S) /\ Distinct(SetToSeq(T))
           /\ \A x : InQ(SetToSeq(T), x) <=> x \in T
<1> DEFINE n == Cardinality(T)
           w == SetToSeq(T)
<1>1. n \in Nat /\ ExistsBijection(1 .. n, T)
  BY FS_CardinalityType
<1>2. PICK f \in Bijection(1 .. n, T) : TRUE
  BY <1>1 DEF ExistsBijection
<1>3. f \in [1 .. n -> T] /\ IsInjective(f)
  BY <1>2 DEF Bijection, Injection, IsInjective
<1>4. w \in [1 .. n -> T] /\ IsInjective(w)
  BY <1>3 DEF SetToSeq
<1> HIDE DEF w
<1>5. w \in Surjection(1 .. n, T)
  <2>1. w \in Injection(1 .. n, T)
    BY <1>4 DEF Injection, IsInjective
  <2>2. IsFiniteSet(1 .. n) /\ Cardinality(1 .. n) = n
    BY <1>1, FS_Interval
  <2> QED
    BY <2>1, <2>2, FS_Injection
<1>6. w \in Seq(S) /\ Len(w) = n
  BY <1>1, <1>4
<1>7. Distinct(w)
  BY <1>4, <1>6 DEF Distinct, IsInjective
<1>8. ASSUME NEW x PROVE InQ(w, x) <=> x \in T
  BY <1>4, <1>5, <1>6 DEF InQ, Surjection
<1> QED
  BY <1>6, <1>7, <1>8 DEF w

\* From q to r: those in D, at most the first, have gone, and those in W come after the rest.
Turns(q, r, D, W) ==
    /\ r \in Seq(Callers) /\ Distinct(r)
    /\ \A x : InQ(r, x) <=> (InQ(q, x) /\ x \notin D) \/ x \in W
    /\ \A x, y : x \notin D /\ y \notin D /\ InQ(q, y) => (Before(r, x, y) <=> Before(q, x, y))
    /\ \A x \in D : \A y : (InQ(q, y) /\ y # x => Before(q, x, y)) /\ ~Before(q, y, x)

Ordered(q) == q \in Seq(Callers) /\ Distinct(q)

LEMMA TurnsNot ==
    ASSUME NEW q, Ordered(q)
    PROVE  Turns(q, q, {}, {})
BY DEF Turns, Ordered

LEMMA TurnsOne ==
    ASSUME NEW q, Ordered(q), q # <<>>
    PROVE  Turns(q, Tail(q), {Head(q)}, {})
<1>1. q \in Seq(Callers) /\ Distinct(q)
  BY DEF Ordered
<1> DEFINE r == Tail(q)
           h == Head(q)
<1>2. /\ r \in Seq(Callers) /\ Distinct(r)
      /\ \A x : InQ(r, x) <=> InQ(q, x) /\ x # h
      /\ \A x, y : x # h => (Before(r, x, y) <=> Before(q, x, y))
      /\ \A x : ~Before(q, x, h)
      /\ \A x : InQ(q, x) /\ x # h => Before(q, h, x)
  BY <1>1, TailOrder
<1> HIDE DEF r, h
<1> QED
  BY <1>2 DEF Turns, r, h

LEMMA TurnsMore ==
    ASSUME NEW q, NEW r, NEW D, Turns(q, r, D, {}), NEW W \in SUBSET Callers, IsFiniteSet(Requests),
           \A c \in W : ~InQ(r, c)
    PROVE  Turns(q, r \o SetToSeq(W), D, W)
<1>1. IsFiniteSet(Callers)
  BY FS_AddElement DEF Callers
<1>2. IsFiniteSet(W)
  BY <1>1, FS_Subset
<1> DEFINE w == SetToSeq(W)
<1>3. w \in Seq(Callers) /\ Distinct(w) /\ (\A x : InQ(w, x) <=> x \in W)
  BY <1>2, SetOrder
<1> HIDE DEF w
<1>4. r \in Seq(Callers) /\ Distinct(r)
  BY DEF Turns
<1>5. \A x : ~(InQ(r, x) /\ InQ(w, x))
  BY <1>3
<1>6. /\ r \o w \in Seq(Callers) /\ Distinct(r \o w)
      /\ \A x : InQ(r \o w, x) <=> InQ(r, x) \/ InQ(w, x)
      /\ \A x, y : InQ(r, y) => (Before(r \o w, x, y) <=> Before(r, x, y))
  BY <1>3, <1>4, <1>5, MoreOrder
<1> DEFINE v == r \o w
<1> HIDE DEF v
<1>7. Turns(q, v, D, W)
  BY <1>3, <1>6 DEF Turns, v
<1> QED
  BY <1>7 DEF v, w

LEMMA TurnsLast ==
    ASSUME NEW q, Ordered(q), NEW c \in Callers, ~InQ(q, c)
    PROVE  Turns(q, Append(q, c), {}, {c})
<1> DEFINE w == <<c>>
<1>1. q \in Seq(Callers) /\ Distinct(q)
  BY DEF Ordered
<1>2. w \in Seq(Callers) /\ Distinct(w) /\ (\A x : InQ(w, x) <=> x = c)
  BY OneOrder
<1>3. Append(q, c) = q \o w
  BY <1>1
<1> HIDE DEF w
<1>4. \A x : ~(InQ(q, x) /\ InQ(w, x))
  BY <1>2
<1>5. /\ q \o w \in Seq(Callers) /\ Distinct(q \o w)
      /\ \A x : InQ(q \o w, x) <=> InQ(q, x) \/ InQ(w, x)
      /\ \A x, y : InQ(q, y) => (Before(q \o w, x, y) <=> Before(q, x, y))
  BY <1>1, <1>2, <1>4, MoreOrder
<1> DEFINE v == q \o w
<1> HIDE DEF v
<1>6. Turns(q, v, {}, {c})
  BY <1>2, <1>5 DEF Turns, v
<1> QED
  BY <1>3, <1>6 DEF v

-----------------------------------------------------------------------------
(* Whose turn it is. *)

\* ready holds the tasks whose future is set, each once.
ReadyInv ==
    /\ Ordered(ready)
    /\ \A c \in Callers : InQ(ready, c) <=> call[c].fut # "none"
    /\ \A c \in Callers : call[c].fut # "none" => call[c].pc \in {"hello", "wait"}

\* One task at a time attaches, and connect() only while no request is under way.
LockInv ==
    /\ attachLock \in Callers
    /\ \A c \in Requests : call[c].pc \in {"opening", "hello"} => attachLock = c
    /\ call[Connector].pc \in {"idle", "opening", "hello"}
    /\ call[Connector].pc # "idle" => \A c \in Requests : call[c].pc \in {"idle", "done"}

TurnInv == Typed /\ ReadyInv /\ LockInv

\* A step of the client as the tasks see it: d moves, and the futures of W are set.
Shape(d, D, W) ==
    /\ Turns(ready, ready', D, W) /\ D \subseteq {d} /\ W \subseteq Waiting
    /\ \A c \in Callers : c # d /\ c \notin W => call'[c] = call[c]
    /\ \A c \in W : c # d => call'[c] = [call[c] EXCEPT !.fut = "closed"]
    /\ d \in W => call'[d].pc = call[d].pc /\ call'[d].fut # "none"
    /\ d \notin W => \/ call'[d] = call[d] /\ d \notin D
                     \/ call'[d].fut = "none" /\ (d \in D \/ call[d].fut = "none")

LEMMA ShapeReady ==
    ASSUME TurnInv, NEW d \in Callers, NEW D, NEW W, Shape(d, D, W)
    PROVE  ReadyInv'
<1>1. Ordered(ready)' /\ W \subseteq Callers
  BY DEF Shape, Turns, Ordered, Waiting
<1>2. ASSUME NEW c \in Callers
      PROVE  /\ InQ(ready', c) <=> call'[c].fut # "none"
             /\ call'[c].fut # "none" => call'[c].pc \in {"hello", "wait"}
  <2>1. InQ(ready', c) <=> (call[c].fut # "none" /\ c \notin D) \/ c \in W
    BY DEF Shape, Turns, TurnInv, ReadyInv
  <2>2. c \in W => call[c].fut = "none" /\ call[c].pc \in {"hello", "wait"}
    BY DEF Shape, Waiting
  <2>3. call[c].fut # "none" => call[c].pc \in {"hello", "wait"}
    BY DEF TurnInv, ReadyInv
  <2>4. CASE c # d /\ c \notin W
    BY <2>1, <2>3, <2>4 DEF Shape
  <2>5. CASE c # d /\ c \in W
    <3>1. call'[c] = [call[c] EXCEPT !.fut = "closed"] /\ call[c] \in Task
      BY <2>5 DEF Shape, TurnInv, Typed
    <3>2. call'[c].fut = "closed" /\ call'[c].pc = call[c].pc
      BY <3>1 DEF Task
    <3> QED
      BY <2>1, <2>2, <2>5, <3>2
  <2>6. CASE c = d
    BY <2>1, <2>2, <2>3, <2>6 DEF Shape
  <2> QED
    BY <2>4, <2>5, <2>6
<1> QED
  BY <1>1, <1>2 DEF ReadyInv

\* What a step means for the lock.
Locks(d) ==
    /\ attachLock' \in Callers
    /\ attachLock' # attachLock => attachLock = d \/ (attachLock = Connector /\ attachLock' = d)
    /\ d \in Requests => /\ call'[d].pc \in {"opening", "hello"} => attachLock' = d
                         /\ call[Connector].pc = "idle"
    /\ d = Connector => /\ call'[d].pc \in {"idle", "opening", "hello"}
                        /\ call'[d].pc # "idle" => \A c \in Requests : call[c].pc \in {"idle", "done"}

LEMMA ShapeLock ==
    ASSUME TurnInv, NEW d \in Callers, NEW D, NEW W, Shape(d, D, W), Locks(d)
    PROVE  LockInv'
<1>0. Connector \in Callers /\ Requests \subseteq Callers /\ Connector \notin Requests
      /\ Callers = Requests \cup {Connector}
  BY DEF Callers
<1>1. ASSUME NEW c \in Callers, c # d PROVE call'[c].pc = call[c].pc
  <2>1. call[c] \in Task
    BY DEF TurnInv, Typed
  <2>2. call'[c] = call[c] \/ call'[c] = [call[c] EXCEPT !.fut = "closed"]
    BY <1>1 DEF Shape
  <2> QED
    BY <2>1, <2>2 DEF Task
<1>2. ASSUME NEW c \in Requests, call'[c].pc \in {"opening", "hello"} PROVE attachLock' = c
  <2>1. CASE c = d
    BY <1>2, <2>1 DEF Locks
  <2>2. CASE c # d
    <3>1. attachLock = c
      BY <1>0, <1>1, <1>2, <2>2 DEF TurnInv, LockInv
    <3> QED
      BY <1>0, <2>2, <3>1 DEF Locks
  <2> QED
    BY <2>1, <2>2
<1>3. call'[Connector].pc \in {"idle", "opening", "hello"}
  BY <1>0, <1>1 DEF Locks, TurnInv, LockInv
<1>4. ASSUME call'[Connector].pc # "idle", NEW c \in Requests PROVE call'[c].pc \in {"idle", "done"}
  <2>1. d = Connector
    BY <1>0, <1>1, <1>4 DEF Locks
  <2> QED
    BY <1>0, <1>1, <1>4, <2>1 DEF Locks
<1>5. attachLock' \in Callers
  BY DEF Locks
<1> QED
  BY <1>2, <1>3, <1>4, <1>5 DEF LockInv

\* Nobody is answered by a step of its own, and who has not ended has no outcome.
Unanswered(d) == IF call'[d].pc = "done" THEN call'[d].out # "ok" ELSE call'[d].out = call[d].out

LEMMA EndedIs ==
    ASSUME NEW t, NEW o
    PROVE  Ended(t, o).pc = "done" /\ Ended(t, o).fut = "none" /\ Ended(t, o).out = o
BY DEF Ended, Idle

LEMMA SendIs ==
    ASSUME Typed, NEW d \in Callers, Send(d, call)
    PROVE  /\ \A c \in Callers : c # d => call'[c] = call[c]
           /\ call'[d].pc \in {"wait", "want", "done"} /\ call'[d].fut = "none" /\ Unanswered(d)
<1>0. call \in [Callers -> Task] /\ call[d] \in Task
  BY DEF Typed
<1>1. \A c \in Callers : c # d => call'[c] = call[c]
  BY <1>0 DEF Send
<1>2. \/ call'[d] = Sent(call[d])
      \/ call'[d] = [call[d] EXCEPT !.pc = "want", !.fut = "none", !.again = TRUE]
      \/ call'[d] = Ended(call[d], "closed")
  BY <1>0 DEF Send
<1>3. Sent(call[d]).pc = "wait" /\ Sent(call[d]).fut = "none" /\ Sent(call[d]).out = call[d].out
  BY <1>0 DEF Sent, Task
<1> DEFINE t == [call[d] EXCEPT !.pc = "want", !.fut = "none", !.again = TRUE]
<1>4. t.pc = "want" /\ t.fut = "none" /\ t.out = call[d].out
  BY <1>0 DEF Task
<1> HIDE DEF t
<1>5. call'[d] = Sent(call[d]) \/ call'[d] = t \/ call'[d] = Ended(call[d], "closed")
  BY <1>2 DEF t
<1> QED
  BY <1>1, <1>3, <1>4, <1>5, EndedIs DEF Unanswered

\* A request that starts, or finds the lock free.
LEMMA IssueShape ==
    ASSUME TurnInv, NEW d \in Callers, Issue(d) \/ Reattach(d)
    PROVE  /\ d \in Requests /\ Shape(d, {}, {}) /\ Locks(d) /\ Unanswered(d)
           /\ call[d].pc \in {"idle", "want"} /\ call[d].fut = "none" /\ call'[d].fut = "none"
           /\ call'[d].pc \in {"wait", "want", "opening", "done"}
           /\ UNCHANGED <<ready, reader, sock, opened, reattaches, connects, cut, known, outbox, hubVars>>
<1>0. call \in [Callers -> Task] /\ call[d] \in Task /\ Typed
  BY DEF Typed, TurnInv
<1>1. d \in Requests /\ call[d].pc \in {"idle", "want"} /\ call[Connector].pc = "idle"
  BY DEF Issue, Reattach, TurnInv, LockInv, Callers
<1>2. UNCHANGED <<ready, reader, sock, opened, reattaches, connects, cut, known, outbox, hubVars>>
  BY DEF Issue, Reattach
<1>3. call[d].fut = "none"
  BY <1>1 DEF TurnInv, ReadyInv
<1>4. \/ call' = [call EXCEPT ![d] = Ended(@, "notconnected")] /\ attachLock' = attachLock
      \/ call' = [call EXCEPT ![d].pc = "want"] /\ attachLock' = attachLock
      \/ call' = [call EXCEPT ![d].pc = "opening"] /\ attachLock = Connector /\ attachLock' = d
      \/ Send(d, call) /\ attachLock' = attachLock
  BY DEF Issue, Reattach
<1>5. /\ \A c \in Callers : c # d => call'[c] = call[c]
      /\ call'[d].pc \in {"wait", "want", "opening", "done"} /\ call'[d].fut = "none" /\ Unanswered(d)
      /\ IF call'[d].pc = "opening" THEN attachLock = Connector /\ attachLock' = d
                                    ELSE attachLock' = attachLock
  <2>1. CASE call' = [call EXCEPT ![d] = Ended(@, "notconnected")] /\ attachLock' = attachLock
    <3>1. call'[d] = Ended(call[d], "notconnected")
      BY <1>0, <2>1
    <3> QED
      BY <1>0, <2>1, <3>1, EndedIs DEF Unanswered
  <2>2. CASE call' = [call EXCEPT ![d].pc = "want"] /\ attachLock' = attachLock
    <3>1. call'[d].pc = "want" /\ call'[d].fut = "none" /\ call'[d].out = call[d].out
      BY <1>0, <1>3, <2>2 DEF Task
    <3> QED
      BY <1>0, <2>2, <3>1 DEF Unanswered
  <2>3. CASE call' = [call EXCEPT ![d].pc = "opening"] /\ attachLock = Connector /\ attachLock' = d
    <3>1. call'[d].pc = "opening" /\ call'[d].fut = "none" /\ call'[d].out = call[d].out
      BY <1>0, <1>3, <2>3 DEF Task
    <3> QED
      BY <1>0, <2>3, <3>1 DEF Unanswered
  <2>4. CASE Send(d, call) /\ attachLock' = attachLock
    <3>1. call'[d].pc # "opening"
      BY <1>0, <2>4, SendIs
    <3> QED
      BY <1>0, <2>4, <3>1, SendIs
  <2> QED
    BY <1>4, <2>1, <2>2, <2>3, <2>4
<1>6. Shape(d, {}, {})
  <2>1. Turns(ready, ready', {}, {})
    BY <1>2, TurnsNot DEF TurnInv, ReadyInv
  <2> QED
    BY <1>3, <1>5, <2>1 DEF Shape
<1>7. Locks(d)
  <2>1. d # Connector
    BY <1>1
  <2>2. attachLock' \in Callers
    BY <1>5 DEF TurnInv, LockInv
  <2>3. call'[d].pc # "hello"
    BY <1>5
  <2> QED
    BY <1>1, <1>5, <2>1, <2>2, <2>3 DEF Locks
<1> QED
  BY <1>1, <1>2, <1>3, <1>5, <1>6, <1>7

\* Failed, for a request: another attempt, or none.
LEMMA FailedIs ==
    ASSUME NEW d \in Callers, NEW t \in Task
    PROVE  /\ Failed(d, t).fut = "none"
           /\ d = Connector => Failed(d, t).pc = "idle" /\ Failed(d, t).out = t.out
           /\ d # Connector => \/ Failed(d, t).pc = "opening" /\ Failed(d, t).out = t.out
                               \/ Failed(d, t).pc = "done" /\ Failed(d, t).out = "notconnected"
<1>1. CASE d = Connector
  <2>1. Failed(d, t) = [t EXCEPT !.pc = "idle", !.fut = "none"]
    BY <1>1 DEF Failed
  <2> QED
    BY <1>1, <2>1 DEF Task
<1>2. CASE d # Connector /\ t.tries + 1 < Attempts
  <2>1. Failed(d, t) = [t EXCEPT !.pc = "opening", !.fut = "none", !.tries = @ + 1]
    BY <1>2 DEF Failed, Retry
  <2> QED
    BY <1>2, <2>1 DEF Task
<1>3. CASE d # Connector /\ ~(t.tries + 1 < Attempts)
  <2>1. Failed(d, t) = Ended(t, "notconnected")
    BY <1>3 DEF Failed, Retry
  <2> QED
    BY <1>3, <2>1, EndedIs
<1> QED
  BY <1>1, <1>2, <1>3

\* When a task of the client lets the lock go, nobody else had it.
LEMMA LetsGo ==
    ASSUME TurnInv, NEW d \in Callers, call[d].pc \in {"opening", "hello"},
           d \in Requests => attachLock' = LockAfter(d, Failed(d, call[d])),
           d = Connector => attachLock' = attachLock,
           call'[d].pc = Failed(d, call[d]).pc
    PROVE  Locks(d)
<1>0. call[d] \in Task /\ (d = Connector \/ d \in Requests) /\ Connector \notin Requests
  BY DEF TurnInv, Typed, Callers
<1>1. CASE d = Connector
  BY <1>0, <1>1, FailedIs DEF Locks, TurnInv, LockInv
<1>2. CASE d \in Requests
  <2>1. attachLock = d /\ call[Connector].pc = "idle" /\ d # Connector
    BY <1>0, <1>2 DEF TurnInv, LockInv
  <2>2. \/ call'[d].pc = "opening" /\ attachLock' = d
        \/ call'[d].pc = "done" /\ attachLock' = Connector
    BY <1>0, <1>2, <2>1, FailedIs DEF LockAfter
  <2> QED
    BY <1>2, <2>1, <2>2 DEF Locks, Callers
<1> QED
  BY <1>0, <1>1, <1>2

LEMMA NotReady ==
    ASSUME TurnInv, NEW W \in SUBSET Waiting
    PROVE  W \in SUBSET Callers /\ \A c \in W : ~InQ(ready, c)
BY DEF TurnInv, ReadyInv, Waiting

LEMMA DoomedWait == \A d \in Callers : Doomed(d) \subseteq Waiting /\ d \notin Doomed(d)
BY DEF Doomed

\* Whoever resumes first was the first.
LEMMA ResumedTurns ==
    ASSUME TurnInv, NEW d \in Callers
    PROVE  Turns(ready, Resumed(d), IF MyTurn(d) THEN {d} ELSE {}, {})
<1>1. Ordered(ready)
  BY DEF TurnInv, ReadyInv
<1>2. CASE MyTurn(d)
  BY <1>1, <1>2, TurnsOne DEF MyTurn, Resumed
<1>3. CASE ~MyTurn(d)
  BY <1>1, <1>3, TurnsNot DEF Resumed
<1> QED
  BY <1>2, <1>3

LEMMA FirstIsReady ==
    ASSUME TurnInv, NEW d \in Callers, MyTurn(d)
    PROVE  call[d].fut # "none" /\ InQ(ready, d)
<1>1. ready \in Seq(Callers) /\ ready # <<>> /\ ready[1] = d
  BY DEF TurnInv, ReadyInv, Ordered, MyTurn
<1>2. 1 \in 1 .. Len(ready)
  BY <1>1
<1>3. InQ(ready, d)
  BY <1>1, <1>2 DEF InQ
<1> QED
  BY <1>3 DEF TurnInv, ReadyInv

\* A failed hello, or a socket that cannot be opened, and those who waited with it.
LEMMA FailShape ==
    ASSUME TurnInv, NEW d \in Callers, NEW D, NEW W \in SUBSET Waiting, d \notin W,
           Turns(ready, ready', D, W), D = {} \/ D = {d}, d \in D \/ call[d].fut = "none",
           \A c \in Callers : c # d => call'[c] = IF c \in W THEN [call[c] EXCEPT !.fut = "closed"]
                                                            ELSE call[c],
           call'[d].fut = "none"
    PROVE  Shape(d, D, W)
<1>1. W \subseteq Callers
  BY DEF Waiting
<1> QED
  BY <1>1 DEF Shape

LEMMA OpenShape ==
    ASSUME TurnInv, NEW d \in Callers, OpenSocket(d)
    PROVE  /\ Shape(d, {}, Doomed(d)) /\ Locks(d) /\ Unanswered(d)
           /\ call[d].pc = "opening" /\ call[d].fut = "none" /\ call'[d].fut = "none"
           /\ \/ /\ opened' = opened + 1 /\ sock' = opened' /\ reader' /\ opened' \in Sockets
                 /\ inbox' = [inbox EXCEPT ![opened'] = <<[who |-> d, n |-> call[d].n + 1, hello |-> TRUE]>>]
                 /\ serverEnd' = [serverEnd EXCEPT ![opened'] = TRUE]
                 /\ call'[d].pc = "hello" /\ call'[d].n = call[d].n + 1
              \/ /\ sock' = 0 /\ ~reader' /\ opened' = opened /\ UNCHANGED <<inbox, serverEnd>>
                 /\ call'[d].pc # "hello" /\ (d = Connector => call'[d].pc = "idle")
           /\ UNCHANGED <<reattaches, connects, cut, known, outbox, hubVars>>
<1>0. call \in [Callers -> Task] /\ call[d] \in Task /\ Typed
  BY DEF Typed, TurnInv
<1>1. /\ call[d].pc = "opening" /\ UNCHANGED <<reattaches, connects, cut, known, outbox, hubVars>>
      /\ ready' = ready \o SetToSeq(Doomed(d))
  BY DEF OpenSocket
<1>2. call[d].fut = "none"
  BY <1>1 DEF TurnInv, ReadyInv
<1>3. Turns(ready, ready', {}, Doomed(d))
  <2>1. Turns(ready, ready, {}, {}) /\ IsFiniteSet(Requests)
    BY TurnsNot DEF TurnInv, ReadyInv
  <2>2. Doomed(d) \in SUBSET Callers /\ \A c \in Doomed(d) : ~InQ(ready, c)
    BY DoomedWait, NotReady
  <2> QED
    BY <1>1, <2>1, <2>2, TurnsMore
<1> DEFINE failing == [x \in Callers |-> IF x \in Doomed(d)
                                 THEN [call[x] EXCEPT !.fut = "closed"] ELSE call[x]]
<1>4. \/ /\ opened < MaxSockets /\ opened' = opened + 1 /\ sock' = opened' /\ reader' = TRUE
         /\ inbox' = [inbox EXCEPT ![opened'] = <<[who |-> d, n |-> call[d].n + 1, hello |-> TRUE]>>]
         /\ serverEnd' = [serverEnd EXCEPT ![opened'] = TRUE]
         /\ call' = [failing EXCEPT ![d] = Greeting(@)] /\ attachLock' = attachLock
      \/ /\ sock' = 0 /\ reader' = FALSE /\ UNCHANGED <<opened, inbox, serverEnd>>
         /\ call' = [failing EXCEPT ![d] = Failed(d, @)]
         /\ attachLock' = LockAfter(d, Failed(d, call[d]))
  BY DEF OpenSocket
<1>5. failing[d] = call[d] /\ (\A c \in Callers : failing[c] = IF c \in Doomed(d)
                                 THEN [call[c] EXCEPT !.fut = "closed"] ELSE call[c])
  BY DoomedWait
<1> HIDE DEF failing
<1>6. DOMAIN failing = Callers
  BY DEF failing
<1>7. \A c \in Callers : c # d => call'[c] = IF c \in Doomed(d)
                                            THEN [call[c] EXCEPT !.fut = "closed"] ELSE call[c]
  BY <1>4, <1>5, <1>6
<1>8. CASE /\ opened < MaxSockets /\ opened' = opened + 1 /\ sock' = opened' /\ reader' = TRUE
           /\ inbox' = [inbox EXCEPT ![opened'] = <<[who |-> d, n |-> call[d].n + 1, hello |-> TRUE]>>]
           /\ serverEnd' = [serverEnd EXCEPT ![opened'] = TRUE]
           /\ call' = [failing EXCEPT ![d] = Greeting(@)] /\ attachLock' = attachLock
  <2>1. call'[d] = Greeting(call[d])
    BY <1>5, <1>6, <1>8
  <2>2. /\ call'[d].pc = "hello" /\ call'[d].n = call[d].n + 1 /\ call'[d].fut = "none"
        /\ call'[d].out = call[d].out
    BY <1>0, <2>1 DEF Greeting, Task
  <2>3. Shape(d, {}, Doomed(d))
    BY <1>2, <1>3, <1>7, <2>2, DoomedWait, FailShape
  <2>4. Locks(d)
    BY <1>1, <1>8, <2>2 DEF Locks, TurnInv, LockInv, Callers
  <2>5. opened' \in Sockets
    BY <1>0, <1>8 DEF Typed, Sockets
  <2> QED
    BY <1>1, <1>2, <1>8, <2>2, <2>3, <2>4, <2>5 DEF Unanswered
<1>9. CASE /\ sock' = 0 /\ reader' = FALSE /\ UNCHANGED <<opened, inbox, serverEnd>>
           /\ call' = [failing EXCEPT ![d] = Failed(d, @)]
           /\ attachLock' = LockAfter(d, Failed(d, call[d]))
  <2>1. call'[d] = Failed(d, call[d])
    BY <1>5, <1>6, <1>9
  <2>2. call'[d].fut = "none" /\ call'[d].pc # "hello" /\ Unanswered(d)
        /\ (d = Connector => call'[d].pc = "idle")
    BY <1>0, <2>1, FailedIs DEF Unanswered
  <2>3. Shape(d, {}, Doomed(d))
    BY <1>2, <1>3, <1>7, <2>2, DoomedWait, FailShape
  <2>4. d = Connector => attachLock' = attachLock
    BY <1>0, <1>9, FailedIs DEF LockAfter
  <2>5. Locks(d)
    BY <1>1, <1>9, <2>1, <2>4, LetsGo
  <2> QED
    BY <1>1, <1>2, <1>9, <2>2, <2>3, <2>5
<1> QED
  BY <1>4, <1>8, <1>9

LEMMA HelloFailsShape ==
    ASSUME TurnInv, NEW d \in Callers, HelloFails(d)
    PROVE  /\ \E D, W : Shape(d, D, W)
           /\ Locks(d) /\ Unanswered(d)
           /\ call[d].pc = "hello" /\ call[d].fut # "ok" /\ call'[d].fut = "none"
           /\ call'[d].pc # "hello" /\ (d = Connector => call'[d].pc = "idle")
           /\ IF d = Connector THEN UNCHANGED <<sock, reader>> /\ \A c \in Requests : call'[c] = call[c]
                               ELSE sock' = 0 /\ ~reader'
           /\ UNCHANGED <<reattaches, opened, serverEnd, inbox, connects, cut, known, outbox, hubVars>>
<1>0. call \in [Callers -> Task] /\ call[d] \in Task /\ Typed
  BY DEF Typed, TurnInv
<1>1. /\ call[d].pc = "hello" /\ call[d].fut # "ok"
      /\ UNCHANGED <<reattaches, opened, serverEnd, inbox, connects, cut, known, outbox, hubVars>>
      /\ call[d].fut # "none" => MyTurn(d)
  BY DEF HelloFails
<1> DEFINE D == IF MyTurn(d) THEN {d} ELSE {}
<1>2. Turns(ready, Resumed(d), D, {})
  BY ResumedTurns
<1>3. d \in D \/ call[d].fut = "none"
  BY <1>1
<1>4. D = {} \/ D = {d}
  OBVIOUS
<1> HIDE DEF D
<1>5. CASE d = Connector
  <2>1. /\ ready' = Resumed(d) /\ UNCHANGED <<sock, reader, attachLock>>
        /\ call' = [call EXCEPT ![d] = Failed(d, @)]
    BY <1>5 DEF HelloFails
  <2>2. call'[d] = Failed(d, call[d]) /\ \A c \in Callers : c # d => call'[c] = call[c]
    BY <1>0, <2>1
  <2>3. call'[d].fut = "none" /\ call'[d].pc = "idle" /\ call'[d].out = call[d].out
    BY <1>0, <1>5, <2>2, FailedIs
  <2>4. Shape(d, D, {})
    BY <1>2, <1>3, <1>4, <2>1, <2>2, <2>3 DEF Shape
  <2>5. d \notin Requests
    BY <1>5
  <2>6. Locks(d)
    BY <1>1, <2>1, <2>2, <2>5, LetsGo
  <2>7. Unanswered(d) /\ \A c \in Requests : call'[c] = call[c]
    BY <2>2, <2>3, <2>5 DEF Unanswered, Callers
  <2> QED
    BY <1>1, <1>5, <2>1, <2>3, <2>4, <2>6, <2>7
<1>6. CASE d # Connector
  <2>1. /\ ready' = Resumed(d) \o SetToSeq(Doomed(d)) /\ sock' = 0 /\ reader' = FALSE
        /\ attachLock' = LockAfter(d, Failed(d, call[d]))
        /\ call' = [x \in Callers |-> IF x = d THEN Failed(d, call[d])
                                 ELSE IF x \in Doomed(d) THEN [call[x] EXCEPT !.fut = "closed"]
                                 ELSE call[x]]
    BY <1>6 DEF HelloFails
  <2>2. /\ call'[d] = Failed(d, call[d])
        /\ \A c \in Callers : c # d => call'[c] = IF c \in Doomed(d)
                                            THEN [call[c] EXCEPT !.fut = "closed"] ELSE call[c]
    BY <2>1
  <2>3. call'[d].fut = "none" /\ call'[d].pc # "hello" /\ Unanswered(d)
    BY <1>0, <1>6, <2>2, FailedIs DEF Unanswered
  <2>4. Turns(ready, ready', D, Doomed(d))
    <3>1. Doomed(d) \in SUBSET Callers /\ \A c \in Doomed(d) : ~InQ(ready, c)
      BY DoomedWait, NotReady
    <3>2. \A c \in Doomed(d) : ~InQ(Resumed(d), c)
      BY <1>2, <3>1 DEF Turns
    <3> QED
      BY <1>2, <2>1, <3>1, <3>2, TurnsMore
  <2>5. Shape(d, D, Doomed(d))
    BY <1>3, <1>4, <2>2, <2>3, <2>4, DoomedWait, FailShape
  <2>6. Locks(d)
    BY <1>1, <1>6, <2>1, <2>2, LetsGo
  <2> QED
    BY <1>1, <1>6, <2>1, <2>3, <2>5, <2>6
<1> QED
  BY <1>5, <1>6

LEMMA HelloAnsweredShape ==
    ASSUME TurnInv, NEW d \in Callers, HelloAnswered(d)
    PROVE  /\ Shape(d, {d}, {}) /\ Locks(d) /\ Unanswered(d)
           /\ call[d].pc = "hello" /\ call[d].fut = "ok" /\ call'[d].fut = "none"
           /\ call'[d].pc # "hello" /\ (d = Connector => call'[d].pc = "idle")
           /\ reattaches' = IF d = Connector THEN reattaches ELSE reattaches + 1
           /\ UNCHANGED <<sock, reader, opened, connects, cut, outbox, hubVars>>
<1>0. call \in [Callers -> Task] /\ call[d] \in Task /\ Typed /\ Connector \notin Requests
  BY DEF Typed, TurnInv
<1>1. /\ call[d].pc = "hello" /\ call[d].fut = "ok" /\ MyTurn(d) /\ ready' = Resumed(d)
      /\ UNCHANGED <<sock, reader, opened, connects, cut, outbox, hubVars>>
  BY DEF HelloAnswered
<1>2. Turns(ready, ready', {d}, {})
  BY <1>1, ResumedTurns
<1>3. /\ \A c \in Callers : c # d => call'[c] = call[c]
      /\ call'[d].fut = "none" /\ Unanswered(d) /\ call'[d].pc \notin {"hello", "opening"}
      /\ d = Connector => call'[d].pc = "idle" /\ attachLock' = attachLock /\ reattaches' = reattaches
      /\ d # Connector => attachLock' = Connector /\ reattaches' = reattaches + 1
  <2>1. CASE d = Connector
    <3> DEFINE t == [call[d] EXCEPT !.pc = "idle", !.fut = "none"]
    <3>1. /\ call' = [call EXCEPT ![d] = t] /\ attachLock' = attachLock /\ reattaches' = reattaches
      BY <2>1 DEF HelloAnswered
    <3>2. t.pc = "idle" /\ t.fut = "none" /\ t.out = call[d].out
      BY <1>0 DEF Task
    <3> HIDE DEF t
    <3>3. call'[d] = t /\ \A c \in Callers : c # d => call'[c] = call[c]
      BY <1>0, <3>1
    <3> QED
      BY <2>1, <3>1, <3>2, <3>3 DEF Unanswered
  <2>2. CASE d # Connector
    <3>1. /\ attachLock' = Connector /\ reattaches' = reattaches + 1
          /\ call' = [call EXCEPT ![d] = Ended(@, "notconnected")] \/ Send(d, call)
      BY <2>2 DEF HelloAnswered, Counted
    <3>2. CASE call' = [call EXCEPT ![d] = Ended(@, "notconnected")]
      <4>1. call'[d] = Ended(call[d], "notconnected") /\ \A c \in Callers : c # d => call'[c] = call[c]
        BY <1>0, <3>2
      <4> QED
        BY <2>2, <3>1, <4>1, EndedIs DEF Unanswered
    <3>3. CASE Send(d, call)
      <4>1. call'[d].pc \notin {"hello", "opening"}
        BY <1>0, <3>3, SendIs
      <4> QED
        BY <1>0, <2>2, <3>1, <3>3, <4>1, SendIs
    <3> QED
      BY <3>1, <3>2, <3>3
  <2> QED
    BY <2>1, <2>2
<1>4. Shape(d, {d}, {})
  BY <1>2, <1>3 DEF Shape
<1>5. Locks(d)
  <2>1. CASE d = Connector
    BY <1>0, <1>3, <2>1 DEF Locks, TurnInv, LockInv
  <2>2. CASE d # Connector
    <3>1. d \in Requests /\ attachLock = d /\ call[Connector].pc = "idle"
      BY <1>1, <2>2 DEF TurnInv, LockInv, Callers
    <3>2. attachLock' = Connector
      BY <1>3, <2>2
    <3> QED
      BY <1>3, <2>2, <3>1, <3>2 DEF Locks, Callers
  <2> QED
    BY <2>1, <2>2
<1> QED
  BY <1>1, <1>3, <1>4, <1>5

LEMMA ReturnShape ==
    ASSUME TurnInv, NEW d \in Callers, Return(d)
    PROVE  /\ d \in Requests /\ Shape(d, {d}, {}) /\ Locks(d)
           /\ call[d].pc = "wait" /\ call[d].fut # "none" /\ call'[d].fut = "none"
           /\ call'[d].pc \in {"want", "done"}
           /\ IF call'[d].pc = "done"
              THEN call'[d].out = call[d].fut /\ call'[d].on = call[d].on /\ call'[d].seen = reattaches
              ELSE call'[d].out = call[d].out
           /\ UNCHANGED <<sock, reader, opened, reattaches, connects, cut, known, inbox, serverEnd,
                          outbox, hubVars>>
<1>0. call \in [Callers -> Task] /\ call[d] \in Task /\ Typed
  BY DEF Typed, TurnInv
<1>1. /\ call[d].pc = "wait" /\ MyTurn(d) /\ ready' = Resumed(d) /\ attachLock' = attachLock
      /\ UNCHANGED <<sock, reader, opened, reattaches, connects, cut, known, inbox, serverEnd, outbox, hubVars>>
  BY DEF Return
<1>2. Turns(ready, ready', {d}, {}) /\ call[d].fut # "none"
  BY <1>1, ResumedTurns, FirstIsReady
<1>3. d # Connector
  BY <1>1 DEF TurnInv, LockInv
<1>4. d \in Requests
  BY <1>3 DEF Callers
<1>5. /\ \A c \in Callers : c # d => call'[c] = call[c]
      /\ call'[d].fut = "none" /\ call'[d].pc \in {"want", "done"}
      /\ IF call'[d].pc = "done"
         THEN call'[d].out = call[d].fut /\ call'[d].on = call[d].on /\ call'[d].seen = reattaches
         ELSE call'[d].out = call[d].out
  <2>1. CASE call[d].fut = "closed" /\ d \in Reads /\ ~call[d].again
    <3> DEFINE t == [call[d] EXCEPT !.pc = "want", !.fut = "none", !.again = TRUE]
    <3>1. call' = [call EXCEPT ![d] = t]
      BY <2>1 DEF Return
    <3>2. t.pc = "want" /\ t.fut = "none" /\ t.out = call[d].out
      BY <1>0 DEF Task
    <3> HIDE DEF t
    <3>3. call'[d] = t /\ \A c \in Callers : c # d => call'[c] = call[c]
      BY <1>0, <3>1
    <3> QED
      BY <3>2, <3>3
  <2>2. CASE ~(call[d].fut = "closed" /\ d \in Reads /\ ~call[d].again)
    <3> DEFINE e == Ended(call[d], call[d].fut)
               t == [e EXCEPT !.on = call[d].on, !.seen = reattaches]
    <3>1. call' = [call EXCEPT ![d] = t]
      BY <2>2 DEF Return
    <3>2. e.pc = "done" /\ e.fut = "none" /\ e.out = call[d].fut /\ e \in Task
      <4>1. call[d].fut \in Outcomes
        BY <1>0, TaskFields
      <4> QED
        BY <4>1, EndedIs, EndedType
    <3> HIDE DEF e
    <3>3. t.pc = "done" /\ t.fut = "none" /\ t.out = call[d].fut /\ t.on = call[d].on /\ t.seen = reattaches
      BY <3>2 DEF Task
    <3> HIDE DEF t
    <3>4. call'[d] = t /\ \A c \in Callers : c # d => call'[c] = call[c]
      BY <1>0, <3>1
    <3> QED
      BY <3>3, <3>4
  <2> QED
    BY <2>1, <2>2
<1>6. Shape(d, {d}, {})
  BY <1>2, <1>5 DEF Shape
<1>7. Locks(d)
  BY <1>1, <1>3, <1>5 DEF Locks, TurnInv, LockInv
<1> QED
  BY <1>1, <1>2, <1>4, <1>5, <1>6, <1>7

LEMMA GivesUpShape ==
    ASSUME TurnInv, NEW d \in Callers, TimeOut(d) \/ Cancel(d)
    PROVE  /\ d \in Requests /\ Shape(d, {}, {}) /\ Locks(d) /\ Unanswered(d)
           /\ call[d].fut = "none" /\ call'[d].fut = "none" /\ call'[d].pc = "done"
           /\ call[d].pc = "hello" => cut'
           /\ cut => cut'
           /\ call[d].pc \notin {"idle", "done"}
           /\ UNCHANGED <<sock, reader, opened, reattaches, connects, known, inbox, serverEnd, outbox, hubVars>>
<1>0. call \in [Callers -> Task] /\ call[d] \in Task /\ Typed
  BY DEF Typed, TurnInv
<1>1. /\ call[d].fut = "none" /\ (call[d].pc = "hello" => cut') /\ (cut => cut')
      /\ call[d].pc \in {"want", "opening", "hello", "wait"}
      /\ ready' = ready /\ (attachLock' = attachLock \/ (attachLock = d /\ attachLock' = Connector))
      /\ UNCHANGED <<sock, reader, opened, reattaches, connects, known, inbox, serverEnd, outbox, hubVars>>
      /\ \E o \in {"timeout", "cancelled"} : call' = [call EXCEPT ![d] = Ended(@, o)]
  <2>1. CASE TimeOut(d)
    <3>1. /\ call[d].fut = "none" /\ call[d].pc = "wait" /\ ready' = ready /\ attachLock' = attachLock
          /\ call' = [call EXCEPT ![d] = Ended(@, "timeout")]
          /\ UNCHANGED <<sock, reader, opened, reattaches, connects, known, inbox, serverEnd, outbox, hubVars>>
      BY <2>1 DEF TimeOut
    <3>2. cut' = cut
      BY <2>1 DEF TimeOut
    <3> QED
      BY <3>1, <3>2
  <2>2. CASE Cancel(d)
    <3>1. /\ call[d].fut = "none" /\ call[d].pc \in {"want", "opening", "hello", "wait"} /\ ready' = ready
          /\ attachLock' = IF attachLock = d THEN Connector ELSE attachLock
          /\ call' = [call EXCEPT ![d] = Ended(@, "cancelled")]
          /\ UNCHANGED <<sock, reader, opened, reattaches, connects, known, inbox, serverEnd, outbox, hubVars>>
      BY <2>2 DEF Cancel
    <3>2. cut' = (cut \/ call[d].pc = "hello")
      BY <2>2 DEF Cancel
    <3>3. (call[d].pc = "hello" => cut') /\ (cut => cut')
      BY ONLY <3>2
    <3> QED
      BY <3>1, <3>3
  <2> QED
    BY <2>1, <2>2
<1>2. Turns(ready, ready', {}, {})
  BY <1>1, TurnsNot DEF TurnInv, ReadyInv
<1>3. d \in Requests
  <2>1. TimeOut(d) => d # Connector
    BY DEF TurnInv, LockInv, TimeOut
  <2>2. Cancel(d) => d \in Impatient
    BY DEF Cancel
  <2> QED
    BY <2>1, <2>2 DEF Callers
<1>4. /\ \A c \in Callers : c # d => call'[c] = call[c]
      /\ call'[d].fut = "none" /\ call'[d].pc = "done" /\ Unanswered(d)
  <2>1. PICK o \in {"timeout", "cancelled"} : call' = [call EXCEPT ![d] = Ended(@, o)]
    BY <1>1
  <2>2. call'[d] = Ended(call[d], o) /\ \A c \in Callers : c # d => call'[c] = call[c]
    BY <1>0, <2>1
  <2> QED
    BY <2>2, EndedIs DEF Unanswered
<1>5. Shape(d, {}, {})
  BY <1>1, <1>2, <1>4 DEF Shape
<1>6. Locks(d)
  <2>1. d # Connector /\ call[Connector].pc = "idle"
    BY <1>1, <1>3 DEF TurnInv, LockInv
  <2> QED
    BY <1>1, <1>4, <2>1 DEF Locks, TurnInv, LockInv, Callers
<1> QED
  BY <1>1, <1>3, <1>4, <1>5, <1>6

LEMMA ConnectShape ==
    ASSUME TurnInv, Connect
    PROVE  /\ Shape(Connector, {}, {}) /\ Locks(Connector)
           /\ call[Connector].pc = "idle" /\ call'[Connector].pc = "opening" /\ call'[Connector].fut = "none"
           /\ \A c \in Requests : call[c].pc \in {"idle", "done"} /\ call'[c] = call[c]
           /\ connects' = connects + 1
           /\ UNCHANGED <<sock, reader, opened, reattaches, cut, known, inbox, serverEnd, outbox, hubVars>>
<1>0. /\ call \in [Callers -> Task] /\ call[Connector] \in Task
      /\ Connector \in Callers /\ Connector \notin Requests
  BY DEF Typed, TurnInv, Callers
<1>1. /\ call[Connector].pc = "idle" /\ connects' = connects + 1 /\ ready' = ready /\ attachLock' = attachLock
      /\ \A c \in Requests : call[c].pc \in {"idle", "done"}
      /\ call' = [call EXCEPT ![Connector].pc = "opening"]
      /\ UNCHANGED <<sock, reader, opened, reattaches, cut, known, inbox, serverEnd, outbox, hubVars>>
  BY DEF Connect
<1>2. call[Connector].fut = "none"
  BY <1>0, <1>1 DEF TurnInv, ReadyInv
<1>3. /\ call'[Connector].pc = "opening" /\ call'[Connector].fut = "none"
      /\ \A c \in Callers : c # Connector => call'[c] = call[c]
  BY <1>0, <1>1, <1>2 DEF Task
<1>4. Turns(ready, ready', {}, {})
  BY <1>1, TurnsNot DEF TurnInv, ReadyInv
<1>5. Shape(Connector, {}, {})
  BY <1>2, <1>3, <1>4 DEF Shape
<1>6. Locks(Connector)
  BY <1>0, <1>1, <1>3 DEF Locks, TurnInv, LockInv
<1>7. \A c \in Requests : call'[c] = call[c]
  BY <1>0, <1>3 DEF Callers
<1> QED
  BY <1>1, <1>3, <1>5, <1>6, <1>7

LEMMA ReaderGoesShape ==
    ASSUME TurnInv, Close \/ ReaderEnds
    PROVE  /\ \E W : Shape(Connector, {}, W) /\ Locks(Connector)
           /\ ~reader' /\ sock' \in {0, sock}
           /\ \A c \in Callers : call'[c].pc = call[c].pc
           /\ \A c \in Callers : call[c].fut # "none" => call'[c] = call[c]
           /\ UNCHANGED <<opened, reattaches, connects, cut, known, inbox, serverEnd, outbox, hubVars>>
<1>0. call \in [Callers -> Task] /\ Connector \in Callers
  BY DEF Typed, TurnInv, Callers
<1>1. /\ reader' = FALSE /\ sock' \in {0, sock} /\ attachLock' = attachLock
      /\ FailAll(Waiting) \/ UNCHANGED <<call, ready>>
      /\ UNCHANGED <<opened, reattaches, connects, cut, known, inbox, serverEnd, outbox, hubVars>>
  BY DEF Close, ReaderEnds
<1>2. PICK W \in {Waiting, {}} :
          /\ Turns(ready, ready', {}, W)
          /\ \A c \in Callers : call'[c] = IF c \in W THEN [call[c] EXCEPT !.fut = "closed"] ELSE call[c]
  <2>1. CASE FailAll(Waiting)
    <3>1. ready' = ready \o SetToSeq(Waiting)
          /\ \A c \in Callers : call'[c] = IF c \in Waiting THEN [call[c] EXCEPT !.fut = "closed"] ELSE call[c]
      BY <2>1 DEF FailAll
    <3>2. Turns(ready, ready, {}, {}) /\ IsFiniteSet(Requests)
      BY TurnsNot DEF TurnInv, ReadyInv
    <3>3. Waiting \in SUBSET Callers /\ \A c \in Waiting : ~InQ(ready, c)
      BY NotReady
    <3>4. Turns(ready, ready', {}, Waiting)
      BY <3>1, <3>2, <3>3, TurnsMore
    <3> QED
      BY <3>1, <3>4
  <2>2. CASE UNCHANGED <<call, ready>>
    <3>1. Turns(ready, ready', {}, {})
      BY <2>2, TurnsNot DEF TurnInv, ReadyInv
    <3> QED
      BY <2>2, <3>1
  <2> QED
    BY <1>1, <2>1, <2>2
<1>3. W \subseteq Waiting /\ W \subseteq Callers
  BY DEF Waiting
<1>4. ASSUME NEW c \in Callers
      PROVE  /\ call'[c].pc = call[c].pc /\ (call[c].fut # "none" => call'[c] = call[c])
             /\ c \in W => call'[c].fut = "closed"
  <2>1. call[c] \in Task /\ (c \in W => call[c].fut = "none")
    BY <1>0, <1>3 DEF Waiting
  <2> QED
    BY <1>2, <2>1 DEF Task
<1>5. Shape(Connector, {}, W)
  BY <1>0, <1>2, <1>3, <1>4 DEF Shape
<1>6. Locks(Connector)
  BY <1>0, <1>1, <1>4 DEF Locks, TurnInv, LockInv
<1> QED
  BY <1>1, <1>4, <1>5, <1>6

LEMMA DeliverShape ==
    ASSUME TurnInv, Deliver
    PROVE  /\ sock \in Sockets /\ reader /\ outbox[sock] # <<>> /\ Head(outbox[sock]).who \in Callers
           /\ Head(outbox[sock]).res \in {"ok", "error", "refused"}
           /\ outbox' = [outbox EXCEPT ![sock] = Tail(@)]
           /\ LET r == Head(outbox[sock])
                  c == r.who
              IN IF c \in Waiting /\ call[c].n = r.n
                 THEN /\ Shape(c, {}, {c}) /\ Locks(c)
                      /\ call'[c].pc = call[c].pc /\ call'[c].fut = r.res /\ call'[c].on = sock
                      /\ call'[c].n = call[c].n /\ call'[c].out = call[c].out
                 ELSE UNCHANGED <<call, ready, attachLock>>
           /\ UNCHANGED <<sock, reader, opened, reattaches, connects, cut, known, inbox, serverEnd, hubVars>>
<1>0. call \in [Callers -> Task] /\ Typed
  BY DEF Typed, TurnInv
<1>1. /\ sock \in Sockets /\ reader /\ outbox[sock] # <<>> /\ outbox[sock] \in Seq(Replies)
      /\ outbox' = [outbox EXCEPT ![sock] = Tail(@)] /\ attachLock' = attachLock
      /\ UNCHANGED <<sock, reader, opened, reattaches, connects, cut, known, inbox, serverEnd, hubVars>>
  BY <1>0 DEF Deliver, Typed, Sockets
<1> DEFINE r == Head(outbox[sock])
<1>2. /\ r \in Replies
      /\ IF r.who \in Waiting /\ call[r.who].n = r.n
         THEN /\ call' = [call EXCEPT ![r.who] = [@ EXCEPT !.fut = r.res, !.on = sock]]
              /\ ready' = Append(ready, r.who)
         ELSE UNCHANGED <<call, ready>>
  BY <1>1 DEF Deliver
<1> HIDE DEF r
<1>3. r.who \in Callers /\ r.res \in {"ok", "error", "refused"}
  BY <1>2 DEF Replies
<1>4. ASSUME r.who \in Waiting /\ call[r.who].n = r.n
      PROVE  /\ Shape(r.who, {}, {r.who}) /\ Locks(r.who)
             /\ call'[r.who].pc = call[r.who].pc /\ call'[r.who].fut = r.res /\ call'[r.who].on = sock
             /\ call'[r.who].n = call[r.who].n /\ call'[r.who].out = call[r.who].out
  <2>1. call[r.who] \in Task
    BY <1>0, <1>3
  <2> DEFINE t == [call[r.who] EXCEPT !.fut = r.res, !.on = sock]
  <2>2. /\ t.pc = call[r.who].pc /\ t.fut = r.res /\ t.on = sock /\ t.n = call[r.who].n
        /\ t.out = call[r.who].out
    BY <2>1 DEF Task
  <2>3. call' = [call EXCEPT ![r.who] = t] /\ ready' = Append(ready, r.who)
    BY <1>2, <1>4
  <2> HIDE DEF t
  <2>4. call'[r.who] = t /\ \A c \in Callers : c # r.who => call'[c] = call[c]
    BY <1>0, <1>3, <2>3
  <2>5. ~InQ(ready, r.who)
    BY <1>3, <1>4 DEF Waiting, TurnInv, ReadyInv
  <2>6. Turns(ready, ready', {}, {r.who})
    BY <1>3, <2>3, <2>5, TurnsLast DEF TurnInv, ReadyInv
  <2>7. Shape(r.who, {}, {r.who})
    BY <1>3, <1>4, <2>2, <2>4, <2>6 DEF Shape
  <2>8. Locks(r.who)
    <3>1. call[r.who].pc \in {"hello", "wait"}
      BY <1>4 DEF Waiting
    <3>2. r.who \in Requests => call[Connector].pc = "idle"
      BY <3>1 DEF TurnInv, LockInv
    <3> QED
      BY <1>1, <2>2, <2>4, <3>1, <3>2 DEF Locks, TurnInv, LockInv
  <2> QED
    BY <2>2, <2>4, <2>7, <2>8
<1> QED
  BY <1>1, <1>2, <1>3, <1>4 DEF r

LEMMA TurnInit == Init => TurnInv
<1> SUFFICES ASSUME Init PROVE TurnInv
  OBVIOUS
<1>1. \A c \in Callers : call[c].pc = "idle" /\ call[c].fut = "none"
  BY DEF Init, Idle
<1>2. ready = <<>> /\ attachLock = Connector
  BY DEF Init
<1>3. Ordered(ready) /\ \A c \in Callers : ~InQ(ready, c)
  BY <1>2 DEF Ordered, Distinct, InQ
<1> QED
  BY <1>1, <1>2, <1>3, TypedInit DEF TurnInv, ReadyInv, LockInv, Callers

HubStep ==
    \/ \E s \in Sockets : Hello(s) \/ Dispatch(s) \/ HandlerEnds(s)
    \/ \E t \in serving : Finish(t[1], t[2])
    \/ HubStops \/ HubStarts

LEMMA HubStepLeaves == HubStep => UNCHANGED <<clientVars, opened>>
BY DEF HubStep, Hello, Dispatch, HandlerEnds, Finish, HubStops, HubStarts

LEMMA TurnStep == TurnInv /\ [Next]_vars => TurnInv'
<1> SUFFICES ASSUME TurnInv, [Next]_vars PROVE TurnInv'
  OBVIOUS
<1>0. Typed'
  BY TypedStep DEF TurnInv
<1>1. CASE UNCHANGED <<call, ready, attachLock>>
  BY <1>0, <1>1 DEF TurnInv, ReadyInv, LockInv
<1>2. CASE \E d \in Callers : \E D, W : Shape(d, D, W) /\ Locks(d)
  BY <1>0, <1>2, ShapeReady, ShapeLock DEF TurnInv
<1>3. ASSUME NEW d \in Callers, Step(d) \/ Cancel(d) PROVE TurnInv'
  <2>1. \E D, W : Shape(d, D, W) /\ Locks(d)
    BY <1>3, IssueShape, OpenShape, HelloFailsShape, HelloAnsweredShape, ReturnShape, GivesUpShape
       DEF Step
  <2> QED
    BY <1>2, <2>1
<1>4. CASE Connect \/ Close \/ ReaderEnds
  <2>1. Connector \in Callers
    BY DEF Callers
  <2>2. \E D, W : Shape(Connector, D, W) /\ Locks(Connector)
    BY <1>4, ConnectShape, ReaderGoesShape
  <2> QED
    BY <1>2, <2>1, <2>2
<1>5. CASE Deliver
  BY <1>1, <1>2, <1>5, DeliverShape
<1>6. CASE HubStep \/ UNCHANGED vars
  BY <1>1, <1>6, HubStepLeaves DEF vars, clientVars
<1> QED
  BY <1>3, <1>4, <1>5, <1>6 DEF Next, HubStep

(* What the hub makes of a hello. *)

\* Frames that are no hello, and replies that grant nothing.
Plain == {f \in Frames : ~f.hello}
Denials == {r \in Replies : r.res # "ok"}

Unserved(s) == \A t \in serving : t[1] # s

\* A socket that was not opened yet.
Blank(s) == ~cid[s] /\ inbox[s] = <<>> /\ outbox[s] = <<>> /\ ~serverEnd[s] /\ Unserved(s)

\* A hello is the first frame of its socket, if it is there at all.
HelloInv ==
    /\ sock \in {0, opened}
    /\ \A s \in Sockets : s > opened => Blank(s)
    /\ \A s \in Sockets : inbox[s] # <<>> => Tail(inbox[s]) \in Seq(Plain)

\* A step of the client on the sockets it has: at most one more frame, no hello.
Speaks ==
    /\ UNCHANGED <<opened, serverEnd, cid, serving>>
    /\ sock' \in {0, sock} /\ (reader' => reader /\ sock' = sock)
    /\ \/ inbox' = inbox
       \/ sock # 0 /\ \E f \in Plain : inbox' = [inbox EXCEPT ![sock] = Append(@, f)]

LEMMA TailOfOne == ASSUME NEW S, NEW f PROVE Tail(<<f>>) \in Seq(S)
<1>1. Tail(<<f>>) = <<>> /\ <<>> \in Seq(S)
  OBVIOUS
<1> QED
  BY <1>1

LEMMA OneMoreOf == ASSUME NEW S, NEW q \in Seq(S), NEW f \in S PROVE Append(q, f) \in Seq(S)
OBVIOUS

LEMMA SendSpeaks ==
    ASSUME Typed, NEW d \in Callers, Send(d, call)
    PROVE  inbox' = inbox \/ \E f \in Plain : inbox' = [inbox EXCEPT ![sock] = Append(@, f)]
<1>1. Frame(d) \in Frames
  BY FrameType DEF Frame
<1>2. ~Frame(d).hello
  BY DEF Frame
<1> QED
  BY <1>1, <1>2 DEF Send, Plain

LEMMA ClientSpeaks ==
    ASSUME Typed,
           \/ \E c \in Callers : \/ Issue(c) \/ Reattach(c) \/ HelloFails(c) \/ HelloAnswered(c)
                                 \/ Return(c) \/ TimeOut(c) \/ Cancel(c)
           \/ Connect \/ Close \/ ReaderEnds
    PROVE  Speaks /\ outbox' = outbox
<1>1. ASSUME NEW c \in Callers, Issue(c) \/ Reattach(c) \/ HelloAnswered(c)
      PROVE Speaks /\ outbox' = outbox
  <2>1. UNCHANGED <<opened, serverEnd, cid, serving, sock, reader, outbox>>
    BY <1>1 DEF Issue, Reattach, HelloAnswered, hubVars
  <2>2. inbox' = inbox \/ (sock # 0 /\ Send(c, call))
    BY <1>1 DEF Issue, Reattach, HelloAnswered, Attached
  <2> QED
    BY <2>1, <2>2, SendSpeaks DEF Speaks
<1>2. ASSUME NEW c \in Callers, HelloFails(c) \/ Return(c) \/ TimeOut(c) \/ Cancel(c)
      PROVE Speaks /\ outbox' = outbox
  <2>1. UNCHANGED <<opened, serverEnd, cid, serving, inbox, outbox>>
    BY <1>2 DEF HelloFails, Return, TimeOut, Cancel, hubVars
  <2>2. sock' \in {0, sock} /\ (reader' => reader /\ sock' = sock)
    <3>1. CASE HelloFails(c)
      <4>1. (UNCHANGED <<sock, reader>>) \/ (sock' = 0 /\ reader' = FALSE)
        BY <3>1 DEF HelloFails
      <4> QED
        BY <4>1
    <3>2. CASE Return(c) \/ TimeOut(c) \/ Cancel(c)
      <4>1. UNCHANGED <<sock, reader>>
        BY <3>2 DEF Return, TimeOut, Cancel
      <4> QED
        BY <4>1
    <3> QED
      BY <1>2, <3>1, <3>2
  <2> QED
    BY <2>1, <2>2 DEF Speaks
<1>3. CASE Connect \/ Close \/ ReaderEnds
  <2>1. UNCHANGED <<opened, serverEnd, cid, serving, inbox, outbox>>
    BY <1>3 DEF Connect, Close, ReaderEnds, hubVars
  <2>2. sock' \in {0, sock} /\ (reader' => reader /\ sock' = sock)
    BY <1>3 DEF Connect, Close, ReaderEnds
  <2> QED
    BY <2>1, <2>2 DEF Speaks
<1> QED
  BY <1>1, <1>2, <1>3

LEMMA DeliverSpeaks == ASSUME Deliver PROVE Speaks /\ outbox' = [outbox EXCEPT ![sock] = Tail(@)]
BY DEF Deliver, Speaks, hubVars

LEMMA SpeaksKeeps ==
    ASSUME Typed, HelloInv, Speaks,
           outbox' = outbox \/ (sock # 0 /\ outbox' = [outbox EXCEPT ![sock] = Tail(@)])
    PROVE  HelloInv'
<1>0. /\ inbox \in [Sockets -> Seq(Frames)] /\ outbox \in [Sockets -> Seq(Replies)]
      /\ sock \in {0, opened} /\ opened \in 0 .. MaxSockets /\ opened' = opened
  BY DEF Typed, HelloInv, Speaks
<1>1. sock' \in {0, opened'}
  BY <1>0 DEF Speaks
<1>2. ASSUME NEW s \in Sockets, s > opened' PROVE Blank(s)'
  <2>1. Blank(s) /\ s # sock
    BY <1>0, <1>2 DEF HelloInv, Sockets
  <2>2. inbox'[s] = inbox[s] /\ outbox'[s] = outbox[s]
    BY <1>0, <2>1 DEF Speaks
  <2> QED
    BY <2>1, <2>2 DEF Blank, Speaks, Unserved
<1>3. ASSUME NEW s \in Sockets, inbox'[s] # <<>> PROVE Tail(inbox'[s]) \in Seq(Plain)
  <2>1. CASE inbox'[s] = inbox[s]
    BY <1>3, <2>1 DEF HelloInv
  <2>2. CASE \E f \in Plain : inbox'[s] = Append(inbox[s], f)
    <3>1. PICK f \in Plain : inbox'[s] = Append(inbox[s], f)
      BY <2>2
    <3>2. inbox[s] \in Seq(Frames) /\ f \in Frames
      BY <1>0 DEF Plain
    <3>3. CASE inbox[s] = <<>>
      <4>1. inbox'[s] = <<f>>
        BY <3>1, <3>3
      <4> QED
        BY <4>1, TailOfOne
    <3>4. CASE inbox[s] # <<>>
      <4>1. Tail(inbox'[s]) = Append(Tail(inbox[s]), f)
        BY <3>1, <3>2, <3>4
      <4>2. Tail(inbox[s]) \in Seq(Plain)
        BY <3>4 DEF HelloInv
      <4>3. Append(Tail(inbox[s]), f) \in Seq(Plain)
        BY <4>2, OneMoreOf
      <4> QED
        BY <4>1, <4>3
    <3> QED
      BY <3>3, <3>4
  <2>3. inbox'[s] = inbox[s] \/ \E f \in Plain : inbox'[s] = Append(inbox[s], f)
    BY <1>0 DEF Speaks
  <2> QED
    BY <2>1, <2>2, <2>3
<1> QED
  BY <1>1, <1>2, <1>3 DEF HelloInv

LEMMA OpenKeeps ==
    ASSUME TurnInv, HelloInv, NEW d \in Callers, OpenSocket(d)
    PROVE  /\ HelloInv'
           /\ \A s \in Sockets : s <= opened => inbox'[s] = inbox[s] /\ serverEnd'[s] = serverEnd[s]
           /\ UNCHANGED <<cid, serving, outbox>>
<1>0. /\ inbox \in [Sockets -> Seq(Frames)] /\ outbox \in [Sockets -> Seq(Replies)]
      /\ serverEnd \in [Sockets -> BOOLEAN]
      /\ sock \in {0, opened} /\ opened \in 0 .. MaxSockets /\ call[d] \in Task
  BY DEF TurnInv, Typed, HelloInv
<1>1. UNCHANGED <<cid, serving, outbox>>
  BY DEF OpenSocket, hubVars
<1> DEFINE f == [who |-> d, n |-> call[d].n + 1, hello |-> TRUE]
<1>2. CASE sock' = 0 /\ opened' = opened /\ UNCHANGED <<inbox, serverEnd>>
  BY <1>1, <1>2 DEF HelloInv, Blank, Unserved
<1>3. CASE /\ opened' = opened + 1 /\ sock' = opened' /\ opened' \in Sockets
           /\ inbox' = [inbox EXCEPT ![opened'] = <<f>>]
           /\ serverEnd' = [serverEnd EXCEPT ![opened'] = TRUE]
  <2> HIDE DEF f
  <2>1. \A s \in Sockets : s # opened' => inbox'[s] = inbox[s] /\ serverEnd'[s] = serverEnd[s]
    BY <1>0, <1>3
  <2>2. inbox'[opened'] = <<f>>
    BY <1>0, <1>3
  <2>3. ASSUME NEW s \in Sockets, s > opened' PROVE Blank(s)'
    <3>1. s > opened /\ s # opened'
      BY <1>0, <1>3, <2>3 DEF Sockets
    <3> QED
      BY <1>1, <2>1, <3>1 DEF HelloInv, Blank, Unserved
  <2>4. ASSUME NEW s \in Sockets, inbox'[s] # <<>> PROVE Tail(inbox'[s]) \in Seq(Plain)
    <3>1. CASE s = opened'
      BY <2>2, <3>1, TailOfOne
    <3>2. CASE s # opened'
      BY <2>1, <2>4, <3>2 DEF HelloInv
    <3> QED
      BY <3>1, <3>2
  <2>5. \A s \in Sockets : s <= opened => s # opened'
    BY <1>0, <1>3 DEF Sockets
  <2> QED
    BY <1>1, <1>3, <2>1, <2>3, <2>4, <2>5 DEF HelloInv
<1> QED
  BY <1>2, <1>3, <1>1, OpenShape

\* A socket whose hello was turned away, and which will grant nothing.
Rejected(s) == ~cid[s] /\ Unserved(s) /\ inbox[s] \in Seq(Plain) /\ outbox[s] \in Seq(Denials)

\* What one reply does to the queues of replies.
LEMMA ReplyAt ==
    ASSUME Typed, NEW s \in Sockets, NEW f \in Frames, NEW res \in {"ok", "error", "refused"},
           Reply(s, f, res)
    PROVE  /\ \A u \in Sockets : u # s => outbox'[u] = outbox[u]
           /\ ~serverEnd[s] => outbox' = outbox
           /\ serverEnd[s] => \E r \in Replies : /\ r.who = f.who /\ r.n = f.n /\ r.res = res
                                                 /\ outbox'[s] = Append(outbox[s], r)
<1> DEFINE r == [who |-> f.who, n |-> f.n, res |-> res]
<1>1. r \in Replies /\ r.who = f.who /\ r.n = f.n /\ r.res = res
  BY DEF Frames, Replies
<1>2. outbox' = IF serverEnd[s] THEN [outbox EXCEPT ![s] = Append(@, r)] ELSE outbox
  BY DEF Reply
<1> HIDE DEF r
<1> QED
  BY <1>1, <1>2 DEF Typed

LEMMA PlainHead == ASSUME NEW q \in Seq(Plain), q # <<>> PROVE ~Head(q).hello /\ Tail(q) \in Seq(Plain)
<1>1. Head(q) \in Plain /\ Tail(q) \in Seq(Plain)
  OBVIOUS
<1> QED
  BY <1>1 DEF Plain

\* A hub action on one socket, as the sockets see it.
At(s) ==
    /\ \A u \in Sockets : u # s => /\ inbox'[u] = inbox[u] /\ outbox'[u] = outbox[u]
                                   /\ serverEnd'[u] = serverEnd[u] /\ cid'[u] = cid[u]
    /\ \A t \in serving' : t \in serving \/ t[1] = s
    /\ opened' = opened

LEMMA AnswersAt ==
    ASSUME Typed, NEW s \in Sockets, Hello(s) \/ Dispatch(s)
    PROVE  /\ At(s) /\ inbox[s] # <<>> /\ inbox'[s] = Tail(inbox[s])
           /\ Head(inbox[s]) \in Frames /\ serverEnd' = serverEnd
<1>0. /\ inbox \in [Sockets -> Seq(Frames)] /\ outbox \in [Sockets -> Seq(Replies)]
      /\ cid \in [Sockets -> BOOLEAN]
  BY DEF Typed
<1>1. inbox[s] # <<>> /\ inbox' = [inbox EXCEPT ![s] = Tail(@)] /\ UNCHANGED <<opened, serverEnd>>
  BY DEF Hello, Dispatch
<1>2. Head(inbox[s]) \in Frames
  BY <1>0, <1>1
<1>3. \A u \in Sockets : u # s => outbox'[u] = outbox[u]
  <2>1. outbox' = outbox \/ \E res \in {"ok", "error", "refused"} : Reply(s, Head(inbox[s]), res)
    BY DEF Hello, Dispatch
  <2> QED
    BY <1>2, <2>1, ReplyAt
<1>4. \A u \in Sockets : u # s => cid'[u] = cid[u]
  BY <1>0 DEF Hello, Dispatch
<1>5. \A t \in serving' : t \in serving \/ t[1] = s
  BY DEF Hello, Dispatch
<1> QED
  BY <1>0, <1>1, <1>2, <1>3, <1>4, <1>5 DEF At

LEMMA FinishAt ==
    ASSUME Typed, NEW t \in serving, Finish(t[1], t[2])
    PROVE  /\ t[1] \in Sockets /\ t[2] \in Frames /\ At(t[1]) /\ UNCHANGED <<inbox, serverEnd, cid>>
           /\ \E res \in {"ok", "error", "refused"} : Reply(t[1], t[2], res)
<1>0. t[1] \in Sockets /\ t[2] \in Frames
  BY DEF Typed
<1>1. /\ UNCHANGED <<opened, inbox, serverEnd, cid>> /\ serving' \subseteq serving
      /\ \E res \in {"ok", "error"} : Reply(t[1], t[2], res)
  BY DEF Finish
<1>2. \E res \in {"ok", "error", "refused"} : Reply(t[1], t[2], res)
  BY <1>1
<1>3. \A u \in Sockets : u # t[1] => outbox'[u] = outbox[u]
  BY <1>0, <1>2, ReplyAt
<1> QED
  BY <1>0, <1>1, <1>2, <1>3 DEF At

LEMMA HandlerAt ==
    ASSUME Typed, NEW s \in Sockets, HandlerEnds(s)
    PROVE  /\ At(s) /\ serverEnd[s] /\ ~serverEnd'[s] /\ outbox'[s] = <<>>
           /\ UNCHANGED <<inbox, cid, serving>>
BY DEF HandlerEnds, Typed, At

LEMMA AtKeepsBlank ==
    ASSUME NEW s \in Sockets, At(s), NEW u \in Sockets, u # s, Blank(u)
    PROVE  Blank(u)'
BY DEF At, Blank, Unserved

LEMMA HubKeepsHello ==
    ASSUME Typed, HelloInv, HubStep
    PROVE  HelloInv'
<1>0. UNCHANGED <<sock, opened>>
  BY HubStepLeaves DEF clientVars
<1>1. ASSUME NEW s \in Sockets, At(s), ~Blank(s),
             inbox' = inbox \/ (inbox[s] # <<>> /\ inbox'[s] = Tail(inbox[s]))
      PROVE  HelloInv'
  <2>1. \A u \in Sockets : u > opened' => Blank(u)'
    BY <1>0, <1>1, AtKeepsBlank DEF HelloInv
  <2>2. ASSUME NEW u \in Sockets, inbox'[u] # <<>> PROVE Tail(inbox'[u]) \in Seq(Plain)
    <3>1. CASE inbox'[u] = inbox[u]
      BY <2>2, <3>1 DEF HelloInv
    <3>2. CASE u = s /\ inbox[s] # <<>> /\ inbox'[s] = Tail(inbox[s])
      <4>1. Tail(inbox[s]) \in Seq(Plain)
        BY <3>2 DEF HelloInv
      <4> QED
        BY <2>2, <3>2, <4>1, PlainHead
    <3> QED
      BY <1>1, <3>1, <3>2 DEF At
  <2> QED
    BY <1>0, <2>1, <2>2 DEF HelloInv
<1>2. ASSUME NEW s \in Sockets, Hello(s) \/ Dispatch(s) PROVE HelloInv'
  <2>1. ~Blank(s)
    BY <1>2, AnswersAt DEF Blank
  <2> QED
    BY <1>1, <1>2, <2>1, AnswersAt
<1>3. ASSUME NEW s \in Sockets, HandlerEnds(s) PROVE HelloInv'
  <2>1. ~Blank(s)
    BY <1>3, HandlerAt DEF Blank
  <2> QED
    BY <1>1, <1>3, <2>1, HandlerAt
<1>4. ASSUME NEW t \in serving, Finish(t[1], t[2]) PROVE HelloInv'
  <2>1. t[1] \in Sockets /\ ~Blank(t[1])
    BY <1>4, FinishAt DEF Blank, Unserved
  <2> QED
    BY <1>1, <1>4, <2>1, FinishAt
<1>5. CASE HubStops
  <2>1. /\ serving' = {} /\ outbox' = outbox
        /\ \A s \in Sockets : ~serverEnd'[s] /\ ~cid'[s] /\ inbox'[s] = <<>>
    BY <1>5 DEF HubStops, NoSocket
  <2> QED
    BY <1>0, <2>1 DEF HelloInv, Blank, Unserved
<1>6. CASE HubStarts
  <2>1. UNCHANGED <<inbox, outbox, serverEnd, cid, serving>>
    BY <1>6 DEF HubStarts
  <2> QED
    BY <1>0, <2>1 DEF HelloInv, Blank, Unserved
<1> QED
  BY <1>2, <1>3, <1>4, <1>5, <1>6 DEF HubStep

\* Who is turned away stays so: the hub reads no hello on that socket any more.
LEMMA HubRejects ==
    ASSUME Typed, HubStep, NEW u \in Sockets, Rejected(u)
    PROVE  Rejected(u)'
<1>1. ASSUME NEW s \in Sockets, At(s), s # u PROVE Rejected(u)'
  BY <1>1 DEF At, Rejected, Unserved
<1>2. ASSUME NEW s \in Sockets, Hello(s) \/ Dispatch(s) PROVE Rejected(u)'
  <2>1. CASE s # u
    BY <1>1, <1>2, <2>1, AnswersAt
  <2>2. CASE s = u
    <3>1. /\ inbox[u] # <<>> /\ inbox'[u] = Tail(inbox[u]) /\ Head(inbox[u]) \in Frames
      BY <1>2, <2>2, AnswersAt
    <3>2. ~Head(inbox[u]).hello /\ inbox'[u] \in Seq(Plain)
      BY <3>1, PlainHead DEF Rejected
    <3>3. Dispatch(u) /\ ~Registered(u)
      BY <1>2, <2>2, <3>2 DEF Hello, Rejected, Registered
    <3>4. Reply(u, Head(inbox[u]), "refused") /\ serving' = serving /\ cid' = cid
      BY <3>3 DEF Dispatch
    <3>5. outbox'[u] \in Seq(Denials)
      <4>1. outbox' = outbox \/ \E r \in Replies : r.res = "refused" /\ outbox'[u] = Append(outbox[u], r)
        BY <3>1, <3>4, ReplyAt
      <4>2. outbox[u] \in Seq(Denials)
        BY DEF Rejected
      <4>3. ASSUME NEW r \in Replies, r.res = "refused" PROVE Append(outbox[u], r) \in Seq(Denials)
        <5>1. r \in Denials
          BY <4>3 DEF Denials
        <5> QED
          BY <4>2, <5>1, OneMoreOf
      <4> QED
        BY <4>1, <4>2, <4>3
    <3> QED
      BY <3>2, <3>4, <3>5 DEF Rejected, Unserved
  <2> QED
    BY <2>1, <2>2
<1>3. ASSUME NEW s \in Sockets, HandlerEnds(s) PROVE Rejected(u)'
  <2>1. CASE s # u
    BY <1>1, <1>3, <2>1, HandlerAt
  <2>2. CASE s = u
    <3>1. outbox'[u] = <<>> /\ UNCHANGED <<inbox, cid, serving>>
      BY <1>3, <2>2, HandlerAt
    <3> QED
      BY <3>1 DEF Rejected, Unserved
  <2> QED
    BY <2>1, <2>2
<1>4. ASSUME NEW t \in serving, Finish(t[1], t[2]) PROVE Rejected(u)'
  <2>1. t[1] # u
    BY DEF Rejected, Unserved
  <2> QED
    BY <1>1, <1>4, <2>1, FinishAt
<1>5. CASE HubStops
  <2>1. serving' = {} /\ outbox' = outbox /\ ~cid'[u] /\ inbox'[u] = <<>>
    BY <1>5 DEF HubStops, NoSocket
  <2> QED
    BY <2>1 DEF Rejected, Unserved
<1>6. CASE HubStarts
  <2>1. UNCHANGED <<inbox, outbox, cid, serving>>
    BY <1>6 DEF HubStarts
  <2> QED
    BY <2>1 DEF Rejected, Unserved
<1> QED
  BY <1>2, <1>3, <1>4, <1>5, <1>6 DEF HubStep

LEMMA OneLessOf == ASSUME NEW S, NEW q \in Seq(S), q # <<>> PROVE Tail(q) \in Seq(S)
OBVIOUS

LEMMA SpeaksRejects ==
    ASSUME Typed, Speaks, NEW u \in Sockets, Rejected(u),
           outbox'[u] = outbox[u] \/ (outbox[u] # <<>> /\ outbox'[u] = Tail(outbox[u]))
    PROVE  Rejected(u)'
<1>1. inbox'[u] = inbox[u] \/ \E f \in Plain : inbox'[u] = Append(inbox[u], f)
  BY DEF Speaks, Typed
<1>2. inbox[u] \in Seq(Plain) /\ outbox[u] \in Seq(Denials)
  BY DEF Rejected
<1>3. inbox'[u] \in Seq(Plain)
  BY <1>1, <1>2, OneMoreOf
<1>4. outbox'[u] \in Seq(Denials)
  BY <1>2, OneLessOf
<1> QED
  BY <1>3, <1>4 DEF Rejected, Unserved, Speaks

\* Those who wait for the answer to their hello hear it, or that the socket is gone.
Fresh(h, s) ==
    /\ inbox[s] # <<>>
    /\ Head(inbox[s]).who = h /\ Head(inbox[s]).n = call[h].n /\ Head(inbox[s]).hello
    /\ outbox[s] = <<>> /\ Unserved(s) /\ ~cid[s]
Gone(s) == ~serverEnd[s] /\ outbox[s] = <<>>
Granted(h, s) ==
    /\ outbox[s] # <<>>
    /\ Head(outbox[s]).who = h /\ Head(outbox[s]).n = call[h].n /\ Head(outbox[s]).res = "ok"

Hearing(h, s) == Fresh(h, s) \/ Gone(s) \/ Granted(h, s) \/ Rejected(s)

\* The two queues of a socket are each other's frames and replies: a first reply stays first.
LEMMA FirstReplyStays ==
    ASSUME NEW q \in Seq(Replies), NEW r \in Replies
    PROVE  q # <<>> => Append(q, r) # <<>> /\ Head(Append(q, r)) = Head(q)
OBVIOUS

LEMMA OnlyReply ==
    ASSUME NEW q, q = <<>>, NEW r \in Replies
    PROVE  Append(q, r) # <<>> /\ Head(Append(q, r)) = r
OBVIOUS

LEMMA ReplyHears ==
    ASSUME Typed, NEW s \in Sockets, NEW f \in Frames, NEW res \in {"ok", "error", "refused"},
           Reply(s, f, res), NEW h, call' = call
    PROVE  Granted(h, s) => Granted(h, s)'
<1> SUFFICES ASSUME Granted(h, s) PROVE Granted(h, s)'
  OBVIOUS
<1>1. outbox[s] \in Seq(Replies) /\ outbox[s] # <<>>
  BY DEF Typed, Granted
<1>2. outbox' = outbox \/ \E r \in Replies : outbox'[s] = Append(outbox[s], r)
  BY ReplyAt
<1>3. outbox'[s] # <<>> /\ Head(outbox'[s]) = Head(outbox[s])
  BY <1>1, <1>2, FirstReplyStays
<1> QED
  BY <1>3 DEF Granted

LEMMA HubHears ==
    ASSUME Typed, HelloInv, HubStep, NEW h \in Requests, NEW s \in Sockets, Hearing(h, s)
    PROVE  Hearing(h, s)'
<1>0. call' = call
  BY HubStepLeaves DEF clientVars
<1>1. CASE Rejected(s)
  BY <1>1, HubRejects DEF Hearing
<1>2. ASSUME NEW u \in Sockets, At(u), u # s PROVE Hearing(h, s)'
  BY <1>0, <1>2 DEF At, Hearing, Fresh, Gone, Granted, Rejected, Unserved
<1>3. ASSUME Hello(s), ~Rejected(s) PROVE Hearing(h, s)'
  <2>1. /\ inbox[s] # <<>> /\ inbox'[s] = Tail(inbox[s]) /\ Head(inbox[s]) \in Frames
        /\ serverEnd' = serverEnd
    BY <1>3, AnswersAt
  <2> DEFINE f == Head(inbox[s])
  <2>2. \/ Reply(s, f, "ok")
        \/ Reply(s, f, "refused") /\ cid' = cid /\ serving' = serving
    BY <1>3 DEF Hello
  <2> HIDE DEF f
  <2>3. CASE Gone(s)
    <3>1. outbox' = outbox
      BY <2>1, <2>2, <2>3, ReplyAt DEF Gone, f
    <3> QED
      BY <2>1, <2>3, <3>1 DEF Gone, Hearing
  <2>4. CASE Granted(h, s)
    BY <1>0, <2>1, <2>2, <2>4, ReplyHears DEF Hearing, f
  <2>5. CASE Fresh(h, s) /\ serverEnd[s] /\ Reply(s, f, "ok")
    <3>1. PICK r \in Replies : /\ r.who = f.who /\ r.n = f.n /\ r.res = "ok"
                               /\ outbox'[s] = Append(outbox[s], r)
      BY <2>1, <2>5, ReplyAt DEF f
    <3>2. outbox'[s] # <<>> /\ Head(outbox'[s]) = r
      BY <2>5, <3>1, OnlyReply DEF Fresh
    <3> QED
      BY <1>0, <2>5, <3>1, <3>2 DEF Fresh, Granted, Hearing, f
  <2>6. CASE Fresh(h, s) /\ serverEnd[s] /\ Reply(s, f, "refused") /\ cid' = cid /\ serving' = serving
    <3>1. PICK r \in Replies : r.res = "refused" /\ outbox'[s] = Append(outbox[s], r)
      BY <2>1, <2>6, ReplyAt DEF f
    <3>2. r \in Denials /\ outbox[s] = <<>>
      BY <2>6, <3>1 DEF Denials, Fresh
    <3>3. outbox'[s] \in Seq(Denials)
      <4>1. outbox[s] \in Seq(Denials)
        BY <3>2
      <4> QED
        BY <3>1, <3>2, <4>1, OneMoreOf
    <3>4. inbox'[s] \in Seq(Plain)
      BY <2>1 DEF HelloInv
    <3> QED
      BY <2>6, <3>3, <3>4 DEF Fresh, Rejected, Unserved, Hearing
  <2>7. CASE Fresh(h, s) /\ ~serverEnd[s]
    <3>1. Gone(s)
      BY <2>7 DEF Fresh, Gone
    <3> QED
      BY <2>3, <3>1
  <2> QED
    BY <1>3, <2>2, <2>3, <2>4, <2>5, <2>6, <2>7 DEF Hearing
<1>4. ASSUME Dispatch(s), ~Rejected(s) PROVE Hearing(h, s)'
  <2>1. /\ inbox[s] # <<>> /\ Head(inbox[s]) \in Frames /\ serverEnd' = serverEnd
    BY <1>4, AnswersAt
  <2>2. ~Fresh(h, s) /\ (outbox' = outbox \/ Reply(s, Head(inbox[s]), "refused"))
    BY <1>4 DEF Dispatch, Fresh
  <2>3. CASE Gone(s)
    <3>1. outbox' = outbox
      BY <2>1, <2>2, <2>3, ReplyAt DEF Gone
    <3> QED
      BY <2>1, <2>3, <3>1 DEF Gone, Hearing
  <2>4. CASE Granted(h, s)
    <3>1. CASE outbox' = outbox
      BY <1>0, <2>4, <3>1 DEF Granted, Hearing
    <3>2. CASE Reply(s, Head(inbox[s]), "refused")
      BY <1>0, <2>1, <2>4, <3>2, ReplyHears DEF Hearing
    <3> QED
      BY <2>2, <3>1, <3>2
  <2> QED
    BY <1>4, <2>2, <2>3, <2>4 DEF Hearing
<1>5. ASSUME HandlerEnds(s) PROVE Hearing(h, s)'
  BY <1>5, HandlerAt DEF Gone, Hearing
<1>6. ASSUME NEW t \in serving, Finish(t[1], t[2]), t[1] = s, ~Rejected(s) PROVE Hearing(h, s)'
  <2>1. ~Fresh(h, s)
    BY <1>6 DEF Fresh, Unserved
  <2>2. /\ t[2] \in Frames /\ serverEnd' = serverEnd
        /\ \E res \in {"ok", "error", "refused"} : Reply(s, t[2], res)
    BY <1>6, FinishAt
  <2>3. CASE Gone(s)
    <3>1. outbox' = outbox
      BY <2>2, <2>3, ReplyAt DEF Gone
    <3> QED
      BY <2>2, <2>3, <3>1 DEF Gone, Hearing
  <2>4. CASE Granted(h, s)
    BY <1>0, <2>2, <2>4, ReplyHears DEF Hearing
  <2> QED
    BY <1>6, <2>1, <2>3, <2>4 DEF Hearing
<1>7. CASE HubStops
  <2>1. serving' = {} /\ outbox' = outbox /\ ~serverEnd'[s]
    BY <1>7 DEF HubStops, NoSocket
  <2>2. Fresh(h, s) \/ Gone(s) => Gone(s)'
    BY <2>1 DEF Fresh, Gone
  <2>3. Granted(h, s) => Granted(h, s)'
    BY <1>0, <2>1 DEF Granted
  <2> QED
    BY <1>1, <2>2, <2>3 DEF Hearing
<1>8. CASE HubStarts
  <2>1. UNCHANGED <<inbox, outbox, cid, serving, serverEnd>>
    BY <1>8 DEF HubStarts
  <2> QED
    BY <1>0, <2>1 DEF Hearing, Fresh, Gone, Granted, Rejected, Unserved
<1> QED
  BY <1>1, <1>2, <1>3, <1>4, <1>5, <1>6, <1>7, <1>8, AnswersAt, HandlerAt, FinishAt DEF HubStep

HearInv ==
    \A h \in Requests : call[h].pc = "hello" /\ reader =>
        /\ call[h].fut = "none" => Hearing(h, sock)
        /\ call[h].fut # "none" => call[h].fut = "ok" \/ Rejected(sock)

LEMMA SpeaksHears ==
    ASSUME Typed, Speaks, outbox' = outbox, NEW h \in Requests, call'[h] = call[h],
           NEW s \in Sockets, Hearing(h, s)
    PROVE  Hearing(h, s)'
<1>1. UNCHANGED <<cid, serving, serverEnd>>
  BY DEF Speaks
<1>2. CASE Rejected(s)
  BY <1>2, SpeaksRejects DEF Hearing
<1>3. CASE Gone(s) \/ Granted(h, s)
  BY <1>1, <1>3 DEF Gone, Granted, Hearing
<1>4. CASE Fresh(h, s)
  <2>1. inbox'[s] = inbox[s] \/ \E f \in Frames : inbox'[s] = Append(inbox[s], f)
    BY DEF Speaks, Typed, Plain
  <2>2. inbox[s] \in Seq(Frames) /\ inbox[s] # <<>>
    BY <1>4 DEF Typed, Fresh
  <2>3. inbox'[s] # <<>> /\ Head(inbox'[s]) = Head(inbox[s])
    BY <2>1, <2>2, HeadStays
  <2> QED
    BY <1>1, <1>4, <2>3 DEF Fresh, Unserved, Hearing
<1> QED
  BY <1>2, <1>3, <1>4 DEF Hearing

\* Steps of the client that open no socket, and after which a reader is there.
Others ==
    \/ \E c \in Callers : \/ Issue(c) \/ Reattach(c) \/ HelloFails(c) \/ HelloAnswered(c)
                          \/ Return(c) \/ TimeOut(c) \/ Cancel(c)
    \/ Connect \/ Close \/ ReaderEnds

LEMMA OthersKeepGreeting ==
    ASSUME TurnInv, Others, reader', NEW h \in Requests, call'[h].pc = "hello"
    PROVE  call'[h] = call[h]
<1>0. h \in Callers /\ h # Connector
  BY DEF Callers
<1>1. ASSUME NEW c \in Callers, Issue(c) \/ Reattach(c) PROVE call'[h] = call[h]
  <2>1. Shape(c, {}, {}) /\ call'[c].pc # "hello"
    BY <1>1, IssueShape
  <2> QED
    BY <1>0, <2>1 DEF Shape
<1>2. ASSUME NEW c \in Callers, HelloFails(c) PROVE call'[h] = call[h]
  BY <1>2, HelloFailsShape
<1>3. ASSUME NEW c \in Callers, HelloAnswered(c) PROVE call'[h] = call[h]
  <2>1. Shape(c, {c}, {}) /\ call'[c].pc # "hello"
    BY <1>3, HelloAnsweredShape
  <2> QED
    BY <1>0, <2>1 DEF Shape
<1>4. ASSUME NEW c \in Callers, Return(c) PROVE call'[h] = call[h]
  <2>1. Shape(c, {c}, {}) /\ call'[c].pc # "hello"
    BY <1>4, ReturnShape
  <2> QED
    BY <1>0, <2>1 DEF Shape
<1>5. ASSUME NEW c \in Callers, TimeOut(c) \/ Cancel(c) PROVE call'[h] = call[h]
  <2>1. Shape(c, {}, {}) /\ call'[c].pc # "hello"
    BY <1>5, GivesUpShape
  <2> QED
    BY <1>0, <2>1 DEF Shape
<1>6. Connect => call'[h] = call[h]
  BY ConnectShape
<1>7. ~(Close \/ ReaderEnds)
  BY ReaderGoesShape
<1> QED
  BY <1>1, <1>2, <1>3, <1>4, <1>5, <1>6, <1>7 DEF Others

LEMMA HearOthers ==
    ASSUME TurnInv, HearInv, Others
    PROVE  HearInv'
<1> SUFFICES ASSUME NEW h \in Requests, call'[h].pc = "hello", reader'
             PROVE  /\ call'[h].fut = "none" => Hearing(h, sock)'
                    /\ call'[h].fut # "none" => call'[h].fut = "ok" \/ Rejected(sock)'
  BY DEF HearInv
<1>0. Typed
  BY DEF TurnInv
<1>1. call'[h] = call[h] /\ Speaks /\ outbox' = outbox
  BY <1>0, OthersKeepGreeting, ClientSpeaks DEF Others
<1>2. sock' = sock /\ reader
  BY <1>1 DEF Speaks
<1>3. sock \in Sockets
  BY <1>0, <1>2 DEF Typed, Sockets
<1>4. Hearing(h, sock) => Hearing(h, sock)'
  BY <1>0, <1>1, <1>2, <1>3, SpeaksHears
<1>5. Rejected(sock) => Rejected(sock)'
  BY <1>0, <1>1, <1>2, <1>3, SpeaksRejects
<1> QED
  BY <1>1, <1>2, <1>4, <1>5 DEF HearInv

LEMMA HearOpens ==
    ASSUME TurnInv, HelloInv, NEW d \in Callers, OpenSocket(d)
    PROVE  HearInv'
<1> SUFFICES ASSUME NEW h \in Requests, call'[h].pc = "hello", reader'
             PROVE  call'[h].fut = "none" /\ Hearing(h, sock)'
  BY DEF HearInv
<1>0. Typed /\ h \in Callers
  BY DEF TurnInv, Callers
<1>1. /\ opened' = opened + 1 /\ sock' = opened' /\ opened' \in Sockets
      /\ inbox' = [inbox EXCEPT ![opened'] = <<[who |-> d, n |-> call[d].n + 1, hello |-> TRUE]>>]
      /\ call'[d].n = call[d].n + 1 /\ call'[d].fut = "none"
  BY OpenShape
<1>2. Shape(d, {}, Doomed(d)) /\ call[d].pc = "opening"
  BY OpenShape
<1>3. h = d
  <2>1. ASSUME h # d PROVE FALSE
    <3>1. call[h].pc = "hello"
      <4>1. call[h] \in Task
        BY <1>0 DEF Typed
      <4>2. call'[h] = call[h] \/ call'[h] = [call[h] EXCEPT !.fut = "closed"]
        BY <1>0, <1>2, <2>1 DEF Shape
      <4> QED
        BY <4>1, <4>2 DEF Task
    <3> QED
      BY <1>2, <2>1, <3>1 DEF TurnInv, LockInv, Callers
  <2> QED
    BY <2>1
<1>4. PICK s \in Sockets : s = opened + 1 /\ s > opened /\ sock' = s
  BY <1>0, <1>1 DEF Typed
<1> DEFINE f == [who |-> d, n |-> call[d].n + 1, hello |-> TRUE]
<1>5. Blank(s) /\ UNCHANGED <<cid, serving, outbox>>
  BY <1>4, OpenKeeps DEF HelloInv
<1>6. f.who = d /\ f.n = call'[d].n /\ f.hello
  BY <1>1
<1>7. inbox' = [inbox EXCEPT ![s] = <<f>>]
  BY <1>1, <1>4
<1> HIDE DEF f
<1>8. inbox'[s] = <<f>>
  BY <1>0, <1>4, <1>7 DEF Typed
<1>9. inbox'[s] # <<>> /\ Head(inbox'[s]) = f
  BY <1>8
<1>10. Fresh(h, s)'
  BY <1>3, <1>5, <1>6, <1>9 DEF Fresh, Blank, Unserved
<1> QED
  BY <1>1, <1>3, <1>4, <1>10 DEF Hearing

LEMMA HearDelivers ==
    ASSUME TurnInv, HearInv, Deliver
    PROVE  HearInv'
<1> SUFFICES ASSUME NEW h \in Requests, call'[h].pc = "hello"
             PROVE  /\ call'[h].fut = "none" => Hearing(h, sock)'
                    /\ call'[h].fut # "none" => call'[h].fut = "ok" \/ Rejected(sock)'
  BY DEF HearInv
<1>0. Typed /\ h \in Callers
  BY DEF TurnInv, Callers
<1> DEFINE r == Head(outbox[sock])
<1>1. /\ sock \in Sockets /\ reader /\ outbox[sock] # <<>> /\ r.who \in Callers
      /\ outbox' = [outbox EXCEPT ![sock] = Tail(@)] /\ sock' = sock
      /\ IF r.who \in Waiting /\ call[r.who].n = r.n
         THEN /\ Shape(r.who, {}, {r.who}) /\ call'[r.who].pc = call[r.who].pc /\ call'[r.who].fut = r.res
         ELSE UNCHANGED call
  BY DeliverShape
<1>2. Speaks /\ outbox'[sock] = Tail(outbox[sock])
  BY <1>0, <1>1, DeliverSpeaks DEF Typed
<1>3. Rejected(sock) => Rejected(sock)'
  BY <1>0, <1>1, <1>2, SpeaksRejects
<1> HIDE DEF r
<1>4. ~Gone(sock) /\ ~Fresh(h, sock)
  BY <1>1 DEF Gone, Fresh
<1>5. CASE h = r.who /\ h \in Waiting /\ call[h].n = r.n
  <2>1. call[h].pc = "hello" /\ call[h].fut = "none" /\ call'[h].fut = r.res
    BY <1>1, <1>5 DEF Waiting
  <2>2. Granted(h, sock) \/ Rejected(sock)
    BY <1>1, <1>4, <2>1 DEF HearInv, Hearing
  <2>3. r.res # "none"
    BY <1>0, <1>1, DeliverShape DEF r
  <2> QED
    BY <1>3, <2>1, <2>2, <2>3 DEF Granted, r
<1>6. CASE ~(h = r.who /\ h \in Waiting /\ call[h].n = r.n)
  <2>1. call'[h] = call[h]
    BY <1>0, <1>1, <1>6 DEF Shape
  <2>2. ~(call[h].fut = "none" /\ Granted(h, sock))
    BY <1>0, <1>6, <2>1 DEF Granted, Waiting, r
  <2>3. call[h].fut = "none" => Rejected(sock)
    BY <1>1, <1>4, <2>1, <2>2 DEF HearInv, Hearing
  <2> QED
    BY <1>1, <1>3, <2>1, <2>3 DEF HearInv, Hearing
<1> QED
  BY <1>5, <1>6

LEMMA HearHub ==
    ASSUME TurnInv, HelloInv, HearInv, HubStep
    PROVE  HearInv'
<1>1. Typed /\ UNCHANGED <<call, reader, sock>>
  BY HubStepLeaves DEF TurnInv, clientVars
<1>2. reader => sock \in Sockets
  BY <1>1 DEF Typed, Sockets
<1>3. ASSUME NEW h \in Requests, reader
      PROVE  (Hearing(h, sock) => Hearing(h, sock)') /\ (Rejected(sock) => Rejected(sock)')
  <2>1. \A s \in Sockets : Hearing(h, s) => Hearing(h, s)'
    BY <1>1, HubHears
  <2>2. \A s \in Sockets : Rejected(s) => Rejected(s)'
    BY <1>1, HubRejects
  <2>3. /\ Hearing(h, sock)' <=> \E s \in Sockets : s = sock /\ Hearing(h, s)'
        /\ Rejected(sock)' <=> \E s \in Sockets : s = sock /\ Rejected(s)'
    BY <1>1, <1>2, <1>3
  <2> QED
    BY <1>2, <1>3, <2>1, <2>2, <2>3
<1> QED
  BY <1>1, <1>3 DEF HearInv

\* Who has not ended has no outcome.
OutInv == \A c \in Requests : call[c].pc # "done" => call[c].out = "none"

LEMMA ShapeSame ==
    ASSUME TurnInv, NEW d \in Callers, NEW D, NEW W, Shape(d, D, W), NEW c \in Callers, c # d
    PROVE  /\ call'[c].pc = call[c].pc /\ call'[c].out = call[c].out /\ call'[c].on = call[c].on
           /\ call'[c].seen = call[c].seen /\ call'[c].n = call[c].n
           /\ IF c \in W THEN call'[c].fut = "closed" /\ call[c].fut = "none" ELSE call'[c] = call[c]
<1>1. CASE c \in W
  <2>1. call'[c] = [call[c] EXCEPT !.fut = "closed"] /\ call[c] \in Task /\ call[c].fut = "none"
    BY <1>1 DEF Shape, TurnInv, Typed, Waiting
  <2> QED
    BY <1>1, <2>1 DEF Task
<1>2. CASE c \notin W
  BY <1>2 DEF Shape
<1> QED
  BY <1>1, <1>2

LEMMA ShapeOut ==
    ASSUME TurnInv, OutInv, NEW d \in Callers, NEW D, NEW W, Shape(d, D, W),
           d \in Requests => call[d].pc # "done" /\ (call'[d].pc = "done" \/ call'[d].out = call[d].out)
    PROVE  OutInv'
<1> SUFFICES ASSUME NEW c \in Requests, call'[c].pc # "done" PROVE call'[c].out = "none"
  BY DEF OutInv
<1>1. c \in Callers
  BY DEF Callers
<1>2. CASE c # d
  BY <1>1, <1>2, ShapeSame DEF OutInv
<1>3. CASE c = d
  BY <1>3 DEF OutInv
<1> QED
  BY <1>2, <1>3

LEMMA OutStep == TurnInv /\ OutInv /\ [Next]_vars => OutInv'
<1> SUFFICES ASSUME TurnInv, OutInv, [Next]_vars PROVE OutInv'
  OBVIOUS
<1>0. Connector \notin Requests /\ Connector \in Callers
  BY DEF Callers
<1>1. ASSUME NEW d \in Callers, Step(d) \/ Cancel(d) PROVE OutInv'
  <2>1. CASE Issue(d) \/ Reattach(d)
    BY <2>1, IssueShape, ShapeOut DEF Unanswered
  <2>2. CASE OpenSocket(d)
    BY <2>2, OpenShape, ShapeOut DEF Unanswered
  <2>3. CASE HelloFails(d)
    BY <2>3, HelloFailsShape, ShapeOut DEF Unanswered
  <2>4. CASE HelloAnswered(d)
    BY <2>4, HelloAnsweredShape, ShapeOut DEF Unanswered
  <2>5. CASE Return(d)
    BY <2>5, ReturnShape, ShapeOut
  <2>6. CASE TimeOut(d) \/ Cancel(d)
    BY <2>6, GivesUpShape, ShapeOut
  <2> QED
    BY <1>1, <2>1, <2>2, <2>3, <2>4, <2>5, <2>6 DEF Step
<1>2. CASE Connect
  BY <1>0, <1>2, ConnectShape, ShapeOut
<1>3. CASE Close \/ ReaderEnds
  BY <1>0, <1>3, ReaderGoesShape, ShapeOut
<1>4. CASE Deliver
  <2>1. \/ UNCHANGED call
        \/ \E c \in Waiting : Shape(c, {}, {c}) /\ call'[c].pc = call[c].pc /\ call'[c].out = call[c].out
    BY <1>4, DeliverShape
  <2>2. CASE UNCHANGED call
    BY <2>2 DEF OutInv
  <2>3. CASE \E c \in Waiting : Shape(c, {}, {c}) /\ call'[c].pc = call[c].pc /\ call'[c].out = call[c].out
    <3>1. \A c \in Waiting : c \in Callers /\ call[c].pc # "done"
      BY DEF Waiting
    <3> QED
      BY <2>3, <3>1, ShapeOut
  <2> QED
    BY <2>1, <2>2, <2>3
<1>5. CASE HubStep \/ UNCHANGED vars
  <2>1. call' = call
    BY <1>5, HubStepLeaves DEF vars, clientVars
  <2> QED
    BY <2>1 DEF OutInv
<1> QED
  BY <1>1, <1>2, <1>3, <1>4, <1>5 DEF Next, HubStep

\* What the client can count on of its tasks and its sockets.
ClientInv == TurnInv /\ OutInv /\ HelloInv /\ HearInv

LEMMA ClientInit == Init => ClientInv
<1> SUFFICES ASSUME Init PROVE ClientInv
  OBVIOUS
<1>1. \A c \in Callers : call[c].pc = "idle" /\ call[c].out = "none"
  BY DEF Init, Idle
<1>2. \A c \in Requests : c \in Callers
  BY DEF Callers
<1>3. /\ sock = 0 /\ opened = 0 /\ serving = {}
      /\ \A s \in Sockets : ~cid[s] /\ inbox[s] = <<>> /\ outbox[s] = <<>> /\ ~serverEnd[s]
  BY DEF Init, NoSocket
<1> QED
  BY <1>1, <1>2, <1>3, TurnInit DEF ClientInv, OutInv, HelloInv, HearInv, Blank, Unserved

LEMMA ClientStep == ClientInv /\ [Next]_vars => ClientInv'
<1> SUFFICES ASSUME ClientInv, [Next]_vars PROVE ClientInv'
  OBVIOUS
<1>0. /\ TurnInv /\ OutInv /\ HelloInv /\ HearInv /\ Typed
      /\ TurnInv' /\ OutInv'
  BY TurnStep, OutStep DEF ClientInv, TurnInv
<1>1. CASE Others
  <2>1. Speaks /\ outbox' = outbox
    BY <1>0, <1>1, ClientSpeaks DEF Others
  <2> QED
    BY <1>0, <1>1, <2>1, SpeaksKeeps, HearOthers DEF ClientInv
<1>2. ASSUME NEW d \in Callers, OpenSocket(d) PROVE ClientInv'
  BY <1>0, <1>2, OpenKeeps, HearOpens DEF ClientInv
<1>3. CASE Deliver
  <2>1. Speaks /\ outbox' = [outbox EXCEPT ![sock] = Tail(@)] /\ sock # 0
    BY <1>0, <1>3, DeliverSpeaks, DeliverShape DEF Sockets
  <2> QED
    BY <1>0, <1>3, <2>1, SpeaksKeeps, HearDelivers DEF ClientInv
<1>4. CASE HubStep
  BY <1>0, <1>4, HubKeepsHello, HearHub DEF ClientInv
<1>5. CASE UNCHANGED vars
  BY <1>0, <1>5 DEF ClientInv, HelloInv, HearInv, Hearing, Fresh, Gone, Granted, Rejected, Blank, Unserved, vars,
     clientVars, hubVars
<1> QED
  BY <1>1, <1>2, <1>3, <1>4, <1>5 DEF Next, Step, Others, HubStep

(* When a reattach is seen. *)

\* Someone is between its hello and its answer; it has the answer; and c resumes after it.
Greeted == \E h \in Requests : call[h].pc = "hello"
Granting(h) == call[h].pc = "hello" /\ call[h].fut = "ok"
Behind(c) == \E h \in Requests : Granting(h) /\ Before(ready, h, c)

\* c was answered, or will find that it was.
HasOk(c) == (call[c].pc = "done" /\ call[c].out = "ok") \/ (call[c].pc = "wait" /\ call[c].fut = "ok")

\* The counter when c returns, and when the next answer on this socket does.
Val(c) == IF call[c].pc = "done" THEN call[c].seen ELSE IF Behind(c) THEN reattaches + 1 ELSE reattaches
Now == IF Greeted THEN reattaches + 1 ELSE reattaches

Unused == connects = 0 => sock = 0 /\ ~known /\ \A c \in Callers : call[c].pc \in {"idle", "done"}
NoneYet == connects = 0 \/ call[Connector].pc # "idle" => \A c \in Requests : ~HasOk(c)
Answered == \A c \in Requests : HasOk(c) => /\ call[c].on \in 1 .. opened
                                            /\ call[c].pc = "done" => call[c].seen <= reattaches
Rising == \A c, d \in Requests : HasOk(c) /\ HasOk(d) /\ call[c].on < call[d].on => Val(c) < Val(d)
Ahead == reader /\ ~Rejected(sock) => \A c \in Requests : HasOk(c) /\ call[c].on < sock => Val(c) < Now

\* One request holds the lock while it greets the hub.
LEMMA OneGreets ==
    ASSUME TurnInv, NEW g \in Requests, NEW h \in Requests,
           call[g].pc \in {"opening", "hello"}, call[h].pc \in {"opening", "hello"}
    PROVE  g = h
BY DEF TurnInv, LockInv

LEMMA ValType ==
    ASSUME Typed, NEW c \in Requests
    PROVE  /\ Val(c) \in Nat /\ Now \in Nat /\ reattaches \in Nat /\ Now >= reattaches
           /\ call[c].on \in 0 .. MaxSockets /\ call[c].on \in Nat /\ call[c].seen \in Nat
<1>1. call[c] \in Task /\ reattaches \in Nat
  BY DEF Typed, Callers
<1>2. call[c].seen \in Nat /\ call[c].on \in 0 .. MaxSockets
  BY <1>1 DEF Task
<1> QED
  BY <1>1, <1>2 DEF Val, Now

LEMMA ShapeBehind ==
    ASSUME TurnInv, NEW d \in Callers, NEW D, NEW W, Shape(d, D, W),
           d \in Requests => ~Granting(d),
           NEW c \in Callers, c # d, call[c].fut # "none"
    PROVE  Behind(c)' <=> Behind(c)
<1>0. /\ InQ(ready, c) /\ c \notin D /\ D \subseteq {d} /\ Turns(ready, ready', D, W)
      /\ \A h \in Requests : h \in Callers
  BY DEF TurnInv, ReadyInv, Shape, Callers
<1>1. ASSUME NEW h \in Requests, h # d
      PROVE  (Granting(h)' <=> Granting(h)) /\ (Before(ready', h, c) <=> Before(ready, h, c))
  <2>1. /\ call'[h].pc = call[h].pc
        /\ IF h \in W THEN call'[h].fut = "closed" /\ call[h].fut = "none" ELSE call'[h] = call[h]
    BY <1>0, <1>1, ShapeSame
  <2>2. Before(ready', h, c) <=> Before(ready, h, c)
    BY <1>0, <1>1 DEF Turns
  <2> QED
    BY <2>1, <2>2 DEF Granting
<1>2. ASSUME d \in Requests, Granting(d)' PROVE ~Before(ready', d, c)
  <2>1. d \in W \/ call'[d] = call[d]
    BY <1>2 DEF Shape, Granting
  <2>2. d \in W
    BY <1>2, <2>1 DEF Granting
  <2>3. ~InQ(ready, d)
    BY <2>2 DEF Shape, Waiting, TurnInv, ReadyInv
  <2>4. ~Before(ready, d, c)
    BY <2>3 DEF InQ, Before
  <2>5. d \notin D
    BY <1>0, <2>4 DEF Turns
  <2> QED
    BY <1>0, <2>4, <2>5 DEF Turns
<1>3. Behind(c)' => Behind(c)
  BY <1>1, <1>2 DEF Behind
<1>4. Behind(c) => Behind(c)'
  BY <1>1 DEF Behind
<1> QED
  BY <1>3, <1>4

\* What a step leaves of an answer: the socket it came on, and what it will have seen.
Holds(c) ==
    HasOk(c)' => /\ HasOk(c) /\ call'[c].on = call[c].on /\ Val(c)' = Val(c)
                 /\ call'[c].pc = "done" => call'[c].seen <= reattaches'

LEMMA ShapeHolds ==
    ASSUME TurnInv, Answered, NEW d \in Callers, NEW D, NEW W, Shape(d, D, W),
           d \in Requests => ~Granting(d), reattaches' = reattaches,
           NEW c \in Requests, c # d
    PROVE  Holds(c)
<1> SUFFICES ASSUME HasOk(c)'
             PROVE /\ HasOk(c) /\ call'[c].on = call[c].on /\ Val(c)' = Val(c)
                   /\ call'[c].pc = "done" => call'[c].seen <= reattaches'
  BY DEF Holds
<1>0. c \in Callers
  BY DEF Callers
<1>1. c \notin W
  <2>1. ASSUME c \in W PROVE FALSE
    <3>1. call'[c].fut = "closed" /\ call'[c].pc = call[c].pc /\ call[c].pc \in {"hello", "wait"}
      BY <1>0, <2>1, ShapeSame DEF Shape, Waiting
    <3> QED
      BY <3>1 DEF HasOk
  <2> QED
    BY <2>1
<1>2. call'[c] = call[c]
  BY <1>0, <1>1, ShapeSame
<1>3. HasOk(c)
  BY <1>2 DEF HasOk
<1>4. Val(c)' = Val(c)
  <2>1. CASE call[c].pc = "done"
    BY <1>2, <2>1 DEF Val
  <2>2. CASE call[c].pc # "done"
    <3>1. call[c].fut # "none"
      BY <1>3, <2>2 DEF HasOk
    <3>2. Behind(c)' <=> Behind(c)
      BY <1>0, <3>1, ShapeBehind
    <3> QED
      BY <1>2, <2>2, <3>2 DEF Val
  <2> QED
    BY <2>1, <2>2
<1> QED
  BY <1>2, <1>3, <1>4 DEF Answered

\* What follows when every answer is left as it was.
LEMMA HoldsAll ==
    ASSUME Typed, Answered, Rising, \A c \in Requests : Holds(c), opened' \in Nat, opened' >= opened
    PROVE  Answered' /\ Rising'
<1>1. \A c \in Requests : call[c].on \in Nat
  BY ValType
<1>2. Answered'
  <2> SUFFICES ASSUME NEW c \in Requests, HasOk(c)'
               PROVE call'[c].on \in 1 .. opened' /\ (call'[c].pc = "done" => call'[c].seen <= reattaches')
    BY DEF Answered
  <2>1. HasOk(c) /\ call'[c].on = call[c].on /\ (call'[c].pc = "done" => call'[c].seen <= reattaches')
    BY DEF Holds
  <2>2. call[c].on \in 1 .. opened /\ opened \in Nat
    BY <2>1 DEF Answered, Typed
  <2> QED
    BY <2>1, <2>2
<1>3. Rising'
  BY DEF Holds, Rising
<1> QED
  BY <1>2, <1>3

LEMMA HoldsAhead ==
    ASSUME Typed, Ahead, \A c \in Requests : Holds(c),
           reader' /\ ~Rejected(sock)' => reader /\ ~Rejected(sock) /\ sock' = sock /\ Now' = Now
    PROVE  Ahead'
BY DEF Ahead, Holds

SeenParts == Unused /\ NoneYet /\ Answered /\ Rising /\ Ahead

LEMMA HoldsNone ==
    ASSUME NoneYet, \A c \in Requests : Holds(c), connects' = connects,
           call[Connector].pc = "idle" => call'[Connector].pc = "idle"
    PROVE  NoneYet'
BY DEF NoneYet, Holds

LEMMA GreetedSame ==
    ASSUME TurnInv, NEW d \in Callers, NEW D, NEW W, Shape(d, D, W),
           d \in Requests => (call[d].pc = "hello" <=> call'[d].pc = "hello")
    PROVE  Greeted' <=> Greeted
<1>1. ASSUME NEW h \in Requests PROVE call'[h].pc = "hello" <=> call[h].pc = "hello"
  <2>1. h \in Callers
    BY DEF Callers
  <2> QED
    BY <2>1, ShapeSame
<1> QED
  BY <1>1 DEF Greeted

\* A reader that is still there, on a socket that may still grant.
ReadsOn == reader' /\ ~Rejected(sock)' => reader /\ ~Rejected(sock) /\ sock' = sock

LEMMA OthersReadOn == ASSUME Typed, Others PROVE ReadsOn
<1>1. Speaks /\ outbox' = outbox
  BY ClientSpeaks DEF Others
<1> SUFFICES ASSUME reader', ~Rejected(sock)' PROVE reader /\ ~Rejected(sock) /\ sock' = sock
  BY DEF ReadsOn
<1>2. reader /\ sock' = sock
  BY <1>1 DEF Speaks
<1>3. sock \in Sockets
  BY <1>2 DEF Typed, Sockets
<1>4. Rejected(sock) => Rejected(sock)'
  BY <1>1, <1>2, <1>3, SpeaksRejects
<1> QED
  BY <1>2, <1>4

LEMMA DeliverReadsOn == ASSUME TurnInv, Deliver PROVE ReadsOn
<1>0. Typed
  BY DEF TurnInv
<1>1. /\ Speaks /\ outbox' = [outbox EXCEPT ![sock] = Tail(@)]
      /\ sock \in Sockets /\ sock' = sock /\ reader /\ outbox[sock] # <<>>
  BY DeliverSpeaks, DeliverShape
<1>2. outbox'[sock] = Tail(outbox[sock])
  BY <1>0, <1>1 DEF Typed
<1>3. Rejected(sock) => Rejected(sock)'
  BY <1>0, <1>1, <1>2, SpeaksRejects
<1> QED
  BY <1>1, <1>3 DEF ReadsOn

LEMMA HubReadsOn == ASSUME Typed, HubStep \/ UNCHANGED vars PROVE ReadsOn
<1>1. UNCHANGED <<reader, sock>>
  BY HubStepLeaves DEF vars, clientVars
<1>2. \A s \in Sockets : Rejected(s) => Rejected(s)'
  <2>1. UNCHANGED vars => \A s \in Sockets : Rejected(s) => Rejected(s)'
    BY DEF vars, hubVars, Rejected, Unserved
  <2> QED
    BY <2>1, HubRejects
<1>3. ASSUME reader PROVE Rejected(sock) => Rejected(sock)'
  <2>1. sock \in Sockets
    BY <1>3 DEF Typed, Sockets
  <2>2. Rejected(sock)' <=> \E s \in Sockets : s = sock /\ Rejected(s)'
    BY <1>1, <2>1
  <2> QED
    BY <1>2, <2>1, <2>2
<1> QED
  BY <1>1, <1>3 DEF ReadsOn

\* When the counter stands still and nobody leaves or enters a greeting.
LEMMA StillAhead ==
    ASSUME Typed, Ahead, \A c \in Requests : Holds(c), ReadsOn, Greeted' <=> Greeted, reattaches' = reattaches
    PROVE  Ahead'
<1>1. Now' = Now
  BY DEF Now
<1> QED
  BY <1>1, HoldsAhead DEF ReadsOn

LEMMA HubSees == ASSUME Typed, SeenParts, HubStep \/ UNCHANGED vars PROVE SeenParts'
<1>1. UNCHANGED <<call, ready, sock, reader, known, reattaches, connects, opened>>
  BY HubStepLeaves DEF vars, clientVars
<1>2. ReadsOn
  BY HubReadsOn
<1>3. /\ \A c \in Requests : (HasOk(c)' <=> HasOk(c)) /\ Val(c)' = Val(c)
      /\ Now' = Now
  BY <1>1 DEF HasOk, Val, Behind, Granting, Now, Greeted
<1> QED
  BY <1>1, <1>2, <1>3 DEF SeenParts, Unused, NoneYet, Answered, Rising, Ahead, ReadsOn

LEMMA IssueSees ==
    ASSUME ClientInv, SeenParts, NEW d \in Callers, Issue(d) \/ Reattach(d)
    PROVE  SeenParts'
<1>0. TurnInv /\ Typed /\ Unused /\ NoneYet /\ Answered /\ Rising /\ Ahead
  BY DEF ClientInv, TurnInv, SeenParts
<1>1. /\ d \in Requests /\ Shape(d, {}, {}) /\ Unanswered(d) /\ call[d].pc \in {"idle", "want"}
      /\ call'[d].fut = "none" /\ call'[d].pc # "hello" /\ opened' = opened
      /\ UNCHANGED <<sock, known, reattaches, connects>>
  BY <1>0, IssueShape
<1>2. ASSUME NEW c \in Requests PROVE Holds(c)
  <2>1. CASE c = d
    BY <1>1, <2>1 DEF Holds, HasOk, Unanswered
  <2>2. CASE c # d
    BY <1>0, <1>1, <2>2, ShapeHolds DEF Granting
  <2> QED
    BY <2>1, <2>2
<1>3. Answered' /\ Rising'
  BY <1>0, <1>1, <1>2, HoldsAll DEF Typed
<1>4. NoneYet'
  <2>1. call'[Connector].pc = call[Connector].pc
    BY <1>0, <1>1, ShapeSame DEF Callers
  <2> QED
    BY <1>0, <1>1, <1>2, <2>1, HoldsNone
<1>5. Ahead'
  <2>1. Greeted' <=> Greeted
    BY <1>0, <1>1, GreetedSame
  <2> QED
    BY <1>0, <1>1, <1>2, <2>1, OthersReadOn, StillAhead DEF Others
<1>6. Unused'
  <2> SUFFICES ASSUME connects = 0 PROVE \A c \in Callers : call'[c].pc \in {"idle", "done"}
    BY <1>0, <1>1 DEF Unused
  <2>1. sock = 0 /\ ~known /\ \A c \in Callers : call[c].pc \in {"idle", "done"}
    BY <1>0 DEF Unused
  <2>2. call' = [call EXCEPT ![d] = Ended(@, "notconnected")]
    BY <1>1, <2>1 DEF Issue, Reattach
  <2>3. call'[d].pc = "done"
    BY <1>0, <2>2, EndedIs DEF Typed
  <2> QED
    BY <1>0, <1>1, <2>1, <2>3, ShapeSame DEF Callers
<1> QED
  BY <1>3, <1>4, <1>5, <1>6 DEF SeenParts

\* A socket that opens: what was answered on an older one saw no more than the counter is.
LEMMA OpenSees ==
    ASSUME ClientInv, SeenParts, NEW d \in Callers, OpenSocket(d)
    PROVE  SeenParts'
<1>0. TurnInv /\ Typed /\ Unused /\ NoneYet /\ Answered /\ Rising /\ Ahead /\ HelloInv
  BY DEF ClientInv, TurnInv, SeenParts
<1>1. /\ Shape(d, {}, Doomed(d)) /\ Unanswered(d) /\ call[d].pc = "opening"
      /\ call'[d].fut = "none" /\ (opened' = opened \/ opened' = opened + 1)
      /\ UNCHANGED <<known, reattaches, connects>>
      /\ reader' => sock' = opened' /\ opened' = opened + 1 /\ call'[d].pc = "hello"
  BY <1>0, OpenShape
<1>2. ASSUME NEW c \in Requests PROVE Holds(c)
  <2>1. CASE c = d
    <3>1. ~HasOk(c)'
      BY <1>1, <2>1 DEF HasOk, Unanswered
    <3> QED
      BY <3>1 DEF Holds
  <2>2. CASE c # d
    BY <1>0, <1>1, <2>2, ShapeHolds DEF Granting
  <2> QED
    BY <2>1, <2>2
<1>3. Answered' /\ Rising'
  BY <1>0, <1>1, <1>2, HoldsAll DEF Typed
<1>4. connects # 0
  BY <1>0, <1>1 DEF Unused
<1>5. NoneYet'
  <2>1. call[Connector].pc = "idle" => call'[Connector].pc = call[Connector].pc
    BY <1>0, <1>1, ShapeSame DEF Callers
  <2> QED
    BY <1>0, <1>1, <1>2, <2>1, HoldsNone
<1>6. Ahead'
  <2> SUFFICES ASSUME reader', NEW c \in Requests, HasOk(c)' PROVE Val(c)' < Now'
    BY DEF Ahead
  <2>1. HasOk(c) /\ Val(c)' = Val(c)
    BY <1>2 DEF Holds
  <2>2. d # Connector
    BY <1>0, <1>1, <2>1 DEF NoneYet
  <2>3. d \in Requests /\ Greeted'
    BY <1>1, <2>2 DEF Callers, Greeted
  <2>4. ~Greeted
    <3>1. ASSUME NEW h \in Requests, call[h].pc = "hello" PROVE FALSE
      <4>1. h = d
        BY <1>0, <1>1, <2>3, <3>1, OneGreets
      <4> QED
        BY <1>1, <3>1, <4>1
    <3> QED
      BY <3>1 DEF Greeted
  <2>5. ~Behind(c)
    BY <2>4 DEF Behind, Greeted, Granting
  <2>6. Val(c) <= reattaches
    BY <1>0, <2>1, <2>5, ValType DEF Val, Answered
  <2>7. Now' = reattaches + 1
    BY <1>1, <2>3 DEF Now
  <2> QED
    BY <1>0, <2>1, <2>6, <2>7, ValType
<1>7. Unused'
  BY <1>1, <1>4 DEF Unused
<1> QED
  BY <1>3, <1>5, <1>6, <1>7 DEF SeenParts

LEMMA HelloFailsSees ==
    ASSUME ClientInv, SeenParts, NEW d \in Callers, HelloFails(d)
    PROVE  SeenParts'
<1>0. TurnInv /\ Typed /\ Unused /\ NoneYet /\ Answered /\ Rising /\ Ahead
  BY DEF ClientInv, TurnInv, SeenParts
<1>1. /\ Unanswered(d) /\ call[d].pc = "hello" /\ call[d].fut # "ok"
      /\ call'[d].fut = "none" /\ opened' = opened /\ UNCHANGED <<known, reattaches, connects>>
      /\ IF d = Connector THEN \A c \in Requests : call'[c] = call[c] ELSE ~reader'
  BY <1>0, HelloFailsShape
<1>2. PICK D, W : Shape(d, D, W)
  BY <1>0, HelloFailsShape
<1>3. ASSUME NEW c \in Requests PROVE Holds(c)
  <2>1. CASE c = d
    BY <1>1, <2>1 DEF Holds, HasOk, Unanswered
  <2>2. CASE c # d
    BY <1>0, <1>1, <1>2, <2>2, ShapeHolds DEF Granting
  <2> QED
    BY <2>1, <2>2
<1>4. Answered' /\ Rising'
  BY <1>0, <1>1, <1>3, HoldsAll DEF Typed
<1>5. NoneYet'
  <2>1. call[Connector].pc = "idle" => call'[Connector].pc = call[Connector].pc
    BY <1>0, <1>1, <1>2, ShapeSame DEF Callers
  <2> QED
    BY <1>0, <1>1, <1>3, <2>1, HoldsNone
<1>6. Ahead'
  <2>1. CASE d = Connector
    <3>1. Greeted' <=> Greeted
      BY <1>1, <2>1 DEF Greeted
    <3> QED
      BY <1>0, <1>1, <1>3, <3>1, OthersReadOn, StillAhead DEF Others
  <2>2. CASE d # Connector
    BY <1>1, <2>2 DEF Ahead
  <2> QED
    BY <2>1, <2>2
<1>7. connects # 0
  BY <1>0, <1>1 DEF Unused
<1> QED
  BY <1>1, <1>4, <1>5, <1>6, <1>7 DEF SeenParts, Unused

\* The counter moves: whoever resumes after the greeter sees it moved, as it was to.
LEMMA HelloAnsweredSees ==
    ASSUME ClientInv, SeenParts, NEW d \in Callers, HelloAnswered(d)
    PROVE  SeenParts'
<1>0. TurnInv /\ Typed /\ Unused /\ NoneYet /\ Answered /\ Rising /\ Ahead
  BY DEF ClientInv, TurnInv, SeenParts
<1>1. /\ Shape(d, {d}, {}) /\ Unanswered(d) /\ call[d].pc = "hello" /\ call[d].fut = "ok"
      /\ call'[d].fut = "none" /\ call'[d].pc # "hello" /\ (d = Connector => call'[d].pc = "idle")
      /\ UNCHANGED <<connects, opened>>
      /\ reattaches' = IF d = Connector THEN reattaches ELSE reattaches + 1
  BY <1>0, HelloAnsweredShape
<1>2. ~HasOk(d)'
  BY <1>1 DEF HasOk, Unanswered
<1>3. CASE d = Connector
  <2>1. ASSUME NEW c \in Requests PROVE Holds(c)
    <3>1. c # d
      BY <1>3
    <3> QED
      BY <1>0, <1>1, <1>3, <3>1, ShapeHolds
  <2>2. Answered' /\ Rising'
    BY <1>0, <1>1, <2>1, HoldsAll DEF Typed
  <2>3. NoneYet'
    BY <1>0, <1>1, <1>3, <2>1, HoldsNone
  <2>4. Greeted' <=> Greeted
    BY <1>0, <1>1, <1>3, GreetedSame
  <2>5. Ahead'
    BY <1>0, <1>1, <1>3, <2>1, <2>4, OthersReadOn, StillAhead DEF Others
  <2>6. connects # 0
    BY <1>0, <1>1 DEF Unused
  <2> QED
    BY <1>1, <2>2, <2>3, <2>5, <2>6 DEF SeenParts, Unused
<1>4. CASE d # Connector
  <2>0. d \in Requests /\ Granting(d) /\ reattaches' = reattaches + 1 /\ reattaches \in Nat
    BY <1>0, <1>1, <1>4 DEF Callers, Granting, Typed
  <2>1. ~Greeted'
    <3>1. ASSUME NEW h \in Requests, call'[h].pc = "hello" PROVE FALSE
      <4>1. h # d /\ h \in Callers
        BY <1>1, <3>1 DEF Callers
      <4>2. call[h].pc = "hello"
        BY <1>0, <1>1, <3>1, <4>1, ShapeSame
      <4> QED
        BY <1>0, <1>1, <2>0, <4>1, <4>2, OneGreets
    <3> QED
      BY <3>1 DEF Greeted
  <2>2. Now' = Now
    BY <1>1, <2>0, <2>1 DEF Now, Greeted
  <2>3. ASSUME NEW c \in Requests PROVE Holds(c)
    <3> SUFFICES ASSUME HasOk(c)'
                 PROVE /\ HasOk(c) /\ call'[c].on = call[c].on /\ Val(c)' = Val(c)
                       /\ call'[c].pc = "done" => call'[c].seen <= reattaches'
      BY DEF Holds
    <3>1. c # d /\ c \in Callers
      BY <1>2 DEF Callers
    <3>2. call'[c] = call[c] /\ HasOk(c)
      BY <1>0, <1>1, <3>1, ShapeSame DEF HasOk
    <3>3. CASE call[c].pc = "done"
      <4>1. call[c].seen <= reattaches /\ call[c].seen \in Nat
        BY <1>0, <3>2, <3>3, ValType DEF Answered
      <4> QED
        BY <2>0, <3>2, <3>3, <4>1 DEF Val
    <3>4. CASE call[c].pc # "done"
      <4>1. InQ(ready, c)
        BY <1>0, <3>1, <3>2, <3>4 DEF HasOk, TurnInv, ReadyInv
      <4>2. Before(ready, d, c)
        BY <1>1, <3>1, <4>1 DEF Shape, Turns
      <4>3. Behind(c)
        BY <2>0, <4>2 DEF Behind
      <4>4. ~Behind(c)'
        BY <2>1 DEF Behind, Greeted, Granting
      <4> QED
        BY <2>0, <3>2, <3>4, <4>3, <4>4 DEF Val
    <3> QED
      BY <3>3, <3>4
  <2>4. Answered' /\ Rising'
    BY <1>0, <1>1, <2>3, HoldsAll DEF Typed
  <2>5. NoneYet'
    <3>1. call'[Connector].pc = call[Connector].pc
      BY <1>0, <1>1, <1>4, ShapeSame DEF Callers
    <3> QED
      BY <1>0, <1>1, <2>3, <3>1, HoldsNone
  <2>6. Ahead'
    BY <1>0, <1>1, <2>2, <2>3, OthersReadOn, HoldsAhead DEF Others, ReadsOn
  <2>7. connects # 0
    BY <1>0, <1>1 DEF Unused
  <2> QED
    BY <1>1, <2>4, <2>5, <2>6, <2>7 DEF SeenParts, Unused
<1> QED
  BY <1>3, <1>4

LEMMA ReturnSees ==
    ASSUME ClientInv, SeenParts, NEW d \in Callers, Return(d)
    PROVE  SeenParts'
<1>0. TurnInv /\ Typed /\ Unused /\ NoneYet /\ Answered /\ Rising /\ Ahead
  BY DEF ClientInv, TurnInv, SeenParts
<1>1. /\ d \in Requests /\ Shape(d, {d}, {}) /\ call[d].pc = "wait" /\ call[d].fut # "none"
      /\ call'[d].fut = "none" /\ call'[d].pc \in {"want", "done"}
      /\ call'[d].pc = "done" => /\ call'[d].out = call[d].fut /\ call'[d].on = call[d].on
                                 /\ call'[d].seen = reattaches
      /\ UNCHANGED <<known, reattaches, connects, opened>>
  BY <1>0, ReturnShape
<1>2. ~Behind(d)
  BY <1>1 DEF Shape, Turns, Behind
<1>3. ASSUME NEW c \in Requests PROVE Holds(c)
  <2>1. CASE c = d
    <3>1. ASSUME HasOk(c)'
          PROVE  /\ HasOk(c) /\ call'[c].on = call[c].on /\ Val(c)' = Val(c)
                 /\ call'[c].pc = "done" => call'[c].seen <= reattaches'
      <4>1. call'[d].pc = "done" /\ call[d].fut = "ok"
        BY <1>1, <2>1, <3>1 DEF HasOk
      <4>2. Val(d) = reattaches /\ Val(d)' = reattaches
        BY <1>1, <1>2, <4>1 DEF Val
      <4> QED
        BY <1>0, <1>1, <2>1, <4>1, <4>2, ValType DEF HasOk
    <3> QED
      BY <3>1 DEF Holds
  <2>2. CASE c # d
    BY <1>0, <1>1, <2>2, ShapeHolds DEF Granting
  <2> QED
    BY <2>1, <2>2
<1>4. Answered' /\ Rising'
  BY <1>0, <1>1, <1>3, HoldsAll DEF Typed
<1>5. NoneYet'
  <2>1. call'[Connector].pc = call[Connector].pc
    BY <1>0, <1>1, ShapeSame DEF Callers
  <2> QED
    BY <1>0, <1>1, <1>3, <2>1, HoldsNone
<1>6. Ahead'
  <2>1. Greeted' <=> Greeted
    BY <1>0, <1>1, GreetedSame
  <2> QED
    BY <1>0, <1>1, <1>3, <2>1, OthersReadOn, StillAhead DEF Others
<1>7. connects # 0
  BY <1>0, <1>1 DEF Unused, Callers
<1> QED
  BY <1>1, <1>4, <1>5, <1>6, <1>7 DEF SeenParts, Unused

LEMMA GivesUpSees ==
    ASSUME ClientInv, SeenParts, NEW d \in Callers, TimeOut(d) \/ Cancel(d), ~cut'
    PROVE  SeenParts'
<1>0. TurnInv /\ Typed /\ Unused /\ NoneYet /\ Answered /\ Rising /\ Ahead
  BY DEF ClientInv, TurnInv, SeenParts
<1>1. /\ d \in Requests /\ Shape(d, {}, {}) /\ Unanswered(d) /\ call[d].pc \notin {"idle", "done", "hello"}
      /\ call'[d].fut = "none" /\ call'[d].pc = "done"
      /\ UNCHANGED <<known, reattaches, connects, opened>>
  BY <1>0, GivesUpShape
<1>2. ASSUME NEW c \in Requests PROVE Holds(c)
  <2>1. CASE c = d
    BY <1>1, <2>1 DEF Holds, HasOk, Unanswered
  <2>2. CASE c # d
    BY <1>0, <1>1, <2>2, ShapeHolds DEF Granting
  <2> QED
    BY <2>1, <2>2
<1>3. Answered' /\ Rising'
  BY <1>0, <1>1, <1>2, HoldsAll DEF Typed
<1>4. NoneYet'
  <2>1. call'[Connector].pc = call[Connector].pc
    BY <1>0, <1>1, ShapeSame DEF Callers
  <2> QED
    BY <1>0, <1>1, <1>2, <2>1, HoldsNone
<1>5. Ahead'
  <2>1. Greeted' <=> Greeted
    BY <1>0, <1>1, GreetedSame
  <2> QED
    BY <1>0, <1>1, <1>2, <2>1, OthersReadOn, StillAhead DEF Others
<1>6. connects # 0
  BY <1>0, <1>1 DEF Unused
<1> QED
  BY <1>1, <1>3, <1>4, <1>5, <1>6 DEF SeenParts, Unused

\* The engine's first connect(): nothing was answered before it.
LEMMA ConnectSees ==
    ASSUME ClientInv, SeenParts, Connect, connects = 0
    PROVE  SeenParts'
<1>0. TurnInv /\ Unused /\ NoneYet
  BY DEF ClientInv, TurnInv, SeenParts
<1>1. connects' = 1 /\ \A c \in Requests : call'[c] = call[c] /\ call[c].pc \in {"idle", "done"}
  BY <1>0, ConnectShape
<1>2. \A c \in Requests : ~HasOk(c)'
  BY <1>0, <1>1 DEF NoneYet, HasOk
<1> QED
  BY <1>1, <1>2 DEF SeenParts, Unused, NoneYet, Answered, Rising, Ahead

LEMMA ReaderGoesSees ==
    ASSUME ClientInv, SeenParts, Close \/ ReaderEnds
    PROVE  SeenParts'
<1>0. TurnInv /\ Typed /\ Unused /\ NoneYet /\ Answered /\ Rising /\ Ahead /\ Connector \in Callers
  BY DEF ClientInv, TurnInv, SeenParts, Callers
<1>1. /\ ~reader' /\ sock' \in {0, sock} /\ UNCHANGED <<known, reattaches, connects, opened>>
      /\ \A c \in Callers : call'[c].pc = call[c].pc
  BY <1>0, ReaderGoesShape
<1>2. PICK W : Shape(Connector, {}, W)
  BY <1>0, ReaderGoesShape
<1>3. ASSUME NEW c \in Requests PROVE Holds(c)
  <2>1. c # Connector
    OBVIOUS
  <2> QED
    BY <1>0, <1>1, <1>2, <2>1, ShapeHolds
<1>4. Answered' /\ Rising'
  BY <1>0, <1>1, <1>3, HoldsAll DEF Typed
<1>5. NoneYet'
  BY <1>0, <1>1, <1>3, HoldsNone
<1> QED
  BY <1>0, <1>1, <1>4, <1>5 DEF SeenParts, Unused, Ahead

LEMMA LastOrder ==
    ASSUME NEW S, NEW q \in Seq(S), NEW c \in S, NEW x, InQ(q, x)
    PROVE  Before(Append(q, c), x, c)
<1>1. PICK i \in 1 .. Len(q) : q[i] = x
  BY DEF InQ
<1> DEFINE r == Append(q, c)
<1>2. Len(r) = Len(q) + 1 /\ r[Len(q) + 1] = c /\ r[i] = x /\ Len(q) \in Nat
  BY <1>1
<1> HIDE DEF r
<1>3. i \in 1 .. Len(r) /\ Len(q) + 1 \in 1 .. Len(r) /\ i < Len(q) + 1
  BY <1>1, <1>2
<1>4. Before(r, x, c)
  BY <1>2, <1>3 DEF Before
<1> QED
  BY <1>4 DEF r

\* An answer that reaches the request: it will see the counter as it is now, or moved by
\* the greeter that resumes before it.
LEMMA AnswerSees ==
    ASSUME ClientInv, NEW c \in Requests, Deliver, Shape(c, {}, {c}), call[c].pc = "wait",
           call'[c].pc = "wait", reattaches' = reattaches,
           Head(outbox[sock]).who = c, Head(outbox[sock]).res = "ok", ready' = Append(ready, c)
    PROVE  ~Rejected(sock) /\ Val(c)' = Now /\ Now' = Now
<1>0. TurnInv /\ HearInv /\ Typed /\ c \in Callers
  BY DEF ClientInv, TurnInv, Callers
<1>1. sock \in Sockets /\ reader /\ outbox[sock] # <<>>
  BY <1>0, DeliverShape
<1>2. ~Rejected(sock)
  <2>1. ASSUME outbox[sock] \in Seq(Denials) PROVE FALSE
    <3>1. Head(outbox[sock]) \in Denials
      BY <1>1, <2>1
    <3> QED
      BY <3>1 DEF Denials
  <2> QED
    BY <2>1 DEF Rejected
<1>3. Greeted' <=> Greeted
  BY <1>0, GreetedSame
<1>4. ASSUME NEW h \in Requests, call[h].pc = "hello" PROVE Granting(h) /\ h # c /\ h \in Callers
  <2>1. h # c /\ h \in Callers
    BY <1>4 DEF Callers
  <2>2. ~Hearing(h, sock)
    BY <1>1, <1>2, <2>1 DEF Hearing, Fresh, Gone, Granted
  <2>3. call[h].fut = "ok"
    BY <1>0, <1>1, <1>2, <1>4, <2>2 DEF HearInv
  <2> QED
    BY <1>4, <2>1, <2>3 DEF Granting
<1>5. CASE Greeted
  <2>1. PICK h \in Requests : call[h].pc = "hello"
    BY <1>5 DEF Greeted
  <2>2. Granting(h) /\ h # c /\ h \in Callers
    BY <1>4, <2>1
  <2>3. call'[h] = call[h]
    BY <1>0, <2>2, ShapeSame
  <2>4. InQ(ready, h) /\ ready \in Seq(Callers)
    BY <1>0, <2>2 DEF Granting, TurnInv, ReadyInv, Ordered
  <2>5. Before(ready', h, c)
    BY <1>0, <2>4, LastOrder
  <2>6. Behind(c)'
    BY <2>2, <2>3, <2>5 DEF Behind, Granting
  <2> QED
    BY <1>2, <1>3, <1>5, <2>6 DEF Val, Now
<1>6. CASE ~Greeted
  <2>1. ~Behind(c)'
    BY <1>3, <1>6 DEF Behind, Granting, Greeted
  <2> QED
    BY <1>2, <1>3, <1>6, <2>1 DEF Val, Now
<1> QED
  BY <1>5, <1>6

LEMMA DeliverSees ==
    ASSUME ClientInv, SeenParts, Deliver
    PROVE  SeenParts'
<1>0. /\ TurnInv /\ Typed /\ HelloInv /\ Unused /\ NoneYet /\ Answered /\ Rising /\ Ahead
      /\ Connector \in Callers /\ \A c \in Requests : c \in Callers
  BY DEF ClientInv, TurnInv, SeenParts, Callers
<1> DEFINE r == Head(outbox[sock])
<1>1. /\ sock \in Sockets /\ reader /\ r.who \in Callers
      /\ IF r.who \in Waiting /\ call[r.who].n = r.n
         THEN /\ Shape(r.who, {}, {r.who}) /\ call'[r.who].pc = call[r.who].pc
              /\ call'[r.who].fut = r.res /\ call'[r.who].on = sock
         ELSE UNCHANGED <<call, ready>>
      /\ UNCHANGED <<sock, reader, opened, reattaches, connects, known>>
  BY <1>0, DeliverShape
<1>2. ReadsOn
  BY <1>0, DeliverReadsOn
<1>3. connects # 0 \/ UNCHANGED call
  <2>1. connects = 0 => sock = 0
    BY <1>0 DEF Unused
  <2> QED
    BY <1>1, <2>1 DEF Sockets
<1>4. ASSUME UNCHANGED <<call, ready>> PROVE SeenParts'
  <2>1. \A c \in Requests : (HasOk(c)' <=> HasOk(c)) /\ Val(c)' = Val(c)
    BY <1>1, <1>4 DEF HasOk, Val, Behind, Granting
  <2>2. Now' = Now
    BY <1>1, <1>4 DEF Now, Greeted
  <2> QED
    BY <1>0, <1>1, <1>2, <1>4, <2>1, <2>2 DEF SeenParts, Unused, NoneYet, Answered, Rising, Ahead, ReadsOn
<1>5. ASSUME NEW c \in Callers, c = r.who, c \in Waiting, call[c].n = r.n PROVE SeenParts'
  <2>1. /\ Shape(c, {}, {c}) /\ call'[c].pc = call[c].pc /\ call'[c].fut = r.res /\ call'[c].on = sock
        /\ call[c].fut = "none" /\ call[c].pc \in {"hello", "wait"}
    BY <1>1, <1>5 DEF Waiting
  <2>2. ready' = Append(ready, c)
    BY <1>5 DEF Deliver
  <2>3. \A e \in Callers : call'[e].pc = call[e].pc
    BY <1>0, <2>1, ShapeSame
  <2>4. connects # 0
    BY <1>0, <1>1 DEF Unused, Sockets
  <2>5. Unused'
    BY <1>1, <2>4 DEF Unused
  <2>6. Greeted' <=> Greeted
    BY <1>0, <2>3 DEF Greeted
  <2>7. \A e \in Requests : e # c => Holds(e)
    BY <1>0, <1>1, <2>1, ShapeHolds DEF Granting
  <2> HIDE DEF r
  <2>8. CASE ~(c \in Requests /\ call[c].pc = "wait" /\ r.res = "ok")
    <3>1. \A e \in Requests : Holds(e)
      <4>1. c \in Requests => Holds(c)
        BY <2>1, <2>8 DEF Holds, HasOk
      <4> QED
        BY <2>7, <4>1
    <3>2. Answered' /\ Rising'
      BY <1>0, <1>1, <3>1, HoldsAll DEF Typed
    <3>3. NoneYet'
      BY <1>0, <1>1, <2>3, <3>1, HoldsNone
    <3>4. Ahead'
      BY <1>0, <1>1, <1>2, <2>6, <3>1, StillAhead
    <3> QED
      BY <2>5, <3>2, <3>3, <3>4 DEF SeenParts
  <2>9. CASE c \in Requests /\ call[c].pc = "wait" /\ r.res = "ok"
    <3>1. ~Rejected(sock) /\ Val(c)' = Now /\ Now' = Now
      BY <1>1, <1>5, <2>1, <2>2, <2>9, AnswerSees DEF r
    <3>2. sock = opened /\ sock \in 1 .. opened /\ call'[c].pc # "done" /\ sock \in Nat
      BY <1>0, <1>1, <2>1, <2>9 DEF HelloInv, Sockets
    <3>3. call[Connector].pc = "idle"
      BY <1>0, <2>9 DEF TurnInv, LockInv
    <3>4. NoneYet'
      BY <1>0, <1>1, <2>3, <2>4, <3>3 DEF NoneYet
    <3>5. Answered'
      <4>1. ASSUME NEW e \in Requests, HasOk(e)', e # c
            PROVE  call'[e].on \in 1 .. opened' /\ (call'[e].pc = "done" => call'[e].seen <= reattaches')
        BY <1>0, <1>1, <2>7, <4>1 DEF Holds, Answered
      <4> QED
        BY <1>1, <2>1, <3>2, <4>1 DEF Answered
    <3>6. ASSUME NEW e \in Requests, HasOk(e)', call'[e].on < sock PROVE Val(e)' < Now
      <4>1. e # c
        BY <2>1, <3>2, <3>6
      <4>2. HasOk(e) /\ call'[e].on = call[e].on /\ Val(e)' = Val(e)
        BY <2>7, <3>6, <4>1 DEF Holds
      <4> QED
        BY <1>0, <1>1, <3>1, <3>6, <4>2 DEF Ahead
    <3>7. Rising'
      <4> SUFFICES ASSUME NEW e \in Requests, NEW f \in Requests, HasOk(e)', HasOk(f)',
                          call'[e].on < call'[f].on
                   PROVE  Val(e)' < Val(f)'
        BY DEF Rising
      <4>1. CASE f = c
        BY <2>1, <3>1, <3>6, <4>1
      <4>2. CASE e = c
        <5>1. call'[f].on \in 1 .. opened
          BY <1>1, <3>5 DEF Answered
        <5> QED
          BY <2>1, <3>2, <4>2, <5>1
      <4>3. CASE e # c /\ f # c
        BY <1>0, <2>7, <4>3 DEF Holds, Rising
      <4> QED
        BY <4>1, <4>2, <4>3
    <3>8. Ahead'
      BY <1>1, <3>1, <3>6 DEF Ahead
    <3> QED
      BY <2>5, <3>4, <3>5, <3>7, <3>8 DEF SeenParts
  <2> QED
    BY <2>8, <2>9
<1> QED
  BY <1>1, <1>4, <1>5

-----------------------------------------------------------------------------
\* The counter of a session that connected once, with no attach cut short.
SeenInv == connects \in Nat /\ (connects <= 1 /\ ~cut => SeenParts)

\* connect() alone counts, and an attach that was cut stays cut.
LEMMA GhostsStep ==
    ASSUME ClientInv, [Next]_vars
    PROVE  (connects' = connects \/ (Connect /\ connects' = connects + 1)) /\ (cut => cut')
<1>0. TurnInv
  BY DEF ClientInv
<1>1. CASE Connect
  BY <1>0, <1>1, ConnectShape
<1>2. ASSUME NEW d \in Callers, Step(d) \/ Cancel(d) PROVE connects' = connects /\ (cut => cut')
  BY <1>0, <1>2, IssueShape, OpenShape, HelloFailsShape, HelloAnsweredShape, ReturnShape, GivesUpShape
     DEF Step
<1>3. CASE Close \/ ReaderEnds
  BY <1>0, <1>3, ReaderGoesShape
<1>4. CASE Deliver
  BY <1>0, <1>4, DeliverShape
<1>5. CASE HubStep \/ UNCHANGED vars
  BY <1>5, HubStepLeaves DEF vars, clientVars
<1> QED
  BY <1>1, <1>2, <1>3, <1>4, <1>5 DEF Next, HubStep

LEMMA SeenInit == Init => SeenInv
<1> SUFFICES ASSUME Init PROVE SeenInv
  OBVIOUS
<1>1. \A c \in Callers : call[c].pc = "idle"
  BY DEF Init, Idle
<1>2. connects = 0 /\ sock = 0 /\ ~known /\ ~reader
  BY DEF Init
<1>3. \A c \in Requests : ~HasOk(c)
  BY <1>1 DEF HasOk, Callers
<1> QED
  BY <1>1, <1>2, <1>3 DEF SeenInv, SeenParts, Unused, NoneYet, Answered, Rising, Ahead

LEMMA SeenStep == ClientInv /\ SeenInv /\ [Next]_vars => SeenInv'
<1> SUFFICES ASSUME ClientInv, SeenInv, [Next]_vars PROVE SeenInv'
  OBVIOUS
<1>1. connects' \in Nat
  BY GhostsStep DEF SeenInv
<1> SUFFICES ASSUME connects' <= 1, ~cut' PROVE SeenParts'
  BY <1>1 DEF SeenInv
<1>2. SeenParts /\ (Connect => connects = 0)
  <2>1. connects <= 1 /\ ~cut
    BY <1>1, GhostsStep DEF SeenInv
  <2>2. Connect => connects = 0
    <3>1. Connect => connects' = connects + 1
      BY DEF Connect
    <3> QED
      BY <3>1 DEF SeenInv
  <2> QED
    BY <2>1, <2>2 DEF SeenInv
<1>3. Typed
  BY DEF ClientInv, TurnInv
<1>4. ASSUME NEW d \in Callers, Step(d) \/ Cancel(d) PROVE SeenParts'
  BY <1>2, <1>4, IssueSees, OpenSees, HelloFailsSees, HelloAnsweredSees, ReturnSees, GivesUpSees DEF Step
<1>5. CASE Connect
  BY <1>2, <1>5, ConnectSees
<1>6. CASE Close \/ ReaderEnds
  BY <1>2, <1>6, ReaderGoesSees
<1>7. CASE Deliver
  BY <1>2, <1>7, DeliverSees
<1>8. CASE HubStep \/ UNCHANGED vars
  BY <1>2, <1>3, <1>8, HubSees
<1> QED
  BY <1>4, <1>5, <1>6, <1>7, <1>8 DEF Next, HubStep

\* Two requests answered over different sockets return with different values of the
\* counter that book_sync watches (client.py:172-173, modules/book_sync.py:147), in any
\* session of one connect() in which no attach is cancelled half way.
THEOREM ReattachesSeen == Spec => []ReattachIsSeen
<1>1. ClientInv /\ SeenInv => ReattachIsSeen
  <2> SUFFICES ASSUME ClientInv, SeenInv, connects = 1, ~cut, NEW c \in Requests, NEW d \in Requests,
                      call[c].out = "ok", call[d].out = "ok", call[c].on # call[d].on
               PROVE  call[c].seen # call[d].seen
    BY DEF ReattachIsSeen
  <2>1. call[c].pc = "done" /\ call[d].pc = "done"
    BY DEF ClientInv, OutInv
  <2>2. HasOk(c) /\ HasOk(d) /\ Val(c) = call[c].seen /\ Val(d) = call[d].seen
    BY <2>1 DEF HasOk, Val
  <2>3. /\ call[c].on \in Nat /\ call[d].on \in Nat /\ call[c].seen \in Nat /\ call[d].seen \in Nat
    BY ValType DEF ClientInv, TurnInv
  <2>4. call[c].on < call[d].on => Val(c) < Val(d)
    BY <2>2 DEF SeenInv, SeenParts, Rising
  <2>5. call[d].on < call[c].on => Val(d) < Val(c)
    BY <2>2 DEF SeenInv, SeenParts, Rising
  <2> QED
    BY <2>2, <2>3, <2>4, <2>5
<1>2. ClientInv /\ SeenInv /\ [Next]_vars => (ClientInv /\ SeenInv)'
  BY ClientStep, SeenStep
<1>3. Init => ClientInv /\ SeenInv
  BY ClientInit, SeenInit
<1> QED
  BY <1>1, <1>2, <1>3, PTL DEF Spec
-----------------------------------------------------------------------------
(* Types. *)

\* Every reattach used a socket up, and the one that is being made has not been counted.
Spare ==
    /\ reattaches <= opened
    /\ \A c \in Requests : call[c].pc = "hello" => reattaches < opened

\* What nothing else needs: the flags, the bounds and the socket in use.
Flags ==
    /\ sock <= opened
    /\ reader \in BOOLEAN /\ known \in BOOLEAN /\ closed \in BOOLEAN
    /\ peerClosed \in BOOLEAN /\ cut \in BOOLEAN
    /\ connects \in 0 .. MaxConnects /\ stops \in 0 .. MaxStops /\ late \subseteq Sockets

\* A hello is only sent on a socket of its own, and counted once.
LEMMA SpareStep == TurnInv /\ Spare /\ [Next]_vars => Spare'
<1> SUFFICES ASSUME TurnInv, Spare, [Next]_vars PROVE Spare'
  OBVIOUS
<1>0. opened \in Nat /\ reattaches \in Nat /\ Requests \subseteq Callers /\ Connector \notin Requests
  BY DEF TurnInv, Typed, Callers
<1>1. ASSUME UNCHANGED <<opened, reattaches>>,
             \A c \in Requests : call'[c].pc = "hello" => call[c].pc = "hello"
      PROVE  Spare'
  BY <1>1 DEF Spare
<1>2. ASSUME NEW d \in Callers, NEW D, NEW W, Shape(d, D, W)
      PROVE  \A c \in Requests : c # d => call'[c].pc = call[c].pc
  BY <1>0, <1>2, ShapeSame
<1>3. ASSUME NEW d \in Callers, Issue(d) \/ Reattach(d) \/ Return(d) \/ TimeOut(d) \/ Cancel(d)
      PROVE  Spare'
  <2>1. /\ \E D, W : Shape(d, D, W)
        /\ UNCHANGED <<opened, reattaches>> /\ call'[d].pc # "hello"
    BY <1>3, IssueShape, ReturnShape, GivesUpShape DEF Return
  <2> QED
    BY <1>1, <1>2, <2>1
<1>4. ASSUME NEW d \in Callers, HelloFails(d) PROVE Spare'
  <2>1. /\ \E D, W : Shape(d, D, W)
        /\ UNCHANGED <<opened, reattaches>> /\ call'[d].pc # "hello"
    BY <1>4, HelloFailsShape
  <2> QED
    BY <1>1, <1>2, <2>1
<1>5. ASSUME NEW d \in Callers, OpenSocket(d) PROVE Spare'
  <2>1. /\ \E D, W : Shape(d, D, W) /\ UNCHANGED reattaches
        /\ opened' = opened + 1 \/ (opened' = opened /\ call'[d].pc # "hello")
    BY <1>5, OpenShape
  <2>2. CASE opened' = opened + 1
    BY <1>0, <2>1, <2>2 DEF Spare
  <2>3. CASE opened' = opened /\ call'[d].pc # "hello"
    BY <1>1, <1>2, <2>1, <2>3
  <2> QED
    BY <2>1, <2>2, <2>3
<1>6. ASSUME NEW d \in Callers, HelloAnswered(d) PROVE Spare'
  <2>1. /\ Shape(d, {d}, {}) /\ opened' = opened
        /\ call[d].pc = "hello" /\ call'[d].pc # "hello"
        /\ reattaches' = IF d = Connector THEN reattaches ELSE reattaches + 1
    BY <1>6, HelloAnsweredShape
  <2>2. CASE d = Connector
    BY <1>1, <1>2, <2>1, <2>2
  <2>3. CASE d # Connector
    <3>1. d \in Requests /\ reattaches < opened
      BY <2>1, <2>3 DEF Spare, Callers
    <3>2. ASSUME NEW c \in Requests PROVE call'[c].pc # "hello"
      <4>1. call[c].pc = "hello" => c = d
        BY <2>1, <3>1 DEF TurnInv, LockInv
      <4> QED
        BY <1>2, <2>1, <4>1
    <3> QED
      BY <1>0, <2>1, <2>3, <3>1, <3>2 DEF Spare
  <2> QED
    BY <2>2, <2>3
<1>7. CASE Connect \/ Close \/ ReaderEnds
  <2>1. /\ UNCHANGED <<opened, reattaches>>
        /\ \A c \in Requests : call'[c].pc = call[c].pc
    BY <1>0, <1>7, ConnectShape, ReaderGoesShape
  <2> QED
    BY <1>1, <2>1
<1>8. CASE Deliver
  <2>1. UNCHANGED <<opened, reattaches>>
    BY <1>8, DeliverShape
  <2>2. \/ call' = call
        \/ \E d \in Callers : (\E D, W : Shape(d, D, W)) /\ call'[d].pc = call[d].pc
    BY <1>8, DeliverShape
  <2>3. \A c \in Requests : call'[c].pc = call[c].pc
    BY <1>2, <2>2
  <2> QED
    BY <1>1, <2>1, <2>3
<1>9. CASE HubStep \/ UNCHANGED vars
  BY <1>1, <1>9, HubStepLeaves DEF vars, clientVars
<1> QED
  BY <1>3, <1>4, <1>5, <1>6, <1>7, <1>8, <1>9 DEF Next, Step, HubStep

\* Sockets are numbered as they are opened.
LEMMA FlagsStep == TurnInv /\ Flags /\ [Next]_vars => Flags'
<1> SUFFICES ASSUME TurnInv, Flags, [Next]_vars PROVE Flags'
  OBVIOUS
<1>0. opened \in Nat /\ sock \in Nat
  BY DEF TurnInv, Typed
<1> USE DEF Flags
<1>1. ASSUME NEW d \in Callers, Issue(d) \/ Reattach(d)
      PROVE  Flags'
  <2>1. /\ UNCHANGED <<sock, opened, reader, known, closed, cut, connects, stops, late>>
        /\ peerClosed' \in BOOLEAN
    BY <1>1 DEF Issue, Reattach, Send, hubVars
  <2> QED
    BY <2>1
<1>2. ASSUME NEW d \in Callers, Return(d) \/ TimeOut(d) \/ Cancel(d)
      PROVE  Flags'
  <2>1. /\ UNCHANGED <<sock, opened, reader, known, closed, peerClosed, connects, stops, late>>
        /\ cut' \in BOOLEAN
    BY <1>2 DEF Return, TimeOut, Cancel, hubVars
  <2> QED
    BY <2>1
<1>3. ASSUME NEW d \in Callers, OpenSocket(d) \/ HelloFails(d)
      PROVE  Flags'
  <2>1. /\ UNCHANGED <<known, closed, cut, connects, stops, late>>
        /\ peerClosed' \in BOOLEAN /\ reader' \in BOOLEAN
        /\ \/ opened' = opened + 1 /\ sock' = opened'
           \/ opened' = opened /\ sock' \in {0, sock}
    BY <1>3 DEF OpenSocket, HelloFails, hubVars
  <2> QED
    BY <1>0, <2>1
<1>4. ASSUME NEW d \in Callers, HelloAnswered(d)
      PROVE  Flags'
  <2>1. /\ UNCHANGED <<sock, opened, reader, closed, cut, connects, stops, late>>
        /\ known' \in BOOLEAN /\ peerClosed' \in BOOLEAN
    BY <1>4 DEF HelloAnswered, Send, hubVars
  <2> QED
    BY <2>1
<1>5. CASE Connect
  <2>1. /\ UNCHANGED <<sock, opened, reader, known, peerClosed, cut, stops, late>>
        /\ closed' \in BOOLEAN /\ connects' = connects + 1 /\ connects < MaxConnects
    BY <1>5 DEF Connect, hubVars
  <2> QED
    BY <2>1
<1>6. CASE Close \/ ReaderEnds \/ Deliver
  <2>1. /\ UNCHANGED <<opened, known, cut, connects, stops, late>>
        /\ closed' \in BOOLEAN /\ peerClosed' \in BOOLEAN
        /\ reader' \in BOOLEAN /\ sock' \in {0, sock}
    BY <1>6 DEF Close, ReaderEnds, Deliver, hubVars
  <2> QED
    BY <1>0, <2>1
<1>7. ASSUME NEW s \in Sockets, Hello(s) \/ Dispatch(s) \/ HandlerEnds(s)
      PROVE  Flags'
  <2>1. /\ UNCHANGED <<clientVars, opened, stops>> /\ late' \in {late, late \cup {s}}
    BY <1>7 DEF Hello, Dispatch, HandlerEnds
  <2> QED
    BY <2>1 DEF clientVars
<1>8. CASE (\E t \in serving : Finish(t[1], t[2])) \/ HubStarts
  BY <1>8 DEF Finish, HubStarts, clientVars
<1>9. CASE HubStops
  <2>1. /\ UNCHANGED <<clientVars, opened>> /\ late' = {} /\ stops' = stops + 1 /\ stops < MaxStops
    BY <1>9 DEF HubStops
  <2> QED
    BY <2>1 DEF clientVars
<1>10. CASE UNCHANGED vars
  BY <1>10 DEF vars, clientVars, hubVars
<1> QED
  BY <1>1, <1>2, <1>3, <1>4, <1>5, <1>6, <1>7, <1>8, <1>9, <1>10 DEF Next, Step

\* The session stays within its types: no reattach is counted without a socket of its own
\* (metaapi_hub/client.py:161-175).
THEOREM TypeCorrect == Spec => []TypeOK
<1>1. TurnInv /\ Spare /\ Flags => TypeOK
  BY DEF TurnInv, ReadyInv, LockInv, Ordered, Typed, Spare, Flags, TypeOK
<1>2. TurnInv /\ Spare /\ Flags /\ [Next]_vars => (TurnInv /\ Spare /\ Flags)'
  BY TurnStep, SpareStep, FlagsStep
<1>3. Init => TurnInv /\ Spare /\ Flags
  <2> SUFFICES ASSUME Init PROVE TurnInv /\ Spare /\ Flags
    OBVIOUS
  <2>1. \A c \in Requests : call[c].pc = "idle"
    BY DEF Init, Idle, Callers
  <2>2. reader \in BOOLEAN /\ known \in BOOLEAN /\ closed \in BOOLEAN
        /\ peerClosed \in BOOLEAN /\ cut \in BOOLEAN
    BY Zenon DEF Init
  <2>3. sock = 0 /\ opened = 0 /\ reattaches = 0 /\ connects = 0 /\ stops = 0 /\ late = {}
    BY DEF Init
  <2> QED
    BY <2>1, <2>2, <2>3, TurnInit DEF Spare, Flags
<1> QED
  BY <1>1, <1>2, <1>3, PTL DEF Spec
=============================================================================
