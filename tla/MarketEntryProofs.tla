-------------------------- MODULE MarketEntryProofs --------------------------
(***************************************************************************)
(* Proofs about MarketEntry for any number of tickets and both engines.     *)
(***************************************************************************)
EXTENDS MarketEntry, TLAPS

Live(t) == order[t] \in {"sent", "open"}

\* At most one order is on its way or filled at any time.
OneLive == \A t, u \in Tickets : Live(t) /\ Live(u) => t = u

\* The order leaves only while no other is on its way or filled.
SendClear == pc = "send" => \A t \in Tickets : ~Live(t)

\* Only the order just placed can be on its way, and only until the engine
\* has waited out the delay; or the process died before it had.
SentIsPlaced ==
    \A t \in Tickets : order[t] = "sent" =>
        \/ pc = "down"
        \/ pc \in {"ack", "settle"} /\ t = placed

\* While the engine waits for its order, there is one.
PlacedIsSent ==
    pc \in {"ack", "settle"} => placed \in Tickets /\ order[placed] # "unsent"

IInv == TypeOK /\ OneLive /\ SendClear /\ SentIsPlaced /\ PlacedIsSent

USE EntryAssumption DEF market
-----------------------------------------------------------------------------

\* The deployment the guarantee is about: reads fail by raising (hub), and
\* the broker decides an order within the post-error delay.
Guarded == HubMode /\ ~LateFills

\* What a position read returns: some of what is open under the engine's
\* comment or symbol, and on the hub path, when it succeeds, all of it.
LEMMA ReadMatches ==
    ASSUME NEW r \in ReadBook, TypeOK
    PROVE  /\ r.ok \in BOOLEAN
           /\ r.matched \subseteq Position
           /\ \A t \in r.matched : t \in Tickets => order[t] = "open"
           /\ HubMode /\ r.ok => OpenTickets \subseteq r.matched
<1> DEFINE Seen == Matching(AllPositions)
<1>1. /\ Seen \subseteq Position /\ OpenTickets \subseteq Seen
      /\ \A t \in Seen : t \in Tickets => order[t] = "open"
  BY DEF Matching, AllPositions, OpenTickets, Position, TypeOK
<1>2. \/ r = [ok |-> TRUE, matched |-> Seen]
      \/ HubMode /\ r = [ok |-> FALSE, matched |-> {}]
      \/ ~HubMode /\ r = [ok |-> TRUE, matched |-> {}]
  BY DEF ReadBook
<1> HIDE DEF Seen
<1>3. CASE r = [ok |-> TRUE, matched |-> Seen]
  <2>1. r.matched = Seen /\ r.ok = TRUE
    BY <1>3
  <2> QED
    BY <2>1, <1>1
<1>4. CASE HubMode /\ r = [ok |-> FALSE, matched |-> {}]
  <2>1. r.matched = {} /\ r.ok = FALSE
    BY <1>4
  <2> QED
    BY <2>1
<1>5. CASE ~HubMode /\ r = [ok |-> TRUE, matched |-> {}]
  <2>1. r.matched = {} /\ r.ok = TRUE
    BY <1>5
  <2> QED
    BY <2>1, <1>5
<1> QED
  BY <1>2, <1>3, <1>4, <1>5

\* Branch names an await of step().
LEMMA BranchLabel ==
    ASSUME NEW s \in {"SEARCHING", "IN_TRADE"}, NEW tr \in BOOLEAN,
           NEW at \in Phases, TypeOK
    PROVE  Branch(s, tr, at)
             \in {"check", "idle", "recheck", "setup", "capture"}
BY DEF Branch, TypeOK, Pending

\* The day stays among its phases.
LEMMA NextPhaseType == \A p \in Phases : NextPhase[p] \in Phases
BY DEF Phases, NextPhase

\* The initial states are of the right type.
LEMMA InitType == Init => TypeOK
<1> SUFFICES ASSUME Init PROVE TypeOK
  OBVIOUS
<1>1. order \in [Tickets -> Status]
  BY DEF Init, Status
<1> QED
  BY <1>1 DEF Init, TypeOK, Labels, Phases

\* Every step keeps the types.
LEMMA StepType == TypeOK /\ [Next]_vars => TypeOK'
<1> SUFFICES ASSUME TypeOK, [Next]_vars PROVE TypeOK'
  OBVIOUS
<1> USE DEF TypeOK, Labels, local, tracker, goldVars, Position
<1>1. CASE StepBegin
  BY <1>1 DEF StepBegin
<1>2. CASE ConnectOk \/ ConnectFail
  <2>1. CASE ConnectOk
    BY <2>1 DEF ConnectOk
  <2>2. CASE ConnectFail
    BY <2>2 DEF ConnectFail
  <2> QED
    BY <1>2, <2>1, <2>2
<1>3. ASSUME NEW r \in ReadBook, Sync(r) PROVE TypeOK'
  BY <1>3, ReadMatches DEF Sync, SyncBook, MarkSynced, Adopt, Book
<1>4. CASE Dispatch
  BY <1>4, BranchLabel DEF Dispatch
<1>5. ASSUME NEW ok \in BOOLEAN, HardRead(ok) PROVE TypeOK'
  BY <1>5, BranchLabel
     DEF HardRead, DeclareFlat, SameSymbol, Matching
<1>6. ASSUME NEW t \in toClose, NEW done \in BOOLEAN, CloseOne(t, done)
      PROVE  TypeOK'
  <2>1. order' \in [Tickets -> Status] /\ others' \subseteq Sharing
    BY <1>6 DEF CloseOne, Status
  <2>2. UNCHANGED <<engine, syncRequired, tracker, connected, goldVars, now,
                    placed, clock, sentToday, bookedToday>>
    BY <1>6 DEF CloseOne
  <2>3. pc' \in Labels /\ state' \in {"SEARCHING", "IN_TRADE"}
        /\ active' \in Position \cup {None} /\ toClose' \subseteq Position
    BY <1>6, BranchLabel DEF CloseOne, DeclareFlat
  <2> QED
    BY <2>1, <2>2, <2>3
<1>7. ASSUME NEW r \in ReadBook, Recheck(r) \/ Confirm(r) \/ Reconfirm(r)
      PROVE  TypeOK'
  <2>1. \E flat \in {"idle", "send"} : ConfirmFlat(r, flat)
    BY <1>7 DEF Recheck, Confirm, Reconfirm
  <2>2. Book /\ UNCHANGED <<engine, tracker, connected, local, market, clock,
                            sentToday>>
    BY <1>7 DEF Recheck, Confirm, Reconfirm
  <2>3. PICK flat \in {"idle", "send"} : ConfirmFlat(r, flat)
    BY <2>1
  <2>4. r.matched \subseteq Position
    BY ReadMatches
  <2> QED
    BY <2>2, <2>3, <2>4 DEF ConfirmFlat, Adopt, Book
<1>8. ASSUME NEW got \in BOOLEAN, Capture(got) \/ Setup(got) PROVE TypeOK'
  BY <1>8 DEF Capture, Setup
<1>9. ASSUME NEW t \in Tickets, Send(t) PROVE TypeOK'
  BY <1>9 DEF Send, Status
<1>10. CASE AckSuccess
  BY <1>10 DEF AckSuccess, Book
<1>11. CASE AckRefused \/ AckLost \/ Settled
  <2>1. CASE AckRefused
    <3>1. order' \in [Tickets -> Status]
      BY <2>1 DEF AckRefused, Status
    <3> QED
      BY <2>1, <3>1 DEF AckRefused
  <2>2. CASE AckLost
    BY <2>2 DEF AckLost
  <2>3. CASE Settled
    BY <2>3 DEF Settled
  <2> QED
    BY <1>11, <2>1, <2>2, <2>3
<1>12. ASSUME NEW r \in ReadBook, Check(r) PROVE TypeOK'
  BY <1>12, ReadMatches DEF Check, Book
<1>13. CASE Crash \/ Start \/ Reattach \/ OthersTrade
  <2>1. CASE Crash
    BY <2>1 DEF Crash
  <2>2. CASE Start
    BY <2>2 DEF Start
  <2>3. CASE Reattach
    BY <2>3 DEF Reattach
  <2>4. CASE OthersTrade
    BY <2>4 DEF OthersTrade
  <2> QED
    BY <1>13, <2>1, <2>2, <2>3, <2>4
<1>14. ASSUME NEW t \in Tickets, Execute(t) \/ StopOut(t) PROVE TypeOK'
  BY <1>14 DEF Execute, StopOut, Status
<1>15. CASE Tick
  <2>1. clock' \in Phases
    BY <1>15, NextPhaseType DEF Tick
  <2>2. sentToday' \subseteq Tickets /\ bookedToday' \in BOOLEAN
    BY <1>15 DEF Tick
  <2> QED
    BY <1>15, <2>1, <2>2 DEF Tick
<1>16. CASE UNCHANGED vars
  BY <1>16 DEF vars
<1> QED
  BY <1>1, <1>2, <1>3, <1>4, <1>5, <1>6, <1>7, <1>8, <1>9, <1>10, <1>11,
     <1>12, <1>13, <1>14, <1>15, <1>16 DEF Next, EngineStep, World

\* In every reachable state the variables have their types, whatever the
\* deployment (hub or direct, late fills or none).
THEOREM TypeCorrect == Spec => []TypeOK
BY InitType, StepType, PTL DEF Spec
-----------------------------------------------------------------------------
(* No double book.  NoDoubleBook is not inductive: an order that left but is *)
(* not yet filled would open beside another, so the invariant counts orders  *)
(* on their way too, and says when there can be one.                         *)

\* A fresh process, over at most one inherited position, satisfies it.
LEMMA IInvInit == Init => IInv
<1> SUFFICES ASSUME Init PROVE IInv
  OBVIOUS
<1>1. TypeOK
  BY InitType
<1>2. PICK S \in SUBSET Tickets :
        /\ \A t, u \in S : t = u
        /\ order = [t \in Tickets |-> IF t \in S THEN "open" ELSE "unsent"]
  BY DEF Init
<1>3. \A t \in Tickets : order[t] = (IF t \in S THEN "open" ELSE "unsent")
  BY <1>2
<1>4. pc = "idle"
  BY DEF Init
<1> QED
  BY <1>1, <1>2, <1>3, <1>4
     DEF IInv, OneLive, Live, SendClear, SentIsPlaced, PlacedIsSent

\* A step that leaves the orders alone and neither enters nor leaves the
\* three labels around the order.
LEMMA IInvQuiet ==
    ASSUME IInv, TypeOK', order' = order,
           pc \notin {"ack", "settle", "down"},
           pc' \notin {"send", "ack", "settle"}
    PROVE  IInv'
BY DEF IInv, OneLive, Live, SendClear, SentIsPlaced, PlacedIsSent

\* After a true read that found nothing, with no order on its way, no order
\* is live.
LEMMA EmptyReadClears ==
    ASSUME IInv, pc \notin {"ack", "settle", "down"}, OpenTickets = {}
    PROVE  \A t \in Tickets : ~Live(t)
BY DEF IInv, SentIsPlaced, Live, OpenTickets

\* Under Guarded every step keeps the invariant.
LEMMA IInvStep == Guarded /\ IInv /\ [Next]_vars => IInv'
<1> SUFFICES ASSUME Guarded, IInv, [Next]_vars PROVE IInv'
  OBVIOUS
<1>0. TypeOK /\ TypeOK'
  BY StepType DEF IInv
<1>1. CASE StepBegin
  BY <1>0, <1>1, IInvQuiet DEF StepBegin
<1>2. CASE ConnectOk \/ ConnectFail
  BY <1>0, <1>2, IInvQuiet DEF ConnectOk, ConnectFail
<1>3. ASSUME NEW r \in ReadBook, Sync(r) PROVE IInv'
  BY <1>0, <1>3, IInvQuiet DEF Sync
<1>4. CASE Dispatch
  <2>1. pc' \in {"hardRead", "check", "idle", "recheck", "setup", "capture"}
    BY <1>0, <1>4, BranchLabel DEF Dispatch, TypeOK
  <2> QED
    BY <1>0, <1>4, <2>1, IInvQuiet DEF Dispatch
<1>5. ASSUME NEW ok \in BOOLEAN, HardRead(ok) PROVE IInv'
  <2>1. pc' \in {"closing", "check", "idle", "recheck", "setup", "capture"}
    BY <1>0, <1>5, BranchLabel DEF HardRead, DeclareFlat, TypeOK
  <2> QED
    BY <1>0, <1>5, <2>1, IInvQuiet DEF HardRead
<1>6. ASSUME NEW t \in toClose, NEW done \in BOOLEAN, CloseOne(t, done)
      PROVE  IInv'
  <2>1. pc' \in {"closing", "check", "idle", "recheck", "setup", "capture"}
    BY <1>0, <1>6, BranchLabel DEF CloseOne, DeclareFlat, TypeOK
  <2>2. \A u \in Tickets : order'[u] = order[u] \/ order'[u] = "closed"
    BY <1>0, <1>6 DEF CloseOne, TypeOK
  <2> QED
    BY <1>0, <1>6, <2>1, <2>2
       DEF CloseOne, IInv, OneLive, Live, SendClear, SentIsPlaced, PlacedIsSent
<1>7. ASSUME NEW r \in ReadBook, Recheck(r) \/ Reconfirm(r) PROVE IInv'
  <2>1. pc' = "idle" /\ order' = order /\ pc \in {"recheck", "reconfirm"}
    BY <1>7 DEF Recheck, Reconfirm, ConfirmFlat
  <2> QED
    BY <1>0, <2>1, IInvQuiet
<1>8. ASSUME NEW r \in ReadBook, Confirm(r) PROVE IInv'
  <2>1. order' = order /\ pc = "confirm"
    BY <1>8 DEF Confirm
  <2>2. \/ pc' = "idle"
        \/ pc' = "send" /\ r.ok /\ r.matched = {}
    BY <1>8 DEF Confirm, ConfirmFlat
  <2>3. CASE pc' = "idle"
    BY <1>0, <2>1, <2>3, IInvQuiet
  <2>4. CASE pc' = "send" /\ r.ok /\ r.matched = {}
    <3>1. OpenTickets = {}
      BY <1>0, <2>4, ReadMatches DEF Guarded
    <3>2. \A t \in Tickets : ~Live(t)
      BY <2>1, <3>1, EmptyReadClears
    <3> QED
      BY <1>0, <2>1, <2>4, <3>2
         DEF IInv, OneLive, Live, SendClear, SentIsPlaced, PlacedIsSent
  <2> QED
    BY <2>2, <2>3, <2>4
<1>9. ASSUME NEW got \in BOOLEAN, Capture(got) \/ Setup(got) PROVE IInv'
  BY <1>0, <1>9, IInvQuiet DEF Capture, Setup
<1>10. ASSUME NEW t \in Tickets, Send(t) PROVE IInv'
  <2>1. \A u \in Tickets : ~Live(u)
    BY <1>10 DEF IInv, SendClear, Send
  <2>2. \A u \in Tickets : order'[u] = IF u = t THEN "sent" ELSE order[u]
    BY <1>0, <1>10 DEF Send, TypeOK
  <2>3. pc' = "ack" /\ placed' = t
    BY <1>10 DEF Send
  <2> QED
    BY <1>0, <2>1, <2>2, <2>3
       DEF IInv, OneLive, Live, SendClear, SentIsPlaced, PlacedIsSent
<1>11. CASE AckSuccess
  <2>1. \A t \in Tickets : order[t] # "sent"
    BY <1>0, <1>11 DEF AckSuccess, IInv, SentIsPlaced
  <2> QED
    BY <1>0, <1>11, <2>1
       DEF AckSuccess, IInv, OneLive, Live, SendClear, SentIsPlaced,
           PlacedIsSent
<1>12. CASE AckRefused
  <2>1. placed \in Tickets
    BY <1>12 DEF AckRefused, IInv, PlacedIsSent
  <2>2. \A u \in Tickets : order'[u] = IF u = placed THEN "dead" ELSE order[u]
    BY <1>0, <1>12, <2>1 DEF AckRefused, TypeOK
  <2>3. \A u \in Tickets : order[u] = "sent" => u = placed
    BY <1>12 DEF AckRefused, IInv, SentIsPlaced
  <2>4. pc' = "reconfirm"
    BY <1>12 DEF AckRefused
  <2> QED
    BY <1>0, <2>2, <2>3, <2>4
       DEF IInv, OneLive, Live, SendClear, SentIsPlaced, PlacedIsSent
<1>13. CASE AckLost
  BY <1>0, <1>13
     DEF AckLost, IInv, OneLive, Live, SendClear, SentIsPlaced, PlacedIsSent,
         local
<1>14. CASE Settled
  <2>1. order[placed] # "sent" /\ pc = "settle" /\ pc' = "reconfirm"
        /\ order' = order
    BY <1>14 DEF Settled, Guarded
  <2>2. \A u \in Tickets : order[u] # "sent"
    BY <2>1 DEF IInv, SentIsPlaced
  <2> QED
    BY <1>0, <2>1, <2>2
       DEF IInv, OneLive, Live, SendClear, SentIsPlaced, PlacedIsSent
<1>15. ASSUME NEW r \in ReadBook, Check(r) PROVE IInv'
  BY <1>0, <1>15, IInvQuiet DEF Check
<1>16. CASE Crash
  BY <1>0, <1>16
     DEF Crash, IInv, OneLive, Live, SendClear, SentIsPlaced, PlacedIsSent
<1>17. CASE Start
  BY <1>0, <1>17
     DEF Start, Guarded, IInv, OneLive, Live, SendClear, SentIsPlaced,
         PlacedIsSent
<1>18. ASSUME NEW t \in Tickets, Execute(t) PROVE IInv'
  <2>1. order[t] = "sent" /\ pc' = pc /\ placed' = placed
    BY <1>18 DEF Execute, local
  <2>2. \A u \in Tickets : u # t => order'[u] = order[u]
    BY <1>0, <1>18 DEF Execute, TypeOK
  <2>3. order'[t] \in {"open", "dead"}
    BY <1>0, <1>18 DEF Execute, TypeOK
  <2> QED
    BY <1>0, <2>1, <2>2, <2>3
       DEF IInv, OneLive, Live, SendClear, SentIsPlaced, PlacedIsSent
<1>19. ASSUME NEW t \in Tickets, StopOut(t) PROVE IInv'
  <2>1. pc' = pc /\ placed' = placed
    BY <1>19 DEF StopOut, local
  <2>2. \A u \in Tickets : order'[u] = IF u = t THEN "closed" ELSE order[u]
    BY <1>0, <1>19 DEF StopOut, TypeOK
  <2> QED
    BY <1>0, <2>1, <2>2
       DEF IInv, OneLive, Live, SendClear, SentIsPlaced, PlacedIsSent
<1>20. CASE Reattach \/ OthersTrade \/ Tick \/ UNCHANGED vars
  <2>1. pc' = pc /\ order' = order /\ placed' = placed
    BY <1>20 DEF Reattach, OthersTrade, Tick, vars, local
  <2> QED
    BY <1>0, <2>1
       DEF IInv, OneLive, Live, SendClear, SentIsPlaced, PlacedIsSent
<1> QED
  BY <1>1, <1>2, <1>3, <1>4, <1>5, <1>6, <1>7, <1>8, <1>9, <1>10, <1>11,
     <1>12, <1>13, <1>14, <1>15, <1>16, <1>17, <1>18, <1>19, <1>20
     DEF Next, EngineStep, World

\* An engine on the hub whose orders are decided within the post-error delay
\* never holds two positions, for any number of orders, lost
\* acknowledgements, failed reads and restarts (entry_guard.py, rules 1, 2).
THEOREM NeverDoubleBooked ==
    ASSUME Guarded
    PROVE  Spec => []NoDoubleBook
<1>1. IInv => NoDoubleBook
  BY DEF IInv, OneLive, Live, NoDoubleBook
<1>2. IInv /\ [Next]_vars => IInv'
  BY IInvStep
<1> QED
  BY <1>1, <1>2, IInvInit, PTL DEF Spec
-----------------------------------------------------------------------------
(* No fill is forgotten.  Whatever order is still on its way, the engine is  *)
(* waiting for its answer, has noted it for reconciliation, or is dead.      *)

\* The delay is only waited out for a noted attempt, and a dead process owes
\* the sync of its next start.
Waits ==
    /\ pc = "settle" => syncRequired
    /\ pc = "down" => startup

\* Every step keeps Waits.
LEMMA WaitsStep == TypeOK /\ Waits /\ [Next]_vars => Waits'
<1> SUFFICES ASSUME TypeOK, Waits, [Next]_vars PROVE Waits'
  OBVIOUS
<1> USE DEF Waits, TypeOK, tracker
<1>1. CASE StepBegin \/ ConnectOk \/ ConnectFail
  BY <1>1 DEF StepBegin, ConnectOk, ConnectFail
<1>2. ASSUME NEW r \in ReadBook, Sync(r) \/ Check(r) PROVE Waits'
  BY <1>2 DEF Sync, Check
<1>3. CASE Dispatch
  BY <1>3, BranchLabel DEF Dispatch
<1>4. ASSUME NEW ok \in BOOLEAN, HardRead(ok) PROVE Waits'
  BY <1>4, BranchLabel DEF HardRead, DeclareFlat
<1>5. ASSUME NEW t \in toClose, NEW done \in BOOLEAN, CloseOne(t, done)
      PROVE  Waits'
  BY <1>5, BranchLabel DEF CloseOne, DeclareFlat
<1>6. ASSUME NEW r \in ReadBook, Recheck(r) \/ Confirm(r) \/ Reconfirm(r)
      PROVE  Waits'
  BY <1>6 DEF Recheck, Confirm, Reconfirm, ConfirmFlat
<1>7. ASSUME NEW got \in BOOLEAN, Capture(got) \/ Setup(got) PROVE Waits'
  BY <1>7 DEF Capture, Setup
<1>8. ASSUME NEW t \in Tickets, Send(t) PROVE Waits'
  BY <1>8 DEF Send
<1>9. CASE AckSuccess \/ AckRefused \/ AckLost \/ Settled
  BY <1>9 DEF AckSuccess, AckRefused, AckLost, Settled
<1>10. CASE Crash \/ Start
  BY <1>10 DEF Crash, Start
<1>11. ASSUME NEW t \in Tickets, Execute(t) \/ StopOut(t) PROVE Waits'
  BY <1>11 DEF Execute, StopOut
<1>12. CASE Reattach \/ OthersTrade \/ Tick \/ UNCHANGED vars
  BY <1>12 DEF Reattach, OthersTrade, Tick, vars
<1> QED
  BY <1>1, <1>2, <1>3, <1>4, <1>5, <1>6, <1>7, <1>8, <1>9, <1>10, <1>11,
     <1>12 DEF Next, EngineStep, World

\* A step that is none of these leaves what the engine knows and what is open
\* at the broker as they are.
LEMMA TrackedChanges ==
    ASSUME [Next]_vars
    PROVE  \/ UNCHANGED <<state, syncRequired, startup, order>> /\ pc # "ack"
           \/ \E r \in ReadBook : \/ Sync(r) \/ Recheck(r) \/ Confirm(r)
                                  \/ Reconfirm(r) \/ Check(r)
           \/ \E ok \in BOOLEAN : HardRead(ok)
           \/ \E t \in toClose, done \in BOOLEAN : CloseOne(t, done)
           \/ \E t \in Tickets : Send(t) \/ Execute(t) \/ StopOut(t)
           \/ AckSuccess \/ AckRefused \/ AckLost \/ Crash
           \/ UNCHANGED <<state, syncRequired, startup, order, pc>>
<1>1. CASE StepBegin \/ ConnectOk \/ ConnectFail \/ Dispatch
  BY <1>1 DEF StepBegin, ConnectOk, ConnectFail, Dispatch, tracker
<1>2. ASSUME NEW got \in BOOLEAN, Capture(got) \/ Setup(got)
      PROVE  UNCHANGED <<state, syncRequired, startup, order>> /\ pc # "ack"
  BY <1>2 DEF Capture, Setup, tracker
<1>3. CASE Settled \/ Start
  BY <1>3 DEF Settled, Start, tracker
<1>4. CASE Reattach \/ OthersTrade \/ Tick \/ UNCHANGED vars
  BY <1>4 DEF Reattach, OthersTrade, Tick, vars, tracker
<1> QED
  BY <1>1, <1>2, <1>3, <1>4 DEF Next, EngineStep, World

\* Whoever else trades the symbol, on the hub and with orders decided within
\* the post-error delay: from its fill to its end, an order of this engine is
\* managed, noted for reconciliation, being acknowledged, or due to be found
\* by the sync of the next start; only the 16:00 close gives one up.
THEOREM NeverForgetsAFill ==
    ASSUME Guarded
    PROVE  Spec => NoFillForgotten
<1> DEFINE Known == Tracked \/ OpenTickets = {}
           Keeps == pc \notin {"hardRead", "closing"} /\ Known => Known'
<1>1. IInv /\ Waits /\ [Next]_vars => Keeps
  <2> SUFFICES ASSUME IInv, Waits, [Next]_vars, Known,
                      pc \notin {"hardRead", "closing"}
               PROVE  Known'
    OBVIOUS
  <2>0. TypeOK /\ TypeOK'
    BY StepType DEF IInv
  <2>1. CASE UNCHANGED <<state, syncRequired, startup, order>> /\ pc # "ack"
    BY <2>1 DEF Tracked, OpenTickets
  <2>2. ASSUME NEW r \in ReadBook, Sync(r) PROVE Known'
    <3>1. r.ok => OpenTickets \subseteq r.matched
      BY <2>0, ReadMatches DEF Guarded
    <3>2. CASE r.ok
      BY <2>0, <2>2, <3>1, <3>2
         DEF Sync, SyncBook, Adopt, Tracked, OpenTickets, TypeOK
    <3>3. CASE ~r.ok
      BY <2>0, <2>2, <3>3
         DEF Sync, SyncBook, Adopt, Tracked, OpenTickets, tracker
    <3> QED
      BY <3>2, <3>3
  <2>3. ASSUME NEW r \in ReadBook, Recheck(r) \/ Confirm(r) \/ Reconfirm(r)
        PROVE  Known'
    <3>1. r.ok => OpenTickets \subseteq r.matched
      BY <2>0, ReadMatches DEF Guarded
    <3>2. PICK flat \in {"idle", "send"} : ConfirmFlat(r, flat)
      BY <2>3 DEF Recheck, Confirm, Reconfirm
    <3>3. UNCHANGED <<startup, order>> /\ pc # "ack"
      BY <2>3 DEF Recheck, Confirm, Reconfirm, tracker
    <3> QED
      BY <3>1, <3>2, <3>3 DEF ConfirmFlat, Adopt, Tracked, OpenTickets
  <2>4. ASSUME NEW r \in ReadBook, Check(r) PROVE Known'
    <3>1. r.ok => OpenTickets \subseteq r.matched
      BY <2>0, ReadMatches DEF Guarded
    <3> QED
      BY <2>4, <3>1 DEF Check, Tracked, OpenTickets, tracker
  <2>5. ASSUME NEW t \in Tickets, Send(t) PROVE Known'
    BY <2>5 DEF Send, Tracked
  <2>6. ASSUME NEW t \in Tickets, Execute(t) PROVE Known'
    <3>1. UNCHANGED <<state, syncRequired, startup, pc>> /\ order[t] = "sent"
      BY <2>6 DEF Execute, tracker
    <3>2. pc = "down" \/ pc \in {"ack", "settle"}
      BY <3>1 DEF IInv, SentIsPlaced
    <3> QED
      BY <3>1, <3>2 DEF Waits, Tracked
  <2>7. ASSUME NEW t \in Tickets, StopOut(t) PROVE Known'
    <3>1. UNCHANGED <<state, syncRequired, startup, pc>>
      BY <2>7 DEF StopOut, tracker
    <3>2. OpenTickets = {} => OpenTickets' = {}
      BY <2>0, <2>7 DEF StopOut, OpenTickets, TypeOK
    <3> QED
      BY <3>1, <3>2 DEF Tracked
  <2>8. CASE AckSuccess \/ AckRefused \/ AckLost \/ Crash
    BY <2>0, <2>8 DEF AckSuccess, AckRefused, AckLost, Crash, Tracked, TypeOK
  <2>9. CASE \/ \E ok \in BOOLEAN : HardRead(ok)
             \/ \E t \in toClose, done \in BOOLEAN : CloseOne(t, done)
    BY <2>9 DEF HardRead, CloseOne
  <2>10. CASE UNCHANGED <<state, syncRequired, startup, order, pc>>
    BY <2>10 DEF Tracked, OpenTickets
  <2> QED
    BY <2>1, <2>2, <2>3, <2>4, <2>5, <2>6, <2>7, <2>8, <2>9, <2>10,
       TrackedChanges
<1>2. IInv /\ Waits /\ [Next]_vars => (IInv /\ Waits)'
  BY IInvStep, WaitsStep DEF IInv
<1>3. Init => IInv /\ Waits
  BY IInvInit DEF Init, Waits
<1>4. IInv /\ Waits /\ [Next]_vars
        => [/\ OpenTickets' # {}
            /\ OpenTickets = {} \/ Tracked
            /\ pc \notin {"hardRead", "closing"}
            => Tracked']_vars
  BY <1>1
<1> QED
  BY <1>2, <1>3, <1>4, PTL DEF Spec, NoFillForgotten
-----------------------------------------------------------------------------
(* Unknown is not flat.                                                      *)

\* On the hub, where a failed position read raises, no engine takes it for a
\* flat book: it leaves IN_TRADE only over an empty one (or by its 16:00
\* close, or by dying).
THEOREM UnknownIsNotFlat ==
    ASSUME HubMode
    PROVE  Spec => KeepsOnUnknown
<1> DEFINE Leaves == /\ state = "IN_TRADE" /\ state' = "SEARCHING"
                     /\ pc \notin {"hardRead", "closing"} /\ pc' # "down"
<1>1. TypeOK /\ [Next]_vars => (Leaves => OpenTickets = {})
  <2> SUFFICES ASSUME TypeOK, [Next]_vars, Leaves PROVE OpenTickets = {}
    OBVIOUS
  <2>1. ASSUME NEW r \in ReadBook, Check(r) PROVE OpenTickets = {}
    BY <2>1, ReadMatches DEF Check
  <2>2. ASSUME NEW r \in ReadBook,
               Sync(r) \/ Recheck(r) \/ Confirm(r) \/ Reconfirm(r)
        PROVE  FALSE
    <3>1. CASE Sync(r)
      BY <3>1 DEF Sync, SyncBook, Adopt
    <3>2. CASE Recheck(r) \/ Confirm(r) \/ Reconfirm(r)
      BY <3>2 DEF Recheck, Confirm, Reconfirm, ConfirmFlat, Adopt
    <3> QED
      BY <2>2, <3>1, <3>2
  <2>3. ASSUME \/ \E ok \in BOOLEAN : HardRead(ok)
               \/ \E t \in toClose, done \in BOOLEAN : CloseOne(t, done)
               \/ Crash
        PROVE  FALSE
    BY <2>3 DEF HardRead, CloseOne, Crash
  <2>4. CASE UNCHANGED state
    BY <2>4
  <2>5. ASSUME state' # state
        PROVE  \/ \E r \in ReadBook : \/ Check(r) \/ Sync(r) \/ Recheck(r)
                                      \/ Confirm(r) \/ Reconfirm(r)
               \/ \E ok \in BOOLEAN : HardRead(ok)
               \/ \E t \in toClose, done \in BOOLEAN : CloseOne(t, done)
               \/ AckSuccess \/ Crash
    BY <2>5
       DEF Next, EngineStep, World, StepBegin, ConnectOk, ConnectFail,
           Dispatch, Capture, Setup, Send, AckRefused, AckLost, Settled, Start,
           Execute, StopOut, OthersTrade, Reattach, Tick, vars
  <2>6. CASE AckSuccess
    BY <2>6 DEF AckSuccess
  <2> QED
    BY <2>1, <2>2, <2>3, <2>4, <2>5, <2>6
<1>2. TypeOK /\ [Next]_vars => [Leaves => OpenTickets = {}]_vars
  BY <1>1
<1> QED
  BY TypeCorrect, <1>2, PTL DEF Spec, KeepsOnUnknown
-----------------------------------------------------------------------------
(* A sync owed is a sync done first.                                         *)

\* While a sync is owed, a step that knows the phase goes to its managed
\* trade or ends.
LEMMA BranchHolds ==
    ASSUME NEW s \in {"SEARCHING", "IN_TRADE"}, NEW tr, NEW at, Pending
    PROVE  Branch(s, tr, at) \in {"check", "idle"}
BY DEF Branch

\* However reads fail and connections come and go, on the hub and on the
\* direct wrapper, no engine evaluates a setup, reconciles an attempt or
\* sends an order before the book owed since its start or its last
\* reconnect has been read.
THEOREM SyncsFirst == Spec => []PendingHoldsSetup
<1>1. Init => PendingHoldsSetup
  BY DEF Init, PendingHoldsSetup
<1>2. TypeOK /\ PendingHoldsSetup /\ [Next]_vars => PendingHoldsSetup'
  <2> SUFFICES ASSUME TypeOK, PendingHoldsSetup, [Next]_vars
               PROVE  PendingHoldsSetup'
    OBVIOUS
  <2> USE DEF PendingHoldsSetup, tracker
  <2>1. CASE StepBegin \/ ConnectOk \/ ConnectFail
    BY <2>1 DEF StepBegin, ConnectOk, ConnectFail
  <2>2. ASSUME NEW r \in ReadBook, Sync(r) \/ Check(r)
        PROVE  PendingHoldsSetup'
    BY <2>2 DEF Sync, Check
  <2>3. CASE Dispatch
    BY <2>3, BranchHolds DEF Dispatch, Pending, TypeOK
  <2>4. ASSUME NEW ok \in BOOLEAN, HardRead(ok) PROVE PendingHoldsSetup'
    BY <2>4, BranchHolds DEF HardRead, DeclareFlat, Pending
  <2>5. ASSUME NEW t \in toClose, NEW done \in BOOLEAN, CloseOne(t, done)
        PROVE  PendingHoldsSetup'
    BY <2>5, BranchHolds DEF CloseOne, DeclareFlat, Pending
  <2>6. ASSUME NEW r \in ReadBook, Recheck(r) \/ Confirm(r) \/ Reconfirm(r)
        PROVE  PendingHoldsSetup'
    BY <2>6 DEF Recheck, Confirm, Reconfirm
  <2>7. ASSUME NEW got \in BOOLEAN, Capture(got) \/ Setup(got)
        PROVE  PendingHoldsSetup'
    BY <2>7 DEF Capture, Setup
  <2>8. ASSUME NEW t \in Tickets, Send(t) PROVE PendingHoldsSetup'
    BY <2>8 DEF Send
  <2>9. CASE AckSuccess \/ AckRefused \/ AckLost \/ Settled
    BY <2>9 DEF AckSuccess, AckRefused, AckLost, Settled
  <2>10. CASE Crash \/ Start
    BY <2>10 DEF Crash, Start
  <2>11. ASSUME NEW t \in Tickets, Execute(t) \/ StopOut(t)
         PROVE  PendingHoldsSetup'
    BY <2>11 DEF Execute, StopOut
  <2>12. CASE Reattach \/ OthersTrade \/ Tick \/ UNCHANGED vars
    BY <2>12 DEF Reattach, OthersTrade, Tick, vars
  <2> QED
    BY <2>1, <2>2, <2>3, <2>4, <2>5, <2>6, <2>7, <2>8, <2>9, <2>10, <2>11,
       <2>12
       DEF Next, EngineStep, World
<1> QED
  BY TypeCorrect, <1>1, <1>2, PTL DEF Spec
-----------------------------------------------------------------------------
(* One trade per day.  That no entry follows a booked one rests on what the  *)
(* engine still knows of an order sent today: it is the one being            *)
(* acknowledged, or its attempt is unreconciled, or today is done.           *)

\* No trade before the next range: triggered today, or without a range.
Done == dayTriggered \/ ~armed

\* The phases in which an order of today can exist.
Late == {"window", "midday", "close", "night"}

\* What the step knows of the time while it evaluates or closes.
Clocked ==
    /\ pc = "capture" => now = "capture" /\ clock \in {"capture", "gap"}
    /\ pc \in {"setup", "confirm", "send"} =>
            now = "window" /\ clock \in {"window", "midday"}
    /\ pc \in {"hardRead", "closing"} => now = "close"

\* An order sent today was sent in today's window.
Dated ==
    /\ sentToday # {} => clock \in Late
    /\ bookedToday => sentToday # {}

\* An engine on its way to an order manages nothing; one that manages a
\* position has no attempt to reconcile.
Unmanaged ==
    /\ pc \in {"recheck", "setup", "confirm", "send", "ack", "settle",
               "reconfirm"} => state = "SEARCHING"
    /\ state = "IN_TRADE" =>
            ~syncRequired /\ (active \in sentToday => bookedToday)

\* Every order of today that may still come to be managed is accounted for.
Counted ==
    engine = "Gold" =>
        /\ bookedToday => Done
        /\ pc \in {"setup", "confirm", "send"} => armed /\ ~dayTriggered
        /\ \A t \in sentToday : Live(t) => syncRequired \/ Done \/ pc = "ack"

DayInv == IInv /\ Clocked /\ Dated /\ Unmanaged /\ Counted

\* The day moves from window to night and only then to midnight; the capture
\* is followed by the gap.
LEMMA NextPhases ==
    /\ NextPhase["capture"] = "gap"
    /\ NextPhase["window"] = "midday" /\ NextPhase["midday"] = "close"
    /\ NextPhase["close"] = "night" /\ NextPhase["night"] = "midnight"
BY DEF Phases, NextPhase

\* Where step() goes, and what it has checked when it goes there.
LEMMA BranchGuards ==
    ASSUME NEW s \in {"SEARCHING", "IN_TRADE"}, NEW tr \in BOOLEAN,
           NEW at \in Phases, TypeOK
    PROVE  /\ Branch(s, tr, at) = "capture" => at = "capture"
           /\ Branch(s, tr, at) = "setup" =>
                /\ at = "window" /\ s = "SEARCHING"
                /\ engine = "Gold" => armed /\ ~tr
           /\ Branch(s, tr, at) = "recheck" => s = "SEARCHING"
BY DEF Branch, TypeOK

\* Every step keeps what the step knows of the time.
LEMMA ClockedStep == DayInv /\ [Next]_vars => Clocked'
<1> SUFFICES ASSUME DayInv, [Next]_vars PROVE Clocked'
  OBVIOUS
<1>0. TypeOK /\ TypeOK' /\ Clocked
  BY StepType DEF DayInv, IInv
<1> USE DEF Clocked
<1>1. CASE StepBegin \/ ConnectOk \/ ConnectFail
  BY <1>1 DEF StepBegin, ConnectOk, ConnectFail
<1>2. ASSUME NEW r \in ReadBook, Sync(r) \/ Check(r) PROVE Clocked'
  BY <1>2 DEF Sync, Check
<1>3. CASE Dispatch
  <2>1. CASE clock = "close" /\ state = "IN_TRADE"
    BY <1>3, <2>1 DEF Dispatch
  <2>2. CASE ~(clock = "close" /\ state = "IN_TRADE")
    <3>1. pc' = Branch(state, dayTriggered', clock) /\ now' = clock
          /\ clock' = clock
      BY <1>3, <2>2 DEF Dispatch
    <3> QED
      BY <1>0, <3>1, BranchLabel, BranchGuards DEF TypeOK
  <2> QED
    BY <2>1, <2>2
<1>4. ASSUME DeclareFlat, now = "close", UNCHANGED <<now, clock, dayTriggered>>
      PROVE  Clocked'
  <2>1. pc' = Branch("SEARCHING", dayTriggered, "close")
    BY <1>4 DEF DeclareFlat
  <2>2. "close" \in Phases
    BY DEF Phases
  <2>3. pc' \notin {"capture", "setup", "confirm", "send"}
    BY <1>0, <2>1, <2>2, BranchLabel, BranchGuards DEF TypeOK
  <2> QED
    BY <1>4, <2>3
<1>5. ASSUME NEW ok \in BOOLEAN, HardRead(ok) PROVE Clocked'
  BY <1>0, <1>4, <1>5 DEF HardRead, goldVars
<1>6. ASSUME NEW t \in toClose, NEW done \in BOOLEAN, CloseOne(t, done)
      PROVE  Clocked'
  BY <1>0, <1>4, <1>6 DEF CloseOne, goldVars
<1>7. ASSUME NEW r \in ReadBook, Recheck(r) \/ Confirm(r) \/ Reconfirm(r)
      PROVE  Clocked'
  BY <1>0, <1>7 DEF Recheck, Confirm, Reconfirm, ConfirmFlat, local
<1>8. ASSUME NEW got \in BOOLEAN, Capture(got) \/ Setup(got) PROVE Clocked'
  BY <1>0, <1>8 DEF Capture, Setup, local
<1>9. ASSUME NEW t \in Tickets, Send(t) PROVE Clocked'
  BY <1>9 DEF Send
<1>10. CASE AckSuccess \/ AckRefused \/ AckLost \/ Settled
  BY <1>10 DEF AckSuccess, AckRefused, AckLost, Settled
<1>11. CASE Crash \/ Start
  BY <1>11 DEF Crash, Start
<1>12. ASSUME NEW t \in Tickets, Execute(t) \/ StopOut(t) PROVE Clocked'
  BY <1>0, <1>12 DEF Execute, StopOut, local
<1>13. CASE Reattach \/ OthersTrade \/ UNCHANGED vars
  BY <1>0, <1>13 DEF Reattach, OthersTrade, vars, local
<1>14. CASE Tick
  BY <1>0, <1>14, NextPhases DEF Tick, local
<1> QED
  BY <1>1, <1>2, <1>3, <1>5, <1>6, <1>7, <1>8, <1>9, <1>10, <1>11, <1>12,
     <1>13, <1>14 DEF Next, EngineStep, World

\* The ghost counts every step that starts to manage an order of today.
LEMMA BookCounts ==
    ASSUME TypeOK, TypeOK', Book
    PROVE  bookedToday' <=> bookedToday \/ (state' = "IN_TRADE"
                                            /\ active' \in sentToday)
BY DEF Book, TypeOK

\* Every step keeps today's orders in today.
LEMMA DatedStep == DayInv /\ [Next]_vars => Dated'
<1> SUFFICES ASSUME DayInv, [Next]_vars PROVE Dated'
  OBVIOUS
<1>0. Dated /\ Clocked /\ TypeOK /\ TypeOK'
  BY StepType DEF DayInv, IInv
<1>1. ASSUME clock' = clock, sentToday' = sentToday,
             bookedToday' = bookedToday \/ Book
      PROVE  Dated'
  BY <1>0, <1>1, BookCounts DEF Dated
<1>2. ASSUME NEW t \in Tickets, Send(t) PROVE Dated'
  BY <1>0, <1>2 DEF Send, Dated, Clocked, Late
<1>3. CASE Tick
  <2>1. CASE clock' = "midnight"
    BY <1>3, <2>1 DEF Tick, Dated
  <2>2. CASE clock' # "midnight"
    <3>1. clock' = NextPhase[clock] /\ sentToday' = sentToday
          /\ bookedToday' = bookedToday
      BY <1>3, <2>2 DEF Tick
    <3>2. clock \in Late => clock' \in Late
      BY <2>2, <3>1, NextPhases DEF Late
    <3> QED
      BY <1>0, <3>1, <3>2 DEF Dated
  <2> QED
    BY <2>1, <2>2
<1>4. ASSUME NEW r \in ReadBook,
             Sync(r) \/ Recheck(r) \/ Confirm(r) \/ Reconfirm(r) \/ Check(r)
      PROVE  Dated'
  BY <1>1, <1>4 DEF Sync, Recheck, Confirm, Reconfirm, Check
<1>5. CASE AckSuccess
  BY <1>1, <1>5 DEF AckSuccess
<1>6. ASSUME NEW ok \in BOOLEAN, HardRead(ok) \/ Capture(ok) \/ Setup(ok)
      PROVE  Dated'
  BY <1>1, <1>6 DEF HardRead, Capture, Setup
<1>7. ASSUME NEW t \in toClose, NEW done \in BOOLEAN, CloseOne(t, done)
      PROVE  Dated'
  BY <1>1, <1>7 DEF CloseOne
<1>8. CASE StepBegin \/ ConnectOk \/ ConnectFail \/ Dispatch
  BY <1>1, <1>8 DEF StepBegin, ConnectOk, ConnectFail, Dispatch
<1>9. CASE AckRefused \/ AckLost \/ Settled
  BY <1>1, <1>9 DEF AckRefused, AckLost, Settled
<1>10. ASSUME NEW t \in Tickets, Execute(t) \/ StopOut(t) PROVE Dated'
  BY <1>1, <1>10 DEF Execute, StopOut
<1>11. CASE Crash \/ Start \/ Reattach \/ OthersTrade \/ UNCHANGED vars
  BY <1>1, <1>11 DEF Crash, Start, Reattach, OthersTrade, vars
<1> QED
  BY <1>2, <1>3, <1>4, <1>5, <1>6, <1>7, <1>8, <1>9, <1>10, <1>11
     DEF Next, EngineStep, World

\* Every step keeps apart the way to an order and a managed position.
LEMMA UnmanagedStep == DayInv /\ [Next]_vars => Unmanaged'
<1> SUFFICES ASSUME DayInv, [Next]_vars PROVE Unmanaged'
  OBVIOUS
<1>0. TypeOK /\ TypeOK' /\ Unmanaged /\ Dated
  BY StepType DEF DayInv, IInv
<1> USE DEF Unmanaged, TypeOK
<1>1. CASE StepBegin \/ ConnectOk \/ ConnectFail
  BY <1>0, <1>1 DEF StepBegin, ConnectOk, ConnectFail
<1>2. ASSUME NEW r \in ReadBook, Sync(r) \/ Check(r) PROVE Unmanaged'
  <2>1. Book /\ sentToday' = sentToday /\ pc' \in {"dispatch", "idle"}
    BY <1>2 DEF Sync, Check
  <2>2. state' = "IN_TRADE" => ~syncRequired'
    BY <1>0, <1>2 DEF Sync, SyncBook, Adopt, Check
  <2>3. state' = "IN_TRADE" /\ active' \in sentToday' => bookedToday'
    BY <1>0, <2>1, BookCounts
  <2> QED
    BY <2>1, <2>2, <2>3
<1>3. CASE Dispatch
  <2>1. CASE clock = "close" /\ state = "IN_TRADE"
    BY <1>0, <1>3, <2>1 DEF Dispatch
  <2>2. CASE ~(clock = "close" /\ state = "IN_TRADE")
    <3>1. pc' = Branch(state, dayTriggered', clock)
      BY <1>3, <2>2 DEF Dispatch
    <3>2. state \in {"SEARCHING", "IN_TRADE"} /\ dayTriggered' \in BOOLEAN
          /\ clock \in Phases
      BY <1>0 DEF TypeOK
    <3>3. pc' \in {"recheck", "setup", "confirm", "send", "ack", "settle",
                   "reconfirm"} => state = "SEARCHING"
      BY <1>0, <3>1, <3>2, BranchLabel, BranchGuards
    <3> QED
      BY <1>0, <1>3, <3>3 DEF Dispatch
  <2> QED
    BY <2>1, <2>2
<1>4. CASE state' = "SEARCHING"
  BY <1>4
<1>5. ASSUME NEW ok \in BOOLEAN, HardRead(ok) PROVE Unmanaged'
  BY <1>0, <1>4, <1>5 DEF HardRead, DeclareFlat
<1>6. ASSUME NEW t \in toClose, NEW done \in BOOLEAN, CloseOne(t, done)
      PROVE  Unmanaged'
  <2>1. CASE UNCHANGED <<pc, state, active>>
    BY <1>0, <1>6, <2>1 DEF CloseOne
  <2>2. CASE DeclareFlat
    BY <1>4, <2>2 DEF DeclareFlat
  <2> QED
    BY <1>6, <2>1, <2>2 DEF CloseOne
<1>7. ASSUME NEW r \in ReadBook, Recheck(r) \/ Confirm(r) \/ Reconfirm(r)
      PROVE  Unmanaged'
  <2>1. PICK flat \in {"idle", "send"} : ConfirmFlat(r, flat)
    BY <1>7 DEF Recheck, Confirm, Reconfirm
  <2>2. Book /\ state = "SEARCHING" /\ sentToday' = sentToday
    BY <1>0, <1>7 DEF Recheck, Confirm, Reconfirm
  <2> QED
    BY <1>0, <1>4, <2>1, <2>2 DEF ConfirmFlat, Adopt, Book
<1>8. ASSUME NEW got \in BOOLEAN, Capture(got) \/ Setup(got)
      PROVE  Unmanaged'
  BY <1>0, <1>8 DEF Capture, Setup
<1>9. ASSUME NEW t \in Tickets, Send(t) PROVE Unmanaged'
  BY <1>0, <1>4, <1>9 DEF Send
<1>10. CASE AckSuccess
  BY <1>10 DEF AckSuccess, Book
<1>11. CASE AckRefused \/ AckLost \/ Settled
  BY <1>0, <1>4, <1>11 DEF AckRefused, AckLost, Settled
<1>12. CASE Crash
  BY <1>4, <1>12 DEF Crash
<1>13. CASE Start \/ Reattach \/ OthersTrade \/ UNCHANGED vars
  BY <1>0, <1>13 DEF Start, Reattach, OthersTrade, vars
<1>14. ASSUME NEW t \in Tickets, Execute(t) \/ StopOut(t) PROVE Unmanaged'
  BY <1>0, <1>14 DEF Execute, StopOut
<1>15. CASE Tick
  BY <1>0, <1>15 DEF Tick
<1> QED
  BY <1>1, <1>2, <1>3, <1>5, <1>6, <1>7, <1>8, <1>9, <1>10, <1>11, <1>12,
     <1>13, <1>14, <1>15 DEF Next, EngineStep, World

\* Every step keeps every order of today accounted for.
LEMMA CountedStep == Guarded /\ DayInv /\ [Next]_vars => Counted'
<1> SUFFICES ASSUME Guarded, DayInv, [Next]_vars, engine' = "Gold"
             PROVE  /\ bookedToday' => Done'
                    /\ pc' \in {"setup", "confirm", "send"} =>
                            armed' /\ ~dayTriggered'
                    /\ \A t \in sentToday' :
                         Live(t)' => syncRequired' \/ Done' \/ pc' = "ack"
  BY DEF Counted
<1> DEFINE Goal == /\ bookedToday' => Done'
                   /\ pc' \in {"setup", "confirm", "send"} =>
                           armed' /\ ~dayTriggered'
                   /\ \A t \in sentToday' :
                        Live(t)' => syncRequired' \/ Done' \/ pc' = "ack"
<1>0. /\ TypeOK /\ TypeOK' /\ IInv /\ Clocked /\ Dated /\ Unmanaged
      /\ Counted /\ engine = "Gold"
  <2>1. engine' = engine
    BY DEF Next, EngineStep, World, StepBegin, ConnectOk, ConnectFail, Sync,
           Dispatch, HardRead, CloseOne, Recheck, Capture, Setup, Confirm,
           Send, AckSuccess, AckRefused, AckLost, Settled, Reconfirm, Check,
           Crash, Start, Execute, StopOut, OthersTrade, Reattach, Tick, vars
  <2> QED
    BY <2>1, StepType DEF DayInv, IInv
<1>1. /\ bookedToday => Done
      /\ pc \in {"setup", "confirm", "send"} => armed /\ ~dayTriggered
      /\ \A t \in sentToday : Live(t) => syncRequired \/ Done \/ pc = "ack"
  BY <1>0 DEF Counted
<1>2. ASSUME UNCHANGED <<goldVars, sentToday, bookedToday, syncRequired,
                         order>>,
             pc # "ack", pc' \notin {"confirm", "send"},
             pc' = "setup" => armed /\ ~dayTriggered
      PROVE  Goal
  BY <1>0, <1>1, <1>2 DEF Done, Live, goldVars, TypeOK
<1>3. CASE StepBegin \/ ConnectOk \/ ConnectFail
  BY <1>2, <1>3 DEF StepBegin, ConnectOk, ConnectFail
<1>4. CASE Dispatch
  <2>1. /\ UNCHANGED <<armed, sentToday, bookedToday, syncRequired, order>>
        /\ pc = "dispatch"
    BY <1>4 DEF Dispatch
  <2>2. CASE clock = "midnight"
    <3>1. sentToday = {} /\ ~bookedToday
      BY <1>0, <2>2 DEF Dated, Late
    <3>2. pc' = Branch(state, dayTriggered', clock)
      BY <1>4, <2>2 DEF Dispatch
    <3>3. pc' \notin {"setup", "confirm", "send"}
      BY <1>0, <2>2, <3>2, BranchLabel, BranchGuards DEF TypeOK
    <3> QED
      BY <1>0, <2>1, <3>1, <3>3 DEF TypeOK
  <2>3. CASE clock # "midnight"
    <3>1. dayTriggered' = dayTriggered
      BY <1>0, <1>4, <2>3 DEF Dispatch, TypeOK
    <3>2. \/ pc' = "hardRead"
          \/ pc' = Branch(state, dayTriggered', clock)
      BY <1>4 DEF Dispatch
    <3>3. /\ pc' \notin {"confirm", "send"}
          /\ pc' = "setup" => armed /\ ~dayTriggered
      BY <1>0, <3>1, <3>2, BranchLabel, BranchGuards DEF TypeOK
    <3> QED
      BY <1>2, <2>1, <3>1, <3>3 DEF goldVars
  <2> QED
    BY <2>2, <2>3
<1>5. ASSUME DeclareFlat, now = "close"
      PROVE  pc' \notin {"setup", "confirm", "send"}
  BY <1>0, <1>5, BranchLabel, BranchGuards DEF DeclareFlat, TypeOK, Phases
<1>6. ASSUME NEW ok \in BOOLEAN, HardRead(ok) PROVE Goal
  BY <1>0, <1>2, <1>5, <1>6 DEF HardRead, Clocked
<1>7. ASSUME NEW t \in toClose, NEW done \in BOOLEAN, CloseOne(t, done)
      PROVE  Goal
  <2>1. pc' \notin {"setup", "confirm", "send"} /\ pc = "closing"
    BY <1>0, <1>5, <1>7 DEF CloseOne, Clocked
  <2>2. \A u \in Tickets : Live(u)' => Live(u)
    BY <1>0, <1>7 DEF CloseOne, TypeOK, Live
  <2>3. UNCHANGED <<goldVars, sentToday, bookedToday, syncRequired>>
    BY <1>7 DEF CloseOne
  <2> QED
    BY <1>0, <1>1, <2>1, <2>2, <2>3 DEF Done, goldVars, TypeOK
<1>8. ASSUME NEW t \in Position, Adopt(t), Book,
             t \in Tickets => order[t] = "open",
             UNCHANGED <<sentToday, order>>, pc # "ack",
             pc' \notin {"setup", "confirm", "send"}
      PROVE  Goal
  <2>1. Done => Done'
    BY <1>0, <1>8 DEF Adopt, Done, goldVars, TypeOK
  <2>2. syncRequired => Done'
    BY <1>0, <1>8 DEF Adopt, Done, TypeOK
  <2>3. bookedToday' => bookedToday \/ t \in sentToday
    BY <1>0, <1>8, BookCounts DEF Adopt
  <2>4. bookedToday' => Done'
    <3>1. t \in sentToday => Live(t)
      BY <1>0, <1>8 DEF Live, TypeOK
    <3> QED
      BY <1>0, <1>1, <1>8, <2>1, <2>2, <2>3, <3>1
  <2>5. ASSUME NEW u \in sentToday', Live(u)' PROVE Done'
    BY <1>0, <1>1, <1>8, <2>1, <2>2, <2>5 DEF Live
  <2> QED
    BY <1>8, <2>4, <2>5
<1>9. ASSUME NEW r \in ReadBook, Sync(r) PROVE Goal
  <2>1. /\ r.matched \subseteq Position
        /\ \A t \in r.matched : t \in Tickets => order[t] = "open"
    BY <1>0, ReadMatches
  <2>2. /\ Book /\ UNCHANGED <<sentToday, order>>
        /\ pc = "sync" /\ pc' = "dispatch"
    BY <1>9 DEF Sync
  <2>3. CASE /\ r.matched = {}
             /\ UNCHANGED <<state, active, syncRequired, goldVars>>
    <3>1. bookedToday' = bookedToday
      BY <1>0, <2>2, <2>3, BookCounts DEF Unmanaged, TypeOK
    <3> QED
      BY <1>2, <2>2, <2>3, <3>1
  <2>4. ASSUME NEW t \in r.matched, Adopt(t) PROVE Goal
    BY <1>8, <2>1, <2>2, <2>4
  <2>5. CASE /\ state = "IN_TRADE" /\ active' \in r.matched
             /\ UNCHANGED <<state, syncRequired, goldVars>>
    <3>1. ~syncRequired /\ (active' \in Tickets => order[active'] = "open")
      BY <1>0, <2>1, <2>5 DEF Unmanaged
    <3>2. bookedToday' => Done
      BY <1>0, <1>1, <2>2, <3>1, BookCounts DEF Live, TypeOK
    <3> QED
      BY <1>0, <1>1, <2>2, <2>5, <3>1, <3>2
         DEF Done, goldVars, Live, TypeOK
  <2> QED
    BY <1>9, <2>3, <2>4, <2>5 DEF Sync, SyncBook
<1>10. ASSUME NEW r \in ReadBook, Check(r) PROVE Goal
  <2>1. /\ r.matched \subseteq Position
        /\ \A t \in r.matched : t \in Tickets => order[t] = "open"
    BY <1>0, ReadMatches
  <2>2. /\ Book /\ pc = "check" /\ pc' = "idle"
        /\ UNCHANGED <<sentToday, order, goldVars, syncRequired>>
    BY <1>10 DEF Check
  <2>3. bookedToday' => Done
    <3>1. CASE UNCHANGED <<state, active>>
      BY <1>0, <1>1, <2>2, <3>1, BookCounts DEF Unmanaged
    <3>2. CASE state' = "SEARCHING"
      BY <1>0, <1>1, <2>2, <3>2, BookCounts
    <3>3. CASE active' \in r.matched /\ UNCHANGED state
      BY <1>0, <1>1, <2>1, <2>2, <3>3, BookCounts DEF Unmanaged, Live, TypeOK
    <3> QED
      BY <1>10, <3>1, <3>2, <3>3 DEF Check
  <2> QED
    BY <1>0, <1>1, <2>2, <2>3 DEF Done, goldVars, Live, TypeOK
<1>11. ASSUME NEW r \in ReadBook, Recheck(r) \/ Confirm(r) \/ Reconfirm(r)
       PROVE  Goal
  <2>1. PICK flat \in {"idle", "send"} :
            ConfirmFlat(r, flat) /\ (flat = "send" => pc = "confirm")
    BY <1>11 DEF Recheck, Confirm, Reconfirm
  <2>2. /\ Book /\ UNCHANGED <<sentToday, order>>
        /\ pc \in {"recheck", "confirm", "reconfirm"} /\ state = "SEARCHING"
    BY <1>0, <1>11 DEF Recheck, Confirm, Reconfirm, Unmanaged
  <2>3. /\ r.matched \subseteq Position
        /\ \A t \in r.matched : t \in Tickets => order[t] = "open"
        /\ r.ok /\ r.matched = {} => OpenTickets = {}
    BY <1>0, ReadMatches DEF Guarded
  <2>4. CASE /\ r.ok /\ r.matched = {} /\ syncRequired' = FALSE /\ pc' = flat
             /\ UNCHANGED <<state, active, goldVars>>
    <3>1. \A t \in Tickets : ~Live(t)
      BY <1>0, <2>2, <2>3, <2>4, EmptyReadClears
    <3>2. bookedToday' <=> bookedToday
      BY <1>0, <2>2, <2>4, BookCounts
    <3> QED
      BY <1>0, <1>1, <2>1, <2>2, <2>4, <3>1, <3>2
         DEF Done, goldVars, Live, TypeOK
  <2>5. ASSUME NEW t \in r.matched, Adopt(t), pc' = "idle" PROVE Goal
    BY <1>8, <2>2, <2>3, <2>5
  <2>6. CASE ~r.ok /\ pc' = "idle"
             /\ UNCHANGED <<state, active, syncRequired, goldVars>>
    <3>1. bookedToday' = bookedToday
      BY <1>0, <2>2, <2>6, BookCounts DEF TypeOK
    <3> QED
      BY <1>2, <2>2, <2>6, <3>1
  <2> QED
    BY <2>1, <2>4, <2>5, <2>6 DEF ConfirmFlat
<1>12. ASSUME NEW got \in BOOLEAN, Capture(got) PROVE Goal
  <2>1. sentToday = {} /\ ~bookedToday
    BY <1>0, <1>12 DEF Capture, Clocked, Dated, Late
  <2> QED
    BY <1>0, <1>12, <2>1 DEF Capture, TypeOK
<1>13. ASSUME NEW triggered \in BOOLEAN, Setup(triggered) PROVE Goal
  BY <1>0, <1>1, <1>13 DEF Setup, Done, Live, goldVars, TypeOK
<1>14. ASSUME NEW t \in Tickets, Send(t) PROVE Goal
  BY <1>0, <1>1, <1>14 DEF Send, Done, goldVars, TypeOK
<1>15. CASE AckSuccess
  BY <1>0, <1>15 DEF AckSuccess, Done, TypeOK
<1>16. CASE AckRefused \/ AckLost
  BY <1>0, <1>1, <1>16 DEF AckRefused, AckLost, Done, goldVars, TypeOK
<1>17. CASE Settled
  BY <1>2, <1>17 DEF Settled
<1>18. CASE Crash
  BY <1>0, <1>18 DEF Crash, Done, TypeOK
<1>19. CASE Start
  BY <1>2, <1>19 DEF Start
<1>20. ASSUME NEW t \in Tickets, Execute(t) \/ StopOut(t) PROVE Goal
  <2>1. /\ UNCHANGED <<pc, goldVars, sentToday, bookedToday, syncRequired>>
        /\ Live(t)
    BY <1>20 DEF Execute, StopOut, Live
  <2>2. \A u \in Tickets : Live(u)' => Live(u)
    BY <1>0, <1>20, <2>1 DEF Execute, StopOut, TypeOK, Live
  <2> QED
    BY <1>0, <1>1, <2>1, <2>2 DEF Done, goldVars, TypeOK
<1>21. CASE Reattach \/ OthersTrade \/ UNCHANGED vars
  BY <1>0, <1>1, <1>21
     DEF Reattach, OthersTrade, vars, Done, Live, goldVars, TypeOK
<1>22. CASE Tick
  BY <1>0, <1>1, <1>22 DEF Tick, Done, Live, goldVars, TypeOK
<1> QED
  BY <1>3, <1>4, <1>6, <1>7, <1>9, <1>10, <1>11, <1>12, <1>13, <1>14, <1>15,
     <1>16, <1>17, <1>18, <1>19, <1>20, <1>21, <1>22
     DEF Next, EngineStep, World

\* On the hub, with orders decided within the post-error delay, Gold sends
\* no second entry on a day it has managed a fill of: however the first
\* acknowledgement was lost, by whichever read the fill was adopted and
\* however often the process was restarted since.
THEOREM OneTradeADay ==
    ASSUME Guarded
    PROVE  Spec => []OneTradePerDay
<1>1. Init => DayInv
  <2> SUFFICES ASSUME Init PROVE DayInv
    OBVIOUS
  <2>1. IInv
    BY IInvInit
  <2> QED
    BY <2>1 DEF DayInv, Init, Clocked, Dated, Unmanaged, Counted
<1>2. DayInv /\ [Next]_vars => DayInv'
  BY IInvStep, ClockedStep, DatedStep, UnmanagedStep, CountedStep DEF DayInv
<1>3. DayInv => OneTradePerDay
  BY DEF DayInv, IInv, TypeOK, Counted, Done, OneTradePerDay
<1> QED
  BY <1>1, <1>2, <1>3, PTL DEF Spec
=============================================================================
