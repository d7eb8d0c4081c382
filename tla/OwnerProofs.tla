----------------------------- MODULE OwnerProofs -----------------------------
(***************************************************************************)
(* Proofs about the owner.  First SyncOwner, for any number of requests:    *)
(* what holds of the slot and of the orders, and that the owner implements  *)
(* SyncSlot.  Then the candle fetch of CandleFlight: at most one is under   *)
(* way, somebody waits for it, and nobody waits for nothing.                *)
(***************************************************************************)
EXTENDS SyncOwner, CandleFlight, FiniteSetTheorems, TLAPS

\* Orders are neither gated nor recovered: they know four awaits only.
OrderLabels == \A m \in Mutators : pc[m] \in {"idle", "ensure", "rpc", "invoke"}

\* A reader that pauses has an attempt left.
PauseLeft ==
    \A p \in Procs : pc[p] = "pause" => p \in Readers /\ tries[p] < ReadAttempts

TypeInv == TypeOK /\ OrderLabels /\ PauseLeft

\* What the holder of _sync_lock is doing says what the slot is, and while
\* there is one nobody believes to be connected.
HolderInv ==
    /\ syncLock = Nobody <=> phase = "none"
    /\ syncLock # Nobody => pc[syncLock] \in {"ensure", "recover"} /\ ~connected
    /\ phase \in {"attempt", "backoff"} => slot = "none"
    /\ phase = "opening" => slot = "opening"

\* One order at a time is with the broker.
OneOrder ==
    \A m, n \in Mutators : pc[m] = "invoke" /\ pc[n] = "invoke" => m = n

\* A call that has not reached its broker call has sent nothing.
SentInInvoke ==
    \A m \in Mutators : submits[m] = 0 \/ (submits[m] = 1 /\ pc[m] = "invoke")

SlotInv == TypeInv /\ HolderInv /\ ConnectedHasStream
OrderInv == OneOrder /\ SentInInvoke /\ NoTwinOrder

USE OwnerAssumption DEF orders
-----------------------------------------------------------------------------
(* Types.                                                                   *)

\* The first attempt of everything is allowed.
LEMMA FirstAttempt == 1 \in 1..ReadAttempts /\ 1 \in 1..MaxSyncAttempts
OBVIOUS

\* The initial state is of the right type.
LEMMA InitType == Init => TypeInv
<1> SUFFICES ASSUME Init PROVE TypeInv
  OBVIOUS
<1> USE FirstAttempt DEF Init
<1>1. pc \in [Procs -> Labels]
  BY DEF Labels
<1>2. phase \in Phases
  BY DEF Phases
<1>3. submits \in [Mutators -> Nat]
  OBVIOUS
<1>4. OrderLabels /\ PauseLeft
  BY DEF OrderLabels, PauseLeft, Procs
<1> QED
  BY <1>1, <1>2, <1>3, <1>4 DEF TypeInv, TypeOK

\* Every step keeps the types.
LEMMA StepType == TypeInv /\ [Next]_vars => TypeOK'
<1> SUFFICES ASSUME TypeInv, [Next]_vars PROVE TypeOK'
  OBVIOUS
<1> USE FirstAttempt DEF TypeInv
<1> USE DEF TypeOK, Labels, Phases, Procs
<1>1. ASSUME NEW p \in Procs, Return(p)
      PROVE  /\ pc' \in [Procs -> Labels]
             /\ tries' \in [Readers -> 1..ReadAttempts]
             /\ moved' \in [Readers -> BOOLEAN]
             /\ broken' \in [Procs -> BOOLEAN]
             /\ submits' \in [Mutators -> Nat]
  <2>1. pc' \in [Procs -> Labels] /\ broken' \in [Procs -> BOOLEAN]
    BY <1>1 DEF Return
  <2>2. tries' \in [Readers -> 1..ReadAttempts] /\ moved' \in [Readers -> BOOLEAN]
    BY <1>1 DEF Return
  <2>3. submits' \in [Mutators -> Nat]
    BY <1>1 DEF Return
  <2> QED
    BY <2>1, <2>2, <2>3
<1>2. ASSUME NEW p \in Procs, Proceed(p)
      PROVE  pc' \in [Procs -> Labels] /\ moved' \in [Readers -> BOOLEAN]
  BY <1>2 DEF Proceed
<1>3. ASSUME StreamGone PROVE broken' \in [Procs -> BOOLEAN]
  BY <1>3 DEF StreamGone, Invoking
<1>4. ASSUME CloseStream
      PROVE  /\ broken' \in [Procs -> BOOLEAN]
             /\ slot' = "none"
             /\ leaked' \in BOOLEAN
  BY <1>3, <1>4 DEF CloseStream
<1>5. ASSUME NEW p \in Procs, Call(p) PROVE TypeOK'
  BY <1>5 DEF Call, syncVars
<1>6. ASSUME NEW p \in Procs, Task(p) PROVE TypeOK'
  <2>1. CASE AlreadyConnected(p)
    BY <2>1, <1>2 DEF AlreadyConnected, syncVars
  <2>2. CASE TakeToConnect(p)
    BY <2>2 DEF TakeToConnect, taskVars
  <2>3. CASE TakeToRecover(p)
    BY <2>3 DEF TakeToRecover, taskVars
  <2>4. CASE AlreadyRecovered(p)
    BY <2>4 DEF AlreadyRecovered, syncVars
  <2>5. CASE ReleaseSlot(p)
    BY <2>5, <1>4 DEF ReleaseSlot
  <2>6. CASE OpenStream(p)
    BY <2>6 DEF OpenStream, taskVars
  <2>7. CASE Synchronized(p)
    BY <2>7, <1>2 DEF Synchronized
  <2>8. CASE SyncFailed(p)
    BY <2>8, <1>4 DEF SyncFailed
  <2>9. CASE Backoff(p)
    <3>1. CASE attempt < MaxSyncAttempts
      <4>1. attempt + 1 \in 1..MaxSyncAttempts
        BY <3>1
      <4> QED
        BY <2>9, <3>1, <4>1 DEF Backoff, taskVars
    <3>2. CASE ~(attempt < MaxSyncAttempts)
      BY <2>9, <3>2, <1>1 DEF Backoff
    <3> QED
      BY <3>1, <3>2
  <2>10. CASE EnterGate(p)
    BY <2>10 DEF EnterGate, Begin, syncVars
  <2>11. CASE ReadReturns(p)
    BY <2>11, <1>1 DEF ReadReturns, syncVars
  <2>12. CASE ReadDisconnected(p)
    BY <2>12, <1>1 DEF ReadDisconnected, syncVars
  <2>13. CASE ReadFails(p)
    BY <2>13, <1>1 DEF ReadFails, syncVars
  <2>14. CASE ReadAgain(p)
    <3>1. p \in Readers /\ tries[p] + 1 \in 1..ReadAttempts
      BY <2>14 DEF ReadAgain, PauseLeft
    <3> QED
      BY <2>14, <3>1 DEF ReadAgain, syncVars
  <2>15. CASE Duplicate(p)
    BY <2>15, <1>1 DEF Duplicate, syncVars
  <2>16. CASE Submit(p)
    <3>1. submits' \in [Mutators -> Nat]
      <4>1. \/ submits' = [submits EXCEPT ![p] = submits[p] + 1]
            \/ submits' = [submits EXCEPT ![p] = submits[p]]
        BY <2>16 DEF Submit
      <4>2. \A m \in Mutators : submits[m] + 1 \in Nat
        OBVIOUS
      <4> QED
        BY <4>1, <4>2
    <3>2. pc' \in [Procs -> Labels] /\ broken' \in [Procs -> BOOLEAN]
      BY <2>16 DEF Submit, Begin
    <3> QED
      BY <2>16, <3>1, <3>2 DEF Submit, syncVars
  <2>17. CASE OrderDone(p)
    BY <2>17, <1>1 DEF OrderDone, syncVars
  <2>18. CASE OrderDisconnected(p)
    BY <2>18, <1>1 DEF OrderDisconnected, GivenUp
  <2>19. CASE OrderFails(p)
    BY <2>19, <1>1 DEF OrderFails, GivenUp, syncVars
  <2> QED
    BY <1>6, <2>1, <2>2, <2>3, <2>4, <2>5, <2>6, <2>7, <2>8, <2>9, <2>10,
       <2>11, <2>12, <2>13, <2>14, <2>15, <2>16, <2>17, <2>18, <2>19
       DEF Task, OwnStep, CallReturns
<1>7. ASSUME NEW p \in Candles, Cancel(p) PROVE TypeOK'
  BY <1>7, <1>1 DEF Cancel
<1>8. CASE Lose
  BY <1>8, <1>3 DEF Lose, syncVars
<1>9. CASE LeakEnds
  BY <1>9 DEF LeakEnds, taskVars, syncVars
<1>10. CASE WindowEnds \/ Decided
  BY <1>10 DEF WindowEnds, Decided, taskVars, syncVars
<1>11. CASE UNCHANGED vars
  BY <1>11 DEF vars, taskVars, syncVars
<1> QED
  BY <1>5, <1>6, <1>7, <1>8, <1>9, <1>10, <1>11 DEF Next

\* Every step keeps the awaits of readers and orders apart, and a pause is
\* only taken with an attempt left.
LEMMA StepLabels == TypeInv /\ [Next]_vars => OrderLabels' /\ PauseLeft'
<1> SUFFICES ASSUME TypeInv, [Next]_vars PROVE OrderLabels' /\ PauseLeft'
  OBVIOUS
<1> USE DEF TypeInv, TypeOK, OrderLabels, PauseLeft, Procs
<1>1. ASSUME NEW p \in Procs, Return(p) PROVE OrderLabels' /\ PauseLeft'
  BY <1>1 DEF Return
<1>2. ASSUME NEW p \in Procs, Call(p) \/ Task(p)
      PROVE  OrderLabels' /\ PauseLeft'
  <2>1. CASE Call(p)
    BY <2>1 DEF Call
  <2>2. CASE AlreadyConnected(p)
    BY <2>2 DEF AlreadyConnected, Proceed
  <2>3. CASE TakeToConnect(p) \/ TakeToRecover(p)
    BY <2>3 DEF TakeToConnect, TakeToRecover, taskVars
  <2>4. CASE AlreadyRecovered(p)
    BY <2>4 DEF AlreadyRecovered
  <2>5. CASE ReleaseSlot(p) \/ OpenStream(p) \/ SyncFailed(p)
    BY <2>5 DEF ReleaseSlot, OpenStream, SyncFailed, taskVars
  <2>6. CASE Synchronized(p)
    BY <2>6 DEF Synchronized, Proceed
  <2>7. CASE Backoff(p)
    BY <2>7, <1>1 DEF Backoff, taskVars
  <2>8. CASE EnterGate(p)
    BY <2>8 DEF EnterGate, Begin
  <2>9. CASE ReadReturns(p) \/ Duplicate(p) \/ OrderDone(p)
             \/ OrderDisconnected(p) \/ OrderFails(p)
    BY <2>9, <1>1 DEF ReadReturns, Duplicate, OrderDone, OrderDisconnected,
                      OrderFails
  <2>10. CASE ReadDisconnected(p)
    BY <2>10, <1>1 DEF ReadDisconnected
  <2>11. CASE ReadFails(p)
    BY <2>11, <1>1 DEF ReadFails
  <2>12. CASE ReadAgain(p)
    BY <2>12 DEF ReadAgain
  <2>13. CASE Submit(p)
    BY <2>13 DEF Submit, Begin
  <2> QED
    BY <1>2, <2>1, <2>2, <2>3, <2>4, <2>5, <2>6, <2>7, <2>8, <2>9, <2>10,
       <2>11, <2>12, <2>13 DEF Task, OwnStep, CallReturns
<1>3. ASSUME NEW p \in Candles, Cancel(p) PROVE OrderLabels' /\ PauseLeft'
  BY <1>3, <1>1 DEF Cancel
<1>4. CASE Lose \/ LeakEnds \/ WindowEnds \/ Decided \/ UNCHANGED vars
  BY <1>4 DEF Lose, LeakEnds, WindowEnds, Decided, vars, taskVars, syncVars
<1> QED
  BY <1>2, <1>3, <1>4 DEF Next

\* SyncOwner: the variables have their types; no read and no synchronization
\* is attempted more often than it may be, however recoveries interleave.
THEOREM TypeCorrect == Spec => []TypeOK
<1>1. TypeInv /\ [Next]_vars => TypeInv'
  BY StepType, StepLabels DEF TypeInv
<1>2. TypeInv => TypeOK
  BY DEF TypeInv
<1> QED
  BY InitType, <1>1, <1>2, PTL DEF Spec
-----------------------------------------------------------------------------
(* The slot.                                                                *)

\* Every step keeps what the holder of _sync_lock and the connected flag say
\* about the slot.
LEMMA StepSlot ==
    SlotInv /\ [Next]_vars => HolderInv' /\ ConnectedHasStream'
<1> SUFFICES ASSUME SlotInv, [Next]_vars
             PROVE  HolderInv' /\ ConnectedHasStream'
  OBVIOUS
<1> USE DEF SlotInv, TypeInv, TypeOK, OrderLabels, HolderInv,
            ConnectedHasStream, Procs
<1>1. ASSUME NEW p \in Procs, Return(p), p # syncLock,
             UNCHANGED <<syncLock, phase, slot>>,
             connected' = connected \/ connected' = FALSE
      PROVE  HolderInv' /\ ConnectedHasStream'
  <2>1. syncLock # Nobody => pc'[syncLock] = pc[syncLock]
    BY <1>1 DEF Return
  <2>2. connected' => connected
    BY <1>1
  <2>3. HolderInv'
    BY <1>1, <2>1, <2>2
  <2>4. ConnectedHasStream'
    BY <1>1, <2>2
  <2> QED
    BY <2>3, <2>4
<1>2. ASSUME NEW p \in Procs, Call(p) \/ Task(p)
      PROVE  HolderInv' /\ ConnectedHasStream'
  <2>1. CASE Call(p)
    BY <2>1 DEF Call, syncVars
  <2>2. CASE AlreadyConnected(p)
    BY <2>2 DEF AlreadyConnected, Proceed, syncVars
  <2>3. CASE TakeToConnect(p)
    BY <2>3 DEF TakeToConnect, taskVars
  <2>4. CASE TakeToRecover(p)
    BY <2>4 DEF TakeToRecover, taskVars
  <2>5. CASE AlreadyRecovered(p)
    BY <2>5 DEF AlreadyRecovered, syncVars
  <2>6. CASE ReleaseSlot(p)
    BY <2>6 DEF ReleaseSlot, CloseStream
  <2>7. CASE OpenStream(p)
    BY <2>7 DEF OpenStream, taskVars
  <2>8. CASE Synchronized(p)
    BY <2>8 DEF Synchronized
  <2>9. CASE SyncFailed(p)
    BY <2>9 DEF SyncFailed, CloseStream
  <2>10. CASE Backoff(p)
    BY <2>10 DEF Backoff, Return, taskVars
  <2>11. CASE EnterGate(p)
    BY <2>11 DEF EnterGate, Begin, syncVars
  <2>12. CASE ReadReturns(p) \/ Duplicate(p) \/ OrderDone(p)
              \/ OrderDisconnected(p) \/ OrderFails(p)
    BY <2>12, <1>1 DEF ReadReturns, Duplicate, OrderDone, OrderDisconnected,
                       OrderFails, Invoking, syncVars
  <2>13. CASE ReadDisconnected(p)
    BY <2>13, <1>1 DEF ReadDisconnected, Invoking, syncVars
  <2>14. CASE ReadFails(p)
    BY <2>14, <1>1 DEF ReadFails, Invoking, syncVars
  <2>15. CASE ReadAgain(p)
    BY <2>15 DEF ReadAgain, syncVars
  <2>16. CASE Submit(p)
    BY <2>16 DEF Submit, Begin, syncVars
  <2> QED
    BY <1>2, <2>1, <2>2, <2>3, <2>4, <2>5, <2>6, <2>7, <2>8, <2>9, <2>10,
       <2>11, <2>12, <2>13, <2>14, <2>15, <2>16 DEF Task, OwnStep, CallReturns
<1>3. ASSUME NEW p \in Candles, Cancel(p)
      PROVE  HolderInv' /\ ConnectedHasStream'
  <2>1. CASE syncLock = p
    BY <1>3, <2>1 DEF Cancel
  <2>2. CASE syncLock # p
    BY <1>3, <2>2, <1>1 DEF Cancel
  <2> QED
    BY <2>1, <2>2
<1>4. CASE Lose
  BY <1>4 DEF Lose, syncVars
<1>5. CASE LeakEnds \/ WindowEnds \/ Decided \/ UNCHANGED vars
  BY <1>5 DEF LeakEnds, WindowEnds, Decided, vars, taskVars, syncVars
<1> QED
  BY <1>2, <1>3, <1>4, <1>5 DEF Next

\* The slot invariant is inductive.
LEMMA SlotInvariant == Spec => []SlotInv
<1>1. Init => SlotInv
  BY InitType DEF Init, SlotInv, HolderInv, ConnectedHasStream
<1>2. SlotInv /\ [Next]_vars => SlotInv'
  BY StepType, StepLabels, StepSlot DEF SlotInv, TypeInv
<1> QED
  BY <1>1, <1>2, PTL DEF Spec

\* owner.py: the hub never asks for a synchronization while it still holds a
\* stream, however tasks are cancelled and streams lost.
THEOREM SlotFree == Spec => []OwnSlotFree
<1>1. SlotInv => OwnSlotFree
  BY DEF SlotInv, HolderInv, OwnSlotFree
<1> QED
  BY SlotInvariant, <1>1, PTL

\* owner.py: while the connected flag is up there is a stream and nobody is
\* reconnecting.
THEOREM ConnectedIsTrue == Spec => []ConnectedHasStream
<1>1. SlotInv => ConnectedHasStream
  BY DEF SlotInv
<1> QED
  BY SlotInvariant, <1>1, PTL

\* The owner implements the abstract slot of SyncSlot: every step of it is a
\* step of the slot or leaves the slot alone.
THEOREM Implements == Spec => ImplementsSlot
<1>1. Init => Slot!Init
  BY DEF Init, Slot!Init
<1>2. SlotInv /\ [Next]_vars => [Slot!Next]_<<syncLock, slot>>
  <2> SUFFICES ASSUME SlotInv, [Next]_vars
               PROVE  Slot!Next \/ UNCHANGED <<syncLock, slot>>
    OBVIOUS
  <2> USE DEF SlotInv, TypeInv, TypeOK, HolderInv
  <2>1. ASSUME NEW p \in Procs, Call(p) \/ Task(p)
        PROVE  Slot!Next \/ UNCHANGED <<syncLock, slot>>
    <3>1. CASE TakeToConnect(p) \/ TakeToRecover(p)
      <4>1. Slot!Take(p)
        BY <3>1 DEF TakeToConnect, TakeToRecover, Slot!Take
      <4> QED
        BY <4>1 DEF Slot!Next
    <3>2. CASE ReleaseSlot(p) \/ SyncFailed(p)
      <4>1. Slot!Close(p)
        BY <3>2 DEF ReleaseSlot, SyncFailed, CloseStream, Slot!Close
      <4> QED
        BY <4>1 DEF Slot!Next
    <3>3. CASE OpenStream(p)
      <4>1. Slot!Open(p) \/ UNCHANGED <<syncLock, slot>>
        BY <3>3 DEF OpenStream, Slot!Open
      <4> QED
        BY <4>1 DEF Slot!Next
    <3>4. CASE Synchronized(p)
      <4>1. Slot!Up(p)
        BY <3>4 DEF Synchronized, Slot!Up
      <4> QED
        BY <4>1 DEF Slot!Next
    <3>5. CASE Backoff(p)
      <4>1. Slot!GiveUp(p) \/ UNCHANGED <<syncLock, slot>>
        BY <3>5 DEF Backoff, Slot!GiveUp
      <4> QED
        BY <4>1 DEF Slot!Next
    <3>6. CASE Call(p) \/ AlreadyConnected(p) \/ AlreadyRecovered(p)
               \/ EnterGate(p) \/ ReadReturns(p) \/ ReadDisconnected(p)
               \/ ReadFails(p) \/ ReadAgain(p) \/ Duplicate(p) \/ Submit(p)
               \/ OrderDone(p) \/ OrderDisconnected(p) \/ OrderFails(p)
      BY <3>6 DEF Call, AlreadyConnected, AlreadyRecovered, EnterGate,
                  ReadReturns, ReadDisconnected, ReadFails, ReadAgain,
                  Duplicate, Submit, OrderDone, OrderDisconnected, OrderFails,
                  syncVars
    <3> QED
      BY <2>1, <3>1, <3>2, <3>3, <3>4, <3>5, <3>6 DEF Task, OwnStep, CallReturns
  <2>2. ASSUME NEW p \in Candles, Cancel(p)
        PROVE  Slot!Next \/ UNCHANGED <<syncLock, slot>>
    <3>1. p \in Procs
      BY DEF Procs
    <3>2. Slot!GiveUp(p) \/ UNCHANGED <<syncLock, slot>>
      BY <2>2 DEF Cancel, Slot!GiveUp
    <3> QED
      BY <3>1, <3>2 DEF Slot!Next
  <2>3. CASE Lose
    BY <2>3 DEF Lose, syncVars, Slot!Next, Slot!Lose
  <2>4. CASE LeakEnds \/ WindowEnds \/ Decided \/ UNCHANGED vars
    BY <2>4 DEF LeakEnds, WindowEnds, Decided, vars, taskVars, syncVars
  <2> QED
    BY <2>1, <2>2, <2>3, <2>4 DEF Next
<1> QED
  BY SlotInvariant, <1>1, <1>2, PTL DEF Spec, Slot!Spec, ImplementsSlot
-----------------------------------------------------------------------------
(* Orders.                                                                  *)

\* Every step keeps the orders apart: OrderLockFree is what lets one in.
LEMMA StepOrder == SlotInv /\ OrderInv /\ [Next]_vars => OrderInv'
<1> SUFFICES ASSUME SlotInv, OrderInv, [Next]_vars PROVE OrderInv'
  OBVIOUS
<1> USE DEF SlotInv, TypeInv, TypeOK, OrderLabels, OrderInv, OneOrder, SentInInvoke,
            NoTwinOrder, Procs, Invoking
<1>1. ASSUME NEW p \in Procs, Return(p), remembered' = remembered
      PROVE  OrderInv'
  BY <1>1 DEF Return
<1>2. ASSUME NEW p \in Procs, UNCHANGED <<submits, remembered>>,
             p \in Readers \/ pc'[p] \notin {"invoke", "invoke2"},
             p \in Readers \/ pc[p] # "invoke",
             \A q \in Procs : q # p => pc'[q] = pc[q]
      PROVE  OrderInv'
  BY <1>2
<1>3. ASSUME UNCHANGED <<pc, submits>>,
             remembered' = remembered \/ remembered' = FALSE
      PROVE  OrderInv'
  <2>1. (Invoking \cap Mutators)' = Invoking \cap Mutators
    BY <1>3
  <2>2. NoTwinOrder'
    BY <1>3, <2>1
  <2> QED
    BY <1>3, <2>2
<1>4. ASSUME NEW p \in Procs, Call(p) \/ Task(p) PROVE OrderInv'
  <2>1. CASE Call(p) \/ AlreadyConnected(p) \/ AlreadyRecovered(p)
             \/ ReadAgain(p)
    BY <2>1, <1>2 DEF Call, AlreadyConnected, Proceed, AlreadyRecovered,
                      ReadAgain
  <2>2. CASE TakeToConnect(p) \/ TakeToRecover(p) \/ ReleaseSlot(p)
             \/ OpenStream(p) \/ SyncFailed(p)
    BY <2>2, <1>3 DEF TakeToConnect, TakeToRecover, ReleaseSlot, OpenStream,
                      SyncFailed, taskVars
  <2>3. CASE Synchronized(p)
    <3>1. /\ \A q \in Procs : q # p => pc'[q] = pc[q]
          /\ pc'[p] \in {"gate", "gate2", "rpc"}
          /\ submits' = submits /\ remembered' = remembered
      BY <2>3 DEF Synchronized, Proceed
    <3>2. pc[p] \in {"ensure", "recover"}
      BY <2>3 DEF Synchronized, HolderInv
    <3>3. \A m \in Mutators : pc'[m] = "invoke" => pc[m] = "invoke" /\ m # p
      BY <3>1
    <3>4. SentInInvoke' /\ OneOrder'
      BY <3>1, <3>2, <3>3
    <3>5. NoTwinOrder'
      BY <3>1, <3>3
    <3> QED
      BY <3>4, <3>5
  <2>4. CASE Backoff(p)
    BY <2>4, <1>1, <1>3 DEF Backoff, taskVars
  <2>5. CASE EnterGate(p)
    BY <2>5, <1>2 DEF EnterGate, Begin
  <2>6. CASE ReadReturns(p) \/ Duplicate(p) \/ OrderDisconnected(p)
             \/ OrderFails(p)
    BY <2>6, <1>1
       DEF ReadReturns, Duplicate, OrderDisconnected, OrderFails, GivenUp
  <2>7. CASE ReadDisconnected(p)
    BY <2>7, <1>1, <1>2 DEF ReadDisconnected
  <2>8. CASE ReadFails(p)
    BY <2>8, <1>1, <1>2 DEF ReadFails
  <2>9. CASE Submit(p)
    <3>1. p \in Mutators => submits[p] = 0
      BY <2>9 DEF Submit
    <3> QED
      BY <2>9, <3>1 DEF Submit, Begin, OrderLockFree
  <2>10. CASE OrderDone(p)
    <3>1. \A m \in Mutators : pc'[m] # "invoke"
      BY <2>10 DEF OrderDone, Return
    <3> QED
      BY <2>10, <3>1 DEF OrderDone, Return
  <2> QED
    BY <1>4, <2>1, <2>2, <2>3, <2>4, <2>5, <2>6, <2>7, <2>8, <2>9, <2>10
       DEF Task, OwnStep, CallReturns
<1>5. ASSUME NEW p \in Candles, Cancel(p) PROVE OrderInv'
  BY <1>5, <1>1 DEF Cancel
<1>6. CASE Lose \/ LeakEnds \/ WindowEnds \/ Decided \/ UNCHANGED vars
  BY <1>6, <1>3
     DEF Lose, LeakEnds, WindowEnds, Decided, vars, taskVars, syncVars
<1> QED
  BY <1>4, <1>5, <1>6 DEF Next

\* The order invariant is inductive.
LEMMA OrderInvariant == Spec => []OrderInv
<1>1. Init => OrderInv
  BY DEF Init, OrderInv, OneOrder, SentInInvoke, NoTwinOrder, Procs, Invoking
<1>2. SlotInv /\ OrderInv /\ [Next]_vars => OrderInv'
  BY StepOrder
<1> QED
  BY SlotInvariant, <1>1, <1>2, PTL DEF Spec

\* owner.py mutate(): of any number of equal orders racing for the order lock
\* one at a time is given to the broker, and none while the receipt of another
\* is remembered.  It says nothing of an order whose call failed.
THEOREM NeverTwins == Spec => []NoTwinOrder
<1>1. OrderInv => NoTwinOrder
  BY DEF OrderInv
<1> QED
  BY OrderInvariant, <1>1, PTL

\* owner.py mutate(): no call reaches the broker with its order twice.
THEOREM SentOnce == Spec => []OrderSentOnce
<1>1. OrderInv => OrderSentOnce
  BY DEF OrderInv, SentInInvoke, OrderSentOnce
<1> QED
  BY OrderInvariant, <1>1, PTL
-----------------------------------------------------------------------------
(* The read gate.                                                           *)

Permits == Invoking \cap Readers

\* A set of readers is finite, and so are the permits given out.
LEMMA PermitsFinite == IsFiniteSet(Permits)
BY FS_Subset DEF Permits

\* Every step either gives out one permit that was free or none at all.
LEMMA StepPermits ==
    TypeInv /\ [Next]_vars =>
        \/ Permits' \subseteq Permits
        \/ /\ Cardinality(Permits) < ReadConcurrency
           /\ \E p \in Readers : Permits' \subseteq Permits \cup {p}
<1> SUFFICES ASSUME TypeInv, [Next]_vars, ~(Permits' \subseteq Permits)
             PROVE  /\ Cardinality(Permits) < ReadConcurrency
                    /\ \E p \in Readers : Permits' \subseteq Permits \cup {p}
  OBVIOUS
<1> USE DEF TypeInv, TypeOK, OrderLabels, Procs, Invoking, Permits
<1>1. ASSUME NEW p \in Procs,
             p \in Readers => pc'[p] \notin {"invoke", "invoke2"},
             \A q \in Procs : q # p => pc'[q] = pc[q]
      PROVE  FALSE
  BY <1>1
<1>2. ASSUME NEW p \in Procs, Return(p) PROVE FALSE
  BY <1>1, <1>2 DEF Return
<1>3. ASSUME NEW p \in Procs, Call(p) \/ Task(p)
      PROVE  EnterGate(p)
  <2>1. CASE Call(p) \/ AlreadyConnected(p) \/ AlreadyRecovered(p)
             \/ ReadAgain(p) \/ Synchronized(p)
    BY <2>1, <1>1 DEF Call, AlreadyConnected, Proceed, AlreadyRecovered,
                      ReadAgain, Synchronized
  <2>2. CASE TakeToConnect(p) \/ TakeToRecover(p) \/ ReleaseSlot(p)
             \/ OpenStream(p) \/ SyncFailed(p)
    BY <2>2 DEF TakeToConnect, TakeToRecover, ReleaseSlot, OpenStream,
                SyncFailed, taskVars
  <2>3. CASE Backoff(p)
    BY <2>3, <1>2 DEF Backoff, taskVars
  <2>4. CASE ReadReturns(p) \/ Duplicate(p) \/ OrderDisconnected(p)
             \/ OrderFails(p) \/ OrderDone(p)
    BY <2>4, <1>2 DEF ReadReturns, Duplicate, OrderDisconnected, OrderFails,
                      OrderDone
  <2>5. CASE ReadDisconnected(p) \/ ReadFails(p)
    BY <2>5, <1>1, <1>2 DEF ReadDisconnected, ReadFails
  <2>6. CASE Submit(p)
    BY <2>6 DEF Submit, Begin
  <2> QED
    BY <1>3, <2>1, <2>2, <2>3, <2>4, <2>5, <2>6 DEF Task, OwnStep, CallReturns
<1>4. ASSUME NEW p \in Candles, Cancel(p) PROVE FALSE
  BY <1>4, <1>2 DEF Cancel
<1>5. CASE Lose \/ LeakEnds \/ WindowEnds \/ Decided \/ UNCHANGED vars
  BY <1>5 DEF Lose, LeakEnds, WindowEnds, Decided, vars, taskVars, syncVars
<1>6. PICK p \in Procs : EnterGate(p)
  BY <1>3, <1>4, <1>5 DEF Next
<1> QED
  BY <1>6 DEF EnterGate, Begin

\* owner.py read(): never more than read_concurrency reads are with the
\* broker, for any number of readers, cancellations and recoveries.
THEOREM ReadsBounded == Spec => []GateBounded
<1>1. Init => GateBounded
  <2>1. ASSUME Init PROVE Invoking \cap Readers = {}
    BY <2>1 DEF Init, Invoking, Procs
  <2> QED
    BY <2>1, FS_EmptySet DEF GateBounded
<1>2. TypeInv /\ GateBounded /\ [Next]_vars => GateBounded'
  <2> SUFFICES ASSUME TypeInv, GateBounded, [Next]_vars PROVE GateBounded'
    OBVIOUS
  <2>1. Cardinality(Permits) \in Nat
    BY PermitsFinite, FS_CardinalityType
  <2>2. CASE Permits' \subseteq Permits
    <3>1. Cardinality(Permits') <= Cardinality(Permits)
      BY <2>2, PermitsFinite, FS_Subset
    <3>2. Cardinality(Permits') \in Nat
      BY <2>2, PermitsFinite, FS_Subset, FS_CardinalityType
    <3> QED
      BY <2>1, <3>1, <3>2 DEF GateBounded, Permits
  <2>3. CASE /\ Cardinality(Permits) < ReadConcurrency
             /\ \E p \in Readers : Permits' \subseteq Permits \cup {p}
    <3>1. PICK p \in Readers : Permits' \subseteq Permits \cup {p}
      BY <2>3
    <3>2. /\ IsFiniteSet(Permits \cup {p})
          /\ Cardinality(Permits \cup {p}) <= Cardinality(Permits) + 1
      BY PermitsFinite, <2>1, FS_AddElement
    <3>3. Cardinality(Permits') <= Cardinality(Permits \cup {p})
      BY <3>1, <3>2, FS_Subset
    <3>4. /\ Cardinality(Permits') \in Nat
          /\ Cardinality(Permits \cup {p}) \in Nat
      BY <3>1, <3>2, FS_Subset, FS_CardinalityType
    <3> QED
      BY <2>1, <2>3, <3>2, <3>3, <3>4 DEF GateBounded, Permits
  <2> QED
    BY <2>2, <2>3, StepPermits
<1>3. TypeInv /\ [Next]_vars => TypeInv'
  BY StepType, StepLabels DEF TypeInv
<1> QED
  BY InitType, <1>1, <1>2, <1>3, PTL DEF Spec

-----------------------------------------------------------------------------
(* CandleFlight. *)

Waiting(f) == {q \in Requests : joined[q] = f}

\* waiters counts who awaits the flight.
Counted == \A f \in Flights : waiters[f] = Cardinality(Waiting(f))

\* A fetch that is under way holds the slot.
InSlot == \A f \in Flights : task[f] \in Running => inflight = f

\* A retry is due only while attempts are left.
RetryLeft == \A f \in Flights : task[f] = "backoff" => fetchTry[f] < CandleAttempts

IInv == FlightTypeOK /\ RetryLeft /\ Counted /\ InSlot /\ SlotAwaited /\ NobodyStranded

USE FlightAssumption
-----------------------------------------------------------------------------
(* Counting.                                                                *)

\* Those who wait are finitely many.
LEMMA WaitingFinite ==
    ASSUME NEW f \in Flights
    PROVE  IsFiniteSet(Waiting(f)) /\ Cardinality(Waiting(f)) \in Nat
BY FS_Subset, FS_CardinalityType DEF Waiting

\* One more waits.
LEMMA OneMore ==
    ASSUME FlightTypeOK, NEW q \in Requests, NEW f \in Flights, joined[q] = None,
           joined' = [joined EXCEPT ![q] = f], NEW g \in Flights
    PROVE  Cardinality(Waiting(g)') =
             IF g = f THEN Cardinality(Waiting(f)) + 1 ELSE Cardinality(Waiting(g))
<1>1. CASE g = f
  <2>1. Waiting(g)' = Waiting(f) \cup {q} /\ q \notin Waiting(f)
    BY <1>1 DEF Waiting, FlightTypeOK
  <2> QED
    BY <1>1, <2>1, WaitingFinite, FS_AddElement
<1>2. CASE g # f
  <2>1. Waiting(g)' = Waiting(g)
    BY <1>2 DEF Waiting, FlightTypeOK
  <2> QED
    BY <1>2, <2>1
<1> QED
  BY <1>1, <1>2

\* One leaves.
LEMMA OneLess ==
    ASSUME FlightTypeOK, NEW q \in Requests, NEW f \in Flights, joined[q] = f,
           joined' = [joined EXCEPT ![q] = None], NEW g \in Flights
    PROVE  Cardinality(Waiting(g)') =
             IF g = f THEN Cardinality(Waiting(f)) - 1 ELSE Cardinality(Waiting(g))
<1>1. CASE g = f
  <2>1. Waiting(g)' = Waiting(f) \ {q} /\ q \in Waiting(f)
    BY <1>1 DEF Waiting, FlightTypeOK
  <2>2. IsFiniteSet(Waiting(f))
    BY WaitingFinite
  <2>3. Cardinality(Waiting(f) \ {q}) = Cardinality(Waiting(f)) - 1
    BY <2>1, <2>2, FS_RemoveElement
  <2> QED
    BY <1>1, <2>1, <2>3
<1>2. CASE g # f
  <2>1. Waiting(g)' = Waiting(g)
    BY <1>2 DEF Waiting, FlightTypeOK
  <2> QED
    BY <1>2, <2>1
<1> QED
  BY <1>1, <1>2

\* A flight somebody awaits has a waiter, and one with a single waiter no other.
LEMMA SomebodyCounts ==
    ASSUME IInv, NEW q \in Requests, NEW f \in Flights, joined[q] = f
    PROVE  /\ waiters[f] \in Nat \ {0}
           /\ waiters[f] = 1 => \A r \in Requests : joined[r] = f => r = q
<1>1. q \in Waiting(f)
  BY DEF Waiting
<1>2. /\ IsFiniteSet(Waiting(f) \ {q})
      /\ Cardinality(Waiting(f) \ {q}) = Cardinality(Waiting(f)) - 1
      /\ Cardinality(Waiting(f) \ {q}) \in Nat
  BY <1>1, WaitingFinite, FS_RemoveElement, FS_CardinalityType
<1>3. waiters[f] \in Nat \ {0}
  BY <1>2, WaitingFinite DEF IInv, Counted
<1>4. ASSUME waiters[f] = 1 PROVE \A r \in Requests : joined[r] = f => r = q
  <2>1. Cardinality(Waiting(f) \ {q}) = 0
    BY <1>2, <1>4 DEF IInv, Counted
  <2>2. Waiting(f) \ {q} = {}
    BY <1>2, <2>1, FS_EmptySet
  <2> QED
    BY <2>2 DEF Waiting
<1> QED
  BY <1>3, <1>4

\* With another waiter, somebody else awaits the flight.
LEMMA AnotherWaits ==
    ASSUME IInv, NEW q \in Requests, NEW f \in Flights, joined[q] = f,
           waiters[f] > 1
    PROVE  \E r \in Requests : r # q /\ joined[r] = f
<1>1. SUFFICES ASSUME \A r \in Requests : joined[r] = f => r = q PROVE FALSE
  OBVIOUS
<1>2. Waiting(f) = {q}
  BY <1>1 DEF Waiting
<1>3. Cardinality(Waiting(f)) = 1
  BY <1>2, FS_Singleton
<1> QED
  BY <1>3 DEF IInv, Counted
-----------------------------------------------------------------------------
(* The steps of a request.                                                  *)

\* A request joins the fetch under way.
LEMMA StepJoin == ASSUME IInv, NEW q \in Requests, Join(q) PROVE IInv'
<1> USE DEF IInv
<1>1. PICK f \in Flights :
        /\ f = inflight /\ task[f] \in Running
        /\ joined' = [joined EXCEPT ![q] = f]
        /\ waiters' = [waiters EXCEPT ![f] = waiters[f] + 1]
  BY DEF Join, Current, FlightTypeOK
<1>2. joined[q] = None /\ UNCHANGED <<task, fetchTry, inflight, good, orphans>>
  BY DEF Join
<1>3. FlightTypeOK'
  BY <1>1, <1>2 DEF FlightTypeOK
<1>4. Counted'
  <2> SUFFICES ASSUME NEW g \in Flights PROVE waiters'[g] = Cardinality(Waiting(g)')
    BY DEF Counted
  <2>1. Cardinality(Waiting(g)') =
          IF g = f THEN Cardinality(Waiting(f)) + 1 ELSE Cardinality(Waiting(g))
    BY <1>1, <1>2, OneMore
  <2> QED
    BY <1>1, <2>1 DEF Counted, FlightTypeOK
<1>5. SlotAwaited'
  BY <1>1, <1>2 DEF SlotAwaited, InSlot, FlightTypeOK
<1>6. NobodyStranded'
  BY <1>1, <1>2 DEF NobodyStranded, FlightTypeOK, Running
<1> QED
  BY <1>2, <1>3, <1>4, <1>5, <1>6 DEF InSlot, RetryLeft

\* A request starts a fetch.
LEMMA StepLaunch == ASSUME IInv, NEW q \in Requests, Launch(q) PROVE IInv'
<1> USE DEF IInv
<1>1. PICK f \in Flights :
        /\ task[f] = "unused"
        /\ joined' = [joined EXCEPT ![q] = f]
        /\ waiters' = [waiters EXCEPT ![f] = 1]
        /\ task' = [task EXCEPT ![f] = "reading"]
        /\ inflight' = f
  BY DEF Launch
<1>2. joined[q] = None /\ Current = None /\ UNCHANGED <<fetchTry, good, orphans>>
  BY DEF Launch
<1>3. \A g \in Flights : task[g] \notin Running
  BY <1>2 DEF Current, InSlot, FlightTypeOK
<1>4. Waiting(f) = {} /\ Cardinality({}) = 0
  BY <1>1, FS_EmptySet DEF Waiting, NobodyStranded
<1>5. FlightTypeOK'
  BY <1>1, <1>2 DEF FlightTypeOK, Running
<1>6. Counted'
  <2> SUFFICES ASSUME NEW g \in Flights PROVE waiters'[g] = Cardinality(Waiting(g)')
    BY DEF Counted
  <2>1. Cardinality(Waiting(g)') =
          IF g = f THEN Cardinality(Waiting(f)) + 1 ELSE Cardinality(Waiting(g))
    BY <1>1, <1>2, OneMore
  <2> QED
    BY <1>1, <1>4, <2>1 DEF Counted, FlightTypeOK
<1>7. SlotAwaited' /\ InSlot'
  BY <1>1, <1>3 DEF SlotAwaited, InSlot, FlightTypeOK
<1>8. NobodyStranded'
  BY <1>1 DEF NobodyStranded, FlightTypeOK
<1>9. RetryLeft'
  BY <1>1, <1>2 DEF RetryLeft, FlightTypeOK
<1> QED
  BY <1>5, <1>6, <1>7, <1>8, <1>9

\* A waiter leaves a flight that is finished.
LEMMA StepLeaveDone == ASSUME IInv, NEW q \in Requests, LeaveDone(q) PROVE IInv'
<1> USE DEF IInv
<1>1. PICK f \in Flights : f = joined[q] /\ task[f] \in Done
  BY DEF LeaveDone, FlightTypeOK
<1>2. /\ joined' = [joined EXCEPT ![q] = None]
      /\ waiters' = [waiters EXCEPT ![f] = waiters[f] - 1]
      /\ inflight' = IF inflight = f THEN None ELSE inflight
      /\ UNCHANGED <<good, orphans>>
      /\ \/ /\ waiters[f] = 1
            /\ task' = [task EXCEPT ![f] = "unused"]
            /\ fetchTry' = [fetchTry EXCEPT ![f] = 1]
         \/ UNCHANGED <<task, fetchTry>>
  BY <1>1 DEF LeaveDone, Pop
<1>3. /\ waiters[f] \in Nat \ {0}
      /\ waiters[f] = 1 => \A r \in Requests : joined[r] = f => r = q
  BY <1>1, SomebodyCounts
<1>4. FlightTypeOK'
  <2>1. waiters[f] - 1 \in Nat /\ 1 \in 1..CandleAttempts
    BY <1>3
  <2> QED
    BY <1>2, <2>1 DEF FlightTypeOK
<1>5. Counted'
  <2> SUFFICES ASSUME NEW g \in Flights PROVE waiters'[g] = Cardinality(Waiting(g)')
    BY DEF Counted
  <2>1. Cardinality(Waiting(g)') =
          IF g = f THEN Cardinality(Waiting(f)) - 1 ELSE Cardinality(Waiting(g))
    BY <1>1, <1>2, OneLess
  <2> QED
    BY <1>2, <2>1 DEF Counted, FlightTypeOK
<1>6. task[f] \notin Running
  BY <1>1 DEF Done, Running
<1>7. \A g \in Flights : task'[g] \in Running => g # f /\ task'[g] = task[g]
  BY <1>2, <1>6 DEF FlightTypeOK, Running
<1>8. InSlot' /\ RetryLeft'
  BY <1>2, <1>7 DEF InSlot, RetryLeft, FlightTypeOK, Running
<1>9. SlotAwaited'
  <2> SUFFICES ASSUME NEW g \in Flights, task'[g] \in Running
               PROVE  \E r \in Requests : joined'[r] = g
    BY DEF SlotAwaited
  <2>1. PICK r \in Requests : joined[r] = g
    BY <1>7 DEF SlotAwaited
  <2> QED
    BY <1>1, <1>2, <1>7, <2>1 DEF FlightTypeOK
<1>10. NobodyStranded'
  BY <1>1, <1>2, <1>3 DEF NobodyStranded, FlightTypeOK
<1> QED
  BY <1>4, <1>5, <1>8, <1>9, <1>10

\* A caller is cancelled, the flight goes on.
LEMMA StepLeaveOthers == ASSUME IInv, NEW q \in Requests, LeaveOthers(q) PROVE IInv'
<1> USE DEF IInv
<1>1. PICK f \in Flights :
        /\ f = joined[q] /\ task[f] \in Running /\ waiters[f] > 1
        /\ joined' = [joined EXCEPT ![q] = None]
        /\ waiters' = [waiters EXCEPT ![f] = waiters[f] - 1]
  BY DEF LeaveOthers, FlightTypeOK
<1>2. UNCHANGED <<task, fetchTry, inflight, good, orphans>>
  BY DEF LeaveOthers
<1>3. FlightTypeOK'
  <2>1. waiters[f] - 1 \in Nat
    BY <1>1 DEF FlightTypeOK
  <2> QED
    BY <1>1, <1>2, <2>1 DEF FlightTypeOK
<1>4. Counted'
  <2> SUFFICES ASSUME NEW g \in Flights PROVE waiters'[g] = Cardinality(Waiting(g)')
    BY DEF Counted
  <2>1. Cardinality(Waiting(g)') =
          IF g = f THEN Cardinality(Waiting(f)) - 1 ELSE Cardinality(Waiting(g))
    BY <1>1, OneLess
  <2> QED
    BY <1>1, <2>1 DEF Counted, FlightTypeOK
<1>5. SlotAwaited'
  <2> SUFFICES ASSUME NEW g \in Flights, task[g] \in Running
               PROVE  \E r \in Requests : joined'[r] = g
    BY <1>2 DEF SlotAwaited
  <2>1. PICK r \in Requests : r # q /\ joined[r] = g
    <3>1. CASE g = f
      BY <1>1, <3>1, AnotherWaits
    <3>2. CASE g # f
      BY <1>1, <3>2 DEF SlotAwaited
    <3> QED
      BY <3>1, <3>2
  <2> QED
    BY <1>1, <2>1 DEF FlightTypeOK
<1>6. NobodyStranded'
  BY <1>1, <1>2 DEF NobodyStranded, FlightTypeOK
<1> QED
  BY <1>2, <1>3, <1>4, <1>5, <1>6 DEF InSlot, RetryLeft

\* The last caller is cancelled, and the fetch with it.
LEMMA StepLeaveLast == ASSUME IInv, NEW q \in Requests, LeaveLast(q) PROVE IInv'
<1> USE DEF IInv
<1>1. PICK f \in Flights : f = joined[q] /\ task[f] \in Running /\ waiters[f] <= 1
  BY DEF LeaveLast, FlightTypeOK
<1>2. /\ joined' = [joined EXCEPT ![q] = None]
      /\ waiters' = [waiters EXCEPT ![f] = 0]
      /\ inflight' = IF inflight = f THEN None ELSE inflight
      /\ task' = [task EXCEPT ![f] = "unused"]
      /\ fetchTry' = [fetchTry EXCEPT ![f] = 1]
      /\ good' = good
  BY <1>1 DEF LeaveLast, Pop
<1>3. waiters[f] = 1 /\ \A r \in Requests : joined[r] = f => r = q
  BY <1>1, SomebodyCounts DEF FlightTypeOK
<1>4. FlightTypeOK'
  <2>1. 1 \in 1..CandleAttempts /\ orphans' \in 0..MaxOrphans
    BY DEF LeaveLast, FlightTypeOK
  <2> QED
    BY <1>2, <2>1 DEF FlightTypeOK
<1>5. Counted'
  <2> SUFFICES ASSUME NEW g \in Flights PROVE waiters'[g] = Cardinality(Waiting(g)')
    BY DEF Counted
  <2>1. Cardinality(Waiting(g)') =
          IF g = f THEN Cardinality(Waiting(f)) - 1 ELSE Cardinality(Waiting(g))
    BY <1>1, <1>2, OneLess
  <2> QED
    BY <1>2, <1>3, <2>1 DEF Counted, FlightTypeOK
<1>6. \A g \in Flights : task'[g] \in Running => g # f /\ task'[g] = task[g]
  BY <1>2 DEF FlightTypeOK, Running
<1>7. InSlot' /\ RetryLeft'
  BY <1>2, <1>6 DEF InSlot, RetryLeft, FlightTypeOK, Running
<1>8. SlotAwaited'
  <2> SUFFICES ASSUME NEW g \in Flights, task'[g] \in Running
               PROVE  \E r \in Requests : joined'[r] = g
    BY DEF SlotAwaited
  <2>1. PICK r \in Requests : joined[r] = g
    BY <1>6 DEF SlotAwaited
  <2> QED
    BY <1>1, <1>2, <1>6, <2>1 DEF FlightTypeOK
<1>9. NobodyStranded'
  BY <1>1, <1>2, <1>3 DEF NobodyStranded, FlightTypeOK
<1> QED
  BY <1>4, <1>5, <1>7, <1>8, <1>9
-----------------------------------------------------------------------------
(* The steps of a flight, and the results.                                  *)

\* A flight's own steps leave its waiters and the slot alone.
LEMMA StepFly == ASSUME IInv, NEW f \in Flights, Fly(f) PROVE IInv'
<1> USE DEF IInv
<1>1. UNCHANGED <<joined, waiters, inflight>>
  BY DEF Fly, Loaded, Refused, Failed, TimedOut, Retry
<1>2. PICK t \in Running \cup Done :
        task[f] \in Running /\ task' = [task EXCEPT ![f] = t]
  BY DEF Fly, Loaded, Refused, Failed, TimedOut, Retry, Again, Exhausted,
         Running, Done
<1>3. FlightTypeOK' /\ RetryLeft'
  <2>1. CASE Loaded(f) \/ Refused(f)
    BY <2>1 DEF Loaded, Refused, FlightTypeOK, RetryLeft, Done, Ages
  <2>2. CASE Failed(f) \/ TimedOut(f)
    <3>1. UNCHANGED <<fetchTry, good>> /\ orphans' \in 0..MaxOrphans
      BY <2>2 DEF Failed, TimedOut, FlightTypeOK
    <3>2. FlightTypeOK'
      BY <1>1, <1>2, <3>1 DEF FlightTypeOK
    <3>3. Again(f)
      BY <2>2 DEF Failed, TimedOut
    <3>4. RetryLeft'
      BY <3>1, <3>3 DEF Again, Exhausted, RetryLeft, FlightTypeOK
    <3> QED
      BY <3>2, <3>4
  <2>3. CASE Retry(f)
    <3>1. fetchTry[f] + 1 \in 1..CandleAttempts
      BY <2>3 DEF Retry, RetryLeft, FlightTypeOK
    <3> QED
      BY <2>3, <3>1 DEF Retry, FlightTypeOK, RetryLeft, Running
  <2> QED
    BY <2>1, <2>2, <2>3 DEF Fly
<1>4. Counted'
  BY <1>1 DEF Counted, Waiting
<1>5. SlotAwaited' /\ InSlot' /\ NobodyStranded'
  BY <1>1, <1>2 DEF SlotAwaited, InSlot, NobodyStranded, FlightTypeOK, Running, Done
<1> QED
  BY <1>3, <1>4, <1>5

\* Every step keeps the inductive invariant.
LEMMA StepInv == IInv /\ [FlightNext]_flightVars => IInv'
<1> SUFFICES ASSUME IInv, [FlightNext]_flightVars PROVE IInv'
  OBVIOUS
<1>1. CASE UNCHANGED <<joined, task, fetchTry, waiters, inflight>>
           /\ good' \in Ages /\ orphans' \in 0..MaxOrphans
  BY <1>1 DEF IInv, FlightTypeOK, RetryLeft, Counted, Waiting, InSlot, SlotAwaited,
              NobodyStranded
<1>2. CASE OrphanEnds \/ Age \/ UNCHANGED flightVars
  BY <1>1, <1>2 DEF OrphanEnds, Age, flightVars, IInv, FlightTypeOK, Ages
<1> QED
  BY <1>2, StepJoin, StepLaunch, StepLeaveDone, StepLeaveOthers, StepLeaveLast,
     StepFly DEF FlightNext

\* The inductive invariant holds in every reachable state.
LEMMA Invariance == FlightSpec => []IInv
<1>1. FlightInit => IInv
  <2> SUFFICES ASSUME FlightInit PROVE IInv
    OBVIOUS
  <2>1. FlightTypeOK
    BY DEF FlightInit, FlightTypeOK, Ages
  <2>2. Counted
    <3>1. \A f \in Flights : Waiting(f) = {}
      BY DEF FlightInit, Waiting
    <3> QED
      BY <3>1, FS_EmptySet DEF FlightInit, Counted
  <2>3. RetryLeft /\ InSlot /\ SlotAwaited /\ NobodyStranded
    BY DEF FlightInit, RetryLeft, InSlot, SlotAwaited, NobodyStranded, Running
  <2> QED
    BY <2>1, <2>2, <2>3 DEF IInv
<1> QED
  BY <1>1, StepInv, PTL DEF FlightSpec

\* The variables have their types; no flight exceeds its attempts.
THEOREM FlightTypeCorrect == FlightSpec => []FlightTypeOK
BY Invariance, PTL DEF IInv

\* However many engines ask, one fetch at most is under way for the key.
THEOREM OneFetch == FlightSpec => []SingleFlight
<1>1. IInv => SingleFlight
  BY DEF IInv, InSlot, SingleFlight
<1> QED
  BY <1>1, Invariance, PTL

\* Nobody's fetch is taken away by another who gives up.
THEOREM StrandsNobody == FlightSpec => []NobodyStranded
BY Invariance, PTL DEF IInv

\* No fetch is kept up for nobody.
THEOREM NoFetchUnawaited == FlightSpec => []SlotAwaited
BY Invariance, PTL DEF IInv
=============================================================================
