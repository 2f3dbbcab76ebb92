--------------------------- MODULE LossLockProofs ---------------------------
(***************************************************************************)
(* Type correctness of LossLock, the agreement of the database row with    *)
(* the process, the refinement of DailyLock, and what READY rests on, for  *)
(* every set of threads, every calendar and every bound on failures and    *)
(* orders.                                                                 *)
(***************************************************************************)
EXTENDS LossLock, TLAPS

USE DEF Works, Fails, At, Goto, GateFree, Serving, Locked

\* A step that leaves a group of variables alone keeps the group's type.
LEMMA Untouched ==
    ASSUME TypeOK
    PROVE  /\ UNCHANGED world => WorldTypes'
           /\ UNCHANGED account => AccountTypes'
           /\ UNCHANGED status => StatusTypes'
           /\ UNCHANGED view => ViewTypes'
           /\ UNCHANGED market => MarketTypes'
           /\ UNCHANGED mutexes => MutexTypes'
<1>1. UNCHANGED world => WorldTypes'
    BY DEF TypeOK, WorldTypes, world
<1>2. UNCHANGED account => AccountTypes'
    BY DEF TypeOK, AccountTypes, account
<1>3. UNCHANGED status => StatusTypes'
    BY DEF TypeOK, StatusTypes, status
<1>4. UNCHANGED view => ViewTypes'
    BY DEF TypeOK, ViewTypes, view
<1>5. UNCHANGED market => MarketTypes'
    BY DEF TypeOK, MarketTypes, market
<1>6. UNCHANGED mutexes => MutexTypes'
    BY DEF TypeOK, MutexTypes, mutexes
<1>q. QED BY <1>1, <1>2, <1>3, <1>4, <1>5, <1>6

\* A new lock is a lock record, whether the database took it or not.
LEMMA EnterTypes ==
    ASSUME TypeOK, EnterDailyLossLock
    PROVE  AccountTypes'
<1>1. {lock', stored'} \subseteq LockRecord
  <2>1. PICK u \in NextUnlocks :
            LET record == [status |-> "LOCKED", unlockAt |-> u, liq |-> "IN_PROGRESS"] IN
            /\ lock' = record
            /\ stored' = StoreLock(record) \/ stored' = stored
      BY DEF EnterDailyLossLock
  <2>2. u \in Nat
      BY DEF TypeOK, WorldTypes, NextUnlocks
  <2>3. [status |-> "LOCKED", unlockAt |-> u, liq |-> "IN_PROGRESS"] \in LockRecord
      BY <2>2 DEF LockRecord, LiqStates
  <2>q. QED BY <2>1, <2>3 DEF TypeOK, AccountTypes, StoreLock
<1>2. {lockPersisted', flatSeen', fresh', late'} \subseteq BOOLEAN
    BY DEF EnterDailyLossLock
<1>q. QED BY <1>1, <1>2 DEF AccountTypes

\* The row an unlock writes is a lock record.
LEMMA NoLockTypes == NoLock \in LockRecord
    BY DEF NoLock, LockRecord, LiqStates

\* A stream that comes up or goes down leaves Booleans behind.
LEMMA MarketStatusTypes ==
    ASSUME TypeOK, NEW up \in BOOLEAN, SetMarketStatus(up)
    PROVE  {connected', live'} \subseteq BOOLEAN
    BY DEF TypeOK, MarketTypes, SetMarketStatus

\* A step that works or fails keeps the count of failures a number.
LEMMA FaultTypes ==
    ASSUME TypeOK, Works \/ Fails
    PROVE  faults' \in Nat
    BY DEF TypeOK, ControlTypes

\* The next liquidation pass, or the last one's end, keeps its types.
LEMMA RetryTypes ==
    ASSUME TypeOK, NEW t \in Threads, Retry(t)
    PROVE  attempt' \in Nat /\ pc' \in [Threads -> Labels]
    BY DEF TypeOK, MutexTypes, ControlTypes, Labels, Retry

\* Restoring a session and initializing one keep the types.
LEMMA SessionTypes ==
    ASSUME NEW t \in Threads, TypeOK, Session(t)
    PROVE  TypeOK'
<1>1. CASE RestoreNoSession(t)
  <2>1. ControlTypes'
      BY <1>1 DEF TypeOK, ControlTypes, Labels, RestoreNoSession, ReturnError
  <2>q. QED BY <1>1, <2>1, Untouched DEF TypeOK, RestoreNoSession
<1>2. CASE RestoreSession(t)
  <2>1. ControlTypes'
      BY <1>2 DEF TypeOK, ControlTypes, Labels, RestoreSession
  <2>q. QED BY <1>2, <2>1, Untouched DEF TypeOK, RestoreSession
<1>3. CASE InitSession(t)
  <2>1. StatusTypes'
      BY <1>3 DEF TypeOK, StatusTypes, Runtimes, InitSession, status
  <2>2. ControlTypes'
      BY <1>3 DEF TypeOK, ControlTypes, Labels, InitSession
  <2>q. QED BY <1>3, <2>1, <2>2, Untouched DEF TypeOK, InitSession
<1>4. CASE Instruments(t)
  <2>1. ControlTypes'
      BY <1>4 DEF TypeOK, ControlTypes, Labels, Instruments
  <2>q. QED BY <1>4, <2>1, Untouched DEF TypeOK, Instruments
<1>6. CASE ReportFailure(t)
  <2>1. StatusTypes'
      BY <1>6 DEF TypeOK, StatusTypes, Runtimes, ReportFailure, SetAuthRequired, Degrade
  <2>2. ControlTypes'
      BY <1>6 DEF TypeOK, ControlTypes, Labels, ReportFailure, ReturnError
  <2>q. QED BY <1>6, <2>1, <2>2, Untouched DEF TypeOK, ReportFailure
<1>5. CASE StartStream(t)
  <2>1. StatusTypes'
      BY <1>5 DEF TypeOK, StatusTypes, Runtimes, StartStream, SetMarketStatus, MarketReady,
         status
  <2>2. MarketTypes'
      BY <1>5, MarketStatusTypes, ConstantsAssumption DEF TypeOK, MarketTypes, ViewTypes, StartStream,
         market
  <2>3. ControlTypes'
      BY <1>5 DEF TypeOK, ControlTypes, Labels, StartStream, MarketReady, ReturnError
  <2>q. QED BY <1>5, <2>1, <2>2, <2>3, Untouched DEF TypeOK, StartStream
<1>q. QED BY <1>1, <1>2, <1>3, <1>4, <1>5, <1>6 DEF Session

\* Every step of a poll keeps the types.
LEMMA PollTypes ==
    ASSUME NEW t \in Threads, TypeOK, Poll(t)
    PROVE  TypeOK'
<1>1. CASE PollUnlock(t)
  <2>1. AccountTypes'
      BY <1>1, NoLockTypes DEF TypeOK, AccountTypes, PollUnlock, Unlock, account
  <2>2. StatusTypes'
      BY <1>1 DEF TypeOK, StatusTypes, Runtimes, PollUnlock, Due, Unlock, NoLock, status
  <2>3. ControlTypes'
      BY <1>1 DEF TypeOK, ControlTypes, Labels, PollUnlock, AtPoll, NoLock, ReturnError
  <2>q. QED BY <1>1, <2>1, <2>2, <2>3, Untouched DEF TypeOK, PollUnlock
<1>2. CASE PollCheck(t)
  <2>1. ControlTypes'
      BY <1>2 DEF TypeOK, ControlTypes, Labels, PollCheck
  <2>q. QED BY <1>2, <2>1, Untouched DEF TypeOK, PollCheck
<1>3. CASE PollBlind(t)
  <2>1. StatusTypes'
      BY <1>3 DEF TypeOK, StatusTypes, Runtimes, PollBlind, SetAuthRequired, Degrade, status
  <2>2. ControlTypes'
      BY <1>3 DEF TypeOK, ControlTypes, Labels, PollBlind, ReturnError
  <2>q. QED BY <1>3, <2>1, <2>2, Untouched DEF TypeOK, PollBlind
<1>4. CASE PollBreach(t)
  <2>1. AccountTypes'
      BY <1>4, EnterTypes DEF TypeOK, AccountTypes, LockRecord, LiqStates, PollBreach,
         Reprice, account
  <2>2. StatusTypes'
      BY <1>4 DEF TypeOK, StatusTypes, Runtimes, PollBreach, EnterDailyLossLock,
         NextUnlocks, StoreLock, Reprice, status
  <2>3. ViewTypes'
      BY <1>4 DEF TypeOK, ViewTypes, WorldTypes, PollBreach, NextUnlocks, StoreLock,
         Reprice, view
  <2>4. MarketTypes'
      BY <1>4 DEF TypeOK, MarketTypes, PollBreach, NextUnlocks, StoreLock, Reprice, market
  <2>5. ControlTypes'
      BY <1>4 DEF TypeOK, ControlTypes, Labels, PollBreach, EnterDailyLossLock, NextUnlocks,
         StoreLock, Reprice
  <2>q. QED BY <1>4, <2>1, <2>2, <2>3, <2>4, <2>5, Untouched DEF TypeOK, PollBreach
<1>5. CASE PollPositions(t)
  <2>1. AccountTypes'
      BY <1>5 DEF TypeOK, AccountTypes, LockRecord, LiqStates, PollPositions,
         RetryPersistence, StoreLock, account
  <2>2. ViewTypes'
      BY <1>5 DEF TypeOK, ViewTypes, WorldTypes, PollPositions, StoreLock, view
  <2>3. MutexTypes'
      BY <1>5 DEF TypeOK, MutexTypes, PollPositions, StoreLock, mutexes
  <2>4. ControlTypes'
      BY <1>5 DEF TypeOK, ControlTypes, Labels, PollPositions, StoreLock
  <2>q. QED BY <1>5, <2>1, <2>2, <2>3, <2>4, Untouched DEF TypeOK, PollPositions
<1>6. CASE PollPurgeFails(t)
  <2>1. AccountTypes'
      BY <1>6 DEF TypeOK, AccountTypes, LockRecord, LiqStates, PollPurgeFails,
         RetryPersistence, StoreLock, Reprice, account
  <2>2. StatusTypes'
      BY <1>6 DEF TypeOK, StatusTypes, Runtimes, PollPurgeFails, RetryPersistence,
         StoreLock, Reprice, status
  <2>3. ViewTypes'
      BY <1>6 DEF TypeOK, ViewTypes, WorldTypes, PollPurgeFails, StoreLock, Reprice, view
  <2>4. MarketTypes'
      BY <1>6 DEF TypeOK, MarketTypes, PollPurgeFails, StoreLock, Reprice, market
  <2>5. ControlTypes'
      BY <1>6 DEF TypeOK, ControlTypes, Labels, PollPurgeFails, StoreLock, Reprice,
         ReturnError
  <2>q. QED BY <1>6, <2>1, <2>2, <2>3, <2>4, <2>5, Untouched DEF TypeOK, PollPurgeFails
<1>7. CASE PollUnread(t)
  <2>1. StatusTypes'
      BY <1>7 DEF TypeOK, StatusTypes, Runtimes, PollUnread, SetAuthRequired, Degrade,
         Reprice, status
  <2>2. MarketTypes'
      BY <1>7 DEF TypeOK, MarketTypes, PollUnread, Reprice, market
  <2>3. MutexTypes'
      BY <1>7 DEF TypeOK, MutexTypes, PollUnread, Reprice, mutexes
  <2>4. ControlTypes'
      BY <1>7 DEF TypeOK, ControlTypes, Labels, PollUnread, ReturnError, Reprice
  <2>q. QED BY <1>7, <2>1, <2>2, <2>3, <2>4, Untouched DEF TypeOK, PollUnread
<1>8. CASE PollOrders(t)
  <2>1. AccountTypes'
      BY <1>8 DEF TypeOK, AccountTypes, LockRecord, LiqStates, PollOrders, PortfolioFlat,
         Reprice, StoreLiquidation, MarketReady, ShouldLiquidate, account
  <2>2. StatusTypes'
      BY <1>8 DEF TypeOK, StatusTypes, Runtimes, PollOrders, PortfolioFlat, Reprice,
         StoreLiquidation, MarketReady, ShouldLiquidate, status
  <2>3. ViewTypes'
      BY <1>8 DEF TypeOK, ViewTypes, WorldTypes, PollOrders, PortfolioFlat, Reprice,
         StoreLiquidation, MarketReady, ShouldLiquidate, view
  <2>4. MarketTypes'
      BY <1>8 DEF TypeOK, MarketTypes, PollOrders, PortfolioFlat, Reprice, StoreLiquidation,
         MarketReady, ShouldLiquidate, market
  <2>5. MutexTypes'
      BY <1>8 DEF TypeOK, MutexTypes, PollOrders, PortfolioFlat, Reprice, StoreLiquidation,
         MarketReady, ShouldLiquidate, mutexes
  <2>6. ControlTypes'
      BY <1>8 DEF TypeOK, ControlTypes, Labels, PollOrders, PortfolioFlat, Reprice,
         StoreLiquidation, MarketReady, ShouldLiquidate
  <2>q. QED BY <1>8, <2>1, <2>2, <2>3, <2>4, <2>5, <2>6, Untouched DEF TypeOK, PollOrders
<1>9. CASE PollSync(t)
  <2>1. StatusTypes'
      BY <1>9 DEF TypeOK, StatusTypes, Runtimes, PollSync, SetMarketStatus, MarketReady,
         status
  <2>2. MarketTypes'
      BY <1>9, MarketStatusTypes DEF TypeOK, MarketTypes, ViewTypes, PollSync, market
  <2>3. ControlTypes'
      BY <1>9 DEF TypeOK, ControlTypes, Labels, PollSync, MarketReady, ReturnNil,
         Initializing
  <2>q. QED BY <1>9, <2>1, <2>2, <2>3, Untouched DEF TypeOK, PollSync
<1>q. QED BY <1>1, <1>2, <1>3, <1>4, <1>5, <1>6, <1>7, <1>8, <1>9 DEF Poll

\* Every step of a liquidation keeps the types.
LEMMA LiquidateTypes ==
    ASSUME NEW t \in Threads, TypeOK, Liquidate(t)
    PROVE  TypeOK'
<1>1. CASE Acquire(t)
  <2>1. MutexTypes'
      BY <1>1 DEF TypeOK, MutexTypes, Acquire, mutexes
  <2>2. ControlTypes'
      BY <1>1 DEF TypeOK, ControlTypes, Labels, Acquire
  <2>q. QED BY <1>1, <2>1, <2>2, Untouched DEF TypeOK, Acquire
<1>2. CASE PassCancel(t)
  <2>1. WorldTypes'
      BY <1>2 DEF TypeOK, WorldTypes, PassCancel, world
  <2>2. MutexTypes'
      BY <1>2, RetryTypes DEF TypeOK, MutexTypes, PassCancel, mutexes
  <2>3. ControlTypes'
    <3>1. pc' \in [Threads -> Labels]
        BY <1>2, RetryTypes DEF TypeOK, ControlTypes, Labels, PassCancel
    <3>2. Works \/ Fails
        BY Zenon, <1>2 DEF PassCancel
    <3>q. QED BY <1>2, <3>1, <3>2, FaultTypes DEF TypeOK, ControlTypes, PassCancel
  <2>q. QED BY <1>2, <2>1, <2>2, <2>3, Untouched DEF TypeOK, PassCancel
<1>3. CASE PassPositions(t)
  <2>1. WorldTypes'
      BY <1>3 DEF TypeOK, WorldTypes, PassPositions, world
  <2>2. AccountTypes'
      BY <1>3 DEF TypeOK, AccountTypes, LockRecord, LiqStates, PassPositions, account
  <2>3. MutexTypes'
      BY <1>3, RetryTypes DEF TypeOK, MutexTypes, PassPositions, mutexes
  <2>4. ControlTypes'
      BY <1>3, RetryTypes DEF TypeOK, ControlTypes, Labels, PassPositions
  <2>q. QED BY <1>3, <2>1, <2>2, <2>3, <2>4, Untouched DEF TypeOK, PassPositions
<1>4. CASE Conclude(t)
  <2>1. AccountTypes'
      BY <1>4 DEF TypeOK, AccountTypes, LockRecord, LiqStates, Conclude, account
  <2>2. StatusTypes'
      BY <1>4 DEF TypeOK, StatusTypes, Runtimes, Conclude, SetAuthRequired, status
  <2>3. ControlTypes'
      BY <1>4 DEF TypeOK, ControlTypes, Labels, Conclude
  <2>q. QED BY <1>4, <2>1, <2>2, <2>3, Untouched DEF TypeOK, Conclude
<1>5. CASE SaveOutcome(t)
  <2>1. AccountTypes'
      BY <1>5 DEF TypeOK, AccountTypes, LockRecord, LiqStates, SaveOutcome,
         StoreLiquidation, account
  <2>2. MutexTypes'
      BY <1>5 DEF TypeOK, MutexTypes, SaveOutcome, StoreLiquidation, mutexes
  <2>3. ControlTypes'
      BY <1>5 DEF TypeOK, ControlTypes, Labels, SaveOutcome, StoreLiquidation, ReturnNil,
         Initializing, ReturnError
  <2>q. QED BY <1>5, <2>1, <2>2, <2>3, Untouched DEF TypeOK, SaveOutcome
<1>6. CASE Expire(t)
  <2>1. MutexTypes'
      BY <1>6 DEF TypeOK, MutexTypes, Expire, mutexes
  <2>2. ControlTypes'
      BY <1>6 DEF TypeOK, ControlTypes, Labels, Expire, Fails, ReturnError
  <2>q. QED BY <1>6, <2>1, <2>2, Untouched DEF TypeOK, Expire
<1>q. QED BY <1>1, <1>2, <1>3, <1>4, <1>5, <1>6 DEF Liquidate

\* Every step of a basket keeps the types.
LEMMA BasketTypes ==
    ASSUME NEW t \in Threads, TypeOK, Basket(t)
    PROVE  TypeOK'
<1>1. CASE BasketAcquire(t)
  <2>1. MutexTypes'
      BY <1>1 DEF TypeOK, MutexTypes, BasketAcquire, mutexes
  <2>2. ControlTypes'
      BY <1>1 DEF TypeOK, ControlTypes, Labels, BasketAcquire
  <2>q. QED BY <1>1, <2>1, <2>2, Untouched DEF TypeOK, BasketAcquire
<1>2. CASE BasketLeg(t)
  <2>1. WorldTypes'
      BY <1>2 DEF TypeOK, WorldTypes, BasketLeg, world
  <2>2. StatusTypes'
      BY <1>2 DEF TypeOK, StatusTypes, Runtimes, BasketLeg, SetAuthRequired, status
  <2>3. ControlTypes'
      BY <1>2 DEF TypeOK, ControlTypes, Labels, BasketLeg
  <2>q. QED BY <1>2, <2>1, <2>2, <2>3, Untouched DEF TypeOK, BasketLeg
<1>3. CASE BasketStop(t)
  <2>1. ControlTypes'
      BY <1>3 DEF TypeOK, ControlTypes, Labels, BasketStop
  <2>q. QED BY <1>3, <2>1, Untouched DEF TypeOK, BasketStop
<1>4. CASE BasketAuthLost(t)
  <2>1. StatusTypes'
      BY <1>4 DEF TypeOK, StatusTypes, Runtimes, BasketAuthLost, SetAuthRequired, status
  <2>2. ControlTypes'
      BY <1>4 DEF TypeOK, ControlTypes, Labels, BasketAuthLost
  <2>q. QED BY <1>4, <2>1, <2>2, Untouched DEF TypeOK, BasketAuthLost
<1>5. CASE BasketUndo(t)
  <2>1. WorldTypes'
      BY <1>5 DEF TypeOK, WorldTypes, BasketUndo, world
  <2>2. ControlTypes'
      BY <1>5 DEF TypeOK, ControlTypes, Labels, BasketUndo
  <2>q. QED BY <1>5, <2>1, <2>2, Untouched DEF TypeOK, BasketUndo
<1>6. CASE BasketAttention(t)
  <2>1. StatusTypes'
      BY <1>6 DEF TypeOK, StatusTypes, Runtimes, BasketAttention, status
  <2>2. ViewTypes'
      BY <1>6 DEF TypeOK, ViewTypes, BasketAttention, view
  <2>3. ControlTypes'
      BY <1>6 DEF TypeOK, ControlTypes, Labels, BasketAttention
  <2>q. QED BY <1>6, <2>1, <2>2, <2>3, Untouched DEF TypeOK, BasketAttention
<1>8. CASE BasketUncertain(t)
  <2>1. ViewTypes'
      BY <1>8 DEF TypeOK, ViewTypes, BasketUncertain
  <2>2. ControlTypes'
      BY <1>8 DEF TypeOK, ControlTypes, Labels, BasketUncertain
  <2>q. QED BY <1>8, <2>1, <2>2, Untouched DEF TypeOK, BasketUncertain
<1>7. CASE BasketFinish(t)
  <2>1. StatusTypes'
      BY <1>7 DEF TypeOK, StatusTypes, Runtimes, BasketFinish, Degrade, status
  <2>2. MutexTypes'
      BY <1>7 DEF TypeOK, MutexTypes, BasketFinish, mutexes
  <2>3. ControlTypes'
      BY <1>7 DEF TypeOK, ControlTypes, Labels, BasketFinish
  <2>q. QED BY <1>7, <2>1, <2>2, <2>3, Untouched DEF TypeOK, BasketFinish
<1>q. QED BY <1>1, <1>2, <1>3, <1>4, <1>5, <1>6, <1>7, <1>8 DEF Basket

\* Placing, modifying, cancelling and exiting keep the types.
LEMMA RequestsTypes ==
    ASSUME TypeOK, Requests
    PROVE  TypeOK'
<1>1. CASE Place
  <2>1. WorldTypes'
      BY <1>1 DEF TypeOK, WorldTypes, Place, Submitted, world
  <2>2. StatusTypes'
      BY <1>1 DEF TypeOK, StatusTypes, Runtimes, Place, MayTrade, Submitted, Degrade,
         SetAuthRequired, status
  <2>3. ControlTypes'
      BY <1>1 DEF TypeOK, ControlTypes, Labels, Place, MayTrade, Submitted
  <2>q. QED BY <1>1, <2>1, <2>2, <2>3, Untouched DEF TypeOK, Place
<1>2. CASE Modify
  <2>1. WorldTypes'
      BY <1>2 DEF TypeOK, WorldTypes, Modify, Submitted, world
  <2>2. StatusTypes'
      BY <1>2 DEF TypeOK, StatusTypes, Runtimes, Modify, MayTrade, Submitted, Degrade,
         SetAuthRequired, status
  <2>3. ControlTypes'
      BY <1>2 DEF TypeOK, ControlTypes, Labels, Modify, MayTrade, Submitted
  <2>q. QED BY <1>2, <2>1, <2>2, <2>3, Untouched DEF TypeOK, Modify
<1>3. CASE Cancel
  <2>1. WorldTypes'
      BY <1>3 DEF TypeOK, WorldTypes, Cancel, world
  <2>2. StatusTypes'
      BY <1>3 DEF TypeOK, StatusTypes, Runtimes, Cancel, SetAuthRequired, status
  <2>3. ControlTypes'
      BY <1>3 DEF TypeOK, ControlTypes, Labels, Cancel
  <2>q. QED BY <1>3, <2>1, <2>2, <2>3, Untouched DEF TypeOK, Cancel
<1>4. CASE ExitPosition
  <2>1. WorldTypes'
      BY <1>4 DEF TypeOK, WorldTypes, ExitPosition, world
  <2>2. StatusTypes'
      BY <1>4 DEF TypeOK, StatusTypes, Runtimes, ExitPosition, Degrade, SetAuthRequired,
         status
  <2>3. ViewTypes'
      BY <1>4 DEF TypeOK, ViewTypes, WorldTypes, ExitPosition, view
  <2>4. ControlTypes'
    <3>1. Works \/ Fails
        BY Zenon, <1>4 DEF ExitPosition
    <3>q. QED BY <1>4, <3>1, FaultTypes DEF TypeOK, ControlTypes, ExitPosition
  <2>q. QED BY <1>4, <2>1, <2>2, <2>3, <2>4, Untouched DEF TypeOK, ExitPosition
<1>q. QED BY <1>1, <1>2, <1>3, <1>4 DEF Requests

\* The callbacks of the market stream keep the types.
LEMMA StreamTypes ==
    ASSUME TypeOK, Stream
    PROVE  TypeOK'
<1>1. CASE MarketTick
  <2>1. AccountTypes'
      BY <1>1, EnterTypes DEF TypeOK, AccountTypes, LockRecord, LiqStates, MarketTick,
         account
  <2>2. StatusTypes'
      BY <1>1 DEF TypeOK, StatusTypes, Runtimes, MarketTick, EnterDailyLossLock,
         NextUnlocks, StoreLock, status
  <2>3. MarketTypes'
      BY <1>1 DEF TypeOK, MarketTypes, MarketTick, NextUnlocks, StoreLock, market
  <2>4. ControlTypes'
      BY <1>1 DEF TypeOK, ControlTypes, Labels, MarketTick, EnterDailyLossLock, NextUnlocks,
         StoreLock
  <2>q. QED BY <1>1, <2>1, <2>2, <2>3, <2>4, Untouched DEF TypeOK, MarketTick
<1>2. CASE MarketUp
  <2>1. StatusTypes'
      BY <1>2 DEF TypeOK, StatusTypes, Runtimes, MarketUp, SetMarketStatus, MarketReady,
         status
  <2>2. MarketTypes'
      BY <1>2, MarketStatusTypes DEF TypeOK, MarketTypes, MarketUp, market
  <2>3. ControlTypes'
      BY <1>2 DEF TypeOK, ControlTypes, Labels, MarketUp, MarketReady
  <2>q. QED BY <1>2, <2>1, <2>2, <2>3, Untouched DEF TypeOK, MarketUp
<1>3. CASE MarketDown
  <2>1. StatusTypes'
      BY <1>3 DEF TypeOK, StatusTypes, Runtimes, MarketDown, SetMarketStatus, MarketReady,
         status
  <2>2. MarketTypes'
      BY <1>3, MarketStatusTypes DEF TypeOK, MarketTypes, MarketDown, market
  <2>3. ControlTypes'
      BY <1>3 DEF TypeOK, ControlTypes, Labels, MarketDown, MarketReady
  <2>q. QED BY <1>3, <2>1, <2>2, <2>3, Untouched DEF TypeOK, MarketDown
<1>q. QED BY <1>1, <1>2, <1>3 DEF Stream

\* Kite and the clock keep the types.
LEMMA WorldTypesPreserved ==
    ASSUME TypeOK, World
    PROVE  TypeOK'
<1>1. CASE NewDay
  <2>1. WorldTypes'
    <3>1. day' \in Nat
        BY <1>1 DEF TypeOK, WorldTypes, NewDay
    <3>2. loss' \in {loss, FALSE} /\ UNCHANGED <<pos, ord, session>>
        BY Zenon, <1>1 DEF NewDay
    <3>3. {pos', ord', loss', session'} \subseteq BOOLEAN
        BY <3>2 DEF TypeOK, WorldTypes
    <3>q. QED BY <3>1, <3>3 DEF WorldTypes
  <2>2. ControlTypes'
      BY <1>1 DEF TypeOK, ControlTypes, Labels, NewDay
  <2>q. QED BY <1>1, <2>1, <2>2, Untouched DEF TypeOK, NewDay
<1>2. CASE Prices
  <2>1. WorldTypes'
      BY <1>2 DEF TypeOK, WorldTypes, Prices, world
  <2>2. ControlTypes'
      BY <1>2 DEF TypeOK, ControlTypes, Labels, Prices
  <2>q. QED BY <1>2, <2>1, <2>2, Untouched DEF TypeOK, Prices
<1>3. CASE Fill
  <2>1. WorldTypes'
      BY <1>3 DEF TypeOK, WorldTypes, Fill, world
  <2>2. ControlTypes'
      BY <1>3 DEF TypeOK, ControlTypes, Labels, Fill
  <2>q. QED BY <1>3, <2>1, <2>2, Untouched DEF TypeOK, Fill
<1>4. CASE DirectTrade
  <2>1. WorldTypes'
      BY <1>4 DEF TypeOK, WorldTypes, DirectTrade, world
  <2>2. ControlTypes'
      BY <1>4 DEF TypeOK, ControlTypes, Labels, DirectTrade
  <2>q. QED BY <1>4, <2>1, <2>2, Untouched DEF TypeOK, DirectTrade
<1>5. CASE SessionExpires
  <2>1. WorldTypes'
      BY <1>5 DEF TypeOK, WorldTypes, SessionExpires, world
  <2>2. ControlTypes'
      BY <1>5 DEF TypeOK, ControlTypes, Labels, SessionExpires
  <2>3. UNCHANGED <<account, status, view, market, mutexes>>
      BY <1>5 DEF SessionExpires
  <2>q. QED BY <2>1, <2>2, <2>3, Untouched DEF TypeOK
<1>q. QED BY <1>1, <1>2, <1>3, <1>4, <1>5 DEF World

\* A login, the live risk check and the start of a basket keep the types.
LEMMA EntryTypes ==
    ASSUME NEW t \in Threads, TypeOK, Authenticate(t) \/ EvaluateLiveRisk(t) \/ BasketStart(t)
    PROVE  TypeOK'
<1>1. CASE Authenticate(t)
  <2>1. WorldTypes'
      BY <1>1 DEF TypeOK, WorldTypes, Authenticate
  <2>2. StatusTypes'
      BY <1>1 DEF TypeOK, StatusTypes, Runtimes, Authenticate, SetAuthRequired, status
  <2>3. ControlTypes'
      BY <1>1 DEF TypeOK, ControlTypes, Labels, Authenticate
  <2>q. QED BY <1>1, <2>1, <2>2, <2>3, Untouched DEF TypeOK, Authenticate
<1>2. CASE EvaluateLiveRisk(t)
  <2>1. AccountTypes'
      BY <1>2, EnterTypes, Untouched DEF EvaluateLiveRisk
  <2>2. StatusTypes'
      BY <1>2 DEF TypeOK, StatusTypes, Runtimes, EvaluateLiveRisk, EnterDailyLossLock
  <2>3. ControlTypes'
    <3>1. Works \/ Fails
        BY Zenon, <1>2 DEF EvaluateLiveRisk, EnterDailyLossLock
    <3>2. pc' \in [Threads -> Labels]
        BY <1>2 DEF TypeOK, ControlTypes, Labels, EvaluateLiveRisk
    <3>q. QED BY <1>2, <3>1, <3>2, FaultTypes DEF TypeOK, ControlTypes, EvaluateLiveRisk
  <2>q. QED BY <1>2, <2>1, <2>2, <2>3, Untouched DEF TypeOK, EvaluateLiveRisk
<1>3. CASE BasketStart(t)
  <2>1. StatusTypes'
      BY <1>3 DEF TypeOK, StatusTypes, Runtimes, BasketStart
  <2>2. ControlTypes'
      BY <1>3 DEF TypeOK, ControlTypes, Labels, BasketStart
  <2>q. QED BY <1>3, <2>1, <2>2, Untouched DEF TypeOK, BasketStart
<1>q. QED BY <1>1, <1>2, <1>3

\* The death and the restart of the process keep the types.
LEMMA RestartTypes ==
    ASSUME TypeOK, Crash \/ Start
    PROVE  TypeOK'
<1>1. WorldTypes'
    BY Untouched DEF Crash, Start
<1>2. AccountTypes'
    BY NoLockTypes DEF TypeOK, AccountTypes, Crash, Start, Forget
<1>3. StatusTypes' /\ ViewTypes' /\ MarketTypes' /\ MutexTypes'
  <2>1. Forget
      BY DEF Crash, Start
  <2>2. StatusTypes' /\ ViewTypes'
      BY <2>1 DEF StatusTypes, ViewTypes, Runtimes, Forget
  <2>3. MarketTypes' /\ MutexTypes'
      BY <2>1 DEF MarketTypes, MutexTypes, Forget
  <2>q. QED BY <2>2, <2>3
<1>4. ControlTypes'
    BY ConstantsAssumption DEF TypeOK, ControlTypes, Labels, Crash, Start
<1>q. QED BY <1>1, <1>2, <1>3, <1>4 DEF TypeOK

\* Every step keeps the types.
LEMMA TypesPreserved == TypeOK /\ [Next]_vars => TypeOK'
<1>1. ASSUME TypeOK, UNCHANGED vars PROVE TypeOK'
  <2>1. UNCHANGED <<world, account, status, view, market, mutexes>> /\ ControlTypes'
      BY <1>1 DEF TypeOK, ControlTypes, vars
  <2>q. QED BY <1>1, <2>1, Untouched DEF TypeOK
<1>2. ASSUME TypeOK, Next PROVE TypeOK'
    BY <1>2, SessionTypes, PollTypes, LiquidateTypes, BasketTypes, RequestsTypes, StreamTypes,
       WorldTypesPreserved, EntryTypes, RestartTypes DEF Next, Thread
<1>q. QED BY <1>1, <1>2

\* The initial state has the types.
LEMMA TypesInit == Init => TypeOK
<1> SUFFICES ASSUME Init PROVE TypeOK
    OBVIOUS
<1>1. WorldTypes /\ AccountTypes
    BY NoLockTypes DEF Init, WorldTypes, AccountTypes
<1>2. StatusTypes /\ ViewTypes /\ MarketTypes /\ MutexTypes
    BY DEF Init, StatusTypes, ViewTypes, MarketTypes, MutexTypes, Runtimes
<1>3. ControlTypes
    BY DEF Init, ControlTypes, Labels
<1>q. QED BY <1>1, <1>2, <1>3 DEF TypeOK

\* The type invariant: every variable of the service, Kite and the row keeps
\* its type through every step.
THEOREM TypeCorrect == Spec => []TypeOK
    BY TypesInit, TypesPreserved, PTL DEF Spec

-----------------------------------------------------------------------------
(* The promise.  Most of the program never touches the lock: LockStep lists   *)
(* the few ways in which a step can move what DailyLock speaks about.         *)

Alive == phase # "down" /\ phase' # "down"
Unentered == UNCHANGED <<day, entered>>

Elsewhere ==
    /\ UNCHANGED <<day, entered, lock, lockPersisted, stored>>
    /\ UNCHANGED <<phase, pc>> \/ Alive
Dawns == day' = day + 1 /\ UNCHANGED <<entered, lock, lockPersisted, stored, phase, pc>>
Enters ==
    /\ Alive /\ ~Locked
    /\ entered' = entered + 1 /\ UNCHANGED <<day, lock, lockPersisted, stored>>
Locks == Alive /\ ~Locked /\ EnterDailyLossLock /\ Unentered
Persists == Alive /\ Locked /\ ~lockPersisted /\ RetryPersistence /\ Unentered
Unlocks == Alive /\ Due(lock) /\ lock.liq = "COMPLETED" /\ Unlock /\ Unentered
Progresses ==
    /\ Alive /\ Unentered /\ lockPersisted' = lockPersisted
    /\ \E l \in LiqStates : lock' = lock \/ lock' = [lock EXCEPT !.liq = l]
    /\ \E l \in LiqStates : stored' = stored \/ stored' = StoreLiquidation(l)
LockStep ==
    Elsewhere \/ Dawns \/ Enters \/ Locks \/ Persists \/ Unlocks \/ Progresses \/ Crash \/ Start

\* The goroutines of a dead process are gone.
Quiet == phase = "down" => \A t \in Threads : pc[t] = "idle"

PromiseInv == TypeOK /\ LockMirrored /\ Quiet

\* A session's steps are lock steps: none touches the lock.
LEMMA SessionLockStep ==
    ASSUME NEW t \in Threads, PromiseInv, Session(t)
    PROVE  LockStep
<1>1. Alive
    BY DEF PromiseInv, Quiet, Alive, Session, RestoreNoSession, RestoreSession, InitSession,
           Instruments, ReportFailure, StartStream, ReturnError
<1>2. UNCHANGED <<day, entered, lock, lockPersisted, stored>>
    BY DEF Session, RestoreNoSession, RestoreSession, InitSession, Instruments, ReportFailure,
           StartStream, world, account
<1>q. QED BY <1>1, <1>2 DEF LockStep, Elsewhere

\* A poll's steps are lock steps: it locks, persists, unlocks or reopens.
LEMMA PollLockStep ==
    ASSUME NEW t \in Threads, PromiseInv, Poll(t)
    PROVE  LockStep
<1>1. Alive /\ Unentered
  <2>1. phase # "down"
      BY DEF PromiseInv, Quiet, Poll, PollUnlock, PollCheck, PollBlind, PollBreach, PollPositions,
             PollPurgeFails, PollUnread, PollOrders, PollSync
  <2>2. phase' = phase \/ phase' = "running"
      BY DEF Poll, PollUnlock, PollCheck, PollBlind, PollBreach, PollPositions, PollPurgeFails,
             PollUnread, PollOrders, PollSync, ReturnError, ReturnNil
  <2>3. Unentered
      BY DEF Unentered, world, Poll, PollUnlock, PollCheck, PollBlind, PollBreach, PollPositions,
             PollPurgeFails, PollUnread, PollOrders, PollSync
  <2>q. QED BY <2>1, <2>2, <2>3 DEF Alive
<1>2. CASE PollUnlock(t)
  <2>1. CASE Due(lock) /\ lock.liq = "COMPLETED" /\ Unlock
      BY <1>1, <2>1 DEF LockStep, Unlocks
  <2>2. CASE UNCHANGED account
      BY <1>1, <2>2 DEF LockStep, Elsewhere, Unentered, account
  <2>q. QED BY <1>2, <2>1, <2>2 DEF PollUnlock
<1>3. CASE PollBreach(t)
    BY <1>1, <1>3 DEF LockStep, Locks, PollBreach
<1>4. CASE PollPositions(t)
  <2>1. CASE UNCHANGED account
      BY <1>1, <2>1 DEF LockStep, Elsewhere, Unentered, account
  <2>2. CASE Locked /\ ~lockPersisted /\ RetryPersistence
      BY <1>1, <2>2 DEF LockStep, Persists
  <2>q. QED BY <1>4, <2>1, <2>2 DEF PollPositions
<1>5. CASE PollPurgeFails(t)
  <2>1. CASE UNCHANGED account
      BY <1>1, <2>1 DEF LockStep, Elsewhere, Unentered, account
  <2>2. CASE Locked /\ ~lockPersisted /\ RetryPersistence
      BY <1>1, <2>2 DEF LockStep, Persists
  <2>q. QED BY <1>5, <2>1, <2>2 DEF PollPurgeFails
<1>6. CASE PollOrders(t)
  <2>1. "IN_PROGRESS" \in LiqStates
      BY DEF LiqStates
  <2>2. lock' = lock \/ lock' = [lock EXCEPT !.liq = "IN_PROGRESS"]
      BY <1>6 DEF PollOrders
  <2>3. stored' = stored \/ stored' = StoreLiquidation("IN_PROGRESS")
      BY <1>6 DEF PollOrders
  <2>4. lockPersisted' = lockPersisted
      BY <1>6 DEF PollOrders
  <2>q. QED BY <1>1, <2>1, <2>2, <2>3, <2>4 DEF LockStep, Progresses
<1>7. CASE PollCheck(t) \/ PollBlind(t) \/ PollUnread(t) \/ PollSync(t)
  <2>1. UNCHANGED account
      BY <1>7 DEF PollCheck, PollBlind, PollUnread, PollSync
  <2>q. QED BY <1>1, <2>1 DEF LockStep, Elsewhere, Unentered, account
<1>q. QED BY <1>2, <1>3, <1>4, <1>5, <1>6, <1>7 DEF Poll

\* A liquidation's steps are lock steps: it reports its progress.
LEMMA LiquidateLockStep ==
    ASSUME NEW t \in Threads, PromiseInv, Liquidate(t)
    PROVE  LockStep
<1>1. Alive /\ Unentered
  <2>1. phase # "down"
      BY DEF PromiseInv, Quiet, Liquidate, Acquire, PassCancel, PassPositions, Expire, Conclude,
             SaveOutcome
  <2>2. phase' = phase \/ phase' = "running"
      BY DEF Liquidate, Acquire, PassCancel, PassPositions, Expire, Conclude, SaveOutcome,
             ReturnError, ReturnNil
  <2>3. Unentered
      BY DEF Unentered, world, Liquidate, Acquire, PassCancel, PassPositions, Expire, Conclude,
             SaveOutcome
  <2>q. QED BY <2>1, <2>2, <2>3 DEF Alive
<1>2. CASE Acquire(t) \/ PassCancel(t) \/ PassPositions(t) \/ Expire(t)
  <2>1. UNCHANGED <<lock, lockPersisted, stored>>
      BY <1>2 DEF Acquire, PassCancel, PassPositions, Expire, account
  <2>q. QED BY <1>1, <2>1 DEF LockStep, Elsewhere, Unentered
<1>3. CASE Conclude(t)
  <2>1. \E l \in LiqStates : lock' = [lock EXCEPT !.liq = l]
      BY <1>3 DEF Conclude, LiqStates
  <2>2. UNCHANGED <<lockPersisted, stored>>
      BY <1>3 DEF Conclude
  <2>q. QED BY <1>1, <2>1, <2>2 DEF LockStep, Progresses
<1>4. CASE SaveOutcome(t)
  <2>1. \E l \in LiqStates : stored' = stored \/ stored' = StoreLiquidation(l)
      BY <1>4 DEF SaveOutcome, LiqStates
  <2>2. UNCHANGED <<lock, lockPersisted>>
      BY <1>4 DEF SaveOutcome
  <2>q. QED BY <1>1, <2>1, <2>2 DEF LockStep, Progresses
<1>q. QED BY <1>2, <1>3, <1>4 DEF Liquidate

\* A basket's steps are lock steps: a leg enters only while ACTIVE.
LEMMA BasketLockStep ==
    ASSUME NEW t \in Threads, PromiseInv, Basket(t)
    PROVE  LockStep
<1>1. Alive /\ UNCHANGED <<day, lock, lockPersisted, stored>>
  <2>1. phase # "down"
      BY DEF PromiseInv, Quiet, Basket, BasketAcquire, BasketLeg, BasketStop, BasketAuthLost,
             BasketUndo, BasketUncertain, BasketAttention, BasketFinish
  <2>2. UNCHANGED <<phase, day, lock, lockPersisted, stored>>
      BY DEF Basket, BasketAcquire, BasketLeg, BasketStop, BasketAuthLost, BasketUndo,
             BasketUncertain, BasketAttention, BasketFinish, world, account
  <2>q. QED BY <2>1, <2>2 DEF Alive
<1>2. entered' = entered \/ (~Locked /\ entered' = entered + 1)
    BY DEF Basket, BasketAcquire, BasketLeg, BasketStop, BasketAuthLost, BasketUndo,
           BasketUncertain, BasketAttention, BasketFinish
<1>q. QED BY <1>1, <1>2 DEF LockStep, Enters, Elsewhere

\* The requests' steps are lock steps: they enter only while ACTIVE.
LEMMA RequestsLockStep ==
    ASSUME PromiseInv, Requests
    PROVE  LockStep
<1>1. Alive /\ UNCHANGED <<day, lock, lockPersisted, stored>>
    BY DEF Requests, Place, Modify, Cancel, ExitPosition, MayTrade, Alive, account
<1>2. entered' = entered \/ (~Locked /\ entered' = entered + 1)
    BY DEF Requests, Place, Modify, Cancel, ExitPosition, MayTrade, Submitted
<1>q. QED BY <1>1, <1>2 DEF LockStep, Enters, Elsewhere

\* All other steps are lock steps: ticks lock, days pass.
LEMMA OtherLockStep ==
    ASSUME PromiseInv,
           Stream \/ World \/ \E t \in Threads : Authenticate(t) \/ EvaluateLiveRisk(t)
                                                 \/ BasketStart(t)
    PROVE  LockStep
<1>1. CASE MarketTick
  <2>1. CASE ~Locked /\ EnterDailyLossLock
      BY <1>1, <2>1 DEF MarketTick, LockStep, Locks, Alive, Unentered, world
  <2>2. CASE UNCHANGED account
      BY <1>1, <2>2 DEF MarketTick, LockStep, Elsewhere, Alive, world, account
  <2>q. QED BY <1>1, <2>1, <2>2 DEF MarketTick
<1>2. CASE NewDay
    BY <1>2 DEF NewDay, LockStep, Dawns, account
<1>3. CASE MarketUp \/ MarketDown \/ Prices \/ Fill \/ DirectTrade \/ SessionExpires
    BY <1>3 DEF MarketUp, MarketDown, Prices, Fill, DirectTrade, SessionExpires, LockStep,
                Elsewhere, world, account
<1>4. ASSUME NEW t \in Threads, Authenticate(t) \/ BasketStart(t) PROVE LockStep
    BY <1>4 DEF Authenticate, BasketStart, LockStep, Elsewhere, Alive, world, account
<1>5. ASSUME NEW t \in Threads, EvaluateLiveRisk(t) PROVE LockStep
  <2>1. CASE ~Locked /\ EnterDailyLossLock
      BY <1>5, <2>1 DEF EvaluateLiveRisk, LockStep, Locks, Alive, Unentered, world
  <2>2. CASE UNCHANGED account
      BY <1>5, <2>2 DEF EvaluateLiveRisk, LockStep, Elsewhere, Alive, world, account
  <2>q. QED BY <1>5, <2>1, <2>2 DEF EvaluateLiveRisk
<1>q. QED BY <1>1, <1>2, <1>3, <1>4, <1>5 DEF Stream, World

\* Every step of the service, of Kite and of the clock is a LockStep.
LEMMA NextLockStep == PromiseInv /\ [Next]_vars => LockStep
<1>1. ASSUME PromiseInv, UNCHANGED vars PROVE LockStep
    BY <1>1 DEF vars, world, account, LockStep, Elsewhere
<1>2. ASSUME PromiseInv, Next PROVE LockStep
    BY <1>2, SessionLockStep, PollLockStep, LiquidateLockStep, BasketLockStep, RequestsLockStep,
       OtherLockStep DEF Next, Thread, LockStep
<1>q. QED BY <1>1, <1>2

\* A process that is down stays quiet through every lock step.
LEMMA QuietPreserved == ASSUME PromiseInv, LockStep PROVE Quiet'
  BY DEF PromiseInv, Quiet, LockStep, Elsewhere, Dawns, Enters, Locks, Persists, Unlocks,
         Progresses, Alive, Crash, Start

\* Every lock step keeps the row and the memory in agreement.
LEMMA MirrorPreserved == ASSUME PromiseInv, LockStep PROVE LockMirrored'
<1> USE DEF PromiseInv, LockMirrored, TypeOK, AccountTypes, LockRecord
<1>1. CASE Elsewhere
    BY <1>1 DEF Elsewhere, Alive
<1>2. CASE Dawns
    BY <1>2 DEF Dawns
<1>3. CASE Enters
    BY <1>3 DEF Enters, Alive
<1>4. CASE Locks
    BY <1>4 DEF Locks, Alive, EnterDailyLossLock, StoreLock
<1>5. CASE Persists
    BY <1>5 DEF Persists, Alive, RetryPersistence, StoreLock
<1>6. CASE Unlocks
    BY <1>6 DEF Unlocks, Alive, Unlock, NoLock
<1>7. CASE Progresses
    BY <1>7 DEF Progresses, Alive, StoreLiquidation
<1>8. CASE Crash
    BY <1>8 DEF Crash
<1>9. CASE Start
  <2>1. lockPersisted' = TRUE /\ lock' = stored'
      BY <1>9 DEF Start, Forget
  <2>2. stored' = NoLock \/ stored' = stored
      BY <1>9 DEF Start
  <2>3. NoLock.status = "ACTIVE"
      BY DEF NoLock
  <2>4. stored.status \in {"ACTIVE", "LOCKED"}
      OBVIOUS
  <2>q. QED BY <2>1, <2>2, <2>3, <2>4
<1>q. QED BY <1>1, <1>2, <1>3, <1>4, <1>5, <1>6, <1>7, <1>8, <1>9 DEF LockStep

\* The inductive invariant survives every step.
LEMMA PromiseInvPreserved == PromiseInv /\ [Next]_vars => PromiseInv'
  BY TypesPreserved, NextLockStep, QuietPreserved, MirrorPreserved DEF PromiseInv

\* The inductive invariant holds in the initial state.
LEMMA PromiseInvInit == Init => PromiseInv
<1>1. Init => TypeOK
    BY TypesInit
<1>2. Init => LockMirrored /\ Quiet
    BY DEF Init, LockMirrored, Quiet
<1>q. QED BY <1>1, <1>2 DEF PromiseInv

\* The process and the database row agree on the lock whatever happens: an
\* active service has an ACTIVE row, a lock that was persisted has a LOCKED row
\* that opens at the same time.
THEOREM LockAlwaysMirrored == Spec => []LockMirrored
<1>1. PromiseInv => LockMirrored
    BY DEF PromiseInv
<1>q. QED BY PromiseInvInit, PromiseInvPreserved, <1>1, PTL DEF Spec

\* From the inductive invariant every step is a step of DailyLock or a
\* stutter under the refinement mapping.
LEMMA StepKeepsPromise ==
    ASSUME PromiseInv, PromiseInv', LockStep
    PROVE  [Promise!Next]_(Promise!vars)
<1> USE DEF PromiseInv, LockMirrored, TypeOK, AccountTypes, LockRecord, Shut, Effective
<1>1. CASE Elsewhere
    BY <1>1 DEF Elsewhere, Alive, Promise!vars
<1>2. CASE Dawns
    BY <1>2 DEF Dawns, Promise!Next, Promise!NewDay
<1>3. CASE Enters
    BY <1>3 DEF Enters, Alive, Promise!Next, Promise!Enter
<1>4. CASE Locks
    BY <1>4 DEF Locks, Alive, Unentered, EnterDailyLossLock, NextUnlocks, WorldTypes, Promise!Next,
                Promise!Shut
<1>5. CASE Persists
    BY <1>5 DEF Persists, Alive, Unentered, RetryPersistence, Promise!Next, Promise!Progress
<1>6. CASE Unlocks
    BY <1>6 DEF Unlocks, Alive, Unentered, Due, Unlock, NoLock, Promise!Next, Promise!Open,
                Promise!Opened
<1>7. CASE Progresses
    BY <1>7 DEF Progresses, Alive, Unentered, StoreLiquidation, Promise!Next, Promise!Progress,
                Promise!vars
<1>8. CASE Crash
  <2>1. CASE Locked /\ lockPersisted
      BY <1>8, <2>1 DEF Crash, world, Promise!Next, Promise!Progress
  <2>2. CASE Locked /\ ~lockPersisted
      BY <1>8, <2>2 DEF Crash, world, Promise!Next, Promise!Lose, Promise!Opened
  <2>3. CASE ~Locked
      BY <1>8, <2>3 DEF Crash, world, Promise!vars
  <2>q. QED BY <2>1, <2>2, <2>3
<1>9. CASE Start
  <2>1. CASE Due(stored) /\ stored.liq = "COMPLETED"
    <3>1. phase = "down" /\ Shut /\ UNCHANGED <<day, entered>>
        BY <1>9, <2>1 DEF Start, Due, world
    <3>2. phase' = "restoring" /\ lock' = NoLock
        BY <1>9, <2>1 DEF Start
    <3>3. ~Shut'
        BY <3>2 DEF NoLock
    <3>q. QED BY <2>1, <3>1, <3>2, <3>3 DEF Due, Promise!Next, Promise!Open, Promise!Opened
  <2>2. CASE ~(Due(stored) /\ stored.liq = "COMPLETED")
      BY <1>9, <2>2 DEF Start, Forget, world, Promise!vars
  <2>q. QED BY <2>1, <2>2
<1>q. QED BY <1>1, <1>2, <1>3, <1>4, <1>5, <1>6, <1>7, <1>8, <1>9 DEF LockStep

\* The service implements DailyLock for any number of days, failures, restarts
\* and orders and any set of its goroutines: no order or modification is
\* submitted while the account is locked, a lock opens only at a later opening
\* and after its liquidation was reported complete, and a restart loses only a
\* lock the database never took.
THEOREM PromiseKept == Spec => KeepsPromise
<1>1. Init => Promise!Init
  <2>1. Init => Effective = NoLock
      BY DEF Init, Effective
  <2>2. NoLock.status # "LOCKED"
      BY DEF NoLock
  <2>q. QED BY <2>1, <2>2 DEF Init, Promise!Init, Shut
<1>2. PromiseInv /\ PromiseInv' /\ [Next]_vars => [Promise!Next]_(Promise!vars)
    BY NextLockStep, StepKeepsPromise
<1>q. QED BY PromiseInvInit, PromiseInvPreserved, <1>1, <1>2, PTL
          DEF Spec, KeepsPromise, Promise!Spec

-----------------------------------------------------------------------------
(* What READY rests on, with any goroutines.  A liquidation never asks        *)
(* whether its lock is still on, so READY is earned unless one has concluded  *)
(* since the last poll with trading already ACTIVE (late); and a rollback's   *)
(* orders are on the attention map a moment before the basket raises it.      *)

\* READY was earned, or can be taken up again without a poll, by a poll that saw
\* the account in order; while a poll holds the gate its positions may be newer.
InOrder == ~seenLoss /\ fresh /\ (attention # "none" => \E u \in Threads : pc[u] = "attention")
Earned ==
    phase # "down" =>
        /\ marketGap => ~Locked /\ (late \/ InOrder)
        /\ ~Locked /\ runtime = "READY" /\ ~late =>
              InOrder /\ (gate = "free" => MarketReady(connected, seenPos, live))

\* A poll between its two reads holds the gate, and has locked on a breach.
Holder == \A t \in Threads : pc[t] = "orders" => gate = t /\ (Locked \/ ~seenLoss)

ReadyInv == PromiseInv /\ Earned /\ Holder

\* No thread comes to a poll's second read, and none leaves a basket's attention.
Placed ==
    \A u \in Threads : /\ pc'[u] = "orders" => pc[u] = "orders"
                       /\ pc[u] = "attention" => pc'[u] = "attention"

\* A step that leaves the account, the view and the stream alone.
Calm ==
    /\ phase' = "down" \/ phase # "down"
    /\ UNCHANGED <<lock, fresh, late, attention, seenPos, seenLoss, connected, live, gate>>
    /\ runtime' = "READY" => runtime = "READY"
    /\ marketGap' => marketGap
    /\ Placed

LEMMA CalmKeeps ==
    ASSUME ReadyInv, Calm
    PROVE  Earned' /\ Holder'
<1>1. InOrder => InOrder'
    BY DEF Calm, Placed, InOrder
<1>2. Earned'
    BY <1>1 DEF ReadyInv, Calm, Earned, MarketReady
<1>3. Holder'
    BY DEF ReadyInv, Calm, Placed, Holder
<1>q. QED BY <1>2, <1>3

\* A thread that moves from an ordinary place to an ordinary place.
LEMMA MovesPlaced ==
    ASSUME TypeOK, NEW t \in Threads, pc[t] # "attention",
           NEW label, label # "orders", Goto(t, label)
    PROVE  Placed
    BY DEF TypeOK, ControlTypes, Placed

\* What returning from a poll or a session does.
LEMMA ReturnsElsewhere ==
    ASSUME TypeOK, NEW t \in Threads, pc[t] # "attention", ReturnNil(t) \/ ReturnError(t)
    PROVE  Placed /\ (phase' = phase \/ phase' = "running")
<1>1. \E label \in {"idle", "stream"} : Goto(t, label)
    BY DEF ReturnNil, ReturnError
<1>2. phase' = phase \/ phase' = "running"
    BY DEF ReturnNil, ReturnError
<1>q. QED BY <1>1, <1>2, MovesPlaced

\* The threads' steps that are calm.
LEMMA CalmThread ==
    ASSUME ReadyInv, NEW t \in Threads,
           \/ RestoreNoSession(t) \/ RestoreSession(t) \/ InitSession(t) \/ Instruments(t)
           \/ ReportFailure(t) \/ PollCheck(t) \/ PollBlind(t)
           \/ Acquire(t) \/ PassCancel(t) \/ PassPositions(t) \/ Expire(t) \/ SaveOutcome(t)
           \/ Authenticate(t) \/ BasketStart(t)
    PROVE  Calm
<1>0. TypeOK /\ pc \in [Threads -> Labels]
    BY DEF ReadyInv, PromiseInv, TypeOK, ControlTypes
<1>1. phase # "down"
    BY DEF ReadyInv, PromiseInv, Quiet, RestoreNoSession, RestoreSession, InitSession, Instruments,
       ReportFailure, PollCheck, PollBlind, Acquire, PassCancel, PassPositions, Expire, SaveOutcome,
       Authenticate, BasketStart
<1>2. UNCHANGED <<lock, fresh, late, attention, seenPos, seenLoss, connected, live, gate>>
    BY DEF RestoreNoSession, RestoreSession, InitSession, Instruments, ReportFailure, PollCheck,
       PollBlind, Acquire, PassCancel, PassPositions, Expire, SaveOutcome, Authenticate, BasketStart,
       account, view, market, mutexes
<1>3. (runtime' = "READY" => runtime = "READY") /\ (marketGap' => marketGap)
  <2>1. CASE ReportFailure(t) \/ PollBlind(t) \/ InitSession(t) \/ Authenticate(t) \/ BasketStart(t)
      BY <2>1 DEF ReportFailure, PollBlind, InitSession, Authenticate, BasketStart, SetAuthRequired,
         Degrade, status
  <2>2. CASE UNCHANGED status
      BY <2>2 DEF status
  <2>q. QED BY <2>1, <2>2 DEF RestoreNoSession, RestoreSession, Instruments, PollCheck, Acquire,
       PassCancel, PassPositions, Expire, SaveOutcome
<1>4. pc[t] # "attention"
    BY DEF RestoreNoSession, RestoreSession, InitSession, Instruments, ReportFailure, PollCheck,
       PollBlind, Acquire, PassCancel, PassPositions, Expire, Conclude, SaveOutcome, Authenticate,
       BasketStart
<1>5. CASE ReturnError(t) \/ ReturnNil(t)
    BY <1>0, <1>1, <1>2, <1>3, <1>4, <1>5, ReturnsElsewhere DEF Calm
<1>6. CASE \E label \in Labels \ {"orders"} : Goto(t, label)
    BY <1>0, <1>1, <1>2, <1>3, <1>4, <1>6, MovesPlaced DEF Calm
<1>7. CASE PassCancel(t) \/ PassPositions(t)
  <2>1. \E label \in {"scan", "authLost", "cancel", "giveUp", "finish"} : Goto(t, label)
      BY Zenon, <1>7 DEF PassCancel, PassPositions, Retry
  <2>q. QED BY <1>6, <2>1 DEF Labels
<1>8. CASE UNCHANGED pc
    BY <1>1, <1>2, <1>3, <1>8 DEF Calm, Placed
<1>9. CASE ~(PassCancel(t) \/ PassPositions(t))
    BY <1>5, <1>6, <1>8, <1>9 DEF Labels, RestoreNoSession, RestoreSession, InitSession,
       Instruments, ReportFailure, PollCheck, PollBlind, Acquire, Expire, SaveOutcome, Authenticate,
       BasketStart
<1>q. QED BY <1>7, <1>9

\* A basket's steps are calm but for the attention it may raise.
LEMMA BasketEarned ==
    ASSUME ReadyInv, NEW t \in Threads, Basket(t)
    PROVE  Earned' /\ Holder'
<1>0. TypeOK /\ pc \in [Threads -> Labels]
    BY DEF ReadyInv, PromiseInv, TypeOK, ControlTypes
<1>1. phase # "down"
    BY DEF ReadyInv, PromiseInv, Quiet, Basket, BasketAcquire, BasketLeg, BasketStop,
       BasketAuthLost, BasketUndo, BasketUncertain, BasketAttention, BasketFinish
<1>2. UNCHANGED <<lock, fresh, late, seenPos, seenLoss, connected, live, gate>>
    BY DEF Basket, BasketAcquire, BasketLeg, BasketStop, BasketAuthLost, BasketUndo, BasketUncertain,
       BasketAttention, BasketFinish, account, view, market, mutexes
<1>3. \A u \in Threads : pc'[u] = "orders" => pc[u] = "orders"
    BY <1>0 DEF Basket, BasketAcquire, BasketLeg, BasketStop, BasketAuthLost, BasketUndo,
       BasketUncertain, BasketAttention, BasketFinish
<1>4. Holder'
    BY <1>2, <1>3 DEF ReadyInv, Holder
<1>5. CASE BasketUncertain(t)
  <2>1. pc'[t] = "attention" /\ UNCHANGED <<runtime, marketGap, phase>>
      BY <1>0, <1>5 DEF BasketUncertain, status
  <2>2. InOrder => InOrder'
      BY <1>2, <2>1 DEF InOrder
  <2>3. Earned'
      BY <1>2, <2>1, <2>2 DEF ReadyInv, Earned, MarketReady
  <2>q. QED BY <1>4, <2>3
<1>6. CASE BasketAttention(t)
  <2>1. runtime' # "READY" /\ ~marketGap'
      BY <1>6 DEF BasketAttention
  <2>q. QED BY <1>4, <2>1 DEF Earned
<1>7. CASE /\ ~BasketUncertain(t) /\ ~BasketAttention(t)
  <2>1. (runtime' = "READY" => runtime = "READY") /\ (marketGap' => marketGap) /\ attention' = attention
      BY <1>7 DEF Basket, BasketAcquire, BasketLeg, BasketStop, BasketAuthLost, BasketUndo,
         BasketFinish, SetAuthRequired, Degrade, status, view
  <2>2. \A u \in Threads : pc[u] = "attention" => pc'[u] = "attention"
      BY <1>0, <1>7 DEF Basket, BasketAcquire, BasketLeg, BasketStop, BasketAuthLost, BasketUndo,
         BasketFinish
  <2>q. QED BY <1>1, <1>2, <1>3, <2>1, <2>2, CalmKeeps DEF Calm, Placed
<1>q. QED BY <1>5, <1>6, <1>7

\* Requests, Kite and the clock.
LEMMA CalmOthers ==
    ASSUME ReadyInv, Requests \/ World \/ UNCHANGED vars
    PROVE  Earned' /\ Holder'
<1>1. UNCHANGED <<lock, fresh, late, attention, seenPos, seenLoss, connected, live, gate, phase, pc>>
  <2>1. CASE Requests
      BY <2>1 DEF Requests, Place, Modify, Cancel, ExitPosition, account, view, market, mutexes
  <2>2. CASE World
      BY <2>2 DEF World, NewDay, Prices, Fill, DirectTrade, SessionExpires, account, view, market,
         mutexes
  <2>3. CASE UNCHANGED vars
      BY <2>3 DEF vars, account, view, market, mutexes
  <2>q. QED BY <2>1, <2>2, <2>3
<1>2. UNCHANGED status \/ Degrade \/ SetAuthRequired
  <2>1. CASE Requests
      BY Zenon, <2>1 DEF Requests, Place, Modify, Cancel, ExitPosition, Submitted
  <2>2. CASE World
      BY Zenon, <2>2 DEF World, NewDay, Prices, Fill, DirectTrade, SessionExpires
  <2>3. CASE UNCHANGED vars
      BY <2>3 DEF vars
  <2>q. QED BY <2>1, <2>2, <2>3
<1>3. (runtime' = "READY" => runtime = "READY") /\ (marketGap' => marketGap)
    BY <1>2 DEF SetAuthRequired, Degrade, status
<1>q. QED BY <1>1, <1>3, CalmKeeps DEF Calm, Placed

\* With the gate free no poll is between its two reads.
LEMMA NonePolls ==
    ASSUME ReadyInv, gate = "free"
    PROVE  \A u \in Threads : pc[u] # "orders"
    BY ConstantsAssumption DEF ReadyInv, Holder, AllThreads

\* READY and its gap keep their meaning when the stream goes up or down.
LEMMA MarketStatusEarned ==
    ASSUME ReadyInv, NEW up \in BOOLEAN, SetMarketStatus(up), gate = "free", phase # "down",
           UNCHANGED <<lock, fresh, late, attention, seenPos, seenLoss>>, Placed
    PROVE  Earned'
<1>0. InOrder => InOrder'
    BY DEF InOrder, Placed
<1>1. CASE ~Locked /\ runtime = "READY" /\ ~MarketReady(up, seenPos, live')
    BY <1>0, <1>1 DEF SetMarketStatus, ReadyInv, Earned
<1>2. CASE ~(~Locked /\ runtime = "READY" /\ ~MarketReady(up, seenPos, live'))
  <2>1. UNCHANGED <<runtime, marketGap>> /\ connected' = up
      BY <1>2 DEF SetMarketStatus
  <2>q. QED BY <1>0, <1>2, <2>1 DEF ReadyInv, Earned, MarketReady
<1>q. QED BY <1>1, <1>2

\* A step under a free gate that comes to no special place leaves no poll half way.
LEMMA FreeKeepsHolder ==
    ASSUME ReadyInv, gate = "free", Placed
    PROVE  Holder'
    BY NonePolls DEF Placed, Holder

\* A new lock is not READY.
LEMMA LockingKeeps ==
    ASSUME ReadyInv, GateFree, EnterDailyLossLock, Placed
    PROVE  Earned' /\ Holder'
    BY FreeKeepsHolder DEF EnterDailyLossLock, Earned

\* The steps of a poll.
LEMMA PollEarned ==
    ASSUME ReadyInv, NEW t \in Threads, Poll(t)
    PROVE  Earned' /\ Holder'
<1>0. TypeOK /\ pc \in [Threads -> Labels] /\ t # "free"
    BY ConstantsAssumption DEF ReadyInv, PromiseInv, TypeOK, ControlTypes, AllThreads
<1>a. phase # "down"
    BY DEF ReadyInv, PromiseInv, Quiet, Poll, PollUnlock, PollCheck, PollBlind, PollBreach,
       PollPositions, PollPurgeFails, PollUnread, PollOrders, PollSync
<1>b. pc[t] # "attention"
    BY DEF Poll, PollUnlock, AtPoll, PollCheck, PollBlind, PollBreach, PollPositions, PollPurgeFails,
       PollUnread, PollOrders, PollSync
<1>1. CASE PollUnlock(t)
  <2>1. gate = "free" /\ UNCHANGED <<view, market, gate>>
      BY <1>1 DEF PollUnlock, mutexes
  <2>2. Placed
    <3>1. CASE ReturnError(t)
        BY <1>0, <1>b, <3>1, ReturnsElsewhere
    <3>2. CASE Goto(t, "check")
        BY <1>0, <1>b, <3>2, MovesPlaced
    <3>q. QED BY <1>1, <3>1, <3>2 DEF PollUnlock
  <2>3. CASE Unlock
      BY <2>1, <2>2, <2>3, FreeKeepsHolder DEF Unlock, Earned
  <2>4. CASE UNCHANGED account
    <3>1. (runtime' = "READY" => runtime = "READY") /\ (marketGap' = marketGap \/ marketGap' = FALSE)
        BY <1>1 DEF PollUnlock, Unlock, status
    <3>q. QED BY <1>a, <2>1, <2>2, <2>4, <3>1, CalmKeeps DEF Calm, account, view, market
  <2>q. QED BY <1>1, <2>3, <2>4 DEF PollUnlock
<1>2. CASE PollCheck(t) \/ PollBlind(t)
    BY <1>2, CalmThread, CalmKeeps
<1>3. CASE PollBreach(t)
  <2>1. Placed
      BY <1>0, <1>b, <1>3, MovesPlaced DEF PollBreach
  <2>q. QED BY <1>3, <2>1, LockingKeeps DEF PollBreach
<1>4. CASE PollPositions(t)
  <2>1. /\ gate = "free" /\ gate' = t /\ seenLoss' = loss /\ (Locked \/ ~loss)
        /\ UNCHANGED <<lock, fresh, late, status, attention>>
      BY <1>4 DEF PollPositions, account, RetryPersistence
  <2>2. pc' = [pc EXCEPT ![t] = "orders"]
      BY <1>4 DEF PollPositions
  <2>3. \A u \in Threads : pc[u] = "attention" => pc'[u] = "attention"
      BY <1>0, <1>b, <2>2
  <2>4. Earned'
      BY <1>0, <1>a, <2>1, <2>3 DEF ReadyInv, Earned, InOrder, status
  <2>5. Holder'
      BY <1>0, <2>1, <2>2, NonePolls DEF Holder
  <2>q. QED BY <2>4, <2>5
<1>5. CASE PollPurgeFails(t)
  <2>1. Placed
      BY <1>0, <1>b, <1>5, ReturnsElsewhere DEF PollPurgeFails
  <2>2. Earned'
      BY <1>5 DEF PollPurgeFails, Earned
  <2>3. Holder'
      BY <1>5, <2>1, FreeKeepsHolder DEF PollPurgeFails
  <2>q. QED BY <2>2, <2>3
<1>6. CASE PollUnread(t)
  <2>1. /\ pc[t] = "orders" /\ runtime' # "READY" /\ ~marketGap' /\ UNCHANGED <<account, view>>
      BY <1>6 DEF PollUnread, SetAuthRequired, Degrade
  <2>2. \E label \in {"idle", "stream", "acquire"} : pc' = [pc EXCEPT ![t] = label]
      BY <1>6 DEF PollUnread, ReturnError
  <2>3. Earned'
      BY <2>1 DEF Earned
  <2>4. Holder'
      BY <1>0, <2>1, <2>2 DEF ReadyInv, Holder
  <2>q. QED BY <2>3, <2>4
<1>7. CASE PollOrders(t)
  <2>1. /\ pc[t] = "orders" /\ lock'.status = lock.status /\ fresh' = ~Locked
        /\ UNCHANGED <<seenPos, seenLoss, connected>>
      BY <1>0, <1>7 DEF PollOrders, TypeOK, AccountTypes, LockRecord
  <2>2. \E label \in {"sync", "syncLiquidate"} : pc' = [pc EXCEPT ![t] = label]
      BY <1>7 DEF PollOrders
  <2>3. Holder'
      BY <1>0, <2>1, <2>2 DEF ReadyInv, Holder
  <2>4. CASE Locked
    <3>1. ~marketGap
        BY <1>a, <2>4 DEF ReadyInv, Earned
    <3>2. ~marketGap'
        BY <1>7, <2>4, <3>1 DEF PollOrders
    <3>q. QED BY <2>1, <2>3, <2>4, <3>2 DEF Earned
  <2>5. CASE ~Locked
    <3>1. ~seenLoss' /\ fresh'
        BY <2>1, <2>5 DEF ReadyInv, Holder
    <3>2. CASE attention' # "none"
      <4>1. runtime' # "READY" /\ ~marketGap'
          BY <1>7, <2>5, <3>2 DEF PollOrders
      <4>q. QED BY <2>3, <4>1 DEF Earned
    <3>3. CASE attention' = "none"
      <4>1. runtime' = "READY" => MarketReady(connected, seenPos, live')
          BY <1>7, <2>5, <3>3 DEF PollOrders
      <4>2. InOrder'
          BY <3>1, <3>3 DEF InOrder
      <4>q. QED BY <2>1, <2>3, <2>5, <4>1, <4>2 DEF Earned, MarketReady
    <3>q. QED BY <3>2, <3>3
  <2>q. QED BY <2>4, <2>5
<1>8. CASE PollSync(t)
  <2>1. gate = "free" /\ UNCHANGED <<account, view, gate>>
      BY <1>8 DEF PollSync, mutexes
  <2>2. Placed
    <3>1. CASE ReturnNil(t)
        BY <1>0, <1>b, <3>1, ReturnsElsewhere
    <3>2. CASE Goto(t, "acquire")
        BY <1>0, <1>b, <3>2, MovesPlaced
    <3>q. QED BY <1>8, <3>1, <3>2 DEF PollSync
  <2>3. Holder'
      BY <2>1, <2>2, FreeKeepsHolder
  <2>4. CASE SetMarketStatus(FALSE)
      BY <1>a, <2>1, <2>2, <2>3, <2>4, MarketStatusEarned DEF account, view
  <2>5. CASE UNCHANGED <<connected, live, status>>
    <3>1. Calm
        BY <1>a, <2>1, <2>2, <2>5 DEF Calm, account, view, status
    <3>q. QED BY <3>1, CalmKeeps
  <2>q. QED BY <1>8, <2>4, <2>5 DEF PollSync
<1>q. QED BY <1>1, <1>2, <1>3, <1>4, <1>5, <1>6, <1>7, <1>8 DEF Poll

\* The steps of a liquidation.  Its last says READY by itself: of a locked account,
\* or late.
LEMMA LiquidateEarned ==
    ASSUME ReadyInv, NEW t \in Threads, Liquidate(t)
    PROVE  Earned' /\ Holder'
<1>0. TypeOK /\ pc \in [Threads -> Labels]
    BY DEF ReadyInv, PromiseInv, TypeOK, ControlTypes
<1>1. CASE Acquire(t) \/ PassCancel(t) \/ PassPositions(t) \/ Expire(t) \/ SaveOutcome(t)
    BY <1>1, CalmThread, CalmKeeps
<1>2. CASE Conclude(t)
  <2>1. gate = "free" /\ ~marketGap' /\ lock'.status = lock.status
      BY <1>0, <1>2 DEF Conclude, SetAuthRequired, TypeOK, AccountTypes, LockRecord
  <2>2. \E label \in {"saveDone", "saveRetry"} : Goto(t, label)
      BY <1>2 DEF Conclude
  <2>3. runtime' = "READY" => Locked \/ late'
      BY <1>2 DEF Conclude, SetAuthRequired
  <2>4. Earned'
      BY <2>1, <2>3 DEF Earned
  <2>5. Holder'
      BY <1>0, <2>1, <2>2, NonePolls DEF Holder
  <2>q. QED BY <2>4, <2>5
<1>q. QED BY <1>1, <1>2 DEF Liquidate

\* A session's steps, of which the last starts the stream.
LEMMA SessionEarned ==
    ASSUME ReadyInv, NEW t \in Threads, Session(t)
    PROVE  Earned' /\ Holder'
<1>1. CASE StartStream(t)
  <2>1. TypeOK /\ phase # "down" /\ gate = "free" /\ UNCHANGED <<account, view, gate>>
      BY <1>1 DEF ReadyInv, PromiseInv, StartStream, mutexes
  <2>2. Placed
      BY <1>1, <2>1, ReturnsElsewhere DEF StartStream
  <2>3. Holder'
      BY <2>1, <2>2, FreeKeepsHolder
  <2>4. CASE SetMarketStatus(FALSE)
      BY <2>1, <2>2, <2>3, <2>4, MarketStatusEarned DEF account, view
  <2>5. CASE UNCHANGED <<market, status>>
    <3>1. Calm
        BY <2>1, <2>2, <2>5 DEF Calm, account, view, market, status
    <3>q. QED BY <3>1, CalmKeeps
  <2>q. QED BY <1>1, <2>4, <2>5 DEF StartStream
<1>q. QED BY <1>1, CalmThread, CalmKeeps DEF Session

\* The live check may lock, find the market data missing, or find it back again.
LEMMA LiveEarned ==
    ASSUME ReadyInv, NEW t \in Threads, EvaluateLiveRisk(t)
    PROVE  Earned' /\ Holder'
<1>0. TypeOK /\ pc \in [Threads -> Labels] /\ phase # "down" /\ gate = "free" /\ ~Locked
    BY DEF ReadyInv, PromiseInv, TypeOK, ControlTypes, EvaluateLiveRisk
<1>1. CASE EnterDailyLossLock /\ Goto(t, "acquire")
  <2>1. Placed
      BY <1>0, <1>1, MovesPlaced DEF EvaluateLiveRisk
  <2>q. QED BY <1>0, <1>1, <2>1, LockingKeeps
<1>2. CASE UNCHANGED account /\ UNCHANGED pc
  <2>1. Placed /\ Holder'
      BY <1>0, <1>2, FreeKeepsHolder DEF Placed
  <2>2. UNCHANGED <<phase, view, market, lock, fresh, late>>
      BY <1>2 DEF EvaluateLiveRisk, account
  <2>3. \/ runtime = "READY" /\ runtime' # "READY"
        \/ marketGap /\ MarketReady(connected, seenPos, live) /\ ~marketGap'
      BY <1>0, <1>2 DEF EvaluateLiveRisk, EnterDailyLossLock
  <2>4. InOrder => InOrder'
      BY <2>1, <2>2 DEF InOrder, Placed, view
  <2>5. late \/ InOrder
      BY <1>0, <2>3 DEF ReadyInv, Earned
  <2>6. runtime' = "READY" => MarketReady(connected, seenPos, live)
      BY <2>3
  <2>q. QED BY <1>0, <2>1, <2>2, <2>4, <2>5, <2>6 DEF Earned, MarketReady, view, market
<1>q. QED BY <1>1, <1>2 DEF EvaluateLiveRisk

\* The stream's callbacks.
LEMMA StreamEarned ==
    ASSUME ReadyInv, Stream
    PROVE  Earned' /\ Holder'
<1>0. /\ TypeOK /\ pc \in [Threads -> Labels] /\ phase # "down" /\ gate = "free"
      /\ UNCHANGED <<view, gate>>
    BY DEF ReadyInv, PromiseInv, TypeOK, ControlTypes, Stream, MarketTick, MarketUp, MarketDown,
       mutexes
<1>1. CASE MarketTick
  <2>1. Placed
      BY <1>0, <1>1 DEF MarketTick, Placed
  <2>2. CASE ~Locked /\ EnterDailyLossLock
      BY <1>0, <2>1, <2>2, LockingKeeps
  <2>3. CASE UNCHANGED account /\ UNCHANGED status
    <3>1. Holder'
        BY <1>0, <2>1, FreeKeepsHolder
    <3>2. live' \in {live, connected} /\ connected' = connected
        BY <1>1 DEF MarketTick
    <3>3. MarketReady(connected, seenPos, live) => MarketReady(connected, seenPos, live)'
        BY <1>0, <3>2 DEF MarketReady, view
    <3>4. InOrder => InOrder'
        BY <1>0, <2>1, <2>3 DEF InOrder, Placed, account, view
    <3>5. Earned'
        BY <1>0, <2>3, <3>3, <3>4 DEF ReadyInv, Earned, account, status
    <3>q. QED BY <3>1, <3>5
  <2>q. QED BY <1>1, <2>2, <2>3 DEF MarketTick
<1>2. CASE MarketUp \/ MarketDown
  <2>1. (SetMarketStatus(TRUE) \/ SetMarketStatus(FALSE)) /\ UNCHANGED <<account, pc>>
      BY <1>2 DEF MarketUp, MarketDown
  <2>2. Placed /\ Holder'
      BY <1>0, <2>1, FreeKeepsHolder DEF Placed
  <2>q. QED BY <1>0, <2>1, <2>2, MarketStatusEarned DEF account, view
<1>q. QED BY <1>1, <1>2 DEF Stream

\* A restart starts from nothing but the row.
LEMMA RestartEarned ==
    ASSUME ReadyInv, Crash \/ Start
    PROVE  Earned' /\ Holder'
<1>0. TypeOK /\ pc \in [Threads -> Labels] /\ "monitor" \in Threads
    BY ConstantsAssumption DEF ReadyInv, PromiseInv, TypeOK, ControlTypes
<1>1. runtime' = "AUTH_REQUIRED" /\ ~marketGap'
    BY DEF Crash, Start, Forget
<1>2. Earned'
    BY <1>1 DEF Earned
<1>3. \A u \in Threads : pc'[u] \in {"idle", "restore"}
    BY <1>0 DEF Crash, Start, ReadyInv, PromiseInv, Quiet
<1>4. Holder'
    BY <1>3 DEF Holder
<1>q. QED BY <1>2, <1>4

\* Every step keeps the invariant.
LEMMA ReadyInvPreserved == ReadyInv /\ [Next]_vars => ReadyInv'
<1> SUFFICES ASSUME ReadyInv, [Next]_vars PROVE ReadyInv'
    OBVIOUS
<1>1. PromiseInv'
    BY PromiseInvPreserved DEF ReadyInv
<1>2. Earned' /\ Holder'
  <2>1. CASE Requests \/ World \/ UNCHANGED vars
      BY <2>1, CalmOthers
  <2>2. CASE Stream \/ Crash \/ Start
      BY <2>2, StreamEarned, RestartEarned
  <2>3. ASSUME NEW t \in Threads,
               Thread(t) \/ Authenticate(t) \/ EvaluateLiveRisk(t) \/ BasketStart(t)
        PROVE  Earned' /\ Holder'
      BY <2>3, SessionEarned, PollEarned, LiquidateEarned, BasketEarned, LiveEarned, CalmThread,
         CalmKeeps DEF Thread
  <2>q. QED BY <2>1, <2>2, <2>3 DEF Next
<1>q. QED BY <1>1, <1>2 DEF ReadyInv

\* The service starts knowing nothing.
LEMMA ReadyInvInit == Init => ReadyInv
<1>1. Init => Earned /\ Holder
    BY DEF Init, Earned, Holder
<1>q. QED BY <1>1, PromiseInvInit DEF ReadyInv

\* For any set of goroutines and any failures: READY with trading ACTIVE is earned by a
\* poll that saw the account in order and the market data in place, though the live
\* check takes it away and restores it.  Excepted are a liquidation that concludes
\* after its lock has ended, until the next poll, and the moment in which a basket's
\* failed rollback is on the attention map and not yet raised.
THEOREM ReadyEarned == Spec => []ReadyIsEarned
<1>1. ReadyInv => ReadyIsEarned
    BY DEF ReadyInv, Earned, InOrder, ReadyIsEarned
<1>q. QED BY ReadyInvInit, ReadyInvPreserved, <1>1, PTL DEF Spec

===============================================================================
