------------------------------ MODULE Services ------------------------------
(***************************************************************************)
(* The services around the pipeline, each with constants and variables of  *)
(* its own.  They share no state, so a behaviour of this module is one of  *)
(* one of them, the part that is chosen initially; the others rest.        *)
(***************************************************************************)
EXTENDS Integers, Sequences, FiniteSets

CONSTANTS ARequests, AStocks, AStrategies, ABatches, AThemeOf, AConfigStored, ADedupTtl,
          AStockCooldown, AMaxDailySignals, ACountBound, AMaxSignalsPerStrategy, AMaxPositions, AMaxThemePositions,
          AHorizon,
          VStocks, VRawPrices, VWatchFor, VReleaseLease, VSupplementAge, VSignalLease, VQueueBound,
          VHorizon,
          CStocks, CDayLength, CMinObserveDays, CSignalLimit, CWatchTtl, CTriggerTtl, CHorizon,
          NChats, NEvents, NSendLease, NMinute, NMaxSignalsPerMin, NMaxDefers, NDeferFor, NEmitBound,
          NHorizon,
          KScans, KBudget, KInterval, KWaitFor, KBackoff, KMaxRetries, KTaskBound, KHorizon,
          BWorkers, BSlots, BLiveTtl, BCacheTtl, BHorizon,
          PShares, PLimit, PQualityFilter, PRankings, PTossRankings, PLiveRankings, PPreMarket,
          PIntraday, PListenLimit, PMinute, POpening, PRegular, PClosing, PHorizon,
          QOrder, QAtClose, QSlots, QPause, QForceClose, QOpens, QCloses, QTimeoutOf, QDay,
          QSetbackBound,
          GWorkers, GKinds, GLimits, GBlockTtl, GHorizon,
          DCallers, DRequests, DTtl, DMaxPages, DHorizon,
          MRequests, MTtl, MMaxPages

VARIABLES part,
          aNow, aDedup, aCooldown, aCount, aPositions, aRequests, aPushed,
          vNow, vOpen, vVi, vLease, vQueue, vHand, vSignalled,
          cNow, cWatch, cTriggered, cQueue, cScan, cHanded, cSeen,
          nNow, nEmitted, nTelegram, nScored, nHand, nClaims, nLimiter, nDeferred,
          nSent, nAdmitted, nSkipped, nOrphans, nUnlocked,
          kNow, kScan, kTasks, kInflight, kLocal, kLock, kRedis, kDisabled, kLast, kTight,
          bNow, bCache, bWork, bTold,
          pNow, pPools, pWatchlist, pListing, pTodo, pWake,
          qNow, qPending, qRunning, qStarted, qResume, qSetbacks, qExhausted, qScanned, qLate,
          gNow, gUsed, gBlocked, gCall, gHits,
          dNow, dCache, dTasks, dWaits, dTold

admission == <<aNow, aDedup, aCooldown, aCount, aPositions, aRequests, aPushed>>
viWatch == <<vNow, vOpen, vVi, vLease, vQueue, vHand, vSignalled>>
accumulation == <<cNow, cWatch, cTriggered, cQueue, cScan, cHanded, cSeen>>
notifier == <<nNow, nEmitted, nTelegram, nScored, nHand, nClaims, nLimiter, nDeferred,
              nSent, nAdmitted, nSkipped, nOrphans, nUnlocked>>
restCalls == <<kNow, kScan, kTasks, kInflight, kLocal, kLock, kRedis, kDisabled, kLast, kTight>>
newsDesk == <<bNow, bCache, bWork, bTold>>
poolBuilder == <<pNow, pPools, pWatchlist, pListing, pTodo, pWake>>
scanCycle == <<qNow, qPending, qRunning, qStarted, qResume, qSetbacks, qExhausted, qScanned, qLate>>
claude == <<gNow, gUsed, gBlocked, gCall, gHits>>
candles == <<dNow, dCache, dTasks, dWaits, dTold>>
vars == <<part, admission, viWatch, accumulation, notifier, restCalls, newsDesk, poolBuilder, scanCycle,
          claude, candles>>

A == INSTANCE SignalAdmission WITH
        Requests <- ARequests, Stocks <- AStocks, Strategies <- AStrategies, Batches <- ABatches,
        ThemeOf <- AThemeOf, ConfigStored <- AConfigStored, DedupTtl <- ADedupTtl,
        StockCooldown <- AStockCooldown, MaxDailySignals <- AMaxDailySignals, CountBound <- ACountBound,
        MaxSignalsPerStrategy <- AMaxSignalsPerStrategy, MaxPositions <- AMaxPositions,
        MaxThemePositions <- AMaxThemePositions, Horizon <- AHorizon,
        now <- aNow, dedup <- aDedup, cooldown <- aCooldown, dailyCount <- aCount,
        positions <- aPositions, requests <- aRequests, pushed <- aPushed

V == INSTANCE ViWatch WITH
        Stocks <- VStocks, RawPrices <- VRawPrices, WatchFor <- VWatchFor,
        ReleaseLease <- VReleaseLease, SupplementAge <- VSupplementAge, SignalLease <- VSignalLease,
        QueueBound <- VQueueBound, Horizon <- VHorizon,
        now <- vNow, open <- vOpen, vi <- vVi, lease <- vLease, queue <- vQueue, hand <- vHand,
        signalled <- vSignalled

C == INSTANCE Accumulation WITH
        Stocks <- CStocks, DayLength <- CDayLength, MinObserveDays <- CMinObserveDays,
        SignalLimit <- CSignalLimit, WatchTtl <- CWatchTtl, TriggerTtl <- CTriggerTtl,
        Horizon <- CHorizon,
        now <- cNow, watch <- cWatch, triggered <- cTriggered, queue <- cQueue, scan <- cScan,
        handed <- cHanded, seenOn <- cSeen

N == INSTANCE Notifier WITH
        Chats <- NChats, Events <- NEvents, SendLease <- NSendLease, Minute <- NMinute,
        MaxSignalsPerMin <- NMaxSignalsPerMin, MaxDefers <- NMaxDefers, DeferFor <- NDeferFor,
        EmitBound <- NEmitBound, Horizon <- NHorizon,
        now <- nNow, emitted <- nEmitted, telegramQueue <- nTelegram, scoredQueue <- nScored,
        hand <- nHand, claims <- nClaims, limiter <- nLimiter, deferred <- nDeferred, sent <- nSent,
        admitted <- nAdmitted, skipped <- nSkipped, orphans <- nOrphans, unlocked <- nUnlocked

K == INSTANCE RestCalls WITH
        Scans <- KScans, Budget <- KBudget, Interval <- KInterval, WaitFor <- KWaitFor,
        Backoff <- KBackoff, MaxRetries <- KMaxRetries, TaskBound <- KTaskBound, Horizon <- KHorizon,
        now <- kNow, scan <- kScan, tasks <- kTasks, inflight <- kInflight, lastLocal <- kLocal,
        lock <- kLock, redisUp <- kRedis, disabledUntil <- kDisabled, last <- kLast, tight <- kTight

B == INSTANCE NewsDesk WITH
        Workers <- BWorkers, Slots <- BSlots, LiveTtl <- BLiveTtl, CacheTtl <- BCacheTtl,
        Horizon <- BHorizon,
        now <- bNow, cache <- bCache, work <- bWork, told <- bTold

P == INSTANCE CandidatePools WITH
        Shares <- PShares, Limit <- PLimit, QualityFilter <- PQualityFilter, Rankings <- PRankings,
        TossRankings <- PTossRankings, LiveRankings <- PLiveRankings, PreMarket <- PPreMarket,
        Intraday <- PIntraday, ListenLimit <- PListenLimit, Minute <- PMinute, Opening <- POpening,
        Regular <- PRegular, Closing <- PClosing, Horizon <- PHorizon,
        now <- pNow, pools <- pPools, watchlist <- pWatchlist, listing <- pListing, todo <- pTodo,
        wake <- pWake

Q == INSTANCE ScanCycle WITH
        Order <- QOrder, AtClose <- QAtClose, Slots <- QSlots, Pause <- QPause,
        ForceClose <- QForceClose, Opens <- QOpens, Closes <- QCloses, TimeoutOf <- QTimeoutOf,
        Day <- QDay, SetbackBound <- QSetbackBound,
        now <- qNow, pending <- qPending, running <- qRunning, started <- qStarted, resume <- qResume,
        setbacks <- qSetbacks, exhausted <- qExhausted, scanned <- qScanned, late <- qLate

G == INSTANCE AiGateway WITH
        Workers <- GWorkers, Kinds <- GKinds, Limits <- GLimits, BlockTtl <- GBlockTtl,
        Horizon <- GHorizon,
        now <- gNow, used <- gUsed, blocked <- gBlocked, call <- gCall, hits <- gHits

E == INSTANCE CandleStore WITH
        Callers <- DCallers, Requests <- DRequests, Ttl <- DTtl, MaxPages <- DMaxPages,
        Horizon <- DHorizon,
        now <- dNow, cache <- dCache, tasks <- dTasks, waits <- dWaits, told <- dTold

M == INSTANCE CandleStore WITH
        Callers <- DCallers, Requests <- MRequests, Ttl <- MTtl, MaxPages <- MMaxPages,
        Horizon <- DHorizon,
        now <- dNow, cache <- dCache, tasks <- dTasks, waits <- dWaits, told <- dTold

\* What the theorems about the services assume of their constants: intervals, leases and
\* limits as the sources set them.
ASSUME AdmissionConfigured == A!Configured
ASSUME NotifierConfigured == N!Configured
ASSUME RestConfigured == K!Configured
ASSUME ViConfigured == V!Configured
ASSUME AccumulationConfigured == C!Configured
ASSUME NewsConfigured == B!Configured
ASSUME PoolsConfigured == P!Configured
ASSUME ScansConfigured == Q!Configured
ASSUME GatewayConfigured == G!Configured
ASSUME CandlesConfigured == E!Configured /\ M!Configured

-----------------------------------------------------------------------------
\* A part that rests keeps the value it begins with.
Init ==
    /\ part \in {"admission", "vi", "accumulation", "notifier", "rest", "news", "pools", "scans", "claude",
                "days", "minutes"}
    /\ IF part = "admission" THEN A!Init
       ELSE /\ aNow = 0 /\ aDedup = 0 /\ aCooldown = 0 /\ aCount = 0 /\ aPositions = 0
            /\ aRequests = 0 /\ aPushed = 0
    /\ IF part = "vi" THEN V!Init
       ELSE /\ vNow = 0 /\ vOpen = 0 /\ vVi = 0 /\ vLease = 0 /\ vQueue = 0 /\ vHand = 0
            /\ vSignalled = 0
    /\ IF part = "accumulation" THEN C!Init
       ELSE /\ cNow = 0 /\ cWatch = 0 /\ cTriggered = 0 /\ cQueue = 0 /\ cScan = 0 /\ cHanded = 0
            /\ cSeen = 0
    /\ IF part = "notifier" THEN N!Init
       ELSE /\ nNow = 0 /\ nEmitted = 0 /\ nTelegram = 0 /\ nScored = 0 /\ nHand = 0 /\ nClaims = 0
            /\ nLimiter = 0 /\ nDeferred = 0 /\ nSent = 0 /\ nAdmitted = 0 /\ nSkipped = 0
            /\ nOrphans = 0 /\ nUnlocked = 0
    /\ IF part = "rest" THEN K!Init
       ELSE /\ kNow = 0 /\ kScan = 0 /\ kTasks = 0 /\ kInflight = 0 /\ kLocal = 0 /\ kLock = 0
            /\ kRedis = 0 /\ kDisabled = 0 /\ kLast = 0 /\ kTight = 0
    /\ IF part = "news" THEN B!Init
       ELSE /\ bNow = 0 /\ bCache = 0 /\ bWork = 0 /\ bTold = 0
    /\ IF part = "pools" THEN P!Init
       ELSE /\ pNow = 0 /\ pPools = 0 /\ pWatchlist = 0 /\ pListing = 0 /\ pTodo = 0 /\ pWake = 0
    /\ IF part = "scans" THEN Q!Init
       ELSE /\ qNow = 0 /\ qPending = 0 /\ qRunning = 0 /\ qStarted = 0 /\ qResume = 0
            /\ qSetbacks = 0 /\ qExhausted = 0 /\ qScanned = 0 /\ qLate = 0
    /\ IF part = "claude" THEN G!Init
       ELSE /\ gNow = 0 /\ gUsed = 0 /\ gBlocked = 0 /\ gCall = 0 /\ gHits = 0
    /\ CASE part = "days" -> E!Init [] part = "minutes" -> M!Init
         [] OTHER -> /\ dNow = 0 /\ dCache = 0 /\ dTasks = 0 /\ dWaits = 0 /\ dTold = 0

Next ==
    /\ UNCHANGED part
    /\ \/ part = "admission" /\ A!Next
             /\ UNCHANGED <<viWatch, accumulation, notifier, restCalls, newsDesk, poolBuilder, scanCycle, claude,
                            candles>>
       \/ part = "vi" /\ V!Next
             /\ UNCHANGED <<admission, accumulation, notifier, restCalls, newsDesk, poolBuilder, scanCycle, claude,
                            candles>>
       \/ part = "accumulation" /\ C!Next
             /\ UNCHANGED <<admission, viWatch, notifier, restCalls, newsDesk, poolBuilder, scanCycle, claude,
                            candles>>
       \/ part = "notifier" /\ N!Next
             /\ UNCHANGED <<admission, viWatch, accumulation, restCalls, newsDesk, poolBuilder, scanCycle, claude,
                            candles>>
       \/ part = "rest" /\ K!Next
             /\ UNCHANGED <<admission, viWatch, accumulation, notifier, newsDesk, poolBuilder, scanCycle, claude,
                            candles>>
       \/ part = "news" /\ B!Next
             /\ UNCHANGED <<admission, viWatch, accumulation, notifier, restCalls, poolBuilder, scanCycle, claude,
                            candles>>
       \/ part = "pools" /\ P!Next
             /\ UNCHANGED <<admission, viWatch, accumulation, notifier, restCalls, newsDesk, scanCycle, claude,
                            candles>>
       \/ part = "scans" /\ Q!Next
             /\ UNCHANGED <<admission, viWatch, accumulation, notifier, restCalls, newsDesk, poolBuilder, claude,
                            candles>>
       \/ part = "claude" /\ G!Next
             /\ UNCHANGED <<admission, viWatch, accumulation, notifier, restCalls, newsDesk, poolBuilder, scanCycle,
                            candles>>
       \/ ((part = "days" /\ E!Next) \/ (part = "minutes" /\ M!Next))
             /\ UNCHANGED <<admission, viWatch, accumulation, notifier, restCalls, newsDesk, poolBuilder, scanCycle,
                            claude>>

Spec == Init /\ [][Next]_vars

-----------------------------------------------------------------------------
\* SignalService.processSignal: daily limit, cooldown and, where its limits are stored, what is
\* held, however requests interleave.
LimitsHold == part = "admission" => A!LimitsHold

\* write_vi, vi_watch_worker: under its key a release is watched once at a time, whatever
\* is sent again, restored or lost.
WatchesHold == part = "vi" => V!OneWatchPerRelease

\* s16_accumulation_state: triggers come after days of observation and a lease apart.
TriggersHold == part = "accumulation" => C!TriggersHold

\* signals.js: one notice per event and lease, skipped only after it arrived or by a claim that
\* was left behind, and few in a minute.
NoticesHold == part = "notifier" => N!NoticesHold

\* OvernightRiskScheduler: the warning of 08:30 is not thrown away (it is).
RiskAlertIsShown == part = "notifier" => N!RiskAlertIsShown

\* http_utils, KiwoomRateLimiter: calls of both processes are an interval apart.
GrantsAreSpaced == part = "rest" => K!GrantsAreSpaced

\* coalesce_request: a scan is cancelled by its own time-out only.
CancelledAlone == part = "rest" => K!CancelledAlone

\* news_scheduler: what stands in for the AI's analysis is not cached, not served as fresh, and
\* marked when there were news.
BriefsHold == part = "news" => B!BriefsHold

\* candidates_builder: a pool is as young as its build, and the stocks read of it are watched.
PoolsHold == part = "pools" => P!PoolsHold

\* strategy_runner: no scan ends after FORCE_CLOSE_TIME, and the strategy of the close is scanned
\* unless more cycles are held up or turned away than the bound says.
CycleHolds == part = "scans" => Q!CycleHolds

\* analyzer: no entry and no exit without an answer that asks for it.
AdviceWasGiven == part = "claude" => G!AdviceWasGiven

\* ai_gateway: the block stops later calls, the audit says what came of a call.
RecordsHold == part = "claude" => G!RecordsHold

\* ma_utils: the candles a scan is given are enough, no older than the fetch and the cache make
\* them, and named once.
CandlesHold == CASE part = "days" -> E!CandlesHold [] part = "minutes" -> M!CandlesHold [] OTHER -> TRUE
=============================================================================
