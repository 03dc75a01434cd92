----------------------------- MODULE TalkerProofs -----------------------------
(***************************************************************************)
(* The talker's invariants, for every set of requests, every number of     *)
(* them and every size of the caches.                                      *)
(***************************************************************************)
EXTENDS Talker, Descent

USE TalkerAssumption

\* Lengths of the prompt.
LEMMA PrefillLenNat ==
  ASSUME NEW r \in TalkerRequest
  PROVE  /\ PrefillLen(r) \in Nat
         /\ PrefillLen(r) > r.instruct + RoleTokens
         /\ OverlayLen(r) \in Nat /\ OverlayLen(r) >= 4
         /\ PrefillLen(r) = r.instruct + RoleTokens + OverlayLen(r) + 1
BY DEF TalkerRequest, PrefillLen, OverlayLen, CodecInputLen, CodecPrefillTokens,
       RoleTokens

LEMMA RequiredCtxInt ==
  ASSUME NEW r \in TalkerRequest
  PROVE  /\ RequiredCtx(r) \in Int
         /\ RequiredCtx(r) = PrefillLen(r) + r.max_len + Slack
         /\ r.max_len > 0 => RequiredCtx(r) \in Nat
BY PrefillLenNat DEF TalkerRequest, RequiredCtx

\* Allocation gives a cache of the size asked for.
LEMMA NewCacheIsCache ==
  ASSUME NEW n \in Nat, NEW memory \in BOOLEAN, NEW content
  PROVE  /\ IsCache(NewCache(n, memory, content))
         /\ NewCache(n, memory, content).n_ctx = n
         /\ NewCache(n, memory, content).buffer = memory
BY DEF IsCache, NewCache

LEMMA NoCacheIsCache == IsCache(NoCache) /\ NoCache.n_ctx = 0
<1>1. 0 .. (0 - 1) = {}
  OBVIOUS
<1>2. QED
  BY <1>1 DEF IsCache, NoCache

\* What a pass does to a cache.
LEMMA WrittenCache ==
  ASSUME NEW c, IsCache(c), NEW rows
  PROVE  /\ IsCache(Written(c, rows))
         /\ Written(c, rows).n_ctx = c.n_ctx
         /\ Written(c, rows).buffer = c.buffer
         /\ c.buffer => \A p \in 0 .. c.n_ctx - 1 :
              Written(c, rows).cell[p] = IF p \in DOMAIN rows THEN rows[p] ELSE c.cell[p]
BY DEF IsCache, Written

-------------------------------------------------------------------------------
(* Preservation.                                                             *)

LEMMA InitInv == Init => IInv
<1> SUFFICES ASSUME Init PROVE IInv
  OBVIOUS
<1>1. TypeOK
  <2>1. NoRequest \in TalkerRequest
    BY DEF NoRequest, TalkerRequest
  <2>2. NotReserved \in [reserved : BOOLEAN, failed : BOOLEAN, ctx : Int,
                         prefill_len : Int, built : Nat]
    BY DEF NotReserved
  <2>3. IsCache(kv) /\ IsCache(cp)
    <3>1. kv = NoCache /\ cp = NoCache
      BY DEF Init
    <3>2. QED
      BY <3>1, NoCacheIsCache
  <2>4. ControlType
    BY <2>1 DEF Init, ControlType
  <2>5. LoopType
    <3>1. /\ frame = 0 /\ n_past = 0 /\ thinking = FALSE /\ output = 0 /\ finals = 0
          /\ step = 0
      BY DEF Init
    <3>2. 0 \in 0 .. Residuals
      OBVIOUS
    <3>3. QED
      BY <3>1, <3>2, Zenon DEF LoopType
  <2>6. CacheType
    BY <2>3 DEF Init, CacheType
  <2>7. LoadedType
    BY <2>2 DEF Init, LoadedType
  <2>8. QED
    BY <2>4, <2>5, <2>6, <2>7 DEF TypeOK
<1>2. RoomInv /\ RowsInv /\ CodesInv /\ FramesInv
  BY DEF Init, RoomInv, RowsInv, CodesInv, FramesInv, Roomy, Running
<1>3. ReserveInv
  BY DEF Init, ReserveInv, NotReserved, Running
<1>4. QED
  BY <1>1, <1>2, <1>3 DEF IInv

LEMMA ControlTypeNext == TypeOK /\ [Next]_vars => ControlType'
<1> SUFFICES ASSUME ControlType, [Next]_vars PROVE ControlType'
  BY DEF TypeOK
<1> USE DEF ControlType
<1>1. CASE Generate
  <2>1. req' \in TalkerRequest
    BY <1>1 DEF Generate
  <2>2. /\ pc' \in {"idle", "resize"}
        /\ result' \in {"ok", "none"}
    BY <1>1 DEF Generate, Ends
  <2>3. serial' = serial + 1
    BY <1>1 DEF Generate
  <2>4. QED
    BY <2>1, <2>2, <2>3
<1>2. CASE LoadModel \/ Crashed \/ UNCHANGED vars
  BY <1>2 DEF LoadModel, Crashed, vars, request
<1>3. CASE MakeRoom
  BY <1>3 DEF MakeRoom, ReuseCache, ResizeCache, EnsurePredictorCache, request, Ends
<1>4. CASE Warm
  BY <1>4 DEF Warm, SkipReserve, Reserve, ReserveWithoutLayers, request
<1>5. CASE Speak
  <2>1. UNCHANGED request
    BY <1>5 DEF Speak, Prefill, SampleEos, SampleToken, PredictFirst, PredictNext,
                Filter, Emit, Step, Finish, PassFails
  <2>2. pc' \in {"idle", "sample", "finish", "predict", "emit", "step"}
    BY <1>5 DEF Speak, Prefill, SampleEos, SampleToken, PredictFirst, PredictNext,
                Filter, Emit, Step, Finish, PassFails, Ends
  <2>3. result' \in {result, "ok", "failed"}
    BY <1>5 DEF Speak, Prefill, SampleEos, SampleToken, PredictFirst, PredictNext,
                Filter, Emit, Step, Finish, PassFails, Ends
  <2>4. QED
    BY <2>1, <2>2, <2>3 DEF request
<1>6. QED
  BY <1>1, <1>2, <1>3, <1>4, <1>5 DEF Next

LEMMA LoopTypeNext == TypeOK /\ CodesInv /\ [Next]_vars => LoopType'
<1> SUFFICES ASSUME TypeOK, LoopType, CodesInv, [Next]_vars PROVE LoopType'
  BY DEF TypeOK
<1> USE DEF LoopType
<1>1. CASE LoadModel \/ Crashed \/ UNCHANGED vars
  BY <1>1 DEF LoadModel, Crashed, vars, loop, predictor
<1>9. CASE Generate
  BY <1>9 DEF Generate, predictor
<1>2. CASE MakeRoom \/ Warm
  BY <1>2 DEF MakeRoom, ReuseCache, ResizeCache, EnsurePredictorCache,
              Warm, SkipReserve, Reserve, ReserveWithoutLayers, loop, predictor
<1>3. CASE Prefill
  <2>1. PrefillLen(req) \in Nat
    BY PrefillLenNat DEF TypeOK, ControlType
  <2>2. QED
    BY <1>3, <2>1 DEF Prefill, predictor
<1>4. CASE Step
  BY <1>4 DEF Step, predictor
<1>5. CASE SampleEos \/ SampleToken \/ Filter \/ PassFails
  BY <1>5 DEF SampleEos, SampleToken, Filter, PassFails, loop, predictor
<1>6. CASE PredictFirst \/ PredictNext
  <2>1. step' \in 0 .. Residuals
    BY <1>6 DEF PredictFirst, PredictNext, CodesInv
  <2>2. UNCHANGED loop
    BY <1>6 DEF PredictFirst, PredictNext
  <2>3. QED
    BY <2>1, <2>2 DEF loop
<1>7. CASE Emit \/ Finish
  BY <1>7 DEF Emit, Finish, predictor
<1>8. QED
  BY <1>1, <1>2, <1>3, <1>4, <1>5, <1>6, <1>7, <1>9 DEF Next, Speak

LEMMA CacheTypeNext == TypeOK /\ RoomInv /\ [Next]_vars => CacheType'
<1> SUFFICES ASSUME TypeOK, CacheType, RoomInv, [Next]_vars PROVE CacheType'
  BY DEF TypeOK
<1> USE DEF CacheType
<1>1. CASE LoadModel
  <2>1. kv' = NoCache /\ cp' = NoCache /\ mask' = {}
    BY <1>1 DEF LoadModel
  <2>2. QED
    BY <2>1, NoCacheIsCache
<1>2. CASE ResizeCache
  <2>1. RequiredCtx(req) \in Nat
    BY <1>2, RequiredCtxInt DEF ResizeCache, TypeOK, ControlType, RoomInv
  <2>2. IsCache(kv')
    BY <1>2, <2>1, NewCacheIsCache DEF ResizeCache
  <2>3. QED
    BY <1>2, <2>2 DEF ResizeCache, predictor
<1>3. CASE EnsurePredictorCache
  <2>1. IsCache(cp')
    BY <1>3, NewCacheIsCache DEF EnsurePredictorCache
  <2>2. QED
    BY <1>3, <2>1 DEF EnsurePredictorCache, talker
<1>4. CASE Prefill \/ Step
  <2>1. IsCache(kv')
    BY <1>4, WrittenCache DEF Prefill, Step
  <2>2. QED
    BY <1>4, <2>1 DEF Prefill, Step, predictor
<1>5. CASE PredictFirst \/ PredictNext
  <2>1. IsCache(cp')
    BY <1>5, WrittenCache DEF PredictFirst, PredictNext
  <2>2. mask' \subseteq Nat
    <3>1. CASE PredictFirst
      BY <3>1 DEF PredictFirst, ResetMask, Visible
    <3>2. CASE PredictNext
      <4>1. step + 1 \in Nat
        BY DEF TypeOK, LoopType
      <4>2. mask' \subseteq mask \cup {step + 1}
        BY <3>2 DEF PredictNext
      <4>3. QED
        BY <4>1, <4>2
    <3>3. QED
      BY <1>5, <3>1, <3>2
  <2>3. QED
    BY <1>5, <2>1, <2>2 DEF PredictFirst, PredictNext, talker
<1>6. CASE Generate \/ ReuseCache \/ Warm \/ Crashed \/ UNCHANGED vars
  BY <1>6 DEF Generate, ReuseCache, Warm, SkipReserve, Reserve, ReserveWithoutLayers,
              Crashed, vars, talker, predictor
<1>7. CASE SampleEos \/ SampleToken \/ Filter \/ Emit \/ Finish \/ PassFails
  BY <1>7 DEF SampleEos, SampleToken, Filter, Emit, Finish, PassFails,
              talker, predictor
<1>8. QED
  BY <1>1, <1>2, <1>3, <1>4, <1>5, <1>6, <1>7 DEF Next, MakeRoom, Speak

LEMMA LoadedTypeNext == TypeOK /\ [Next]_vars => LoadedType'
<1> SUFFICES ASSUME TypeOK, LoadedType, [Next]_vars PROVE LoadedType'
  BY DEF TypeOK
<1> DEFINE Reservation == [reserved : BOOLEAN, failed : BOOLEAN, ctx : Int,
                           prefill_len : Int, built : Nat]
<1>0. NotReserved \in Reservation
  BY DEF NotReserved
<1>1. CASE UNCHANGED loaded
  BY <1>1 DEF LoadedType, loaded
<1>2. CASE sched' = NotReserved /\ skip_ggml_code_pred_layers' \in BOOLEAN
  BY <1>0, <1>2 DEF LoadedType
<1>3. CASE Reserve
  <2>1. RequiredCtx(req) \in Int /\ PrefillLen(req) \in Int /\ kv.n_ctx \in Nat
    BY RequiredCtxInt, PrefillLenNat DEF TypeOK, ControlType, CacheType, IsCache
  <2>2. sched' \in Reservation
    <3>1. CASE sched' = [sched EXCEPT !.reserved = FALSE, !.failed = TRUE]
      BY <3>1 DEF LoadedType
    <3>2. CASE sched' = [reserved |-> TRUE, failed |-> FALSE, ctx |-> RequiredCtx(req),
                         prefill_len |-> PrefillLen(req), built |-> kv.n_ctx]
      BY <2>1, <3>2
    <3>3. QED
      BY <1>3, <3>1, <3>2 DEF Reserve
  <2>3. QED
    BY <1>3, <2>2 DEF Reserve, LoadedType
<1>4. \/ UNCHANGED loaded
      \/ sched' = NotReserved /\ skip_ggml_code_pred_layers' \in BOOLEAN
      \/ Reserve
  <2>1. CASE MakeRoom
    BY <2>1 DEF MakeRoom, ReuseCache, ResizeCache, EnsurePredictorCache, ResetReserve,
                loaded, LoadedType
  <2>2. CASE Warm
    BY <2>2 DEF Warm, SkipReserve, ReserveWithoutLayers
  <2>3. CASE Speak
    BY <2>3 DEF Speak, Prefill, SampleEos, SampleToken, PredictFirst, PredictNext,
                Filter, Emit, Step, Finish, PassFails
  <2>4. CASE LoadModel \/ Generate \/ Crashed \/ UNCHANGED vars
    BY <2>4 DEF LoadModel, Generate, Crashed, vars
  <2>5. QED
    BY <2>1, <2>2, <2>3, <2>4 DEF Next
<1>5. QED
  BY <1>1, <1>2, <1>3, <1>4

-------------------------------------------------------------------------------
LEMMA RoomNext == TypeOK /\ RoomInv /\ [Next]_vars => RoomInv'
<1> SUFFICES ASSUME TypeOK, RoomInv, [Next]_vars PROVE RoomInv'
  OBVIOUS
<1> USE DEF RoomInv, Roomy, Running
<1>1. CASE LoadModel \/ Crashed \/ UNCHANGED vars
  BY <1>1 DEF LoadModel, Crashed, vars, request, talker, predictor, RequiredCtx
<1>2. CASE Generate
  <2>1. req' \in TalkerRequest
    BY <1>2 DEF Generate
  <2>2. req'.max_len \in Int
    BY <2>1 DEF TalkerRequest
  <2>3. pc' = "idle" \/ (pc' = "resize" /\ req'.max_len > 0)
    BY <1>2, <2>2 DEF Generate, Ends
  <2>4. QED
    BY <2>3
<1>3. CASE ReuseCache
  <2>1. RequiredCtx(req) \in Int /\ MostCtx(req) \in Int /\ kv.n_ctx \in Int
    BY RequiredCtxInt DEF MostCtx, TypeOK, ControlType, CacheType, IsCache
  <2>2. kv.n_ctx >= RequiredCtx(req)
    BY <1>3, <2>1 DEF ReuseCache, FitsCache
  <2>3. QED
    BY <1>3, <2>2 DEF ReuseCache, request, talker, predictor
<1>4. CASE ResizeCache
  <2>1. RequiredCtx(req) \in Nat
    BY <1>4, RequiredCtxInt DEF ResizeCache, TypeOK, ControlType
  <2>2. kv'.n_ctx = RequiredCtx(req)
    BY <1>4, <2>1, NewCacheIsCache DEF ResizeCache
  <2>3. pc' \in {"predictor", "idle"} /\ UNCHANGED request
    BY <1>4 DEF ResizeCache, Ends
  <2>4. QED
    BY <1>4, <2>1, <2>2, <2>3 DEF ResizeCache, request, predictor
<1>5. CASE EnsurePredictorCache
  <2>1. UNCHANGED <<request, kv>> /\ pc' \in {"reserve", "idle"} /\ pc = "predictor"
    BY <1>5 DEF EnsurePredictorCache, talker, Ends
  <2>2. cp'.n_ctx >= PredictorCtx
    <3>1. CASE cp.n_ctx < PredictorCtx
      <4>1. cp'.n_ctx = PredictorCtx
        BY <1>5, <3>1, NewCacheIsCache DEF EnsurePredictorCache
      <4>2. QED
        BY <4>1
    <3>2. CASE ~(cp.n_ctx < PredictorCtx)
      BY <1>5, <3>2 DEF EnsurePredictorCache, TypeOK, CacheType, IsCache
    <3>3. QED
      BY <3>1, <3>2
  <2>3. QED
    BY <2>1, <2>2 DEF request
<1>6. CASE Warm
  <2>1. /\ pc = "reserve" /\ pc' \in {"prefill", "crashed"}
        /\ UNCHANGED <<request, talker, predictor>>
    BY <1>6 DEF Warm, SkipReserve, Reserve, ReserveWithoutLayers
  <2>2. QED
    BY <2>1 DEF request, talker, predictor
<1>7. CASE Speak
  <2>1. UNCHANGED request /\ kv'.n_ctx = kv.n_ctx /\ cp'.n_ctx = cp.n_ctx
    <3>1. CASE Prefill \/ Step
      BY <3>1, WrittenCache DEF Prefill, Step, predictor, TypeOK, CacheType
    <3>2. CASE PredictFirst \/ PredictNext
      BY <3>2, WrittenCache DEF PredictFirst, PredictNext, talker, TypeOK, CacheType
    <3>3. CASE SampleEos \/ SampleToken \/ Filter \/ Emit \/ Finish \/ PassFails
      BY <3>3 DEF SampleEos, SampleToken, Filter, Emit, Finish, PassFails, talker, predictor
    <3>4. QED
      BY <1>7, <3>1, <3>2, <3>3 DEF Speak
  <2>2. \/ pc \in {"prefill", "finish"} \cup Running /\ pc' \in {"finish"} \cup Running
        \/ pc' = "idle"
    BY <1>7 DEF Speak, Prefill, SampleEos, SampleToken, PredictFirst, PredictNext,
                Filter, Emit, Step, Finish, PassFails, Ends
  <2>3. RequiredCtx(req)' = RequiredCtx(req)
    BY <2>1 DEF request
  <2>4. pc' \in Running => pc \in {"prefill"} \cup Running
    BY <1>7 DEF Speak, Prefill, SampleEos, SampleToken, PredictFirst, PredictNext,
                Filter, Emit, Step, Finish, PassFails, Ends
  <2>5. QED
    BY <2>1, <2>2, <2>3, <2>4 DEF request
<1>8. QED
  BY <1>1, <1>2, <1>3, <1>4, <1>5, <1>6, <1>7 DEF Next, MakeRoom

LEMMA ReserveNext == TypeOK /\ ReserveInv /\ [Next]_vars => ReserveInv'
<1> SUFFICES ASSUME TypeOK, ReserveInv, [Next]_vars PROVE ReserveInv'
  OBVIOUS
<1> USE DEF ReserveInv, Running
<1>1. CASE sched' = NotReserved
  BY <1>1 DEF NotReserved
<1>2. CASE Reserve
  <2>1. RequiredCtx(req) \in Int /\ PrefillLen(req) \in Int
    BY RequiredCtxInt, PrefillLenNat DEF TypeOK, ControlType
  <2>2. UNCHANGED <<req, kv>>
    BY <1>2 DEF Reserve, request, talker
  <2>3. CASE sched' = [sched EXCEPT !.reserved = FALSE, !.failed = TRUE]
    <3>1. ~sched'.reserved
      BY <2>3 DEF TypeOK, LoadedType
    <3>2. QED
      BY <3>1
  <2>4. CASE sched' = [reserved |-> TRUE, failed |-> FALSE, ctx |-> RequiredCtx(req),
                       prefill_len |-> PrefillLen(req), built |-> kv.n_ctx]
    <3>1. /\ sched'.ctx = RequiredCtx(req) /\ sched'.prefill_len = PrefillLen(req)
          /\ sched'.built = kv.n_ctx /\ sched'.failed = FALSE
      BY <2>4
    <3>2. QED
      BY <2>1, <2>2, <3>1
  <2>5. QED
    BY <1>2, <2>3, <2>4 DEF Reserve
<1>3. CASE SkipReserve
  <2>1. sched.reserved => sched.ctx >= RequiredCtx(req) /\ sched.prefill_len >= PrefillLen(req)
    <3>1. /\ RequiredCtx(req) \in Int /\ PrefillLen(req) \in Int
          /\ sched.ctx \in Int /\ sched.prefill_len \in Int
      BY RequiredCtxInt, PrefillLenNat DEF TypeOK, ControlType, LoadedType
    <3>2. sched.reserved =>
            ~(sched.ctx < RequiredCtx(req)) /\ ~(sched.prefill_len < PrefillLen(req))
      BY <1>3 DEF SkipReserve, NeedsReserve
    <3>3. QED
      BY <3>1, <3>2
  <2>2. QED
    BY <1>3, <2>1 DEF SkipReserve, request, talker, loaded
<1>4. CASE Generate \/ ReuseCache \/ ReserveWithoutLayers \/ Crashed \/ UNCHANGED vars
  <2>1. UNCHANGED <<sched, kv>>
    BY <1>4 DEF Generate, ReuseCache, ReserveWithoutLayers, Crashed, vars, talker, loaded
  <2>2. \/ pc' \in {"idle", "resize", "predictor", "crashed"}
        \/ UNCHANGED <<pc, req>>
    BY <1>4 DEF Generate, ReuseCache, ReserveWithoutLayers, Crashed, vars, request, Ends
  <2>3. QED
    BY <2>1, <2>2
<1>5. CASE EnsurePredictorCache
  <2>1. pc' \in {"idle", "reserve"} /\ UNCHANGED kv /\ sched' \in {sched, NotReserved}
    BY <1>5 DEF EnsurePredictorCache, talker, Ends, ResetReserve
  <2>2. QED
    BY <1>1, <2>1
<1>6. CASE Speak
  <2>1. UNCHANGED <<request, sched>> /\ kv'.n_ctx = kv.n_ctx
    <3>1. CASE Prefill \/ Step
      BY <3>1, WrittenCache DEF Prefill, Step, loaded, TypeOK, CacheType
    <3>2. CASE PredictFirst \/ PredictNext
      BY <3>2 DEF PredictFirst, PredictNext, talker, loaded
    <3>3. CASE SampleEos \/ SampleToken \/ Filter \/ Emit \/ Finish \/ PassFails
      BY <3>3 DEF SampleEos, SampleToken, Filter, Emit, Finish, PassFails, talker, loaded
    <3>4. QED
      BY <1>6, <3>1, <3>2, <3>3 DEF Speak
  <2>2. \/ pc \in {"prefill", "finish"} \cup Running
        \/ pc' = "idle"
    BY <1>6 DEF Speak, Prefill, SampleEos, SampleToken, PredictFirst, PredictNext,
                Filter, Emit, Step, Finish, PassFails, Ends
  <2>3. QED
    BY <2>1, <2>2 DEF request
<1>7. sched' = NotReserved \/ ~(LoadModel \/ ResizeCache)
  BY DEF LoadModel, ResizeCache, ResetReserve
<1>8. QED
  BY <1>1, <1>2, <1>3, <1>4, <1>5, <1>6, <1>7 DEF Next, MakeRoom, Warm

-------------------------------------------------------------------------------
\* The rows of a request are fixed.
LEMMA RowsFixed ==
  ASSUME UNCHANGED request
  PROVE  /\ PrefillLen(req)' = PrefillLen(req)
         /\ \A p : OwnRow(p)' = OwnRow(p)
BY DEF request, OwnRow, PromptRow

\* After a pass that wrote the rows below n, all of them own, the cache and the
\* hidden state hold exactly these rows.
LEMMA PassRows ==
  ASSUME TypeOK, NEW n \in Nat, NEW rows, n <= kv.n_ctx,
         UNCHANGED request,
         kv' = Written(kv, rows), last_hidden' = Attended(kv', 0 .. n - 1),
         kv.buffer => \A p \in 0 .. n - 1 :
           IF p \in DOMAIN rows THEN rows[p] = OwnRow(p) ELSE kv.cell[p] = OwnRow(p)
  PROVE  /\ DOMAIN last_hidden' = 0 .. n - 1
         /\ kv'.buffer => \A p \in 0 .. n - 1 :
              kv'.cell[p] = OwnRow(p)' /\ last_hidden'[p] = OwnRow(p)'
<1>1. IsCache(kv) /\ kv.n_ctx \in Nat
  BY DEF TypeOK, CacheType, IsCache
<1>2. /\ kv'.buffer = kv.buffer
      /\ kv.buffer => \A p \in 0 .. kv.n_ctx - 1 :
           kv'.cell[p] = IF p \in DOMAIN rows THEN rows[p] ELSE kv.cell[p]
  BY <1>1, WrittenCache
<1>3. 0 .. n - 1 \subseteq 0 .. kv.n_ctx - 1
  BY <1>1
<1>4. ASSUME kv.buffer, NEW p \in 0 .. n - 1
      PROVE  kv'.cell[p] = OwnRow(p)
  <2>1. kv'.cell[p] = IF p \in DOMAIN rows THEN rows[p] ELSE kv.cell[p]
    BY <1>2, <1>3, <1>4
  <2>2. QED
    BY <2>1, <1>4
<1>5. /\ DOMAIN last_hidden' = 0 .. n - 1
      /\ \A p \in 0 .. n - 1 : last_hidden'[p] = kv'.cell[p]
  BY DEF Attended
<1>6. \A p : OwnRow(p)' = OwnRow(p)
  BY RowsFixed
<1>7. QED
  BY <1>2, <1>4, <1>5, <1>6

LEMMA RowsNext == TypeOK /\ RoomInv /\ RowsInv /\ [Next]_vars => RowsInv'
<1> SUFFICES ASSUME TypeOK, RoomInv, RowsInv, [Next]_vars PROVE RowsInv'
  OBVIOUS
<1> USE DEF Running
<1>0. /\ PrefillLen(req) \in Nat /\ frame \in Nat /\ req.max_len \in Int
      /\ kv.n_ctx \in Nat
  BY PrefillLenNat DEF TypeOK, ControlType, LoopType, CacheType, IsCache, TalkerRequest
<1>1. CASE pc' \in {"idle", "finish", "crashed"}
  BY <1>1 DEF RowsInv
<1>2. CASE Generate
  BY <1>2 DEF Generate, RowsInv, Ends
<1>3. CASE MakeRoom \/ Warm
  <2>1. /\ pc \in {"resize", "predictor", "reserve"}
        /\ pc' \in {"predictor", "reserve", "prefill", "idle", "crashed"}
        /\ UNCHANGED frame
    BY <1>3 DEF MakeRoom, ReuseCache, ResizeCache, EnsurePredictorCache,
                Warm, SkipReserve, Reserve, ReserveWithoutLayers, loop, Ends
  <2>2. QED
    BY <2>1 DEF RowsInv
<1>4. CASE Prefill
  <2> DEFINE rows == [p \in 0 .. PrefillLen(req) - 1 |-> PromptRow(p)]
  <2>1. \A p \in 0 .. PrefillLen(req) - 1 : p \in DOMAIN rows /\ rows[p] = OwnRow(p)
    BY <1>0 DEF OwnRow
  <2>2. /\ UNCHANGED request /\ n_past' = PrefillLen(req) /\ frame' = frame
        /\ frame = 0 /\ pc' = "sample" /\ req.max_len > 0
    BY <1>4 DEF Prefill, RowsInv, RoomInv, Roomy
  <2>3. /\ DOMAIN last_hidden' = 0 .. PrefillLen(req) - 1
        /\ kv'.buffer => \A p \in 0 .. PrefillLen(req) - 1 :
              kv'.cell[p] = OwnRow(p)' /\ last_hidden'[p] = OwnRow(p)'
    <3>1. /\ PrefillLen(req) <= kv.n_ctx /\ kv' = Written(kv, rows)
          /\ last_hidden' = Attended(kv', 0 .. PrefillLen(req) - 1)
      BY <1>4 DEF Prefill
    <3> HIDE DEF rows
    <3>2. QED
      BY <1>0, <2>1, <2>2, <3>1, PassRows
  <2>4. PrefillLen(req)' = PrefillLen(req) /\ req' = req
    BY <2>2 DEF request
  <2>5. /\ frame' < req'.max_len
        /\ n_past' = PrefillLen(req)' + frame'
    BY <1>0, <2>2, <2>4
  <2>6. n_past' - 1 = PrefillLen(req) - 1
    BY <2>2
  <2>7. QED
    BY <2>2, <2>3, <2>5, <2>6 DEF RowsInv
<1>5. CASE Step
  <2>1. /\ UNCHANGED request /\ n_past' = n_past + 1 /\ frame' = frame + 1
        /\ pc' = "sample" /\ frame + 1 < req.max_len
        /\ n_past = PrefillLen(req) + frame
        /\ kv.buffer => \A p \in 0 .. n_past - 1 : kv.cell[p] = OwnRow(p)
    BY <1>5 DEF Step, RowsInv
  <2> DEFINE rows == [p \in {n_past} |-> StepRow]
  <2>2. StepRow = OwnRow(n_past)
    <3>1. n_past - PrefillLen(req) = frame /\ ~(n_past < PrefillLen(req))
      BY <1>0, <2>1
    <3>2. QED
      BY <3>1 DEF StepRow, OwnRow
  <2>3. kv.buffer => \A p \in 0 .. n_past :
          IF p \in DOMAIN rows THEN rows[p] = OwnRow(p) ELSE kv.cell[p] = OwnRow(p)
    <3>1. \A p \in 0 .. n_past : p \in DOMAIN rows \/ p \in 0 .. n_past - 1
      BY <1>0, <2>1
    <3>2. \A p \in DOMAIN rows : rows[p] = OwnRow(p)
      BY <2>2
    <3> HIDE DEF rows
    <3>3. QED
      BY <2>1, <3>1, <3>2
  <2>4. /\ DOMAIN last_hidden' = 0 .. n_past
        /\ kv'.buffer => \A p \in 0 .. n_past :
              kv'.cell[p] = OwnRow(p)' /\ last_hidden'[p] = OwnRow(p)'
    <3>1. /\ n_past + 1 <= kv.n_ctx /\ kv' = Written(kv, rows)
          /\ last_hidden' = Attended(kv', 0 .. n_past)
      BY <1>5 DEF Step, Visible
    <3>2. n_past + 1 \in Nat /\ (n_past + 1) - 1 = n_past
      BY <1>0, <2>1
    <3> HIDE DEF rows
    <3>3. QED
      BY <2>1, <2>3, <3>1, <3>2, PassRows
  <2>5. PrefillLen(req)' = PrefillLen(req) /\ req' = req
    BY <2>1 DEF request
  <2>6. /\ frame' < req'.max_len
        /\ n_past' = PrefillLen(req)' + frame'
        /\ n_past' - 1 = n_past
    BY <1>0, <2>1, <2>5
  <2>7. QED
    BY <2>1, <2>4, <2>6 DEF RowsInv
<1>6. CASE SampleToken \/ PredictFirst \/ PredictNext \/ Filter \/ Emit
  <2>1. /\ UNCHANGED <<request, frame, n_past, talker>>
        /\ pc \in Running
        /\ pc' \in {"predict", "emit", "finish", "idle"} \/
           (pc' = "step" /\ ~(frame + 1 >= req.max_len))
    BY <1>6 DEF SampleToken, PredictFirst, PredictNext, Filter, Emit, loop, Ends
  <2>2. /\ PrefillLen(req)' = PrefillLen(req)
        /\ \A p : OwnRow(p)' = OwnRow(p)
    BY <2>1, RowsFixed
  <2>3. pc' = "step" => frame' + 1 < req'.max_len
    BY <1>0, <2>1 DEF request
  <2>4. QED
    BY <2>1, <2>2, <2>3 DEF RowsInv, request, talker
<1>7. CASE LoadModel \/ SampleEos \/ Finish \/ PassFails
  <2>1. pc' \in {"idle", "finish"}
    BY <1>7 DEF LoadModel, SampleEos, Finish, PassFails, Ends
  <2>2. QED
    BY <1>1, <2>1
<1>8. CASE Crashed \/ UNCHANGED vars
  <2>1. UNCHANGED vars
    BY <1>8 DEF Crashed
  <2>2. UNCHANGED <<pc, request, frame, n_past, talker>>
    BY <2>1 DEF vars, loop
  <2>3. /\ PrefillLen(req)' = PrefillLen(req)
        /\ \A p : OwnRow(p)' = OwnRow(p)
    BY <2>2, RowsFixed
  <2>4. QED
    BY <2>2, <2>3 DEF RowsInv, request, talker
<1>9. QED
  BY <1>1, <1>2, <1>3, <1>4, <1>5, <1>6, <1>7, <1>8 DEF Next, Speak

-------------------------------------------------------------------------------
\* The items of a frame are fixed.
LEMMA ItemsFixed ==
  ASSUME UNCHANGED <<request, frame>>
  PROVE  \A p : PredictorItem(p)' = PredictorItem(p)
BY DEF request, PredictorItem

\* After a pass of the predictor that wrote its rows and attended to 0 .. n,
\* all of them items of this frame, the cache and the code rest on exactly these.
LEMMA PassItems ==
  ASSUME TypeOK, NEW n \in Nat, NEW rows, n < cp.n_ctx,
         UNCHANGED <<request, frame>>,
         cp' = Written(cp, rows), code_rows' = Attended(cp', 0 .. n),
         cp.buffer => \A p \in 0 .. n :
           IF p \in DOMAIN rows THEN rows[p] = PredictorItem(p)
                                ELSE cp.cell[p] = PredictorItem(p)
  PROVE  cp'.buffer =>
           /\ \A p \in 0 .. n : cp'.cell[p] = PredictorItem(p)'
           /\ code_rows' = [p \in 0 .. n |-> PredictorItem(p)']
<1>1. IsCache(cp) /\ cp.n_ctx \in Nat
  BY DEF TypeOK, CacheType, IsCache
<1>2. /\ cp'.buffer = cp.buffer
      /\ cp.buffer => \A p \in 0 .. cp.n_ctx - 1 :
           cp'.cell[p] = IF p \in DOMAIN rows THEN rows[p] ELSE cp.cell[p]
  BY <1>1, WrittenCache
<1>3. 0 .. n \subseteq 0 .. cp.n_ctx - 1
  BY <1>1
<1>4. ASSUME cp.buffer, NEW p \in 0 .. n
      PROVE  cp'.cell[p] = PredictorItem(p)
  <2>1. cp'.cell[p] = IF p \in DOMAIN rows THEN rows[p] ELSE cp.cell[p]
    BY <1>2, <1>3, <1>4
  <2>2. QED
    BY <2>1, <1>4
<1>5. \A p : PredictorItem(p)' = PredictorItem(p)
  BY ItemsFixed
<1>6. code_rows' = [p \in 0 .. n |-> cp'.cell[p]]
  BY DEF Attended
<1>7. QED
  BY <1>2, <1>4, <1>5, <1>6

LEMMA CodesNext == TypeOK /\ RoomInv /\ CodesInv /\ [Next]_vars => CodesInv'
<1> SUFFICES ASSUME TypeOK, RoomInv, CodesInv, [Next]_vars PROVE CodesInv'
  OBVIOUS
<1>0. /\ step \in 0 .. Residuals /\ cp.n_ctx \in Nat /\ IsCache(cp)
  BY DEF TypeOK, LoopType, CacheType, IsCache
<1>1. CASE pc' \notin {"predict", "emit"}
  BY <1>1 DEF CodesInv
<1>2. CASE SampleToken
  <2>1. step' = 0 /\ pc' = "predict"
    BY <1>2 DEF SampleToken
  <2>2. QED
    BY <2>1 DEF CodesInv
<1>3. CASE PredictFirst
  <2> DEFINE rows == [p \in 0 .. 1 |-> PredictorItem(p)]
  <2>1. /\ UNCHANGED <<request, frame>> /\ step' = 1
        /\ mask' = 0 .. 2 \cap 0 .. cp.n_ctx - 1
        /\ cp' = Written(cp, rows) /\ code_rows' = Attended(cp', 0 .. 1)
        /\ pc = "predict"
    BY <1>3 DEF PredictFirst, ResetMask, Visible, loop
  <2>2. cp.n_ctx >= PredictorCtx /\ 1 < cp.n_ctx
    BY <1>0, <2>1 DEF RoomInv, Running
  <2>3. \A p \in 0 .. 1 : p \in DOMAIN rows /\ rows[p] = PredictorItem(p)
    OBVIOUS
  <2>4. cp'.buffer =>
           /\ \A p \in 0 .. 1 : cp'.cell[p] = PredictorItem(p)'
           /\ code_rows' = [p \in 0 .. 1 |-> PredictorItem(p)']
    <3> HIDE DEF rows
    <3>1. QED
      BY <2>1, <2>2, <2>3, PassItems
  <2>5. cp'.n_ctx = cp.n_ctx
    BY <1>0, <2>1, WrittenCache
  <2>6. \/ pc' = "emit" /\ 1 = Residuals
        \/ pc' = "predict" /\ 1 < Residuals
    BY <1>3, <2>1 DEF PredictFirst, Complete
  <2>7. QED
    BY <2>1, <2>4, <2>5, <2>6 DEF CodesInv
<1>4. CASE PredictNext
  <2> DEFINE rows == [p \in {step + 1} |-> PredictorItem(p)]
  <2>1. /\ UNCHANGED <<request, frame>> /\ step' = step + 1
        /\ mask' = mask \cup ({step + 1} \cap 0 .. cp.n_ctx - 1)
        /\ cp' = Written(cp, rows) /\ code_rows' = Attended(cp', mask')
        /\ pc = "predict" /\ step > 0 /\ step < Residuals
    BY <1>4 DEF PredictNext, loop, CodesInv
  <2>2. step + 1 < cp.n_ctx
    BY <1>0, <2>1 DEF RoomInv, Running
  <2>3. mask = 0 .. (IF step = 1 THEN 2 ELSE step) \cap 0 .. cp.n_ctx - 1
    BY <2>1 DEF CodesInv
  <2>4. mask' = 0 .. step + 1
    <3>1. {step + 1} \cap 0 .. cp.n_ctx - 1 = {step + 1}
      BY <1>0, <2>2
    <3>2. CASE step = 1
      <4>1. mask = 0 .. 2
        BY <1>0, <2>2, <2>3, <3>2
      <4>2. QED
        BY <2>1, <3>1, <3>2, <4>1
    <3>3. CASE step # 1
      <4>1. mask = 0 .. step
        BY <1>0, <2>2, <2>3, <3>3
      <4>2. 0 .. step + 1 = (0 .. step) \cup {step + 1}
        BY <1>0
      <4>3. QED
        BY <2>1, <3>1, <4>1, <4>2
    <3>4. QED
      BY <3>2, <3>3
  <2>5. cp.buffer => \A p \in 0 .. step + 1 :
          IF p \in DOMAIN rows THEN rows[p] = PredictorItem(p)
                               ELSE cp.cell[p] = PredictorItem(p)
    <3>1. cp.buffer => \A p \in 0 .. step : cp.cell[p] = PredictorItem(p)
      BY <2>1 DEF CodesInv
    <3>2. \A p \in 0 .. step + 1 : p \in DOMAIN rows \/ p \in 0 .. step
      BY <1>0
    <3>3. \A p \in DOMAIN rows : rows[p] = PredictorItem(p)
      OBVIOUS
    <3> HIDE DEF rows
    <3>4. QED
      BY <3>1, <3>2, <3>3
  <2>6. cp'.buffer =>
           /\ \A p \in 0 .. step + 1 : cp'.cell[p] = PredictorItem(p)'
           /\ code_rows' = [p \in 0 .. step + 1 |-> PredictorItem(p)']
    <3>1. step + 1 \in Nat
      BY <1>0
    <3> HIDE DEF rows
    <3>2. QED
      BY <2>1, <2>2, <2>4, <2>5, <3>1, PassItems
  <2>7. cp'.n_ctx = cp.n_ctx
    BY <1>0, <2>1, WrittenCache
  <2>8. mask' = 0 .. (IF step' = 1 THEN 2 ELSE step') \cap 0 .. cp'.n_ctx - 1
    <3>1. step' # 1 /\ step' = step + 1
      BY <1>0, <2>1
    <3>2. (0 .. step + 1) \cap 0 .. cp.n_ctx - 1 = 0 .. step + 1
      BY <1>0, <2>2
    <3>3. QED
      BY <2>4, <2>7, <3>1, <3>2
  <2>9. \/ pc' = "emit" /\ step' = Residuals
        \/ pc' = "predict" /\ step' < Residuals
    BY <1>0, <1>4, <2>1 DEF PredictNext, Complete
  <2>10. QED
    BY <2>1, <2>6, <2>8, <2>9 DEF CodesInv
<1>5. CASE Crashed \/ UNCHANGED vars
  <2>1. UNCHANGED vars
    BY <1>5 DEF Crashed
  <2>2. UNCHANGED <<pc, predictor, request, frame>>
    BY <2>1 DEF vars, loop
  <2>3. \A p : PredictorItem(p)' = PredictorItem(p)
    BY <2>2, ItemsFixed
  <2>4. QED
    BY <2>2, <2>3 DEF CodesInv, predictor
<1>6. CASE LoadModel \/ Generate \/ MakeRoom \/ Warm
  <2>1. pc' \notin {"predict", "emit"}
    BY <1>6 DEF LoadModel, Generate, MakeRoom, ReuseCache, ResizeCache,
                EnsurePredictorCache, Warm, SkipReserve, Reserve,
                ReserveWithoutLayers, Ends
  <2>2. QED
    BY <1>1, <2>1
<1>7. CASE Prefill \/ SampleEos \/ Filter \/ Emit \/ Step \/ Finish \/ PassFails
  <2>1. pc' \notin {"predict", "emit"}
    BY <1>7 DEF Prefill, SampleEos, Filter, Emit, Step, Finish, PassFails, Ends
  <2>2. QED
    BY <1>1, <2>1
<1>8. QED
  BY <1>2, <1>3, <1>4, <1>5, <1>6, <1>7 DEF Next, Speak

LEMMA FramesNext ==
  TypeOK /\ RowsInv /\ FramesInv /\ [Next]_vars => FramesInv'
<1> SUFFICES ASSUME TypeOK, RowsInv, FramesInv, [Next]_vars PROVE FramesInv'
  OBVIOUS
<1>0. frame \in Nat /\ output \in Nat
  BY DEF TypeOK, LoopType
<1>1. CASE LoadModel
  BY <1>1 DEF LoadModel, loop, FramesInv
<1>2. CASE Generate
  BY <1>2 DEF Generate, Ends, FramesInv
<1>3. CASE MakeRoom
  <2>1. /\ pc \in {"resize", "predictor"} /\ UNCHANGED loop
        /\ \/ pc' \in {"predictor", "reserve"} /\ UNCHANGED result
           \/ pc' = "idle" /\ result' = "failed"
    BY <1>3 DEF MakeRoom, ReuseCache, ResizeCache, EnsurePredictorCache, Ends
  <2>2. QED
    BY <2>1 DEF loop, FramesInv
<1>4. CASE Warm
  <2>1. /\ pc = "reserve" /\ UNCHANGED loop
        /\ \/ pc' = "prefill" /\ UNCHANGED result
           \/ pc' = "crashed" /\ result' = "crashed"
    BY <1>4 DEF Warm, SkipReserve, Reserve, ReserveWithoutLayers
  <2>2. QED
    BY <2>1 DEF loop, FramesInv
<1>5. CASE Prefill
  <2>1. /\ pc = "prefill" /\ pc' = "sample"
        /\ UNCHANGED <<frame, output, finals, result>>
    BY <1>5 DEF Prefill
  <2>2. QED
    BY <1>0, <2>1 DEF FramesInv
<1>6. CASE SampleEos \/ SampleToken \/ PredictFirst \/ PredictNext \/ Filter
  <2>1. /\ pc \in {"sample", "predict", "emit"}
        /\ pc' \in {"finish", "predict", "emit", "step"}
        /\ UNCHANGED <<frame, output, finals, result>>
    BY <1>6 DEF SampleEos, SampleToken, PredictFirst, PredictNext, Filter, loop
  <2>2. QED
    BY <1>0, <2>1 DEF FramesInv
<1>7. CASE Emit
  <2>1. /\ pc = "emit" /\ output' = output + 1 /\ UNCHANGED <<frame, finals>>
        /\ \/ pc' \in {"finish", "step"} /\ UNCHANGED result
           \/ pc' = "idle" /\ result' = "failed"
    BY <1>7 DEF Emit, Ends
  <2>2. QED
    BY <1>0, <2>1 DEF FramesInv
<1>8. CASE Step
  <2>1. /\ pc = "step" /\ pc' = "sample" /\ frame' = frame + 1
        /\ UNCHANGED <<output, finals, result>>
    BY <1>8 DEF Step
  <2>2. QED
    BY <1>0, <2>1 DEF FramesInv
<1>9. CASE Finish \/ PassFails
  BY <1>9 DEF Finish, PassFails, Ends, FramesInv
<1>10. CASE Crashed \/ UNCHANGED vars
  BY <1>10 DEF Crashed, vars, loop, FramesInv
<1>11. QED
  BY <1>1, <1>2, <1>3, <1>4, <1>5, <1>6, <1>7, <1>8, <1>9, <1>10 DEF Next, Speak

LEMMA IInvNext == IInv /\ [Next]_vars => IInv'
<1> SUFFICES ASSUME IInv, [Next]_vars PROVE IInv'
  OBVIOUS
<1>1. TypeOK /\ RoomInv /\ RowsInv /\ CodesInv /\ ReserveInv /\ FramesInv
  BY DEF IInv
<1>2. ControlType' /\ LoopType' /\ CacheType' /\ LoadedType'
  BY <1>1, ControlTypeNext, LoopTypeNext, CacheTypeNext, LoadedTypeNext
<1>3. TypeOK'
  BY <1>2 DEF TypeOK
<1>4. RoomInv' /\ RowsInv' /\ CodesInv' /\ ReserveInv' /\ FramesInv'
  BY <1>1, RoomNext, RowsNext, CodesNext, ReserveNext, FramesNext
<1>5. QED
  BY <1>3, <1>4 DEF IInv

\* The invariant of the talker: what its caches hold row by row, how much room
\* they leave, what was reserved, and how many frames were given.
THEOREM Invariant == Spec => []IInv
<1>1. Init => IInv
  BY InitInv
<1>2. IInv /\ [Next]_vars => IInv'
  BY IInvNext
<1>3. QED
  BY <1>1, <1>2, PTL DEF Spec

THEOREM TypeCorrect == Spec => []TypeOK
<1>1. IInv => TypeOK
  BY DEF IInv
<1>2. QED
  BY <1>1, Invariant, PTL

-------------------------------------------------------------------------------
(* What the invariant says of the rows.                                      *)

\* The rows that a request owns, in the terms of its utterance.
LEMMA OwnRowIsSpeech ==
  ASSUME req \in TalkerRequest, frame \in Nat,
         NEW last, last = PrefillLen(req) - 1
  PROVE  /\ \A p : OwnRow(p).owner = serial
         /\ \A p \in 0 .. req.instruct - 1 : OwnRow(p).text = <<"instruct", p>>
         /\ \A f \in 0 .. frame : OwnRow(last + f).text = Speech(req, f)
         /\ \A f \in 1 .. frame : OwnRow(last + f).codec = <<"frame", f - 1>>
<1>0. /\ req.instruct \in Nat /\ req.text \in Nat /\ req.text > 0
      /\ OverlayLen(req) \in Nat /\ OverlayLen(req) >= 4
      /\ last = req.instruct + 3 + OverlayLen(req)
      /\ PrefillLen(req) = last + 1
  BY PrefillLenNat DEF TalkerRequest, RoleTokens
<1>1. \A p : OwnRow(p).owner = serial
  BY DEF OwnRow, PromptRow
<1>2. ASSUME NEW p \in 0 .. req.instruct - 1
      PROVE  OwnRow(p).text = <<"instruct", p>>
  <2>1. /\ p < PrefillLen(req) /\ p - req.instruct < 0
        /\ p - req.instruct \notin 0 .. RoleTokens - 1
        /\ p - req.instruct # RoleTokens + OverlayLen(req)
    BY <1>0 DEF RoleTokens
  <2>2. PromptText(req, p) = <<"instruct", p>>
    BY <2>1 DEF PromptText
  <2>3. OwnRow(p) = PromptRow(p) /\ PromptRow(p).text = PromptText(req, p)
    BY <2>1 DEF OwnRow, PromptRow
  <2>4. QED
    BY <2>2, <2>3
<1>3. TrailingTokens(req) = req.text - 1
  BY <1>0 DEF TrailingTokens, NTokens, RoleTokens, SuffixTokens
<1>4. OwnRow(last).text = Speech(req, 0)
  <2>1. /\ last < PrefillLen(req)
        /\ last - req.instruct = RoleTokens + OverlayLen(req)
        /\ ~(last - req.instruct < 0) /\ last - req.instruct \notin 0 .. RoleTokens - 1
    BY <1>0 DEF RoleTokens
  <2>2. OwnRow(last).text = TextToken(req, RoleTokens)
    BY <2>1 DEF OwnRow, PromptRow, PromptText
  <2>3. TextToken(req, RoleTokens) = <<"word", 0>>
    BY <1>0 DEF TextToken, RoleTokens
  <2>4. Speech(req, 0) = <<"word", 0>>
    BY <1>0 DEF Speech
  <2>5. QED
    BY <2>2, <2>3, <2>4
<1>5. ASSUME NEW f \in 1 .. frame
      PROVE  /\ OwnRow(last + f).text = Speech(req, f)
             /\ OwnRow(last + f).codec = <<"frame", f - 1>>
  <2>1. ~(last + f < PrefillLen(req)) /\ (last + f) - PrefillLen(req) = f - 1
    BY <1>0
  <2>2. /\ OwnRow(last + f).text = TrailingText(req, f - 1)
        /\ OwnRow(last + f).codec = <<"frame", f - 1>>
    BY <2>1 DEF OwnRow
  <2>3. TrailingText(req, f - 1) = Speech(req, f)
    <3>1. CASE f < req.text
      <4>1. f - 1 < TrailingTokens(req)
        BY <1>0, <1>3, <3>1
      <4>2. /\ ~(4 + (f - 1) < RoleTokens) /\ 4 + (f - 1) < RoleTokens + req.text
            /\ (4 + (f - 1)) - RoleTokens = f
        BY <1>0, <3>1 DEF RoleTokens
      <4>3. TextToken(req, 4 + (f - 1)) = <<"word", (4 + (f - 1)) - RoleTokens>>
        BY <4>2, Zenon DEF TextToken
      <4>4. TrailingText(req, f - 1) = TextToken(req, 4 + (f - 1))
        BY <4>1 DEF TrailingText
      <4>5. Speech(req, f) = <<"word", f>>
        BY <3>1 DEF Speech
      <4>6. QED
        BY <4>2, <4>3, <4>4, <4>5
    <3>2. CASE f = req.text
      BY <1>0, <1>3, <3>2 DEF TrailingText, Speech
    <3>3. CASE f > req.text
      BY <1>0, <1>3, <3>3 DEF TrailingText, Speech
    <3>4. QED
      BY <1>0, <3>1, <3>2, <3>3
  <2>4. QED
    BY <2>2, <2>3
<1>6. \A f \in 0 .. frame : f = 0 \/ f \in 1 .. frame
  OBVIOUS
<1>7. last + 0 = last
  BY <1>0
<1>8. QED
  BY <1>1, <1>2, <1>4, <1>5, <1>6, <1>7

LEMMA InvHidden == IInv => HiddenIsOfUtterance
<1> SUFFICES ASSUME IInv, pc \in Running, kv.buffer, NEW last, last = PrefillLen(req) - 1
             PROVE  /\ DOMAIN last_hidden = 0 .. last + frame
                    /\ \A p \in DOMAIN last_hidden : last_hidden[p].owner = serial
                    /\ \A p \in 0 .. req.instruct - 1 :
                         last_hidden[p].text = <<"instruct", p>>
                    /\ \A f \in 0 .. frame : last_hidden[last + f].text = Speech(req, f)
                    /\ \A f \in 1 .. frame :
                         last_hidden[last + f].codec = <<"frame", f - 1>>
  BY DEF HiddenIsOfUtterance
<1>1. /\ req \in TalkerRequest /\ frame \in Nat
      /\ PrefillLen(req) \in Nat /\ PrefillLen(req) > req.instruct /\ req.instruct \in Nat
  BY PrefillLenNat DEF IInv, TypeOK, ControlType, LoopType, TalkerRequest, RoleTokens
<1>2. /\ DOMAIN last_hidden = 0 .. n_past - 1
      /\ \A p \in 0 .. n_past - 1 : last_hidden[p] = OwnRow(p)
      /\ n_past = PrefillLen(req) + frame
  BY DEF IInv, RowsInv
<1>3. n_past - 1 = last + frame
  BY <1>1, <1>2
<1>4. /\ 0 .. req.instruct - 1 \subseteq 0 .. n_past - 1
      /\ \A f \in 0 .. frame : last + f \in 0 .. n_past - 1
      /\ 1 .. frame \subseteq 0 .. frame
  BY <1>1, <1>2
<1>5. /\ \A p : OwnRow(p).owner = serial
      /\ \A p \in 0 .. req.instruct - 1 : OwnRow(p).text = <<"instruct", p>>
      /\ \A f \in 0 .. frame : OwnRow(last + f).text = Speech(req, f)
      /\ \A f \in 1 .. frame : OwnRow(last + f).codec = <<"frame", f - 1>>
  BY <1>1, OwnRowIsSpeech
<1>6. \A p \in 0 .. n_past - 1 : last_hidden[p].owner = serial
  BY <1>2, <1>5
<1>7. \A p \in 0 .. req.instruct - 1 : last_hidden[p].text = <<"instruct", p>>
  BY <1>2, <1>4, <1>5
<1>8. \A f \in 0 .. frame : last_hidden[last + f].text = Speech(req, f)
  BY <1>2, <1>4, <1>5
<1>9. \A f \in 1 .. frame : last_hidden[last + f].codec = <<"frame", f - 1>>
  BY <1>2, <1>4, <1>5
<1>10. QED
  BY <1>2, <1>3, <1>6, <1>7, <1>8, <1>9

\* A frame is sampled from its own utterance alone, whatever the cache holds of
\* the requests before.
THEOREM HiddenState == Spec => []HiddenIsOfUtterance
BY InvHidden, Invariant, PTL

\* A code is predicted from its own frame alone.
THEOREM Codes == Spec => []CodesAreOfThisFrame
<1>1. IInv => CodesAreOfThisFrame
  BY DEF IInv, CodesInv, CodesAreOfThisFrame
<1>2. QED
  BY <1>1, Invariant, PTL

LEMMA InvContext == IInv => ContextSuffices
<1> SUFFICES ASSUME IInv PROVE ContextSuffices
  OBVIOUS
<1>1. /\ req \in TalkerRequest /\ req.max_len \in Int /\ frame \in Nat
      /\ kv.n_ctx \in Nat /\ cp.n_ctx \in Nat /\ step \in 0 .. Residuals
  BY DEF IInv, TypeOK, ControlType, LoopType, CacheType, IsCache, TalkerRequest
<1>2. PrefillLen(req) \in Nat /\ RequiredCtx(req) = PrefillLen(req) + req.max_len + Slack
  BY <1>1, PrefillLenNat, RequiredCtxInt
<1>3. pc = "prefill" => PrefillLen(req) <= kv.n_ctx
  BY <1>1, <1>2 DEF IInv, RoomInv, Roomy
<1>4. ASSUME pc = "step" PROVE n_past + 1 <= kv.n_ctx
  <2>1. kv.n_ctx >= RequiredCtx(req)
    BY <1>4 DEF IInv, RoomInv, Roomy, Running
  <2>2. n_past = PrefillLen(req) + frame /\ frame + 1 < req.max_len
    BY <1>4 DEF IInv, RowsInv, Running
  <2>3. QED
    BY <1>1, <1>2, <2>1, <2>2
<1>5. pc = "predict" => step + 1 < cp.n_ctx
  BY <1>1 DEF IInv, RoomInv, CodesInv, Running
<1>6. QED
  BY <1>3, <1>4, <1>5 DEF ContextSuffices

\* No pass ever needs more context than the caches have.
THEOREM Context == Spec => []ContextSuffices
BY InvContext, Invariant, PTL

\* What is reserved for is never smaller than the request that is running.
THEOREM Reservation == Spec => []ReservedGraphsFit
<1>1. IInv => ReservedGraphsFit
  BY DEF IInv, ReserveInv, ReservedGraphsFit
<1>2. QED
  BY <1>1, Invariant, PTL

-------------------------------------------------------------------------------
(* The talker implements the frame source.                                   *)

LEMMA StepImplements == IInv /\ [Next]_vars => [Source!Next]_(Source!vars)
<1> SUFFICES ASSUME IInv, [Next]_vars PROVE [Source!Next]_(Source!vars)
  OBVIOUS
<1> DEFINE generating == pc \notin {"idle", "crashed"}
<1>0. /\ frame \in Nat /\ output \in Nat /\ req.max_len \in Int /\ FramesInv /\ RowsInv
  BY DEF IInv, TypeOK, ControlType, LoopType, TalkerRequest
<1>1. CASE generating' = generating /\ UNCHANGED <<request, output, finals, result>>
  BY <1>1 DEF Source!vars, request
<1>2. ASSUME generating, generating' = FALSE, result' \in {"failed", "crashed"},
             UNCHANGED <<request, output, finals>>
      PROVE  Source!Break
  BY <1>2 DEF Source!Break, Source!Ends, request
<1>3. CASE Generate
  <2>1. pc = "idle" /\ result # "crashed"
    BY <1>0, <1>3 DEF Generate, FramesInv
  <2>2. req'.max_len \in Int
    BY <1>3, TalkerAssumption DEF Generate, TalkerRequest
  <2>3. /\ output' = 0 /\ finals' = 0
        /\ \/ pc' = "resize" /\ result' = "none"
           \/ req'.max_len <= 0 /\ pc' = "idle" /\ result' = "ok"
    BY <1>3 DEF Generate, Ends
  <2>4. Source!Begin
    BY <2>1, <2>2, <2>3 DEF Source!Begin, Source!Ends
  <2>5. QED
    BY <2>4 DEF Source!Next
<1>4. CASE Emit
  <2>1. /\ pc = "emit" /\ output' = output + 1 /\ UNCHANGED <<request, finals>>
        /\ \/ pc' \in {"finish", "step"} /\ UNCHANGED result
           \/ pc' = "idle" /\ result' = "failed"
    BY <1>4 DEF Emit, Ends
  <2>2. output < req.max_len
    <3>1. output <= frame /\ frame < req.max_len
      BY <1>0, <2>1 DEF FramesInv, RowsInv, Running
    <3>2. QED
      BY <1>0, <3>1
  <2>3. Source!Give
    BY <2>1, <2>2 DEF Source!Give, Source!Ends, request
  <2>4. QED
    BY <2>3 DEF Source!Next
<1>5. CASE Finish
  <2>1. /\ pc = "finish" /\ pc' = "idle" /\ finals' = 1 /\ result' \in {"ok", "failed"}
        /\ UNCHANGED <<request, output>>
    BY <1>5 DEF Finish, Ends
  <2>2. Source!Finish
    BY <2>1 DEF Source!Finish, Source!Ends, request
  <2>3. QED
    BY <2>2 DEF Source!Next
<1>6. CASE PassFails \/ ReserveWithoutLayers
  <2>1. Source!Break
    BY <1>2, <1>6 DEF PassFails, ReserveWithoutLayers, Fallible, Ends, loop
  <2>2. QED
    BY <2>1 DEF Source!Next
<1>7. CASE ResizeCache \/ EnsurePredictorCache
  <2>1. /\ pc \in {"resize", "predictor"} /\ UNCHANGED <<request, loop>>
        /\ \/ pc' \in {"predictor", "reserve"} /\ UNCHANGED result
           \/ pc' = "idle" /\ result' = "failed"
    BY <1>7 DEF ResizeCache, EnsurePredictorCache, Ends
  <2>2. CASE pc' = "idle"
    <3>1. Source!Break
      BY <1>2, <2>1, <2>2 DEF loop
    <3>2. QED
      BY <3>1 DEF Source!Next
  <2>3. CASE pc' # "idle"
    BY <1>1, <2>1, <2>3 DEF loop
  <2>4. QED
    BY <2>2, <2>3
<1>8. CASE LoadModel \/ Crashed \/ UNCHANGED vars
  <2>1. UNCHANGED <<pc, request, loop, result>>
    BY <1>8 DEF LoadModel, Crashed, vars
  <2>2. QED
    BY <1>1, <2>1 DEF loop
<1>9. CASE ReuseCache \/ SkipReserve \/ Reserve
  BY <1>1, <1>9 DEF ReuseCache, SkipReserve, Reserve, loop
<1>10. CASE Prefill \/ SampleEos \/ SampleToken \/ PredictFirst \/ PredictNext
            \/ Filter \/ Step
  BY <1>1, <1>10 DEF Prefill, SampleEos, SampleToken, PredictFirst, PredictNext,
                     Filter, Step, loop
<1>11. QED
  BY <1>3, <1>4, <1>5, <1>6, <1>7, <1>8, <1>9, <1>10 DEF Next, MakeRoom, Warm, Speak

\* Whatever is asked of it, and whatever fails, the talker gives its callback
\* frames one by one, no more than the limit, and a final call only at the end.
THEOREM Implements == Spec => Source!Safety
<1>1. Init => Source!Init
  BY DEF Init, NoRequest, Source!Init
<1>2. IInv /\ [Next]_vars => [Source!Next]_(Source!vars)
  BY StepImplements
<1>3. QED
  BY <1>1, <1>2, Invariant, PTL DEF Spec, Source!Safety

-------------------------------------------------------------------------------
(* A generation comes to an end.                                             *)

Generating == pc \notin {"idle", "crashed"}

\* The steps of generate, counted from its end.
Rank ==
  [resize |-> 9, predictor |-> 8, reserve |-> 7, prefill |-> 6, sample |-> 5,
   predict |-> 4, emit |-> 3, step |-> 2, finish |-> 1][pc]

\* What is left to do: tokens to sample, the way through one pass of the loop, codes
\* to predict.
Remaining ==
  <<IF pc = "finish" THEN 0 ELSE req.max_len - frame, Rank, Residuals - step>>

LEMMA RemainingCounts ==
  IInv => (Generating => Remaining \in [1 .. 3 -> Nat])
<1> SUFFICES ASSUME IInv, Generating PROVE Remaining \in [1 .. 3 -> Nat]
  OBVIOUS
<1>1. Rank \in Nat
  BY DEF IInv, TypeOK, ControlType, Generating, Rank
<1>2. (IF pc = "finish" THEN 0 ELSE req.max_len - frame) \in Nat
  <2>1. req.max_len \in Int /\ frame \in Nat
    BY DEF IInv, TypeOK, ControlType, LoopType, TalkerRequest
  <2>2. pc # "finish" => frame <= req.max_len
    BY <2>1 DEF IInv, TypeOK, ControlType, Generating, RoomInv, RowsInv, Roomy, Running
  <2>3. QED
    BY <2>1, <2>2
<1>3. Residuals - step \in Nat
  BY DEF IInv, TypeOK, LoopType
<1>4. QED
  BY <1>1, <1>2, <1>3 DEF Remaining

LEMMA RemainingCountsNext ==
  IInv' => (Generating' => (Remaining \in [1 .. 3 -> Nat])')
BY RemainingCounts, PTL

\* A token is fed back, generate goes on, or a code is predicted.
LEMMA LessRemains ==
  ASSUME IInv, Generating, Generating', Next, vars' # vars
  PROVE  /\ req' = req
         /\ \/ frame' = frame + 1 /\ pc = "step" /\ pc' # "finish"
            \/ frame' = frame /\ Rank' < Rank
            \/ frame' = frame /\ pc = "predict" /\ pc' = pc /\ step' = step + 1
<1>1. CASE LoadModel \/ Generate \/ Crashed
  BY <1>1 DEF LoadModel, Generate, Crashed, Generating
<1>2. CASE MakeRoom
  BY <1>2 DEF MakeRoom, ReuseCache, ResizeCache, EnsurePredictorCache, Ends, Generating,
     Rank, request, loop
<1>3. CASE Warm
  BY <1>3 DEF Warm, SkipReserve, Reserve, ReserveWithoutLayers, Generating, Rank,
     request, loop
<1>4. CASE Prefill \/ SampleEos \/ SampleToken \/ Filter \/ Emit
  BY <1>4 DEF Prefill, SampleEos, SampleToken, Filter, Emit, Ends, Generating, Rank,
     request, loop
<1>5. CASE PredictFirst \/ PredictNext
  <2>1. /\ UNCHANGED <<req, frame>> /\ step' = step + 1
        /\ pc = "predict" /\ pc' \in {"emit", "predict"}
    BY <1>5 DEF PredictFirst, PredictNext, request, loop
  <2>2. QED
    BY <2>1 DEF Rank
<1>6. CASE Step
  BY <1>6 DEF Step, request
<1>7. CASE Finish \/ PassFails
  BY <1>7 DEF Finish, PassFails, Ends, Generating
<1>8. QED
  BY <1>1, <1>2, <1>3, <1>4, <1>5, <1>6, <1>7 DEF Next, Speak

\* Each step of a generation leaves less to do, by DescentEnds only finitely often:
\* thinking tokens, which give no frame, use up the token limit as well, and no
\* failed reservation or allocation is tried again.
THEOREM EveryStepDescends ==
  Spec => /\ [](Generating => Remaining \in [1 .. 3 -> Nat])
          /\ [][Generating /\ Generating' => IsBelow(3, Remaining', Remaining)]_vars
<1>1. IInv /\ IInv' /\ [Next]_vars
        => [Generating /\ Generating' => IsBelow(3, Remaining', Remaining)]_vars
  <2> SUFFICES ASSUME IInv, IInv', Next, vars' # vars, Generating, Generating'
               PROVE  IsBelow(3, Remaining', Remaining)
    OBVIOUS
  <2>1. Remaining \in [1 .. 3 -> Nat]
    BY RemainingCounts
  <2>2. Remaining' \in [1 .. 3 -> Nat]
    BY RemainingCountsNext
  <2>3. SUFFICES \E k \in 1 .. 3 : /\ Remaining'[k] < Remaining[k]
                                   /\ \A i \in 1 .. k - 1 : Remaining'[i] = Remaining[i]
    BY <2>1, <2>2, FirstDifference
  <2>4. /\ req' = req
        /\ \/ frame' = frame + 1 /\ pc = "step" /\ pc' # "finish"
           \/ frame' = frame /\ Rank' < Rank
           \/ frame' = frame /\ pc = "predict" /\ pc' = pc /\ step' = step + 1
    BY LessRemains
  <2>5. req.max_len \in Int /\ frame \in Nat /\ step \in Nat
    BY DEF IInv, TypeOK, ControlType, LoopType, TalkerRequest
  <2>6. CASE frame' = frame + 1 /\ pc = "step" /\ pc' # "finish"
    <3>1. Remaining'[1] < Remaining[1]
      BY <2>4, <2>5, <2>6 DEF Remaining
    <3>2. QED
      BY <3>1
  <2>7. CASE frame' = frame /\ Rank' < Rank
    <3>1. Remaining'[1] <= Remaining[1] /\ Remaining'[2] < Remaining[2]
      <4>1. Remaining'[2] < Remaining[2]
        BY <2>7 DEF Remaining
      <4>2. pc # "finish"
        BY <2>7 DEF Rank, IInv, TypeOK, ControlType, Generating
      <4>3. Remaining[1] = req.max_len - frame /\ Remaining[1] >= 0
        BY <2>1, <4>2 DEF Remaining
      <4>4. Remaining'[1] \in {0, req.max_len - frame}
        BY <2>4, <2>7 DEF Remaining
      <4>5. QED
        BY <2>5, <4>1, <4>3, <4>4
    <3>2. CASE Remaining'[1] < Remaining[1]
      BY <3>2
    <3>3. CASE Remaining'[1] = Remaining[1]
      <4>1. \A i \in 1 .. 2 - 1 : i = 1
        OBVIOUS
      <4>2. QED
        BY <3>1, <3>3, <4>1
    <3>4. Remaining'[1] \in Nat /\ Remaining[1] \in Nat
      BY <2>1, <2>2
    <3>5. QED
      BY <3>1, <3>2, <3>3, <3>4
  <2>8. CASE frame' = frame /\ pc = "predict" /\ pc' = pc /\ step' = step + 1
    <3>1. Remaining'[1] = Remaining[1] /\ Remaining'[2] = Remaining[2]
      BY <2>4, <2>8 DEF Remaining, Rank
    <3>2. Remaining'[3] < Remaining[3]
      BY <2>5, <2>8 DEF Remaining
    <3>3. \A i \in 1 .. 3 - 1 : i \in {1, 2}
      OBVIOUS
    <3>4. QED
      BY <3>1, <3>2, <3>3
  <2>9. QED
    BY <2>4, <2>6, <2>7, <2>8
<1>2. QED
  BY <1>1, RemainingCounts, Invariant, PTL DEF Spec
===============================================================================
