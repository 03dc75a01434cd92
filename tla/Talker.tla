-------------------------------- MODULE Talker --------------------------------
(***************************************************************************)
(* The talker: TTSTransformer::generate over the key/value caches that it  *)
(* keeps between requests.                                                 *)
(*                                                                         *)
(* A cell of a cache holds the row it was computed from; a pass yields     *)
(* the rows that it attended to, in place of the numbers.  Nothing clears  *)
(* a cell: a shorter utterance overwrites some rows of the one before it.  *)
(***************************************************************************)
EXTENDS TalkerPrompt

CONSTANTS
  Requests,     \* the requests that may be made
  MaxRequests,  \* how many requests one run makes
  Slack,        \* context beyond the prompt and the token limit (8)
  KeepCtx,      \* a cache up to this size is never replaced by a smaller (512)
  PredictorCtx, \* cells of the code predictor's cache (16)
  Residuals     \* codes the code predictor adds to a frame (15)

ASSUME TalkerAssumption ==
  /\ Requests \subseteq TalkerRequest
  /\ MaxRequests \in Nat
  /\ Slack \in Nat
  /\ KeepCtx \in Nat
  /\ Residuals \in Nat \ {0}
  /\ PredictorCtx \in Nat
  /\ PredictorCtx > Residuals

VARIABLES
  pc,          \* the step of generate that comes next, or "idle"
  serial,      \* the number of the request; rows carry it
  req,
  frame,       \* passes of the frame loop that are complete
  n_past,
  thinking,    \* the sampled token is a thinking token
  output,      \* frames pushed to the output
  finals,      \* final calls of on_frame
  result,
  kv,          \* the talker's cache
  last_hidden, \* the rows the last pass attended to
  cp,          \* the code predictor's cache
  mask,        \* the positions its mask leaves visible
  step,        \* codes of this frame predicted so far
  code_rows,   \* the rows the last predicted code attended to
  sched,       \* what the scheduler's buffers were reserved for
  skip_ggml_code_pred_layers

request   == <<serial, req>>
loop      == <<frame, n_past, thinking, output, finals>>
talker    == <<kv, last_hidden>>
predictor == <<cp, mask, step, code_rows>>
loaded    == <<sched, skip_ggml_code_pred_layers>>

vars == <<pc, request, loop, result, talker, predictor, loaded>>

-------------------------------------------------------------------------------
(* Caches.                                                                   *)

\* What a cell holds that nothing was written to, or that has no memory.
Garbage == [owner |-> 0, text |-> None, codec |-> None]
NoItem == [owner |-> 0, frame |-> 0, item |-> 0]

NoCache == [n_ctx |-> 0, buffer |-> FALSE, cell |-> [p \in {} |-> 0]]

\* Allocation records the size first: a cache without memory keeps it.
NewCache(n, memory, content) ==
  [n_ctx |-> n, buffer |-> memory, cell |-> [p \in 0 .. n - 1 |-> content]]

\* The cache after the rows of a pass, a function from positions, were computed.
Written(c, rows) ==
  [n_ctx |-> c.n_ctx, buffer |-> c.buffer,
   cell |-> [p \in 0 .. c.n_ctx - 1 |->
               IF c.buffer /\ p \in DOMAIN rows THEN rows[p] ELSE c.cell[p]]]

Attended(c, ps) == [p \in ps |-> c.cell[p]]

\* The positions a pass for position n may attend to.
Visible(n) == 0 .. n

NotReserved ==
  [reserved |-> FALSE, failed |-> FALSE, ctx |-> 0, prefill_len |-> 0, built |-> 0]

\* Mutant: the prompt alone, as if the cache could grow later.
RequiredForPrompt(r) == PrefillLen(r) + Slack

RequiredCtx(r) == PrefillLen(r) + r.max_len + Slack

\* Twice as much as needed, but at least KeepCtx.
MostCtx(r) == IF 2 * RequiredCtx(r) > KeepCtx THEN 2 * RequiredCtx(r) ELSE KeepCtx

-------------------------------------------------------------------------------
\* Before the first request.
NoRequest ==
  [text |-> 1, instruct |-> 0, language |-> FALSE, speaker |-> FALSE, max_len |-> 0]

Init ==
  /\ pc = "idle"
  /\ serial = 0
  /\ req = NoRequest
  /\ frame = 0 /\ n_past = 0 /\ thinking = FALSE /\ output = 0 /\ finals = 0
  /\ result = "none"
  /\ kv = NoCache /\ last_hidden = <<>>
  /\ cp = NoCache /\ mask = {} /\ step = 0 /\ code_rows = <<>>
  /\ sched = NotReserved
  /\ skip_ggml_code_pred_layers \in BOOLEAN

\* Another load frees both caches and the scheduler.  On Apple platforms it
\* leaves out the GGML layers of the code predictor when a CoreML model is there.
LoadModel ==
  /\ pc = "idle"
  /\ skip_ggml_code_pred_layers' \in BOOLEAN
  /\ kv' = NoCache /\ cp' = NoCache /\ mask' = {} /\ last_hidden' = <<>>
  /\ sched' = NotReserved
  /\ UNCHANGED <<pc, request, loop, result, step, code_rows>>

Ends(answer) ==
  /\ pc' = "idle"
  /\ result' = answer

\* generate: a limit that allows no token is a success without a frame.
Generate ==
  /\ pc = "idle"
  /\ serial < MaxRequests
  /\ serial' = serial + 1
  /\ req' \in Requests
  /\ frame' = 0 /\ n_past' = 0 /\ thinking' = FALSE /\ output' = 0 /\ finals' = 0
  /\ IF req'.max_len <= 0
     THEN Ends("ok")
     ELSE pc' = "resize" /\ result' = "none"
  /\ UNCHANGED <<talker, predictor, loaded>>

-------------------------------------------------------------------------------
(* Making room.                                                              *)

\* Mutant: what was reserved outlives the cache it was reserved for.
KeepReserve(s) == s

\* init_kv_cache of either cache drops what the scheduler had reserved.
ResetReserve(s) == NotReserved

FitsCache == kv.n_ctx \in RequiredCtx(req) .. MostCtx(req)

ReuseCache ==
  /\ pc = "resize"
  /\ FitsCache
  /\ pc' = "predictor"
  /\ UNCHANGED <<request, loop, result, talker, predictor, loaded>>

ResizeCache ==
  /\ pc = "resize"
  /\ ~FitsCache
  /\ \E memory \in BOOLEAN :
       /\ kv' = NewCache(RequiredCtx(req), memory, Garbage)
       /\ IF memory
          THEN pc' = "predictor" /\ UNCHANGED result
          ELSE Ends("failed")
  /\ sched' = ResetReserve(sched)
  /\ UNCHANGED <<request, loop, last_hidden, predictor, skip_ggml_code_pred_layers>>

\* The same for the code predictor, whose cache has one size.
EnsurePredictorCache ==
  /\ pc = "predictor"
  /\ IF cp.n_ctx < PredictorCtx
     THEN /\ \E memory \in BOOLEAN :
               /\ cp' = NewCache(PredictorCtx, memory, NoItem)
               /\ IF memory
                  THEN pc' = "reserve" /\ UNCHANGED result
                  ELSE Ends("failed")
          /\ sched' = ResetReserve(sched)
     ELSE /\ pc' = "reserve"
          /\ UNCHANGED <<cp, sched, result>>
  /\ UNCHANGED <<request, loop, talker, mask, step, code_rows,
                 skip_ggml_code_pred_layers>>

NeedsReserve ==
  /\ ~sched.failed
  /\ \/ ~sched.reserved
     \/ sched.ctx < RequiredCtx(req)
     \/ sched.prefill_len < PrefillLen(req)

SkipReserve ==
  /\ pc = "reserve"
  /\ ~NeedsReserve
  /\ pc' = "prefill"
  /\ UNCHANGED <<request, loop, result, talker, predictor, loaded>>

\* A reservation that fails is not tried again and not an error.
Reserve ==
  /\ pc = "reserve"
  /\ NeedsReserve
  /\ ~skip_ggml_code_pred_layers
  /\ \/ sched' = [reserved |-> TRUE, failed |-> FALSE, ctx |-> RequiredCtx(req),
                  prefill_len |-> PrefillLen(req), built |-> kv.n_ctx]
     \/ sched' = [sched EXCEPT !.reserved = FALSE, !.failed = TRUE]
  /\ pc' = "prefill"
  /\ UNCHANGED <<request, loop, result, talker, predictor,
                 skip_ggml_code_pred_layers>>

\* The graphs of the code predictor are built even when its layers were left
\* out for CoreML: a null tensor is used, and the process ends.
ReserveWithoutLayers ==
  /\ pc = "reserve"
  /\ NeedsReserve
  /\ skip_ggml_code_pred_layers
  /\ pc' = "crashed"
  /\ result' = "crashed"
  /\ UNCHANGED <<request, loop, talker, predictor, loaded>>

Crashed == pc = "crashed" /\ UNCHANGED vars

-------------------------------------------------------------------------------
(* The frame loop.                                                           *)

PromptRow(p) ==
  [owner |-> serial, text |-> PromptText(req, p), codec |-> PromptCodec(req, p)]

\* forward_prefill.
Prefill ==
  /\ pc = "prefill"
  /\ PrefillLen(req) <= kv.n_ctx
  /\ kv' = Written(kv, [p \in 0 .. PrefillLen(req) - 1 |-> PromptRow(p)])
  /\ last_hidden' = Attended(kv', 0 .. PrefillLen(req) - 1)
  /\ n_past' = PrefillLen(req)
  /\ pc' = "sample"
  /\ UNCHANGED <<request, frame, thinking, output, finals, result, predictor, loaded>>

SampleEos ==
  /\ pc = "sample"
  /\ pc' = "finish"
  /\ UNCHANGED <<request, loop, result, talker, predictor, loaded>>

SampleToken ==
  /\ pc = "sample"
  /\ thinking' \in BOOLEAN
  /\ step' = 0
  /\ pc' = "predict"
  /\ UNCHANGED <<request, frame, n_past, output, finals, result, talker,
                 cp, mask, code_rows, loaded>>

\* What the code predictor is fed at its position p for the current frame: the
\* hidden state (item 0), the sampled code (item 1), then its own codes.
PredictorItem(p) == [owner |-> serial, frame |-> frame, item |-> p]

\* Mutant: one code too many.
CompleteLate(n) == n > Residuals

Complete(n) == n = Residuals

\* Mutant: the mask as the frame before left it.
KeptMask(m) == m \cup (Visible(2) \cap 0 .. cp.n_ctx - 1)

\* Refilled for every frame.
ResetMask(m) == Visible(2) \cap 0 .. cp.n_ctx - 1

\* The first code, from the hidden state and the sampled code; then the mask is
\* set up for the others.
PredictFirst ==
  /\ pc = "predict"
  /\ step = 0
  /\ cp' = Written(cp, [p \in Visible(1) |-> PredictorItem(p)])
  /\ code_rows' = Attended(cp', Visible(1))
  /\ mask' = ResetMask(mask)
  /\ step' = 1
  /\ pc' = IF Complete(step') THEN "emit" ELSE "predict"
  /\ UNCHANGED <<request, loop, result, talker, loaded>>

PredictNext ==
  /\ pc = "predict"
  /\ step > 0
  /\ mask' = mask \cup ({step + 1} \cap 0 .. cp.n_ctx - 1)
  /\ cp' = Written(cp, [p \in {step + 1} |-> PredictorItem(p)])
  /\ code_rows' = Attended(cp', mask')
  /\ step' = step + 1
  /\ pc' = IF Complete(step') THEN "emit" ELSE "predict"
  /\ UNCHANGED <<request, loop, result, talker, loaded>>

\* Mutant: a thinking token does not count and is sampled over.
FilterUncounted ==
  /\ pc = "emit"
  /\ thinking
  /\ pc' = "sample"
  /\ UNCHANGED <<request, loop, result, talker, predictor, loaded>>

\* A thinking token is kept from the output, but goes through the model.
Filter ==
  /\ pc = "emit"
  /\ thinking
  /\ pc' = IF frame + 1 >= req.max_len THEN "finish" ELSE "step"
  /\ UNCHANGED <<request, loop, result, talker, predictor, loaded>>

\* The callback's false ends generate with an error.
Emit ==
  /\ pc = "emit"
  /\ ~thinking
  /\ output' = output + 1
  /\ \/ /\ pc' = IF frame + 1 >= req.max_len THEN "finish" ELSE "step"
        /\ UNCHANGED result
     \/ Ends("failed")
  /\ UNCHANGED <<request, frame, n_past, thinking, finals, talker, predictor, loaded>>

\* Every code of the frame and the next row of the text.
StepRow ==
  [owner |-> serial, text |-> TrailingText(req, frame), codec |-> <<"frame", frame>>]

\* forward_step, and the increments of n_past and frame.
Step ==
  /\ pc = "step"
  /\ n_past + 1 <= kv.n_ctx
  /\ kv' = Written(kv, [p \in {n_past} |-> StepRow])
  /\ last_hidden' = Attended(kv', Visible(n_past))
  /\ n_past' = n_past + 1
  /\ frame' = frame + 1
  /\ pc' = "sample"
  /\ UNCHANGED <<request, thinking, output, finals, result, predictor, loaded>>

Finish ==
  /\ pc = "finish"
  /\ finals' = 1
  /\ \E answer \in {"ok", "failed"} : Ends(answer)
  /\ UNCHANGED <<request, frame, n_past, thinking, output, talker, predictor, loaded>>

\* The steps that project, look up or compute with the backend, which may fail.
Fallible == {"resize", "prefill", "predict", "step"}

PassFails ==
  /\ pc \in Fallible
  /\ Ends("failed")
  /\ UNCHANGED <<request, loop, talker, predictor, loaded>>

-------------------------------------------------------------------------------
MakeRoom == ReuseCache \/ ResizeCache \/ EnsurePredictorCache

Warm == SkipReserve \/ Reserve \/ ReserveWithoutLayers

Speak ==
  \/ Prefill \/ SampleEos \/ SampleToken \/ PredictFirst \/ PredictNext
  \/ Filter \/ Emit \/ Step \/ Finish \/ PassFails

Next == LoadModel \/ Generate \/ MakeRoom \/ Warm \/ Speak \/ Crashed

Spec == Init /\ [][Next]_vars

\* A call of generate runs on: its loop waits for nobody.
FairSpec == Spec /\ WF_vars(MakeRoom \/ Warm \/ Speak)

-------------------------------------------------------------------------------
(* Properties.                                                               *)

IsCache(c) ==
  /\ c = [n_ctx |-> c.n_ctx, buffer |-> c.buffer, cell |-> c.cell]
  /\ c.n_ctx \in Nat
  /\ c.buffer \in BOOLEAN
  /\ c.cell = [p \in 0 .. c.n_ctx - 1 |-> c.cell[p]]

ControlType ==
  /\ pc \in {"idle", "resize", "predictor", "reserve", "prefill", "sample",
             "predict", "emit", "step", "finish", "crashed"}
  /\ serial \in Nat
  /\ req \in TalkerRequest
  /\ result \in {"none", "ok", "failed", "crashed"}

LoopType ==
  /\ frame \in Nat /\ n_past \in Nat /\ output \in Nat
  /\ thinking \in BOOLEAN
  /\ finals \in {0, 1}
  /\ step \in 0 .. Residuals

CacheType == IsCache(kv) /\ IsCache(cp) /\ mask \subseteq Nat

LoadedType ==
  /\ sched \in [reserved : BOOLEAN, failed : BOOLEAN, ctx : Int, prefill_len : Int,
                built : Nat]
  /\ skip_ggml_code_pred_layers \in BOOLEAN

\* Types of the variables, and that a cache has the cells its size says.
TypeOK == ControlType /\ LoopType /\ CacheType /\ LoadedType

Running == {"sample", "predict", "emit", "step"}

\* The text in order, each token once, then its end once, then padding: what a
\* generation is to have read when frame number f is sampled.
Speech(r, f) ==
  CASE f < r.text -> <<"word", f>>
    [] f = r.text -> TtsEos
    [] OTHER      -> TtsPad

\* However many requests and reloads came before, and whatever the cache still
\* holds of them, the state a frame is sampled from attends to all of its own
\* utterance and nothing else: its prompt, its text in order, and its frames
\* in order.  (Where a failed allocation left a cache without memory, nothing
\* can be said: generate uses it all the same.)
HiddenIsOfUtterance ==
  pc \in Running /\ kv.buffer =>
    LET last == PrefillLen(req) - 1 IN
    /\ DOMAIN last_hidden = 0 .. last + frame
    /\ \A p \in DOMAIN last_hidden : last_hidden[p].owner = serial
    /\ \A p \in 0 .. req.instruct - 1 : last_hidden[p].text = <<"instruct", p>>
    /\ \A f \in 0 .. frame : last_hidden[last + f].text = Speech(req, f)
    /\ \A f \in 1 .. frame : last_hidden[last + f].codec = <<"frame", f - 1>>

\* A code is predicted from this frame's hidden state, sampled code and earlier
\* codes, each at its place, and from no other frame's: the predictor's cache
\* and its mask are shared by all frames.
CodesAreOfThisFrame ==
  pc \in {"predict", "emit"} /\ step > 0 /\ cp.buffer =>
    code_rows = [p \in 0 .. step |-> PredictorItem(p)]

\* No pass of a generation ever meets "Context length exceeded" or writes
\* beyond a cache, at any length of text and instruction.
ContextSuffices ==
  /\ pc = "prefill" => PrefillLen(req) <= kv.n_ctx
  /\ pc = "step" => n_past + 1 <= kv.n_ctx
  /\ pc = "predict" => step + 1 < cp.n_ctx

\* While frames are made, a reservation stands only for graphs as large as
\* this request's, over the cache that is in use.
ReservedGraphsFit ==
  pc \in Running /\ sched.reserved =>
    /\ sched.built = kv.n_ctx
    /\ sched.ctx >= RequiredCtx(req)
    /\ sched.prefill_len >= PrefillLen(req)

\* To its callback, the talker is a source of frames.
Source == INSTANCE FrameSource WITH
  generating <- pc \notin {"idle", "crashed"},
  limit <- req.max_len,
  given <- output

SourceSpec == Source!Spec

-------------------------------------------------------------------------------
(* The inductive invariant.                                                  *)

\* The row that position p of the talker's cache is to hold.
OwnRow(p) ==
  IF p < PrefillLen(req)
  THEN PromptRow(p)
  ELSE LET f == p - PrefillLen(req) IN
       [owner |-> serial, text |-> TrailingText(req, f), codec |-> <<"frame", f>>]

Roomy == {"predictor", "reserve", "prefill", "finish"} \cup Running

RoomInv ==
  /\ pc \in Roomy \cup {"resize"} => req.max_len > 0
  /\ pc \in Roomy => kv.n_ctx >= RequiredCtx(req)
  /\ pc \in {"reserve", "prefill"} \cup Running => cp.n_ctx >= PredictorCtx

RowsInv ==
  /\ pc \in {"resize", "predictor", "reserve", "prefill"} => frame = 0
  /\ pc \in Running =>
       /\ frame < req.max_len
       /\ n_past = PrefillLen(req) + frame
       /\ DOMAIN last_hidden = 0 .. n_past - 1
       /\ kv.buffer => \A p \in 0 .. n_past - 1 :
            kv.cell[p] = OwnRow(p) /\ last_hidden[p] = OwnRow(p)
  /\ pc = "step" => frame + 1 < req.max_len

CodesInv ==
  /\ pc = "predict" => step < Residuals
  /\ pc = "emit" => step = Residuals
  /\ pc \in {"predict", "emit"} /\ step > 0 =>
       /\ mask = 0 .. (IF step = 1 THEN 2 ELSE step) \cap 0 .. cp.n_ctx - 1
       /\ cp.buffer =>
            /\ \A p \in 0 .. step : cp.cell[p] = PredictorItem(p)
            /\ code_rows = [p \in 0 .. step |-> PredictorItem(p)]

ReserveInv ==
  /\ sched.reserved => ~sched.failed /\ sched.built = kv.n_ctx
  /\ pc \in {"prefill", "finish"} \cup Running /\ sched.reserved =>
       sched.ctx >= RequiredCtx(req) /\ sched.prefill_len >= PrefillLen(req)

\* As many frames were given as passes at most, and a request that has not
\* ended has no result.
FramesInv ==
  /\ pc \in {"resize", "predictor", "reserve", "prefill"} => output = 0
  /\ pc \in {"sample", "predict", "emit"} => output <= frame
  /\ pc = "step" => output <= frame + 1
  /\ pc \notin {"idle", "crashed"} => result = "none" /\ finals = 0
  /\ pc = "crashed" => result = "crashed"
  /\ pc = "idle" => result # "crashed"

\* What every step preserves.
IInv == TypeOK /\ RoomInv /\ RowsInv /\ CodesInv /\ ReserveInv /\ FramesInv
===============================================================================
