----------------------------- MODULE EngineModels -----------------------------
(***************************************************************************)
(* The engine object, Qwen3TTS: which model each of its components holds   *)
(* while an application loads models and makes requests, one call at a     *)
(* time (pipeline_models.cpp and the entry points and the unstreamed part  *)
(* of pipeline_synthesize.cpp).                                            *)
(*                                                                         *)
(* A call runs through stages; each stage may fail and then returns what   *)
(* it has changed so far.  Loads fail where the loaders return false, each *)
(* place leaving its own remains.  A streaming request's own steps are in  *)
(* StreamingSynthesis: here it is the one step Generate.                   *)
(***************************************************************************)
EXTENDS Naturals, FiniteSets

CONSTANTS
  Models, NoModel,   \* TTS model files, and none
  Texts, NoText,     \* instruction texts and cache keys are both strings
  ModelType,         \* tts_model_type of each model
  HiddenSize,        \* config.hidden_size of each model
  EncoderDim,        \* what the model's speaker encoder produces
  MaxRefs            \* bound on the shared backend's reference count

ASSUME ModelAssumption ==
  /\ NoModel \notin Models
  /\ NoText \notin Texts
  /\ ModelType \in [Models -> {"base", "custom_voice", "voice_design"}]
  /\ HiddenSize \in [Models -> Nat \ {0}]
  /\ EncoderDim \in [Models -> Nat \ {0}]
  /\ MaxRefs \in Nat

VARIABLES
  \* Qwen3TTS
  models_loaded_, transformer_loaded_, decoder_loaded_, encoder_loaded_,
  low_mem_mode_, tts_model_path_, instruction_token_cache_,
  \* its components
  tokenizer_,        \* the models whose vocabulary was read into it
  transformer_,      \* the model whose tensors it holds (model.ctx)
  config,            \* the model its configuration was parsed from
  decoder_,          \* the vocoder can decode
  encoder_,          \* the model whose speaker encoder is complete
  \* the shared backend
  ref_count, transformer_backend, decoder_backend, encoder_backend,
  \* the call in progress
  stage, call,
  tokens,            \* instruction tokens: [text, vocab]
  voice,             \* floats in the speaker embedding, 0 for none
  reply,             \* how the last call ended
  last_load          \* how the last load_models ended

flags == <<models_loaded_, transformer_loaded_, decoder_loaded_,
           encoder_loaded_, low_mem_mode_, tts_model_path_>>
speech == <<transformer_, config, transformer_backend>>
vocoder == <<decoder_, decoder_backend>>
cloner == <<encoder_, encoder_backend>>
request == <<call, tokens, voice>>
vars == <<flags, instruction_token_cache_, tokenizer_, speech, vocoder,
          cloner, ref_count, stage, request, reply, last_load>>

NoTokens == [text |-> NoText, vocab |-> {}]
Tokens == [text : Texts \cup {NoText}, vocab : SUBSET Models]
NoCall == [kind |-> "none", mode |-> "none"]

Kinds == {"default", "named", "embedding", "clone"}
Modes == {"stream", "batch", "defer"}
SynthesisCalls == [kind : Kinds, mode : Modes]
OtherCalls == {[kind |-> k, mode |-> "none"] : k \in {"none", "load", "extract", "decode"}}

Stages == {"idle", "tokenizer", "load_transformer", "load_vocoder", "finish_load",
           "speaker", "load_encoder", "encode", "tokenise", "reload_transformer",
           "stream_vocoder", "generate", "batch_vocoder", "decode", "finish",
           "codes_vocoder", "decode_codes"}

Init ==
  /\ models_loaded_ = FALSE /\ transformer_loaded_ = FALSE
  /\ decoder_loaded_ = FALSE /\ encoder_loaded_ = FALSE
  /\ low_mem_mode_ = FALSE /\ tts_model_path_ = NoModel
  /\ instruction_token_cache_ = [k \in Texts |-> NoTokens]
  /\ tokenizer_ = {}
  /\ transformer_ = NoModel /\ config = NoModel /\ transformer_backend = FALSE
  /\ decoder_ = FALSE /\ decoder_backend = FALSE
  /\ encoder_ = NoModel /\ encoder_backend = FALSE
  /\ ref_count = 0
  /\ stage = "idle" /\ call = NoCall /\ tokens = NoTokens /\ voice = 0
  /\ reply = "none" /\ last_load = "none"

-----------------------------------------------------------------------------
(* The shared backend and the loaders of the three components.             *)

\* Mutant: a release is counted though nothing is held.
ReleasedUnheld(count, held) == count - 1

\* release_preferred_backend: the last release frees the backend.
Released(count, held) == IF held /\ count > 0 THEN count - 1 ELSE count

\* init_preferred_backend; creating a backend may fail, sharing one may not.
CanRefuse(count) == count = 0

UnloadTransformer ==
  /\ transformer_' = NoModel
  /\ transformer_backend' = FALSE

\* Mutant: the unloaded decoder keeps its backend pointer.
UnloadDecoderKeepsBackend ==
  /\ decoder_' = FALSE
  /\ UNCHANGED decoder_backend

UnloadDecoder ==
  /\ decoder_' = FALSE
  /\ decoder_backend' = FALSE

\* TTSTransformer::load_model first unloads; the places it can fail are the
\* file, the tensor data, the backend, and what is built on the backend.
TransformerOutcomes == {"loaded", "unopened", "unread", "no_backend", "unscheduled"}

LoadTransformer(outcome) ==
  LET count == Released(ref_count, transformer_backend)
      holds == outcome \in {"loaded", "unscheduled"} IN
  /\ outcome = "no_backend" => CanRefuse(count)
  /\ transformer_' = IF outcome \in {"unopened", "unread"} THEN NoModel ELSE tts_model_path_
  /\ config' = IF outcome = "unopened" THEN config ELSE tts_model_path_
  /\ transformer_backend' = holds
  /\ ref_count' = IF holds THEN count + 1 ELSE count

\* AudioTokenizerDecoder::load_model takes the backend before the tensor data.
DecoderOutcomes == {"loaded", "unopened", "no_backend", "unread"}

LoadDecoder(outcome) ==
  LET count == Released(ref_count, decoder_backend)
      holds == outcome \in {"loaded", "unread"} IN
  /\ outcome = "no_backend" => CanRefuse(count)
  /\ decoder_' = (outcome = "loaded")
  /\ decoder_backend' = holds
  /\ ref_count' = IF holds THEN count + 1 ELSE count

\* AudioTokenizerEncoder::load_model unloads nothing: a second load takes a
\* second reference to the backend and forgets the first.
EncoderOutcomes == {"loaded", "unopened", "unread", "no_backend", "unscheduled"}

LoadEncoder(outcome) ==
  LET takes == outcome \in {"loaded", "unscheduled"} IN
  /\ outcome = "no_backend" => CanRefuse(ref_count)
  /\ takes => ref_count < MaxRefs
  /\ encoder_' = CASE outcome = "loaded" -> tts_model_path_
                   [] outcome = "unopened" -> encoder_
                   [] OTHER -> NoModel
  /\ encoder_backend' = (takes \/ (outcome # "no_backend" /\ encoder_backend))
  /\ ref_count' = IF takes THEN ref_count + 1 ELSE ref_count

-----------------------------------------------------------------------------
(* A call ends: a load also leaves how it ended for the properties.        *)

Return(how) ==
  /\ stage' = "idle"
  /\ reply' = how
  /\ last_load' = IF call.kind = "load" THEN how ELSE last_load
  /\ call' = NoCall /\ tokens' = NoTokens /\ voice' = 0

GoTo(next) ==
  /\ stage' = next
  /\ reply' = "none"
  /\ UNCHANGED last_load

-----------------------------------------------------------------------------
(* load_models                                                             *)

\* Mutant: a load keeps the flag of the vocoder it unloaded.
BeginLoadKeepsVocoder(m, low_mem) ==
  /\ stage = "idle"
  /\ UnloadTransformer /\ UnloadDecoder
  /\ ref_count' = Released(Released(ref_count, transformer_backend), decoder_backend)
  /\ tts_model_path_' = m
  /\ low_mem_mode_' = low_mem
  /\ call' = [kind |-> "load", mode |-> "none"]
  /\ stage' = "tokenizer"
  /\ reply' = "none" /\ last_load' = "none"
  /\ UNCHANGED <<models_loaded_, tokenizer_, config, cloner, tokens, voice>>
  /\ transformer_loaded_' = FALSE /\ encoder_loaded_' = FALSE
  /\ UNCHANGED decoder_loaded_
  /\ instruction_token_cache_' = [k \in Texts |-> NoTokens]

\* Mutant: a load keeps the flag of the previous model's speaker encoder.
BeginLoadKeepsEncoder(m, low_mem) ==
  /\ stage = "idle"
  /\ UnloadTransformer /\ UnloadDecoder
  /\ ref_count' = Released(Released(ref_count, transformer_backend), decoder_backend)
  /\ tts_model_path_' = m
  /\ low_mem_mode_' = low_mem
  /\ call' = [kind |-> "load", mode |-> "none"]
  /\ stage' = "tokenizer"
  /\ reply' = "none" /\ last_load' = "none"
  /\ UNCHANGED <<models_loaded_, tokenizer_, config, cloner, tokens, voice>>
  /\ transformer_loaded_' = FALSE /\ decoder_loaded_' = FALSE
  /\ UNCHANGED encoder_loaded_
  /\ instruction_token_cache_' = [k \in Texts |-> NoTokens]

\* Mutant: a load keeps the cached instruction tokens.
BeginLoadKeepsCache(m, low_mem) ==
  /\ stage = "idle"
  /\ UnloadTransformer /\ UnloadDecoder
  /\ ref_count' = Released(Released(ref_count, transformer_backend), decoder_backend)
  /\ tts_model_path_' = m
  /\ low_mem_mode_' = low_mem
  /\ call' = [kind |-> "load", mode |-> "none"]
  /\ stage' = "tokenizer"
  /\ reply' = "none" /\ last_load' = "none"
  /\ UNCHANGED <<models_loaded_, tokenizer_, config, cloner, tokens, voice>>
  /\ transformer_loaded_' = FALSE /\ decoder_loaded_' = FALSE /\ encoder_loaded_' = FALSE
  /\ UNCHANGED instruction_token_cache_

\* Everything up to the first thing that can fail.
BeginLoad(m, low_mem) ==
  /\ stage = "idle"
  /\ UnloadTransformer /\ UnloadDecoder
  /\ ref_count' = Released(Released(ref_count, transformer_backend), decoder_backend)
  /\ tts_model_path_' = m
  /\ transformer_loaded_' = FALSE /\ decoder_loaded_' = FALSE /\ encoder_loaded_' = FALSE
  /\ instruction_token_cache_' = [k \in Texts |-> NoTokens]
  /\ low_mem_mode_' = low_mem
  /\ call' = [kind |-> "load", mode |-> "none"]
  /\ stage' = "tokenizer"
  /\ reply' = "none" /\ last_load' = "none"
  /\ UNCHANGED <<models_loaded_, tokenizer_, config, cloner, tokens, voice>>

\* Mutant: the vocabulary is read only once.
LoadTokenizerOnce ==
  /\ stage = "tokenizer"
  /\ tokenizer_' = IF tokenizer_ = {} THEN {tts_model_path_} ELSE tokenizer_
  /\ GoTo("load_transformer")
  /\ UNCHANGED <<flags, instruction_token_cache_, speech, vocoder, cloner, ref_count, request>>

\* load_from_gguf adds the model's vocabulary to what is there.
LoadTokenizer ==
  /\ stage = "tokenizer"
  /\ tokenizer_' = tokenizer_ \cup {tts_model_path_}
  /\ GoTo("load_transformer")
  /\ UNCHANGED <<flags, instruction_token_cache_, speech, vocoder, cloner, ref_count, request>>

LoadTokenizerFails ==
  /\ stage = "tokenizer"
  /\ Return("failed")
  /\ UNCHANGED <<flags, instruction_token_cache_, tokenizer_, speech, vocoder, cloner, ref_count>>

\* Where a request goes once the transformer is there.
SpeechStage == IF call.mode = "stream" /\ ~decoder_loaded_
               THEN "stream_vocoder" ELSE "generate"

TransformerLoads ==
  /\ stage \in {"load_transformer", "reload_transformer"}
  /\ LoadTransformer("loaded")
  /\ transformer_loaded_' = TRUE
  /\ GoTo(IF stage = "reload_transformer" THEN SpeechStage
          ELSE IF low_mem_mode_ THEN "finish_load" ELSE "load_vocoder")
  /\ UNCHANGED <<models_loaded_, decoder_loaded_, encoder_loaded_, low_mem_mode_,
                 tts_model_path_, instruction_token_cache_, tokenizer_, vocoder,
                 cloner, request>>

TransformerLoadFails ==
  /\ stage \in {"load_transformer", "reload_transformer"}
  /\ \E outcome \in TransformerOutcomes \ {"loaded"} : LoadTransformer(outcome)
  /\ Return("failed")
  /\ UNCHANGED <<flags, instruction_token_cache_, tokenizer_, vocoder, cloner>>

VocoderLoads ==
  /\ stage \in {"load_vocoder", "stream_vocoder", "batch_vocoder", "codes_vocoder"}
  /\ LoadDecoder("loaded")
  /\ decoder_loaded_' = TRUE
  /\ GoTo(CASE stage = "load_vocoder" -> "finish_load"
            [] stage = "stream_vocoder" -> "generate"
            [] stage = "batch_vocoder" -> "decode"
            [] stage = "codes_vocoder" -> "decode_codes")
  /\ UNCHANGED <<models_loaded_, transformer_loaded_, encoder_loaded_, low_mem_mode_,
                 tts_model_path_, instruction_token_cache_, tokenizer_, speech,
                 cloner, request>>

VocoderLoadFails ==
  /\ stage \in {"load_vocoder", "stream_vocoder", "batch_vocoder", "codes_vocoder"}
  /\ \E outcome \in DecoderOutcomes \ {"loaded"} : LoadDecoder(outcome)
  /\ Return("failed")
  /\ UNCHANGED <<flags, instruction_token_cache_, tokenizer_, speech, cloner>>

\* models_loaded_ is set before the runtime is primed, which may fail.
FinishLoad ==
  /\ stage = "finish_load"
  /\ models_loaded_' = TRUE
  /\ \/ Return("ok")
     \/ transformer_loaded_ /\ decoder_loaded_ /\ Return("failed")
  /\ UNCHANGED <<transformer_loaded_, decoder_loaded_, encoder_loaded_, low_mem_mode_,
                 tts_model_path_, instruction_token_cache_, tokenizer_, speech,
                 vocoder, cloner, ref_count>>

-----------------------------------------------------------------------------
(* The synthesis entry points, up to synthesize_internal.                  *)

Refuse ==
  /\ reply' = "failed"
  /\ UNCHANGED <<flags, instruction_token_cache_, tokenizer_, speech, vocoder,
                 cloner, ref_count, stage, request, last_load>>

Begin(c, next) ==
  /\ stage = "idle"
  /\ models_loaded_
  /\ call' = c
  /\ GoTo(next)
  /\ UNCHANGED <<flags, instruction_token_cache_, tokenizer_, speech, vocoder,
                 cloner, ref_count, tokens>>

\* Every entry point refuses when no load has reached the end; an unreadable
\* reference file and an empty batch of codes are refused in any case.
RefuseAtOnce == stage = "idle" /\ Refuse

\* synthesize without a speaker: a custom_voice model refuses.
SynthesizeDefault(mode) ==
  /\ models_loaded_
  /\ \/ /\ ModelType[config] # "custom_voice"
        /\ Begin([kind |-> "default", mode |-> mode], "tokenise")
        /\ UNCHANGED voice
     \/ stage = "idle" /\ ModelType[config] = "custom_voice" /\ Refuse

SynthesizeNamed(mode) ==
  /\ Begin([kind |-> "named", mode |-> mode], "speaker")
  /\ UNCHANGED voice

\* get_named_speaker_embedding needs the transformer's tensors.
ResolveSpeaker ==
  /\ stage = "speaker"
  /\ transformer_ # NoModel
  /\ voice' = HiddenSize[config]
  /\ GoTo("tokenise")
  /\ UNCHANGED <<flags, instruction_token_cache_, tokenizer_, speech, vocoder,
                 cloner, ref_count, call, tokens>>

SpeakerUnknown ==
  /\ stage = "speaker"
  /\ Return(IF transformer_ = NoModel THEN "model not loaded" ELSE "failed")
  /\ UNCHANGED <<flags, instruction_token_cache_, tokenizer_, speech, vocoder, cloner, ref_count>>

\* synthesize_with_speaker_embedding checks the embedding's dimension.
SynthesizeWithEmbedding(mode, dim) ==
  /\ models_loaded_
  /\ \/ /\ dim = HiddenSize[config]
        /\ Begin([kind |-> "embedding", mode |-> mode], "tokenise")
        /\ voice' = dim
     \/ stage = "idle" /\ dim # HiddenSize[config] /\ Refuse

\* synthesize_with_voice and extract_speaker_embedding load the encoder lazily.
EncodeVoice(c) ==
  /\ Begin(c, IF encoder_loaded_ THEN "encode" ELSE "load_encoder")
  /\ UNCHANGED voice

EncoderLoads ==
  /\ stage = "load_encoder"
  /\ LoadEncoder("loaded")
  /\ encoder_loaded_' = TRUE
  /\ GoTo("encode")
  /\ UNCHANGED <<models_loaded_, transformer_loaded_, decoder_loaded_, low_mem_mode_,
                 tts_model_path_, instruction_token_cache_, tokenizer_, speech,
                 vocoder, request>>

EncoderLoadFails ==
  /\ stage = "load_encoder"
  /\ \E outcome \in EncoderOutcomes \ {"loaded"} : LoadEncoder(outcome)
  /\ Return("failed")
  /\ UNCHANGED <<flags, instruction_token_cache_, tokenizer_, speech, vocoder>>

EncodeVoiceFits ==
  /\ stage = "encode"
  /\ EncoderDim[encoder_] = HiddenSize[config]
  /\ \/ /\ call.kind = "clone"
        /\ voice' = EncoderDim[encoder_]
        /\ GoTo("tokenise")
        /\ UNCHANGED <<call, tokens>>
     \/ call.kind = "extract" /\ Return("ok")
  /\ UNCHANGED <<flags, instruction_token_cache_, tokenizer_, speech, vocoder, cloner, ref_count>>

\* The encoder fails, or its embedding has another dimension.
EncodeVoiceFails ==
  /\ stage = "encode"
  /\ Return("failed")
  /\ UNCHANGED <<flags, instruction_token_cache_, tokenizer_, speech, vocoder, cloner, ref_count>>

-----------------------------------------------------------------------------
(* synthesize_internal                                                     *)

\* After the instruction is tokenised the transformer is reloaded if need be.
AfterTokens == IF transformer_loaded_ THEN SpeechStage ELSE "reload_transformer"

\* The instruction's tokens come from the cache when it has the request's key,
\* and go there otherwise; only then an unusable text ends the call.
TokeniseCached(instruction, key) ==
  LET cached == instruction_token_cache_[key]
      used == IF cached # NoTokens THEN cached
              ELSE [text |-> instruction, vocab |-> tokenizer_] IN
  /\ instruction_token_cache_' = [instruction_token_cache_ EXCEPT ![key] = used]
  /\ \/ tokens' = used /\ GoTo(AfterTokens) /\ UNCHANGED <<call, voice>>
     \/ Return("failed")

TokeniseUncached(instruction) ==
  /\ tokens' = IF instruction = NoText THEN NoTokens
               ELSE [text |-> instruction, vocab |-> tokenizer_]
  /\ GoTo(AfterTokens)
  /\ UNCHANGED <<instruction_token_cache_, call, voice>>

\* A request without an explicit key is cached under the instruction itself.
TokeniseInstruction(instruction) ==
  /\ stage = "tokenise"
  /\ \/ instruction # NoText /\ \E key \in Texts : TokeniseCached(instruction, key)
     \/ TokeniseUncached(instruction)
  /\ UNCHANGED <<flags, tokenizer_, speech, vocoder, cloner, ref_count>>

\* A parameter out of range, or nothing to tokenise.
TokeniseFails ==
  /\ stage = "tokenise"
  /\ Return("failed")
  /\ UNCHANGED <<flags, instruction_token_cache_, tokenizer_, speech, vocoder, cloner, ref_count>>

\* Mutant: low-memory mode keeps the transformer while it decodes.
GenerateKeepsTransformer ==
  /\ stage = "generate"
  /\ GoTo(IF call.mode # "batch" THEN "finish"
          ELSE IF decoder_loaded_ THEN "decode" ELSE "batch_vocoder")
  /\ UNCHANGED <<flags, instruction_token_cache_, tokenizer_, speech, vocoder, cloner,
                 ref_count, request>>

\* Streamed speech is decoded as it is generated; a deferred request returns
\* its codes.  In low-memory mode unstreamed speech drops the transformer.
Generate ==
  /\ stage = "generate"
  /\ GoTo(IF call.mode # "batch" THEN "finish"
          ELSE IF decoder_loaded_ THEN "decode" ELSE "batch_vocoder")
  /\ IF low_mem_mode_ /\ call.mode # "stream"
     THEN /\ UnloadTransformer /\ UNCHANGED config
          /\ ref_count' = Released(ref_count, transformer_backend)
          /\ transformer_loaded_' = FALSE
     ELSE UNCHANGED <<speech, ref_count, transformer_loaded_>>
  /\ UNCHANGED <<models_loaded_, decoder_loaded_, encoder_loaded_, low_mem_mode_,
                 tts_model_path_, instruction_token_cache_, tokenizer_, vocoder,
                 cloner, request>>

Decode ==
  /\ stage = "decode"
  /\ GoTo("finish")
  /\ UNCHANGED <<flags, instruction_token_cache_, tokenizer_, speech, vocoder,
                 cloner, ref_count, request>>

\* An early return: no frames, a stopped stream, a failed decode.
SpeechFails ==
  /\ stage \in {"generate", "decode"}
  /\ Return("failed")
  /\ UNCHANGED <<flags, instruction_token_cache_, tokenizer_, speech, vocoder, cloner, ref_count>>

Finish ==
  /\ stage = "finish"
  /\ Return("ok")
  /\ IF low_mem_mode_
     THEN /\ UnloadDecoder
          /\ ref_count' = Released(ref_count, decoder_backend)
          /\ decoder_loaded_' = FALSE
     ELSE UNCHANGED <<vocoder, ref_count, decoder_loaded_>>
  /\ UNCHANGED <<models_loaded_, transformer_loaded_, encoder_loaded_, low_mem_mode_,
                 tts_model_path_, instruction_token_cache_, tokenizer_, speech, cloner>>

-----------------------------------------------------------------------------
(* decode_audio_codes_batch                                                *)

DecodeBatch ==
  /\ Begin([kind |-> "decode", mode |-> "none"],
           IF decoder_loaded_ THEN "decode_codes" ELSE "codes_vocoder")
  /\ UNCHANGED voice

\* The codes may have the wrong shape, and the decoder may fail.
DecodeCodes ==
  /\ stage = "decode_codes"
  /\ Return("ok") \/ Return("failed")
  /\ UNCHANGED <<flags, instruction_token_cache_, tokenizer_, speech, vocoder, cloner, ref_count>>

-----------------------------------------------------------------------------

\* The steps of the call in progress but one, which takes the instruction.
Continue ==
  \/ LoadTokenizer \/ LoadTokenizerFails \/ TransformerLoads \/ TransformerLoadFails
  \/ VocoderLoads \/ VocoderLoadFails \/ FinishLoad
  \/ ResolveSpeaker \/ SpeakerUnknown
  \/ EncoderLoads \/ EncoderLoadFails \/ EncodeVoiceFits \/ EncodeVoiceFails
  \/ TokeniseFails
  \/ Generate \/ Decode \/ SpeechFails \/ Finish \/ DecodeCodes

\* The dimensions an application's embedding can have.
Dims == {HiddenSize[m] : m \in Models}

Synthesize ==
  \E mode \in Modes :
    \/ SynthesizeDefault(mode)
    \/ SynthesizeNamed(mode)
    \/ \E dim \in Dims : SynthesizeWithEmbedding(mode, dim)
    \/ EncodeVoice([kind |-> "clone", mode |-> mode])

Next ==
  \/ \E m \in Models, low_mem \in BOOLEAN : BeginLoad(m, low_mem)
  \/ RefuseAtOnce
  \/ Synthesize
  \/ EncodeVoice([kind |-> "extract", mode |-> "none"])
  \/ DecodeBatch
  \/ \E instruction \in Texts \cup {NoText} : TokeniseInstruction(instruction)
  \/ Continue

Spec == Init /\ [][Next]_vars

-----------------------------------------------------------------------------
(* Properties                                                              *)

FlagTypes ==
  /\ models_loaded_ \in BOOLEAN /\ transformer_loaded_ \in BOOLEAN
  /\ decoder_loaded_ \in BOOLEAN /\ encoder_loaded_ \in BOOLEAN
  /\ low_mem_mode_ \in BOOLEAN
  /\ tts_model_path_ \in Models \cup {NoModel}

ComponentTypes ==
  /\ tokenizer_ \in SUBSET Models
  /\ transformer_ \in Models \cup {NoModel} /\ config \in Models \cup {NoModel}
  /\ decoder_ \in BOOLEAN /\ encoder_ \in Models \cup {NoModel}
  /\ transformer_backend \in BOOLEAN /\ decoder_backend \in BOOLEAN
  /\ encoder_backend \in BOOLEAN

CallTypes ==
  /\ stage \in Stages /\ call \in SynthesisCalls \cup OtherCalls
  /\ voice \in Nat
  /\ reply \in {"none", "ok", "failed", "model not loaded"}
  /\ last_load \in {"none", "ok", "failed"}

TokenTypes ==
  /\ tokens \in Tokens
  /\ instruction_token_cache_ \in [Texts -> Tokens]

TypeOK == FlagTypes /\ ComponentTypes /\ CallTypes /\ TokenTypes /\ ref_count \in Nat

\* Whatever loads and requests came before and wherever they failed, a component
\* is only asked to work when it is complete and holds the selected model: the
\* loaded flags, reset and set in different calls, never outlive what they
\* stand for.
NothingUsedUnloaded ==
  /\ stage = "generate" => transformer_ = tts_model_path_ /\ transformer_backend
  /\ stage = "generate" /\ call.mode = "stream" => decoder_ /\ decoder_backend
  /\ stage \in {"decode", "decode_codes"} => decoder_ /\ decoder_backend
  /\ stage = "encode" => encoder_ = tts_model_path_ /\ encoder_backend

\* Cached instruction tokens were made by the tokenizer as it is now: no load,
\* not even a failed one, leaves tokens of another vocabulary in the cache.
CacheIsCurrent ==
  \A key \in Texts :
    instruction_token_cache_[key] # NoTokens =>
      instruction_token_cache_[key].vocab = tokenizer_

Holds(held) == IF held THEN 1 ELSE 0

\* The shared backend is not freed while a component computes on it.
BackendOutlivesUsers ==
  Holds(transformer_backend) + Holds(decoder_backend) + Holds(encoder_backend) <= ref_count

\* After a load that succeeded, speech is generated by one model throughout:
\* its transformer, tokens of its vocabulary and a voice of its dimension.
OneModelSpeaks ==
  last_load = "ok" /\ stage = "generate" =>
    /\ transformer_ = tts_model_path_ /\ config = tts_model_path_
    /\ tts_model_path_ \in tokenizer_
    /\ tokens.vocab \in {{}, tokenizer_}
    /\ voice \in {0, HiddenSize[transformer_]}

\* In low-memory mode the transformer and its hold on the backend are gone
\* before the vocoder is loaded or run for an unstreamed request.
LowMemoryHoldsOneModel ==
  /\ low_mem_mode_
  /\ stage \in {"batch_vocoder", "decode"} \/ (stage = "finish" /\ call.mode # "stream")
  => transformer_ = NoModel /\ ~transformer_loaded_ /\ ~transformer_backend

\* "lazily load and unload large components" (readme.md): a component that was
\* unloaded is loaded again when it is needed, so a request is not refused for
\* a transformer the engine itself put away.
UnloadIsTransparent == ~(reply = "model not loaded" /\ last_load = "ok")

-----------------------------------------------------------------------------
(* The inductive invariant                                                 *)

LoadStages == {"tokenizer", "load_transformer", "load_vocoder", "finish_load"}

\* A loaded flag stands for a complete component of the selected model.
FlagsInv ==
  /\ transformer_loaded_ =>
       /\ transformer_ = tts_model_path_ /\ config = tts_model_path_
       /\ transformer_backend
  /\ decoder_loaded_ => decoder_ /\ decoder_backend
  /\ encoder_loaded_ => encoder_ = tts_model_path_ /\ encoder_backend
  /\ models_loaded_ => config \in Models /\ tts_model_path_ \in Models

\* What each stage may rely on.
StageInv ==
  /\ stage \in {"load_vocoder", "finish_load", "stream_vocoder", "generate"} => transformer_loaded_
  /\ stage \in {"tokenizer", "load_transformer", "reload_transformer"} => ~transformer_loaded_
  /\ stage \in LoadStages => tts_model_path_ \in Models
  /\ stage \in {"decode", "decode_codes"} => decoder_loaded_
  /\ stage = "generate" /\ call.mode = "stream" => decoder_loaded_
  /\ stage \in {"tokenizer", "load_transformer", "load_vocoder", "stream_vocoder",
                "batch_vocoder", "codes_vocoder"} => ~decoder_loaded_
  /\ stage = "encode" => encoder_loaded_
  /\ stage = "load_encoder" => ~encoder_loaded_
  /\ stage \notin LoadStages \cup {"idle"} => models_loaded_
  /\ stage \in {"batch_vocoder", "decode"} => call.mode = "batch"

\* Which call is in progress, and what it has collected.
CallInv ==
  /\ stage = "idle" => call = NoCall
  /\ (call.kind = "load") <=> (stage \in LoadStages)
  /\ stage \in {"load_encoder", "encode"} => call.kind \in {"clone", "extract"}
  /\ stage \in LoadStages \cup {"idle"} => tokens = NoTokens /\ voice = 0
  /\ tokens.vocab \in {{}, tokenizer_}
  /\ stage = "tokenizer" => \A key \in Texts : instruction_token_cache_[key] = NoTokens

\* After a load that succeeded everything is of the selected model.
LoadInv ==
  /\ call.kind = "load" => last_load = "none"
  /\ stage \in {"load_transformer", "load_vocoder", "finish_load"} => tts_model_path_ \in tokenizer_
  /\ last_load = "ok" =>
       /\ tts_model_path_ \in tokenizer_ /\ config = tts_model_path_
       /\ voice \in {0, HiddenSize[config]}

IInv ==
  /\ TypeOK /\ FlagsInv /\ StageInv /\ CallInv /\ LoadInv
  /\ CacheIsCurrent /\ BackendOutlivesUsers /\ LowMemoryHoldsOneModel
====
