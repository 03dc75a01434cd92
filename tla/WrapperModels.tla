---------------------------- MODULE WrapperModels ----------------------------
(***************************************************************************)
(* The integration library, Qwen3StreamingTts (Qwen3StreamingTts.cpp): it  *)
(* owns an engine, remembers the name and the capabilities of the model it *)
(* loaded, and loads another one when a request names it.                  *)
(*                                                                         *)
(* Composes with EngineModels: every call of the wrapper starts a call of  *)
(* the engine, whose steps are EngineModels', and returns when it returns. *)
(***************************************************************************)
EXTENDS EngineModels

CONSTANT DefaultModel   \* what load_models finds for an empty name

ASSUME DefaultAssumption == DefaultModel \in Models

VARIABLES
  model_dir,           \* a directory was remembered
  loaded_model_name,   \* NoModel for the empty name
  caps,                \* the model whose capabilities were converted
  speaker_embedding,   \* floats in the stored embedding
  wrapper, wrapper_call, wrapper_reply

known == <<model_dir, loaded_model_name, caps>>
wrapper_vars == <<known, speaker_embedding, wrapper, wrapper_call, wrapper_reply>>
all_vars == <<vars, wrapper_vars>>

Options ==
  [model : Models \cup {NoModel}, mode : {"stream", "defer"},
   instruction : Texts \cup {NoText}, voice_design : BOOLEAN, speaker : BOOLEAN]

Plain == [model |-> NoModel, mode |-> "stream", instruction |-> NoText,
          voice_design |-> FALSE, speaker |-> FALSE]

InitWrapper ==
  /\ Init
  /\ model_dir = FALSE /\ loaded_model_name = NoModel /\ caps = NoModel
  /\ speaker_embedding = 0
  /\ wrapper = "idle" /\ wrapper_call = Plain /\ wrapper_reply = "none"

Answer(how) ==
  /\ wrapper' = "idle"
  /\ wrapper_call' = Plain
  /\ wrapper_reply' = how

Enter(where, c) ==
  /\ wrapper' = where
  /\ wrapper_call' = c
  /\ wrapper_reply' = "none"

LoadEngine(name) ==
  \E low_mem \in BOOLEAN : BeginLoad(IF name = NoModel THEN DefaultModel ELSE name, low_mem)

-----------------------------------------------------------------------------

\* load: a directory that does not exist ends it.
Load(name) ==
  /\ wrapper = "idle"
  /\ \/ LoadEngine(name) /\ Enter("loading", [Plain EXCEPT !.model = name])
     \/ Answer("failed") /\ UNCHANGED vars
  /\ UNCHANGED <<known, speaker_embedding>>

\* Mutant: a switch keeps the capabilities of the model before it.
LoadReturnsOldCaps ==
  /\ wrapper \in {"loading", "switching"}
  /\ stage = "idle"
  /\ IF reply = "ok"
     THEN /\ model_dir' = TRUE
          /\ loaded_model_name' = wrapper_call.model
          /\ IF wrapper = "loading" THEN caps' = config /\ Answer("ok")
             ELSE UNCHANGED caps /\ Enter("checks", wrapper_call)
     ELSE Answer("failed") /\ UNCHANGED known
  /\ UNCHANGED <<vars, speaker_embedding>>

\* What was loaded is remembered only when the engine's load succeeded; a
\* switch then goes on with the request.
LoadReturns ==
  /\ wrapper \in {"loading", "switching"}
  /\ stage = "idle"
  /\ IF reply = "ok"
     THEN /\ model_dir' = TRUE
          /\ loaded_model_name' = wrapper_call.model
          /\ caps' = config
          /\ IF wrapper = "loading" THEN Answer("ok") ELSE Enter("checks", wrapper_call)
     ELSE Answer("failed") /\ UNCHANGED known
  /\ UNCHANGED <<vars, speaker_embedding>>

\* load_speaker_embedding: an empty path clears the stored embedding, a bad
\* file leaves it.
LoadSpeakerEmbedding ==
  /\ wrapper = "idle"
  /\ \/ speaker_embedding' \in Dims \cup {0} /\ Answer("ok")
     \/ Answer("failed") /\ UNCHANGED speaker_embedding
  /\ UNCHANGED <<vars, known>>

\* synthesize_streaming and generate_audio_codes: load first when the request
\* names another model.
Request(c) ==
  /\ wrapper = "idle"
  /\ IF ~models_loaded_ THEN Answer("failed") /\ UNCHANGED vars
     ELSE IF c.model \in {NoModel, loaded_model_name}
          THEN Enter("checks", c) /\ UNCHANGED vars
          ELSE \/ model_dir /\ LoadEngine(c.model) /\ Enter("switching", c)
               \/ Answer("failed") /\ UNCHANGED vars
  /\ UNCHANGED <<known, speaker_embedding>>

\* Mutant: the request is taken at its word about voice design.
UnacceptableAsAsked(c) ==
  /\ c.voice_design
  /\ c.instruction = NoText \/ speaker_embedding # 0

\* The checks that depend on the kind of model, as far as the wrapper knows it.
Unacceptable(c) ==
  LET design == caps # NoModel /\ ModelType[caps] = "voice_design" IN
  \/ c.voice_design /\ ~design
  \/ design /\ c.instruction = NoText
  \/ design /\ speaker_embedding # 0

CallEngine ==
  LET c == wrapper_call IN
  /\ wrapper = "checks"
  /\ ~Unacceptable(c)
  /\ IF speaker_embedding # 0 THEN SynthesizeWithEmbedding(c.mode, speaker_embedding)
     ELSE IF c.speaker THEN SynthesizeNamed(c.mode)
     ELSE SynthesizeDefault(c.mode)
  /\ Enter("engine", c)
  /\ UNCHANGED <<known, speaker_embedding>>

RefuseRequest ==
  /\ wrapper = "checks"
  /\ Unacceptable(wrapper_call)
  /\ Answer("failed")
  /\ UNCHANGED <<vars, known, speaker_embedding>>

\* decode_audio_codes_batch
DecodeAudioCodes ==
  /\ wrapper = "idle"
  /\ DecodeBatch \/ RefuseAtOnce
  /\ Enter("decoding", Plain)
  /\ UNCHANGED <<known, speaker_embedding>>

\* The engine's call returned; after synthesis writing the WAV file may still
\* fail, or the codes may be empty.
EngineReturns ==
  /\ wrapper \in {"engine", "decoding"}
  /\ stage = "idle"
  /\ \/ Answer(IF reply = "ok" THEN "ok" ELSE "failed")
     \/ wrapper = "engine" /\ Answer("failed")
  /\ UNCHANGED <<vars, known, speaker_embedding>>

EngineContinues ==
  /\ wrapper # "idle"
  /\ Continue \/ TokeniseInstruction(wrapper_call.instruction)
  /\ UNCHANGED wrapper_vars

NextWrapper ==
  \/ \E name \in Models \cup {NoModel} : Load(name)
  \/ LoadReturns
  \/ LoadSpeakerEmbedding
  \/ \E c \in Options : Request(c)
  \/ CallEngine \/ RefuseRequest \/ DecodeAudioCodes \/ EngineReturns
  \/ EngineContinues

SpecWrapper == InitWrapper /\ [][NextWrapper]_all_vars

-----------------------------------------------------------------------------
(* Properties                                                              *)

WrapperTypeOK ==
  /\ TypeOK
  /\ model_dir \in BOOLEAN
  /\ loaded_model_name \in Models \cup {NoModel} /\ caps \in Models \cup {NoModel}
  /\ speaker_embedding \in Nat
  /\ wrapper \in {"idle", "loading", "switching", "checks", "engine", "decoding"}
  /\ wrapper_call \in Options
  /\ wrapper_reply \in {"none", "ok", "failed"}

\* When the last load succeeded, the name and the capabilities the wrapper
\* answers with and checks requests against are those of the model in the
\* engine, whatever failed before and since.
WrapperKnowsTheModel ==
  last_load = "ok" /\ wrapper \notin {"loading", "switching"} =>
    /\ caps = tts_model_path_
    /\ loaded_model_name \in {NoModel, tts_model_path_}

\* When the last load succeeded, a voice-design model speaks only with an
\* instruction and without a stored embedding, and a request that asks for
\* voice design is spoken by such a model: the checks see the model switched to.
DesignIsInstructed ==
  last_load = "ok" /\ stage = "generate" =>
    /\ ModelType[transformer_] = "voice_design" => tokens # NoTokens /\ speaker_embedding = 0
    /\ wrapper_call.voice_design => ModelType[transformer_] = "voice_design"

\* "loads the selected model immediately and reuses it until another model is
\* requested" (docs/architecture.md): a request that names a model is spoken
\* by that model.
RequestedModelSpeaks ==
  stage = "generate" /\ wrapper_call.model # NoModel => transformer_ = wrapper_call.model

-----------------------------------------------------------------------------
(* The inductive invariant                                                 *)

\* Where the engine can be while the wrapper waits for it.
WaitsInv ==
  /\ wrapper \in {"idle", "checks"} => stage = "idle"
  /\ wrapper \in {"loading", "switching"} => stage \in LoadStages \cup {"idle"}
  /\ wrapper = "engine" => stage \notin LoadStages
  /\ wrapper = "decoding" => stage \in {"idle", "codes_vocoder", "decode_codes"}

\* A load in progress is of the model the wrapper asked for.
AskedInv ==
  wrapper \in {"loading", "switching"} =>
    /\ wrapper_call.model \in {NoModel, tts_model_path_}
    /\ stage = "idle" => (reply = "ok" <=> last_load = "ok")

\* A request in the engine passed the checks, and after the instruction was
\* tokenised it has tokens.
PassedInv ==
  wrapper = "engine" =>
    /\ ~Unacceptable(wrapper_call)
    /\ stage \in {"reload_transformer", "stream_vocoder", "generate"}
       /\ wrapper_call.instruction # NoText => tokens # NoTokens

WrapperInv ==
  /\ WrapperTypeOK
  /\ speaker_embedding \in Dims \cup {0}
  /\ WaitsInv /\ AskedInv /\ PassedInv
  /\ WrapperKnowsTheModel
====
