---------------------------- MODULE WrapperProofs ----------------------------
(***************************************************************************)
(* Proofs about WrapperModels, for any set of models and of texts.         *)
(*                                                                         *)
(* Every step of the wrapper makes at most one step of the engine, so what *)
(* EngineProofs shows of the engine holds under the wrapper; WrapperInv    *)
(* then relates what the wrapper remembers to what the engine holds.       *)
(***************************************************************************)
EXTENDS WrapperModels, EngineProofs

\* A step of the engine while the wrapper waits for it.
EngineStep ==
  Continue \/ \E instruction \in Texts \cup {NoText} : TokeniseInstruction(instruction)

\* A model's name selects the model that a load of it opens.
LEMMA SelectedModel ==
  ASSUME DefaultAssumption, NEW name \in Models \cup {NoModel}
  PROVE  (IF name = NoModel THEN DefaultModel ELSE name) \in Models
BY DEF DefaultAssumption

\* What the wrapper asks of the engine is a call of the engine.
LEMMA WrapperStepsEngine ==
  ASSUME DefaultAssumption, WrapperInv, NextWrapper
  PROVE  [Next]_vars
<1>1. ASSUME NEW name \in Models \cup {NoModel}, LoadEngine(name)
      PROVE  Next
  BY <1>1, SelectedModel DEF LoadEngine, Next
<1>2. ASSUME NEW name \in Models \cup {NoModel}, Load(name)
      PROVE  [Next]_vars
  BY <1>2, <1>1 DEF Load
<1>3. CASE LoadReturns \/ LoadSpeakerEmbedding \/ RefuseRequest \/ EngineReturns
  <2>1. UNCHANGED vars
    BY <1>3 DEF LoadReturns, LoadSpeakerEmbedding, RefuseRequest, EngineReturns
  <2>2. QED BY <2>1
<1>4. ASSUME NEW c \in Options, Request(c)
      PROVE  [Next]_vars
  <2>1. c.model \in Models \cup {NoModel}
    BY DEF Options
  <2>2. UNCHANGED vars \/ LoadEngine(c.model)
    BY <1>4 DEF Request
  <2>3. QED BY <1>1, <2>1, <2>2
<1>5. CASE CallEngine
  <2>1. wrapper_call.mode \in Modes
    BY DEF WrapperInv, WrapperTypeOK, Options, Modes
  <2>2. speaker_embedding # 0 => speaker_embedding \in Dims
    BY DEF WrapperInv
  <2>3. Synthesize
    BY <1>5, <2>1, <2>2 DEF CallEngine, Synthesize
  <2>4. QED BY <2>3 DEF Next
<1>6. CASE DecodeAudioCodes
  BY <1>6 DEF DecodeAudioCodes, Next
<1>7. CASE EngineContinues
  <2>1. wrapper_call.instruction \in Texts \cup {NoText}
    BY DEF WrapperInv, WrapperTypeOK, Options
  <2>2. QED BY <1>7, <2>1 DEF EngineContinues, Next
<1>8. QED BY <1>2, <1>3, <1>4, <1>5, <1>6, <1>7 DEF NextWrapper

-----------------------------------------------------------------------------

\* A step of the engine keeps the selected model, and its call either goes on
\* or returns; only the return of a load says how the load ended.
LEMMA EngineStepKeeps ==
  ASSUME EngineStep
  PROVE  /\ stage # "idle"
         /\ UNCHANGED tts_model_path_
         /\ \/ \E how : Return(how)
            \/ call' = call /\ last_load' = last_load /\ stage' # "idle"
<1> USE DEF flags, request, GoTo
<1>1. CASE LoadTokenizer \/ LoadTokenizerFails
  BY <1>1 DEF LoadTokenizer, LoadTokenizerFails
<1>2. CASE TransformerLoads
  BY <1>2 DEF TransformerLoads, SpeechStage
<1>3. CASE TransformerLoadFails
  BY <1>3 DEF TransformerLoadFails
<1>4. CASE VocoderLoads
  BY <1>4 DEF VocoderLoads
<1>5. CASE VocoderLoadFails
  BY <1>5 DEF VocoderLoadFails
<1>6. CASE FinishLoad
  BY <1>6 DEF FinishLoad
<1>7. CASE ResolveSpeaker \/ SpeakerUnknown
  BY <1>7 DEF ResolveSpeaker, SpeakerUnknown
<1>8. CASE EncoderLoads \/ EncoderLoadFails
  BY <1>8 DEF EncoderLoads, EncoderLoadFails
<1>9. CASE EncodeVoiceFits \/ EncodeVoiceFails
  BY <1>9 DEF EncodeVoiceFits, EncodeVoiceFails
<1>10. CASE TokeniseFails
  BY <1>10 DEF TokeniseFails
<1>11. CASE Generate
  BY <1>11 DEF Generate
<1>12. CASE Decode \/ SpeechFails
  BY <1>12 DEF Decode, SpeechFails
<1>13. CASE Finish
  BY <1>13 DEF Finish
<1>14. CASE DecodeCodes
  BY <1>14 DEF DecodeCodes
<1>15. ASSUME NEW instruction \in Texts \cup {NoText}, TokeniseInstruction(instruction)
       PROVE  /\ stage # "idle"
              /\ UNCHANGED tts_model_path_
              /\ \/ \E how : Return(how)
                 \/ call' = call /\ last_load' = last_load /\ stage' # "idle"
  BY <1>15 DEF TokeniseInstruction, TokeniseCached, TokeniseUncached, AfterTokens,
    SpeechStage
<1>16. QED
  BY <1>1, <1>2, <1>3, <1>4, <1>5, <1>6, <1>7, <1>8, <1>9, <1>10, <1>11, <1>12, <1>13,
    <1>14, <1>15 DEF EngineStep, Continue

\* Decoding codes goes from the vocoder's load to the decode and back.
LEMMA DecodingStays ==
  ASSUME EngineStep, stage \in {"codes_vocoder", "decode_codes"}
  PROVE  stage' \in {"idle", "decode_codes"}
<1>1. CASE stage = "codes_vocoder"
  <2>1. VocoderLoads \/ VocoderLoadFails
    BY <1>1 DEF EngineStep, Continue, LoadTokenizer, LoadTokenizerFails, TransformerLoads,
      TransformerLoadFails, FinishLoad, ResolveSpeaker, SpeakerUnknown, EncoderLoads,
      EncoderLoadFails, EncodeVoiceFits, EncodeVoiceFails, TokeniseFails, Generate, Decode,
      SpeechFails, Finish, DecodeCodes, TokeniseInstruction
  <2>2. QED BY <1>1, <2>1 DEF VocoderLoads, VocoderLoadFails, GoTo, Return
<1>2. CASE stage = "decode_codes"
  <2>1. DecodeCodes
    BY <1>2 DEF EngineStep, Continue, LoadTokenizer, LoadTokenizerFails, TransformerLoads,
      TransformerLoadFails, VocoderLoads, VocoderLoadFails, FinishLoad, ResolveSpeaker,
      SpeakerUnknown, EncoderLoads, EncoderLoadFails, EncodeVoiceFits, EncodeVoiceFails,
      TokeniseFails, Generate, Decode, SpeechFails, Finish, TokeniseInstruction
  <2>2. QED BY <2>1 DEF DecodeCodes, Return
<1>3. QED BY <1>1, <1>2

\* Apart from the step that makes them, the speech stages keep the tokens.
LEMMA ContinueKeepsTokens ==
  ASSUME Continue, stage \notin LoadStages,
         stage' \in {"reload_transformer", "stream_vocoder", "generate"}
  PROVE  /\ stage \in {"reload_transformer", "stream_vocoder", "generate"}
         /\ UNCHANGED tokens
<1> USE DEF request, GoTo, Return
<1>1. CASE LoadTokenizer \/ LoadTokenizerFails
  BY <1>1 DEF LoadTokenizer, LoadTokenizerFails
<1>2. CASE TransformerLoads
  BY <1>2 DEF TransformerLoads, LoadStages
<1>3. CASE TransformerLoadFails
  BY <1>3 DEF TransformerLoadFails
<1>4. CASE VocoderLoads
  BY <1>4 DEF VocoderLoads, LoadStages
<1>5. CASE VocoderLoadFails
  BY <1>5 DEF VocoderLoadFails
<1>6. CASE FinishLoad
  BY <1>6 DEF FinishLoad
<1>7. CASE ResolveSpeaker \/ SpeakerUnknown
  BY <1>7 DEF ResolveSpeaker, SpeakerUnknown
<1>8. CASE EncoderLoads \/ EncoderLoadFails
  BY <1>8 DEF EncoderLoads, EncoderLoadFails
<1>9. CASE EncodeVoiceFits \/ EncodeVoiceFails
  BY <1>9 DEF EncodeVoiceFits, EncodeVoiceFails
<1>10. CASE TokeniseFails
  BY <1>10 DEF TokeniseFails
<1>11. CASE Generate
  BY <1>11 DEF Generate
<1>12. CASE Decode \/ SpeechFails
  BY <1>12 DEF Decode, SpeechFails
<1>13. CASE Finish
  BY <1>13 DEF Finish
<1>14. CASE DecodeCodes
  BY <1>14 DEF DecodeCodes
<1>15. QED
  BY <1>1, <1>2, <1>3, <1>4, <1>5, <1>6, <1>7, <1>8, <1>9, <1>10, <1>11, <1>12, <1>13,
    <1>14 DEF Continue

\* An instruction that is tokenised leaves tokens, unless the call returns.
LEMMA InstructionLeavesTokens ==
  ASSUME ModelAssumption, NEW instruction \in Texts, TokeniseInstruction(instruction),
         stage' # "idle"
  PROVE  tokens' # NoTokens
<1>1. [text |-> instruction, vocab |-> tokenizer_] # NoTokens
  BY DEF NoTokens, ModelAssumption
<1>2. ASSUME NEW key \in Texts, TokeniseCached(instruction, key)
      PROVE  tokens' # NoTokens
  BY <1>1, <1>2 DEF TokeniseCached, Return
<1>3. CASE TokeniseUncached(instruction)
  BY <1>1, <1>3 DEF TokeniseUncached, ModelAssumption
<1>4. QED BY <1>2, <1>3 DEF TokeniseInstruction

-----------------------------------------------------------------------------
(* Each part of WrapperInv survives each step.                             *)

\* The wrapper's variables keep their ranges.
LEMMA WrapperTypesStep ==
  ASSUME DefaultAssumption, IInv, WrapperInv, [NextWrapper]_all_vars, IInv'
  PROVE  WrapperTypeOK' /\ (speaker_embedding \in Dims \cup {0})'
<1> USE DEF WrapperInv, WrapperTypeOK, known, wrapper_vars, Answer, Enter
<1>1. TypeOK'
  BY DEF IInv
<1>2. Plain \in Options
  BY DEF Plain, Options
<1>3. ASSUME NEW name \in Models \cup {NoModel}
      PROVE  [Plain EXCEPT !.model = name] \in Options
  BY DEF Plain, Options
<1>4. ASSUME NEW name \in Models \cup {NoModel}, Load(name)
      PROVE  WrapperTypeOK' /\ (speaker_embedding \in Dims \cup {0})'
  BY <1>1, <1>2, <1>3, <1>4 DEF Load
<1>5. CASE LoadReturns
  <2>1. wrapper_call.model \in Models \cup {NoModel} /\ config \in Models \cup {NoModel}
    BY DEF Options, IInv, TypeOK, ComponentTypes
  <2>2. QED BY <1>1, <1>2, <1>5, <2>1 DEF LoadReturns
<1>6. CASE LoadSpeakerEmbedding
  <2>1. Dims \subseteq Nat
    BY ModelAssumption DEF Dims, ModelAssumption
  <2>2. speaker_embedding' \in Dims \cup {0}
    BY <1>6 DEF LoadSpeakerEmbedding
  <2>3. speaker_embedding' \in Nat
    BY <2>1, <2>2
  <2>4. wrapper' = "idle" /\ wrapper_call' \in Options /\ wrapper_reply' \in {"ok", "failed"}
    BY <1>2, <1>6 DEF LoadSpeakerEmbedding
  <2>5. UNCHANGED known
    BY <1>6 DEF LoadSpeakerEmbedding
  <2>6. QED BY <1>1, <2>2, <2>3, <2>4, <2>5
<1>7. ASSUME NEW c \in Options, Request(c)
      PROVE  WrapperTypeOK' /\ (speaker_embedding \in Dims \cup {0})'
  BY <1>1, <1>2, <1>7 DEF Request
<1>8. CASE CallEngine \/ RefuseRequest
  BY <1>1, <1>2, <1>8 DEF CallEngine, RefuseRequest
<1>9. CASE DecodeAudioCodes \/ EngineReturns
  BY <1>1, <1>2, <1>9 DEF DecodeAudioCodes, EngineReturns
<1>10. CASE EngineContinues \/ UNCHANGED all_vars
  BY <1>1, <1>10 DEF EngineContinues, all_vars
<1>11. QED
  BY <1>4, <1>5, <1>6, <1>7, <1>8, <1>9, <1>10 DEF NextWrapper

\* The wrapper waits where its call can be.
LEMMA WaitsStep ==
  ASSUME IInv, WrapperInv, [NextWrapper]_all_vars, IInv'
  PROVE  WaitsInv'
<1> USE DEF WrapperInv, WaitsInv, wrapper_vars, Answer, Enter
<1>1. ASSUME NEW name \in Models \cup {NoModel}, LoadEngine(name)
      PROVE  stage' \in LoadStages
  BY <1>1 DEF LoadEngine, BeginLoad, LoadStages
<1>2. ASSUME NEW name \in Models \cup {NoModel}, Load(name)
      PROVE  WaitsInv'
  BY <1>1, <1>2 DEF Load, vars
<1>3. CASE LoadReturns \/ LoadSpeakerEmbedding \/ RefuseRequest
  BY <1>3 DEF LoadReturns, LoadSpeakerEmbedding, RefuseRequest, vars
<1>4. ASSUME NEW c \in Options, Request(c)
      PROVE  WaitsInv'
  <2>1. c.model \in Models \cup {NoModel}
    BY DEF Options
  <2>2. QED BY <1>1, <1>4, <2>1 DEF Request, vars
<1>5. CASE CallEngine
  BY <1>5 DEF CallEngine, SynthesizeWithEmbedding, SynthesizeNamed, SynthesizeDefault,
    Begin, GoTo, Refuse, LoadStages
<1>6. CASE DecodeAudioCodes
  BY <1>6 DEF DecodeAudioCodes, DecodeBatch, RefuseAtOnce, Begin, GoTo, Refuse
<1>7. CASE EngineReturns
  BY <1>7 DEF EngineReturns, vars
<1>8. CASE EngineContinues
  <2>1. EngineStep
    BY <1>8 DEF EngineContinues, EngineStep, WrapperTypeOK, Options
  <2>2. /\ stage # "idle" /\ UNCHANGED wrapper_vars
        /\ (call' = call \/ stage' = "idle")
    BY <1>8, <2>1, EngineStepKeeps DEF EngineContinues, Return
  <2>3. stage' # "idle" => (stage' \in LoadStages <=> stage \in LoadStages)
    BY <2>2 DEF IInv, CallInv
  <2>4. "idle" \notin LoadStages
    BY DEF LoadStages
  <2>5. QED BY <2>1, <2>2, <2>3, <2>4, DecodingStays
<1>9. CASE UNCHANGED all_vars
  BY <1>9 DEF all_vars, vars
<1>10. QED
  BY <1>2, <1>3, <1>4, <1>5, <1>6, <1>7, <1>8, <1>9 DEF NextWrapper

\* A load the wrapper began is of the model it asked for.
LEMMA AskedStep ==
  ASSUME IInv, WrapperInv, [NextWrapper]_all_vars, IInv'
  PROVE  AskedInv'
<1> USE DEF WrapperInv, WaitsInv, AskedInv, wrapper_vars, Answer, Enter
<1>1. ASSUME NEW name \in Models \cup {NoModel}, LoadEngine(name)
      PROVE  name \in {NoModel, tts_model_path_'} /\ stage' # "idle"
  BY <1>1 DEF LoadEngine, BeginLoad
<1>2. ASSUME NEW name \in Models \cup {NoModel}, Load(name)
      PROVE  AskedInv'
  BY <1>1, <1>2 DEF Load, Plain
<1>3. CASE LoadReturns \/ LoadSpeakerEmbedding \/ RefuseRequest
  BY <1>3 DEF LoadReturns, LoadSpeakerEmbedding, RefuseRequest
<1>4. ASSUME NEW c \in Options, Request(c)
      PROVE  AskedInv'
  <2>1. c.model \in Models \cup {NoModel}
    BY DEF Options
  <2>2. QED BY <1>1, <1>4, <2>1 DEF Request
<1>5. CASE CallEngine \/ DecodeAudioCodes \/ EngineReturns
  BY <1>5 DEF CallEngine, DecodeAudioCodes, EngineReturns
<1>6. CASE EngineContinues
  <2>1. SUFFICES ASSUME wrapper \in {"loading", "switching"}
                 PROVE  AskedInv'
    BY <1>6 DEF EngineContinues
  <2>2. EngineStep /\ UNCHANGED wrapper_vars
    BY <1>6 DEF EngineContinues, EngineStep, WrapperTypeOK, Options
  <2>3. UNCHANGED tts_model_path_ /\ call.kind = "load"
    BY <2>1, <2>2, EngineStepKeeps DEF IInv, CallInv
  <2>4. stage' = "idle" => reply' = last_load'
    BY <2>2, <2>3, EngineStepKeeps DEF Return
  <2>5. QED BY <2>1, <2>2, <2>3, <2>4
<1>7. CASE UNCHANGED all_vars
  BY <1>7 DEF all_vars, vars, flags
<1>8. QED
  BY <1>2, <1>3, <1>4, <1>5, <1>6, <1>7 DEF NextWrapper

\* A request passes its checks before the engine has it, and they stay true.
LEMMA PassedStep ==
  ASSUME ModelAssumption, IInv, WrapperInv, [NextWrapper]_all_vars, IInv'
  PROVE  PassedInv'
<1> USE DEF WrapperInv, WaitsInv, PassedInv, wrapper_vars, Answer, Enter
<1>1. ASSUME NEW name \in Models \cup {NoModel}, Load(name)
      PROVE  PassedInv'
  BY <1>1 DEF Load
<1>2. CASE LoadReturns \/ LoadSpeakerEmbedding \/ RefuseRequest
  BY <1>2 DEF LoadReturns, LoadSpeakerEmbedding, RefuseRequest
<1>3. ASSUME NEW c \in Options, Request(c)
      PROVE  PassedInv'
  BY <1>3 DEF Request
<1>4. CASE CallEngine
  <2>1. wrapper_call' = wrapper_call /\ UNCHANGED <<known, speaker_embedding>>
    BY <1>4 DEF CallEngine
  <2>2. ~Unacceptable(wrapper_call)
    BY <1>4 DEF CallEngine
  <2>3. ~Unacceptable(wrapper_call)'
    BY <2>1, <2>2 DEF Unacceptable, known
  <2>4. stage' \in {"idle", "tokenise", "speaker"}
    BY <1>4 DEF CallEngine, SynthesizeWithEmbedding, SynthesizeNamed, SynthesizeDefault,
      Begin, GoTo, Refuse
  <2>5. QED BY <2>3, <2>4
<1>5. CASE DecodeAudioCodes \/ EngineReturns
  BY <1>5 DEF DecodeAudioCodes, EngineReturns
<1>6. CASE EngineContinues
  <2>1. SUFFICES ASSUME wrapper = "engine"
                 PROVE  PassedInv'
    BY <1>6 DEF EngineContinues
  <2>2. EngineStep /\ UNCHANGED wrapper_vars
    BY <1>6 DEF EngineContinues, EngineStep, WrapperTypeOK, Options
  <2>3. ~Unacceptable(wrapper_call)'
    BY <2>1, <2>2 DEF Unacceptable, known
  <2>4. ASSUME stage' \in {"reload_transformer", "stream_vocoder", "generate"},
               wrapper_call.instruction # NoText
        PROVE  tokens' # NoTokens
    <3>1. wrapper_call.instruction \in Texts
      BY <2>4 DEF WrapperTypeOK, Options
    <3>2. CASE TokeniseInstruction(wrapper_call.instruction)
      BY <2>4, <3>1, <3>2, InstructionLeavesTokens
    <3>3. CASE Continue
      <4>1. stage \in {"reload_transformer", "stream_vocoder", "generate"} /\ UNCHANGED tokens
        BY <2>1, <2>4, <3>3, ContinueKeepsTokens
      <4>2. QED BY <2>1, <2>4, <4>1
    <3>4. QED BY <1>6, <3>2, <3>3 DEF EngineContinues
  <2>5. QED BY <2>2, <2>3, <2>4
<1>7. CASE UNCHANGED all_vars
  BY <1>7 DEF all_vars, vars, request, known, Unacceptable
<1>8. QED
  BY <1>1, <1>2, <1>3, <1>4, <1>5, <1>6, <1>7 DEF NextWrapper

\* The wrapper learns of every load that succeeds, and of no other.
LEMMA KnowsStep ==
  ASSUME IInv, WrapperInv, [NextWrapper]_all_vars, IInv'
  PROVE  WrapperKnowsTheModel'
<1> USE DEF WrapperInv, WaitsInv, WrapperKnowsTheModel, known, wrapper_vars, Answer, Enter
<1>1. ASSUME NEW name \in Models \cup {NoModel}, Load(name)
      PROVE  WrapperKnowsTheModel'
  BY <1>1 DEF Load, vars, flags
<1>2. CASE LoadReturns
  <2>1. UNCHANGED <<stage, reply, last_load, tts_model_path_, config>>
    BY <1>2 DEF LoadReturns, vars, flags, speech
  <2>2. last_load = "ok" => reply = "ok" /\ config = tts_model_path_
    BY <1>2 DEF LoadReturns, AskedInv, IInv, LoadInv
  <2>3. wrapper_call.model \in {NoModel, tts_model_path_}
    BY <1>2 DEF LoadReturns, AskedInv
  <2>4. QED BY <1>2, <2>1, <2>2, <2>3 DEF LoadReturns
<1>3. CASE LoadSpeakerEmbedding \/ RefuseRequest \/ EngineReturns
  BY <1>3 DEF LoadSpeakerEmbedding, RefuseRequest, EngineReturns, vars, flags
<1>4. ASSUME NEW c \in Options, Request(c)
      PROVE  WrapperKnowsTheModel'
  BY <1>4 DEF Request, vars, flags
<1>5. CASE CallEngine
  BY <1>5 DEF CallEngine, SynthesizeWithEmbedding, SynthesizeNamed, SynthesizeDefault,
    Begin, GoTo, Refuse, flags
<1>6. CASE DecodeAudioCodes
  BY <1>6 DEF DecodeAudioCodes, DecodeBatch, RefuseAtOnce, Begin, GoTo, Refuse, flags
<1>7. CASE EngineContinues
  <2>1. EngineStep /\ UNCHANGED wrapper_vars
    BY <1>7 DEF EngineContinues, EngineStep, WrapperTypeOK, Options
  <2>2. UNCHANGED tts_model_path_
    BY <2>1, EngineStepKeeps
  <2>3. wrapper \notin {"loading", "switching"} => UNCHANGED last_load
    <3>1. SUFFICES ASSUME wrapper \notin {"loading", "switching"}
                   PROVE  UNCHANGED last_load
      OBVIOUS
    <3>2. stage \notin LoadStages
      BY <2>1, <3>1, EngineStepKeeps DEF WrapperTypeOK, LoadStages
    <3>3. call.kind # "load"
      BY <3>2 DEF IInv, CallInv
    <3>4. QED BY <2>1, <3>3, EngineStepKeeps DEF Return
  <2>4. QED BY <2>1, <2>2, <2>3
<1>8. CASE UNCHANGED all_vars
  BY <1>8 DEF all_vars, vars, flags
<1>9. QED
  BY <1>1, <1>2, <1>3, <1>4, <1>5, <1>6, <1>7, <1>8 DEF NextWrapper

-----------------------------------------------------------------------------

\* A new wrapper satisfies the invariant.
LEMMA InitWrapperInv ==
  ASSUME IInv, InitWrapper
  PROVE  WrapperInv
<1> USE DEF InitWrapper
<1>1. Plain \in Options
  BY DEF Plain, Options
<1>2. WrapperTypeOK
  BY <1>1 DEF WrapperTypeOK, IInv
<1>3. WaitsInv /\ AskedInv /\ PassedInv
  BY DEF WaitsInv, AskedInv, PassedInv, Init
<1>4. WrapperKnowsTheModel
  BY DEF WrapperKnowsTheModel, Init
<1>5. QED BY <1>2, <1>3, <1>4 DEF WrapperInv

\* The wrapper makes only calls of the engine that EngineModels covers, so what
\* is proved of the engine holds under the wrapper; and its own invariant holds.
LEMMA WrapperAndEngine == SpecWrapper => [](IInv /\ WrapperInv) /\ Spec
<1>1. InitWrapper => Init /\ IInv /\ WrapperInv
  BY InitIInv, InitWrapperInv, ModelAssumption DEF InitWrapper
<1>2. IInv /\ WrapperInv /\ [NextWrapper]_all_vars => [Next]_vars /\ (IInv /\ WrapperInv)'
  <2>1. SUFFICES ASSUME IInv, WrapperInv, [NextWrapper]_all_vars
                 PROVE  [Next]_vars /\ IInv' /\ WrapperInv'
    OBVIOUS
  <2>2. [Next]_vars
    BY <2>1, WrapperStepsEngine, DefaultAssumption DEF all_vars
  <2>3. IInv'
    BY <2>1, <2>2, StepIInv, ModelAssumption
  <2>4. WrapperTypeOK' /\ (speaker_embedding \in Dims \cup {0})'
    BY <2>1, <2>3, WrapperTypesStep, DefaultAssumption
  <2>5. WaitsInv' /\ AskedInv' /\ PassedInv' /\ WrapperKnowsTheModel'
    BY <2>1, <2>3, WaitsStep, AskedStep, PassedStep, KnowsStep, ModelAssumption
  <2>6. QED BY <2>2, <2>3, <2>4, <2>5 DEF WrapperInv
<1>3. QED BY <1>1, <1>2, PTL DEF SpecWrapper, Spec

\* The wrapper uses its engine as EngineModels says an application may.
THEOREM UsesTheEngine == SpecWrapper => Spec
BY WrapperAndEngine, PTL

\* Every variable of the wrapper and of its engine keeps its range.
THEOREM WrapperTyping == SpecWrapper => []WrapperTypeOK
<1>1. WrapperInv => WrapperTypeOK
  BY DEF WrapperInv
<1>2. QED BY <1>1, WrapperAndEngine, PTL

\* After a successful load, whatever failed before and since, the wrapper
\* answers with the name and the capabilities of the model in the engine.
THEOREM KnowsTheModel == SpecWrapper => []WrapperKnowsTheModel
<1>1. WrapperInv => WrapperKnowsTheModel
  BY DEF WrapperInv
<1>2. QED BY <1>1, WrapperAndEngine, PTL

\* The voice-design checks are made against the model that speaks.
THEOREM DesignStaysInstructed == SpecWrapper => []DesignIsInstructed
<1>1. IInv /\ WrapperInv => DesignIsInstructed
  <2>1. SUFFICES ASSUME IInv, WrapperInv, last_load = "ok", stage = "generate"
                 PROVE  /\ ModelType[transformer_] = "voice_design" =>
                             tokens # NoTokens /\ speaker_embedding = 0
                        /\ wrapper_call.voice_design => ModelType[transformer_] = "voice_design"
    BY DEF DesignIsInstructed
  <2>2. wrapper = "engine"
    BY <2>1 DEF WrapperInv, WrapperTypeOK, WaitsInv, LoadStages
  <2>3. ~Unacceptable(wrapper_call) /\ (wrapper_call.instruction # NoText => tokens # NoTokens)
    BY <2>1, <2>2 DEF WrapperInv, PassedInv
  <2>4. transformer_ = tts_model_path_ /\ tts_model_path_ \in Models
    BY <2>1 DEF IInv, StageInv, FlagsInv, LoadStages
  <2>5. caps = transformer_ /\ caps # NoModel
    BY <2>1, <2>2, <2>4, ModelAssumption DEF WrapperInv, WrapperKnowsTheModel, ModelAssumption
  <2>6. QED BY <2>3, <2>5 DEF Unacceptable
<1>2. QED BY <1>1, WrapperAndEngine, PTL

-----------------------------------------------------------------------------
(* When a request is spoken by the model it names: a run shows that it may *)
(* not be after a load that failed; after one that succeeded it always is. *)

\* What a request names is selected, once the wrapper has accepted its model.
RequestInv ==
  wrapper \in {"checks", "engine"} /\ last_load = "ok" =>
    wrapper_call.model \in {NoModel, tts_model_path_}

\* Each step of the wrapper and of its engine keeps the request's model selected.
LEMMA RequestStep ==
  ASSUME IInv, WrapperInv, RequestInv, [NextWrapper]_all_vars
  PROVE  RequestInv'
<1> USE DEF WrapperInv, WaitsInv, RequestInv, known, wrapper_vars, Answer, Enter
<1>1. ASSUME NEW name \in Models \cup {NoModel}, Load(name)
      PROVE  RequestInv'
  BY <1>1 DEF Load
<1>2. CASE LoadReturns
  <2>1. UNCHANGED <<last_load, tts_model_path_>>
    BY <1>2 DEF LoadReturns, vars, flags
  <2>2. wrapper_call.model \in {NoModel, tts_model_path_}
    BY <1>2 DEF LoadReturns, AskedInv
  <2>3. QED BY <1>2, <2>1, <2>2 DEF LoadReturns
<1>3. CASE LoadSpeakerEmbedding \/ RefuseRequest \/ EngineReturns
  BY <1>3 DEF LoadSpeakerEmbedding, RefuseRequest, EngineReturns
<1>4. ASSUME NEW c \in Options, Request(c)
      PROVE  RequestInv'
  <2>1. SUFFICES ASSUME wrapper' = "checks", last_load' = "ok"
                 PROVE  wrapper_call'.model \in {NoModel, tts_model_path_'}
    BY <1>4 DEF Request
  <2>2. c.model \in {NoModel, loaded_model_name} /\ wrapper_call' = c /\ UNCHANGED vars
    BY <1>4, <2>1 DEF Request
  <2>3. loaded_model_name \in {NoModel, tts_model_path_}
    BY <1>4, <2>1, <2>2 DEF Request, WrapperKnowsTheModel, vars
  <2>4. QED BY <2>2, <2>3 DEF vars, flags
<1>5. CASE CallEngine
  BY <1>5 DEF CallEngine, SynthesizeWithEmbedding, SynthesizeNamed, SynthesizeDefault,
    Begin, GoTo, Refuse, flags
<1>6. CASE DecodeAudioCodes
  BY <1>6 DEF DecodeAudioCodes
<1>7. CASE EngineContinues
  <2>1. EngineStep /\ UNCHANGED wrapper_vars
    BY <1>7 DEF EngineContinues, EngineStep, WrapperTypeOK, Options
  <2>2. stage # "idle" /\ UNCHANGED tts_model_path_
    BY <2>1, EngineStepKeeps
  <2>3. wrapper = "engine" => UNCHANGED last_load
    <3>1. SUFFICES ASSUME wrapper = "engine" PROVE UNCHANGED last_load
      OBVIOUS
    <3>2. call.kind # "load"
      BY <3>1 DEF IInv, CallInv
    <3>3. QED BY <2>1, <3>2, EngineStepKeeps DEF Return
  <2>4. QED BY <2>1, <2>2, <2>3
<1>8. CASE UNCHANGED all_vars
  BY <1>8 DEF all_vars, vars, flags
<1>9. QED
  BY <1>1, <1>2, <1>3, <1>4, <1>5, <1>6, <1>7, <1>8 DEF NextWrapper

\* After a load that succeeded a request that names a model is spoken by it,
\* whatever switches and failures came before.
THEOREM SwitchesAreHonoured == SpecWrapper => [](last_load = "ok" => RequestedModelSpeaks)
<1>1. InitWrapper => RequestInv
  BY DEF InitWrapper, RequestInv
<1>2. IInv /\ WrapperInv /\ RequestInv /\ [NextWrapper]_all_vars => RequestInv'
  BY RequestStep
<1>3. IInv /\ WrapperInv /\ RequestInv => (last_load = "ok" => RequestedModelSpeaks)
  <2>1. SUFFICES ASSUME IInv, WrapperInv, RequestInv, last_load = "ok",
                        stage = "generate", wrapper_call.model # NoModel
                 PROVE  transformer_ = wrapper_call.model
    BY DEF RequestedModelSpeaks
  <2>2. wrapper = "engine"
    BY <2>1 DEF WrapperInv, WrapperTypeOK, WaitsInv, LoadStages
  <2>3. transformer_ = tts_model_path_
    BY <2>1 DEF IInv, StageInv, FlagsInv
  <2>4. QED BY <2>1, <2>2, <2>3 DEF RequestInv
<1>4. QED BY <1>1, <1>2, <1>3, WrapperAndEngine, PTL DEF SpecWrapper
==============================================================================
