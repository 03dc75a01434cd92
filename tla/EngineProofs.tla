----------------------------- MODULE EngineProofs -----------------------------
(***************************************************************************)
(* Proofs about EngineModels, for any set of models and of texts.          *)
(*                                                                         *)
(* Every call ends in one of a few ways and starts in one: NextCases names *)
(* them once, and each conjunct of IInv is then shown to survive each case.*)
(***************************************************************************)
EXTENDS EngineModels, TLAPS

\* A request that passed the checks of its entry point.
Starts ==
  \E c \in SynthesisCalls \cup OtherCalls,
     next \in {"tokenise", "speaker", "encode", "load_encoder", "decode_codes", "codes_vocoder"} :
    /\ Begin(c, next)
    /\ c.kind \notin {"none", "load"}
    /\ voice' \in {voice, HiddenSize[config]}
    /\ next = "encode" => encoder_loaded_
    /\ next = "load_encoder" => ~encoder_loaded_
    /\ next \in {"encode", "load_encoder"} => c.kind \in {"clone", "extract"}
    /\ next = "decode_codes" => decoder_loaded_
    /\ next = "codes_vocoder" => ~decoder_loaded_

\* A call that returns without changing a component.
Ends ==
  \E how \in {"ok", "failed", "model not loaded"} :
    /\ stage # "idle"
    /\ Return(how)
    /\ call.kind = "load" => how = "failed"
    /\ UNCHANGED <<flags, instruction_token_cache_, tokenizer_, speech, vocoder,
                   cloner, ref_count>>

\* The embedding of a reference voice fits the model.
VoiceEncoded ==
  /\ stage = "encode" /\ call.kind = "clone"
  /\ EncoderDim[encoder_] = HiddenSize[config]
  /\ voice' = EncoderDim[encoder_]
  /\ GoTo("tokenise")
  /\ UNCHANGED <<flags, instruction_token_cache_, tokenizer_, speech, vocoder,
                 cloner, ref_count, call, tokens>>


\* Every step of the engine is one of these.
LEMMA NextCases ==
  ASSUME IInv, Next
  PROVE  \/ \E m \in Models, low_mem \in BOOLEAN : BeginLoad(m, low_mem)
         \/ Refuse \/ Starts \/ Ends \/ VoiceEncoded
         \/ LoadTokenizer \/ TransformerLoads \/ TransformerLoadFails
         \/ VocoderLoads \/ VocoderLoadFails \/ FinishLoad
         \/ ResolveSpeaker \/ EncoderLoads \/ EncoderLoadFails
         \/ \E instruction \in Texts \cup {NoText} : TokeniseInstruction(instruction)
         \/ Generate \/ Decode \/ Finish
<1>1. ASSUME NEW mode \in Modes, SynthesizeDefault(mode)
      PROVE  Starts \/ Refuse
  <2>1. CASE ModelType[config] # "custom_voice"
             /\ Begin([kind |-> "default", mode |-> mode], "tokenise") /\ UNCHANGED voice
    BY <2>1 DEF Starts, SynthesisCalls, Kinds
  <2>2. CASE Refuse
    BY <2>2
  <2>3. QED BY <1>1, <2>1 DEF SynthesizeDefault
<1>2. ASSUME NEW mode \in Modes, SynthesizeNamed(mode)
      PROVE  Starts
  BY <1>2 DEF SynthesizeNamed, Starts, SynthesisCalls, Kinds
<1>3. ASSUME NEW mode \in Modes, NEW dim \in Dims, SynthesizeWithEmbedding(mode, dim)
      PROVE  Starts \/ Refuse
  <2>1. CASE dim = HiddenSize[config]
             /\ Begin([kind |-> "embedding", mode |-> mode], "tokenise") /\ voice' = dim
    BY <2>1 DEF Starts, SynthesisCalls, Kinds
  <2>2. CASE Refuse
    BY <2>2
  <2>3. QED BY <1>3, <2>1 DEF SynthesizeWithEmbedding
<1>4. ASSUME NEW c \in SynthesisCalls \cup OtherCalls, c.kind \in {"clone", "extract"}, EncodeVoice(c)
      PROVE  Starts
  BY <1>4 DEF EncodeVoice, Starts
<1>5. ASSUME DecodeBatch PROVE Starts
  <2>1. [kind |-> "decode", mode |-> "none"] \in SynthesisCalls \cup OtherCalls
    BY DEF OtherCalls
  <2>2. QED BY <1>5, <2>1 DEF DecodeBatch, Starts
<1>6. CASE Synthesize
  <2>1. PICK mode \in Modes : \/ SynthesizeDefault(mode)
                              \/ SynthesizeNamed(mode)
                              \/ \E dim \in Dims : SynthesizeWithEmbedding(mode, dim)
                              \/ EncodeVoice([kind |-> "clone", mode |-> mode])
    BY <1>6 DEF Synthesize
  <2>2. [kind |-> "clone", mode |-> mode] \in SynthesisCalls \cup OtherCalls
    BY DEF SynthesisCalls, Kinds
  <2>3. QED BY <2>1, <2>2, <1>1, <1>2, <1>3, <1>4
<1>7. CASE EncodeVoice([kind |-> "extract", mode |-> "none"])
  <2>1. [kind |-> "extract", mode |-> "none"] \in SynthesisCalls \cup OtherCalls
    BY DEF OtherCalls
  <2>2. QED BY <1>7, <2>1, <1>4
<1>8. CASE Continue
  <2>1. CASE LoadTokenizerFails
    BY <2>1 DEF LoadTokenizerFails, Ends
  <2>2. CASE SpeakerUnknown
    BY <2>2 DEF SpeakerUnknown, Ends, IInv, CallInv, LoadStages
  <2>3. CASE EncodeVoiceFits
    <3>1. CASE call.kind = "extract" /\ Return("ok")
      BY <2>3, <3>1 DEF EncodeVoiceFits, Ends
    <3>2. CASE call.kind = "clone"
      BY <2>3, <3>2 DEF EncodeVoiceFits, VoiceEncoded
    <3>3. QED BY <2>3, <3>1, <3>2 DEF EncodeVoiceFits
  <2>4. CASE EncodeVoiceFails
    BY <2>4 DEF EncodeVoiceFails, Ends
  <2>5. CASE TokeniseFails
    BY <2>5 DEF TokeniseFails, Ends
  <2>6. CASE SpeechFails
    BY <2>6 DEF SpeechFails, Ends
  <2>7. CASE DecodeCodes
    BY <2>7 DEF DecodeCodes, Ends, IInv, CallInv, LoadStages
  <2>8. QED BY <1>8, <2>1, <2>2, <2>3, <2>4, <2>5, <2>6, <2>7 DEF Continue
<1>9. QED BY <1>5, <1>6, <1>7, <1>8 DEF Next, RefuseAtOnce

-----------------------------------------------------------------------------

\* The steps that touch no component and no flag.
Quiet ==
  \/ Refuse \/ Starts \/ Ends \/ VoiceEncoded \/ LoadTokenizer \/ ResolveSpeaker
  \/ \E instruction \in Texts \cup {NoText} : TokeniseInstruction(instruction)
  \/ Decode \/ UNCHANGED vars

\* Quiet steps leave the flags, the components and the backend alone.
LEMMA QuietSteps ==
  ASSUME Quiet
  PROVE  UNCHANGED <<flags, speech, vocoder, cloner, ref_count>>
<1>1. CASE Refuse
  BY <1>1 DEF Refuse
<1>2. CASE Starts
  BY <1>2 DEF Starts, Begin
<1>3. CASE Ends
  BY <1>3 DEF Ends
<1>4. CASE VoiceEncoded
  BY <1>4 DEF VoiceEncoded
<1>5. CASE LoadTokenizer
  BY <1>5 DEF LoadTokenizer
<1>6. CASE ResolveSpeaker
  BY <1>6 DEF ResolveSpeaker
<1>7. CASE \E instruction \in Texts \cup {NoText} : TokeniseInstruction(instruction)
  BY <1>7 DEF TokeniseInstruction
<1>8. CASE Decode
  BY <1>8 DEF Decode
<1>9. CASE UNCHANGED vars
  BY <1>9 DEF vars
<1>10. QED
  BY <1>1, <1>2, <1>3, <1>4, <1>5, <1>6, <1>7, <1>8, <1>9 DEF Quiet

\* Holding the backend counts one reference.
LEMMA HoldsValue ==
  /\ Holds(TRUE) = 1 /\ Holds(FALSE) = 0
  /\ \A held \in BOOLEAN : Holds(held) \in Nat
BY DEF Holds

\* Giving one hold back leaves enough references for the others.
LEMMA ReleaseKeepsOthers ==
  ASSUME NEW count \in Nat, NEW held \in BOOLEAN, NEW others \in Nat,
         Holds(held) + others <= count
  PROVE  Released(count, held) \in Nat /\ others <= Released(count, held)
<1>1. CASE held = TRUE
  BY DEF Holds, Released
<1>2. CASE held = FALSE
  BY DEF Holds, Released
<1>3. QED BY <1>1, <1>2

\* No tokens are a value of Tokens.
LEMMA NoTokensType ==
  NoTokens \in Tokens
BY DEF NoTokens, Tokens

\* A call that returns leaves the request's variables in range.
LEMMA ReturnTypes ==
  ASSUME CallTypes, NEW how \in {"ok", "failed", "model not loaded"}, Return(how),
         call.kind = "load" => how # "model not loaded"
  PROVE  CallTypes' /\ tokens' \in Tokens
<1>1. NoCall \in OtherCalls
  BY DEF NoCall, OtherCalls
<1>2. /\ stage' = "idle" /\ call' = NoCall /\ voice' = 0 /\ reply' = how
      /\ tokens' = NoTokens
  BY DEF Return
<1>3. last_load' \in {"none", "ok", "failed"}
  BY DEF Return, CallTypes
<1>4. QED BY <1>1, <1>2, <1>3, NoTokensType DEF CallTypes, Stages

\* Flags stay Boolean.
LEMMA FlagTypesStep ==
  ASSUME ModelAssumption, IInv, [Next]_vars
  PROVE  FlagTypes'
<1> USE DEF IInv, TypeOK, flags, speech, vocoder, cloner, request
<1>1. CASE Quiet
  BY <1>1, QuietSteps DEF FlagTypes
<1>2. CASE \E m \in Models, low_mem \in BOOLEAN : BeginLoad(m, low_mem)
  BY <1>2 DEF FlagTypes, BeginLoad, UnloadTransformer
<1>3. CASE TransformerLoads
  BY <1>3 DEF FlagTypes, TransformerLoads, GoTo
<1>4. CASE TransformerLoadFails
  BY <1>4 DEF FlagTypes, TransformerLoadFails, TransformerOutcomes
<1>5. CASE VocoderLoads
  BY <1>5 DEF FlagTypes, VocoderLoads, LoadDecoder
<1>6. CASE VocoderLoadFails
  BY <1>6 DEF FlagTypes, VocoderLoadFails, DecoderOutcomes
<1>7. CASE FinishLoad
  BY <1>7 DEF FlagTypes, FinishLoad
<1>8. CASE EncoderLoads
  BY <1>8 DEF FlagTypes, EncoderLoads, LoadEncoder
<1>9. CASE EncoderLoadFails
  BY <1>9 DEF FlagTypes, EncoderLoadFails, EncoderOutcomes
<1>10. CASE Generate
  BY <1>10 DEF FlagTypes, Generate, GoTo
<1>11. CASE Finish
  BY <1>11 DEF FlagTypes, Finish, Return
<1>12. QED
  BY NextCases, <1>1, <1>2, <1>3, <1>4, <1>5, <1>6, <1>7, <1>8, <1>9, <1>10, <1>11 DEF
    Quiet

\* Components hold a model or none.
LEMMA ComponentTypesStep ==
  ASSUME ModelAssumption, IInv, [Next]_vars
  PROVE  ComponentTypes'
<1> USE DEF IInv, TypeOK, flags, speech, vocoder, cloner, request
<1>1. CASE \E m \in Models, low_mem \in BOOLEAN : BeginLoad(m, low_mem)
  BY <1>1 DEF ComponentTypes, BeginLoad, UnloadTransformer, UnloadDecoder
<1>2. CASE Refuse
  BY <1>2 DEF ComponentTypes, Refuse
<1>3. CASE Starts
  BY <1>3 DEF ComponentTypes, Starts, Begin
<1>4. CASE Ends
  BY <1>4 DEF ComponentTypes, Ends
<1>5. CASE VoiceEncoded
  BY <1>5 DEF ComponentTypes, VoiceEncoded
<1>6. CASE LoadTokenizer
  <2>1. stage = "tokenizer" /\ tokenizer_' = tokenizer_ \cup {tts_model_path_}
    BY <1>6 DEF LoadTokenizer
  <2>2. tts_model_path_ \in Models
    BY <2>1 DEF StageInv, LoadStages
  <2>3. UNCHANGED <<speech, vocoder, cloner>>
    BY <1>6 DEF LoadTokenizer
  <2>4. QED BY <2>1, <2>2, <2>3 DEF ComponentTypes
<1>7. CASE TransformerLoads
  BY <1>7 DEF ComponentTypes, FlagTypes, TransformerLoads, LoadTransformer, GoTo
<1>8. CASE TransformerLoadFails
  BY <1>8 DEF ComponentTypes, FlagTypes, TransformerLoadFails, LoadTransformer,
    TransformerOutcomes
<1>9. CASE VocoderLoads
  BY <1>9 DEF ComponentTypes, VocoderLoads, LoadDecoder
<1>10. CASE VocoderLoadFails
  BY <1>10 DEF ComponentTypes, VocoderLoadFails, LoadDecoder, DecoderOutcomes
<1>11. CASE FinishLoad
  BY <1>11 DEF ComponentTypes, FinishLoad
<1>12. CASE ResolveSpeaker
  BY <1>12 DEF ComponentTypes, ResolveSpeaker
<1>13. CASE EncoderLoads
  BY <1>13 DEF ComponentTypes, FlagTypes, EncoderLoads, LoadEncoder
<1>14. CASE EncoderLoadFails
  BY <1>14 DEF ComponentTypes, EncoderLoadFails, LoadEncoder, EncoderOutcomes
<1>15. CASE \E instruction \in Texts \cup {NoText} : TokeniseInstruction(instruction)
  BY <1>15 DEF ComponentTypes, TokeniseInstruction, TokeniseCached, Return,
    AfterTokens
<1>16. CASE Generate
  BY <1>16 DEF ComponentTypes, Generate, UnloadTransformer
<1>17. CASE Decode
  BY <1>17 DEF ComponentTypes, Decode
<1>18. CASE Finish
  BY <1>18 DEF ComponentTypes, Finish, UnloadDecoder
<1>19. CASE UNCHANGED vars
  BY <1>19 DEF ComponentTypes, vars
<1>20. QED
  BY NextCases, <1>1, <1>2, <1>3, <1>4, <1>5, <1>6, <1>7, <1>8, <1>9, <1>10, <1>11,
    <1>12, <1>13, <1>14, <1>15, <1>16, <1>17, <1>18, <1>19

\* Stages, calls and answers stay in range.
LEMMA CallTypesStep ==
  ASSUME ModelAssumption, IInv, [Next]_vars
  PROVE  CallTypes'
<1> USE DEF IInv, TypeOK, flags, speech, vocoder, cloner, request
<1>1. CASE \E m \in Models, low_mem \in BOOLEAN : BeginLoad(m, low_mem)
  <2>1. [kind |-> "load", mode |-> "none"] \in OtherCalls
    BY DEF OtherCalls
  <2>2. QED BY <1>1, <2>1 DEF BeginLoad, CallTypes, Stages
<1>2. CASE Refuse
  BY <1>2 DEF CallTypes, Refuse
<1>3. CASE Starts
  <2>1. PICK c \in SynthesisCalls \cup OtherCalls,
             next \in {"tokenise", "speaker", "encode", "load_encoder", "decode_codes", "codes_vocoder"} :
             Begin(c, next) /\ voice' \in {voice, HiddenSize[config]}
    BY <1>3 DEF Starts
  <2>2. /\ call' = c /\ stage' = next /\ reply' = "none" /\ UNCHANGED last_load
        /\ models_loaded_
    BY <2>1 DEF Begin, GoTo
  <2>3. HiddenSize[config] \in Nat
    BY <2>2 DEF FlagsInv
  <2>4. QED BY <2>1, <2>2, <2>3 DEF CallTypes, Stages
<1>4. CASE Ends
  <2>1. PICK how \in {"ok", "failed", "model not loaded"} :
             Return(how) /\ (call.kind = "load" => how = "failed")
    BY <1>4 DEF Ends
  <2>2. QED BY <2>1, ReturnTypes
<1>5. CASE VoiceEncoded
  <2>1. stage = "encode" /\ voice' = HiddenSize[config] /\ UNCHANGED call
    BY <1>5 DEF VoiceEncoded
  <2>2. HiddenSize[config] \in Nat
    BY <2>1 DEF FlagsInv, StageInv, LoadStages
  <2>3. stage' = "tokenise" /\ reply' = "none" /\ UNCHANGED last_load
    BY <1>5 DEF VoiceEncoded, GoTo
  <2>4. QED BY <2>1, <2>2, <2>3 DEF CallTypes, Stages
<1>6. CASE LoadTokenizer
  BY <1>6 DEF CallTypes, Stages, LoadTokenizer, GoTo
<1>7. CASE TransformerLoads
  BY <1>7 DEF CallTypes, Stages, TransformerLoads, GoTo, SpeechStage
<1>8. CASE TransformerLoadFails
  <2>1. Return("failed")
    BY <1>8 DEF TransformerLoadFails
  <2>2. QED BY <2>1, ReturnTypes
<1>9. CASE VocoderLoads
  BY <1>9 DEF CallTypes, Stages, VocoderLoads, GoTo
<1>10. CASE VocoderLoadFails
  <2>1. Return("failed")
    BY <1>10 DEF VocoderLoadFails
  <2>2. QED BY <2>1, ReturnTypes
<1>11. CASE FinishLoad
  <2>1. Return("ok") \/ Return("failed")
    BY <1>11 DEF FinishLoad
  <2>2. QED BY <2>1, ReturnTypes
<1>12. CASE ResolveSpeaker
  <2>1. stage = "speaker" /\ voice' = HiddenSize[config] /\ UNCHANGED call
    BY <1>12 DEF ResolveSpeaker
  <2>2. HiddenSize[config] \in Nat
    BY <2>1 DEF FlagsInv, StageInv, LoadStages
  <2>3. stage' = "tokenise" /\ reply' = "none" /\ UNCHANGED last_load
    BY <1>12 DEF ResolveSpeaker, GoTo
  <2>4. QED BY <2>1, <2>2, <2>3 DEF CallTypes, Stages
<1>13. CASE EncoderLoads
  BY <1>13 DEF CallTypes, Stages, EncoderLoads, GoTo
<1>14. CASE EncoderLoadFails
  <2>1. Return("failed")
    BY <1>14 DEF EncoderLoadFails
  <2>2. QED BY <2>1, ReturnTypes
<1>15. CASE \E instruction \in Texts \cup {NoText} : TokeniseInstruction(instruction)
  <2>1. Return("failed") \/ (GoTo(AfterTokens) /\ UNCHANGED <<call, voice>>)
    BY <1>15 DEF TokeniseInstruction, TokeniseCached, TokeniseUncached
  <2>2. CASE Return("failed")
    BY <2>2, ReturnTypes
  <2>3. CASE GoTo(AfterTokens) /\ UNCHANGED <<call, voice>>
    BY <2>3 DEF GoTo, AfterTokens, SpeechStage, CallTypes, Stages
  <2>4. QED BY <2>1, <2>2, <2>3
<1>16. CASE Generate
  BY <1>16 DEF CallTypes, Stages, Generate, GoTo
<1>17. CASE Decode
  BY <1>17 DEF CallTypes, Stages, Decode, GoTo
<1>18. CASE Finish
  <2>1. Return("ok")
    BY <1>18 DEF Finish
  <2>2. QED BY <2>1, ReturnTypes
<1>19. CASE UNCHANGED vars
  BY <1>19 DEF CallTypes, vars
<1>20. QED
  BY NextCases, <1>1, <1>2, <1>3, <1>4, <1>5, <1>6, <1>7, <1>8, <1>9, <1>10, <1>11,
    <1>12, <1>13, <1>14, <1>15, <1>16, <1>17, <1>18, <1>19

\* Tokens carry a text and a vocabulary.
LEMMA TokenTypesStep ==
  ASSUME ModelAssumption, IInv, [Next]_vars
  PROVE  TokenTypes'
<1> USE DEF IInv, TypeOK, flags, speech, vocoder, cloner, request
<1>1. CASE \E m \in Models, low_mem \in BOOLEAN : BeginLoad(m, low_mem)
  <2>1. instruction_token_cache_' = [k \in Texts |-> NoTokens] /\ UNCHANGED tokens
    BY <1>1 DEF BeginLoad
  <2>2. QED BY <2>1, NoTokensType DEF TokenTypes
<1>2. CASE Refuse
  BY <1>2 DEF TokenTypes, Refuse
<1>3. CASE Starts
  BY <1>3 DEF TokenTypes, Starts, Begin
<1>4. CASE Ends
  <2>1. PICK how \in {"ok", "failed", "model not loaded"} :
             Return(how) /\ (call.kind = "load" => how = "failed")
    BY <1>4 DEF Ends
  <2>2. UNCHANGED instruction_token_cache_
    BY <1>4 DEF Ends
  <2>3. QED BY <2>1, <2>2, ReturnTypes DEF TokenTypes
<1>5. CASE VoiceEncoded
  BY <1>5 DEF TokenTypes, VoiceEncoded
<1>6. CASE LoadTokenizer
  BY <1>6 DEF TokenTypes, LoadTokenizer
<1>7. CASE TransformerLoads
  BY <1>7 DEF TokenTypes, TransformerLoads, GoTo
<1>8. CASE TransformerLoadFails
  <2>1. Return("failed") /\ UNCHANGED instruction_token_cache_
    BY <1>8 DEF TransformerLoadFails
  <2>2. QED BY <2>1, ReturnTypes DEF TokenTypes
<1>9. CASE VocoderLoads
  BY <1>9 DEF TokenTypes, VocoderLoads, LoadDecoder
<1>10. CASE VocoderLoadFails
  <2>1. Return("failed") /\ UNCHANGED instruction_token_cache_
    BY <1>10 DEF VocoderLoadFails
  <2>2. QED BY <2>1, ReturnTypes DEF TokenTypes
<1>11. CASE FinishLoad
  <2>1. (Return("ok") \/ Return("failed")) /\ UNCHANGED instruction_token_cache_
    BY <1>11 DEF FinishLoad
  <2>2. QED BY <2>1, ReturnTypes DEF TokenTypes
<1>12. CASE ResolveSpeaker
  BY <1>12 DEF TokenTypes, ResolveSpeaker
<1>13. CASE EncoderLoads
  BY <1>13 DEF TokenTypes, EncoderLoads, LoadEncoder
<1>14. CASE EncoderLoadFails
  <2>1. Return("failed") /\ UNCHANGED instruction_token_cache_
    BY <1>14 DEF EncoderLoadFails
  <2>2. QED BY <2>1, ReturnTypes DEF TokenTypes
<1>15. CASE \E instruction \in Texts \cup {NoText} : TokeniseInstruction(instruction)
  <2>1. PICK instruction \in Texts \cup {NoText} : TokeniseInstruction(instruction)
    BY <1>15
  <2>2. [text |-> instruction, vocab |-> tokenizer_] \in Tokens
    BY DEF Tokens, ComponentTypes
  <2>3. ASSUME NEW key \in Texts, TokeniseCached(instruction, key)
        PROVE  TokenTypes'
    <3> DEFINE cached == instruction_token_cache_[key]
               used == IF cached # NoTokens THEN cached
                       ELSE [text |-> instruction, vocab |-> tokenizer_]
    <3>1. used \in Tokens
      BY <2>2 DEF TokenTypes
    <3>2. /\ instruction_token_cache_' = [instruction_token_cache_ EXCEPT ![key] = used]
          /\ tokens' = used \/ Return("failed")
      BY <2>3 DEF TokeniseCached
    <3> HIDE DEF used
    <3>3. tokens' \in Tokens
      BY <3>1, <3>2, ReturnTypes
    <3>4. QED BY <3>1, <3>2, <3>3 DEF TokenTypes
  <2>4. CASE TokeniseUncached(instruction)
    <3>1. tokens' \in Tokens
      BY <2>2, <2>4, NoTokensType DEF TokeniseUncached
    <3>2. QED BY <2>4, <3>1 DEF TokeniseUncached, TokenTypes
  <2>5. QED BY <2>1, <2>3, <2>4 DEF TokeniseInstruction
<1>16. CASE Generate
  BY <1>16 DEF TokenTypes, Generate, GoTo
<1>17. CASE Decode
  BY <1>17 DEF TokenTypes, Decode
<1>18. CASE Finish
  <2>1. Return("ok") /\ UNCHANGED instruction_token_cache_
    BY <1>18 DEF Finish
  <2>2. QED BY <2>1, ReturnTypes DEF TokenTypes
<1>19. CASE UNCHANGED vars
  BY <1>19 DEF TokenTypes, vars
<1>20. QED
  BY NextCases, <1>1, <1>2, <1>3, <1>4, <1>5, <1>6, <1>7, <1>8, <1>9, <1>10, <1>11,
    <1>12, <1>13, <1>14, <1>15, <1>16, <1>17, <1>18, <1>19

\* The reference count never falls below zero.
LEMMA RefCountStep ==
  ASSUME ModelAssumption, IInv, [Next]_vars
  PROVE  (ref_count \in Nat)'
<1> USE DEF IInv, TypeOK, flags, speech, vocoder, cloner, request
<1>1. CASE Quiet
  BY <1>1, QuietSteps
<1>2. CASE \E m \in Models, low_mem \in BOOLEAN : BeginLoad(m, low_mem)
  BY <1>2 DEF Released, BeginLoad, UnloadTransformer
<1>3. CASE TransformerLoads
  BY <1>3 DEF Released, TransformerLoads, LoadTransformer, GoTo
<1>4. CASE TransformerLoadFails
  BY <1>4 DEF Released, TransformerLoadFails, LoadTransformer, TransformerOutcomes
<1>5. CASE VocoderLoads
  BY <1>5 DEF Released, VocoderLoads, LoadDecoder
<1>6. CASE VocoderLoadFails
  BY <1>6 DEF Released, VocoderLoadFails, LoadDecoder, DecoderOutcomes
<1>7. CASE FinishLoad
  BY <1>7 DEF FinishLoad
<1>8. CASE EncoderLoads
  BY <1>8 DEF EncoderLoads, LoadEncoder
<1>9. CASE EncoderLoadFails
  BY <1>9 DEF EncoderLoadFails, LoadEncoder, EncoderOutcomes
<1>10. CASE Generate
  BY <1>10 DEF Released, Generate, GoTo
<1>11. CASE Finish
  BY <1>11 DEF Released, Finish, Return
<1>12. QED
  BY NextCases, <1>1, <1>2, <1>3, <1>4, <1>5, <1>6, <1>7, <1>8, <1>9, <1>10, <1>11 DEF
    Quiet

\* A loaded flag is set only where its component is complete, and reset with it.
LEMMA FlagsStep ==
  ASSUME ModelAssumption, IInv, [Next]_vars
  PROVE  FlagsInv'
<1> USE DEF IInv, flags, speech, vocoder, cloner, request
<1>1. CASE Quiet
  <2>1. UNCHANGED <<flags, speech, vocoder, cloner>>
    BY <1>1, QuietSteps
  <2>2. QED BY <2>1 DEF FlagsInv
<1>2. CASE \E m \in Models, low_mem \in BOOLEAN : BeginLoad(m, low_mem)
  <2>1. PICK m \in Models, low_mem \in BOOLEAN : BeginLoad(m, low_mem)
    BY <1>2
  <2>2. /\ ~transformer_loaded_' /\ ~decoder_loaded_' /\ ~encoder_loaded_'
        /\ models_loaded_' = models_loaded_ /\ config' = config /\ tts_model_path_' = m
    BY <2>1 DEF BeginLoad
  <2>3. models_loaded_ => config \in Models
    BY DEF FlagsInv
  <2>4. QED BY <2>2 DEF FlagsInv
<1>3. CASE TransformerLoads
  BY <1>3 DEF FlagsInv, StageInv, TransformerLoads, LoadTransformer, GoTo
<1>4. CASE TransformerLoadFails
  BY <1>4 DEF FlagsInv, StageInv, TransformerLoadFails, LoadTransformer,
    TransformerOutcomes
<1>5. CASE VocoderLoads
  BY <1>5 DEF FlagsInv, StageInv, VocoderLoads, LoadDecoder
<1>6. CASE VocoderLoadFails
  BY <1>6 DEF FlagsInv, StageInv, VocoderLoadFails, DecoderOutcomes
<1>7. CASE FinishLoad
  BY <1>7 DEF FlagsInv, StageInv, FinishLoad
<1>8. CASE EncoderLoads
  BY <1>8 DEF FlagsInv, StageInv, EncoderLoads, LoadEncoder
<1>9. CASE EncoderLoadFails
  BY <1>9 DEF FlagsInv, StageInv, EncoderLoadFails, EncoderOutcomes
<1>10. CASE Generate
  BY <1>10 DEF FlagsInv, StageInv, Generate, GoTo
<1>11. CASE Finish
  BY <1>11 DEF FlagsInv, StageInv, Finish, Return
<1>12. QED
  BY NextCases, <1>1, <1>2, <1>3, <1>4, <1>5, <1>6, <1>7, <1>8, <1>9, <1>10, <1>11 DEF
    Quiet

\* Every stage is entered with what it relies on.
LEMMA StageStep ==
  ASSUME ModelAssumption, IInv, [Next]_vars
  PROVE  StageInv'
<1> USE DEF IInv, flags, speech, vocoder, cloner, request
<1>1. CASE \E m \in Models, low_mem \in BOOLEAN : BeginLoad(m, low_mem)
  BY <1>1 DEF StageInv, FlagsInv, LoadStages, BeginLoad, UnloadTransformer
<1>2. CASE Refuse
  BY <1>2 DEF StageInv, CallInv, Refuse
<1>3. CASE Starts
  BY <1>3 DEF StageInv, FlagsInv, CallInv, Starts, Begin, GoTo
<1>4. CASE Ends
  BY <1>4 DEF StageInv, FlagsInv, CallInv, Ends, Return
<1>5. CASE VoiceEncoded
  BY <1>5 DEF StageInv, FlagsInv, CallInv, VoiceEncoded, GoTo
<1>6. CASE LoadTokenizer
  BY <1>6 DEF StageInv, FlagsInv, LoadStages, LoadTokenizer, GoTo
<1>7. CASE TransformerLoads
  <2>1. /\ transformer_loaded_' = TRUE
        /\ UNCHANGED <<models_loaded_, decoder_loaded_, encoder_loaded_, tts_model_path_, call>>
    BY <1>7 DEF TransformerLoads
  <2>2. CASE stage = "load_transformer"
    <3>1. stage' \in {"finish_load", "load_vocoder"}
      BY <1>7, <2>2 DEF TransformerLoads, GoTo
    <3>2. tts_model_path_ \in Models
      BY <2>2 DEF StageInv, LoadStages
    <3>3. stage' = "load_vocoder" => ~decoder_loaded_
      BY <2>2 DEF StageInv
    <3>4. QED BY <2>1, <3>1, <3>2, <3>3 DEF StageInv, LoadStages
  <2>3. CASE stage = "reload_transformer"
    <3>1. stage' = SpeechStage
      BY <1>7, <2>3 DEF TransformerLoads, GoTo
    <3>2. models_loaded_
      BY <2>3 DEF StageInv, LoadStages
    <3>3. CASE call.mode = "stream" /\ ~decoder_loaded_
      BY <2>1, <3>1, <3>2 DEF StageInv, LoadStages, SpeechStage
    <3>4. CASE ~(call.mode = "stream" /\ ~decoder_loaded_)
      BY <2>1, <3>1, <3>2 DEF StageInv, LoadStages, SpeechStage
    <3>5. QED BY <3>3, <3>4
  <2>4. QED BY <1>7, <2>2, <2>3 DEF TransformerLoads
<1>8. CASE TransformerLoadFails
  BY <1>8 DEF StageInv, FlagsInv, CallInv, TransformerLoadFails, LoadTransformer,
    Return
<1>9. CASE VocoderLoads
  BY <1>9 DEF VocoderLoads, GoTo, StageInv, LoadStages
<1>10. CASE VocoderLoadFails
  BY <1>10 DEF StageInv, FlagsInv, CallInv, VocoderLoadFails, LoadDecoder, Return
<1>11. CASE FinishLoad
  BY <1>11 DEF StageInv, FlagsInv, CallInv, FinishLoad, Return
<1>12. CASE ResolveSpeaker
  BY <1>12 DEF StageInv, FlagsInv, LoadStages, ResolveSpeaker, GoTo
<1>13. CASE EncoderLoads
  BY <1>13 DEF StageInv, FlagsInv, CallInv, EncoderLoads, GoTo
<1>14. CASE EncoderLoadFails
  BY <1>14 DEF StageInv, FlagsInv, CallInv, EncoderLoadFails, LoadEncoder, Return
<1>15. CASE \E instruction \in Texts \cup {NoText} : TokeniseInstruction(instruction)
  BY <1>15 DEF StageInv, FlagsInv, LoadStages, TokeniseInstruction, TokeniseCached,
    TokeniseUncached, Return, GoTo, AfterTokens, SpeechStage
<1>16. CASE Generate
  BY <1>16 DEF StageInv, FlagsInv, LoadStages, Generate, GoTo
<1>17. CASE Decode
  BY <1>17 DEF StageInv, FlagsInv, LoadStages, Decode, GoTo
<1>18. CASE Finish
  BY <1>18 DEF StageInv, FlagsInv, CallInv, Finish, Return
<1>19. CASE UNCHANGED vars
  BY <1>19 DEF StageInv, CallInv, vars
<1>20. QED
  BY NextCases, <1>1, <1>2, <1>3, <1>4, <1>5, <1>6, <1>7, <1>8, <1>9, <1>10, <1>11,
    <1>12, <1>13, <1>14, <1>15, <1>16, <1>17, <1>18, <1>19

\* The call in progress and what it has collected.
LEMMA CallStep ==
  ASSUME ModelAssumption, IInv, [Next]_vars
  PROVE  CallInv'
<1> USE DEF IInv, flags, speech, vocoder, cloner, request
<1>1. CASE \E m \in Models, low_mem \in BOOLEAN : BeginLoad(m, low_mem)
  <2>1. PICK m \in Models, low_mem \in BOOLEAN : BeginLoad(m, low_mem)
    BY <1>1
  <2>2. /\ call' = [kind |-> "load", mode |-> "none"] /\ stage = "idle" /\ stage' = "tokenizer"
        /\ UNCHANGED <<tokens, voice, tokenizer_>>
        /\ instruction_token_cache_' = [k \in Texts |-> NoTokens]
    BY <2>1 DEF BeginLoad
  <2>3. tokens = NoTokens /\ voice = 0 /\ tokens.vocab \in {{}, tokenizer_}
    BY <2>2 DEF CallInv
  <2>4. call'.kind = "load"
    BY <2>2
  <2>5. QED BY <2>2, <2>3 DEF CallInv, LoadStages
<1>2. CASE Refuse
  BY <1>2 DEF CallInv, StageInv, NoTokens, Refuse
<1>3. CASE Starts
  BY <1>3 DEF CallInv, LoadStages, NoTokens, Starts, Begin, GoTo
<1>4. CASE Ends
  <2>1. stage' = "idle" /\ call' = NoCall /\ tokens' = NoTokens /\ voice' = 0
    BY <1>4 DEF Ends, Return
  <2>2. tokens'.vocab = {} /\ call'.kind = "none"
    BY <2>1 DEF NoTokens, NoCall
  <2>3. QED BY <2>1, <2>2 DEF CallInv, LoadStages
<1>5. CASE VoiceEncoded
  BY <1>5 DEF CallInv, LoadStages, NoTokens, VoiceEncoded, GoTo
<1>6. CASE LoadTokenizer
  <2>1. /\ stage = "tokenizer" /\ stage' = "load_transformer"
        /\ UNCHANGED <<call, tokens, voice>>
    BY <1>6 DEF LoadTokenizer, GoTo
  <2>2. tokens = NoTokens /\ voice = 0 /\ call.kind = "load"
    BY <2>1 DEF CallInv, LoadStages
  <2>3. tokens.vocab = {}
    BY <2>2 DEF NoTokens
  <2>4. QED BY <2>1, <2>3 DEF CallInv, LoadStages
<1>7. CASE TransformerLoads
  BY <1>7 DEF CallInv, LoadStages, NoTokens, TransformerLoads, GoTo, SpeechStage
<1>8. CASE TransformerLoadFails
  <2>1. /\ stage' = "idle" /\ call' = NoCall /\ tokens' = NoTokens /\ voice' = 0
        /\ UNCHANGED tokenizer_
    BY <1>8 DEF TransformerLoadFails, Return
  <2>2. tokens'.vocab = {} /\ call'.kind = "none"
    BY <2>1 DEF NoTokens, NoCall
  <2>3. QED BY <2>1, <2>2 DEF CallInv, LoadStages
<1>9. CASE VocoderLoads
  BY <1>9 DEF CallInv, LoadStages, NoTokens, VocoderLoads, GoTo
<1>10. CASE VocoderLoadFails
  <2>1. /\ stage' = "idle" /\ call' = NoCall /\ tokens' = NoTokens /\ voice' = 0
        /\ UNCHANGED tokenizer_
    BY <1>10 DEF VocoderLoadFails, Return
  <2>2. tokens'.vocab = {} /\ call'.kind = "none"
    BY <2>1 DEF NoTokens, NoCall
  <2>3. QED BY <2>1, <2>2 DEF CallInv, LoadStages
<1>11. CASE FinishLoad
  <2>1. /\ stage' = "idle" /\ call' = NoCall /\ tokens' = NoTokens /\ voice' = 0
        /\ UNCHANGED tokenizer_
    BY <1>11 DEF FinishLoad, Return
  <2>2. tokens'.vocab = {} /\ call'.kind = "none"
    BY <2>1 DEF NoTokens, NoCall
  <2>3. QED BY <2>1, <2>2 DEF CallInv, LoadStages
<1>12. CASE ResolveSpeaker
  BY <1>12 DEF CallInv, LoadStages, NoTokens, ResolveSpeaker, GoTo
<1>13. CASE EncoderLoads
  <2>1. /\ stage = "load_encoder" /\ stage' = "encode"
        /\ UNCHANGED <<call, tokens, voice, tokenizer_>>
    BY <1>13 DEF EncoderLoads, GoTo
  <2>2. QED BY <2>1 DEF CallInv, LoadStages
<1>14. CASE EncoderLoadFails
  <2>1. /\ stage' = "idle" /\ call' = NoCall /\ tokens' = NoTokens /\ voice' = 0
        /\ UNCHANGED tokenizer_
    BY <1>14 DEF EncoderLoadFails, Return
  <2>2. tokens'.vocab = {} /\ call'.kind = "none"
    BY <2>1 DEF NoTokens, NoCall
  <2>3. QED BY <2>1, <2>2 DEF CallInv, LoadStages
<1>15. CASE \E instruction \in Texts \cup {NoText} : TokeniseInstruction(instruction)
  <2>1. PICK instruction \in Texts \cup {NoText} : TokeniseInstruction(instruction)
    BY <1>15
  <2>2. stage = "tokenise" /\ UNCHANGED tokenizer_ /\ tokens.vocab \in {{}, tokenizer_}
    BY <2>1 DEF TokeniseInstruction, CallInv
  <2>3. call.kind # "load"
    BY <2>2 DEF CallInv, LoadStages
  <2>4. CASE Return("failed")
    <3>1. stage' = "idle" /\ call' = NoCall /\ tokens' = NoTokens /\ voice' = 0
      BY <2>4 DEF Return
    <3>2. tokens'.vocab = {} /\ call'.kind = "none"
      BY <3>1 DEF NoTokens, NoCall
    <3>3. QED BY <3>1, <3>2 DEF CallInv, LoadStages
  <2>5. ASSUME UNCHANGED call, GoTo(AfterTokens), tokens'.vocab \in {{}, tokenizer_}
        PROVE  CallInv'
    <3>1. stage' \in {"reload_transformer", "stream_vocoder", "generate"}
      BY <2>5 DEF GoTo, AfterTokens, SpeechStage
    <3>2. QED BY <2>2, <2>5, <3>1 DEF CallInv, LoadStages
  <2>6. ASSUME NEW key \in Texts, TokeniseCached(instruction, key)
        PROVE  CallInv'
    <3> DEFINE cached == instruction_token_cache_[key]
               used == IF cached # NoTokens THEN cached
                       ELSE [text |-> instruction, vocab |-> tokenizer_]
    <3>1. used.vocab = tokenizer_
      BY DEF CacheIsCurrent
    <3>2. Return("failed") \/ (tokens' = used /\ GoTo(AfterTokens) /\ UNCHANGED call)
      BY <2>6 DEF TokeniseCached
    <3>3. QED BY <2>4, <2>5, <3>1, <3>2
  <2>7. CASE TokeniseUncached(instruction)
    <3>1. tokens'.vocab \in {{}, tokenizer_} /\ GoTo(AfterTokens) /\ UNCHANGED call
      BY <2>7 DEF TokeniseUncached, NoTokens
    <3>2. QED BY <2>5, <3>1
  <2>8. QED BY <2>1, <2>6, <2>7 DEF TokeniseInstruction
<1>16. CASE Generate
  BY <1>16 DEF CallInv, LoadStages, NoTokens, Generate, GoTo
<1>17. CASE Decode
  BY <1>17 DEF CallInv, LoadStages, NoTokens, Decode, GoTo
<1>18. CASE Finish
  <2>1. /\ stage' = "idle" /\ call' = NoCall /\ tokens' = NoTokens /\ voice' = 0
        /\ UNCHANGED tokenizer_
    BY <1>18 DEF Finish, Return
  <2>2. tokens'.vocab = {} /\ call'.kind = "none"
    BY <2>1 DEF NoTokens, NoCall
  <2>3. QED BY <2>1, <2>2 DEF CallInv, LoadStages
<1>19. CASE UNCHANGED vars
  BY <1>19 DEF CallInv, StageInv, NoTokens, vars
<1>20. QED
  BY NextCases, <1>1, <1>2, <1>3, <1>4, <1>5, <1>6, <1>7, <1>8, <1>9, <1>10, <1>11,
    <1>12, <1>13, <1>14, <1>15, <1>16, <1>17, <1>18, <1>19

\* What a successful load established survives every later request.
LEMMA LoadStep ==
  ASSUME ModelAssumption, IInv, [Next]_vars
  PROVE  LoadInv'
<1> USE DEF IInv, flags, speech, vocoder, cloner, request
<1>1. CASE \E m \in Models, low_mem \in BOOLEAN : BeginLoad(m, low_mem)
  BY <1>1 DEF LoadInv, StageInv, FlagsInv, BeginLoad, UnloadTransformer
<1>2. CASE Refuse
  BY <1>2 DEF LoadInv, StageInv, FlagsInv, Refuse
<1>3. CASE Starts
  BY <1>3 DEF LoadInv, StageInv, FlagsInv, Starts, Begin, GoTo
<1>4. CASE Ends
  <2>1. /\ stage' = "idle" /\ call' = NoCall /\ voice' = 0
        /\ last_load' = "ok" => call.kind # "load" /\ last_load = "ok"
        /\ UNCHANGED <<tokenizer_, tts_model_path_, config>>
    BY <1>4 DEF Ends, Return
  <2>2. call'.kind = "none"
    BY <2>1 DEF NoCall
  <2>3. QED BY <2>1, <2>2 DEF LoadInv
<1>5. CASE VoiceEncoded
  BY <1>5 DEF LoadInv, StageInv, FlagsInv, VoiceEncoded, GoTo
<1>6. CASE LoadTokenizer
  BY <1>6 DEF LoadInv, StageInv, FlagsInv, LoadTokenizer, GoTo
<1>7. CASE TransformerLoads
  BY <1>7 DEF LoadInv, StageInv, FlagsInv, TransformerLoads, LoadTransformer, GoTo,
    SpeechStage
<1>8. CASE TransformerLoadFails
  <2>1. /\ stage' = "idle" /\ call' = NoCall /\ voice' = 0
        /\ last_load' = IF call.kind = "load" THEN "failed" ELSE last_load
        /\ UNCHANGED <<tokenizer_, tts_model_path_>> /\ config' \in {config, tts_model_path_}
    BY <1>8 DEF TransformerLoadFails, Return, LoadTransformer
  <2>2. call'.kind = "none"
    BY <2>1 DEF NoCall
  <2>3. QED BY <2>1, <2>2 DEF LoadInv
<1>9. CASE VocoderLoads
  BY <1>9 DEF LoadInv, StageInv, FlagsInv, VocoderLoads, GoTo
<1>10. CASE VocoderLoadFails
  <2>1. /\ stage' = "idle" /\ call' = NoCall /\ voice' = 0
        /\ last_load' = IF call.kind = "load" THEN "failed" ELSE last_load
        /\ UNCHANGED <<tokenizer_, tts_model_path_>> /\ UNCHANGED config
    BY <1>10 DEF VocoderLoadFails, Return
  <2>2. call'.kind = "none"
    BY <2>1 DEF NoCall
  <2>3. QED BY <2>1, <2>2 DEF LoadInv
<1>11. CASE FinishLoad
  <2>1. /\ stage = "finish_load" /\ stage' = "idle" /\ call' = NoCall /\ voice' = 0
        /\ UNCHANGED <<tokenizer_, tts_model_path_, config>>
    BY <1>11 DEF FinishLoad, Return
  <2>2. call'.kind = "none"
    BY <2>1 DEF NoCall
  <2>3. tts_model_path_ \in tokenizer_ /\ config = tts_model_path_
    BY <2>1 DEF LoadInv, StageInv, FlagsInv
  <2>4. QED BY <2>1, <2>2, <2>3 DEF LoadInv
<1>12. CASE ResolveSpeaker
  BY <1>12 DEF LoadInv, StageInv, FlagsInv, ResolveSpeaker, GoTo
<1>13. CASE EncoderLoads
  BY <1>13 DEF LoadInv, StageInv, FlagsInv, EncoderLoads, GoTo
<1>14. CASE EncoderLoadFails
  <2>1. /\ stage' = "idle" /\ call' = NoCall /\ voice' = 0
        /\ last_load' = IF call.kind = "load" THEN "failed" ELSE last_load
        /\ UNCHANGED <<tokenizer_, tts_model_path_>> /\ UNCHANGED config
    BY <1>14 DEF EncoderLoadFails, Return
  <2>2. call'.kind = "none"
    BY <2>1 DEF NoCall
  <2>3. QED BY <2>1, <2>2 DEF LoadInv
<1>15. CASE \E instruction \in Texts \cup {NoText} : TokeniseInstruction(instruction)
  <2>1. PICK instruction \in Texts \cup {NoText} : TokeniseInstruction(instruction)
    BY <1>15
  <2>2. stage = "tokenise" /\ UNCHANGED <<tokenizer_, tts_model_path_, config>>
    BY <2>1 DEF TokeniseInstruction
  <2>3. call.kind # "load"
    BY <2>2 DEF CallInv, LoadStages
  <2>4. \/ stage' = "idle" /\ call' = NoCall /\ voice' = 0
        \/ UNCHANGED <<call, voice>> /\ stage' \in {"reload_transformer", "stream_vocoder", "generate"}
    BY <2>1 DEF TokeniseInstruction, TokeniseCached, TokeniseUncached, Return, GoTo,
      AfterTokens, SpeechStage
  <2>5. UNCHANGED last_load
    BY <2>1, <2>3 DEF TokeniseInstruction, TokeniseCached, TokeniseUncached, Return,
      GoTo
  <2>6. call'.kind # "load"
    BY <2>3, <2>4 DEF NoCall
  <2>7. QED BY <2>2, <2>4, <2>5, <2>6 DEF LoadInv
<1>16. CASE Generate
  BY <1>16 DEF LoadInv, StageInv, FlagsInv, Generate, GoTo
<1>17. CASE Decode
  BY <1>17 DEF LoadInv, StageInv, FlagsInv, Decode, GoTo
<1>18. CASE Finish
  <2>1. /\ stage = "finish" /\ stage' = "idle" /\ call' = NoCall /\ voice' = 0
        /\ last_load' = IF call.kind = "load" THEN "ok" ELSE last_load
        /\ UNCHANGED <<tokenizer_, tts_model_path_, config>>
    BY <1>18 DEF Finish, Return
  <2>2. call'.kind = "none" /\ call.kind # "load"
    BY <2>1 DEF NoCall, CallInv, LoadStages
  <2>3. QED BY <2>1, <2>2 DEF LoadInv
<1>19. CASE UNCHANGED vars
  BY <1>19 DEF LoadInv, StageInv, FlagsInv, vars
<1>20. QED
  BY NextCases, <1>1, <1>2, <1>3, <1>4, <1>5, <1>6, <1>7, <1>8, <1>9, <1>10, <1>11,
    <1>12, <1>13, <1>14, <1>15, <1>16, <1>17, <1>18, <1>19

\* The cache is empty when the tokenizer changes, and takes only fresh tokens.
LEMMA CacheStep ==
  ASSUME ModelAssumption, IInv, [Next]_vars
  PROVE  CacheIsCurrent'
<1> USE DEF IInv, flags, speech, vocoder, cloner, request
<1>1. CASE \E m \in Models, low_mem \in BOOLEAN : BeginLoad(m, low_mem)
  BY <1>1 DEF CacheIsCurrent, BeginLoad, UnloadTransformer
<1>2. CASE Refuse
  BY <1>2 DEF CacheIsCurrent, Refuse
<1>3. CASE Starts
  BY <1>3 DEF CacheIsCurrent, Starts, Begin
<1>4. CASE Ends
  BY <1>4 DEF CacheIsCurrent, Ends
<1>5. CASE VoiceEncoded
  BY <1>5 DEF CacheIsCurrent, VoiceEncoded
<1>6. CASE LoadTokenizer
  <2>1. \A key \in Texts : instruction_token_cache_[key] = NoTokens
    BY <1>6 DEF LoadTokenizer, CallInv
  <2>2. UNCHANGED instruction_token_cache_
    BY <1>6 DEF LoadTokenizer
  <2>3. QED BY <2>1, <2>2 DEF CacheIsCurrent
<1>7. CASE TransformerLoads
  BY <1>7 DEF CacheIsCurrent, TransformerLoads, GoTo
<1>8. CASE TransformerLoadFails
  BY <1>8 DEF CacheIsCurrent, TransformerLoadFails, TransformerOutcomes
<1>9. CASE VocoderLoads
  BY <1>9 DEF CacheIsCurrent, VocoderLoads, LoadDecoder
<1>10. CASE VocoderLoadFails
  BY <1>10 DEF CacheIsCurrent, VocoderLoadFails, DecoderOutcomes
<1>11. CASE FinishLoad
  BY <1>11 DEF CacheIsCurrent, FinishLoad
<1>12. CASE ResolveSpeaker
  BY <1>12 DEF CacheIsCurrent, ResolveSpeaker
<1>13. CASE EncoderLoads
  BY <1>13 DEF CacheIsCurrent, EncoderLoads, LoadEncoder
<1>14. CASE EncoderLoadFails
  BY <1>14 DEF CacheIsCurrent, EncoderLoadFails, EncoderOutcomes
<1>15. CASE \E instruction \in Texts \cup {NoText} : TokeniseInstruction(instruction)
  <2>1. PICK instruction \in Texts \cup {NoText} : TokeniseInstruction(instruction)
    BY <1>15
  <2>2. UNCHANGED tokenizer_
    BY <2>1 DEF TokeniseInstruction
  <2>3. ASSUME NEW key \in Texts, TokeniseCached(instruction, key)
        PROVE  CacheIsCurrent'
    <3> DEFINE cached == instruction_token_cache_[key]
               used == IF cached # NoTokens THEN cached
                       ELSE [text |-> instruction, vocab |-> tokenizer_]
    <3>1. used.vocab = tokenizer_
      BY DEF CacheIsCurrent
    <3>2. instruction_token_cache_' = [instruction_token_cache_ EXCEPT ![key] = used]
      BY <2>3 DEF TokeniseCached
    <3>3. instruction_token_cache_ \in [Texts -> Tokens]
      BY DEF TypeOK, TokenTypes
    <3> HIDE DEF used
    <3>4. ASSUME NEW k \in Texts, instruction_token_cache_'[k] # NoTokens
          PROVE  instruction_token_cache_'[k].vocab = tokenizer_
      BY <3>1, <3>2, <3>4 DEF CacheIsCurrent
    <3>5. QED BY <2>2, <3>4 DEF CacheIsCurrent
  <2>4. CASE TokeniseUncached(instruction)
    BY <2>2, <2>4 DEF TokeniseUncached, CacheIsCurrent
  <2>5. QED BY <2>1, <2>3, <2>4 DEF TokeniseInstruction
<1>16. CASE Generate
  BY <1>16 DEF CacheIsCurrent, Generate, GoTo
<1>17. CASE Decode
  BY <1>17 DEF CacheIsCurrent, Decode
<1>18. CASE Finish
  BY <1>18 DEF CacheIsCurrent, Finish, Return
<1>19. CASE UNCHANGED vars
  BY <1>19 DEF CacheIsCurrent, vars
<1>20. QED
  BY NextCases, <1>1, <1>2, <1>3, <1>4, <1>5, <1>6, <1>7, <1>8, <1>9, <1>10, <1>11,
    <1>12, <1>13, <1>14, <1>15, <1>16, <1>17, <1>18, <1>19

\* Every hold on the backend is counted.
LEMMA BackendStep ==
  ASSUME ModelAssumption, IInv, [Next]_vars
  PROVE  BackendOutlivesUsers'
<1> DEFINE t == Holds(transformer_backend)
           d == Holds(decoder_backend)
           e == Holds(encoder_backend)
<1>a. /\ transformer_backend \in BOOLEAN /\ decoder_backend \in BOOLEAN
      /\ encoder_backend \in BOOLEAN /\ ref_count \in Nat
  BY DEF IInv, TypeOK, ComponentTypes
<1>b. t \in Nat /\ d \in Nat /\ e \in Nat /\ t + d + e <= ref_count
  BY <1>a, HoldsValue DEF IInv, BackendOutlivesUsers
<1> USE DEF IInv, flags, speech, vocoder, cloner, request
<1>1. CASE Quiet
  BY <1>1, QuietSteps DEF BackendOutlivesUsers
<1>2. CASE \E m \in Models, low_mem \in BOOLEAN : BeginLoad(m, low_mem)
  <2>1. PICK m \in Models, low_mem \in BOOLEAN : BeginLoad(m, low_mem)
    BY <1>2
  <2> DEFINE count == Released(ref_count, transformer_backend)
  <2>2. /\ transformer_backend' = FALSE /\ decoder_backend' = FALSE
        /\ ref_count' = Released(count, decoder_backend) /\ UNCHANGED encoder_backend
    BY <2>1 DEF BeginLoad, UnloadTransformer, UnloadDecoder
  <2>3. count \in Nat /\ d + e <= count
    <3>1. Holds(transformer_backend) + (d + e) <= ref_count
      BY <1>b
    <3> HIDE DEF d, e
    <3>2. d + e \in Nat
      BY <1>b
    <3>3. QED BY <1>a, <3>1, <3>2, ReleaseKeepsOthers
  <2>4. ref_count' \in Nat /\ e <= ref_count'
    <3> HIDE DEF count, e
    <3>1. QED BY <1>a, <1>b, <2>2, <2>3, ReleaseKeepsOthers
  <2>5. Holds(transformer_backend') = 0 /\ Holds(decoder_backend') = 0
    BY <2>2, HoldsValue
  <2>6. QED BY <1>b, <2>2, <2>4, <2>5 DEF BackendOutlivesUsers
<1>3. CASE TransformerLoads
  <2> DEFINE count == Released(ref_count, transformer_backend)
  <2>1. count \in Nat /\ d + e <= count
    <3>1. Holds(transformer_backend) + (d + e) <= ref_count
      BY <1>b
    <3> HIDE DEF d, e
    <3>2. d + e \in Nat
      BY <1>b
    <3>3. QED BY <1>a, <3>1, <3>2, ReleaseKeepsOthers
  <2>2. transformer_backend' = TRUE /\ ref_count' = count + 1
    BY <1>3 DEF TransformerLoads, LoadTransformer
  <2>3. UNCHANGED <<decoder_backend, encoder_backend>>
    BY <1>3 DEF TransformerLoads
  <2>4. Holds(transformer_backend') + d + e <= ref_count'
    <3>1. \/ Holds(transformer_backend') = 1 /\ ref_count' = count + 1
          \/ Holds(transformer_backend') = 0 /\ ref_count' = count
      BY <2>2, HoldsValue
    <3> HIDE DEF count, t, d, e
    <3>2. QED BY <1>b, <2>1, <3>1
  <2>5. Holds(transformer_backend') \in Nat
    BY <2>2, HoldsValue
  <2>6. QED BY <2>3, <2>4, <2>5 DEF BackendOutlivesUsers
<1>4. CASE TransformerLoadFails
  <2> DEFINE count == Released(ref_count, transformer_backend)
  <2>1. count \in Nat /\ d + e <= count
    <3>1. Holds(transformer_backend) + (d + e) <= ref_count
      BY <1>b
    <3> HIDE DEF d, e
    <3>2. d + e \in Nat
      BY <1>b
    <3>3. QED BY <1>a, <3>1, <3>2, ReleaseKeepsOthers
  <2>2. \/ transformer_backend' = TRUE /\ ref_count' = count + 1
        \/ transformer_backend' = FALSE /\ ref_count' = count
    <3>1. PICK outcome \in TransformerOutcomes \ {"loaded"} : LoadTransformer(outcome)
      BY <1>4 DEF TransformerLoadFails
    <3>2. CASE outcome = "unscheduled"
      BY <3>1, <3>2 DEF LoadTransformer
    <3>3. CASE outcome # "unscheduled"
      <4>1. (outcome \in {"loaded", "unscheduled"}) = FALSE
        BY <3>3
      <4>2. QED BY <3>1, <4>1 DEF LoadTransformer
    <3>4. QED BY <3>2, <3>3
  <2>3. UNCHANGED <<decoder_backend, encoder_backend>>
    BY <1>4 DEF TransformerLoadFails
  <2>4. Holds(transformer_backend') + d + e <= ref_count'
    <3>1. \/ Holds(transformer_backend') = 1 /\ ref_count' = count + 1
          \/ Holds(transformer_backend') = 0 /\ ref_count' = count
      BY <2>2, HoldsValue
    <3> HIDE DEF count, t, d, e
    <3>2. QED BY <1>b, <2>1, <3>1
  <2>5. Holds(transformer_backend') \in Nat
    BY <2>2, HoldsValue
  <2>6. QED BY <2>3, <2>4, <2>5 DEF BackendOutlivesUsers
<1>5. CASE VocoderLoads
  <2> DEFINE count == Released(ref_count, decoder_backend)
  <2>1. count \in Nat /\ t + e <= count
    <3>1. Holds(decoder_backend) + (t + e) <= ref_count
      BY <1>b
    <3> HIDE DEF t, e
    <3>2. t + e \in Nat
      BY <1>b
    <3>3. QED BY <1>a, <3>1, <3>2, ReleaseKeepsOthers
  <2>2. decoder_backend' = TRUE /\ ref_count' = count + 1
    BY <1>5 DEF VocoderLoads, LoadDecoder
  <2>3. UNCHANGED <<transformer_backend, encoder_backend>>
    BY <1>5 DEF VocoderLoads
  <2>4. Holds(decoder_backend') + t + e <= ref_count'
    <3>1. \/ Holds(decoder_backend') = 1 /\ ref_count' = count + 1
          \/ Holds(decoder_backend') = 0 /\ ref_count' = count
      BY <2>2, HoldsValue
    <3> HIDE DEF count, t, d, e
    <3>2. QED BY <1>b, <2>1, <3>1
  <2>5. Holds(decoder_backend') \in Nat
    BY <2>2, HoldsValue
  <2>6. QED BY <1>b, <2>3, <2>4, <2>5 DEF BackendOutlivesUsers
<1>6. CASE VocoderLoadFails
  <2> DEFINE count == Released(ref_count, decoder_backend)
  <2>1. count \in Nat /\ t + e <= count
    <3>1. Holds(decoder_backend) + (t + e) <= ref_count
      BY <1>b
    <3> HIDE DEF t, e
    <3>2. t + e \in Nat
      BY <1>b
    <3>3. QED BY <1>a, <3>1, <3>2, ReleaseKeepsOthers
  <2>2. \/ decoder_backend' = TRUE /\ ref_count' = count + 1
        \/ decoder_backend' = FALSE /\ ref_count' = count
    <3>1. PICK outcome \in DecoderOutcomes \ {"loaded"} : LoadDecoder(outcome)
      BY <1>6 DEF VocoderLoadFails
    <3>2. CASE outcome = "unread"
      BY <3>1, <3>2 DEF LoadDecoder
    <3>3. CASE outcome # "unread"
      <4>1. (outcome \in {"loaded", "unread"}) = FALSE
        BY <3>3
      <4>2. QED BY <3>1, <4>1 DEF LoadDecoder
    <3>4. QED BY <3>2, <3>3
  <2>3. UNCHANGED <<transformer_backend, encoder_backend>>
    BY <1>6 DEF VocoderLoadFails
  <2>4. Holds(decoder_backend') + t + e <= ref_count'
    <3>1. \/ Holds(decoder_backend') = 1 /\ ref_count' = count + 1
          \/ Holds(decoder_backend') = 0 /\ ref_count' = count
      BY <2>2, HoldsValue
    <3> HIDE DEF count, t, d, e
    <3>2. QED BY <1>b, <2>1, <3>1
  <2>5. Holds(decoder_backend') \in Nat
    BY <2>2, HoldsValue
  <2>6. QED BY <1>b, <2>3, <2>4, <2>5 DEF BackendOutlivesUsers
<1>7. CASE FinishLoad
  BY <1>7 DEF BackendOutlivesUsers, FinishLoad
<1>8. CASE EncoderLoads
  <2>1. \/ ref_count' = ref_count + 1 /\ encoder_backend' = TRUE
        \/ ref_count' = ref_count /\ (encoder_backend' = encoder_backend \/ encoder_backend' = FALSE)
    BY <1>8 DEF EncoderLoads, LoadEncoder
  <2>2. UNCHANGED <<transformer_backend, decoder_backend>>
    BY <1>8 DEF EncoderLoads
  <2>3. \/ ref_count' = ref_count + 1 /\ Holds(encoder_backend') = 1
        \/ ref_count' = ref_count /\ Holds(encoder_backend') \in {e, 0}
    BY <2>1, HoldsValue
  <2>4. t + d + Holds(encoder_backend') <= ref_count' /\ Holds(encoder_backend') \in Nat
    <3> HIDE DEF t, d, e
    <3>1. e >= 0
      BY <1>b
    <3>2. QED BY <1>a, <1>b, <2>3
  <2>5. QED BY <1>b, <2>2, <2>4 DEF BackendOutlivesUsers
<1>9. CASE EncoderLoadFails
  <2>1. \/ ref_count' = ref_count + 1 /\ encoder_backend' = TRUE
        \/ ref_count' = ref_count /\ (encoder_backend' = encoder_backend \/ encoder_backend' = FALSE)
    BY <1>9 DEF EncoderLoadFails, LoadEncoder
  <2>2. UNCHANGED <<transformer_backend, decoder_backend>>
    BY <1>9 DEF EncoderLoadFails
  <2>3. \/ ref_count' = ref_count + 1 /\ Holds(encoder_backend') = 1
        \/ ref_count' = ref_count /\ Holds(encoder_backend') \in {e, 0}
    BY <2>1, HoldsValue
  <2>4. t + d + Holds(encoder_backend') <= ref_count' /\ Holds(encoder_backend') \in Nat
    <3> HIDE DEF t, d, e
    <3>1. e >= 0
      BY <1>b
    <3>2. QED BY <1>a, <1>b, <2>3
  <2>5. QED BY <1>b, <2>2, <2>4 DEF BackendOutlivesUsers
<1>10. CASE Generate
  <2>1. CASE UNCHANGED <<transformer_backend, decoder_backend, encoder_backend, ref_count>>
    BY <2>1 DEF BackendOutlivesUsers
  <2>2. CASE /\ transformer_backend' = FALSE /\ ref_count' = Released(ref_count, transformer_backend)
             /\ UNCHANGED <<decoder_backend, encoder_backend>>
    <3>1. Holds(transformer_backend) + (d + e) <= ref_count /\ d + e \in Nat
      BY <1>b
    <3> HIDE DEF d, e
    <3>2. ref_count' \in Nat /\ d + e <= ref_count'
      BY <1>a, <2>2, <3>1, ReleaseKeepsOthers
    <3>3. Holds(transformer_backend') = 0
      BY <2>2, HoldsValue
    <3>4. Holds(transformer_backend') + d + e <= ref_count'
      BY <1>b, <3>2, <3>3
    <3> USE DEF d, e
    <3>5. QED BY <2>2, <3>4 DEF BackendOutlivesUsers
  <2>3. QED BY <1>10, <2>1, <2>2 DEF Generate, UnloadTransformer
<1>11. CASE Finish
  <2>1. CASE UNCHANGED <<transformer_backend, decoder_backend, encoder_backend, ref_count>>
    BY <2>1 DEF BackendOutlivesUsers
  <2>2. CASE /\ decoder_backend' = FALSE /\ ref_count' = Released(ref_count, decoder_backend)
             /\ UNCHANGED <<transformer_backend, encoder_backend>>
    <3>1. Holds(decoder_backend) + (t + e) <= ref_count /\ t + e \in Nat
      BY <1>b
    <3> HIDE DEF t, e
    <3>2. ref_count' \in Nat /\ t + e <= ref_count'
      BY <1>a, <2>2, <3>1, ReleaseKeepsOthers
    <3>3. Holds(decoder_backend') = 0
      BY <2>2, HoldsValue
    <3>4. Holds(decoder_backend') + t + e <= ref_count'
      BY <1>b, <3>2, <3>3
    <3> USE DEF t, e
    <3>5. QED BY <1>b, <2>2, <3>3, <3>4 DEF BackendOutlivesUsers
  <2>3. QED BY <1>11, <2>1, <2>2 DEF Finish, UnloadDecoder
<1>12. QED
  BY NextCases, <1>1, <1>2, <1>3, <1>4, <1>5, <1>6, <1>7, <1>8, <1>9, <1>10, <1>11 DEF
    Quiet

\* The transformer is gone before the vocoder comes.
LEMMA LowMemoryStep ==
  ASSUME ModelAssumption, IInv, [Next]_vars
  PROVE  LowMemoryHoldsOneModel'
<1> USE DEF IInv, flags, speech, vocoder, cloner, request
<1>1. CASE \E m \in Models, low_mem \in BOOLEAN : BeginLoad(m, low_mem)
  BY <1>1 DEF LowMemoryHoldsOneModel, CallInv, BeginLoad, UnloadTransformer
<1>2. CASE Refuse
  BY <1>2 DEF LowMemoryHoldsOneModel, CallInv, Refuse
<1>3. CASE Starts
  BY <1>3 DEF LowMemoryHoldsOneModel, CallInv, Starts, Begin, GoTo
<1>4. CASE Ends
  BY <1>4 DEF LowMemoryHoldsOneModel, CallInv, Ends, Return
<1>5. CASE VoiceEncoded
  BY <1>5 DEF LowMemoryHoldsOneModel, CallInv, VoiceEncoded, GoTo
<1>6. CASE LoadTokenizer
  BY <1>6 DEF LowMemoryHoldsOneModel, CallInv, LoadTokenizer, GoTo
<1>7. CASE TransformerLoads
  BY <1>7 DEF LowMemoryHoldsOneModel, CallInv, TransformerLoads, GoTo, SpeechStage
<1>8. CASE TransformerLoadFails
  BY <1>8 DEF LowMemoryHoldsOneModel, CallInv, TransformerLoadFails, LoadTransformer,
    Return
<1>9. CASE VocoderLoads
  BY <1>9 DEF LowMemoryHoldsOneModel, CallInv, VocoderLoads, GoTo
<1>10. CASE VocoderLoadFails
  BY <1>10 DEF LowMemoryHoldsOneModel, CallInv, VocoderLoadFails, LoadDecoder, Return
<1>11. CASE FinishLoad
  BY <1>11 DEF LowMemoryHoldsOneModel, CallInv, FinishLoad, Return
<1>12. CASE ResolveSpeaker
  BY <1>12 DEF LowMemoryHoldsOneModel, CallInv, ResolveSpeaker, GoTo
<1>13. CASE EncoderLoads
  BY <1>13 DEF LowMemoryHoldsOneModel, CallInv, EncoderLoads, GoTo
<1>14. CASE EncoderLoadFails
  BY <1>14 DEF LowMemoryHoldsOneModel, CallInv, EncoderLoadFails, LoadEncoder, Return
<1>15. CASE \E instruction \in Texts \cup {NoText} : TokeniseInstruction(instruction)
  BY <1>15 DEF LowMemoryHoldsOneModel, CallInv, TokeniseInstruction, TokeniseCached,
    TokeniseUncached, Return, GoTo, AfterTokens, SpeechStage
<1>16. CASE Generate
  BY <1>16 DEF LowMemoryHoldsOneModel, CallInv, Generate, GoTo, UnloadTransformer
<1>17. CASE Decode
  BY <1>17 DEF LowMemoryHoldsOneModel, CallInv, Decode
<1>18. CASE Finish
  BY <1>18 DEF LowMemoryHoldsOneModel, CallInv, Finish, Return
<1>19. CASE UNCHANGED vars
  BY <1>19 DEF LowMemoryHoldsOneModel, CallInv, vars
<1>20. QED
  BY NextCases, <1>1, <1>2, <1>3, <1>4, <1>5, <1>6, <1>7, <1>8, <1>9, <1>10, <1>11,
    <1>12, <1>13, <1>14, <1>15, <1>16, <1>17, <1>18, <1>19

-----------------------------------------------------------------------------

\* A new engine satisfies the invariant.
LEMMA InitIInv ==
  ASSUME ModelAssumption, Init
  PROVE  IInv
<1> USE DEF Init
<1>1. TypeOK
  <2>1. NoCall \in SynthesisCalls \cup OtherCalls
    BY DEF NoCall, OtherCalls
  <2>2. CallTypes
    BY <2>1 DEF CallTypes, Stages
  <2>3. FlagTypes /\ ComponentTypes
    BY DEF FlagTypes, ComponentTypes
  <2>4. TokenTypes
    BY NoTokensType DEF TokenTypes
  <2>5. QED BY <2>2, <2>3, <2>4 DEF TypeOK
<1>2. FlagsInv /\ StageInv /\ LowMemoryHoldsOneModel
  BY DEF FlagsInv, StageInv, LoadStages, LowMemoryHoldsOneModel
<1>3. CallInv
  BY DEF CallInv, LoadStages, NoTokens, NoCall
<1>4. LoadInv
  BY DEF LoadInv
<1>5. CacheIsCurrent
  BY DEF CacheIsCurrent
<1>6. BackendOutlivesUsers
  <2>1. /\ Holds(transformer_backend) = 0 /\ Holds(decoder_backend) = 0
        /\ Holds(encoder_backend) = 0
    BY HoldsValue
  <2>2. QED BY <2>1 DEF BackendOutlivesUsers
<1>7. QED BY <1>1, <1>2, <1>3, <1>4, <1>5, <1>6 DEF IInv

\* Every step keeps the invariant.
LEMMA StepIInv ==
  ASSUME ModelAssumption, IInv, [Next]_vars
  PROVE  IInv'
<1>1. TypeOK'
  BY FlagTypesStep, ComponentTypesStep, CallTypesStep, TokenTypesStep, RefCountStep
    DEF TypeOK
<1>2. FlagsInv' /\ StageInv' /\ CallInv' /\ LoadInv'
  BY FlagsStep, StageStep, CallStep, LoadStep
<1>3. CacheIsCurrent' /\ BackendOutlivesUsers' /\ LowMemoryHoldsOneModel'
  BY CacheStep, BackendStep, LowMemoryStep
<1>4. QED BY <1>1, <1>2, <1>3 DEF IInv

\* Whatever is loaded, requested and fails, the invariant holds.
THEOREM EngineInvariance == Spec => []IInv
<1>1. Init => IInv
  BY InitIInv, ModelAssumption
<1>2. IInv /\ [Next]_vars => IInv'
  BY StepIInv, ModelAssumption
<1>3. QED BY <1>1, <1>2, PTL DEF Spec

\* Every variable keeps its range, over any sequence of loads and requests.
THEOREM EngineTyping == Spec => []TypeOK
<1>1. IInv => TypeOK
  BY DEF IInv
<1>2. QED BY <1>1, EngineInvariance, PTL

\* A component is only asked to work when it is complete and the backend it
\* computes on is held: for any models and any sequence of failed loads.
THEOREM UsesOnlyWhatIsLoaded == Spec => []NothingUsedUnloaded
<1>1. IInv => NothingUsedUnloaded
  <2>1. SUFFICES ASSUME FlagsInv, StageInv
                 PROVE  NothingUsedUnloaded
    BY DEF IInv
  <2>2. stage = "generate" => transformer_ = tts_model_path_ /\ transformer_backend
    BY <2>1 DEF FlagsInv, StageInv
  <2>3. stage = "generate" /\ call.mode = "stream" => decoder_ /\ decoder_backend
    BY <2>1 DEF FlagsInv, StageInv
  <2>4. stage \in {"decode", "decode_codes"} => decoder_ /\ decoder_backend
    BY <2>1 DEF FlagsInv, StageInv
  <2>5. stage = "encode" => encoder_ = tts_model_path_ /\ encoder_backend
    BY <2>1 DEF FlagsInv, StageInv
  <2>6. QED BY <2>2, <2>3, <2>4, <2>5 DEF NothingUsedUnloaded
<1>2. QED BY <1>1, EngineInvariance, PTL

\* No load leaves instruction tokens of another vocabulary in the cache.
THEOREM CacheStaysCurrent == Spec => []CacheIsCurrent
<1>1. IInv => CacheIsCurrent
  BY DEF IInv
<1>2. QED BY <1>1, EngineInvariance, PTL

\* The shared backend is not freed while a component holds it.
THEOREM BackendStaysAlive == Spec => []BackendOutlivesUsers
<1>1. IInv => BackendOutlivesUsers
  BY DEF IInv
<1>2. QED BY <1>1, EngineInvariance, PTL

\* After a successful load one model speaks: its transformer, tokens of its
\* vocabulary and a voice of its dimension.
THEOREM SpeechIsOfOneModel == Spec => []OneModelSpeaks
<1>1. IInv => OneModelSpeaks
  <2>1. SUFFICES ASSUME IInv, last_load = "ok", stage = "generate"
                 PROVE  /\ transformer_ = tts_model_path_ /\ config = tts_model_path_
                        /\ tts_model_path_ \in tokenizer_
                        /\ tokens.vocab \in {{}, tokenizer_}
                        /\ voice \in {0, HiddenSize[transformer_]}
    BY DEF OneModelSpeaks
  <2>2. transformer_ = tts_model_path_ /\ config = tts_model_path_
    BY <2>1 DEF IInv, StageInv, FlagsInv
  <2>3. tts_model_path_ \in tokenizer_ /\ voice \in {0, HiddenSize[config]}
    BY <2>1 DEF IInv, LoadInv
  <2>4. tokens.vocab \in {{}, tokenizer_}
    BY <2>1 DEF IInv, CallInv
  <2>5. QED BY <2>2, <2>3, <2>4
<1>2. QED BY <1>1, EngineInvariance, PTL

\* In low-memory mode the transformer is gone before the vocoder comes.
THEOREM LowMemoryIsHonoured == Spec => []LowMemoryHoldsOneModel
<1>1. IInv => LowMemoryHoldsOneModel
  BY DEF IInv
<1>2. QED BY <1>1, EngineInvariance, PTL

-----------------------------------------------------------------------------
(* When UnloadIsTransparent holds: a run shows that in low-memory mode a   *)
(* request for a named speaker is refused; outside it none ever is.        *)

\* Outside low-memory mode the model that was loaded stays.
Kept == last_load = "ok" /\ ~low_mem_mode_ => transformer_loaded_

\* Outside low-memory mode the promise of UnloadIsTransparent is kept.
Unrefused == ~low_mem_mode_ => UnloadIsTransparent

\* No request and no failure takes the model away.
LEMMA KeptStep ==
  ASSUME IInv, Kept, [Next]_vars
  PROVE  Kept'
<1> USE DEF flags, speech, vocoder, cloner, request
<1>1. CASE \E m \in Models, low_mem \in BOOLEAN : BeginLoad(m, low_mem)
  BY <1>1 DEF Kept, BeginLoad
<1>2. CASE Quiet
  <2>1. UNCHANGED flags
    BY <1>2, QuietSteps
  <2>2. last_load' = "ok" => last_load = "ok"
    <3>1. CASE Ends
      BY <3>1 DEF Ends, Return
    <3>2. CASE \E instruction \in Texts \cup {NoText} : TokeniseInstruction(instruction)
      BY <3>2 DEF TokeniseInstruction, TokeniseCached, TokeniseUncached, Return, GoTo,
        IInv, CallInv, LoadStages
    <3>3. CASE Refuse \/ Starts \/ VoiceEncoded
      BY <3>3 DEF Refuse, Starts, Begin, VoiceEncoded, GoTo
    <3>4. CASE LoadTokenizer \/ ResolveSpeaker \/ Decode \/ UNCHANGED vars
      BY <3>4 DEF LoadTokenizer, ResolveSpeaker, Decode, GoTo, vars
    <3>5. QED BY <1>2, <3>1, <3>2, <3>3, <3>4 DEF Quiet
  <2>3. QED BY <2>1, <2>2 DEF Kept
<1>3. CASE TransformerLoads
  BY <1>3 DEF Kept, TransformerLoads
<1>4. CASE TransformerLoadFails
  <2>1. last_load' = "ok" => last_load = "ok"
    BY <1>4 DEF TransformerLoadFails, Return
  <2>2. UNCHANGED flags
    BY <1>4 DEF TransformerLoadFails
  <2>3. QED BY <2>1, <2>2 DEF Kept
<1>5. CASE VocoderLoads \/ EncoderLoads
  BY <1>5 DEF Kept, VocoderLoads, EncoderLoads, GoTo
<1>6. CASE VocoderLoadFails \/ EncoderLoadFails
  <2>1. last_load' = "ok" => last_load = "ok"
    BY <1>6 DEF VocoderLoadFails, EncoderLoadFails, Return
  <2>2. UNCHANGED flags
    BY <1>6 DEF VocoderLoadFails, EncoderLoadFails
  <2>3. QED BY <2>1, <2>2 DEF Kept
<1>7. CASE FinishLoad
  BY <1>7 DEF FinishLoad, Kept, IInv, StageInv
<1>8. CASE Generate
  BY <1>8 DEF Generate, Kept, GoTo
<1>9. CASE Finish
  <2>1. last_load' = "ok" => last_load = "ok"
    BY <1>9 DEF Finish, Return, IInv, CallInv, LoadStages
  <2>2. UNCHANGED <<transformer_loaded_, low_mem_mode_>>
    BY <1>9 DEF Finish
  <2>3. QED BY <2>1, <2>2 DEF Kept
<1>10. QED
  BY NextCases, <1>1, <1>2, <1>3, <1>4, <1>5, <1>6, <1>7, <1>8, <1>9 DEF Quiet

\* Only a request for a named speaker is refused for a missing model.
LEMMA OnlySpeakersAreRefused ==
  ASSUME Next, reply' = "model not loaded"
  PROVE  SpeakerUnknown /\ transformer_ = NoModel
<1> USE DEF Return, GoTo, Begin, Refuse
<1>1. CASE \E m \in Models, low_mem \in BOOLEAN : BeginLoad(m, low_mem)
  BY <1>1 DEF BeginLoad
<1>2. CASE RefuseAtOnce \/ DecodeBatch \/ EncodeVoice([kind |-> "extract", mode |-> "none"])
  BY <1>2 DEF RefuseAtOnce, DecodeBatch, EncodeVoice
<1>3. CASE Synthesize
  BY <1>3 DEF Synthesize, SynthesizeDefault, SynthesizeNamed, SynthesizeWithEmbedding,
    EncodeVoice
<1>4. CASE \E instruction \in Texts \cup {NoText} : TokeniseInstruction(instruction)
  BY <1>4 DEF TokeniseInstruction, TokeniseCached, TokeniseUncached
<1>5. CASE SpeakerUnknown
  BY <1>5 DEF SpeakerUnknown
<1>6. CASE Continue /\ ~SpeakerUnknown
  BY <1>6 DEF Continue, LoadTokenizer, LoadTokenizerFails, TransformerLoads,
    TransformerLoadFails, VocoderLoads, VocoderLoadFails, FinishLoad, ResolveSpeaker,
    EncoderLoads, EncoderLoadFails, EncodeVoiceFits, EncodeVoiceFails, TokeniseFails,
    Generate, Decode, SpeechFails, Finish, DecodeCodes
<1>7. QED
  BY <1>1, <1>2, <1>3, <1>4, <1>5, <1>6 DEF Next

\* No request is refused for a model that is kept.
LEMMA UnrefusedStep ==
  ASSUME IInv, Kept, Unrefused, [Next]_vars
  PROVE  Unrefused'
<1>1. CASE UNCHANGED vars
  BY <1>1 DEF Unrefused, UnloadIsTransparent, vars, flags
<1>2. CASE Next
  <2>1. SUFFICES ASSUME ~low_mem_mode_', reply' = "model not loaded", last_load' = "ok"
                 PROVE  FALSE
    BY DEF Unrefused, UnloadIsTransparent
  <2>2. SpeakerUnknown /\ transformer_ = NoModel
    BY <1>2, <2>1, OnlySpeakersAreRefused
  <2>3. UNCHANGED flags /\ last_load = "ok"
    BY <2>1, <2>2 DEF SpeakerUnknown, Return, IInv, CallInv, LoadStages
  <2>4. transformer_loaded_
    BY <2>1, <2>3 DEF Kept, flags
  <2>5. transformer_ = config /\ (models_loaded_ => config \in Models)
    BY <2>4 DEF IInv, FlagsInv
  <2>6. models_loaded_
    BY <2>2 DEF SpeakerUnknown, IInv, StageInv, LoadStages
  <2>7. QED
    BY <2>2, <2>5, <2>6, ModelAssumption DEF ModelAssumption
<1>3. QED
  BY <1>1, <1>2

\* Outside low-memory mode a model, once loaded, stays loaded until the next load,
\* and no request is refused for want of it, whatever fails in between.
THEOREM ModelStaysLoaded == Spec => [](Kept /\ Unrefused)
<1>1. Init => Kept /\ Unrefused
  BY DEF Init, Kept, Unrefused, UnloadIsTransparent
<1>2. IInv /\ Kept /\ Unrefused /\ [Next]_vars => Kept' /\ Unrefused'
  BY KeptStep, UnrefusedStep
<1>3. QED
  BY <1>1, <1>2, EngineInvariance, PTL DEF Spec
====
