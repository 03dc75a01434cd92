----------------------------- MODULE TalkerPrompt -----------------------------
(***************************************************************************)
(* How the tokenizer lays out the tokens of a text and how the talker      *)
(* turns them into the rows it is fed: the prompt, then one row per frame. *)
(* A row is the sum of a text embedding and a codec embedding; the model   *)
(* keeps which ones, and abstracts the numbers.                            *)
(*                                                                         *)
(* A request is [text, instruct, language, speaker, max_len]: how many     *)
(* tokens the text and the instruction have (the engine refuses an empty   *)
(* text), whether a language and a speaker are given, the token limit.     *)
(***************************************************************************)
EXTENDS Integers

TalkerRequest ==
  [text : Nat \ {0}, instruct : Nat, language : BOOLEAN, speaker : BOOLEAN,
   max_len : Int]

-------------------------------------------------------------------------------
(* The tokens of a text: "<|im_start|>assistant\n", the text, and            *)
(* "<|im_end|>\n<|im_start|>assistant\n".                                    *)

RoleTokens == 3
SuffixTokens == 5

NTokens(r) == RoleTokens + r.text + SuffixTokens

TextToken(r, k) ==
  CASE k < RoleTokens          -> <<"role", k>>
    [] k < RoleTokens + r.text -> <<"word", k - RoleTokens>>
    [] OTHER                   -> <<"suffix", k - RoleTokens - r.text>>

-------------------------------------------------------------------------------
(* The prompt.                                                               *)

None == <<"none", 0>>
TtsBos == <<"tts_bos", 0>>
TtsEos == <<"tts_eos", 0>>
TtsPad == <<"tts_pad", 0>>

CodecPrefillTokens(r) == IF r.language THEN 4 ELSE 3

CodecInputLen(r) == CodecPrefillTokens(r) + (IF r.speaker THEN 1 ELSE 0) + 2

CodecInput(r, t) ==
  CASE t = CodecInputLen(r) - 1  -> <<"codec_bos", 0>>
    [] t = CodecInputLen(r) - 2  -> <<"codec_pad", 0>>
    [] t < CodecPrefillTokens(r) -> <<"codec_prefill", t>>
    [] OTHER                     -> <<"speaker", 0>>

OverlayLen(r) == CodecInputLen(r) - 1

PrefillLen(r) == r.instruct + RoleTokens + OverlayLen(r) + 1

OverlayText(r, t) == IF t = OverlayLen(r) - 1 THEN TtsBos ELSE TtsPad

\* The text and the codec embedding of the prompt's row p.
PromptText(r, p) ==
  LET q == p - r.instruct IN
  CASE q < 0                          -> <<"instruct", p>>
    [] q \in 0 .. RoleTokens - 1      -> TextToken(r, q)
    [] q = RoleTokens + OverlayLen(r) -> TextToken(r, RoleTokens)
    [] OTHER                          -> OverlayText(r, q - RoleTokens)

PromptCodec(r, p) ==
  LET q == p - r.instruct - RoleTokens IN
  IF q < 0 THEN None ELSE CodecInput(r, q)

\* Mutant: the suffix is kept as one token shorter than it is.
TrailingTokensLong(r) == NTokens(r) - 4 - 4

\* How many tokens of the text the prompt leaves for the frames.
TrailingTokens(r) ==
  IF NTokens(r) - 4 - SuffixTokens > 0 THEN NTokens(r) - 4 - SuffixTokens ELSE 0

\* The text row added to frame number f: the rest of the text, then the end
\* of the text, then padding.
TrailingText(r, f) ==
  CASE f < TrailingTokens(r) -> TextToken(r, 4 + f)
    [] f = TrailingTokens(r) -> TtsEos
    [] OTHER                 -> TtsPad
===============================================================================
