--------------------------- MODULE MCPromptCache ---------------------------
(***************************************************************************)
(* Small instances of PromptCache.  With NCtx = 4 the prompts below are    *)
(* equal to, prefixes of, extensions of and different from each other and  *)
(* from the sessions that generation makes of them; the last is too long.  *)
(***************************************************************************)
EXTENDS PromptCache

MCPrompts == {<<"a">>, <<"a", "b">>, <<"b", "a">>, <<"a", "b", "a">>, <<"a", "b", "a", "b">>}
EveryFile == [c \in Ctx |-> File]
MCLeftovers == {<<"b", "a">>}
=============================================================================
