----------------------------- MODULE MCTranslate -----------------------------
(***************************************************************************)
(* Instances of TranslateWorker.  MCTexts are transcripts none of which    *)
(* continues another; GrownTexts is a transcript and its continuation;     *)
(* RespacedTexts is one transcript with two spacings.                      *)
(***************************************************************************)
EXTENDS TranslateWorker

Text(words, gap) == [words |-> words, gap |-> gap]

MCTexts == {Text(<<"a", "b">>, 1), Text(<<"c">>, 1)}

GrownTexts == {Text(<<"a">>, 1), Text(<<"a", "b">>, 1)}

RespacedTexts == {Text(<<"a", "b">>, 1), Text(<<"a", "b">>, 2)}

MCSameLanguage == {Text(<<"c">>, 1)}
=============================================================================
