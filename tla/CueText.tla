------------------------------- MODULE CueText -------------------------------
(***************************************************************************)
(* Transcript texts, as far as the translation pipeline tells them apart.  *)
(* A text is its words and the kind of whitespace between them: gap 0 is   *)
(* "run together", 1 a single space, 2 anything wider.  The conversions    *)
(* the code applies to a text before it compares two of them are the       *)
(* operators below; a text is never identified with its converted form.    *)
(***************************************************************************)
EXTENDS Naturals, Sequences

\* translation_scheduler.rs, normalize_sentence_key: runs of whitespace become
\* one space; words that touch stay together.
normalize_sentence_key(t) == [t EXCEPT !.gap = IF @ = 0 THEN 0 ELSE 1]

\* translation_lifecycle.rs, comparison_text: whitespace is deleted.
comparison_text(t) == t.words

\* String::len of a text of one-character words.
TextLen(t) ==
  Len(t.words) + (IF Len(t.words) = 0 THEN 0 ELSE t.gap * (Len(t.words) - 1))

IsEmptyText(t) == TextLen(t) = 0

\* String::starts_with on the compared forms.
StartsWith(words, prefix) ==
  /\ Len(prefix) <= Len(words)
  /\ SubSeq(words, 1, Len(prefix)) = prefix

\* translation_lifecycle.rs, source_replaces_revision: the incoming text is
\* neither the previous one nor a continuation of it.
source_replaces_revision(previous, incoming) ==
  /\ comparison_text(previous) # << >>
  /\ comparison_text(previous) # comparison_text(incoming)
  /\ ~StartsWith(comparison_text(incoming), comparison_text(previous))
==============================================================================
