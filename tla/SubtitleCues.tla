---------------------------- MODULE SubtitleCues ----------------------------
(***************************************************************************)
(* The subtitle overlay of AudioStateStore (audio/state.rs, state/*.rs):   *)
(* the live cue and the recent cues, newest first.  Every public method    *)
(* changes the overlay in one critical section of the SubtitleStore mutex, *)
(* so each is an operator from overlay to overlay; the modules that use    *)
(* them say which thread runs it.  A cue keeps the fields its life cycle   *)
(* reads; display rows, timestamps, latency metrics and the derived queue  *)
(* counters are left out, and so are the archive and report records made   *)
(* from a cue after it has changed.                                        *)
(***************************************************************************)
EXTENDS CueText, Subsequences, SequencesExt

CONSTANTS
  MAX_UNFINISHED_SUBTITLE_CUES,
  SUBTITLE_BASELINE_LIMIT        \* recent cues a snapshot carries

ASSUME CueLimitAssumption ==
  {MAX_UNFINISHED_SUBTITLE_CUES, SUBTITLE_BASELINE_LIMIT} \subseteq Nat \ {0}

Pending == "pending"
Streaming == "streaming"
FinalState == "final"
ErrorState == "error"

Terminal(state) == state \in {FinalState, ErrorState}

\* A translated text is known by what produced it: the source it translates,
\* whole or in part, or failed to.
EmptyTranslation == [kind |-> "empty", of |-> << >>]
Translation(text) == [kind |-> "full", of |-> text]
PartialTranslation(text) == [kind |-> "partial", of |-> text]
FailureNotice(text) == [kind |-> "failure", of |-> text]

NoCue == << >>

EmptyOverlay == [active_cue |-> NoCue, recent_cues |-> << >>]

new_subtitle_cue(cue_id, direction, text, committed, sequence) ==
  [cue_id |-> cue_id, revision |-> 1, sequence |-> sequence,
   route_direction |-> direction, source_text |-> text,
   translated_text |-> EmptyTranslation, committed |-> committed,
   translation_committed |-> FALSE, translation_state |-> Pending]

-----------------------------------------------------------------------------
(* Finding and keeping cues *)

CueIdsOf(overlay) == {overlay.recent_cues[i].cue_id : i \in DOMAIN overlay.recent_cues}

HasCue(overlay, cue_id) == cue_id \in CueIdsOf(overlay)

\* iter().find: the newest cue of that id.
FirstIndex(overlay, cue_id) ==
  SelectInSeq(overlay.recent_cues, LAMBDA cue : cue.cue_id = cue_id)

FindCue(overlay, cue_id) == overlay.recent_cues[FirstIndex(overlay, cue_id)]

\* AudioStateStore::snapshot: the newest recent cues only.
snapshot(overlay) ==
  [overlay EXCEPT
     !.recent_cues =
        SubSeq(@, 1, Min({Len(@), SUBTITLE_BASELINE_LIMIT}))]

ActiveIs(overlay, cue_id) ==
  overlay.active_cue # NoCue /\ overlay.active_cue.cue_id = cue_id

cue_needs_more_time(cue) == ~cue.committed \/ ~Terminal(cue.translation_state)

UnfinishedUpTo(recent, i) == {k \in 1..i : cue_needs_more_time(recent[k])}

\* The oldest unfinished cues beyond the limit leave; finished ones are the
\* session's history and stay.
trim_recent_subtitle_cues(recent) ==
  AtIndexes(recent, {i \in DOMAIN recent :
                       \/ ~cue_needs_more_time(recent[i])
                       \/ Cardinality(UnfinishedUpTo(recent, i))
                            <= MAX_UNFINISHED_SUBTITLE_CUES})

\* The cues of that id, live and recent.
CuesOf(overlay, cue_id) ==
  {cue \in {overlay.recent_cues[i] : i \in DOMAIN overlay.recent_cues}
            \cup ({overlay.active_cue} \ {NoCue}) : cue.cue_id = cue_id}

\* The first recent cue of that id, and the live cue if it is the same one,
\* become what the function changed makes of them.
ChangeCue(overlay, cue_id, changed) ==
  [active_cue |-> IF ActiveIs(overlay, cue_id) THEN changed[overlay.active_cue]
                  ELSE overlay.active_cue,
   recent_cues |-> [overlay.recent_cues EXCEPT
                      ![FirstIndex(overlay, cue_id)] = changed[@]]]

\* insert(0, cue), as the live cue.
InsertCue(overlay, cue) ==
  [active_cue |-> cue,
   recent_cues |-> trim_recent_subtitle_cues(<< cue >> \o overlay.recent_cues)]

-----------------------------------------------------------------------------
(* Transcript updates *)

apply_source_update(cue, text, committed, sequence) ==
  LET semantic == comparison_text(cue.source_text) # comparison_text(text)
  IN  [cue EXCEPT
         !.revision =
            IF semantic /\ source_replaces_revision(cue.source_text, text)
            THEN @ + 1 ELSE @,
         !.sequence =
            IF cue.source_text # text \/ cue.committed # committed
            THEN sequence ELSE @,
         !.translation_committed = IF semantic THEN FALSE ELSE @,
         !.translation_state = IF semantic THEN Pending ELSE @,
         !.source_text = text,
         !.committed = committed]

\* A late partial that is shorter than the committed transcript is ignored.
LatePartial(cue, text, committed) ==
  /\ cue.committed
  /\ ~committed
  /\ ~IsEmptyText(text)
  /\ TextLen(text) < TextLen(cue.source_text)

update_or_push_stt_cue(overlay, cue_id, direction, text, committed, sequence) ==
  LET updated == [cue \in CuesOf(overlay, cue_id) |->
                    IF LatePartial(cue, text, committed) THEN cue
                    ELSE apply_source_update(cue, text, committed, sequence)]
  IN  IF HasCue(overlay, cue_id) THEN ChangeCue(overlay, cue_id, updated)
      ELSE InsertCue(overlay,
             new_subtitle_cue(cue_id, direction, text, committed, sequence))

commit_stt_cue(overlay, cue_id, direction, text, sequence) ==
  LET updated == [cue \in CuesOf(overlay, cue_id) |->
                    apply_source_update(cue, text, TRUE, sequence)]
  IN  IF HasCue(overlay, cue_id) THEN ChangeCue(overlay, cue_id, updated)
      ELSE InsertCue(overlay,
             new_subtitle_cue(cue_id, direction, text, TRUE, sequence))

-----------------------------------------------------------------------------
(* Translation updates.  expected_revision is 0 for None. *)

transition_allowed(current, incoming) ==
  CASE current = Pending -> TRUE
    [] current = Streaming -> incoming # Pending
    [] OTHER -> FALSE

AllowedAtAnyRevision(cue, expected_revision, state) ==
  transition_allowed(cue.translation_state, state)

translation_update_allowed(cue, expected_revision, state) ==
  /\ expected_revision \in {0, cue.revision}
  /\ transition_allowed(cue.translation_state, state)

TranslationAccepted(cue, expected_revision, translated, state) ==
  /\ translation_update_allowed(cue, expected_revision, state)
  /\ ~(cue.translation_state = state /\ cue.translated_text = translated)

apply_translation_update(cue, translated, state, sequence) ==
  [cue EXCEPT !.translated_text = translated,
              !.sequence = sequence,
              !.translation_state = state,
              !.translation_committed = (state = FinalState)]

apply_subtitle_cue_translation(overlay, cue_id, expected, translated, state, sequence) ==
  LET updated == [cue \in CuesOf(overlay, cue_id) |->
                    IF TranslationAccepted(cue, expected, translated, state)
                    THEN apply_translation_update(cue, translated, state, sequence)
                    ELSE cue]
  IN  IF /\ HasCue(overlay, cue_id)
         /\ TranslationAccepted(FindCue(overlay, cue_id), expected, translated, state)
      THEN ChangeCue(overlay, cue_id, updated)
      ELSE overlay

mark_subtitle_translation_error(overlay, cue_id, revision, text, sequence) ==
  apply_subtitle_cue_translation(overlay, cue_id, revision, FailureNotice(text),
                                 ErrorState, sequence)

-----------------------------------------------------------------------------
(* Removing cues *)

discard_uncommitted_subtitle_cues(overlay) ==
  [active_cue |-> IF overlay.active_cue # NoCue /\ ~overlay.active_cue.committed
                  THEN NoCue ELSE overlay.active_cue,
   recent_cues |->
      trim_recent_subtitle_cues(
        AtIndexes(overlay.recent_cues,
                  {i \in DOMAIN overlay.recent_cues :
                     overlay.recent_cues[i].committed}))]
=============================================================================
