----------------------------- MODULE StreamLedger -----------------------------
(***************************************************************************)
(* PhysicalTranslationStreamLedger of the native Bridge service            *)
(* (windows/translation.rs): which translated streams are open, which      *)
(* chunk each expects next, and which have had their terminal status.  One *)
(* translation generation is modelled: a Bridge that is replaced starts    *)
(* with the empty ledger.                                                  *)
(***************************************************************************)
EXTENDS Naturals

EmptyLedger == [active |-> [c \in {} |-> 0], completed |-> {}]

IsOpen(l, cue) == cue \in DOMAIN l.active

admission(l, cue, index, kind) ==
  IF cue \in l.completed THEN "Duplicate"
  ELSE IF kind = "Start" THEN
    IF index # 0 THEN "Refused" ELSE IF IsOpen(l, cue) THEN "Duplicate" ELSE "Start"
  ELSE IF ~IsOpen(l, cue) THEN "Refused"
  ELSE LET cursor == l.active[cue]
       IN  CASE kind = "Abort" -> "End"
             [] kind = "Chunk" -> IF cursor.ended \/ index > cursor.next THEN "Refused"
                                  ELSE IF index < cursor.next THEN "Duplicate" ELSE "Chunk"
             [] kind = "End" -> IF index # cursor.next THEN "Refused"
                                ELSE IF cursor.ended THEN "Duplicate" ELSE "End"

SetCursor(l, cue, cursor) ==
  [l EXCEPT !.active = [c \in DOMAIN @ \cup {cue} |->
                          IF c = cue THEN cursor ELSE @[c]]]

claim_terminal(l, cue) ==
  [active |-> [c \in DOMAIN l.active \ {cue} |-> l.active[c]],
   completed |-> l.completed \cup (IF IsOpen(l, cue) THEN {cue} ELSE {})]

(* What the ledger is after a frame; an admitted Abort claims the terminal. *)
admit(l, cue, index, kind) ==
  IF admission(l, cue, index, kind) \in {"Refused", "Duplicate"} THEN l
  ELSE CASE kind = "Start" -> SetCursor(l, cue, [next |-> 1, ended |-> FALSE])
         [] kind = "Chunk" -> SetCursor(l, cue, [l.active[cue] EXCEPT !.next = @ + 1])
         [] kind = "End" -> SetCursor(l, cue, [l.active[cue] EXCEPT !.ended = TRUE])
         [] kind = "Abort" -> claim_terminal(l, cue)
=============================================================================
