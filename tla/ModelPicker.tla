------------------------------ MODULE ModelPicker ------------------------------
(***************************************************************************)
(* The numbered /model menus (model_picker.ModelPicker): at most one per   *)
(* chat, in two steps (a provider, then one of its models), with a         *)
(* deadline.  The pickers are a sequence, the one opened first in front.   *)
(* A picker carries the number of the request it was opened for.           *)
(***************************************************************************)
EXTENDS Naturals, Sequences, SequencesExt

CONSTANTS
  TTL,          \* PICKER_TTL_SECS, in ticks
  PickerLimit   \* PICKER_LIMIT

ASSUME PickerAssumption == {TTL, PickerLimit} \subseteq Nat

Pending(pickers, chat) == {p \in ToSet(pickers) : p.chat = chat}

\* close.
Without(pickers, chat) ==
  IF Pending(pickers, chat) = {} THEN pickers
  ELSE RemoveAt(pickers, CHOOSE i \in DOMAIN pickers : pickers[i].chat = chat)

\* open: a new menu invalidates the chat's older one; with a single provider the
\* menu starts at its models.
Open(pickers, chat, request, single, now) ==
  LET opened == Append(Without(pickers, chat),
                       [chat |-> chat, request |-> request,
                        step |-> IF single THEN "model" ELSE "provider", expires |-> now + TTL])
  IN  IF Len(opened) > PickerLimit THEN Tail(opened) ELSE opened

Expired(picker, now) == now >= picker.expires

\* answer: what becomes of a text in a chat.  "no" is a text that is no answer and
\* goes to the agent; "retry", "menu", "picked" and "unchanged" are answered.  A
\* digit such as a superscript is one for isdigit() and none for int(), which raises.
Answer(pickers, chat, text, now) ==
  LET picker == CHOOSE p \in Pending(pickers, chat) : TRUE
      others == Without(pickers, chat)
      ends(reply) == [reply |-> reply, pickers |-> others]
      provided == [picker EXCEPT !.step = "model", !.expires = now + TTL]
  IN  IF Pending(pickers, chat) = {} THEN [reply |-> "no", pickers |-> pickers]
      ELSE IF Expired(picker, now) THEN ends("no")
      ELSE CASE text = "superscript" -> [reply |-> "raises", pickers |-> pickers]
             [] text = "words"       -> ends("no")
             [] text = "cancel"      -> ends("unchanged")
             [] text = "tooLarge"    -> [reply |-> "retry", pickers |-> pickers]
             [] text = "choice" /\ picker.step = "model"    -> ends("picked")
             [] text = "choice" /\ picker.step = "provider" ->
                  [reply |-> "menu",
                   pickers |-> [i \in DOMAIN pickers |->
                                  IF pickers[i] = picker THEN provided ELSE pickers[i]]]
================================================================================
