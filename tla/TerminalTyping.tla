----------------------------- MODULE TerminalTyping -----------------------------
(***************************************************************************)
(* Typing on a touch screen (apps/everyday/terminal/lib/kbd-input.js and   *)
(* the overlay of terminal-kbd.js).  The keyboard edits a field laid over  *)
(* the terminal; the script sends the difference between the field and     *)
(* what it has sent so far, held back while an input method or a dictation *)
(* revises it, so that the shell's line becomes what the field says.       *)
(*                                                                         *)
(* `line` is the shell's line beyond what it held when the mirror was last *)
(* reset.                                                                  *)
(***************************************************************************)
EXTENDS Naturals, SequencesExt

CONSTANTS
  Chars,      \* characters
  MaxLen,     \* bound: characters in the field
  MaxEdits,   \* bound: events of the keyboard and the page
  NoText

VARIABLES
  ov,       \* value of the field
  fwd,      \* the forwarder: what it has sent, composing, the value its timer will send
  line,
  writing,  \* how the keyboard edits: keys, an input method, a dictation
  recent,   \* a key within the last 1.5 s
  adrift,   \* history: a raw key went to the shell behind the mirror's back
  strayed,  \* history: a deletion the user did not ask for went beyond the line
  events

typingVars == <<ov, fwd, line, writing, recent, adrift, strayed, events>>

Fresh == [sent |-> <<>>, composing |-> FALSE, due |-> NoText]
Values == UNION {[1..n -> Chars] : n \in 0..MaxLen}

ASSUME TextIsNotAbsent == MaxLen \in Nat /\ NoText \notin Values

TypingInit ==
  /\ ov = <<>> /\ fwd = Fresh /\ line = <<>> /\ writing = "keys" /\ recent = FALSE
  /\ adrift = FALSE /\ strayed = FALSE /\ events = 0

Event == events < MaxEdits /\ events' = events + 1

-----------------------------------------------------------------------------
(* diffSend: deletions back to the common prefix, then the rest.           *)
Shared(v) == Len(LongestCommonPrefix({fwd.sent, v}))
Deletions(v) == Len(fwd.sent) - Shared(v)
Kept(n) == SubSeq(line, 1, IF Len(line) > n THEN Len(line) - n ELSE 0)
DiffSend(v) ==
  /\ line' = Kept(Deletions(v)) \o SubSeq(v, Shared(v) + 1, Len(v))
  /\ strayed' = (strayed \/ (~adrift /\ Deletions(v) > Len(line)))

(* flush: a field emptied while it is revised says nothing yet.            *)
Ignored(v) == v = <<>> /\ fwd.sent # <<>> /\ fwd.composing
Flush(v) ==
  IF Ignored(v) THEN fwd' = [fwd EXCEPT !.due = NoText] /\ UNCHANGED <<line, strayed>>
  ELSE DiffSend(v) /\ fwd' = [fwd EXCEPT !.sent = v, !.due = NoText]

Schedule(f, v) == fwd' = [f EXCEPT !.due = v] /\ UNCHANGED <<line, strayed>>

(* The field changes.                                                      *)
Input(v) ==
  /\ Event /\ v # ov /\ (writing = "ime" => v # <<>>)
  /\ ov' = v /\ recent' = TRUE
  /\ IF fwd.composing \/ writing # "keys" THEN Schedule(fwd, v) ELSE Flush(v)
  /\ UNCHANGED <<writing, adrift>>

(* An input method or a dictation begins, and ends.                        *)
CompositionStart ==
  /\ Event /\ writing = "keys" /\ writing' \in {"ime", "dictation"}
  /\ fwd' = [fwd EXCEPT !.composing = TRUE, !.due = NoText]
  /\ UNCHANGED <<ov, line, recent, adrift, strayed>>
CompositionEnd ==
  /\ writing # "keys" /\ writing' = "keys"
  /\ Schedule([fwd EXCEPT !.composing = FALSE], ov)
  /\ UNCHANGED <<ov, recent, adrift, events>>

(* The timer: 40 ms after the end, or 6 s of silence in the middle.        *)
TimerFires ==
  /\ fwd.due # NoText /\ Flush(fwd.due)
  /\ UNCHANGED <<ov, writing, recent, adrift, events>>

-----------------------------------------------------------------------------
(* Emptying the field may end what an input method was composing.          *)
FieldEmptied == writing' \in {"keys", writing}

(* Keys of the overlay.  Dictation takes the keyboard's place.             *)
EnterKeeping(f) == [f EXCEPT !.due = NoText]            \* (mutant: the mirror outlives its line)
Entered(f) == [f EXCEPT !.sent = <<>>, !.due = NoText]
EnterPressed ==
  /\ Event /\ writing # "dictation"
  /\ ov' = <<>> /\ line' = <<>> /\ recent' = TRUE /\ adrift' = FALSE
  /\ strayed' = (strayed \/ (~adrift /\ ~Ignored(ov) /\ Deletions(ov) > Len(line)))
  /\ fwd' = Entered([fwd EXCEPT !.sent = IF Ignored(ov) THEN @ ELSE ov])
  /\ FieldEmptied

PressTab ==   \* the shell completes the word
  /\ Event /\ writing # "dictation"
  /\ \E c \in Chars : line' = Append(line, c)
  /\ adrift' = TRUE /\ recent' = TRUE
  /\ UNCHANGED <<ov, fwd, writing, strayed>>

PressBackspaceEmpty ==
  /\ Event /\ writing # "dictation" /\ ov = <<>>
  /\ line' = Kept(1) /\ recent' = TRUE
  /\ adrift' = (adrift \/ fwd.sent # <<>>)
  /\ UNCHANGED <<ov, fwd, writing, strayed>>

(* resetBaseline: the line changed out of band.                            *)
ResetBaseline ==
  /\ ov' = <<>> /\ fwd' = Fresh /\ line' = <<>> /\ adrift' = FALSE /\ FieldEmptied
  /\ UNCHANGED strayed

OutOfBand == Event /\ ResetBaseline /\ UNCHANGED recent   \* the key bar, or back from the background
FocusAgain ==   \* xterm stole the focus and it was bounced back, or the user came back
  /\ Event
  /\ \/ recent /\ UNCHANGED <<ov, fwd, line, writing, adrift, strayed>>
     \/ ResetBaseline
  /\ UNCHANGED recent
Idle == recent /\ recent' = FALSE /\ UNCHANGED <<ov, fwd, line, writing, adrift, strayed, events>>

TypingNext ==
  \/ \E v \in Values : Input(v)
  \/ CompositionStart \/ CompositionEnd \/ TimerFires
  \/ EnterPressed \/ PressTab \/ PressBackspaceEmpty \/ OutOfBand \/ FocusAgain \/ Idle

TypingSpec == TypingInit /\ [][TypingNext]_typingVars

-----------------------------------------------------------------------------
(* When nothing is held back the shell's line is what the field says, and  *)
(* no deletion the user did not make reached what was there before; unless *)
(* a Tab or a Backspace went to the shell without the mirror knowing.      *)
Waiting == fwd.due # NoText \/ fwd.composing
LineIsField == ~strayed /\ (~Waiting /\ ~adrift => line = ov)
=============================================================================
