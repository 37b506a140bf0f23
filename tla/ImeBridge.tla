----------------------------- MODULE ImeBridge -----------------------------
(***************************************************************************)
(* The bridge from the phone's input method to the remote desktop, in      *)
(* SessionPage.ets: an invisible text field whose changes are compared     *)
(* with what was sent before; what is new is typed remotely, what is gone  *)
(* is deleted with backspaces, and a composition is held back until it     *)
(* ends.  The field and the input method are external: which events they   *)
(* raise is taken from what the two handlers are written for.  The caret   *)
(* stays at the end, and every key event reaches the remote text.          *)
(***************************************************************************)
EXTENDS Integers, SequencesExt

CONSTANTS
  Pieces,               \* the texts an input method composes or commits at once
  NoPreview,            \* an event without a preview
  RemoteText,           \* what the remote text box held before
  IME_BRIDGE_MAX_LEN,
  EndAfterOverflow,     \* a field that was just selected still has its
                        \* composition ended by an event
  MaxText               \* bound of the model: the text meant to stand there

ASSUME ImeAssumption ==
  /\ IME_BRIDGE_MAX_LEN \in Nat \ {0} /\ MaxText \in Nat
  /\ EndAfterOverflow \in BOOLEAN
  /\ \A p \in Pieces \cup {RemoteText} : p \in Seq(Range(p))
  /\ <<>> \notin Pieces /\ NoPreview \notin Pieces \cup {<<>>}

VARIABLES
  base, preview,        \* the field's content: committed text and preview
  selected,             \* the whole field is selected (setTextSelection)
  imeTrackedValue, imeLastPreview, imeVetoExpectedEmpty,
  remote,               \* the remote text, before its caret
  meant,                \* history: what the user meant to stand there
  ending                \* the event that ends a composition is still to come

field == base \o preview
imeVars == <<base, preview, selected, imeTrackedValue, imeLastPreview,
             imeVetoExpectedEmpty, remote, meant, ending>>

Text == Seq((UNION {Range(p) : p \in Pieces}) \cup Range(RemoteText))

ImeTypeOK ==
  /\ base \in Text /\ preview \in Text
  /\ selected \in BOOLEAN
  /\ imeTrackedValue \in Text /\ imeLastPreview \in Text
  /\ imeVetoExpectedEmpty \in BOOLEAN
  /\ remote \in Text /\ meant \in Text
  /\ ending \in BOOLEAN

ImeInit ==
  /\ base = <<>> /\ preview = <<>> /\ selected = FALSE
  /\ imeTrackedValue = <<>> /\ imeLastPreview = <<>>
  /\ imeVetoExpectedEmpty = FALSE
  /\ remote = RemoteText /\ meant = RemoteText
  /\ ending = FALSE

Back(text, n) == SubSeq(text, 1, Len(text) - n)

-----------------------------------------------------------------------------
(* onImeTextChanged.                                                         *)

Chained(p, q) == IsPrefix(p, q) \/ IsPrefix(q, p)

\* Mutants, here and below: what a plausible bug would make of the definition
\* that follows.  No specification uses them.
MutantEmptyPreviewSkipped(value, shown) ==
  \/ shown = <<>>
  \/ shown # <<>> /\ (imeLastPreview = <<>> \/ Chained(imeLastPreview, shown))

IsCompositionPreview(value, shown) ==
  \/ shown = <<>> /\ value = imeTrackedValue
  \/ shown # <<>> /\ (imeLastPreview = <<>> \/ Chained(imeLastPreview, shown))

\* The difference, as backspaces and characters.
SendDifference(value) ==
  LET kept == Len(LongestCommonPrefix({imeTrackedValue, value})) IN
  remote' = Back(remote, Len(imeTrackedValue) - kept)
              \o SubSeq(value, kept + 1, Len(value))

MutantOverflowKeepsTracked(value) ==
  /\ imeLastPreview' = <<>>
  /\ SendDifference(value)
  /\ selected' = (Len(value) > IME_BRIDGE_MAX_LEN)
  /\ imeTrackedValue' = value

\* A field that grew too long is selected, for the next input to replace it.
Commit(value) ==
  /\ imeLastPreview' = <<>>
  /\ SendDifference(value)
  /\ selected' = (Len(value) > IME_BRIDGE_MAX_LEN)
  /\ imeTrackedValue' = IF selected' THEN <<>> ELSE value

MutantUndefinedIsPreview(value, shown) ==
  \/ /\ IsCompositionPreview(value, shown)
     /\ imeLastPreview' = shown
     /\ selected' = FALSE
     /\ UNCHANGED <<imeTrackedValue, imeVetoExpectedEmpty, remote>>
  \/ /\ ~IsCompositionPreview(value, shown)
     /\ Commit(value)
     /\ UNCHANGED imeVetoExpectedEmpty

\* shown is the event's preview text, or NoPreview.
OnImeTextChanged(value, shown) ==
  IF value = <<>> /\ imeVetoExpectedEmpty
  THEN /\ imeVetoExpectedEmpty' = FALSE
       /\ imeTrackedValue' = <<>>
       /\ selected' = FALSE
       /\ UNCHANGED <<imeLastPreview, remote>>
  ELSE /\ imeVetoExpectedEmpty' = (imeVetoExpectedEmpty /\ value = <<>>)
       /\ \/ /\ shown # NoPreview /\ IsCompositionPreview(value, shown)
             /\ imeLastPreview' = shown
             /\ selected' = FALSE
             /\ UNCHANGED <<imeTrackedValue, remote>>
          \/ /\ shown # NoPreview => ~IsCompositionPreview(value, shown)
             /\ Commit(value)

-----------------------------------------------------------------------------
(* The input method and the field.                                           *)

\* What is typed into a selected field replaces it.
Kept == IF selected THEN <<>> ELSE base

\* The composition changes, or is given up.  (It does not outgrow the field:
\* a bound of the model.)
Compose(q) ==
  /\ ~ending /\ q # preview
  /\ Len(Kept \o q) <= IME_BRIDGE_MAX_LEN
  /\ base' = Kept /\ preview' = q
  /\ OnImeTextChanged(Kept \o q, q)
  /\ UNCHANGED <<meant, ending>>

\* A text is committed, in place of a composition or without one.  The event
\* may show it as a preview once more; then another one ends the composition.
CommitText(t, shown) ==
  /\ ~ending
  /\ Len(meant) + Len(t) <= MaxText
  /\ base' = Kept \o t /\ preview' = <<>>
  /\ meant' = meant \o t
  /\ ending' = (shown = t)
  /\ OnImeTextChanged(Kept \o t, shown)

EndComposition ==
  /\ ending /\ ending' = FALSE
  /\ IF selected /\ ~EndAfterOverflow
     THEN UNCHANGED <<selected, imeTrackedValue, imeLastPreview,
                      imeVetoExpectedEmpty, remote>>
     ELSE OnImeTextChanged(base, <<>>)
  /\ UNCHANGED <<base, preview, meant>>

\* The field loses the focus: its preview becomes text, the page forgets the
\* chain (onEditChange), and an event ends the composition.
Blur ==
  /\ ~ending
  /\ base' = field /\ preview' = <<>>
  /\ meant' = meant \o preview
  /\ ending' = (preview # <<>>)
  /\ imeLastPreview' = <<>>
  /\ UNCHANGED <<selected, imeTrackedValue, imeVetoExpectedEmpty, remote>>

-----------------------------------------------------------------------------
(* onImeWillDelete, and what the field does on its answer, which it may      *)
(* ignore.  n characters at the end are to go, or all of a selected field.   *)

MutantVetoIsSilent(n) ==
  /\ imeTrackedValue # <<>> /\ n >= Len(imeTrackedValue)
  /\ \/ /\ imeVetoExpectedEmpty' = TRUE
        /\ UNCHANGED <<base, imeTrackedValue>>
     \/ /\ imeVetoExpectedEmpty' = FALSE
        /\ imeTrackedValue' = <<>> /\ base' = <<>>
  /\ UNCHANGED <<selected, imeLastPreview, remote>>

\* A deletion that would empty the field is done remotely only; the event of
\* a field that was emptied all the same sends nothing more.
VetoedDelete(n) ==
  /\ imeTrackedValue # <<>> /\ n >= Len(imeTrackedValue)
  /\ remote' = Back(remote, Len(imeTrackedValue))
  /\ \/ /\ imeVetoExpectedEmpty' = TRUE
        /\ UNCHANGED <<base, imeTrackedValue>>
     \/ /\ imeVetoExpectedEmpty' = FALSE
        /\ imeTrackedValue' = <<>> /\ base' = <<>>
  /\ UNCHANGED <<selected, imeLastPreview>>

DeleteOnEmpty(n) ==
  /\ imeTrackedValue = <<>> /\ n = 0
  /\ remote' = Back(remote, 1)
  /\ UNCHANGED <<base, selected, imeTrackedValue, imeLastPreview, imeVetoExpectedEmpty>>

AllowedDelete(n) ==
  /\ imeTrackedValue = <<>> => n # 0
  /\ imeTrackedValue # <<>> => n < Len(imeTrackedValue)
  /\ base' = Back(base, n)
  /\ OnImeTextChanged(base', NoPreview)

\* The input method deletes its composition by composing less.  After an
\* overflow one deletion is lost, as the code's comment accepts.
Delete(n) ==
  /\ ~ending /\ preview = <<>>
  /\ \/ n = 0 /\ base = <<>>
     \/ n > 0 /\ n = Len(base)
     \/ n > 0 /\ n < Len(base) /\ ~selected
  /\ VetoedDelete(n) \/ DeleteOnEmpty(n) \/ AllowedDelete(n)
  /\ meant' = IF selected THEN meant ELSE Back(meant, IF n = 0 THEN 1 ELSE n)
  /\ UNCHANGED <<preview, ending>>

ImeNext ==
  \/ \E q \in Pieces \cup {<<>>} : Compose(q)
  \/ \E t \in Pieces : \E shown \in {NoPreview, <<>>, t} : CommitText(t, shown)
  \/ EndComposition
  \/ Blur
  \/ \E n \in 0..Len(base) : Delete(n)

ImeSpec == ImeInit /\ [][ImeNext]_imeVars

-----------------------------------------------------------------------------
(* Properties.                                                               *)

\* Between compositions the remote text is what the user meant: every text
\* was typed once, every deletion reached as far as it should, also into what
\* stood there before the field was used (onImeTextChanged, onImeWillDelete).
RemoteIsMeant == preview = <<>> /\ ~ending => remote = meant

\* A composition may show remotely before its time, and may be taken back, but
\* it never costs any of the text before it (isCompositionPreview's chain).
CompositionIsHarmless == preview # <<>> => IsPrefix(meant, remote)

=============================================================================
