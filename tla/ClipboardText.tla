---------------------------- MODULE ClipboardText ----------------------------
(***************************************************************************)
(* withClipboardText and pasteClipboardText of driver/connection.ts: the   *)
(* clipboard's text is replaced while an operation runs and put back       *)
(* afterwards.  The clipboard is the remote desktop's: calls may nest, when *)
(* an operation makes another one, and nothing keeps two calls from        *)
(* crossing.  A request and its answer are one step.                       *)
(***************************************************************************)
EXTENDS Naturals, Sequences, SequencesExt

CONSTANTS Call,     \* calls of clipboard.withText and keyboard.pasteText
          Original, \* the text before the first of them
          Nothing   \* an emptied clipboard

VARIABLES clipboard, \* the text: Original, Nothing, or a call standing for its text
          textStage, \* how far each call is
          previous,  \* previousText of each call
          open,      \* calls begun and not settled, in the order they began (history)
          disturbed  \* calls have crossed, or a write has failed (history)

clipboardVars == <<clipboard, textStage, previous, open, disturbed>>

ClipboardInit ==
  /\ clipboard = Original /\ open = <<>> /\ disturbed = FALSE
  /\ textStage = [c \in Call |-> "idle"] /\ previous = [c \in Call |-> Original]

Go(c, from, to) == textStage[c] \in from /\ textStage' = [textStage EXCEPT ![c] = to]
Closes(c) == \E i \in 1 .. Len(open) : open[i] = c /\ open' = RemoveAt(open, i)

ReadPrevious(c) ==
  /\ Go(c, {"idle"}, "writing")
  /\ previous' = [previous EXCEPT ![c] = clipboard]
  /\ open' = Append(open, c)
  /\ disturbed' = (disturbed \/ (open # <<>> /\ textStage[Last(open)] # "operating"))
  /\ UNCHANGED clipboard
WriteText(c) ==
  /\ Go(c, {"writing"}, "operating") /\ clipboard' = c
  /\ UNCHANGED <<previous, open, disturbed>>
(* A failed write may have emptied the clipboard; the call ends there.     *)
WriteFails(c) ==
  /\ Go(c, {"writing"}, "rejected") /\ Closes(c)
  /\ clipboard' \in {clipboard, Nothing}
  /\ disturbed' = TRUE
  /\ UNCHANGED previous
(* For a paste: Control+V and restoreDelayMs.                              *)
TextOperationSettles(c, result) ==
  /\ Go(c, {"operating"}, result)
  /\ UNCHANGED <<clipboard, previous, open, disturbed>>
(* Mutated: only a successful operation's text is put back.                *)
RestoreSucceeded(c) ==
  /\ \/ Go(c, {"failed"}, "rejected") /\ UNCHANGED clipboard
     \/ Go(c, {"succeeded"}, "returned") /\ clipboard' = previous[c]
  /\ Closes(c) /\ disturbed' = (disturbed \/ Last(open) # c)
  /\ UNCHANGED previous

Restore(c) ==
  /\ Go(c, {"failed"}, "rejected") \/ Go(c, {"succeeded"}, "returned")
  /\ clipboard' = previous[c] /\ Closes(c)
  /\ disturbed' = (disturbed \/ Last(open) # c)
  /\ UNCHANGED previous
RestoreFails(c) ==
  /\ Go(c, {"failed", "succeeded"}, "rejected") /\ Closes(c)
  /\ clipboard' \in {clipboard, Nothing}
  /\ disturbed' = TRUE
  /\ UNCHANGED previous
(* pasteText with restoreClipboard unset, writeText and clear restore      *)
(* nothing; what an operation does in this way is undone by its own call.  *)
Replace(c, text) ==
  /\ Go(c, {"idle"}, "returned") /\ clipboard' = text
  /\ disturbed' = (disturbed \/ open = <<>>)
  /\ UNCHANGED <<previous, open>>

ClipboardNext == \E c \in Call :
  \/ ReadPrevious(c) \/ WriteText(c) \/ WriteFails(c)
  \/ \E result \in {"succeeded", "failed"} : TextOperationSettles(c, result)
  \/ Restore(c) \/ RestoreFails(c) \/ \E text \in {c, Nothing} : Replace(c, text)

ClipboardSpec == ClipboardInit /\ [][ClipboardNext]_clipboardVars

------------------------------------------------------------------------------
(* README: withText "restores the original text afterward".  However calls *)
(* nest and whether their operations succeed or fail, the text is back when *)
(* the outermost has settled; only crossing calls and failed writes lose it.*)
TextIsRestored == ~disturbed /\ open = <<>> => clipboard = Original
=============================================================================
