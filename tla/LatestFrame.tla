---------------------------- MODULE LatestFrame -----------------------------
(***************************************************************************)
(* What the hand-over between frame_thread_func and display_thread_func    *)
(* promises: a mailbox of one picture in which a newer picture replaces an *)
(* older one, from which a single consumer takes and shows pictures, each  *)
(* at most once and never one older than a picture already shown.          *)
(***************************************************************************)
EXTENDS Naturals

VARIABLES
  last,     \* number of the newest picture produced, 0 at first
  offered,  \* the picture in the mailbox, 0 when there is none
  hand,     \* the picture the consumer is about to show, 0 when none
  shown     \* the last picture shown, 0 at first

vars == <<last, offered, hand, shown>>

Init == last = 0 /\ offered = 0 /\ hand = 0 /\ shown = 0

\* The producer numbers a new picture and puts it in the mailbox, or leaves
\* the mailbox empty when the picture has no framebuffer.
Offer ==
  /\ last' = last + 1
  /\ offered' \in {0, last'}
  /\ UNCHANGED <<hand, shown>>

Take ==
  /\ offered # 0 /\ hand = 0
  /\ hand' = offered
  /\ offered' = 0
  /\ UNCHANGED <<last, shown>>

Show ==
  /\ hand > shown
  /\ shown' = hand
  /\ hand' = 0
  /\ UNCHANGED <<last, offered>>

\* A new decoder starts with an empty mailbox. The consumer of the old one has
\* ended; a picture it had not taken is lost.
Restart ==
  /\ hand = 0
  /\ last' = 0 /\ offered' = 0 /\ hand' = 0 /\ shown' = 0

Next == Offer \/ Take \/ Show \/ Restart

Spec == Init /\ [][Next]_vars
=============================================================================
