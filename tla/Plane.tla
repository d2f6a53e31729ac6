-------------------------------- MODULE Plane -------------------------------
(***************************************************************************)
(* Where a picture lands on the screen: commit_plane of                    *)
(* src/src/video_decoder.c and its two callers. The frame thread replaces  *)
(* the buffer group on an info change and writes vd->src_w and vd->src_h;  *)
(* the display thread passes 0, 0 and has commit_plane read them. Both run *)
(* outside vd->lock, so every access to the two fields is a step of its    *)
(* own. The threads' start and stop and the mailbox's condition variable   *)
(* are module VideoDecoder's subject.                                      *)
(*                                                                         *)
(* The kernel gives a framebuffer id that was removed out again: slot s of *)
(* a new group has the id slot s of the old one had.                       *)
(***************************************************************************)
EXTENDS Integers

CONSTANTS
  ModeW, ModeH,  \* the display mode
  Sizes,         \* picture sizes <<width, height>> the stream may have
  Slots,         \* the slots of frame_map, 1 among them
  MaxGroups      \* bound: buffer groups set up

ASSUME PlaneAssumption ==
  /\ ModeW \in Nat \ {0} /\ ModeH \in Nat \ {0}
  /\ Sizes \subseteq (Nat \ {0}) \X (Nat \ {0})
  /\ 1 \in Slots
  /\ MaxGroups \in Nat

VARIABLES
  src_w, src_h,  \* vd's fields
  fbs,           \* the kernel's framebuffer of each slot: its size, or NoFb
  gen,           \* buffer groups set up so far
  size,          \* picture size of the group set up last
  frame,         \* where the frame thread is
  pending,       \* vd->pending_fb, with the group it was published from
  display,       \* where the display thread is
  hand,          \* the picture it took
  w, h,          \* commit_plane's src_w and src_h on the display thread
  plane          \* the plane's last successful commit, or Off

frameVars == <<src_w, src_h, fbs, gen, size, frame>>
displayVars == <<display, hand, w, h>>
vars == <<frameVars, pending, displayVars, plane>>

-----------------------------------------------------------------------------
NoFb == <<0, 0>>
NoPicture == [fb |-> 0, gen |-> 0]
Off == [on |-> FALSE]

\* (uint32_t)(n / d + 0.5) in doubles: the nearest integer, and on a tie the one
\* below as well, for the quotient may come out short.
Rounded(n, d) ==
  LET up == (2 * n + d) \div (2 * d)
  IN IF up * (2 * d) = 2 * n + d THEN {up - 1, up} ELSE {up}

Least(a, b) == IF a < b THEN a ELSE b

\* Mutant: the quotient is cut instead of rounded.
Mutant_truncated(sw, sh) ==
  IF sw = 0 \/ sh = 0 THEN {<<ModeW, ModeH>>}
  ELSE IF sw * ModeH > ModeW * sh THEN {<<ModeW, (ModeW * sh) \div sw>>}
  ELSE {<<(ModeH * sw) \div sh, ModeH>>}

\* The size on the screen that commit_plane computes for a source: as wide or
\* as high as the mode, with the source's aspect.
Fitted(sw, sh) ==
  IF sw = 0 \/ sh = 0 THEN {<<ModeW, ModeH>>}
  ELSE IF sw * ModeH > ModeW * sh
       THEN {<<ModeW, Least(d, ModeH)>> : d \in Rounded(ModeW * sh, sw)}
       ELSE {<<Least(d, ModeW), ModeH>> : d \in Rounded(ModeH * sw, sh)}

\* Mutant: a side may round to nothing.
Mutant_no_minimum(d) == d

AtLeastOne(d) == IF d = 0 THEN 1 ELSE d
Letterbox(sw, sh) ==
  {[x |-> (ModeW - AtLeastOne(f[1])) \div 2, y |-> (ModeH - AtLeastOne(f[2])) \div 2,
    width |-> AtLeastOne(f[1]), height |-> AtLeastOne(f[2])] : f \in Fitted(sw, sh)}

\* drmModeAtomicCommit of framebuffer fb with source rectangle sw by sh. The
\* kernel refuses a framebuffer it does not know and a source that is empty or
\* reaches beyond it; it may refuse any other as well.
Commit(fb, sw, sh, fresh) ==
  \/ UNCHANGED plane
  \/ /\ fb # NoFb /\ sw \in 1..fb[1] /\ sh \in 1..fb[2]
     /\ \E dst \in Letterbox(sw, sh) :
          plane' = [on |-> TRUE, fb |-> fb, src |-> <<sw, sh>>, dst |-> dst, fresh |-> fresh]

-----------------------------------------------------------------------------
Init ==
  /\ src_w = 0 /\ src_h = 0
  /\ fbs = [s \in Slots |-> NoFb] /\ gen = 0 /\ size = NoFb
  /\ frame = "loop" /\ pending = NoPicture
  /\ display = "wait" /\ hand = NoPicture /\ w = 0 /\ h = 0
  /\ plane = Off

(* The frame thread.                                                       *)

FrameOnly == UNCHANGED <<pending, displayVars>>

\* An info change: release_frame_group removes the old framebuffers, which
\* turns the plane off that shows one.
info_change(new) ==
  /\ frame = "loop" /\ gen < MaxGroups
  /\ frame' = "zero_w"
  /\ size' = new
  /\ fbs' = [s \in Slots |-> NoFb]
  /\ plane' = Off
  /\ UNCHANGED <<src_w, src_h, gen>> /\ FrameOnly

zero_w == /\ frame = "zero_w" /\ frame' = "zero_h" /\ src_w' = 0
          /\ UNCHANGED <<src_h, fbs, gen, size, plane>> /\ FrameOnly
zero_h == /\ frame = "zero_h" /\ frame' = "group" /\ src_h' = 0
          /\ UNCHANGED <<src_w, fbs, gen, size, plane>> /\ FrameOnly

\* mpp_buffer_group_get_external fails, and there is no group.
no_group == /\ frame = "group" /\ frame' = "loop"
            /\ UNCHANGED <<src_w, src_h, fbs, gen, size, plane>> /\ FrameOnly

\* The loop over the slots; any of them may be left without a framebuffer.
add_framebuffers ==
  /\ frame = "group" /\ frame' = "set_w"
  /\ fbs' \in [Slots -> {NoFb, size}]
  /\ gen' = gen + 1
  /\ UNCHANGED <<src_w, src_h, size, plane>> /\ FrameOnly

\* Mutant: the width is left to commit_plane, which may return before it.
Mutant_width_left_to_commit ==
  /\ frame = "set_w" /\ frame' = "set_h"
  /\ UNCHANGED <<src_w, src_h, fbs, gen, size, plane>> /\ FrameOnly

set_w == /\ frame = "set_w" /\ frame' = "set_h" /\ src_w' = size[1]
         /\ UNCHANGED <<src_h, fbs, gen, size, plane>> /\ FrameOnly
set_h == /\ frame = "set_h" /\ frame' = "commit" /\ src_h' = size[2]
         /\ UNCHANGED <<src_w, fbs, gen, size, plane>> /\ FrameOnly

\* commit_plane on the first slot, with the size given: it stores the size once
\* more unless drmModeAtomicAlloc fails.
setup_commit ==
  /\ frame = "commit" /\ frame' = "loop"
  /\ \/ UNCHANGED <<src_w, src_h, plane>>
     \/ src_w' = size[1] /\ src_h' = size[2] /\ Commit(fbs[1], size[1], size[2], TRUE)
  /\ UNCHANGED <<fbs, gen, size>> /\ FrameOnly

\* A decoded frame in slot s; without a framebuffer there it takes the place of
\* what was pending all the same.
publish(s) ==
  /\ frame = "loop"
  /\ pending' = IF fbs[s] = NoFb THEN NoPicture ELSE [fb |-> s, gen |-> gen]
  /\ UNCHANGED <<frameVars, displayVars, plane>>

-----------------------------------------------------------------------------
(* The display thread.                                                     *)

DisplayOnly == UNCHANGED frameVars

\* pending_fb is taken under the lock; drmModeAtomicAlloc may fail after it.
display_take ==
  /\ display = "wait" /\ pending # NoPicture
  /\ pending' = NoPicture
  /\ \/ display' = "read_w" /\ hand' = pending
     \/ UNCHANGED <<display, hand>>
  /\ UNCHANGED <<w, h, plane>> /\ DisplayOnly

\* src_w ? src_w : mode_w. The build may read the field once or twice, and it
\* may become 0 in between.
read_w ==
  /\ display = "read_w"
  /\ \/ display' = "read_h" /\ w' = IF src_w = 0 THEN ModeW ELSE src_w
     \/ src_w # 0 /\ display' = "again_w" /\ UNCHANGED w
  /\ UNCHANGED <<pending, hand, h, plane>> /\ DisplayOnly
again_w == /\ display = "again_w" /\ display' = "read_h" /\ w' = src_w
           /\ UNCHANGED <<pending, hand, h, plane>> /\ DisplayOnly
read_h ==
  /\ display = "read_h"
  /\ \/ display' = "commit" /\ h' = IF src_h = 0 THEN ModeH ELSE src_h
     \/ src_h # 0 /\ display' = "again_h" /\ UNCHANGED h
  /\ UNCHANGED <<pending, hand, w, plane>> /\ DisplayOnly
again_h == /\ display = "again_h" /\ display' = "commit" /\ h' = src_h
           /\ UNCHANGED <<pending, hand, w, plane>> /\ DisplayOnly

\* Mutant: commit_plane keeps the size it fell back to.
Mutant_fallback_kept ==
  /\ display = "commit" /\ display' = "wait"
  /\ src_w' = w /\ src_h' = h
  /\ Commit(fbs[hand.fb], w, h, hand.gen = gen)
  /\ hand' = NoPicture /\ w' = 0 /\ h' = 0
  /\ UNCHANGED <<pending, fbs, gen, size, frame>>

display_commit ==
  /\ display = "commit" /\ display' = "wait"
  /\ Commit(fbs[hand.fb], w, h, hand.gen = gen)
  /\ hand' = NoPicture /\ w' = 0 /\ h' = 0
  /\ UNCHANGED pending /\ DisplayOnly

Next ==
  \/ \E new \in Sizes : info_change(new)
  \/ zero_w \/ zero_h \/ no_group \/ add_framebuffers \/ set_w \/ set_h \/ setup_commit
  \/ \E s \in Slots : publish(s)
  \/ display_take \/ read_w \/ again_w \/ read_h \/ again_h \/ display_commit

Spec == Init /\ [][Next]_vars

-----------------------------------------------------------------------------
(* Properties.                                                             *)

Picture == {NoPicture} \cup [fb : Slots, gen : Nat]
Dst == [x : Nat, y : Nat, width : Nat \ {0}, height : Nat \ {0}]

PlaneTyped ==
  plane # Off => /\ plane.fb \in Sizes /\ plane.src \in (Nat \ {0}) \X (Nat \ {0})
                 /\ plane.dst \in Dst /\ plane.fresh \in BOOLEAN
TypeOK ==
  /\ src_w \in Nat /\ src_h \in Nat
  /\ size \in Sizes \cup {NoFb} /\ gen \in Nat
  /\ fbs \in [Slots -> Sizes \cup {NoFb}]
  /\ frame \in {"loop", "zero_w", "zero_h", "group", "set_w", "set_h", "commit"}
  /\ display \in {"wait", "read_w", "again_w", "read_h", "again_h", "commit"}
  /\ pending \in Picture /\ hand \in Picture
  /\ display # "wait" => hand.fb \in Slots
  /\ w \in Nat /\ h \in Nat
  /\ PlaneTyped

\* A picture published from the current buffer group is shown whole: its source
\* rectangle is exactly its framebuffer, whatever the frame thread was writing
\* to src_w and src_h while commit_plane read them and whatever failed before.
\* Only a picture whose group was replaced since it was published may come out
\* cropped, when its framebuffer's id was given out again.
WholePicture == plane # Off /\ plane.fresh => plane.src = plane.fb

Abs(n) == IF n < 0 THEN -n ELSE n

\* A destination d that suits a source of sw by sh.
Framed(d, sw, sh) ==
  /\ d.x + d.width <= ModeW /\ d.y + d.height <= ModeH
  /\ ModeW - d.width - 2 * d.x \in {0, 1} /\ ModeH - d.height - 2 * d.y \in {0, 1}
  /\ \/ d.width = ModeW /\ (d.height = 1 \/ 2 * Abs(d.height * sw - ModeW * sh) <= sw)
     \/ d.height = ModeH /\ (d.width = 1 \/ 2 * Abs(d.width * sh - ModeH * sw) <= sh)

\* The picture is inside the screen, centred to a pixel, as wide or as high as
\* the screen, and its other side is the one nearest to the source's aspect (or
\* a single pixel), in spite of the two roundings and the integer halves.
Letterboxed == plane # Off => Framed(plane.dst, plane.src[1], plane.src[2])

\* What makes WholePicture inductive: while the frame thread is between info
\* changes the fields hold the group's size, no picture of a group is out
\* before they do, and what the display thread has read of them is that size
\* as long as the group of its picture lives.
Settled == frame \in {"loop", "commit"} /\ \E s \in Slots : fbs[s] # NoFb
PlaneInv ==
  /\ \A s \in Slots : fbs[s] \in {NoFb, size}
  /\ pending.gen <= gen /\ hand.gen <= gen
  /\ Settled => src_w = size[1] /\ src_h = size[2]
  /\ frame \in {"zero_w", "zero_h", "group"} => \A s \in Slots : fbs[s] = NoFb
  /\ frame \in {"set_w", "set_h", "commit"} => pending.gen < gen /\ hand.gen < gen
  /\ frame = "set_h" => src_w = size[1]
  /\ hand.gen = gen /\ Settled /\ display \in {"read_h", "again_h", "commit"} => w = size[1]
  /\ hand.gen = gen /\ Settled /\ display = "commit" => h = size[2]
=============================================================================
