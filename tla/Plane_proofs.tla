---------------------------- MODULE Plane_proofs ----------------------------
(***************************************************************************)
(* A picture of the current buffer group is shown whole, and every picture *)
(* is letterboxed, for any mode, any sizes and any number of slots and     *)
(* info changes.                                                           *)
(***************************************************************************)
EXTENDS Plane, TLAPS

\* Multiplying keeps an order.
LEMMA MulMono ==
  ASSUME NEW a \in Int, NEW b \in Int, NEW c \in Nat, a <= b
  PROVE  a * c <= b * c
  OBVIOUS

\* A quotient rounded down.
LEMMA Division ==
  ASSUME NEW a \in Nat, NEW b \in Nat \ {0}
  PROVE  a \div b \in Nat /\ b * (a \div b) <= a /\ a - b * (a \div b) <= b - 1
<1>1. a \div b \in Nat
  OBVIOUS
<1>2. b * (a \div b) <= a
  OBVIOUS
<1>3. a - b * (a \div b) <= b - 1
  OBVIOUS
<1>. QED
  BY <1>1, <1>2, <1>3

\* Rounded of commit_plane: the result is within half of the exact quotient.
LEMMA RoundedNear ==
  ASSUME NEW n \in Nat, NEW d \in Nat \ {0}, NEW q \in Rounded(n, d)
  PROVE  q \in Nat /\ 2 * (q * d) <= 2 * n + d /\ 2 * n <= 2 * (q * d) + d
<1> DEFINE up == (2 * n + d) \div (2 * d)
<1>1. /\ up \in Nat /\ (2 * d) * up <= 2 * n + d
      /\ 2 * n + d - (2 * d) * up <= 2 * d - 1
  <2> DEFINE a == 2 * n + d
             b == 2 * d
  <2>1. a \in Nat /\ b \in Nat \ {0}
    OBVIOUS
  <2> HIDE DEF a, b
  <2>2. a \div b \in Nat /\ b * (a \div b) <= a /\ a - b * (a \div b) <= b - 1
    BY <2>1, Division
  <2>. QED
    BY <2>2 DEF a, b
<1>2. q = up \/ (up * (2 * d) = 2 * n + d /\ q = up - 1)
  BY DEF Rounded
<1> HIDE DEF up
<1>3. (2 * d) * up = 2 * (up * d) /\ up * (2 * d) = 2 * (up * d) /\ up * d \in Nat
  BY <1>1
<1>4. CASE q = up
  BY <1>1, <1>3, <1>4
<1>5. CASE up * (2 * d) = 2 * n + d /\ q = up - 1
  <2>1. up # 0
    BY <1>1, <1>5
  <2>2. q * d = up * d - d
    BY <1>1, <1>5
  <2>. QED
    BY <1>1, <1>3, <1>5, <2>1, <2>2
<1>. QED
  BY <1>2, <1>4, <1>5

\* A rounded quotient stays below a bound that the exact one respects.
LEMMA RoundedBelow ==
  ASSUME NEW n \in Nat, NEW d \in Nat \ {0}, NEW q \in Rounded(n, d),
         NEW bound \in Nat, n <= bound * d
  PROVE  q <= bound
<1>1. q \in Nat /\ 2 * (q * d) <= 2 * n + d
  BY RoundedNear
<1>2. SUFFICES ASSUME bound + 1 <= q PROVE FALSE
  BY <1>1
<1>3. (bound + 1) * d <= q * d
  BY <1>1, <1>2, MulMono
<1>4. (bound + 1) * d = bound * d + d /\ bound * d \in Nat /\ q * d \in Nat
  BY <1>1
<1>. QED
  BY <1>1, <1>3, <1>4

\* The size commit_plane gives a source: one side is the mode's, the other is
\* within the mode and nearest to the aspect.
LEMMA FittedNear ==
  ASSUME NEW sw \in Nat \ {0}, NEW sh \in Nat \ {0}, NEW f \in Fitted(sw, sh)
  PROVE  \/ \E q \in 0..ModeH : f = <<ModeW, q>> /\ 2 * Abs(q * sw - ModeW * sh) <= sw
         \/ \E q \in 0..ModeW : f = <<q, ModeH>> /\ 2 * Abs(q * sh - ModeH * sw) <= sh
<1> USE PlaneAssumption
<1>0. /\ sw * ModeH \in Nat /\ ModeW * sh \in Nat /\ ModeH * sw \in Nat
      /\ sw * ModeH = ModeH * sw
  OBVIOUS
<1>1. CASE sw * ModeH > ModeW * sh
  <2>1. PICK q \in Rounded(ModeW * sh, sw) : f = <<ModeW, Least(q, ModeH)>>
    BY <1>1 DEF Fitted
  <2>2. q \in Nat /\ 2 * (q * sw) <= 2 * (ModeW * sh) + sw
        /\ 2 * (ModeW * sh) <= 2 * (q * sw) + sw
    BY <1>0, RoundedNear
  <2>3. q <= ModeH
    BY <1>0, <1>1, RoundedBelow
  <2>4. Least(q, ModeH) = q
    BY <2>2, <2>3 DEF Least
  <2>5. q * sw \in Nat
    BY <2>2
  <2>6. 2 * Abs(q * sw - ModeW * sh) <= sw
    BY <1>0, <2>2, <2>5 DEF Abs
  <2>7. q \in 0..ModeH /\ f = <<ModeW, q>>
    BY <2>1, <2>2, <2>3, <2>4
  <2>. QED
    BY <2>6, <2>7
<1>2. CASE ~(sw * ModeH > ModeW * sh)
  <2>1. PICK q \in Rounded(ModeH * sw, sh) : f = <<Least(q, ModeW), ModeH>>
    BY <1>2 DEF Fitted
  <2>2. q \in Nat /\ 2 * (q * sh) <= 2 * (ModeH * sw) + sh
        /\ 2 * (ModeH * sw) <= 2 * (q * sh) + sh
    BY <1>0, RoundedNear
  <2>3. q <= ModeW
    BY <1>0, <1>2, RoundedBelow
  <2>4. Least(q, ModeW) = q
    BY <2>2, <2>3 DEF Least
  <2>5. q * sh \in Nat
    BY <2>2
  <2>6. 2 * Abs(q * sh - ModeH * sw) <= sh
    BY <1>0, <2>2, <2>5 DEF Abs
  <2>7. q \in 0..ModeW /\ f = <<q, ModeH>>
    BY <2>1, <2>2, <2>3, <2>4
  <2>. QED
    BY <2>6, <2>7
<1>. QED
  BY <1>1, <1>2

\* A margin is half of what is left, to a pixel.
LEMMA Half ==
  ASSUME NEW a \in Nat
  PROVE  a \div 2 \in Nat /\ a - 2 * (a \div 2) \in {0, 1}
  OBVIOUS

\* Every destination commit_plane computes suits its source.
LEMMA LetterboxFramed ==
  ASSUME NEW sw \in Nat \ {0}, NEW sh \in Nat \ {0}, NEW d \in Letterbox(sw, sh)
  PROVE  d \in Dst /\ Framed(d, sw, sh)
<1> USE PlaneAssumption
<1>1. PICK f \in Fitted(sw, sh) :
        d = [x |-> (ModeW - AtLeastOne(f[1])) \div 2,
             y |-> (ModeH - AtLeastOne(f[2])) \div 2,
             width |-> AtLeastOne(f[1]), height |-> AtLeastOne(f[2])]
  BY DEF Letterbox
<1> DEFINE a == AtLeastOne(f[1])
           b == AtLeastOne(f[2])
<1>2. /\ a \in 1..ModeW /\ b \in 1..ModeH
      /\ \/ a = ModeW /\ (b = 1 \/ 2 * Abs(b * sw - ModeW * sh) <= sw)
         \/ b = ModeH /\ (a = 1 \/ 2 * Abs(a * sh - ModeH * sw) <= sh)
  BY FittedNear DEF AtLeastOne
<1> HIDE DEF a, b
<1>3. ModeW - a \in Nat /\ ModeH - b \in Nat
  BY <1>2
<1>4. /\ (ModeW - a) \div 2 \in Nat /\ (ModeW - a) - 2 * ((ModeW - a) \div 2) \in {0, 1}
      /\ (ModeH - b) \div 2 \in Nat /\ (ModeH - b) - 2 * ((ModeH - b) \div 2) \in {0, 1}
  BY <1>3, Half
<1>5. d = [x |-> (ModeW - a) \div 2, y |-> (ModeH - b) \div 2, width |-> a, height |-> b]
  BY <1>1 DEF a, b
<1>6. d \in Dst
  BY <1>2, <1>4, <1>5 DEF Dst
<1>7. Framed(d, sw, sh)
  BY <1>2, <1>4, <1>5 DEF Framed
<1>. QED
  BY <1>6, <1>7

-----------------------------------------------------------------------------
\* A size has two sides.
LEMMA Sides ==
  ASSUME NEW z \in Sizes \cup {NoFb}
  PROVE  z[1] \in Nat /\ z[2] \in Nat /\ z = <<z[1], z[2]>>
  BY PlaneAssumption DEF NoFb

\* What the plane shows is well formed, letterboxed and, if fresh, whole.
Shown == PlaneTyped /\ WholePicture /\ Letterboxed

\* drmModeAtomicCommit shows a picture as it should when a fresh one comes with
\* the size of its framebuffer.
LEMMA CommitShown ==
  ASSUME Shown, NEW fb \in Sizes \cup {NoFb}, NEW sw \in Nat, NEW sh \in Nat,
         NEW fresh \in BOOLEAN, fresh /\ fb # NoFb => fb = <<sw, sh>>,
         Commit(fb, sw, sh, fresh)
  PROVE  Shown'
<1>1. CASE UNCHANGED plane
  BY <1>1 DEF Shown, PlaneTyped, WholePicture, Letterboxed
<1>2. CASE /\ fb # NoFb /\ sw \in 1..fb[1] /\ sh \in 1..fb[2]
           /\ \E dst \in Letterbox(sw, sh) :
                plane' = [on |-> TRUE, fb |-> fb, src |-> <<sw, sh>>, dst |-> dst,
                          fresh |-> fresh]
  <2>1. PICK dst \in Letterbox(sw, sh) :
          plane' = [on |-> TRUE, fb |-> fb, src |-> <<sw, sh>>, dst |-> dst, fresh |-> fresh]
    BY <1>2
  <2>2. fb \in Sizes /\ sw \in Nat \ {0} /\ sh \in Nat \ {0}
    BY <1>2, Sides
  <2>3. dst \in Dst /\ Framed(dst, sw, sh)
    BY <2>2, LetterboxFramed
  <2>4. /\ plane'.fb = fb /\ plane'.src = <<sw, sh>> /\ plane'.dst = dst
        /\ plane'.fresh = fresh
    BY <2>1
  <2>5. PlaneTyped'
    BY <2>2, <2>3, <2>4 DEF PlaneTyped
  <2>6. WholePicture'
    BY <1>2, <2>4 DEF WholePicture
  <2>7. Letterboxed'
    <3>1. <<sw, sh>>[1] = sw /\ <<sw, sh>>[2] = sh
      OBVIOUS
    <3>. QED
      BY <2>3, <2>4, <3>1 DEF Letterboxed
  <2>. QED
    BY <2>5, <2>6, <2>7 DEF Shown
<1>. QED
  BY <1>1, <1>2 DEF Commit

\* The inductive invariant.
Inv == TypeOK /\ PlaneInv /\ Shown

\* Every step of the frame thread and of the display thread keeps the state
\* well typed, apart from what the plane shows.
LEMMA TypeStep ==
  ASSUME TypeOK, [Next]_vars, PlaneTyped'
  PROVE  TypeOK'
<1> USE PlaneAssumption, Sides DEF TypeOK, Picture, NoPicture
<1>1. ASSUME NEW new \in Sizes, info_change(new) PROVE TypeOK'
  BY <1>1 DEF info_change, FrameOnly, displayVars
<1>2. CASE zero_w
  BY <1>2 DEF zero_w, FrameOnly, displayVars
<1>3. CASE zero_h
  BY <1>3 DEF zero_h, FrameOnly, displayVars
<1>4. CASE no_group
  BY <1>4 DEF no_group, FrameOnly, displayVars
<1>5. CASE add_framebuffers
  BY <1>5 DEF add_framebuffers, FrameOnly, displayVars
<1>6. CASE set_w
  BY <1>6 DEF set_w, FrameOnly, displayVars
<1>7. CASE set_h
  BY <1>7 DEF set_h, FrameOnly, displayVars
<1>8. CASE setup_commit
  BY <1>8 DEF setup_commit, FrameOnly, displayVars
<1>9. ASSUME NEW s \in Slots, publish(s) PROVE TypeOK'
  BY <1>9 DEF publish, frameVars, displayVars
<1>10. CASE display_take
  BY <1>10 DEF display_take, DisplayOnly, frameVars
<1>11. CASE read_w
  BY <1>11 DEF read_w, DisplayOnly, frameVars
<1>12. CASE again_w
  BY <1>12 DEF again_w, DisplayOnly, frameVars
<1>13. CASE read_h
  BY <1>13 DEF read_h, DisplayOnly, frameVars
<1>14. CASE again_h
  BY <1>14 DEF again_h, DisplayOnly, frameVars
<1>15. CASE display_commit
  BY <1>15 DEF display_commit, DisplayOnly, frameVars
<1>16. CASE UNCHANGED vars
  BY <1>16 DEF vars, frameVars, displayVars
<1>. QED
  BY <1>1, <1>2, <1>3, <1>4, <1>5, <1>6, <1>7, <1>8, <1>9, <1>10, <1>11, <1>12, <1>13,
     <1>14, <1>15, <1>16 DEF Next

\* Every step keeps PlaneInv. The display thread's reads see the size of the
\* group its picture is of, or that group is gone for good.
LEMMA InvStep ==
  ASSUME TypeOK, PlaneInv, [Next]_vars
  PROVE  PlaneInv'
<1> USE PlaneAssumption, Sides DEF TypeOK, PlaneInv, Settled, Picture, NoPicture
<1>1. ASSUME NEW new \in Sizes, info_change(new) PROVE PlaneInv'
  BY <1>1 DEF info_change, FrameOnly, displayVars
<1>2. CASE zero_w
  BY <1>2 DEF zero_w, FrameOnly, displayVars
<1>3. CASE zero_h
  BY <1>3 DEF zero_h, FrameOnly, displayVars
<1>4. CASE no_group
  BY <1>4 DEF no_group, FrameOnly, displayVars
<1>5. CASE add_framebuffers
  BY <1>5 DEF add_framebuffers, FrameOnly, displayVars
<1>6. CASE set_w
  BY <1>6 DEF set_w, FrameOnly, displayVars
<1>7. CASE set_h
  BY <1>7 DEF set_h, FrameOnly, displayVars
<1>8. CASE setup_commit
  BY <1>8 DEF setup_commit, FrameOnly, displayVars
<1>9. ASSUME NEW s \in Slots, publish(s) PROVE PlaneInv'
  BY <1>9 DEF publish, frameVars, displayVars
<1>10. CASE display_take
  BY <1>10 DEF display_take, DisplayOnly, frameVars
<1>11. CASE read_w
  BY <1>11 DEF read_w, DisplayOnly, frameVars
<1>12. CASE again_w
  BY <1>12 DEF again_w, DisplayOnly, frameVars
<1>13. CASE read_h
  BY <1>13 DEF read_h, DisplayOnly, frameVars
<1>14. CASE again_h
  BY <1>14 DEF again_h, DisplayOnly, frameVars
<1>15. CASE display_commit
  BY <1>15 DEF display_commit, DisplayOnly, frameVars
<1>16. CASE UNCHANGED vars
  BY <1>16 DEF vars, frameVars, displayVars
<1>. QED
  BY <1>1, <1>2, <1>3, <1>4, <1>5, <1>6, <1>7, <1>8, <1>9, <1>10, <1>11, <1>12, <1>13,
     <1>14, <1>15, <1>16 DEF Next

\* Every step keeps what the plane shows in order: only the two commits put a
\* picture on it, and a fresh one comes with the size of its group.
LEMMA ShownStep ==
  ASSUME Inv, [Next]_vars
  PROVE  Shown'
<1> USE DEF Inv
<1>1. ASSUME NEW new \in Sizes, info_change(new) PROVE Shown'
  BY <1>1 DEF info_change, Shown, PlaneTyped, WholePicture, Letterboxed
<1>2. CASE setup_commit
  <2>1. CASE UNCHANGED plane
    BY <2>1 DEF Shown, PlaneTyped, WholePicture, Letterboxed
  <2>2. CASE Commit(fbs[1], size[1], size[2], TRUE)
    <3>1. fbs[1] \in Sizes \cup {NoFb} /\ size \in Sizes \cup {NoFb} /\ fbs[1] \in {NoFb, size}
      BY PlaneAssumption DEF TypeOK, PlaneInv
    <3>2. size[1] \in Nat /\ size[2] \in Nat /\ size = <<size[1], size[2]>>
      BY <3>1, Sides
    <3>. QED
      BY <2>2, <3>1, <3>2, CommitShown
  <2>. QED
    BY <1>2, <2>1, <2>2 DEF setup_commit
<1>3. CASE display_commit
  <2>1. /\ hand.fb \in Slots /\ fbs[hand.fb] \in Sizes \cup {NoFb} /\ w \in Nat /\ h \in Nat
        /\ (hand.gen = gen) \in BOOLEAN
    BY <1>3 DEF display_commit, TypeOK
  <2>2. ASSUME hand.gen = gen, fbs[hand.fb] # NoFb PROVE fbs[hand.fb] = <<w, h>>
    <3>1. Settled
      BY <1>3, <2>1, <2>2 DEF Settled, PlaneInv, TypeOK
    <3>2. w = size[1] /\ h = size[2] /\ fbs[hand.fb] = size
      BY <1>3, <2>1, <2>2, <3>1 DEF PlaneInv, display_commit
    <3>. QED
      BY <2>1, <3>2, Sides
  <2>. QED
    BY <1>3, <2>1, <2>2, CommitShown DEF display_commit
<1>4. CASE UNCHANGED plane
  BY <1>4 DEF Shown, PlaneTyped, WholePicture, Letterboxed
<1>. QED
  BY <1>1, <1>2, <1>3, <1>4 DEF Next, zero_w, zero_h, no_group, add_framebuffers, set_w,
     set_h, publish, display_take, read_w, again_w, read_h, again_h, vars

\* commit_plane, called by two threads that share src_w and src_h without a
\* lock, shows every picture of the current buffer group whole and every
\* picture letterboxed.
THEOREM PicturesFit == Spec => [](TypeOK /\ PlaneInv /\ WholePicture /\ Letterboxed)
<1>1. Init => Inv
  <2> SUFFICES ASSUME Init PROVE Inv
    OBVIOUS
  <2>1. TypeOK /\ PlaneInv
    BY PlaneAssumption DEF Init, TypeOK, PlaneTyped, PlaneInv, Settled, Picture, NoPicture
  <2>2. Shown
    BY DEF Init, Shown, PlaneTyped, WholePicture, Letterboxed
  <2>. QED
    BY <2>1, <2>2 DEF Inv
<1>2. Inv /\ [Next]_vars => Inv'
  BY ShownStep, TypeStep, InvStep DEF Inv, Shown
<1>3. Inv => TypeOK /\ PlaneInv /\ WholePicture /\ Letterboxed
  BY DEF Inv, Shown
<1>. QED
  BY <1>1, <1>2, <1>3, PTL DEF Spec
=============================================================================
