--------------------------- MODULE Startup_proofs ---------------------------
(***************************************************************************)
(* The beginning of main, for any command line, files, boards and number   *)
(* of decoders: the configuration read and the payload types let through,  *)
(* the output chosen, the objects given back and the background left       *)
(* behind the video. The parser's steps are in Config_proofs.              *)
(***************************************************************************)
EXTENDS Startup, Config_proofs

-----------------------------------------------------------------------------
(* Choosing the first of something.                                        *)

\* First picks an element of the set.
LEMMA FirstIn ==
  ASSUME NEW S, S \subseteq Nat, S # {}
  PROVE  First(S) \in S
  BY LeastNat DEF First

\* What the type of a board says of its parts.
LEMMA BoardParts ==
  ASSUME board \in Board
  PROVE  /\ Len(board.connectors) \in Nat /\ Len(board.planes) \in Nat /\ board.crtcs \in Nat
         /\ \A n \in 1..Len(board.connectors) :
              /\ Len(Connector(n).modes) \in Nat /\ Len(Connector(n).encoders) \in Nat
              /\ \A k \in 1..Len(Connector(n).modes) : Connector(n).modes[k] \in Mode
<1>1. Len(board.connectors) \in Nat /\ Len(board.planes) \in Nat /\ board.crtcs \in Nat
  BY DEF Board
<1>2. ASSUME NEW n \in 1..Len(board.connectors)
      PROVE  /\ Connector(n).modes \in Seq(Mode)
             /\ Connector(n).encoders \in Seq(Nat)
  <2>1. board.connectors \in Seq(ConnectorInfo)
    BY DEF Board
  <2>2. Connector(n) \in ConnectorInfo
    BY <1>1, <2>1 DEF Connector
  <2>. QED
    BY <2>2 DEF ConnectorInfo
<1>3. ASSUME NEW n \in 1..Len(board.connectors)
      PROVE  /\ Len(Connector(n).modes) \in Nat /\ Len(Connector(n).encoders) \in Nat
             /\ \A k \in 1..Len(Connector(n).modes) : Connector(n).modes[k] \in Mode
  BY <1>2
<1>. QED
  BY <1>1, <1>3

\* The board before main has opened the card has nothing on it.
LEMMA NoBoardIsBoard == NoBoard \in Board
<1> DEFINE E == [crtc : Nat, possible : SUBSET Nat]
           P == [primary : BOOLEAN, possible : SUBSET Nat]
           A == SUBSET ({"connector", "encoder", "crtc", "plane"} \X Nat)
<1>1. Board = [connectors : Seq(ConnectorInfo), encoders : Seq(E), planes : Seq(P),
               crtcs : Nat, answers : A]
  BY DEF Board
<1>2. {} \in A
  OBVIOUS
<1> HIDE DEF E, P, A
<1>. QED
  BY <1>1, <1>2 DEF NoBoard

\* choose_crtc finds a CRTC exactly for a usable connector.
LEMMA PickIsUsable ==
  ASSUME board \in Board, NEW n \in 1..Len(board.connectors), Candidate(n)
  PROVE  PickCrtc(n) # 0 <=> Usable(n)
<1> DEFINE able == {e \in 1..Len(Connector(n).encoders) : Reachable(n, e) # {}}
<1>1. able \subseteq Nat
  BY BoardParts
<1>2. CASE CurrentCrtc(n) # 0
  BY <1>2 DEF PickCrtc, Usable
<1>3. CASE CurrentCrtc(n) = 0 /\ able # {}
  <2>1. First(able) \in able
    BY <1>1, <1>3, FirstIn, ZenonT(30)
  <2>2. Reachable(n, First(able)) # {} /\ Reachable(n, First(able)) \subseteq 1..board.crtcs
    BY <2>1, ZenonT(30) DEF Reachable
  <2>3. First(Reachable(n, First(able))) \in 1..board.crtcs
    <3> DEFINE S == Reachable(n, First(able))
    <3>0. 1..board.crtcs \subseteq Nat
      BY BoardParts
    <3>1. S \subseteq 1..board.crtcs /\ S # {}
      BY <2>2
    <3> HIDE DEF S
    <3>2. First(S) \in S
      BY <3>0, <3>1, FirstIn
    <3>. QED
      BY <3>1, <3>2 DEF S
  <2>4. PickCrtc(n) = First(Reachable(n, First(able)))
    BY <1>3 DEF PickCrtc
  <2>5. PickCrtc(n) # 0
    BY <2>3, <2>4, BoardParts
  <2>. QED
    BY <2>1, <2>5 DEF Usable
<1>4. CASE CurrentCrtc(n) = 0 /\ able = {}
  BY <1>4 DEF PickCrtc, Usable
<1>. QED
  BY <1>2, <1>3, <1>4

-----------------------------------------------------------------------------
(* Choosing a mode.                                                        *)

\* What better_mode compares are numbers.
LEMMA Rates ==
  ASSUME NEW mode \in Mode
  PROVE  /\ vrefresh(mode) \in Nat /\ Area(mode) \in Nat
         /\ mode.preferred \in Nat /\ mode.clock \in Nat
<1>1. /\ mode.vrefresh \in Nat /\ mode.clock \in Nat /\ mode.preferred \in Nat
      /\ mode.hdisplay \in Nat /\ mode.vdisplay \in Nat
      /\ mode.htotal \in Nat /\ mode.vtotal \in Nat
  BY DEF Mode
<1>2. Area(mode) \in Nat
  BY <1>1 DEF Area
<1> DEFINE total == mode.htotal * mode.vtotal
           a == 2 * mode.clock * 1000 + total
           b == 2 * total
<1>3. total \in Nat
  BY <1>1
<1>4. a \in Nat /\ b \in Nat /\ (total # 0 => b # 0)
  BY <1>1, <1>3
<1>5. ASSUME total # 0 PROVE a \div b \in Nat
  <2>1. a \in Nat /\ b \in Nat \ {0}
    BY <1>4, <1>5
  <2> HIDE DEF a, b
  <2>. QED
    BY <2>1
<1>6. vrefresh(mode) \in Nat
  <2>1. CASE mode.vrefresh # 0
    BY <1>1, <2>1 DEF vrefresh
  <2>2. CASE mode.vrefresh = 0 /\ total # 0
    BY <1>5, <2>2 DEF vrefresh
  <2>3. CASE mode.vrefresh = 0 /\ total = 0
    BY <2>3 DEF vrefresh
  <2>. QED
    BY <2>1, <2>2, <2>3
<1>. QED
  BY <1>1, <1>2, <1>6

\* better_mode orders the modes: what does not beat the best so far does not
\* beat its successor, no mode beats itself, and none that has a higher rate
\* goes unnoticed.
LEMMA ModeOrder ==
  ASSUME NEW x \in Mode, NEW a \in Mode, NEW b \in Mode
  PROVE  /\ better_mode(b, a) /\ ~better_mode(x, a) => ~better_mode(x, b)
         /\ ~better_mode(x, x)
         /\ ~better_mode(x, a) => vrefresh(x) <= vrefresh(a)
<1>1. /\ vrefresh(x) \in Nat /\ Area(x) \in Nat /\ x.preferred \in Nat /\ x.clock \in Nat
      /\ vrefresh(a) \in Nat /\ Area(a) \in Nat /\ a.preferred \in Nat /\ a.clock \in Nat
      /\ vrefresh(b) \in Nat /\ Area(b) \in Nat /\ b.preferred \in Nat /\ b.clock \in Nat
  BY Rates
<1>. QED
  BY <1>1 DEF better_mode

\* The first mode is the best of one.
LEMMA BestStart ==
  ASSUME board \in Board, NEW n \in 1..Len(board.connectors), Len(Connector(n).modes) > 0
  PROVE  BestOf(n, Connector(n).modes[1], 2)
<1>1. Len(Connector(n).modes) \in Nat /\ Connector(n).modes[1] \in Mode
  BY BoardParts
<1>2. ~better_mode(Connector(n).modes[1], Connector(n).modes[1])
  BY <1>1, ModeOrder
<1>. QED
  BY <1>1, <1>2 DEF BestOf

\* One round of the loop over the modes.
LEMMA BestNext ==
  ASSUME board \in Board, NEW n \in 1..Len(board.connectors),
         NEW k \in Nat \ {0}, k <= Len(Connector(n).modes),
         NEW mode, BestOf(n, mode, k)
  PROVE  BestOf(n, IF better_mode(Connector(n).modes[k], mode)
                   THEN Connector(n).modes[k] ELSE mode, k + 1)
<1> DEFINE modes == Connector(n).modes
<1>1. Len(modes) \in Nat /\ \A j \in 1..Len(modes) : modes[j] \in Mode
  BY BoardParts
<1>2. PICK i0 \in 1..(k - 1) : i0 <= Len(modes) /\ mode = modes[i0]
  BY DEF BestOf
<1>3. \A j \in 1..(k - 1) : j <= Len(modes) => ~better_mode(modes[j], mode)
  BY DEF BestOf
<1>4. mode \in Mode /\ modes[k] \in Mode
  BY <1>1, <1>2
<1> HIDE DEF modes
<1>5. CASE better_mode(modes[k], mode)
  <2>1. ASSUME NEW j \in 1..k PROVE ~better_mode(modes[j], modes[k])
    <3>1. modes[j] \in Mode
      BY <1>1 DEF modes
    <3>2. CASE j = k
      BY <1>4, <3>2, ModeOrder
    <3>3. CASE j # k
      <4>1. ~better_mode(modes[j], mode)
        BY <1>1, <1>3, <3>3 DEF modes
      <4>. QED
        BY <1>4, <1>5, <3>1, <4>1, ModeOrder
    <3>. QED
      BY <3>2, <3>3
  <2>. QED
    BY <1>1, <1>5, <2>1 DEF BestOf, modes
<1>6. CASE ~better_mode(modes[k], mode)
  BY <1>1, <1>2, <1>3, <1>6 DEF BestOf, modes
<1>. QED
  BY <1>5, <1>6 DEF modes

-----------------------------------------------------------------------------
(* What is held.                                                           *)

\* Every step of atomic_modeset_maxhz holds what its stage says.
LEMMA HoldingStep ==
  ASSUME Holding, DisplayStep
  PROVE  Holding'
<1> USE DEF Holding, Returned, Output, DumbFB
<1>1. CASE get_resources
  BY <1>1 DEF get_resources
<1>2. CASE scan_connector
  BY <1>2 DEF scan_connector
<1>3. CASE scan_mode
  BY <1>3 DEF scan_mode
<1>4. CASE choose_crtc
  BY <1>4 DEF choose_crtc
<1>5. CASE no_connector
  BY <1>5 DEF no_connector
<1>6. CASE modeset_create_fb
  BY <1>6 DEF modeset_create_fb, create_argb_fb, FbAcquired, FbReleased, FbOutcomes
<1>7. CASE create_blob
  BY <1>7 DEF create_blob, Stage
<1>8. CASE atomic_alloc
  BY <1>8 DEF atomic_alloc, Stage
<1>9. CASE atomic_commit
  BY <1>9 DEF atomic_commit, destroy_dumb_fb
<1>10. CASE UNCHANGED outputVars
  BY <1>10 DEF outputVars
<1>. QED
  BY <1>1, <1>2, <1>3, <1>4, <1>5, <1>6, <1>7, <1>8, <1>9, <1>10
     DEF DisplayStep, Background, video_decoder_init, pick_primary_plane,
         background_create_fb, background_enable, teardown_background

-----------------------------------------------------------------------------
(* The search.                                                             *)

\* A board and a wish that stay the same keep what was said of them.
LEMMA Frozen ==
  ASSUME UNCHANGED <<board, want>>
  PROVE  /\ \A n : /\ Usable(n)' <=> Usable(n)
                   /\ Candidate(n)' <=> Candidate(n)
                   /\ Connector(n)' = Connector(n)
         /\ \A n, mode, k : BestOf(n, mode, k)' <=> BestOf(n, mode, k)
<1>1. \A n : /\ Usable(n)' <=> Usable(n)
             /\ Candidate(n)' <=> Candidate(n)
             /\ Connector(n)' = Connector(n)
  BY DEF Usable, Candidate, CurrentCrtc, Reachable, Connector, Answers
<1>2. \A n, mode, k : BestOf(n, mode, k)' <=> BestOf(n, mode, k)
  BY DEF BestOf, Connector
<1>. QED
  BY <1>1, <1>2

\* Every step of the search for a connector, a mode and a CRTC.
LEMMA SearchStep ==
  ASSUME Search, DisplayStep
  PROVE  Search'
<1> USE Frozen DEF Search, Scanning, Environment
<1>0. Len(board.connectors) \in Nat
  BY BoardParts
<1>1. CASE get_resources
  BY <1>1 DEF get_resources
<1>2. CASE scan_connector
  <2>1. c \in 1..Len(board.connectors)
    BY <1>0, <1>2 DEF scan_connector
  <2>2. CASE Candidate(c)
    <3>1. BestOf(c, Connector(c).modes[1], 2)
      BY <2>1, <2>2, BestStart DEF Candidate
    <3>. QED
      BY <1>2, <2>1, <2>2, <3>1 DEF scan_connector
  <2>3. CASE ~Candidate(c)
    <3>1. ~Usable(c)
      BY <2>3 DEF Usable
    <3>. QED
      BY <1>2, <2>1, <2>3, <3>1 DEF scan_connector
  <2>. QED
    BY <2>2, <2>3
<1>3. CASE scan_mode
  <2>1. c \in 1..Len(board.connectors) /\ Len(Connector(c).modes) \in Nat
    BY <1>0, <1>3, BoardParts DEF scan_mode
  <2>2. CASE m <= Len(Connector(c).modes)
    <3>1. BestOf(c, best', m + 1)
      BY <1>3, <2>1, <2>2, BestNext DEF scan_mode
    <3>. QED
      BY <1>3, <2>1, <2>2, <3>1 DEF scan_mode
  <2>3. CASE ~(m <= Len(Connector(c).modes))
    BY <1>3, <2>1, <2>3 DEF scan_mode
  <2>. QED
    BY <2>2, <2>3
<1>4. CASE choose_crtc
  <2>1. c \in 1..Len(board.connectors) /\ Candidate(c)
    BY <1>0, <1>4 DEF choose_crtc
  <2>2. PickCrtc(c) # 0 <=> Usable(c)
    BY <2>1, PickIsUsable
  <2>3. CASE PickCrtc(c) # 0
    BY <1>4, <2>1, <2>2, <2>3 DEF choose_crtc
  <2>4. CASE PickCrtc(c) = 0
    BY <1>4, <2>1, <2>2, <2>4 DEF choose_crtc
  <2>. QED
    BY <2>3, <2>4
<1>5. CASE no_connector
  BY <1>5 DEF no_connector
<1>6. CASE modeset_create_fb
  BY <1>6 DEF modeset_create_fb
<1>7. CASE create_blob
  BY <1>7 DEF create_blob, Stage
<1>8. CASE atomic_alloc
  BY <1>8 DEF atomic_alloc, Stage
<1>9. CASE atomic_commit
  BY <1>9 DEF atomic_commit
<1>10. CASE UNCHANGED outputVars /\ Environment
  BY <1>10 DEF outputVars
<1>. QED
  BY <1>1, <1>2, <1>3, <1>4, <1>5, <1>6, <1>7, <1>8, <1>9, <1>10
     DEF DisplayStep, Background, video_decoder_init, pick_primary_plane,
         background_create_fb, background_enable, teardown_background

-----------------------------------------------------------------------------
(* The background.                                                         *)

\* Every step of atomic_modeset_maxhz and of a decoder's background keeps the
\* background on the plane that was picked for it.
LEMMA BackgroundStep ==
  ASSUME board \in Board, BackgroundPlane, DisplayStep
  PROVE  BackgroundPlane'
<1> USE DEF BackgroundPlane, Environment
<1>1. CASE /\ modeset # "ok" /\ UNCHANGED <<backgroundVars, board>>
           /\ scanout' \in [1..Len(board.planes) -> {"off", "background"}]
           /\ \A p \in DOMAIN scanout' : scanout'[p] = "background" => scanout[p] = "background"
  <2>1. decoder' = "absent" /\ bgHeld' = {} /\ DOMAIN scanout' = DOMAIN scanout
    BY <1>1 DEF backgroundVars
  <2>. QED
    BY <1>1, <2>1 DEF backgroundVars
<1>2. CASE \/ get_resources \/ scan_connector \/ scan_mode \/ choose_crtc \/ no_connector
           \/ modeset_create_fb \/ create_blob \/ atomic_alloc
  <2>1. modeset # "ok" /\ Scanning
    BY <1>2 DEF get_resources, scan_connector, scan_mode, choose_crtc, no_connector,
                modeset_create_fb, create_blob, atomic_alloc, Stage
  <2>. QED
    BY <1>1, <2>1 DEF Scanning
<1>3. CASE atomic_commit
  <2>1. modeset # "ok" /\ UNCHANGED <<backgroundVars, board>>
    BY <1>3 DEF atomic_commit
  <2>2. CASE UNCHANGED scanout
    BY <1>1, <2>1, <2>2
  <2>3. CASE scanout' = [p \in DOMAIN scanout |-> IF p = want.plane THEN "off" ELSE scanout[p]]
    BY <1>1, <2>1, <2>3
  <2>. QED
    BY <1>3, <2>2, <2>3 DEF atomic_commit
<1>4. ASSUME UNCHANGED outputVars, Environment PROVE PrimaryPlanes' = PrimaryPlanes
  BY <1>4 DEF PrimaryPlanes, Answers, outputVars
<1>5. CASE video_decoder_init
  BY <1>5 DEF video_decoder_init, Background, outputVars
<1>6. CASE pick_primary_plane
  <2>1. PrimaryPlanes \subseteq Nat
    BY BoardParts DEF PrimaryPlanes
  <2>2. PrimaryPlanes # {} => First(PrimaryPlanes) \in PrimaryPlanes
    BY <2>1, FirstIn
  <2>. QED
    BY <1>4, <1>6, <2>2 DEF pick_primary_plane, Background, outputVars
<1>7. CASE background_create_fb
  BY <1>4, <1>7 DEF background_create_fb, create_argb_fb, FbAcquired, FbReleased, FbOutcomes,
     DumbFB, Background, outputVars
<1>8. CASE background_enable
  BY <1>4, <1>8 DEF background_enable, destroy_dumb_fb, Background, outputVars
<1>9. CASE teardown_background
  BY <1>9 DEF teardown_background, destroy_dumb_fb, PlanesWithout, Background, outputVars
<1>. QED
  BY <1>2, <1>3, <1>5, <1>6, <1>7, <1>8, <1>9 DEF DisplayStep

-----------------------------------------------------------------------------
\* main's call with a configured connector and plane starts the search afresh.
LEMMA CallStep ==
  ASSUME DisplayInv, NEW b \in Boards, NEW connector, NEW plane,
         call_modeset(b, connector, plane)
  PROVE  DisplayInv'
<1> USE ModesetAssumption DEF DisplayInv, call_modeset, backgroundVars
<1>1. Holding'
  BY DEF Holding, Returned
<1>2. Search'
  BY DEF Search
<1>3. BackgroundPlane'
  <2>1. decoder' = "absent" /\ bgHeld' = {} /\ modeset' # "ok"
    BY DEF BackgroundPlane
  <2>. QED
    BY <2>1 DEF BackgroundPlane
<1>. QED
  BY <1>1, <1>2, <1>3

\* The invariant says what the three properties say.
LEMMA InvImplies ==
  ASSUME DisplayInv
  PROVE  ChosenOutput /\ DisplayObjects /\ BackgroundBehind
<1> USE DEF DisplayInv
<1>1. ChosenOutput
  <2>1. CASE modeset = "ok"
    <3> DEFINE modes == Connector(c).modes
    <3>1. /\ c \in 1..Len(board.connectors) /\ Usable(c) /\ \A n \in 1..(c - 1) : ~Usable(n)
          /\ ms.connector = c /\ ms.mode = best
          /\ Len(modes) \in Nat /\ \A k \in 1..Len(modes) : modes[k] \in Mode
      BY <2>1, BoardParts DEF Search
    <3>2. \E k \in 1..Len(modes) : best = modes[k]
      BY <2>1, <3>1 DEF Search, BestOf
    <3>3. \A k \in 1..Len(modes) : ~better_mode(modes[k], best)
      BY <2>1, <3>1 DEF Search, BestOf
    <3>4. \A k \in 1..Len(modes) : vrefresh(modes[k]) <= vrefresh(best)
      BY <3>1, <3>2, <3>3, ModeOrder
    <3>. QED
      BY <2>1, <3>1, <3>2, <3>3, <3>4 DEF ChosenOutput
  <2>2. CASE modeset = "-2"
    <3>1. \A n \in 1..Len(board.connectors) : n \in 1..(c - 1)
      BY <2>2, BoardParts DEF Search
    <3>. QED
      BY <2>2, <3>1 DEF ChosenOutput, Search
  <2>. QED
    BY <2>1, <2>2 DEF ChosenOutput
<1>2. DisplayObjects
  BY DEF DisplayObjects, Holding, BackgroundPlane
<1>3. BackgroundBehind
  BY DEF BackgroundBehind, BackgroundPlane
<1>. QED
  BY <1>1, <1>2, <1>3

\* However main is started, the display set-up picks the best mode of the first
\* usable connector, gives back all it took whatever fails, and keeps each
\* decoder's background on a primary plane that is not the video's.
THEOREM DisplaySetUp ==
  Spec => [](DisplayInv /\ ChosenOutput /\ DisplayObjects /\ BackgroundBehind)
<1>1. Init => DisplayInv
  <2> SUFFICES ASSUME DisplayInit PROVE DisplayInv
    BY DEF Init
  <2> USE DEF DisplayInit
  <2>1. Holding
    BY DEF Holding, Returned
  <2>2. Search
    <3>1. board \in Board
      BY NoBoardIsBoard
    <3>2. c = 1 /\ m = 1 /\ modeset = "idle"
      OBVIOUS
    <3> HIDE DEF DisplayInit
    <3>3. \A n \in 1..(c - 1) : ~Usable(n)
      BY <3>2
    <3>. QED
      BY <3>1, <3>2, <3>3 DEF Search
  <2>3. BackgroundPlane
    BY DEF BackgroundPlane
  <2>. QED
    BY <2>1, <2>2, <2>3 DEF DisplayInv
<1>2. DisplayInv /\ [Next]_vars => DisplayInv'
  <2> SUFFICES ASSUME DisplayInv, [Next]_vars PROVE DisplayInv'
    OBVIOUS
  <2>1. CASE main_modeset
    BY <2>1, CallStep DEF main_modeset
  <2>2. CASE display_step
    <3>1. board \in Board /\ DisplayStep
      BY <2>2 DEF display_step, DisplayInv, Search
    <3>. QED
      BY <3>1, HoldingStep, SearchStep, BackgroundStep DEF DisplayInv
  <2>3. CASE UNCHANGED displayVars
    <3>1. Holding'
      BY <2>3 DEF displayVars, outputVars, DisplayInv, Holding
    <3>2. Search'
      BY <2>3, Frozen DEF displayVars, outputVars, DisplayInv, Search
    <3>3. BackgroundPlane'
      <4>1. PrimaryPlanes' = PrimaryPlanes
        BY <2>3 DEF displayVars, outputVars, PrimaryPlanes, Answers
      <4>. QED
        BY <2>3, <4>1 DEF displayVars, outputVars, backgroundVars, DisplayInv, BackgroundPlane
    <3>. QED
      BY <3>1, <3>2, <3>3 DEF DisplayInv
  <2>. QED
    BY <2>1, <2>2, <2>3 DEF Next, parse_step, vars
<1>3. DisplayInv => ChosenOutput /\ DisplayObjects /\ BackgroundBehind
  BY InvImplies
<1>. QED
  BY <1>1, <1>2, <1>3, PTL DEF Spec

-----------------------------------------------------------------------------
(* Types.                                                                  *)

\* The CRTC that choose_crtc finds is a position, or 0.
LEMMA PickTyped ==
  ASSUME board \in Board, OwnEncoders(board), NEW n \in 1..Len(board.connectors)
  PROVE  PickCrtc(n) \in Nat
<1> DEFINE able == {e \in 1..Len(Connector(n).encoders) : Reachable(n, e) # {}}
<1>1. able \subseteq Nat
  BY BoardParts
<1>2. CurrentCrtc(n) \in Nat
  <2> DEFINE enc == Connector(n).encoder
             E == [crtc : Nat, possible : SUBSET Nat]
  <2>1. board.encoders \in Seq(E)
    BY DEF Board
  <2>2. ASSUME Answers("encoder", enc) PROVE board.encoders[enc].crtc \in Nat
    <3>1. enc \in 1..Len(board.encoders)
      <4>1. <<"encoder", enc>> \in board.answers
        BY <2>2 DEF Answers
      <4>2. <<"encoder", enc>>[1] = "encoder" /\ <<"encoder", enc>>[2] = enc
        OBVIOUS
      <4>. QED
        BY <4>1, <4>2 DEF OwnEncoders
    <3> HIDE DEF enc, E
    <3>2. board.encoders[enc] \in E
      BY <2>1, <3>1
    <3>. QED
      BY <3>2 DEF E
  <2>. QED
    BY <2>2 DEF CurrentCrtc
<1>3. CASE CurrentCrtc(n) = 0 /\ able # {}
  <2> DEFINE S == Reachable(n, First(able))
  <2>1. First(able) \in able
    BY <1>1, <1>3, FirstIn, ZenonT(30)
  <2>2. S # {} /\ S \subseteq 1..board.crtcs
    BY <2>1, ZenonT(30) DEF Reachable
  <2>3. PickCrtc(n) = First(S)
    BY <1>3 DEF PickCrtc
  <2>4. 1..board.crtcs \subseteq Nat
    BY BoardParts
  <2> HIDE DEF S
  <2>. QED
    BY <2>2, <2>3, <2>4, FirstIn
<1>. QED
  BY <1>2, <1>3 DEF PickCrtc

\* Every step of the display set-up keeps the types.
LEMMA DisplayTypeStep ==
  ASSUME DisplayInv, DisplayTypeOK, DisplayStep
  PROVE  DisplayTypeOK'
<1> USE DEF DisplayTypeOK, Scanning, Environment, DumbFB
<1>0. /\ board \in Board /\ Len(board.connectors) \in Nat
      /\ BackgroundPlane'
      /\ Len(board'.planes) \in Nat /\ UNCHANGED board
  <2>1. board \in Board /\ BackgroundPlane
    BY DEF DisplayInv, Search
  <2>2. UNCHANGED board
    BY DEF DisplayStep, get_resources, scan_connector, scan_mode, choose_crtc, no_connector,
       modeset_create_fb, create_blob, atomic_alloc, atomic_commit, Stage, Background,
       video_decoder_init, pick_primary_plane, background_create_fb, background_enable,
       teardown_background
  <2>. QED
    BY <2>1, <2>2, BoardParts, BackgroundStep
<1>kept. OwnEncoders(board')
  BY <1>0
<1>scanout. \A p \in DOMAIN scanout' : scanout'[p] \in {"off", "background"}
  BY <1>0 DEF BackgroundPlane
<1> HIDE DEF DisplayTypeOK
<1>1. CASE get_resources \/ no_connector \/ modeset_create_fb \/ create_blob \/ atomic_alloc
           \/ atomic_commit
  <2>1. /\ UNCHANGED <<c, m, best, crtc, backgroundVars>>
        /\ modeset' \in {"connectors", "blob", "request", "commit"}
                        \cup {"ok", "-1", "-2", "-3", "-4", "-5", "-9"}
    BY <1>1 DEF get_resources, no_connector, modeset_create_fb, create_blob, atomic_alloc,
       atomic_commit, Stage
  <2>2. held' \subseteq {"res", "connector", "crtc", "blob", "req"} \cup DumbFB
    BY <1>1 DEF get_resources, no_connector, modeset_create_fb, create_blob, atomic_alloc,
       atomic_commit, Stage, create_argb_fb, FbAcquired, FbReleased, FbOutcomes,
       destroy_dumb_fb, DisplayTypeOK
  <2>. QED
    BY <1>kept, <1>scanout, <2>1, <2>2 DEF DisplayTypeOK, backgroundVars
<1>2. CASE scan_connector
  <2>1. /\ UNCHANGED <<crtc, backgroundVars>>
        /\ modeset' \in {"connectors", "modes"} /\ m' \in Nat \ {0} /\ c' \in Nat \ {0}
        /\ held' \subseteq held \cup {"connector"}
    BY <1>2 DEF scan_connector, DisplayTypeOK
  <2>2. best' \in Mode
    <3>1. CASE Candidate(c)
      <4>1. c \in 1..Len(board.connectors) /\ Len(Connector(c).modes) > 0
        <5>1. Len(Connector(c).modes) > 0
          BY <3>1, Zenon DEF Candidate
        <5>2. c <= Len(board.connectors) /\ c \in Nat \ {0}
          BY <1>2 DEF scan_connector, DisplayTypeOK
        <5>. QED
          BY <1>0, <5>1, <5>2
      <4>2. Connector(c).modes[1] \in Mode
        BY <1>0, <4>1, BoardParts
      <4>. QED
        BY <1>2, <3>1, <4>2 DEF scan_connector
    <3>2. CASE ~Candidate(c)
      BY <1>2, <3>2 DEF scan_connector, DisplayTypeOK
    <3>. QED
      BY <3>1, <3>2
  <2>. QED
    BY <1>kept, <1>scanout, <2>1, <2>2 DEF DisplayTypeOK, backgroundVars
<1>3. CASE scan_mode
  <2>1. c \in 1..Len(board.connectors)
    BY <1>0, <1>3 DEF scan_mode, DisplayInv, Search
  <2>2. /\ UNCHANGED <<c, crtc, held, backgroundVars>>
        /\ modeset' \in {"modes", "crtc"} /\ m' \in Nat \ {0}
    BY <1>3 DEF scan_mode, DisplayTypeOK
  <2>3. best' \in Mode
    <3>1. CASE m <= Len(Connector(c).modes)
      <4>1. Connector(c).modes[m] \in Mode
        BY <1>0, <2>1, <3>1, BoardParts DEF DisplayTypeOK
      <4>. QED
        BY <1>3, <3>1, <4>1 DEF scan_mode, DisplayTypeOK
    <3>2. CASE ~(m <= Len(Connector(c).modes))
      BY <1>3, <3>2 DEF scan_mode, DisplayTypeOK
    <3>. QED
      BY <3>1, <3>2
  <2>. QED
    BY <1>kept, <1>scanout, <2>2, <2>3 DEF DisplayTypeOK, backgroundVars
<1>4. CASE choose_crtc
  <2>1. c \in 1..Len(board.connectors)
    BY <1>0, <1>4 DEF choose_crtc, DisplayInv, Search
  <2>2. crtc' \in Nat
    BY <1>0, <1>4, <2>1, PickTyped DEF choose_crtc, DisplayTypeOK
  <2>3. /\ UNCHANGED <<m, best, backgroundVars>>
        /\ modeset' \in {"fb", "connectors"} /\ c' \in Nat \ {0}
        /\ held' \subseteq held \cup {"crtc"}
    BY <1>4 DEF choose_crtc, DisplayTypeOK
  <2>. QED
    BY <1>kept, <1>scanout, <2>2, <2>3 DEF DisplayTypeOK, backgroundVars
<1>5. CASE \/ video_decoder_init \/ pick_primary_plane \/ background_create_fb
           \/ background_enable \/ teardown_background
  <2>1. PrimaryPlanes \subseteq Nat /\ (PrimaryPlanes # {} => First(PrimaryPlanes) \in Nat)
    <3>1. PrimaryPlanes \subseteq Nat
      BY <1>0, BoardParts DEF PrimaryPlanes
    <3>. QED
      BY <3>1, FirstIn
  <2>2. UNCHANGED outputVars
    BY <1>5 DEF video_decoder_init, pick_primary_plane, background_create_fb,
       background_enable, teardown_background, Background
  <2>3. /\ decoder' \in {"absent", "pick", "create", "enable", "on", "without"}
        /\ decoders' \in Nat /\ background' \in Nat
    BY <1>5, <2>1 DEF video_decoder_init, pick_primary_plane, background_create_fb,
       background_enable, teardown_background, DisplayTypeOK
  <2>4. bgHeld' \subseteq DumbFB
    BY <1>0 DEF BackgroundPlane
  <2>. QED
    BY <1>kept, <1>scanout, <2>2, <2>3, <2>4 DEF DisplayTypeOK, outputVars
<1>. QED
  BY <1>1, <1>2, <1>3, <1>4, <1>5 DEF DisplayStep

-----------------------------------------------------------------------------
(* The whole of main's beginning.                                          *)

\* cfg is at every moment what the part of the input read so far asks for.
THEOREM ParserInvariant == Spec => []ParseInv
<1>1. Init => ParseInv
  BY ParseInvInit DEF Init
<1>2. ParseInv /\ [Next]_vars => ParseInv'
  <2> SUFFICES ASSUME ParseInv, [Next]_vars PROVE ParseInv'
    OBVIOUS
  <2>1. CASE parse_step
    BY <2>1, ParseInvStep DEF parse_step
  <2>2. CASE main_modeset
    <3>1. /\ parser' = "used" /\ argv' = <<>> /\ i' = 1 /\ UNCHANGED <<file, line, section, cfg>>
      BY <2>2 DEF main_modeset
    <3>2. ParseTypeOK'
      BY <3>1 DEF ParseInv, ParseTypeOK, Parsed
    <3>. QED
      BY <3>1, <3>2 DEF ParseInv
  <2>3. CASE UNCHANGED parseVars
    <3>1. argv' = argv /\ UNCHANGED <<parser, i, file, line, section, cfg>>
      BY <2>3 DEF parseVars
    <3>2. ParseTypeOK'
      BY <3>1 DEF ParseInv, ParseTypeOK
    <3>3. SUFFICES ASSUME Unambiguous', parser' \in {"configs", "file", "options", "ok"}
                   PROVE  Read'
      BY <3>2 DEF ParseInv, Read
    <3>4. Reading
      BY <3>1, <3>3, SameArguments DEF Reading
    <3>5. PositionInv /\ ValuesInv /\ NumbersInv
      BY <3>4 DEF Reading, ParseInv
    <3>6. PositionInv'
      BY <3>1, <3>5, SameArguments DEF PositionInv
    <3>7. ASSUME NEW k
          PROVE  /\ FromFiles(ReadFiles(k, <<i, 1>>), k)' = FromFiles(ReadFiles(k, <<i, 1>>), k)
                 /\ FromFiles(ReadFiles(k, <<i - 2, line>>), k)'
                      = FromFiles(ReadFiles(k, <<i - 2, line>>), k)
                 /\ FromOptions(ReadOptions(k), k)' = FromOptions(ReadOptions(k), k)
                 /\ Wanted(k)' = Wanted(k)
      <4>1. /\ ReadFiles(k, <<i, 1>>)' = ReadFiles(k, <<i, 1>>)
            /\ ReadFiles(k, <<i - 2, line>>)' = ReadFiles(k, <<i - 2, line>>)
            /\ ReadOptions(k)' = ReadOptions(k)
        BY <3>1, SameArguments DEF ReadFiles, ReadOptions
      <4>2. /\ FromFiles(ReadFiles(k, <<i, 1>>), k)' = FromFiles(ReadFiles(k, <<i, 1>>), k)
            /\ FromFiles(ReadFiles(k, <<i - 2, line>>), k)'
                 = FromFiles(ReadFiles(k, <<i - 2, line>>), k)
        BY <3>1, <4>1, SameArguments DEF FromFiles
      <4>3. FromOptions(ReadOptions(k), k)' = FromOptions(ReadOptions(k), k)
        BY <3>1, <4>1, SameArguments DEF FromOptions
      <4>. QED
        BY <3>1, <4>2, <4>3, SameArguments
    <3>8. ValuesInv'
      BY <3>1, <3>5, <3>7 DEF ValuesInv
    <3>9. NumbersInv'
      BY <3>1, <3>5, SameArguments DEF NumbersInv
    <3>. QED
      BY <3>6, <3>8, <3>9 DEF Read
  <2>. QED
    BY <2>1, <2>2, <2>3 DEF Next, display_step, vars
<1>. QED
  BY <1>1, <1>2, PTL DEF Spec

\* Whatever the order of the arguments, an option beats every INI file, the last
\* of several settings counts, and parse_cli misses none.
THEOREM CommandLineWins == Spec => []CliWins
<1>1. ParseInv => CliWins
  BY DEF ParseInv, ValuesInv, CliWins
<1>. QED
  BY <1>1, ParserInvariant, PTL

\* The receiver's filter lets through what the last --vid-pt asks for.
THEOREM FilterAsConfigured == Spec => []FilterFollowsConfig
<1>1. ParseInv => FilterFollowsConfig
  <2> SUFFICES ASSUME ParseInv, parser = "ok", Unambiguous, CliSettings("vid_pt") # {}
               PROVE  LET n == Numbers[argv[Last(CliSettings("vid_pt"), Before) + 1]]
                      IN /\ n \in 0..127 => Accepted = {n}
                         /\ n < 0 /\ n >= -IntMax - 1 => Accepted = 0..127
    BY DEF FilterFollowsConfig
  <2> DEFINE S == CliSettings("vid_pt")
             o == Last(S, Before)
             v == Numbers[argv[o + 1]]
  <2>1. /\ Len(argv) \in Nat /\ cfg.vid_pt \in Int /\ DOMAIN cfg = Fields
        /\ ValuesInv /\ NumbersInv
    BY CfgTyped, ConfigAssumption DEF ParseInv, CfgFits, Fits, Fields, IntFields, BoolFields
  <2>2. S \subseteq Options /\ Options \subseteq 1..Len(argv)
    BY DEF CliSettings, Options
  <2>3. o \in S
    <3> DEFINE G(x) == \A y \in S : x = y \/ Before(y, x)
    <3>1. \E x \in S : G(x)
      BY <2>1, <2>2, GreatestBelow DEF Before
    <3>2. o = CHOOSE x \in S : G(x)
      BY DEF Last
    <3> HIDE DEF S, G, o
    <3>. QED
      BY <3>1, <3>2
  <2>4. {cfg.vid_pt} = CliValue(o, "vid_pt") /\ CliValue(o, "vid_pt") # {}
    <3>1. "vid_pt" \in Fields
      BY DEF Fields, IntFields
    <3>2. {cfg["vid_pt"]} = FromOptions(S, "vid_pt")
      BY <2>1, <3>1 DEF ValuesInv, Wanted
    <3>3. FromOptions(S, "vid_pt") = CliValue(o, "vid_pt")
      BY DEF FromOptions
    <3>4. CliValue(o, "vid_pt") # {}
      BY <2>3 DEF CliSettings
    <3>. QED
      BY <3>2, <3>3, <3>4
  <2> HIDE DEF o, S
  <2>5. argv[o] \in DOMAIN IntOptions /\ CliValue(o, "vid_pt") = {parse_int("vid_pt", argv[o + 1])[2]}
    <3>1. argv[o] \in DOMAIN IntOptions
      BY <2>4, TextTable DEF CliValue
    <3>. QED
      BY <2>4, <3>1, CliValues
  <2>6. argv[o + 1] \in DOMAIN Numbers /\ v \in Int
    <3>1. argv[o + 1] \in DOMAIN Numbers
      BY <2>1, <2>2, <2>3, <2>5 DEF NumbersInv
    <3>. QED
      BY <3>1, ConfigAssumption
  <2>7. cfg.vid_pt = ToInt(v)
    BY <2>4, <2>5, <2>6, SettingParts DEF parse_int
  <2> HIDE DEF v
  <2>8. ASSUME v \in 0..127 PROVE Accepted = {v}
    <3>1. cfg.vid_pt = v
      BY <2>6, <2>7, <2>8, CastInRange, ConfigAssumption
    <3>2. v % 256 = v /\ ~(v < 0)
      BY <2>8
    <3>. QED
      BY <2>8, <3>1, <3>2 DEF Accepted, payload_type_matches
  <2>9. ASSUME v < 0, v >= -IntMax - 1 PROVE Accepted = 0..127
    <3>1. cfg.vid_pt = v
      <4>1. v \in -(IntMax + 1)..IntMax
        BY <2>6, <2>9, ConfigAssumption
      <4>. QED
        BY <2>6, <2>7, <4>1, CastInRange
    <3>. QED
      BY <2>9, <3>1 DEF Accepted, payload_type_matches
  <2>. QED
    BY <2>8, <2>9 DEF v, o, S
<1>. QED
  BY <1>1, ParserInvariant, PTL

\* Every state of main's beginning is well-typed: whatever texts the command line
\* and the files hold, each field of AppCfg has a value of its type.
THEOREM StartupTyped == Spec => []TypeOK
<1>1. ASSUME Init PROVE DisplayTypeOK
  <2>1. /\ board = NoBoard /\ modeset = "idle" /\ c = 1 /\ m = 1 /\ best = NoMode /\ crtc = 0
        /\ held = {} /\ decoder = "absent" /\ decoders = 0 /\ background = 0 /\ bgHeld = {}
        /\ scanout = [p \in 1..Len(board.planes) |-> "off"]
    BY <1>1, Zenon DEF Init, DisplayInit
  <2>2. OwnEncoders(board)
    BY <2>1 DEF OwnEncoders, NoBoard
  <2>3. NoMode \in Mode
    BY DEF NoMode, Mode
  <2>4. \A p \in DOMAIN scanout : scanout[p] = "off"
    BY <2>1, Zenon
  <2>. QED
    BY <2>1, <2>2, <2>3, <2>4 DEF DisplayTypeOK
<1>2. DisplayTypeOK /\ DisplayInv /\ [Next]_vars => DisplayTypeOK'
  <2> SUFFICES ASSUME DisplayTypeOK, DisplayInv, [Next]_vars PROVE DisplayTypeOK'
    OBVIOUS
  <2>1. CASE main_modeset
    <3>1. PICK b \in Boards : call_modeset(b, cfg.connector_name, cfg.plane_id)
      BY <2>1 DEF main_modeset
    <3>. QED
      BY <3>1, ModesetAssumption DEF call_modeset, backgroundVars, DisplayTypeOK
  <2>2. CASE display_step
    BY <2>2, DisplayTypeStep DEF display_step
  <2>3. CASE UNCHANGED displayVars
    BY <2>3 DEF displayVars, outputVars, backgroundVars, DisplayTypeOK
  <2>. QED
    BY <2>1, <2>2, <2>3 DEF Next, parse_step, vars
<1>3. ParseInv => ParseTypeOK
  BY DEF ParseInv
<1>. QED
  BY <1>1, <1>2, <1>3, DisplaySetUp, ParserInvariant, PTL DEF Spec, TypeOK
=============================================================================
