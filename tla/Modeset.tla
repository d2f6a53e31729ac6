------------------------------- MODULE Modeset ------------------------------
(***************************************************************************)
(* The display set-up: atomic_modeset_maxhz of src/src/drm_modeset.c, the  *)
(* dumb framebuffers of src/src/drm_fb.c, and the black background plane   *)
(* that each decoder puts behind the video (setup_black_background and     *)
(* teardown_background of src/src/video_decoder.c).                        *)
(*                                                                         *)
(* The DRM device is external. A board fixes its connectors, encoders,     *)
(* CRTCs and planes and which of them the device answers for; every call   *)
(* that allocates or commits may fail. Removing a framebuffer turns off    *)
(* the planes that show it. An encoder the code gets it also frees within  *)
(* the same step, and the plane's properties other than its framebuffer    *)
(* are left out.                                                           *)
(***************************************************************************)
EXTENDS Integers, Sequences

CONSTANTS
  Boards,       \* the display hardware the program may meet
  MaxDecoders   \* bound: decoders initialised on the device

\* A mode as the device describes it. preferred is 1 for the DRM flag.
Mode == [hdisplay : Nat, vdisplay : Nat, vrefresh : Nat, clock : Nat,
         htotal : Nat, vtotal : Nat, preferred : {0, 1}]

\* Ids are positions; 0 is none. answers names what drmModeGet* finds.
ConnectorInfo == [name : STRING, connected : BOOLEAN, modes : Seq(Mode),
                  encoder : Nat, encoders : Seq(Nat)]
Board ==
  [connectors : Seq(ConnectorInfo),
   encoders : Seq([crtc : Nat, possible : SUBSET Nat]),
   planes : Seq([primary : BOOLEAN, possible : SUBSET Nat]),
   crtcs : Nat,
   answers : SUBSET ({"connector", "encoder", "crtc", "plane"} \X Nat)]

\* The device answers for no encoder it does not have.
OwnEncoders(b) == \A a \in b.answers : a[1] = "encoder" => a[2] \in 1..Len(b.encoders)

ASSUME ModesetAssumption ==
  /\ MaxDecoders \in Nat /\ Boards \subseteq Board
  /\ \A b \in Boards : OwnEncoders(b)

VARIABLES
  board,
  want,      \* cfg.connector_name ("" for any) and cfg.plane_id
  modeset,   \* where atomic_modeset_maxhz is, or what it returned
  c, m,      \* its connector and mode counters
  best,      \* the best mode so far
  crtc,      \* the CRTC found, 0 for none
  held,      \* what the call holds of libdrm's and the device's objects
  ms,        \* ModesetResult
  decoder,   \* the decoder's background: absent, setting up, on, or left out
  decoders,  \* decoders initialised so far
  background,\* primary_plane, then vd->background_plane_id; 0 without a background
  bgHeld,    \* objects of vd->background_fb
  scanout    \* what each plane shows

outputVars == <<modeset, c, m, best, crtc, held, ms>>
backgroundVars == <<decoder, decoders, background, bgHeld>>
displayVars == <<board, want, outputVars, backgroundVars, scanout>>

-----------------------------------------------------------------------------
(* Choosing a mode.                                                        *)

vrefresh(mode) ==
  LET total == mode.htotal * mode.vtotal
  IN IF mode.vrefresh # 0 THEN mode.vrefresh
     ELSE IF total # 0 THEN (2 * mode.clock * 1000 + total) \div (2 * total)
     ELSE 0

Area(mode) == mode.hdisplay * mode.vdisplay

\* Mutant: the resolution is compared before the refresh rate.
Mutant_area_first(a, b) ==
  \/ Area(a) > Area(b)
  \/ Area(a) = Area(b) /\ vrefresh(a) > vrefresh(b)

\* Refresh rate, then area, then the preferred flag, then the pixel clock.
better_mode(a, b) ==
  \/ vrefresh(a) > vrefresh(b)
  \/ /\ vrefresh(a) = vrefresh(b)
     /\ \/ Area(a) > Area(b)
        \/ /\ Area(a) = Area(b)
           /\ \/ a.preferred > b.preferred
              \/ a.preferred = b.preferred /\ a.clock > b.clock

NoMode == [hdisplay |-> 0, vdisplay |-> 0, vrefresh |-> 0, clock |-> 0,
           htotal |-> 0, vtotal |-> 0, preferred |-> 0]

-----------------------------------------------------------------------------
(* Choosing a connector and a CRTC.                                        *)

Answers(kind, id) == <<kind, id>> \in board.answers
Connector(n) == board.connectors[n]

Candidate(n) ==
  /\ Answers("connector", n)
  /\ Connector(n).connected
  /\ Len(Connector(n).modes) > 0
  /\ want.connector \in {"", Connector(n).name}

\* The CRTCs each of the connector's encoders can drive, as far as the device
\* answers for encoder and CRTC.
Reachable(n, e) ==
  LET enc == Connector(n).encoders[e]
  IN {x \in 1..board.crtcs : /\ Answers("encoder", enc)
                             /\ x \in board.encoders[enc].possible
                             /\ Answers("crtc", x)}
First(S) == CHOOSE x \in S : \A y \in S : x <= y

\* The CRTC the connector's encoder is on already, if any.
CurrentCrtc(n) ==
  LET enc == Connector(n).encoder
  IN IF enc # 0 /\ Answers("encoder", enc) /\ Answers("crtc", board.encoders[enc].crtc)
     THEN board.encoders[enc].crtc ELSE 0

\* It is kept; otherwise the first CRTC of the first encoder that has one.
PickCrtc(n) ==
  LET able == {e \in 1..Len(Connector(n).encoders) : Reachable(n, e) # {}}
  IN IF CurrentCrtc(n) # 0 THEN CurrentCrtc(n)
     ELSE IF able # {} THEN First(Reachable(n, First(able)))
     ELSE 0

-----------------------------------------------------------------------------
(* Framebuffers.                                                           *)

DumbFB == {"dumb", "fb", "map"}

\* create_argb_fb: how it can end, what it has by then and what it gives back.
FbOutcomes == {"ok", "no_dumb", "no_fb", "no_offset", "no_map"}
FbAcquired(outcome) ==
  CASE outcome = "no_dumb"                -> {}
    [] outcome = "no_fb"                  -> {"dumb"}
    [] outcome \in {"no_offset", "no_map"} -> {"dumb", "fb"}
    [] outcome = "ok"                     -> DumbFB

\* Mutant: the mapping fails and only the framebuffer is removed.
Mutant_released_forgets_dumb(outcome) ==
  CASE outcome = "no_fb" -> {"dumb"}
    [] outcome \in {"no_offset", "no_map"} -> {"fb"}
    [] OTHER -> {}
FbReleased(outcome) ==
  CASE outcome = "no_fb"                  -> {"dumb"}
    [] outcome \in {"no_offset", "no_map"} -> {"fb", "dumb"}
    [] OTHER                              -> {}
create_argb_fb(outcome) == FbAcquired(outcome) \ FbReleased(outcome)

\* destroy_dumb_fb; with the framebuffer gone, its planes are off.
destroy_dumb_fb(objects) == objects \ DumbFB
PlanesWithout(show) == [p \in DOMAIN scanout |-> IF scanout[p] = show THEN "off" ELSE scanout[p]]

-----------------------------------------------------------------------------
DisplayTypeOK ==
  /\ OwnEncoders(board)
  /\ modeset \in {"idle", "start", "connectors", "modes", "crtc", "fb", "blob", "request",
                  "commit"} \cup {"ok", "-1", "-2", "-3", "-4", "-5", "-9"}
  /\ c \in Nat \ {0} /\ m \in Nat \ {0}
  /\ best \in Mode
  /\ crtc \in Nat
  /\ held \subseteq {"res", "connector", "crtc", "blob", "req"} \cup DumbFB
  /\ bgHeld \subseteq DumbFB
  /\ decoder \in {"absent", "pick", "create", "enable", "on", "without"}
  /\ decoders \in Nat /\ background \in Nat
  /\ \A p \in DOMAIN scanout : scanout[p] \in {"off", "background"}

NoResult == [connector |-> 0, crtc |-> 0, mode |-> NoMode]

\* Before main has opened the card.
NoBoard == [connectors |-> <<>>, encoders |-> <<>>, planes |-> <<>>, crtcs |-> 0,
            answers |-> {}]

DisplayInit ==
  /\ board = NoBoard
  /\ want = [connector |-> "", plane |-> 0]
  /\ modeset = "idle" /\ c = 1 /\ m = 1 /\ best = NoMode /\ crtc = 0
  /\ held = {} /\ ms = NoResult
  /\ decoder = "absent" /\ decoders = 0 /\ background = 0 /\ bgHeld = {}
  /\ scanout = [p \in 1..Len(board.planes) |-> "off"]

-----------------------------------------------------------------------------
(* atomic_modeset_maxhz.                                                   *)

Environment == UNCHANGED <<board, want>>
Scanning == UNCHANGED <<backgroundVars, scanout, ms>> /\ Environment

\* main has opened the card and calls atomic_modeset_maxhz.
call_modeset(b, connector, plane) ==
  /\ modeset = "idle"
  /\ modeset' = "start"
  /\ board' = b
  /\ want' = [connector |-> connector, plane |-> plane]
  /\ scanout' = [p \in 1..Len(b.planes) |-> "off"]
  /\ UNCHANGED <<c, m, best, crtc, held, ms, backgroundVars>>

\* drmModeGetResources.
get_resources ==
  /\ modeset = "start"
  /\ \/ modeset' = "connectors" /\ held' = {"res"}
     \/ modeset' = "-1" /\ UNCHANGED held
  /\ UNCHANGED <<c, m, best, crtc>> /\ Scanning

\* One connector. Unless it is a candidate it is passed over (and freed).
scan_connector ==
  /\ modeset = "connectors" /\ c <= Len(board.connectors)
  /\ IF Candidate(c)
     THEN /\ modeset' = "modes"
          /\ best' = Connector(c).modes[1] /\ m' = 2
          /\ held' = held \cup {"connector"}
          /\ UNCHANGED c
     ELSE c' = c + 1 /\ UNCHANGED <<modeset, best, m, held>>
  /\ UNCHANGED crtc /\ Scanning

scan_mode ==
  /\ modeset = "modes"
  /\ IF m <= Len(Connector(c).modes)
     THEN /\ best' = IF better_mode(Connector(c).modes[m], best)
                     THEN Connector(c).modes[m] ELSE best
          /\ m' = m + 1 /\ UNCHANGED modeset
     ELSE modeset' = "crtc" /\ UNCHANGED <<m, best>>
  /\ UNCHANGED <<c, crtc, held>> /\ Scanning

\* A connector without a usable CRTC is freed and the search goes on.
choose_crtc ==
  /\ modeset = "crtc"
  /\ crtc' = PickCrtc(c)
  /\ IF PickCrtc(c) # 0
     THEN modeset' = "fb" /\ held' = held \cup {"crtc"} /\ UNCHANGED c
     ELSE modeset' = "connectors" /\ held' = held \ {"connector"} /\ c' = c + 1
  /\ UNCHANGED <<m, best>> /\ Scanning

no_connector ==
  /\ modeset = "connectors" /\ c > Len(board.connectors)
  /\ modeset' = "-2"
  /\ held' = held \ {"res"}
  /\ UNCHANGED <<c, m, best, crtc>> /\ Scanning

Output == {"connector", "crtc", "res"}

\* The rest of the call: each stage either goes on with one more object or
\* returns its code after releasing what the code there releases.
Stage(at, next, gain, code, release) ==
  /\ modeset = at
  /\ \/ modeset' = next /\ held' = held \cup gain
     \/ modeset' = code /\ held' = held \ release
  /\ UNCHANGED <<c, m, best, crtc>> /\ Scanning

modeset_create_fb ==
  /\ modeset = "fb"
  /\ \E outcome \in FbOutcomes :
       IF outcome = "ok"
       THEN modeset' = "blob" /\ held' = held \cup create_argb_fb(outcome)
       ELSE modeset' = "-3" /\ held' = (held \cup create_argb_fb(outcome)) \ Output
  /\ UNCHANGED <<c, m, best, crtc>> /\ Scanning

create_blob == Stage("blob", "request", {"blob"}, "-4", DumbFB \cup Output)
atomic_alloc ==
  Stage("request", "commit", {"req"}, "-5", {"blob"} \cup DumbFB \cup Output)

\* The commit puts the black framebuffer on the plane; on success too, request,
\* blob and framebuffer are released, which turns the plane off again.
atomic_commit ==
  /\ modeset = "commit"
  /\ held' = destroy_dumb_fb(held \ {"req", "blob"}) \ Output
  /\ \/ modeset' = "-9" /\ UNCHANGED <<ms, scanout>>
     \/ /\ want.plane \in DOMAIN scanout
        /\ modeset' = "ok"
        /\ ms' = [connector |-> c, crtc |-> crtc, mode |-> best]
        /\ scanout' = [p \in DOMAIN scanout |-> IF p = want.plane THEN "off" ELSE scanout[p]]
  /\ UNCHANGED <<c, m, best, crtc, backgroundVars>> /\ Environment

-----------------------------------------------------------------------------
(* The background plane.                                                   *)

Background == UNCHANGED outputVars /\ Environment

video_decoder_init ==
  /\ modeset = "ok" /\ decoder = "absent" /\ decoders < MaxDecoders
  /\ decoder' = "pick" /\ decoders' = decoders + 1
  /\ background' = 0 /\ bgHeld' = {}
  /\ UNCHANGED scanout /\ Background

\* The first primary plane the CRTC can use. find_crtc_index and the plane list
\* may fail; the video's own plane is left alone.
PrimaryPlanes ==
  {p \in 1..Len(board.planes) : /\ Answers("plane", p)
                                /\ board.planes[p].primary
                                /\ ms.crtc \in board.planes[p].possible}

\* Mutant: the configured plane is not compared with the primary one.
Mutant_pick_video_plane ==
  /\ decoder = "pick"
  /\ \/ decoder' = "without" /\ UNCHANGED background
     \/ /\ PrimaryPlanes # {}
        /\ decoder' = "create" /\ background' = First(PrimaryPlanes)
  /\ UNCHANGED <<decoders, bgHeld, scanout>> /\ Background

pick_primary_plane ==
  /\ decoder = "pick"
  /\ \/ decoder' = "without" /\ UNCHANGED background
     \/ /\ PrimaryPlanes # {} /\ First(PrimaryPlanes) # want.plane
        /\ decoder' = "create" /\ background' = First(PrimaryPlanes)
  /\ UNCHANGED <<decoders, bgHeld, scanout>> /\ Background

background_create_fb ==
  /\ decoder = "create"
  /\ \E outcome \in FbOutcomes :
       /\ bgHeld' = create_argb_fb(outcome)
       /\ IF outcome = "ok" THEN decoder' = "enable" /\ UNCHANGED background
                            ELSE decoder' = "without" /\ background' = 0
  /\ UNCHANGED <<decoders, scanout>> /\ Background

\* The properties, the request and the commit (tried again with a mode set
\* when busy); a failure of any of them destroys the framebuffer.
background_enable ==
  /\ decoder = "enable"
  /\ \/ /\ decoder' = "on"
        /\ scanout' = [scanout EXCEPT ![background] = "background"]
        /\ UNCHANGED <<background, bgHeld>>
     \/ /\ decoder' = "without" /\ background' = 0
        /\ bgHeld' = destroy_dumb_fb(bgHeld)
        /\ UNCHANGED scanout
  /\ UNCHANGED decoders /\ Background

\* Mutant: the framebuffer is destroyed only when the plane could be disabled.
Mutant_teardown_keeps_fb ==
  /\ decoder \in {"on", "without"}
  /\ decoder' = "absent" /\ background' = 0
  /\ \/ bgHeld' = destroy_dumb_fb(bgHeld) /\ scanout' = PlanesWithout("background")
     \/ UNCHANGED <<bgHeld, scanout>>
  /\ UNCHANGED decoders /\ Background

\* From video_decoder_deinit. The commit that disables the plane may fail; the
\* framebuffer is destroyed all the same.
teardown_background ==
  /\ decoder \in {"on", "without"}
  /\ decoder' = "absent" /\ background' = 0
  /\ bgHeld' = destroy_dumb_fb(bgHeld)
  /\ scanout' = PlanesWithout("background")
  /\ UNCHANGED decoders /\ Background

DisplayStep ==
  \/ get_resources \/ scan_connector \/ scan_mode \/ choose_crtc \/ no_connector
  \/ modeset_create_fb \/ create_blob \/ atomic_alloc \/ atomic_commit
  \/ video_decoder_init \/ pick_primary_plane \/ background_create_fb
  \/ background_enable \/ teardown_background

-----------------------------------------------------------------------------
(* Properties.                                                             *)

Returned == {"ok", "-1", "-2", "-3", "-4", "-5", "-9"}

\* A connected connector of the requested name with modes, and a CRTC that is
\* on it already or that one of its encoders can drive.
Usable(n) ==
  /\ Candidate(n)
  /\ \/ CurrentCrtc(n) # 0
     \/ \E e \in 1..Len(Connector(n).encoders) : Reachable(n, e) # {}

\* README.md:75 "selects the highest refresh mode for the requested connector":
\* the connector found is the first usable one, its mode has the highest rate
\* and none of the others is better, and a usable connector is never missed
\* because an earlier one had no CRTC.
ChosenOutput ==
  /\ modeset = "ok" =>
       /\ ms.connector \in 1..Len(board.connectors) /\ Usable(ms.connector)
       /\ \A n \in 1..(ms.connector - 1) : ~Usable(n)
       /\ \E k \in 1..Len(Connector(ms.connector).modes) :
            ms.mode = Connector(ms.connector).modes[k]
       /\ \A k \in 1..Len(Connector(ms.connector).modes) :
            LET mode == Connector(ms.connector).modes[k]
            IN vrefresh(mode) <= vrefresh(ms.mode) /\ ~better_mode(mode, ms.mode)
  /\ modeset = "-2" => \A n \in 1..Len(board.connectors) : ~Usable(n)

\* Whatever fails at whatever stage, atomic_modeset_maxhz and
\* setup_black_background give back all they took, and over any number of
\* decoders a background framebuffer exists only while its plane is on.
DisplayObjects ==
  /\ modeset \in Returned => held = {}
  /\ bgHeld = IF decoder \in {"enable", "on"} THEN DumbFB ELSE {}

\* The background is on a primary plane of the chosen CRTC, never on the
\* video's own plane, and it is gone once the decoder is, also when the commit
\* that should disable the plane failed.
BackgroundBehind ==
  \A p \in DOMAIN scanout :
    scanout[p] = "background" =>
      decoder = "on" /\ p = background /\ p # want.plane /\ p \in PrimaryPlanes

\* What the call holds at each stage.
Holding ==
  /\ modeset \in {"idle", "start"} \cup Returned => held = {}
  /\ modeset = "connectors" => held = {"res"}
  /\ modeset \in {"modes", "crtc"} => held = {"res", "connector"}
  /\ modeset = "fb" => held = Output
  /\ modeset = "blob" => held = Output \cup DumbFB
  /\ modeset = "request" => held = Output \cup DumbFB \cup {"blob"}
  /\ modeset = "commit" => held = Output \cup DumbFB \cup {"blob", "req"}

\* best is one of the first k - 1 modes of connector n, and none of them beats
\* it.
BestOf(n, mode, k) ==
  /\ \E j \in 1..(k - 1) : j <= Len(Connector(n).modes) /\ mode = Connector(n).modes[j]
  /\ \A j \in 1..(k - 1) : j <= Len(Connector(n).modes) =>
       ~better_mode(Connector(n).modes[j], mode)

\* What the search knows: no connector it has left behind is usable, and the
\* one it is at, or has chosen, is the candidate whose modes it has compared.
Search ==
  /\ c \in Nat \ {0} /\ m \in Nat \ {0}
  /\ board \in Board
  /\ modeset \in {"idle", "start"} => c = 1
  /\ \A n \in 1..(c - 1) : ~Usable(n)
  /\ modeset \in {"modes", "crtc"} =>
       c <= Len(board.connectors) /\ Candidate(c) /\ BestOf(c, best, m)
  /\ modeset = "crtc" => m > Len(Connector(c).modes)
  /\ modeset \in {"fb", "blob", "request", "commit", "ok"} =>
       /\ c <= Len(board.connectors) /\ Usable(c) /\ crtc # 0
       /\ BestOf(c, best, m) /\ m > Len(Connector(c).modes)
  /\ modeset = "ok" => ms = [connector |-> c, crtc |-> crtc, mode |-> best]
  /\ modeset = "-2" => c > Len(board.connectors)

\* The background's plane from its choice to the end of the decoder.
BackgroundPlane ==
  /\ modeset # "ok" => decoder = "absent"
  /\ scanout \in [1..Len(board.planes) -> {"off", "background"}]
  /\ decoder \in {"create", "enable", "on"} =>
       background \in PrimaryPlanes /\ background # want.plane
  /\ \A p \in DOMAIN scanout : scanout[p] = "background" => decoder = "on" /\ p = background
  /\ bgHeld = IF decoder \in {"enable", "on"} THEN DumbFB ELSE {}

\* The inductive invariant behind the three properties.
DisplayInv == Holding /\ Search /\ BackgroundPlane
=============================================================================
