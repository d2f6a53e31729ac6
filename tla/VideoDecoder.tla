---------------------------- MODULE VideoDecoder ----------------------------
(***************************************************************************)
(* The video decoder of src/src/video_decoder.c with the four threads that *)
(* meet in it:                                                             *)
(*   owner    the pipeline thread that calls init, start, stop, deinit and *)
(*            free (pipeline_start and cleanup_pipeline);                  *)
(*   feeder   the appsink thread, inside video_decoder_feed or _send_eos;  *)
(*   frame    frame_thread_func, which polls MPP for decoded pictures;     *)
(*   display  display_thread_func, which commits pictures to the DRM plane.*)
(* The Rockchip MPP library and the DRM device are external: they are      *)
(* modelled by the calls the code makes and the results it distinguishes.  *)
(* Pictures carry a decode number as their pts; the pixel data, the plane  *)
(* geometry and the MPP tuning controls are abstracted away.               *)
(***************************************************************************)
EXTENDS Integers

CONSTANTS
  NumSlots,        \* DECODER_MAX_FRAMES, the size of frame_map
  InCap,           \* packets MPP queues before decode_put_packet reports full
  MaxFrames,       \* bound: pictures MPP produces in one life of the decoder
  MaxInfoChanges,  \* bound: info-change frames in one life of the decoder
  MaySetupFail     \* may setup_external_buffers meet errors?

ASSUME DecoderAssumption ==
  /\ NumSlots \in Nat \ {0}
  /\ InCap \in Nat \ {0}
  /\ MaxFrames \in Nat
  /\ MaxInfoChanges \in Nat
  /\ MaySetupFail \in BOOLEAN

VARIABLES
  owner, feeder, frame, display,  \* where each thread is
  stopRequested,  \* ps->stop_requested, which ends the feeder's loop
  running,        \* vd->running
  held,           \* what init acquired: fds, MPP objects, lock, background
  groupOpen,      \* vd->frm_grp # NULL
  frame_map,      \* vd->frame_map, each field the generation that filled it
  gen,            \* how often frame_map has been rebuilt (history)
  kernel,         \* open DRM framebuffers, dumb buffers and prime fds
  pending,        \* vd->pending_fb and vd->pending_pts
  taken,          \* the display thread's local fb, with its pts
  shown,          \* pts of the last picture the display thread committed
  mpp,            \* MPP's input queue and its info-change handshake
  decoded,        \* pictures produced so far (history, bounds the run)
  infos           \* info changes so far (history, bounds the run)

threads == <<owner, feeder, frame, display>>
buffers == <<groupOpen, frame_map, gen, kernel>>
mailbox == <<pending, taken, shown>>
mppVars == <<mpp, decoded, infos>>
vars == <<threads, stopRequested, running, held, buffers, mailbox, mppVars>>

-----------------------------------------------------------------------------
Slots == 1..NumSlots
Resources == {"packet_buf", "drm_fd", "background", "mpp_ctx", "packet", "lock"}

\* A picture waiting to be shown: generation and slot name the framebuffer;
\* gen 0 stands for fb_id 0, "none".
Picture == [gen : Nat, slot : Nat, pts : Nat]
NoPicture == [gen |-> 0, slot |-> 0, pts |-> 0]

\* Field values of one frame_map entry. 0 is what memset leaves, -1 the
\* "no fd" of reset_frame_map, n > 0 an object of generation n. File
\* descriptor 0 is the process's standard input.
Slot == [fb_id : Nat, handle : Nat, prime_fd : Nat \cup {-1}]
ZeroSlot == [fb_id |-> 0, handle |-> 0, prime_fd |-> 0]
EmptySlot == [fb_id |-> 0, handle |-> 0, prime_fd |-> -1]
MemsetMap == [s \in Slots |-> ZeroSlot]
reset_frame_map == [s \in Slots |-> EmptySlot]

\* Objects the DRM device and the fd table hold for this process.
Stdin == <<"fd", 0, 0>>
PrimeFd(g, s) == IF g = 0 THEN Stdin ELSE <<"fd", g, s>>
SlotObjects(map) ==
  {<<"fb", map[s].fb_id, s>> : s \in {t \in Slots : map[t].fb_id # 0}}
  \cup {<<"dumb", map[s].handle, s>> : s \in {t \in Slots : map[t].handle # 0}}
  \cup {PrimeFd(map[s].prime_fd, s) : s \in {t \in Slots : map[t].prime_fd >= 0}}

\* Mutant: the group is not tested before frame_map is released.
Mutant_release_without_group(open, map, k) == k \ SlotObjects(map)

\* release_frame_group: nothing without a group, otherwise every framebuffer,
\* fd and dumb buffer of frame_map goes.
release_frame_group(open, map, k) == IF open THEN k \ SlotObjects(map) ELSE k

\* What can become of one slot in setup_external_buffers.
Outcomes == IF MaySetupFail
            THEN {"ok", "no_dumb", "no_prime", "no_commit", "no_fb"}
            ELSE {"ok"}
FilledSlot(outcome, g) ==
  [fb_id    |-> IF outcome = "ok" THEN g ELSE 0,
   handle   |-> IF outcome = "no_dumb" THEN 0 ELSE g,
   prime_fd |-> IF outcome \in {"ok", "no_fb"} THEN g ELSE -1]

IdleMpp == [in |-> 0, eos |-> FALSE, waiting |-> FALSE]

TypeOK ==
  /\ owner \in {"absent", "ready", "started", "stopEos", "stopReset",
                "joinFrame", "joinDisplay", "stopped", "deinited"}
  /\ feeder \in {"none", "idle", "put", "eos", "done"}
  /\ frame \in {"none", "loop", "get", "alloc", "commit", "exit", "done"}
  /\ display \in {"none", "loop", "waiting", "commit", "last", "done"}
  /\ stopRequested \in BOOLEAN
  /\ running \in BOOLEAN
  /\ held \subseteq Resources
  /\ groupOpen \in BOOLEAN
  /\ frame_map \in [Slots -> Slot]
  /\ gen \in Nat
  /\ kernel \subseteq ({"fb", "dumb", "fd"} \X Nat \X Nat)
  /\ pending \in Picture /\ taken \in Picture
  /\ shown \in Nat
  /\ mpp \in [in : 0..InCap, eos : BOOLEAN, waiting : BOOLEAN]
  /\ decoded \in Nat /\ infos \in Nat

Init ==
  /\ owner = "absent" /\ feeder = "none" /\ frame = "none" /\ display = "none"
  /\ stopRequested = FALSE
  /\ running = FALSE
  /\ held = {}
  /\ groupOpen = FALSE
  /\ frame_map = MemsetMap
  /\ gen = 0
  /\ kernel = {Stdin}
  /\ pending = NoPicture /\ taken = NoPicture
  /\ shown = 0
  /\ mpp = IdleMpp
  /\ decoded = 0 /\ infos = 0

-----------------------------------------------------------------------------
(* Condition variable: a signal or broadcast moves a waiting display       *)
(* thread back to the head of its wait loop.                               *)

\* Mutant: running or pending_fb changes, the condition is not signalled.
Mutant_no_signal == display

WakeDisplay == IF display = "waiting" THEN "loop" ELSE display

-----------------------------------------------------------------------------
(* The owner.                                                              *)

\* The black plane behind the video either gets all it needs (a buffer, a
\* mapping, a framebuffer, a commit) or undoes what it got and is left out.
setup_black_background == {{}, {"background"}}

\* video_decoder_new and a successful video_decoder_init: memset, then every
\* resource in turn; the background plane is optional.
video_decoder_init ==
  /\ owner = "absent"
  /\ owner' = "ready"
  /\ \E background \in setup_black_background :
       held' = (Resources \ {"background"}) \cup background
  /\ running' = FALSE /\ stopRequested' = FALSE
  /\ groupOpen' = FALSE /\ frame_map' = reset_frame_map /\ gen' = 0
  /\ pending' = NoPicture /\ taken' = NoPicture /\ shown' = 0
  /\ mpp' = IdleMpp /\ decoded' = 0 /\ infos' = 0
  /\ UNCHANGED <<feeder, frame, display, kernel>>

\* video_decoder_deinit's releases; its call of video_decoder_stop finds no
\* thread to join where the owner makes it.
video_decoder_deinit(map, have) ==
  /\ held' = have \ Resources
  /\ kernel' = release_frame_group(groupOpen, map, kernel)
  /\ frame_map' = IF groupOpen THEN reset_frame_map ELSE map
  /\ groupOpen' = FALSE
  /\ running' = FALSE

\* video_decoder_init failing after it has acquired some of its resources:
\* dup, the plane properties, mpp_create, mpp_packet_init or mpp_init.
\* frame_map is still as memset left it.
video_decoder_init_fails ==
  /\ owner = "absent"
  /\ owner' = "deinited"
  /\ \E have \in {{"packet_buf"},
                  {"packet_buf", "drm_fd"},
                  {"packet_buf", "drm_fd", "mpp_ctx"},
                  {"packet_buf", "drm_fd", "mpp_ctx", "packet"}},
        background \in setup_black_background :
       /\ background # {} => "drm_fd" \in have
       /\ video_decoder_deinit(MemsetMap, have \cup background)
  /\ gen' = 0
  /\ UNCHANGED <<feeder, frame, display, stopRequested, mailbox, mppVars>>

\* video_decoder_start, and the appsink thread pipeline_start creates next.
video_decoder_start ==
  /\ owner = "ready"
  /\ owner' = "started"
  /\ running' = TRUE
  /\ frame' = "loop" /\ display' = "loop" /\ feeder' = "idle"
  /\ UNCHANGED <<stopRequested, held, buffers, mailbox, mppVars>>

\* Another thread asks the pipeline to stop (pipeline_stop or the bus thread).
RequestStop ==
  /\ owner = "started"
  /\ ~stopRequested
  /\ stopRequested' = TRUE
  /\ UNCHANGED <<threads, running, held, buffers, mailbox, mppVars>>

\* video_decoder_stop up to its unlock. cleanup_pipeline has joined the
\* appsink thread before it calls it.
video_decoder_stop ==
  /\ owner = "started"
  /\ feeder = "done"
  /\ owner' = IF running THEN "stopEos" ELSE "joinFrame"
  /\ running' = FALSE
  /\ display' = WakeDisplay
  /\ UNCHANGED <<feeder, frame, stopRequested, held, buffers, mailbox, mppVars>>

\* video_decoder_send_eos, by the feeder or by the owner: retried until MPP
\* has room, given up when the last attempt still finds it full.
SendEos ==
  \/ mpp.in < InCap /\ mpp' = [mpp EXCEPT !.eos = TRUE]
  \/ mpp.in = InCap /\ UNCHANGED mpp

stop_send_eos ==
  /\ owner = "stopEos"
  /\ SendEos
  /\ owner' = "stopReset"
  /\ UNCHANGED <<feeder, frame, display, stopRequested, running, held, buffers,
                 mailbox, decoded, infos>>

stop_reset ==
  /\ owner = "stopReset"
  /\ mpp' = IdleMpp
  /\ owner' = "joinFrame"
  /\ UNCHANGED <<feeder, frame, display, stopRequested, running, held, buffers,
                 mailbox, decoded, infos>>

\* Mutant: the frame thread is not waited for.
Mutant_frame_not_joined ==
  /\ owner = "joinFrame"
  /\ owner' = "joinDisplay"
  /\ UNCHANGED <<feeder, frame, display, stopRequested, running, held, buffers,
                 mailbox, mppVars>>

stop_join_frame ==
  /\ owner = "joinFrame"
  /\ frame = "done"
  /\ owner' = "joinDisplay"
  /\ frame' = "none"
  /\ UNCHANGED <<feeder, display, stopRequested, running, held, buffers,
                 mailbox, mppVars>>

\* Mutant: the display thread is not waited for.
Mutant_display_not_joined ==
  /\ owner = "joinDisplay"
  /\ owner' = "stopped"
  /\ UNCHANGED <<feeder, frame, display, stopRequested, running, held, buffers,
                 mailbox, mppVars>>

stop_join_display ==
  /\ owner = "joinDisplay"
  /\ display = "done"
  /\ owner' = "stopped"
  /\ display' = "none"
  /\ UNCHANGED <<feeder, frame, stopRequested, running, held, buffers,
                 mailbox, mppVars>>

\* cleanup_pipeline's video_decoder_deinit after video_decoder_stop.
owner_deinit ==
  /\ owner = "stopped"
  /\ owner' = "deinited"
  /\ video_decoder_deinit(frame_map, held)
  /\ feeder' = "none"
  /\ UNCHANGED <<frame, display, gen, stopRequested, mailbox, mppVars>>

\* video_decoder_free deinitialises a second time before it frees vd.
video_decoder_free ==
  /\ owner = "deinited"
  /\ owner' = "absent"
  /\ video_decoder_deinit(frame_map, held)
  /\ UNCHANGED <<feeder, frame, display, gen, stopRequested, mailbox, mppVars>>

Owner ==
  \/ video_decoder_stop \/ stop_send_eos \/ stop_reset
  \/ stop_join_frame \/ stop_join_display
  \/ owner_deinit \/ video_decoder_free

-----------------------------------------------------------------------------
(* The feeder.                                                             *)

\* A sample arrives: video_decoder_feed up to its retry loop. It returns -1
\* at once when the decoder is not running.
video_decoder_feed ==
  /\ feeder = "idle"
  /\ ~stopRequested
  /\ running
  /\ feeder' = "put"
  /\ UNCHANGED <<owner, frame, display, stopRequested, running, held, buffers,
                 mailbox, mppVars>>

\* Mutant: a packet is counted as accepted although MPP was full.
Mutant_put_when_full ==
  /\ feeder = "put"
  /\ mpp' = [mpp EXCEPT !.in = @ + 1]
  /\ feeder' = "idle"
  /\ UNCHANGED <<owner, frame, display, stopRequested, running, held, buffers,
                 mailbox, decoded, infos>>

\* The retry loop of video_decoder_feed: leave once MPP took the packet or
\* the decoder stopped running; otherwise sleep and try again.
feed_put ==
  /\ feeder = "put"
  /\ \/ running /\ mpp.in < InCap /\ mpp' = [mpp EXCEPT !.in = @ + 1]
     \/ ~running /\ UNCHANGED mpp
  /\ feeder' = "idle"
  /\ UNCHANGED <<owner, frame, display, stopRequested, running, held, buffers,
                 mailbox, decoded, infos>>

\* The appsink loop sees the stop request and ends through send_eos.
feeder_stops ==
  /\ feeder = "idle"
  /\ stopRequested
  /\ feeder' = "eos"
  /\ UNCHANGED <<owner, frame, display, stopRequested, running, held, buffers,
                 mailbox, mppVars>>

feeder_eos ==
  /\ feeder = "eos"
  /\ SendEos
  /\ feeder' = "done"
  /\ UNCHANGED <<owner, frame, display, stopRequested, running, held, buffers,
                 mailbox, decoded, infos>>

-----------------------------------------------------------------------------
(* The frame thread.                                                       *)

\* Mutant: the frame thread does not look at running again.
Mutant_frame_loops_on ==
  /\ frame = "loop"
  /\ frame' = "get"
  /\ UNCHANGED <<owner, feeder, display, stopRequested, running, held, buffers,
                 mailbox, mppVars>>

frame_loop ==
  /\ frame = "loop"
  /\ frame' = IF running THEN "get" ELSE "exit"
  /\ UNCHANGED <<owner, feeder, display, stopRequested, running, held, buffers,
                 mailbox, mppVars>>

\* decode_get_frame timed out.
frame_timeout ==
  /\ frame = "get"
  /\ frame' = "loop"
  /\ UNCHANGED <<owner, feeder, display, stopRequested, running, held, buffers,
                 mailbox, mppVars>>

\* An info-change frame: MPP halts until INFO_CHANGE_READY. The rejected
\* format returns before the old group is released.
frame_info_change ==
  /\ frame = "get"
  /\ mpp.in > 0 /\ ~mpp.waiting
  /\ infos < MaxInfoChanges
  /\ infos' = infos + 1
  /\ mpp' = [mpp EXCEPT !.waiting = TRUE]
  /\ \/ /\ MaySetupFail
        /\ frame' = "loop"
        /\ UNCHANGED buffers
     \/ /\ frame' = "alloc"
        /\ kernel' = release_frame_group(groupOpen, frame_map, kernel)
        /\ frame_map' = IF groupOpen THEN reset_frame_map ELSE frame_map
        /\ groupOpen' = FALSE
        /\ gen' = gen + 1
  /\ UNCHANGED <<owner, feeder, display, stopRequested, running, held, mailbox,
                 decoded>>

\* The rest of setup_external_buffers: a new group, a buffer per slot, each
\* of which may fail at any stage, and the acknowledgement to MPP.
setup_external_buffers ==
  /\ frame = "alloc"
  /\ \/ /\ MaySetupFail
        /\ frame' = "loop"
        /\ UNCHANGED <<groupOpen, frame_map, kernel, mpp>>
     \/ /\ frame' = "commit"
        /\ groupOpen' = TRUE
        /\ \E outcome \in [Slots -> Outcomes] :
             frame_map' = [s \in Slots |-> FilledSlot(outcome[s], gen)]
        /\ kernel' = kernel \cup SlotObjects(frame_map')
        /\ mpp' = [mpp EXCEPT !.waiting = FALSE]
  /\ UNCHANGED <<owner, feeder, display, stopRequested, running, held, gen,
                 mailbox, decoded, infos>>

\* Its last call: commit_plane on the first new buffer, outside vd->lock and
\* so alongside the display thread's commits. No picture is in that buffer.
setup_commit ==
  /\ frame = "commit"
  /\ frame' = "loop"
  /\ UNCHANGED <<owner, feeder, display, stopRequested, running, held, buffers,
                 mailbox, mppVars>>

\* MPP hands out one picture. The last one before an end of stream may carry
\* the eos flag itself; the loop ends on a frame that does.
Output ==
  \E eos \in {FALSE, mpp.eos /\ mpp.in = 1} :
    /\ mpp' = [mpp EXCEPT !.in = @ - 1, !.eos = @ /\ ~eos]
    /\ frame' = IF eos THEN "exit" ELSE "loop"

\* A picture in slot s: its framebuffer replaces whatever is pending and the
\* display thread is signalled. A slot without framebuffer clears pending_fb.
frame_picture(s) ==
  /\ frame = "get"
  /\ mpp.in > 0 /\ ~mpp.waiting
  /\ groupOpen /\ frame_map[s].prime_fd > 0
  /\ decoded < MaxFrames
  /\ decoded' = decoded + 1
  /\ Output
  /\ pending' = IF frame_map[s].fb_id = 0
                THEN [NoPicture EXCEPT !.pts = decoded']
                ELSE [gen |-> frame_map[s].fb_id, slot |-> s, pts |-> decoded']
  /\ display' = WakeDisplay
  /\ UNCHANGED <<owner, feeder, stopRequested, running, held, buffers, taken,
                 shown, infos>>

\* A picture with errinfo or discard set, or without a known buffer.
frame_dropped ==
  /\ frame = "get"
  /\ mpp.in > 0 /\ ~mpp.waiting
  /\ Output
  /\ UNCHANGED <<owner, feeder, display, stopRequested, running, held, buffers,
                 mailbox, decoded, infos>>

\* An end-of-stream frame without a picture.
frame_eos ==
  /\ frame = "get"
  /\ mpp.eos /\ mpp.in = 0 /\ ~mpp.waiting
  /\ mpp' = [mpp EXCEPT !.eos = FALSE]
  /\ frame' = "exit"
  /\ UNCHANGED <<owner, feeder, display, stopRequested, running, held, buffers,
                 mailbox, decoded, infos>>

frame_exit ==
  /\ frame = "exit"
  /\ running' = FALSE
  /\ display' = WakeDisplay
  /\ frame' = "done"
  /\ UNCHANGED <<owner, feeder, stopRequested, held, buffers, mailbox, mppVars>>

FrameOutput ==
  \/ frame_info_change
  \/ \E s \in Slots : frame_picture(s)
  \/ frame_dropped
  \/ frame_eos

-----------------------------------------------------------------------------
(* The display thread.                                                     *)

\* Mutant: pending_fb is not cleared when it is taken.
Mutant_take_keeps_pending ==
  /\ display = "loop"
  /\ pending.gen # 0 /\ running
  /\ taken' = pending /\ display' = "commit"
  /\ UNCHANGED <<owner, feeder, frame, stopRequested, running, held, buffers,
                 pending, shown, mppVars>>

\* The wait loop, under vd->lock: sleep while running with nothing pending,
\* else take the pending framebuffer and note whether to go on.
display_take ==
  /\ display = "loop"
  /\ IF running /\ pending.gen = 0
     THEN display' = "waiting" /\ UNCHANGED <<pending, taken>>
     ELSE /\ taken' = pending
          /\ pending' = [NoPicture EXCEPT !.pts = pending.pts]
          /\ display' = CASE pending.gen # 0 /\ running  -> "commit"
                          [] pending.gen # 0 /\ ~running -> "last"
                          [] OTHER                       -> "done"
  /\ UNCHANGED <<owner, feeder, frame, stopRequested, running, held, buffers,
                 shown, mppVars>>

\* g_cond_wait may return without a signal.
display_spurious_wakeup ==
  /\ display = "waiting"
  /\ display' = "loop"
  /\ UNCHANGED <<owner, feeder, frame, stopRequested, running, held, buffers,
                 mailbox, mppVars>>

\* commit_plane outside the lock; the thread ends when it took the picture
\* after running had been cleared.
display_commit ==
  /\ display \in {"commit", "last"}
  /\ shown' = taken.pts
  /\ display' = IF display = "commit" THEN "loop" ELSE "done"
  /\ UNCHANGED <<owner, feeder, frame, stopRequested, running, held, buffers,
                 pending, taken, mppVars>>

-----------------------------------------------------------------------------
Feeder == video_decoder_feed \/ feed_put \/ feeder_stops \/ feeder_eos
Frame == frame_loop \/ frame_timeout \/ FrameOutput \/ setup_external_buffers
         \/ setup_commit \/ frame_exit
Display == display_take \/ display_spurious_wakeup \/ display_commit

Next ==
  \/ video_decoder_init \/ video_decoder_init_fails \/ video_decoder_start
  \/ RequestStop
  \/ Owner \/ Feeder \/ Frame \/ Display

Spec == Init /\ [][Next]_vars

\* Threads that can run do run. decode_get_frame returns within its timeout,
\* and MPP, while it has input and is not halted, delivers output at some of
\* the polls. New samples, stop requests and restarts are never forced.
Fairness ==
  /\ WF_vars(Owner)
  /\ WF_vars(feed_put) /\ WF_vars(feeder_stops) /\ WF_vars(feeder_eos)
  /\ WF_vars(frame_loop) /\ WF_vars(frame_timeout)
  /\ WF_vars(setup_external_buffers) /\ WF_vars(setup_commit)
  /\ WF_vars(frame_exit)
  /\ SF_vars(FrameOutput)
  /\ WF_vars(display_take) /\ WF_vars(display_commit)

FairSpec == Spec /\ Fairness

-----------------------------------------------------------------------------
(* Properties.                                                             *)

\* While a thread runs, everything it dereferences exists: video_decoder_deinit
\* destroys the MPP context, the packet, the mutex and the dup'ed DRM fd only
\* after the frame, display and appsink threads have ended.
ThreadsOwnResources ==
  /\ frame \notin {"none", "done"} => {"mpp_ctx", "lock", "drm_fd"} \subseteq held
  /\ display \notin {"none", "done"} => {"lock", "drm_fd"} \subseteq held
  /\ feeder \notin {"none", "done"} => {"packet_buf", "packet", "mpp_ctx"} \subseteq held

\* frame_map accounts for every kernel object at all times, whatever slot
\* failed at whatever stage of setup_external_buffers: none leaks over an info
\* change or a restart, none is released twice, and the zeroed prime_fd of a
\* half-initialised decoder never closes file descriptor 0.
SlotsOwnKernelObjects ==
  kernel = {Stdin} \cup (IF groupOpen THEN SlotObjects(frame_map) ELSE {})

\* The framebuffer the display thread is about to commit still exists, unless
\* an info change has replaced its buffer group since it was published; in
\* particular the last commit of a shutdown precedes release_frame_group.
CommitsLiveFramebuffer ==
  display \in {"commit", "last"} /\ taken.gen = gen
    => <<"fb", taken.gen, taken.slot>> \in kernel

\* The hand-over through pending_fb implements the one-picture mailbox:
\* newest picture wins, none shown twice, none out of order.
Mailbox == INSTANCE LatestFrame WITH
  last    <- decoded,
  offered <- IF pending.gen # 0 THEN pending.pts ELSE 0,
  hand    <- IF display \in {"commit", "last"} THEN taken.pts ELSE 0,
  shown   <- shown
ImplementsLatestFrame == Mailbox!Spec

\* Once a stop is requested the appsink thread leaves video_decoder_feed, both
\* decoder threads are joined and the decoder is freed.
StopCompletes == stopRequested ~> owner = "absent"

\* A picture that is pending while the decoder runs, or a newer one, reaches
\* the plane, a stop in between included: no wake-up is lost between
\* g_cond_signal and g_cond_wait. (One that frame_thread_func publishes after
\* the display thread has seen running cleared is never shown.)
PictureShown ==
  \A p \in 1..MaxFrames :
    (running /\ pending.gen # 0 /\ pending.pts = p) ~> (shown >= p)

-----------------------------------------------------------------------------
(* The inductive invariant behind the safety invariants and the refinement. *)

Quiet == {"absent", "ready", "deinited"}  \* no thread exists in these
Stopping == {"stopEos", "stopReset", "joinFrame", "joinDisplay", "stopped"}

\* Where the owner is bounds where the threads can be and what is held.
ThreadInv ==
  /\ owner \in Quiet => feeder = "none" /\ frame = "none" /\ display = "none"
  /\ owner \in Stopping => feeder = "done"
  /\ owner \in {"joinDisplay", "stopped"} => frame = "none"
  /\ owner = "stopped" => display = "none"
  /\ owner \notin {"absent", "deinited"} => Resources \ {"background"} \subseteq held

\* A group is open only in a live decoder that is not rebuilding it, and all
\* objects in frame_map are of the current generation.
GroupInv ==
  /\ owner \in Quiet \/ frame = "alloc" => ~groupOpen
  /\ frame = "alloc" => gen > 0
  /\ groupOpen => /\ gen > 0
                  /\ \A s \in Slots : /\ frame_map[s].fb_id \in {0, gen}
                                      /\ frame_map[s].prime_fd \in {-1, gen}

\* A published picture of the current generation has a framebuffer.
PictureInv ==
  /\ owner = "ready" => pending.gen = 0
  /\ owner \notin Quiet =>
       /\ pending.gen <= gen
       /\ display \in {"commit", "last"} => taken.gen <= gen
       /\ pending.gen # 0 /\ pending.gen = gen
            => <<"fb", pending.gen, pending.slot>> \in kernel

\* Pictures move through the mailbox in the order MPP delivered them: shown,
\* then the one in the display thread's hand, then the pending one.
MailboxInv ==
  /\ shown <= decoded /\ pending.pts <= decoded
  /\ pending.gen # 0 => shown < pending.pts
  /\ display \in {"commit", "last"} =>
       /\ shown < taken.pts /\ taken.pts <= decoded
       /\ pending.gen # 0 => taken.pts < pending.pts

\* Together with the invariants it is there for, preserved by every step of
\* the owner, feeder, frame and display threads.
DecoderInv ==
  /\ TypeOK /\ ThreadInv /\ GroupInv /\ PictureInv /\ MailboxInv
  /\ SlotsOwnKernelObjects /\ CommitsLiveFramebuffer
=============================================================================
