------------------------ MODULE VideoDecoder_proofs -------------------------
(***************************************************************************)
(* Proofs about VideoDecoder, for every number of slots, every capacity of *)
(* MPP's input queue and every bound: DecoderInv is inductive, hence the   *)
(* threads never outlive what they use, frame_map accounts for all kernel  *)
(* objects, and the display thread commits live framebuffers.              *)
(***************************************************************************)
EXTENDS VideoDecoder, TLAPS

\* The objects of a well-typed frame_map are framebuffers, dumb buffers and
\* fds with natural coordinates.
LEMMA SlotObjectsTyped ==
  ASSUME NEW map \in [Slots -> Slot]
  PROVE  SlotObjects(map) \subseteq ({"fb", "dumb", "fd"} \X Nat \X Nat)
  BY DecoderAssumption, SMTT(30) DEF SlotObjects, Slots, Slot, PrimeFd, Stdin

\* A frame_map without a zero prime_fd does not name standard input, so
\* releasing it leaves file descriptor 0 alone (release_frame_group).
LEMMA StdinNotInSlots ==
  ASSUME NEW map \in [Slots -> Slot],
         \A s \in Slots : map[s].prime_fd # 0
  PROVE  Stdin \notin SlotObjects(map)
  BY DEF SlotObjects, Slots, Slot, PrimeFd, Stdin

\* The map reset_frame_map leaves, and the zeroed one, are well typed.
LEMMA MapsTyped ==
  /\ reset_frame_map \in [Slots -> Slot]
  /\ MemsetMap \in [Slots -> Slot]
  BY DEF reset_frame_map, MemsetMap, EmptySlot, ZeroSlot, Slot

\* Every slot setup_external_buffers fills is well typed, holds its framebuffer
\* and fd in the given generation or not at all.
LEMMA FilledTyped ==
  ASSUME NEW o, NEW g \in Nat
  PROVE  /\ FilledSlot(o, g) \in Slot
         /\ FilledSlot(o, g).fb_id \in {0, g}
         /\ FilledSlot(o, g).prime_fd \in {-1, g}
  BY DEF FilledSlot, Slot

\* A picture taken from MPP leaves its queue well typed, with or without the
\* eos flag, and sends the frame thread round its loop or out of it.
LEMMA OutputTyped ==
  ASSUME TypeOK, mpp.in > 0, Output
  PROVE  /\ mpp' \in [in : 0..InCap, eos : BOOLEAN, waiting : BOOLEAN]
         /\ frame' \in {"loop", "exit"}
<1>1. PICK e \in {FALSE, mpp.eos /\ mpp.in = 1} :
        /\ mpp' = [mpp EXCEPT !.in = @ - 1, !.eos = @ /\ ~e]
        /\ frame' = IF e THEN "exit" ELSE "loop"
  BY DEF Output
<1>2. mpp.in - 1 \in 0..InCap
  BY DecoderAssumption DEF TypeOK
<1>3. (mpp.eos /\ ~e) \in BOOLEAN
  OBVIOUS
<1>. QED
  BY <1>1, <1>2, <1>3 DEF TypeOK

\* video_decoder_deinit leaves what it touches well typed.
LEMMA DeinitTyped ==
  ASSUME TypeOK, video_decoder_deinit(frame_map, held)
  PROVE  /\ held' \subseteq Resources
         /\ kernel' \subseteq ({"fb", "dumb", "fd"} \X Nat \X Nat)
         /\ frame_map' \in [Slots -> Slot]
         /\ groupOpen' \in BOOLEAN /\ running' \in BOOLEAN
<1>1. kernel' \subseteq kernel
  BY DEF video_decoder_deinit, release_frame_group
<1>2. frame_map' \in [Slots -> Slot]
  BY MapsTyped DEF video_decoder_deinit, TypeOK
<1>3. /\ held' \subseteq Resources
      /\ groupOpen' = FALSE /\ running' = FALSE
  BY DEF video_decoder_deinit, TypeOK
<1>. QED
  BY <1>1, <1>2, <1>3 DEF TypeOK

\* Every state of the decoder is well typed.
LEMMA TypeStep == TypeOK /\ [Next]_vars => TypeOK'
<1> SUFFICES ASSUME TypeOK, [Next]_vars PROVE TypeOK'
  OBVIOUS
<1> USE DecoderAssumption DEF TypeOK
<1>1. CASE video_decoder_init
  <2>1. held' \subseteq Resources
    BY <1>1 DEF video_decoder_init, setup_black_background, Resources
  <2>2. frame_map' \in [Slots -> Slot]
    BY <1>1, MapsTyped DEF video_decoder_init
  <2>3. pending' \in Picture /\ taken' \in Picture
    BY <1>1 DEF video_decoder_init, NoPicture, Picture
  <2>4. mpp' \in [in : 0..InCap, eos : BOOLEAN, waiting : BOOLEAN]
    BY <1>1 DEF video_decoder_init, IdleMpp
  <2>. QED
    BY <1>1, <2>1, <2>2, <2>3, <2>4 DEF video_decoder_init
<1>2. CASE video_decoder_init_fails
  <2>1. /\ held' \subseteq Resources
        /\ kernel' \subseteq kernel
        /\ frame_map' \in [Slots -> Slot]
        /\ groupOpen' = FALSE /\ running' = FALSE
    BY <1>2, MapsTyped DEF video_decoder_init_fails, video_decoder_deinit,
      release_frame_group, setup_black_background, Resources
  <2>2. /\ owner' = "deinited" /\ gen' = 0
        /\ UNCHANGED <<feeder, frame, display, stopRequested, mailbox, mppVars>>
    BY <1>2 DEF video_decoder_init_fails
  <2>. QED
    BY <2>1, <2>2, ZenonT(40) DEF mailbox, mppVars
<1>3. CASE video_decoder_start
  BY <1>3 DEF video_decoder_start, buffers, mailbox, mppVars
<1>4. CASE RequestStop
  BY <1>4 DEF RequestStop, threads, buffers, mailbox, mppVars
<1>5. CASE video_decoder_stop
  <2>1. display' \in {"none", "loop", "waiting", "commit", "last", "done"}
    BY <1>5 DEF video_decoder_stop, WakeDisplay
  <2>2. /\ owner' \in {"stopEos", "joinFrame"} /\ running' = FALSE
        /\ UNCHANGED <<feeder, frame, stopRequested, held, buffers, mailbox,
                       mppVars>>
    BY <1>5 DEF video_decoder_stop
  <2>. QED
    BY <2>1, <2>2, ZenonT(40) DEF buffers, mailbox, mppVars
<1>6. CASE stop_send_eos
  <2>1. mpp' \in [in : 0..InCap, eos : BOOLEAN, waiting : BOOLEAN]
    BY <1>6 DEF stop_send_eos, SendEos
  <2>2. /\ owner' = "stopReset"
        /\ UNCHANGED <<feeder, frame, display, stopRequested, running, held,
                       buffers, mailbox, decoded, infos>>
    BY <1>6 DEF stop_send_eos
  <2>. QED
    BY <2>1, <2>2 DEF buffers, mailbox
<1>7. CASE stop_reset
  BY <1>7 DEF stop_reset, IdleMpp, buffers, mailbox, mppVars
<1>8. CASE stop_join_frame
  BY <1>8 DEF stop_join_frame, buffers, mailbox, mppVars
<1>9. CASE stop_join_display
  BY <1>9 DEF stop_join_display, buffers, mailbox, mppVars
<1>10. CASE owner_deinit
  <2>1. video_decoder_deinit(frame_map, held)
    BY <1>10 DEF owner_deinit
  <2>2. /\ owner' \in {"deinited", "absent"}
        /\ feeder' = "none"
        /\ UNCHANGED <<frame, display, gen, stopRequested, mailbox,
                    mppVars>>
    BY <1>10 DEF owner_deinit
  <2>. QED
    BY <2>1, <2>2, DeinitTyped DEF mailbox, mppVars
<1>11. CASE video_decoder_free
  <2>1. video_decoder_deinit(frame_map, held)
    BY <1>11 DEF video_decoder_free
  <2>2. /\ owner' \in {"deinited", "absent"}
        /\ UNCHANGED <<feeder, frame, display, gen, stopRequested,
                    mailbox, mppVars>>
    BY <1>11 DEF video_decoder_free
  <2>. QED
    BY <2>1, <2>2, DeinitTyped DEF mailbox, mppVars
<1>12. CASE video_decoder_feed
  BY <1>12 DEF video_decoder_feed, buffers, mailbox, mppVars
<1>13. CASE feed_put
  BY <1>13 DEF feed_put, buffers, mailbox, mppVars
<1>14. CASE feeder_stops
  BY <1>14 DEF feeder_stops, buffers, mailbox, mppVars
<1>15. CASE feeder_eos
  <2>1. mpp' \in [in : 0..InCap, eos : BOOLEAN, waiting : BOOLEAN]
    BY <1>15 DEF feeder_eos, SendEos
  <2>. QED
    BY <1>15, <2>1 DEF feeder_eos, buffers, mailbox
<1>16. CASE frame_loop
  BY <1>16 DEF frame_loop, buffers, mailbox, mppVars
<1>17. CASE frame_timeout
  BY <1>17 DEF frame_timeout, buffers, mailbox, mppVars
<1>18. CASE frame_info_change
  <2>1. mpp' \in [in : 0..InCap, eos : BOOLEAN, waiting : BOOLEAN]
    BY <1>18 DEF frame_info_change
  <2>2. CASE UNCHANGED buffers
    BY <1>18, <2>1, <2>2 DEF frame_info_change, mailbox, buffers
  <2>3. CASE /\ kernel' = release_frame_group(groupOpen, frame_map, kernel)
             /\ frame_map' = IF groupOpen THEN reset_frame_map ELSE frame_map
             /\ groupOpen' = FALSE
             /\ gen' = gen + 1
    <3>1. kernel' \subseteq kernel /\ frame_map' \in [Slots -> Slot]
      BY <2>3, MapsTyped DEF release_frame_group
    <3>2. gen' \in Nat
      BY <2>3
    <3>3. groupOpen' \in BOOLEAN
      BY <2>3
    <3>4. /\ frame' \in {"loop", "alloc"} /\ infos' \in Nat
          /\ UNCHANGED <<owner, feeder, display, stopRequested, running, held,
                         mailbox, decoded>>
      BY <1>18 DEF frame_info_change
    <3>. QED
      BY <2>1, <3>1, <3>2, <3>3, <3>4 DEF mailbox
  <2>. QED
    BY <1>18, <2>2, <2>3 DEF frame_info_change
<1>19. CASE setup_external_buffers
  <2>1. mpp' \in [in : 0..InCap, eos : BOOLEAN, waiting : BOOLEAN]
    BY <1>19 DEF setup_external_buffers
  <2>2. frame_map' \in [Slots -> Slot]
    BY <1>19, FilledTyped DEF setup_external_buffers
  <2>3. kernel' \subseteq ({"fb", "dumb", "fd"} \X Nat \X Nat)
    BY <1>19, <2>2, SlotObjectsTyped DEF setup_external_buffers
  <2>4. /\ frame' \in {"loop", "commit"}
        /\ groupOpen' \in BOOLEAN
    BY <1>19 DEF setup_external_buffers
  <2>5. UNCHANGED <<owner, feeder, display, stopRequested, running, held, gen,
                    mailbox, decoded, infos>>
    BY <1>19 DEF setup_external_buffers
  <2>. QED
    BY <2>1, <2>2, <2>3, <2>4, <2>5 DEF mailbox
<1>20. ASSUME NEW s \in Slots, frame_picture(s) PROVE TypeOK'
  <2>1. /\ mpp' \in [in : 0..InCap, eos : BOOLEAN, waiting : BOOLEAN]
        /\ frame' \in {"loop", "exit"}
    BY <1>20, OutputTyped DEF frame_picture
  <2>2. decoded' \in Nat /\ s \in Nat /\ frame_map[s].fb_id \in Nat
    BY <1>20 DEF frame_picture, Slot, Slots
  <2>3. \/ pending' = [NoPicture EXCEPT !.pts = decoded']
        \/ pending' = [gen |-> frame_map[s].fb_id, slot |-> s, pts |-> decoded']
    BY <1>20 DEF frame_picture
  <2>4. pending' \in Picture
    BY <2>2, <2>3 DEF NoPicture, Picture
  <2>. QED
    BY <1>20, <2>1, <2>4 DEF frame_picture, WakeDisplay, buffers
<1>21. CASE frame_dropped
  <2>1. /\ mpp' \in [in : 0..InCap, eos : BOOLEAN, waiting : BOOLEAN]
        /\ frame' \in {"loop", "exit"}
    BY <1>21, OutputTyped DEF frame_dropped
  <2>. QED
    BY <1>21, <2>1 DEF frame_dropped, buffers, mailbox
<1>22. CASE frame_eos
  <2>1. mpp' \in [in : 0..InCap, eos : BOOLEAN, waiting : BOOLEAN]
    BY <1>22 DEF frame_eos
  <2>2. /\ frame' = "exit"
        /\ UNCHANGED <<owner, feeder, display, stopRequested, running, held,
                       buffers, mailbox, decoded, infos>>
    BY <1>22 DEF frame_eos
  <2>. QED
    BY <2>1, <2>2 DEF buffers, mailbox
<1>23. CASE frame_exit
  <2>1. display' \in {"none", "loop", "waiting", "commit", "last", "done"}
    BY <1>23 DEF frame_exit, WakeDisplay
  <2>2. /\ frame' = "done" /\ running' = FALSE
        /\ UNCHANGED <<owner, feeder, stopRequested, held, buffers, mailbox,
                       mppVars>>
    BY <1>23 DEF frame_exit
  <2>. QED
    BY <2>1, <2>2 DEF buffers, mailbox, mppVars
<1>24. CASE display_take
  <2>1. pending' \in Picture /\ taken' \in Picture
    <3>1. \/ pending' = pending /\ taken' = taken
          \/ pending' = [NoPicture EXCEPT !.pts = pending.pts] /\ taken' = pending
      BY <1>24 DEF display_take
    <3>. QED
      BY <3>1 DEF Picture, NoPicture
  <2>2. display' \in {"none", "loop", "waiting", "commit", "last", "done"}
    BY <1>24 DEF display_take
  <2>. QED
    BY <1>24, <2>1, <2>2 DEF display_take, buffers, mppVars
<1>25. CASE display_spurious_wakeup
  BY <1>25 DEF display_spurious_wakeup, buffers, mailbox, mppVars
<1>26. CASE display_commit
  BY <1>26 DEF display_commit, buffers, mailbox, mppVars, Picture
<1>27. CASE UNCHANGED vars
  BY <1>27 DEF vars, threads, buffers, mailbox, mppVars
<1>28. CASE setup_commit
  BY <1>28 DEF setup_commit, buffers, mailbox, mppVars
<1>. QED
  BY <1>1, <1>2, <1>3, <1>4, <1>5, <1>6, <1>7, <1>8, <1>9, <1>10, <1>11, <1>12, <1>13, <1>14, <1>15, <1>16, <1>17, <1>18, <1>19, <1>20, <1>21, <1>22, <1>23, <1>24, <1>25, <1>26, <1>27, <1>28 DEF Next, Owner, Feeder, Frame, FrameOutput, Display

-----------------------------------------------------------------------------
\* The owner's joins keep the threads within what it holds.
LEMMA ThreadStep == TypeOK /\ ThreadInv /\ [Next]_vars => ThreadInv'
<1> SUFFICES ASSUME TypeOK, ThreadInv, [Next]_vars PROVE ThreadInv'
  OBVIOUS
<1> USE DEF ThreadInv, Quiet, Stopping
<1>1. CASE video_decoder_init
  BY <1>1 DEF video_decoder_init
<1>2. CASE video_decoder_init_fails
  BY <1>2 DEF video_decoder_init_fails, video_decoder_deinit
<1>3. CASE video_decoder_start
  BY <1>3 DEF video_decoder_start
<1>4. CASE RequestStop
  BY <1>4 DEF RequestStop, threads
<1>5. CASE video_decoder_stop
  BY <1>5 DEF video_decoder_stop, WakeDisplay, TypeOK
<1>6. CASE stop_send_eos
  BY <1>6 DEF stop_send_eos
<1>7. CASE stop_reset
  BY <1>7 DEF stop_reset
<1>8. CASE stop_join_frame
  BY <1>8 DEF stop_join_frame
<1>9. CASE stop_join_display
  BY <1>9 DEF stop_join_display
<1>10. CASE owner_deinit
  BY <1>10 DEF owner_deinit, video_decoder_deinit
<1>11. CASE video_decoder_free
  BY <1>11 DEF video_decoder_free, video_decoder_deinit
<1>12. CASE video_decoder_feed
  BY <1>12 DEF video_decoder_feed
<1>13. CASE feed_put
  BY <1>13 DEF feed_put
<1>14. CASE feeder_stops
  BY <1>14 DEF feeder_stops
<1>15. CASE feeder_eos
  BY <1>15 DEF feeder_eos
<1>16. CASE frame_loop
  BY <1>16 DEF frame_loop
<1>17. CASE frame_timeout
  BY <1>17 DEF frame_timeout
<1>18. CASE frame_info_change
  BY <1>18 DEF frame_info_change
<1>19. CASE setup_external_buffers
  BY <1>19 DEF setup_external_buffers
<1>20. ASSUME NEW s \in Slots, frame_picture(s) PROVE ThreadInv'
  BY <1>20 DEF frame_picture, WakeDisplay, Output
<1>21. CASE frame_dropped
  BY <1>21 DEF frame_dropped, Output
<1>22. CASE frame_eos
  BY <1>22 DEF frame_eos
<1>23. CASE frame_exit
  BY <1>23 DEF frame_exit, WakeDisplay
<1>24. CASE display_take
  BY <1>24 DEF display_take
<1>25. CASE display_spurious_wakeup
  BY <1>25 DEF display_spurious_wakeup
<1>26. CASE display_commit
  BY <1>26 DEF display_commit
<1>27. CASE UNCHANGED vars
  BY <1>27 DEF vars, threads
<1>28. CASE setup_commit
  BY <1>28 DEF setup_commit
<1>. QED
  BY <1>1, <1>2, <1>3, <1>4, <1>5, <1>6, <1>7, <1>8, <1>9, <1>10, <1>11, <1>12, <1>13, <1>14, <1>15, <1>16, <1>17, <1>18, <1>19, <1>20, <1>21, <1>22, <1>23, <1>24, <1>25, <1>26, <1>27, <1>28 DEF Next, Owner, Feeder, Frame, FrameOutput, Display

-----------------------------------------------------------------------------
\* A step that leaves the buffer group alone, does not end the decoder's life
\* and does not begin to rebuild the group.
BuffersKept ==
  /\ UNCHANGED buffers
  /\ owner' \in Quiet => owner \in Quiet
  /\ frame' = "alloc" => frame = "alloc"

\* All but six actions are such steps.
LEMMA OthersKeepBuffers ==
  ASSUME [Next]_vars,
         ~video_decoder_init, ~video_decoder_init_fails, ~owner_deinit,
         ~video_decoder_free, ~frame_info_change, ~setup_external_buffers
  PROVE  BuffersKept
<1> USE DEF BuffersKept, Quiet
<1>1. CASE video_decoder_start
  BY <1>1 DEF video_decoder_start
<1>2. CASE RequestStop
  BY <1>2 DEF RequestStop, threads
<1>3. CASE video_decoder_stop
  BY <1>3 DEF video_decoder_stop
<1>4. CASE stop_send_eos
  BY <1>4 DEF stop_send_eos
<1>5. CASE stop_reset
  BY <1>5 DEF stop_reset
<1>6. CASE stop_join_frame
  BY <1>6 DEF stop_join_frame
<1>7. CASE stop_join_display
  BY <1>7 DEF stop_join_display
<1>8. CASE video_decoder_feed
  BY <1>8 DEF video_decoder_feed
<1>9. CASE feed_put
  BY <1>9 DEF feed_put
<1>10. CASE feeder_stops
  BY <1>10 DEF feeder_stops
<1>11. CASE feeder_eos
  BY <1>11 DEF feeder_eos
<1>12. CASE frame_loop
  BY <1>12 DEF frame_loop
<1>13. CASE frame_timeout
  BY <1>13 DEF frame_timeout
<1>14. ASSUME NEW s \in Slots, frame_picture(s) PROVE BuffersKept
  BY <1>14 DEF frame_picture, Output
<1>15. CASE frame_dropped
  BY <1>15 DEF frame_dropped, Output
<1>16. CASE frame_eos
  BY <1>16 DEF frame_eos
<1>17. CASE frame_exit
  BY <1>17 DEF frame_exit
<1>18. CASE display_take
  BY <1>18 DEF display_take
<1>19. CASE display_spurious_wakeup
  BY <1>19 DEF display_spurious_wakeup
<1>20. CASE display_commit
  BY <1>20 DEF display_commit
<1>21. CASE UNCHANGED vars
  BY <1>21 DEF vars, threads
<1>22. CASE setup_commit
  BY <1>22 DEF setup_commit
<1>. QED
  BY <1>1, <1>2, <1>3, <1>4, <1>5, <1>6, <1>7, <1>8, <1>9, <1>10, <1>11, <1>12, <1>13, <1>14, <1>15, <1>16, <1>17, <1>18, <1>19, <1>20, <1>21, <1>22 DEF Next, Owner, Feeder, Frame, FrameOutput, Display

\* What release_frame_group leaves of a consistent state is standard input.
LEMMA Released ==
  ASSUME TypeOK, GroupInv, SlotsOwnKernelObjects
  PROVE  release_frame_group(groupOpen, frame_map, kernel) = {Stdin}
<1>1. CASE groupOpen
  <2>1. \A s \in Slots : frame_map[s].prime_fd # 0
    BY <1>1 DEF TypeOK, GroupInv
  <2>2. Stdin \notin SlotObjects(frame_map)
    BY <2>1, StdinNotInSlots DEF TypeOK
  <2>. QED
    BY <1>1, <2>2 DEF release_frame_group, SlotsOwnKernelObjects
<1>2. CASE ~groupOpen
  BY <1>2 DEF release_frame_group, SlotsOwnKernelObjects
<1>. QED
  BY <1>1, <1>2

\* Every step keeps the generation bookkeeping of the buffer group.
LEMMA GroupStep ==
  ASSUME TypeOK, ThreadInv, GroupInv, [Next]_vars, ThreadInv'
  PROVE  GroupInv'
<1>1. CASE video_decoder_init
  BY <1>1 DEF video_decoder_init, GroupInv, ThreadInv, Quiet
<1>2. CASE video_decoder_init_fails
  BY <1>2 DEF video_decoder_init_fails, video_decoder_deinit, GroupInv, ThreadInv, Quiet
<1>3. CASE owner_deinit
  BY <1>3 DEF owner_deinit, video_decoder_deinit, GroupInv, ThreadInv
<1>4. CASE video_decoder_free
  BY <1>4 DEF video_decoder_free, video_decoder_deinit, GroupInv, ThreadInv, Quiet
<1>5. CASE frame_info_change
  BY <1>5 DEF frame_info_change, GroupInv, TypeOK, buffers
<1>6. CASE setup_external_buffers
  <2>1. gen \in Nat /\ gen > 0 /\ gen' = gen /\ frame' # "alloc" /\ ~groupOpen
    BY <1>6 DEF setup_external_buffers, GroupInv, TypeOK
  <2>2. owner' \notin Quiet
    BY <1>6, <2>1 DEF setup_external_buffers, ThreadInv, Quiet
  <2>3. groupOpen' => \A s \in Slots : /\ frame_map'[s].fb_id \in {0, gen}
                                       /\ frame_map'[s].prime_fd \in {-1, gen}
    <3>1. CASE UNCHANGED <<groupOpen, frame_map, kernel, mpp>>
      BY <2>1, <3>1
    <3>2. CASE \E outcome \in [Slots -> Outcomes] :
                 frame_map' = [s \in Slots |-> FilledSlot(outcome[s], gen)]
      BY <2>1, <3>2, FilledTyped
    <3>. QED
      BY <1>6, <3>1, <3>2 DEF setup_external_buffers
  <2>. QED
    BY <2>1, <2>2, <2>3 DEF GroupInv
<1>7. CASE BuffersKept
  BY <1>7 DEF BuffersKept, buffers, GroupInv
<1>. QED
  BY <1>1, <1>2, <1>3, <1>4, <1>5, <1>6, <1>7, OthersKeepBuffers

\* frame_map keeps accounting for every kernel object.
LEMMA KernelStep ==
  ASSUME TypeOK, ThreadInv, GroupInv, SlotsOwnKernelObjects, [Next]_vars
  PROVE  SlotsOwnKernelObjects'
<1>1. CASE video_decoder_init
  BY <1>1 DEF video_decoder_init, GroupInv, Quiet, SlotsOwnKernelObjects
<1>2. CASE video_decoder_init_fails
  <2>1. ~groupOpen /\ ~groupOpen' /\ kernel' = kernel
    BY <1>2 DEF video_decoder_init_fails, video_decoder_deinit,
      release_frame_group, GroupInv, Quiet
  <2>. QED
    BY <2>1 DEF SlotsOwnKernelObjects
<1>3. CASE owner_deinit
  BY <1>3, Released DEF owner_deinit, video_decoder_deinit, SlotsOwnKernelObjects
<1>4. CASE video_decoder_free
  BY <1>4, Released DEF video_decoder_free, video_decoder_deinit, SlotsOwnKernelObjects
<1>5. CASE frame_info_change
  <2>1. CASE UNCHANGED buffers
    BY <2>1 DEF buffers, SlotsOwnKernelObjects
  <2>2. CASE kernel' = release_frame_group(groupOpen, frame_map, kernel) /\ ~groupOpen'
    BY <2>2, Released DEF SlotsOwnKernelObjects
  <2>. QED
    BY <1>5, <2>1, <2>2 DEF frame_info_change
<1>6. CASE setup_external_buffers
  <2>1. ~groupOpen
    BY <1>6 DEF setup_external_buffers, GroupInv
  <2>2. CASE UNCHANGED <<groupOpen, frame_map, kernel, mpp>>
    BY <2>2 DEF SlotsOwnKernelObjects
  <2>3. CASE groupOpen' /\ kernel' = kernel \cup SlotObjects(frame_map')
    BY <2>1, <2>3 DEF SlotsOwnKernelObjects
  <2>. QED
    BY <1>6, <2>2, <2>3 DEF setup_external_buffers
<1>7. CASE BuffersKept
  BY <1>7 DEF BuffersKept, buffers, SlotsOwnKernelObjects
<1>. QED
  BY <1>1, <1>2, <1>3, <1>4, <1>5, <1>6, <1>7, OthersKeepBuffers

-----------------------------------------------------------------------------
\* A step that publishes, takes and commits nothing, in a decoder whose buffers
\* stay as they are.
PicturesKept ==
  /\ BuffersKept
  /\ UNCHANGED <<pending, taken>>
  /\ owner' = "ready" => owner = "ready"
  /\ owner' \notin Quiet => owner \notin Quiet
  /\ display' \in {"commit", "last"} => display' = display

\* All but these nine actions are such steps.
LEMMA OthersKeepPictures ==
  ASSUME [Next]_vars,
         ~video_decoder_init, ~video_decoder_init_fails, ~owner_deinit,
         ~video_decoder_free, ~frame_info_change, ~setup_external_buffers,
         ~video_decoder_start, ~display_take,
         \A s \in Slots : ~frame_picture(s)
  PROVE  PicturesKept
<1> USE DEF PicturesKept, Quiet, mailbox
<1>0. BuffersKept
  BY OthersKeepBuffers
<1>1. CASE RequestStop
  BY <1>0, <1>1 DEF RequestStop, threads
<1>2. CASE video_decoder_stop
  BY <1>0, <1>2 DEF video_decoder_stop, WakeDisplay
<1>3. CASE stop_send_eos
  BY <1>0, <1>3 DEF stop_send_eos
<1>4. CASE stop_reset
  BY <1>0, <1>4 DEF stop_reset
<1>5. CASE stop_join_frame
  BY <1>0, <1>5 DEF stop_join_frame
<1>6. CASE stop_join_display
  BY <1>0, <1>6 DEF stop_join_display
<1>7. CASE video_decoder_feed
  BY <1>0, <1>7 DEF video_decoder_feed
<1>8. CASE feed_put
  BY <1>0, <1>8 DEF feed_put
<1>9. CASE feeder_stops
  BY <1>0, <1>9 DEF feeder_stops
<1>10. CASE feeder_eos
  BY <1>0, <1>10 DEF feeder_eos
<1>11. CASE frame_loop
  BY <1>0, <1>11 DEF frame_loop
<1>12. CASE frame_timeout
  BY <1>0, <1>12 DEF frame_timeout
<1>13. CASE frame_dropped
  BY <1>0, <1>13 DEF frame_dropped
<1>14. CASE frame_eos
  BY <1>0, <1>14 DEF frame_eos
<1>15. CASE frame_exit
  BY <1>0, <1>15 DEF frame_exit, WakeDisplay
<1>16. CASE display_spurious_wakeup
  BY <1>0, <1>16 DEF display_spurious_wakeup
<1>17. CASE display_commit
  BY <1>0, <1>17 DEF display_commit
<1>18. CASE UNCHANGED vars
  BY <1>0, <1>18 DEF vars, threads
<1>19. CASE setup_commit
  BY <1>0, <1>19 DEF setup_commit
<1>. QED
  BY <1>1, <1>2, <1>3, <1>4, <1>5, <1>6, <1>7, <1>8, <1>9, <1>10, <1>11, <1>12, <1>13, <1>14, <1>15, <1>16, <1>17, <1>18, <1>19
    DEF Next, Owner, Feeder, Frame, FrameOutput, Display

\* Published and taken pictures keep their framebuffers.
LEMMA PictureStep ==
  ASSUME TypeOK, ThreadInv, GroupInv, PictureInv,
         SlotsOwnKernelObjects, CommitsLiveFramebuffer, [Next]_vars
  PROVE  PictureInv' /\ CommitsLiveFramebuffer'
<1> USE DEF PictureInv, CommitsLiveFramebuffer
<1>1. CASE video_decoder_init
  BY <1>1 DEF video_decoder_init, NoPicture, ThreadInv, Quiet
<1>2. CASE video_decoder_init_fails
  BY <1>2 DEF video_decoder_init_fails, ThreadInv, Quiet
<1>3. CASE owner_deinit
  BY <1>3 DEF owner_deinit, ThreadInv, Quiet
<1>4. CASE video_decoder_free
  BY <1>4 DEF video_decoder_free, ThreadInv, Quiet
<1>5. CASE video_decoder_start
  BY <1>5 DEF video_decoder_start, buffers, mailbox, Quiet, TypeOK, ThreadInv
<1>6. CASE frame_info_change
  <2>1. owner \notin Quiet /\ UNCHANGED <<owner, display, pending, taken>>
    BY <1>6 DEF frame_info_change, mailbox, ThreadInv, Quiet
  <2>2. gen \in Nat /\ pending.gen \in Nat /\ taken.gen \in Nat
    BY DEF TypeOK, Picture
  <2>3. CASE UNCHANGED buffers
    BY <2>1, <2>3 DEF buffers, Quiet
  <2>4. CASE gen' = gen + 1
    BY <2>1, <2>2, <2>4 DEF Quiet
  <2>. QED
    BY <1>6, <2>3, <2>4 DEF frame_info_change
<1>7. CASE setup_external_buffers
  <2>1. kernel \subseteq kernel' /\ UNCHANGED <<owner, display, pending, taken, gen>>
    BY <1>7 DEF setup_external_buffers, mailbox
  <2>. QED
    BY <2>1 DEF Quiet
<1>8. ASSUME NEW s \in Slots, frame_picture(s)
      PROVE  PictureInv' /\ CommitsLiveFramebuffer'
  <2>1. /\ UNCHANGED <<owner, taken, gen, kernel>>
        /\ display' \in {"commit", "last"} => display' = display
        /\ owner \notin Quiet
        /\ groupOpen
    BY <1>8 DEF frame_picture, WakeDisplay, buffers, ThreadInv, Quiet
  <2>2. gen \in Nat /\ frame_map[s].fb_id \in {0, gen}
    BY <2>1 DEF TypeOK, GroupInv
  <2>3. CASE frame_map[s].fb_id = 0
    <3>1. pending'.gen = 0
      BY <1>8, <2>3 DEF frame_picture, NoPicture
    <3>. QED
      BY <2>1, <2>2, <3>1 DEF Quiet
  <2>4. CASE frame_map[s].fb_id # 0
    <3>1. pending'.gen = frame_map[s].fb_id /\ pending'.slot = s
      BY <1>8, <2>4 DEF frame_picture
    <3>2. <<"fb", frame_map[s].fb_id, s>> \in kernel
      BY <2>1, <2>4 DEF SlotsOwnKernelObjects, SlotObjects
    <3>. QED
      BY <2>1, <2>2, <3>1, <3>2 DEF Quiet
  <2>. QED
    BY <2>3, <2>4
<1>9. CASE display_take
  <2>1. UNCHANGED <<owner, gen, kernel>> /\ owner \notin Quiet
    BY <1>9 DEF display_take, buffers, ThreadInv, Quiet
  <2>2. gen \in Nat
    BY DEF TypeOK
  <2>3. CASE running /\ pending.gen = 0
    BY <1>9, <2>1, <2>3 DEF display_take, Quiet
  <2>4. CASE ~(running /\ pending.gen = 0)
    <3>1. /\ taken' = pending
          /\ pending'.gen = 0
          /\ display' \in {"commit", "last"} => pending.gen # 0
      BY <1>9, <2>4 DEF display_take, NoPicture
    <3>. QED
      BY <2>1, <2>2, <3>1 DEF Quiet
  <2>. QED
    BY <2>3, <2>4
<1>10. CASE PicturesKept
  BY <1>10 DEF PicturesKept, BuffersKept, buffers
<1>. QED
  BY <1>1, <1>2, <1>3, <1>4, <1>5, <1>6, <1>7, <1>8, <1>9, <1>10, OthersKeepPictures

-----------------------------------------------------------------------------
\* The display thread has a picture in hand, about to commit it.
InHand == display \in {"commit", "last"}

\* A step that numbers, publishes, takes and shows nothing.
MailboxKept ==
  /\ UNCHANGED <<decoded, pending, taken, shown>>
  /\ InHand' = InHand

\* All but these four actions are such steps: a new decoder, a picture from
\* MPP, and the display thread's taking and showing.
LEMMA OthersKeepMailbox ==
  ASSUME ThreadInv, [Next]_vars,
         ~video_decoder_init, ~display_take, ~display_commit,
         \A s \in Slots : ~frame_picture(s)
  PROVE  MailboxKept
<1> USE DEF MailboxKept, InHand, mailbox, mppVars
<1>1. CASE video_decoder_init_fails
  BY <1>1 DEF video_decoder_init_fails
<1>2. CASE video_decoder_start
  BY <1>2 DEF video_decoder_start, ThreadInv, Quiet
<1>3. CASE RequestStop
  BY <1>3 DEF RequestStop, threads
<1>4. CASE video_decoder_stop
  BY <1>4 DEF video_decoder_stop, WakeDisplay
<1>5. CASE stop_send_eos \/ stop_reset \/ stop_join_frame
  BY <1>5 DEF stop_send_eos, stop_reset, stop_join_frame
<1>6. CASE stop_join_display
  BY <1>6 DEF stop_join_display
<1>7. CASE owner_deinit \/ video_decoder_free
  BY <1>7 DEF owner_deinit, video_decoder_free
<1>8. CASE Feeder
  BY <1>8 DEF Feeder, video_decoder_feed, feed_put, feeder_stops, feeder_eos
<1>9. CASE frame_loop \/ frame_timeout \/ setup_external_buffers \/ setup_commit
  BY <1>9 DEF frame_loop, frame_timeout, setup_external_buffers, setup_commit
<1>10. CASE frame_info_change \/ frame_dropped \/ frame_eos
  BY <1>10 DEF frame_info_change, frame_dropped, frame_eos
<1>11. CASE frame_exit
  BY <1>11 DEF frame_exit, WakeDisplay
<1>12. CASE display_spurious_wakeup
  BY <1>12 DEF display_spurious_wakeup
<1>13. CASE UNCHANGED vars
  BY <1>13 DEF vars, threads
<1>. QED
  BY <1>1, <1>2, <1>3, <1>4, <1>5, <1>6, <1>7, <1>8, <1>9, <1>10, <1>11, <1>12, <1>13
    DEF Next, Owner, Frame, FrameOutput, Display

\* What frame_picture publishes: the next number, with or without framebuffer.
LEMMA PictureEffect ==
  ASSUME NEW s \in Slots, frame_picture(s), TypeOK
  PROVE  /\ decoded' = decoded + 1
         /\ pending'.pts = decoded + 1
         /\ UNCHANGED <<taken, shown>>
         /\ InHand' = InHand
  BY DEF frame_picture, NoPicture, WakeDisplay, InHand

\* What the display thread takes: the pending picture, when there is one.
LEMMA TakeEffect ==
  ASSUME display_take, TypeOK
  PROVE  /\ ~InHand /\ UNCHANGED <<decoded, shown>>
         /\ \/ ~InHand' /\ UNCHANGED <<pending, taken>>
            \/ ~InHand' /\ taken' = pending /\ pending.gen = 0
               /\ pending'.gen = 0 /\ pending'.pts = pending.pts
            \/ InHand' /\ taken' = pending /\ pending.gen # 0
               /\ pending'.gen = 0 /\ pending'.pts = pending.pts
  BY DEF display_take, NoPicture, InHand, mppVars

\* The order of the pictures is kept by every step.
LEMMA MailboxStep ==
  ASSUME TypeOK, ThreadInv, MailboxInv, [Next]_vars
  PROVE  MailboxInv'
<1>0. /\ decoded \in Nat /\ shown \in Nat
      /\ pending.pts \in Nat /\ taken.pts \in Nat
  BY DEF TypeOK, Picture
<1>1. CASE video_decoder_init
  BY <1>1 DEF video_decoder_init, NoPicture, ThreadInv, Quiet, MailboxInv
<1>2. ASSUME NEW s \in Slots, frame_picture(s) PROVE MailboxInv'
  BY <1>0, <1>2, PictureEffect DEF MailboxInv, InHand
<1>3. CASE display_take
  BY <1>0, <1>3, TakeEffect DEF MailboxInv, InHand
<1>4. CASE display_commit
  <2>1. /\ InHand /\ ~InHand' /\ shown' = taken.pts
        /\ UNCHANGED <<pending, decoded>>
    BY <1>4 DEF display_commit, InHand, mppVars
  <2>. QED
    BY <1>0, <2>1 DEF MailboxInv, InHand
<1>5. CASE MailboxKept
  BY <1>5 DEF MailboxKept, MailboxInv, InHand
<1>. QED
  BY <1>1, <1>2, <1>3, <1>4, <1>5, OthersKeepMailbox

-----------------------------------------------------------------------------
\* DecoderInv holds at first and every step of every thread preserves it.
THEOREM DecoderInvariant == Spec => []DecoderInv
<1>1. Init => DecoderInv
  <2> SUFFICES ASSUME Init PROVE DecoderInv
    OBVIOUS
  <2> USE DecoderAssumption DEF Init
  <2>1. TypeOK
    <3>1. pending \in Picture /\ taken \in Picture
      BY DEF NoPicture, Picture
    <3>2. mpp \in [in : 0..InCap, eos : BOOLEAN, waiting : BOOLEAN]
      BY DEF IdleMpp
    <3>3. kernel \subseteq ({"fb", "dumb", "fd"} \X Nat \X Nat)
      BY DEF Stdin
    <3>. QED
      BY <3>1, <3>2, <3>3, MapsTyped DEF TypeOK
  <2>2. ThreadInv /\ GroupInv
    BY DEF ThreadInv, GroupInv, Quiet, Stopping
  <2>3. PictureInv /\ SlotsOwnKernelObjects /\ CommitsLiveFramebuffer
    BY DEF PictureInv, Quiet, SlotsOwnKernelObjects, CommitsLiveFramebuffer
  <2>4. MailboxInv
    BY DEF MailboxInv, NoPicture
  <2>. QED
    BY <2>1, <2>2, <2>3, <2>4 DEF DecoderInv
<1>2. DecoderInv /\ [Next]_vars => DecoderInv'
  <2> SUFFICES ASSUME DecoderInv, [Next]_vars PROVE DecoderInv'
    OBVIOUS
  <2> USE DEF DecoderInv
  <2>1. TypeOK' /\ ThreadInv'
    BY TypeStep, ThreadStep
  <2>2. GroupInv' /\ SlotsOwnKernelObjects'
    BY <2>1, GroupStep, KernelStep
  <2>3. PictureInv' /\ CommitsLiveFramebuffer'
    BY PictureStep
  <2>4. MailboxInv'
    BY MailboxStep
  <2>. QED
    BY <2>1, <2>2, <2>3, <2>4
<1>. QED
  BY <1>1, <1>2, PTL DEF Spec

\* Type correctness of the decoder, the values of running, pending_fb,
\* frame_map and MPP's queue included.
THEOREM TypeCorrect == Spec => []TypeOK
<1>1. DecoderInv => TypeOK
  BY DEF DecoderInv
<1>. QED
  BY <1>1, DecoderInvariant, PTL

\* video_decoder_deinit never pulls a resource from under a running thread.
THEOREM ThreadsKeepResources == Spec => []ThreadsOwnResources
<1>1. DecoderInv => ThreadsOwnResources
  <2> SUFFICES ASSUME TypeOK, ThreadInv PROVE ThreadsOwnResources
    BY DEF DecoderInv
  <2>. QED
    BY DEF ThreadsOwnResources, TypeOK, ThreadInv, Quiet, Stopping, Resources
<1>. QED
  BY <1>1, DecoderInvariant, PTL

\* frame_map accounts for every framebuffer, dumb buffer and prime fd, so no
\* info change, failure or restart leaks one, and fd 0 is never closed.
THEOREM KernelObjectsAccounted == Spec => []SlotsOwnKernelObjects
<1>1. DecoderInv => SlotsOwnKernelObjects
  BY DEF DecoderInv
<1>. QED
  BY <1>1, DecoderInvariant, PTL

\* A framebuffer of the current buffer group is alive whenever the display
\* thread commits it.
THEOREM CommitsAreLive == Spec => []CommitsLiveFramebuffer
<1>1. DecoderInv => CommitsLiveFramebuffer
  BY DEF DecoderInv
<1>. QED
  BY <1>1, DecoderInvariant, PTL

-----------------------------------------------------------------------------
(* The decoder implements the mailbox of LatestFrame.                      *)

\* A step of the decoder is a step of the mailbox, or leaves it alone.
LEMMA RefinementStep ==
  ASSUME TypeOK, ThreadInv, MailboxInv, [Next]_vars
  PROVE  [Mailbox!Next]_(Mailbox!vars)
<1> USE DEF Mailbox!Next, Mailbox!vars
<1>0. /\ decoded \in Nat /\ shown \in Nat
      /\ pending.pts \in Nat /\ taken.pts \in Nat
  BY DEF TypeOK, Picture
<1>1. CASE video_decoder_init
  <2>1. ~InHand /\ ~InHand' /\ pending'.gen = 0 /\ decoded' = 0 /\ shown' = 0
    BY <1>1 DEF video_decoder_init, NoPicture, ThreadInv, Quiet, InHand
  <2>2. Mailbox!Restart
    BY <2>1 DEF Mailbox!Restart, InHand
  <2>. QED
    BY <2>2
<1>2. ASSUME NEW s \in Slots, frame_picture(s)
      PROVE  [Mailbox!Next]_(Mailbox!vars)
  <2>1. Mailbox!Offer
    BY <1>0, <1>2, PictureEffect DEF Mailbox!Offer, InHand
  <2>. QED
    BY <2>1
<1>3. CASE display_take
  <2>1. CASE InHand'
    <3>1. Mailbox!Take
      BY <1>0, <1>3, <2>1, TakeEffect DEF Mailbox!Take, InHand, MailboxInv
    <3>. QED
      BY <3>1
  <2>2. CASE ~InHand'
    BY <1>3, <2>2, TakeEffect DEF InHand
  <2>. QED
    BY <2>1, <2>2
<1>4. CASE display_commit
  <2>1. /\ InHand /\ ~InHand' /\ shown' = taken.pts
        /\ UNCHANGED <<pending, decoded>>
    BY <1>4 DEF display_commit, InHand, mppVars
  <2>2. Mailbox!Show
    BY <1>0, <2>1 DEF Mailbox!Show, InHand, MailboxInv
  <2>. QED
    BY <2>2
<1>5. CASE MailboxKept
  BY <1>5 DEF MailboxKept, InHand
<1>. QED
  BY <1>1, <1>2, <1>3, <1>4, <1>5, OthersKeepMailbox

\* The hand-over from frame_thread_func through pending_fb to
\* display_thread_func implements the one-picture mailbox: the newest picture
\* wins, none is shown twice and none after a newer one.
THEOREM DecoderImplementsMailbox == Spec => ImplementsLatestFrame
<1>1. Init => Mailbox!Init
  BY DEF Init, Mailbox!Init, NoPicture
<1>2. DecoderInv /\ [Next]_vars => [Mailbox!Next]_(Mailbox!vars)
  BY RefinementStep DEF DecoderInv
<1>. QED
  BY <1>1, <1>2, DecoderInvariant, PTL DEF Spec, ImplementsLatestFrame, Mailbox!Spec
=============================================================================
