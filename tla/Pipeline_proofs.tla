-------------------------- MODULE Pipeline_proofs ---------------------------
(***************************************************************************)
(* Proofs about Pipeline, for every set of signals and of failing stages,  *)
(* every pool size and every bound: PipelineInv is inductive, hence every  *)
(* thread is outlived by what it uses, every recorder is freed exactly     *)
(* once and not while it is written, an orderly exit leaves nothing        *)
(* behind, recording follows the configuration and requests are honoured.  *)
(***************************************************************************)
EXTENDS Pipeline, TLAPS

\* The ids of a set of recorders to which one is added (enable_new).
LEMMA IdsOfNew ==
  ASSUME NEW S, NEW i, NEW t
  PROVE  {q.id : q \in S \cup {[id |-> i, second |-> t]}}
           = {q.id : q \in S} \cup {i}
<1>1. ASSUME NEW r
      PROVE  {q.id : q \in S \cup {r}} = {q.id : q \in S} \cup {r.id}
  OBVIOUS
<1>2. [id |-> i, second |-> t].id = i
  OBVIOUS
<1>. QED
  BY <1>1, <1>2

\* video_recorder_new succeeded: one more recorder is open, under a new id.
LEMMA NewEffect ==
  ASSUME enable_new, created' # created
  PROVE  /\ created' = created + 1 /\ fresh' = created + 1
         /\ {r.id : r \in open'} = {r.id : r \in open} \cup {created + 1}
         /\ UNCHANGED <<ps, using>>
<1>1. /\ created' = created + 1 /\ fresh' = created + 1
      /\ open' = open \cup {[id |-> created + 1, second |-> now]}
      /\ UNCHANGED <<ps, using>>
  BY DEF enable_new
<1>. QED
  BY <1>1, IdsOfNew

\* Setting one of main.c's four flags keeps them well typed.
LEMMA FlagsTyped ==
  ASSUME NEW f \in Flags, NEW b \in BOOLEAN
  PROVE  /\ [f EXCEPT !.exit = b] \in Flags
         /\ [f EXCEPT !.restart = b] \in Flags
         /\ [f EXCEPT !.start = b] \in Flags
         /\ [f EXCEPT !.stop = b] \in Flags
         /\ f.exit \in BOOLEAN
  BY DEF Flags

\* A receiver is well typed before and after udp_receiver_create.
LEMMA NoReceiverTyped ==
  /\ NoReceiver \in UdpReceiver
  /\ [NoReceiver EXCEPT !.alloc = TRUE] \in UdpReceiver
<1>1. NoReceiver \in UdpReceiver
  BY PipelineAssumption DEF NoReceiver, UdpReceiver
<1>2. ASSUME NEW u \in UdpReceiver
      PROVE  [u EXCEPT !.alloc = TRUE] \in UdpReceiver
  BY DEF UdpReceiver
<1>. QED
  BY <1>1, <1>2

\* What pipeline_stop does to a pipeline that is not stopped: it leaves the
\* pipeline, decoder, recorder and threads to the steps that follow.
LEMMA StopRequested ==
  ASSUME TypeOK, pipeline_stop, ps.state # "STOPPED"
  PROVE  /\ step = "stop" /\ step' = "send_eos"
         /\ ps'.state = "STOPPING" /\ ps'.pipeline = ps.pipeline
         /\ ps'.decoder = ps.decoder /\ ps'.recorder = ps.recorder
         /\ UNCHANGED <<main, ret, started, signals, threads, ur, recording>>
  BY DEF TypeOK, PipelineState, pipeline_stop, Step

\* What start_wire does: on success the pipeline and the receiver exist, on a
\* failure it goes straight to cleanup_pipeline with neither.
LEMMA WireEffect ==
  ASSUME TypeOK, start_wire
  PROVE  /\ main = "start_wire" /\ ps.state = "STOPPED" /\ ps'.state = "STOPPED"
         /\ ps'.decoder = ps.decoder /\ ps'.recorder = ps.recorder
         /\ \/ /\ main' = "start_udp" /\ step' = step
               /\ ps'.pipeline = "made" /\ ur'.alloc
            \/ /\ main' = "call" /\ step' = "clean_appsink"
               /\ ret' \in {"kill_watcher", "poll_child"}
               /\ ps'.pipeline = "none" /\ ~ur'.alloc
         /\ UNCHANGED <<signals, threads, recording>>
<1>1. /\ main = "start_wire" /\ ps.state = "STOPPED"
      /\ UNCHANGED <<signals, threads, recording>>
  BY DEF start_wire
<1>2. CASE Goto("start_udp")
  BY <1>1, <1>2 DEF start_wire, Goto, Call, NoPipeline, NoReceiver
<1>3. CASE Call("clean_appsink", FailTo)
  <2>1. FailTo \in {"kill_watcher", "poll_child"}
    BY DEF FailTo
  <2>2. /\ main' = "call" /\ step' = "clean_appsink" /\ ret' = FailTo
        /\ ps' = [NoPipeline EXCEPT !.decoder = ps.decoder,
                                    !.recorder = ps.recorder]
        /\ ur' = NoReceiver
    BY <1>3 DEF start_wire, Goto, Call
  <2>. QED
    BY <1>1, <2>1, <2>2 DEF NoPipeline, NoReceiver
<1>. QED
  BY <1>2, <1>3 DEF start_wire

\* The bus thread only writes its own flags of PipelineState.
LEMMA BusEffect ==
  ASSUME TypeOK, Bus
  PROVE  /\ ps'.state = ps.state /\ ps'.pipeline = ps.pipeline
         /\ ps'.decoder = ps.decoder /\ ps'.recorder = ps.recorder
         /\ bus \in {"starting", "loop", "ending"}
         /\ bus' \in {"loop", "ending", "done"}
         /\ UNCHANGED <<signals, control, appsink, receiver, ur, recording>>
<1> USE DEF TypeOK, PipelineState
<1>1. CASE bus_start
  BY <1>1 DEF bus_start
<1>2. CASE bus_timeout
  BY <1>2 DEF bus_timeout
<1>3. CASE bus_message
  BY <1>3 DEF bus_message
<1>4. CASE bus_end
  BY <1>4 DEF bus_end
<1>. QED
  BY <1>1, <1>2, <1>3, <1>4 DEF Bus

-----------------------------------------------------------------------------
(* One lemma per part of the invariant.                                    *)

\* The watcher and main write the four flags with Boolean values only.
LEMMA FlagsStep ==
  TypeOK /\ [Next]_vars => (flags \in Flags)'
<1> SUFFICES ASSUME TypeOK, [Next]_vars PROVE (flags \in Flags)'
  OBVIOUS
<1> USE FlagsTyped DEF TypeOK, signals, control, threads, recording
<1>1. ASSUME NEW sig \in Signals, Send(sig) PROVE (flags \in Flags)'
  BY <1>1 DEF Send
<1>2. ASSUME NEW sig \in AllSignals, signal_thread_func(sig)
      PROVE  (flags \in Flags)'
  <2>1. flags' \in {[flags EXCEPT !.exit = TRUE], [flags EXCEPT !.restart = TRUE],
                   [flags EXCEPT !.start = TRUE], [flags EXCEPT !.stop = TRUE]}
    BY <1>2 DEF signal_thread_func, AllSignals
  <2>2. \A b \in BOOLEAN : /\ [flags EXCEPT !.exit = b] \in Flags
                          /\ [flags EXCEPT !.restart = b] \in Flags
                          /\ [flags EXCEPT !.start = b] \in Flags
                          /\ [flags EXCEPT !.stop = b] \in Flags
    OBVIOUS
  <2>. QED
    BY <2>1, <2>2
<1>3. CASE Tick
  BY <1>3 DEF Tick
<1>4. CASE main_boot
  BY <1>4 DEF main_boot, Goto
<1>5. CASE start_wire \/ udp_receiver_start \/ start_play \/ start_decoder \/
       start_threads
  BY <1>5 DEF start_wire, udp_receiver_start, start_play, start_decoder,
      start_threads, Goto, Call, FailTo, NoPipeline, NoReceiver
<1>6. CASE enable_new \/ enable_publish \/ enable_free_extra \/
       pipeline_disable_recording \/ disable_free
  BY <1>6 DEF enable_new, enable_publish, enable_free_extra,
      pipeline_disable_recording, disable_free, Goto, FreeFresh, TakeRecorder
<1>7. CASE main_start_record
  BY <1>7 DEF main_start_record
<1>8. CASE main_stop_record
  BY <1>8 DEF main_stop_record, Goto
<1>9. CASE main_restart
  BY <1>9 DEF main_restart, Goto
<1>10. CASE pipeline_poll_child
  BY <1>10 DEF pipeline_poll_child, Goto
<1>11. CASE main_poll \/ child_join_bus
  BY <1>11 DEF main_poll, child_join_bus, Goto, Call
<1>12. CASE main_kill_watcher
  BY <1>12 DEF main_kill_watcher, Goto
<1>13. CASE main_spawn_worker \/ main_joined \/ main_join_timeout \/
       main_join_watcher
  BY <1>13 DEF main_spawn_worker, main_joined, main_join_timeout,
      main_join_watcher, Call, Goto
<1>14. CASE pipeline_stop
  BY <1>14 DEF pipeline_stop, Return, Step
<1>15. CASE stop_send_eos \/ stop_set_null \/
       udp_receiver_stop("stop_udp", "join_udp") \/ udp_receiver_join \/
       stop_appsink_thread("join_appsink", "join_bus") \/
       stop_bus_thread("join_bus", "clean_appsink")
  BY <1>15 DEF stop_send_eos, stop_set_null, udp_receiver_stop,
      udp_receiver_join, stop_appsink_thread, stop_bus_thread, Step,
      JoinableReceiver, JoinableAppsink, JoinableBus
<1>16. CASE cleanup_free
  BY <1>16 DEF cleanup_free, FreeFresh, Return
<1>17. CASE stop_appsink_thread("clean_appsink", "clean_bus") \/
       stop_bus_thread("clean_bus", "clean_udp") \/
       udp_receiver_stop("clean_udp", "clean_join_udp") \/
       udp_receiver_destroy \/ cleanup_gst \/ cleanup_decoder \/
       cleanup_recorder
  BY <1>17 DEF stop_appsink_thread, stop_bus_thread, udp_receiver_stop,
      udp_receiver_destroy, cleanup_gst, cleanup_decoder, cleanup_recorder,
      Step, JoinableAppsink, JoinableBus, JoinableReceiver, NoReceiver,
      TakeRecorder
<1>18. CASE Appsink
  BY <1>18 DEF Appsink, appsink_loop, appsink_pull, appsink_record,
      appsink_recorded, appsink_feed, appsink_eos
<1>19. CASE Bus
  BY <1>19 DEF Bus, bus_start, bus_timeout, bus_message, bus_end
<1>20. CASE Receiver
  BY <1>20 DEF Receiver, receiver_recv, receiver_push
<1>21. CASE gst_stream \/ gst_error
  BY <1>21 DEF gst_stream, gst_error
<1>22. CASE UNCHANGED vars
  BY <1>22 DEF vars
<1>. QED
  BY <1>1, <1>2, <1>3, <1>4, <1>5, <1>6, <1>7, <1>8, <1>9, <1>10, <1>11,
      <1>12, <1>13, <1>14, <1>15, <1>16, <1>17, <1>18, <1>19, <1>20, <1>21,
      <1>22 DEF Next, Watcher, MainStep, MainLocked, Procedure, Terminated

\* Every writer of PipelineState (main, the stop worker, the bus thread)
\* keeps its fields well typed.
LEMMA PsStep ==
  TypeOK /\ [Next]_vars => (ps \in PipelineState)'
<1> SUFFICES ASSUME TypeOK, [Next]_vars PROVE (ps \in PipelineState)'
  OBVIOUS
<1> USE DEF TypeOK, PipelineState, NoPipeline, signals, control, threads,
      recording
<1>1. ASSUME NEW sig \in Signals, Send(sig) PROVE (ps \in PipelineState)'
  BY <1>1 DEF Send
<1>2. ASSUME NEW sig \in AllSignals, signal_thread_func(sig)
      PROVE  (ps \in PipelineState)'
  BY <1>2 DEF signal_thread_func
<1>3. CASE Tick
  BY <1>3 DEF Tick
<1>4. CASE start_wire
  BY <1>4 DEF start_wire, Goto, Call, FailTo, NoPipeline, NoReceiver
<1>5. CASE main_boot \/ udp_receiver_start \/ start_play \/ start_decoder \/
       start_threads
  BY <1>5 DEF main_boot, udp_receiver_start, start_play, start_decoder,
      start_threads, Goto, Call, FailTo
<1>6. CASE enable_new \/ enable_publish \/ enable_free_extra \/
       pipeline_disable_recording \/ disable_free
  BY <1>6 DEF enable_new, enable_publish, enable_free_extra,
      pipeline_disable_recording, disable_free, Goto, FreeFresh, TakeRecorder
<1>7. CASE main_poll \/ main_start_record \/ main_stop_record \/ main_restart
       \/ pipeline_poll_child \/ child_join_bus
  BY <1>7 DEF main_poll, main_start_record, main_stop_record, main_restart,
      pipeline_poll_child, child_join_bus, Goto, Call
<1>8. CASE main_spawn_worker \/ main_joined \/ main_join_timeout \/
       main_kill_watcher \/ main_join_watcher
  BY <1>8 DEF main_spawn_worker, main_joined, main_join_timeout,
      main_kill_watcher, main_join_watcher, Call, Goto
<1>9. CASE pipeline_stop
  BY <1>9 DEF pipeline_stop, Return, Step
<1>10. CASE stop_send_eos \/ stop_set_null \/
       udp_receiver_stop("stop_udp", "join_udp") \/ udp_receiver_join \/
       stop_appsink_thread("join_appsink", "join_bus") \/
       stop_bus_thread("join_bus", "clean_appsink")
  BY <1>10 DEF stop_send_eos, stop_set_null, udp_receiver_stop,
      udp_receiver_join, stop_appsink_thread, stop_bus_thread, Step,
      JoinableReceiver, JoinableAppsink, JoinableBus
<1>11. CASE stop_appsink_thread("clean_appsink", "clean_bus") \/
       stop_bus_thread("clean_bus", "clean_udp") \/
       udp_receiver_stop("clean_udp", "clean_join_udp") \/
       udp_receiver_destroy \/ cleanup_gst \/ cleanup_decoder \/
       cleanup_recorder \/ cleanup_free
  BY <1>11 DEF stop_appsink_thread, stop_bus_thread, udp_receiver_stop,
      udp_receiver_destroy, cleanup_gst, cleanup_decoder, cleanup_recorder,
      cleanup_free, Step, JoinableAppsink, JoinableBus, JoinableReceiver,
      NoReceiver, TakeRecorder, FreeFresh, Return
<1>12. CASE Appsink
  BY <1>12 DEF Appsink, appsink_loop, appsink_pull, appsink_record,
      appsink_recorded, appsink_feed, appsink_eos
<1>13. CASE bus_start
  BY <1>13 DEF bus_start
<1>14. CASE bus_message
  BY <1>14 DEF bus_message
<1>15. CASE bus_end
  BY <1>15 DEF bus_end
<1>16. CASE bus_timeout
  BY <1>16 DEF bus_timeout
<1>17. CASE Receiver
  BY <1>17 DEF Receiver, receiver_recv, receiver_push
<1>18. CASE gst_stream \/ gst_error
  BY <1>18 DEF gst_stream, gst_error
<1>19. CASE UNCHANGED vars
  BY <1>19 DEF vars
<1>. QED
  BY <1>1, <1>2, <1>3, <1>4, <1>5, <1>6, <1>7, <1>8, <1>9, <1>10, <1>11,
      <1>12, <1>13, <1>14, <1>15, <1>16, <1>17, <1>18, <1>19 DEF Next,
      Watcher, MainStep, MainLocked, Procedure, Bus, Terminated

\* The receiver's counters stay within the pool: a buffer is acquired only
\* while one is free, and returned only while one is out.
LEMMA UrStep ==
  TypeOK /\ [Next]_vars => (ur \in UdpReceiver)'
<1> SUFFICES ASSUME TypeOK, [Next]_vars PROVE (ur \in UdpReceiver)'
  OBVIOUS
<1> USE PipelineAssumption DEF TypeOK, UdpReceiver, signals, control, threads,
      recording
<1>1. ASSUME NEW sig \in Signals, Send(sig) PROVE (ur \in UdpReceiver)'
  BY <1>1 DEF Send
<1>2. ASSUME NEW sig \in AllSignals, signal_thread_func(sig)
      PROVE  (ur \in UdpReceiver)'
  BY <1>2 DEF signal_thread_func
<1>3. CASE Tick
  BY <1>3 DEF Tick
<1>4. CASE start_wire
  BY <1>4, NoReceiverTyped DEF start_wire
<1>5. CASE main_boot \/ udp_receiver_start \/ start_play \/ start_decoder \/
       start_threads
  BY <1>5 DEF main_boot, udp_receiver_start, start_play, start_decoder,
      start_threads, Goto, Call, FailTo
<1>6. CASE enable_new \/ enable_publish \/ enable_free_extra \/
       pipeline_disable_recording \/ disable_free
  BY <1>6 DEF enable_new, enable_publish, enable_free_extra,
      pipeline_disable_recording, disable_free, Goto, FreeFresh, TakeRecorder
<1>7. CASE main_poll \/ main_start_record \/ main_stop_record \/ main_restart
       \/ pipeline_poll_child \/ child_join_bus
  BY <1>7 DEF main_poll, main_start_record, main_stop_record, main_restart,
      pipeline_poll_child, child_join_bus, Goto, Call
<1>8. CASE main_spawn_worker \/ main_joined \/ main_join_timeout \/
       main_kill_watcher \/ main_join_watcher
  BY <1>8 DEF main_spawn_worker, main_joined, main_join_timeout,
      main_kill_watcher, main_join_watcher, Call, Goto
<1>9. CASE stop_set_null
  BY <1>9 DEF stop_set_null, Step
<1>10. CASE udp_receiver_stop("stop_udp", "join_udp")
  BY <1>10 DEF udp_receiver_stop, Step
<1>11. CASE udp_receiver_join
  BY <1>11 DEF udp_receiver_join, Step, JoinableReceiver
<1>12. CASE pipeline_stop \/ stop_send_eos \/
       stop_appsink_thread("join_appsink", "join_bus") \/
       stop_bus_thread("join_bus", "clean_appsink")
  BY <1>12 DEF pipeline_stop, stop_send_eos, stop_appsink_thread,
      stop_bus_thread, Return, Step, JoinableAppsink, JoinableBus
<1>13. CASE udp_receiver_stop("clean_udp", "clean_join_udp")
  BY <1>13 DEF udp_receiver_stop, Step
<1>14. CASE udp_receiver_destroy
  BY <1>14, NoReceiverTyped DEF udp_receiver_destroy
<1>15. CASE stop_appsink_thread("clean_appsink", "clean_bus") \/
       stop_bus_thread("clean_bus", "clean_udp") \/ cleanup_gst \/
       cleanup_decoder \/ cleanup_recorder \/ cleanup_free
  BY <1>15 DEF stop_appsink_thread, stop_bus_thread, cleanup_gst,
      cleanup_decoder, cleanup_recorder, cleanup_free, Step, JoinableAppsink,
      JoinableBus, TakeRecorder, FreeFresh, Return
<1>16. CASE Appsink
  BY <1>16 DEF Appsink, appsink_loop, appsink_pull, appsink_record,
      appsink_recorded, appsink_feed, appsink_eos
<1>17. CASE Bus
  BY <1>17 DEF Bus, bus_start, bus_timeout, bus_message, bus_end
<1>18. CASE Receiver
  BY <1>18 DEF Receiver, receiver_recv, receiver_push
<1>19. CASE gst_stream \/ gst_error
  BY <1>19 DEF gst_stream, gst_error
<1>20. CASE UNCHANGED vars
  BY <1>20 DEF vars
<1>. QED
  BY <1>1, <1>2, <1>3, <1>4, <1>5, <1>6, <1>7, <1>8, <1>9, <1>10, <1>11,
      <1>12, <1>13, <1>14, <1>15, <1>16, <1>17, <1>18, <1>19, <1>20 DEF Next,
      Watcher, MainStep, MainLocked, Procedure, Terminated

\* Every state of the process is well typed.
LEMMA TypeStep ==
  TypeOK /\ [Next]_vars => TypeOK'
<1> SUFFICES ASSUME TypeOK, [Next]_vars PROVE TypeOK'
  OBVIOUS
<1>flags. flags' \in Flags
  BY FlagsStep
<1>ps. ps' \in PipelineState
  BY PsStep
<1>ur. ur' \in UdpReceiver
  BY UrStep
<1>rec. ps.recorder \in Nat
  BY DEF TypeOK, PipelineState
<1> USE PipelineAssumption, <1>flags, <1>ps, <1>ur, <1>rec DEF TypeOK, Ended,
      Starts, AllSignals, signals, control, threads, recording
<1>1. ASSUME NEW sig \in Signals, Send(sig) PROVE TypeOK'
  BY <1>1 DEF Send
<1>2. ASSUME NEW sig \in AllSignals, signal_thread_func(sig) PROVE TypeOK'
  BY <1>2 DEF signal_thread_func
<1>3. CASE Tick
  BY <1>3 DEF Tick
<1>4. CASE main_boot \/ start_wire \/ udp_receiver_start \/ start_play \/
       start_decoder \/ start_threads
  BY <1>4 DEF main_boot, start_wire, udp_receiver_start, start_play,
      start_decoder, start_threads, Goto, Call, FailTo, NoPipeline, NoReceiver
<1>5. CASE enable_new
  BY <1>5 DEF enable_new, Goto
<1>6. CASE enable_publish \/ enable_free_extra \/ pipeline_disable_recording
       \/ disable_free
  BY <1>6 DEF enable_publish, enable_free_extra, pipeline_disable_recording,
      disable_free, Goto, FreeFresh, TakeRecorder
<1>7. CASE main_start_record
  <2>1. record' \in BOOLEAN
    BY <1>7 DEF main_start_record
  <2>. QED
    BY <1>7, <2>1 DEF main_start_record
<1>8. CASE main_stop_record
  <2>1. record' \in BOOLEAN
    BY <1>8 DEF main_stop_record, Goto
  <2>. QED
    BY <1>8, <2>1 DEF main_stop_record, Goto
<1>9. CASE main_poll \/ main_restart \/ pipeline_poll_child \/ child_join_bus
  BY <1>9 DEF main_poll, main_restart, pipeline_poll_child, child_join_bus,
      Goto, Call
<1>10. CASE main_spawn_worker \/ main_joined \/ main_join_timeout \/
       main_kill_watcher \/ main_join_watcher
  BY <1>10 DEF main_spawn_worker, main_joined, main_join_timeout,
      main_kill_watcher, main_join_watcher, Call, Goto
<1>11. CASE pipeline_stop \/ stop_send_eos \/ stop_set_null \/
       udp_receiver_stop("stop_udp", "join_udp") \/ udp_receiver_join \/
       stop_appsink_thread("join_appsink", "join_bus") \/
       stop_bus_thread("join_bus", "clean_appsink")
  BY <1>11 DEF pipeline_stop, stop_send_eos, stop_set_null, udp_receiver_stop,
      udp_receiver_join, stop_appsink_thread, stop_bus_thread, Return, Step,
      JoinableReceiver, JoinableAppsink, JoinableBus
<1>12. CASE stop_appsink_thread("clean_appsink", "clean_bus") \/
       stop_bus_thread("clean_bus", "clean_udp") \/
       udp_receiver_stop("clean_udp", "clean_join_udp") \/
       udp_receiver_destroy \/ cleanup_gst \/ cleanup_decoder \/
       cleanup_recorder \/ cleanup_free
  BY <1>12 DEF stop_appsink_thread, stop_bus_thread, udp_receiver_stop,
      udp_receiver_destroy, cleanup_gst, cleanup_decoder, cleanup_recorder,
      cleanup_free, Step, JoinableAppsink, JoinableBus, JoinableReceiver,
      NoReceiver, TakeRecorder, FreeFresh, Return
<1>13. CASE Appsink
  <2> USE DEF Appsink, appsink_loop, appsink_pull, appsink_record,
          appsink_recorded, appsink_feed, appsink_eos
  <2>1. /\ appsink' \in {"loop", "pull", "sample", "recording", "feed",
                       "eos", "done"}
        /\ lock' \in {"free", "appsink"} /\ using' \in Nat
    BY <1>13
  <2>2. UNCHANGED <<signals, control, bus, receiver, record, fresh, open,
        created, now>>
    BY <1>13
  <2>. QED
    BY <2>1, <2>2
<1>14. CASE Bus
  BY <1>14 DEF Bus, bus_start, bus_timeout, bus_message, bus_end
<1>15. CASE Receiver
  BY <1>15 DEF Receiver, receiver_recv, receiver_push
<1>16. CASE gst_stream \/ gst_error
  BY <1>16 DEF gst_stream, gst_error
<1>17. CASE UNCHANGED vars
  BY <1>17 DEF vars
<1>. QED
  BY <1>1, <1>2, <1>3, <1>4, <1>5, <1>6, <1>7, <1>8, <1>9, <1>10, <1>11,
      <1>12, <1>13, <1>14, <1>15, <1>16, <1>17 DEF Next, Watcher, MainStep,
      MainLocked, Procedure, Terminated

\* A procedure runs exactly while main waits for it: calls and returns of
\* pipeline_stop and cleanup_pipeline match.
LEMMA ControlStep ==
  TypeOK /\ ControlInv /\ [Next]_vars => ControlInv'
<1> SUFFICES ASSUME TypeOK, ControlInv, [Next]_vars PROVE ControlInv'
  OBVIOUS
<1> USE DEF TypeOK, Flags, PipelineState, UdpReceiver, ControlInv, Ended,
      Alive, signals, control, threads, recording
<1>1. ASSUME NEW sig \in Signals, Send(sig) PROVE ControlInv'
  BY <1>1 DEF Send
<1>2. ASSUME NEW sig \in AllSignals, signal_thread_func(sig) PROVE ControlInv'
  BY <1>2 DEF signal_thread_func
<1>3. CASE Tick
  BY <1>3 DEF Tick
<1>4. CASE main_boot \/ start_wire \/ udp_receiver_start \/ start_play \/
       start_decoder \/ start_threads
  BY <1>4 DEF main_boot, start_wire, udp_receiver_start, start_play,
      start_decoder, start_threads, Goto, Call, FailTo, NoPipeline, NoReceiver
<1>5. CASE enable_new \/ enable_publish \/ enable_free_extra \/
       pipeline_disable_recording \/ disable_free
  BY <1>5 DEF enable_new, enable_publish, enable_free_extra,
      pipeline_disable_recording, disable_free, Goto, FreeFresh, TakeRecorder
<1>6. CASE main_poll \/ main_start_record \/ main_stop_record \/ main_restart
       \/ pipeline_poll_child \/ child_join_bus
  BY <1>6 DEF main_poll, main_start_record, main_stop_record, main_restart,
      pipeline_poll_child, child_join_bus, Goto, Call
<1>7. CASE main_spawn_worker \/ main_joined \/ main_join_timeout \/
       main_kill_watcher \/ main_join_watcher
  BY <1>7 DEF main_spawn_worker, main_joined, main_join_timeout,
      main_kill_watcher, main_join_watcher, Call, Goto
<1>8. CASE pipeline_stop \/ stop_send_eos \/ stop_set_null \/
       udp_receiver_stop("stop_udp", "join_udp") \/ udp_receiver_join \/
       stop_appsink_thread("join_appsink", "join_bus") \/
       stop_bus_thread("join_bus", "clean_appsink")
  BY <1>8 DEF pipeline_stop, stop_send_eos, stop_set_null, udp_receiver_stop,
      udp_receiver_join, stop_appsink_thread, stop_bus_thread, Return, Step,
      JoinableReceiver, JoinableAppsink, JoinableBus
<1>9. CASE stop_appsink_thread("clean_appsink", "clean_bus") \/
       stop_bus_thread("clean_bus", "clean_udp") \/
       udp_receiver_stop("clean_udp", "clean_join_udp") \/
       udp_receiver_destroy \/ cleanup_gst \/ cleanup_decoder \/
       cleanup_recorder \/ cleanup_free
  BY <1>9 DEF stop_appsink_thread, stop_bus_thread, udp_receiver_stop,
      udp_receiver_destroy, cleanup_gst, cleanup_decoder, cleanup_recorder,
      cleanup_free, Step, JoinableAppsink, JoinableBus, JoinableReceiver,
      NoReceiver, TakeRecorder, FreeFresh, Return
<1>10. CASE Appsink
  BY <1>10 DEF Appsink, appsink_loop, appsink_pull, appsink_record,
      appsink_recorded, appsink_feed, appsink_eos
<1>11. CASE Bus
  BY <1>11 DEF Bus, bus_start, bus_timeout, bus_message, bus_end
<1>12. CASE Receiver
  BY <1>12 DEF Receiver, receiver_recv, receiver_push
<1>13. CASE gst_stream \/ gst_error
  BY <1>13 DEF gst_stream, gst_error
<1>14. CASE UNCHANGED vars
  BY <1>14 DEF vars
<1>. QED
  BY <1>1, <1>2, <1>3, <1>4, <1>5, <1>6, <1>7, <1>8, <1>9, <1>10, <1>11,
      <1>12, <1>13, <1>14 DEF Next, Watcher, MainStep, MainLocked, Procedure,
      Terminated

\* ps->state keeps telling what there is to tear down. pipeline_stop relies
\* on it when it returns at once, main when it decides to go on or to leave.
LEMMA StateStep ==
  TypeOK /\ ControlInv /\ StateInv /\ BuildInv /\ [Next]_vars => StateInv'
<1> SUFFICES ASSUME TypeOK, ControlInv, StateInv, BuildInv, [Next]_vars PROVE
      StateInv'
  OBVIOUS
<1> USE DEF TypeOK, Flags, PipelineState, UdpReceiver, ControlInv, StateInv,
      BuildInv, Clean, Starting, Looping, Down, StopSteps, CleanSteps, Joined,
      Detached, Unreffed, Freed, Ended, Alive, signals, control, threads,
      recording
<1>1. ASSUME NEW sig \in Signals, Send(sig) PROVE StateInv'
  BY <1>1 DEF Send
<1>2. ASSUME NEW sig \in AllSignals, signal_thread_func(sig) PROVE StateInv'
  BY <1>2 DEF signal_thread_func
<1>3. CASE Tick
  BY <1>3 DEF Tick
<1>4. CASE start_wire
  BY <1>4, WireEffect
<1>5. CASE main_boot \/ udp_receiver_start \/ start_play \/ start_decoder \/
       start_threads
  BY <1>5 DEF main_boot, udp_receiver_start, start_play, start_decoder,
      start_threads, Goto, Call, FailTo
<1>6. CASE enable_new \/ enable_publish \/ enable_free_extra \/
       pipeline_disable_recording \/ disable_free
  BY <1>6 DEF enable_new, enable_publish, enable_free_extra,
      pipeline_disable_recording, disable_free, Goto, FreeFresh, TakeRecorder
<1>7. CASE main_poll \/ main_start_record \/ main_stop_record \/ main_restart
       \/ pipeline_poll_child \/ child_join_bus
  BY <1>7 DEF main_poll, main_start_record, main_stop_record, main_restart,
      pipeline_poll_child, child_join_bus, Goto, Call
<1>8. CASE main_spawn_worker \/ main_joined \/ main_join_timeout \/
       main_kill_watcher \/ main_join_watcher
  BY <1>8 DEF main_spawn_worker, main_joined, main_join_timeout,
      main_kill_watcher, main_join_watcher, Call, Goto
<1>9. CASE pipeline_stop
  <2>1. CASE ps.state = "STOPPED"
    BY <1>9, <2>1 DEF pipeline_stop, Return
  <2>2. CASE ps.state # "STOPPED"
    BY <1>9, <2>2, StopRequested
  <2>. QED
    BY <2>1, <2>2
<1>10. CASE stop_send_eos \/ stop_set_null \/
       udp_receiver_stop("stop_udp", "join_udp") \/ udp_receiver_join \/
       stop_appsink_thread("join_appsink", "join_bus") \/
       stop_bus_thread("join_bus", "clean_appsink")
  BY <1>10 DEF stop_send_eos, stop_set_null, udp_receiver_stop,
      udp_receiver_join, stop_appsink_thread, stop_bus_thread, Step,
      JoinableReceiver, JoinableAppsink, JoinableBus
<1>11. CASE stop_appsink_thread("clean_appsink", "clean_bus") \/
       stop_bus_thread("clean_bus", "clean_udp") \/
       udp_receiver_stop("clean_udp", "clean_join_udp") \/
       udp_receiver_destroy \/ cleanup_gst \/ cleanup_decoder \/
       cleanup_recorder \/ cleanup_free
  BY <1>11 DEF stop_appsink_thread, stop_bus_thread, udp_receiver_stop,
      udp_receiver_destroy, cleanup_gst, cleanup_decoder, cleanup_recorder,
      cleanup_free, Step, JoinableAppsink, JoinableBus, JoinableReceiver,
      NoReceiver, TakeRecorder, FreeFresh, Return
<1>12. CASE Appsink
  BY <1>12 DEF Appsink, appsink_loop, appsink_pull, appsink_record,
      appsink_recorded, appsink_feed, appsink_eos
<1>13. CASE Bus
  BY <1>13, BusEffect
<1>14. CASE Receiver
  BY <1>14 DEF Receiver, receiver_recv, receiver_push
<1>15. CASE gst_stream \/ gst_error
  BY <1>15 DEF gst_stream, gst_error
<1>16. CASE UNCHANGED vars
  BY <1>16 DEF vars
<1>. QED
  BY <1>1, <1>2, <1>3, <1>4, <1>5, <1>6, <1>7, <1>8, <1>9, <1>10, <1>11,
      <1>12, <1>13, <1>14, <1>15, <1>16 DEF Next, Watcher, MainStep,
      MainLocked, Procedure, Terminated

\* pipeline_start builds and cleanup_pipeline takes down in the stated order.
LEMMA BuildStep ==
  TypeOK /\ ControlInv /\ StateInv /\ BuildInv /\ [Next]_vars => BuildInv'
<1> SUFFICES ASSUME TypeOK, ControlInv, StateInv, BuildInv, [Next]_vars PROVE
      BuildInv'
  OBVIOUS
<1> USE DEF TypeOK, Flags, PipelineState, UdpReceiver, ControlInv, StateInv,
      BuildInv, Clean, Starting, Down, StopSteps, CleanSteps, Joined,
      Detached, Unreffed, Freed, Ended, Alive, signals, control, threads,
      recording
<1>1. ASSUME NEW sig \in Signals, Send(sig) PROVE BuildInv'
  BY <1>1 DEF Send
<1>2. ASSUME NEW sig \in AllSignals, signal_thread_func(sig) PROVE BuildInv'
  BY <1>2 DEF signal_thread_func
<1>3. CASE Tick
  BY <1>3 DEF Tick
<1>4. CASE start_wire
  BY <1>4, WireEffect
<1>5. CASE main_boot \/ udp_receiver_start \/ start_play \/ start_decoder \/
       start_threads
  BY <1>5 DEF main_boot, udp_receiver_start, start_play, start_decoder,
      start_threads, Goto, Call, FailTo
<1>6. CASE enable_new \/ enable_publish \/ enable_free_extra \/
       pipeline_disable_recording \/ disable_free
  BY <1>6 DEF enable_new, enable_publish, enable_free_extra,
      pipeline_disable_recording, disable_free, Goto, FreeFresh, TakeRecorder
<1>7. CASE main_poll \/ main_start_record \/ main_stop_record \/ main_restart
       \/ pipeline_poll_child \/ child_join_bus
  BY <1>7 DEF main_poll, main_start_record, main_stop_record, main_restart,
      pipeline_poll_child, child_join_bus, Goto, Call
<1>8. CASE main_spawn_worker \/ main_joined \/ main_join_timeout \/
       main_kill_watcher \/ main_join_watcher
  BY <1>8 DEF main_spawn_worker, main_joined, main_join_timeout,
      main_kill_watcher, main_join_watcher, Call, Goto
<1>9. CASE pipeline_stop \/ stop_send_eos \/ stop_set_null \/
       udp_receiver_stop("stop_udp", "join_udp") \/ udp_receiver_join \/
       stop_appsink_thread("join_appsink", "join_bus") \/
       stop_bus_thread("join_bus", "clean_appsink")
  BY <1>9 DEF pipeline_stop, stop_send_eos, stop_set_null, udp_receiver_stop,
      udp_receiver_join, stop_appsink_thread, stop_bus_thread, Return, Step,
      JoinableReceiver, JoinableAppsink, JoinableBus
<1>10. CASE stop_appsink_thread("clean_appsink", "clean_bus") \/
       stop_bus_thread("clean_bus", "clean_udp") \/
       udp_receiver_stop("clean_udp", "clean_join_udp") \/
       udp_receiver_destroy \/ cleanup_gst \/ cleanup_decoder \/
       cleanup_recorder \/ cleanup_free
  BY <1>10 DEF stop_appsink_thread, stop_bus_thread, udp_receiver_stop,
      udp_receiver_destroy, cleanup_gst, cleanup_decoder, cleanup_recorder,
      cleanup_free, Step, JoinableAppsink, JoinableBus, JoinableReceiver,
      NoReceiver, TakeRecorder, FreeFresh, Return
<1>11. CASE Appsink
  BY <1>11 DEF Appsink, appsink_loop, appsink_pull, appsink_record,
      appsink_recorded, appsink_feed, appsink_eos
<1>12. CASE Bus
  BY <1>12, BusEffect
<1>13. CASE Receiver
  BY <1>13 DEF Receiver, receiver_recv, receiver_push
<1>14. CASE gst_stream \/ gst_error
  BY <1>14 DEF gst_stream, gst_error
<1>15. CASE UNCHANGED vars
  BY <1>15 DEF vars
<1>. QED
  BY <1>1, <1>2, <1>3, <1>4, <1>5, <1>6, <1>7, <1>8, <1>9, <1>10, <1>11,
      <1>12, <1>13, <1>14, <1>15 DEF Next, Watcher, MainStep, MainLocked,
      Procedure, Terminated

\* No step frees what a running thread uses, and none starts a thread before
\* what it uses exists.
LEMMA OutlivedStep ==
  TypeOK /\ ControlInv /\ StateInv /\ BuildInv /\ ThreadsOutlived /\
    [Next]_vars => ThreadsOutlived'
<1> SUFFICES ASSUME TypeOK, ControlInv, StateInv, BuildInv, ThreadsOutlived,
      [Next]_vars PROVE ThreadsOutlived'
  OBVIOUS
<1> USE DEF TypeOK, Flags, PipelineState, UdpReceiver, ControlInv, StateInv,
      BuildInv, ThreadsOutlived, Clean, Starting, Down, CleanSteps, Joined,
      Detached, Unreffed, Freed, Ended, Alive, signals, control, threads,
      recording
<1>1. ASSUME NEW sig \in Signals, Send(sig) PROVE ThreadsOutlived'
  BY <1>1 DEF Send
<1>2. ASSUME NEW sig \in AllSignals, signal_thread_func(sig)
      PROVE  ThreadsOutlived'
  BY <1>2 DEF signal_thread_func
<1>3. CASE Tick
  BY <1>3 DEF Tick
<1>4. CASE start_wire
  BY <1>4, WireEffect
<1>5. CASE main_boot \/ udp_receiver_start \/ start_play \/ start_decoder \/
       start_threads
  BY <1>5 DEF main_boot, udp_receiver_start, start_play, start_decoder,
      start_threads, Goto, Call, FailTo
<1>6. CASE enable_new \/ enable_publish \/ enable_free_extra \/
       pipeline_disable_recording \/ disable_free
  BY <1>6 DEF enable_new, enable_publish, enable_free_extra,
      pipeline_disable_recording, disable_free, Goto, FreeFresh, TakeRecorder
<1>7. CASE main_poll \/ main_start_record \/ main_stop_record \/ main_restart
       \/ pipeline_poll_child \/ child_join_bus
  BY <1>7 DEF main_poll, main_start_record, main_stop_record, main_restart,
      pipeline_poll_child, child_join_bus, Goto, Call
<1>8. CASE main_spawn_worker \/ main_joined \/ main_join_timeout \/
       main_kill_watcher \/ main_join_watcher
  BY <1>8 DEF main_spawn_worker, main_joined, main_join_timeout,
      main_kill_watcher, main_join_watcher, Call, Goto
<1>9. CASE pipeline_stop
  <2>1. CASE ps.state = "STOPPED"
    BY <1>9, <2>1 DEF pipeline_stop, Return
  <2>2. CASE ps.state # "STOPPED"
    BY <1>9, <2>2, StopRequested
  <2>. QED
    BY <2>1, <2>2
<1>10. CASE stop_send_eos \/ stop_set_null \/
       udp_receiver_stop("stop_udp", "join_udp") \/ udp_receiver_join \/
       stop_appsink_thread("join_appsink", "join_bus") \/
       stop_bus_thread("join_bus", "clean_appsink")
  BY <1>10 DEF stop_send_eos, stop_set_null, udp_receiver_stop,
      udp_receiver_join, stop_appsink_thread, stop_bus_thread, Step,
      JoinableReceiver, JoinableAppsink, JoinableBus
<1>11. CASE stop_appsink_thread("clean_appsink", "clean_bus") \/
       stop_bus_thread("clean_bus", "clean_udp") \/
       udp_receiver_stop("clean_udp", "clean_join_udp") \/
       udp_receiver_destroy \/ cleanup_gst \/ cleanup_decoder \/
       cleanup_recorder \/ cleanup_free
  BY <1>11 DEF stop_appsink_thread, stop_bus_thread, udp_receiver_stop,
      udp_receiver_destroy, cleanup_gst, cleanup_decoder, cleanup_recorder,
      cleanup_free, Step, JoinableAppsink, JoinableBus, JoinableReceiver,
      NoReceiver, TakeRecorder, FreeFresh, Return
<1>12. CASE Appsink
  BY <1>12 DEF Appsink, appsink_loop, appsink_pull, appsink_record,
      appsink_recorded, appsink_feed, appsink_eos
<1>13. CASE Bus
  BY <1>13, BusEffect
<1>14. CASE Receiver
  BY <1>14 DEF Receiver, receiver_recv, receiver_push
<1>15. CASE gst_stream \/ gst_error
  BY <1>15 DEF gst_stream, gst_error
<1>16. CASE UNCHANGED vars
  BY <1>16 DEF vars
<1>. QED
  BY <1>1, <1>2, <1>3, <1>4, <1>5, <1>6, <1>7, <1>8, <1>9, <1>10, <1>11,
      <1>12, <1>13, <1>14, <1>15, <1>16 DEF Next, Watcher, MainStep,
      MainLocked, Procedure, Terminated

\* recorder_lock is the appsink thread's while it writes; main's local
\* recorder is in use between its taking and its freeing only.
LEMMA LockStep ==
  TypeOK /\ ControlInv /\ BuildInv /\ LockInv /\ [Next]_vars => LockInv'
<1> SUFFICES ASSUME TypeOK, ControlInv, BuildInv, LockInv, [Next]_vars PROVE
      LockInv'
  OBVIOUS
<1> USE DEF TypeOK, Flags, PipelineState, UdpReceiver, ControlInv, BuildInv,
      LockInv, Starting, Joined, Detached, Unreffed, Freed, Ended, Alive,
      signals, control, threads, recording
<1>1. ASSUME NEW sig \in Signals, Send(sig) PROVE LockInv'
  BY <1>1 DEF Send
<1>2. ASSUME NEW sig \in AllSignals, signal_thread_func(sig) PROVE LockInv'
  BY <1>2 DEF signal_thread_func
<1>3. CASE Tick
  BY <1>3 DEF Tick
<1>4. CASE start_wire
  BY <1>4, WireEffect
<1>5. CASE main_boot \/ udp_receiver_start \/ start_play \/ start_decoder \/
       start_threads
  BY <1>5 DEF main_boot, udp_receiver_start, start_play, start_decoder,
      start_threads, Goto, Call, FailTo
<1>6. CASE enable_new \/ enable_publish \/ enable_free_extra \/
       pipeline_disable_recording \/ disable_free
  BY <1>6 DEF enable_new, enable_publish, enable_free_extra,
      pipeline_disable_recording, disable_free, Goto, FreeFresh, TakeRecorder
<1>7. CASE main_poll \/ main_start_record \/ main_stop_record \/ main_restart
       \/ pipeline_poll_child \/ child_join_bus
  BY <1>7 DEF main_poll, main_start_record, main_stop_record, main_restart,
      pipeline_poll_child, child_join_bus, Goto, Call
<1>8. CASE main_spawn_worker \/ main_joined \/ main_join_timeout \/
       main_kill_watcher \/ main_join_watcher
  BY <1>8 DEF main_spawn_worker, main_joined, main_join_timeout,
      main_kill_watcher, main_join_watcher, Call, Goto
<1>9. CASE pipeline_stop
  <2>1. CASE ps.state = "STOPPED"
    BY <1>9, <2>1 DEF pipeline_stop, Return
  <2>2. CASE ps.state # "STOPPED"
    BY <1>9, <2>2, StopRequested
  <2>. QED
    BY <2>1, <2>2
<1>10. CASE stop_send_eos \/ stop_set_null \/
       udp_receiver_stop("stop_udp", "join_udp") \/ udp_receiver_join \/
       stop_appsink_thread("join_appsink", "join_bus") \/
       stop_bus_thread("join_bus", "clean_appsink")
  BY <1>10 DEF stop_send_eos, stop_set_null, udp_receiver_stop,
      udp_receiver_join, stop_appsink_thread, stop_bus_thread, Step,
      JoinableReceiver, JoinableAppsink, JoinableBus
<1>11. CASE stop_appsink_thread("clean_appsink", "clean_bus") \/
       stop_bus_thread("clean_bus", "clean_udp") \/
       udp_receiver_stop("clean_udp", "clean_join_udp") \/
       udp_receiver_destroy \/ cleanup_gst \/ cleanup_decoder \/
       cleanup_recorder \/ cleanup_free
  BY <1>11 DEF stop_appsink_thread, stop_bus_thread, udp_receiver_stop,
      udp_receiver_destroy, cleanup_gst, cleanup_decoder, cleanup_recorder,
      cleanup_free, Step, JoinableAppsink, JoinableBus, JoinableReceiver,
      NoReceiver, TakeRecorder, FreeFresh, Return
<1>12. CASE Appsink
  BY <1>12 DEF Appsink, appsink_loop, appsink_pull, appsink_record,
      appsink_recorded, appsink_feed, appsink_eos
<1>13. CASE Bus
  BY <1>13, BusEffect
<1>14. CASE Receiver
  BY <1>14 DEF Receiver, receiver_recv, receiver_push
<1>15. CASE gst_stream \/ gst_error
  BY <1>15 DEF gst_stream, gst_error
<1>16. CASE UNCHANGED vars
  BY <1>16 DEF vars
<1>. QED
  BY <1>1, <1>2, <1>3, <1>4, <1>5, <1>6, <1>7, <1>8, <1>9, <1>10, <1>11,
      <1>12, <1>13, <1>14, <1>15, <1>16 DEF Next, Watcher, MainStep,
      MainLocked, Procedure, Terminated

\* Every open recorder stays referenced from one place, and the one the
\* appsink thread writes to stays in ps->recorder.
LEMMA AccountedStep ==
  TypeOK /\ ControlInv /\ LockInv /\ RecordersAccounted /\ [Next]_vars =>
    RecordersAccounted'
<1> SUFFICES ASSUME TypeOK, ControlInv, LockInv, RecordersAccounted,
      [Next]_vars PROVE RecordersAccounted'
  OBVIOUS
<1> USE DEF TypeOK, Flags, PipelineState, UdpReceiver, ControlInv, LockInv,
      RecordersAccounted, Ended, Alive, signals, control, threads, recording
<1>1. ASSUME NEW sig \in Signals, Send(sig) PROVE RecordersAccounted'
  BY <1>1 DEF Send
<1>2. ASSUME NEW sig \in AllSignals, signal_thread_func(sig)
      PROVE  RecordersAccounted'
  BY <1>2 DEF signal_thread_func
<1>3. CASE Tick
  BY <1>3 DEF Tick
<1>4. CASE start_wire
  BY <1>4, WireEffect
<1>5. CASE main_boot \/ udp_receiver_start \/ start_play \/ start_decoder \/
       start_threads
  BY <1>5 DEF main_boot, udp_receiver_start, start_play, start_decoder,
      start_threads, Goto, Call, FailTo
<1>6. CASE enable_new
  <2>1. CASE created' # created
    <3>1. fresh = 0 /\ ps.recorder <= created /\ ps.recorder \in Nat
      BY <1>6 DEF enable_new
    <3>2. /\ fresh' = created + 1 /\ UNCHANGED <<ps, using>>
          /\ {r.id : r \in open'} = {r.id : r \in open} \cup {created + 1}
      BY <1>6, <2>1, NewEffect
    <3>3. created + 1 # 0 /\ created + 1 # ps.recorder
      BY <3>1
    <3>. QED
      BY <3>1, <3>2, <3>3, ZenonT(40)
  <2>2. CASE created' = created
    <3>1. UNCHANGED <<created, fresh, open, ps, using>>
      BY <1>6, <2>2 DEF enable_new
    <3>. QED
      BY <3>1
  <2>. QED
    BY <2>1, <2>2
<1>7. CASE enable_publish
  BY <1>7 DEF enable_publish, Goto
<1>8. CASE enable_free_extra
  BY <1>8 DEF enable_free_extra, Goto, FreeFresh
<1>9. CASE disable_free
  BY <1>9 DEF disable_free, Goto, FreeFresh
<1>10. CASE pipeline_disable_recording
  BY <1>10 DEF pipeline_disable_recording, Goto, TakeRecorder
<1>11. CASE main_poll \/ main_start_record \/ main_stop_record \/ main_restart
       \/ pipeline_poll_child \/ child_join_bus
  BY <1>11 DEF main_poll, main_start_record, main_stop_record, main_restart,
      pipeline_poll_child, child_join_bus, Goto, Call
<1>12. CASE main_spawn_worker \/ main_joined \/ main_join_timeout \/
       main_kill_watcher \/ main_join_watcher
  BY <1>12 DEF main_spawn_worker, main_joined, main_join_timeout,
      main_kill_watcher, main_join_watcher, Call, Goto
<1>13. CASE pipeline_stop
  <2>1. CASE ps.state = "STOPPED"
    BY <1>13, <2>1 DEF pipeline_stop, Return
  <2>2. CASE ps.state # "STOPPED"
    BY <1>13, <2>2, StopRequested
  <2>. QED
    BY <2>1, <2>2
<1>14. CASE stop_send_eos \/ stop_set_null \/
       udp_receiver_stop("stop_udp", "join_udp") \/ udp_receiver_join \/
       stop_appsink_thread("join_appsink", "join_bus") \/
       stop_bus_thread("join_bus", "clean_appsink")
  BY <1>14 DEF stop_send_eos, stop_set_null, udp_receiver_stop,
      udp_receiver_join, stop_appsink_thread, stop_bus_thread, Step,
      JoinableReceiver, JoinableAppsink, JoinableBus
<1>15. CASE stop_appsink_thread("clean_appsink", "clean_bus") \/
       stop_bus_thread("clean_bus", "clean_udp") \/
       udp_receiver_stop("clean_udp", "clean_join_udp") \/
       udp_receiver_destroy \/ cleanup_gst \/ cleanup_decoder \/
       cleanup_recorder \/ cleanup_free
  BY <1>15 DEF stop_appsink_thread, stop_bus_thread, udp_receiver_stop,
      udp_receiver_destroy, cleanup_gst, cleanup_decoder, cleanup_recorder,
      cleanup_free, Step, JoinableAppsink, JoinableBus, JoinableReceiver,
      NoReceiver, TakeRecorder, FreeFresh, Return
<1>16. CASE Appsink
  BY <1>16 DEF Appsink, appsink_loop, appsink_pull, appsink_record,
      appsink_recorded, appsink_feed, appsink_eos
<1>17. CASE Bus
  BY <1>17, BusEffect
<1>18. CASE Receiver
  BY <1>18 DEF Receiver, receiver_recv, receiver_push
<1>19. CASE gst_stream \/ gst_error
  BY <1>19 DEF gst_stream, gst_error
<1>20. CASE UNCHANGED vars
  BY <1>20 DEF vars
<1>. QED
  BY <1>1, <1>2, <1>3, <1>4, <1>5, <1>6, <1>7, <1>8, <1>9, <1>10, <1>11,
      <1>12, <1>13, <1>14, <1>15, <1>16, <1>17, <1>18, <1>19, <1>20 DEF Next,
      Watcher, MainStep, MainLocked, Procedure, Terminated

\* Switching recording on and off, restarts included, brings it into
\* agreement with cfg.record.enable.
LEMMA SwitchStep ==
  TypeOK /\ ControlInv /\ StateInv /\ BuildInv /\ LockInv /\ SwitchInv /\
    [Next]_vars => SwitchInv'
<1> SUFFICES ASSUME TypeOK, ControlInv, StateInv, BuildInv, LockInv,
      SwitchInv, [Next]_vars PROVE SwitchInv'
  OBVIOUS
<1> USE DEF TypeOK, Flags, PipelineState, UdpReceiver, ControlInv, StateInv,
      BuildInv, LockInv, SwitchInv, Starting, Looping, Down, StopSteps,
      CleanSteps, Clean, Joined, Detached, Unreffed, Freed, Ended, Alive,
      signals, control, threads, recording
<1>1. ASSUME NEW sig \in Signals, Send(sig) PROVE SwitchInv'
  BY <1>1 DEF Send
<1>2. ASSUME NEW sig \in AllSignals, signal_thread_func(sig) PROVE SwitchInv'
  BY <1>2 DEF signal_thread_func
<1>3. CASE Tick
  BY <1>3 DEF Tick
<1>4. CASE start_wire
  BY <1>4, WireEffect
<1>5. CASE main_boot \/ udp_receiver_start \/ start_play \/ start_decoder \/
       start_threads
  BY <1>5 DEF main_boot, udp_receiver_start, start_play, start_decoder,
      start_threads, Goto, Call, FailTo
<1>6. CASE enable_publish
  <2>1. CASE ps.recorder # 0
    <3>1. /\ main = "publish" /\ main' = "free_extra"
          /\ UNCHANGED <<ps, record>>
      BY <1>6, <2>1 DEF enable_publish, Goto
    <3>. QED
      BY <2>1, <3>1
  <2>2. CASE ps.recorder = 0
    <3>1. /\ main = "publish" /\ main' = ret
          /\ ps'.recorder = fresh /\ record' = record
      BY <1>6, <2>2 DEF enable_publish, Goto
    <3>2. fresh # 0 /\ ret \in {"poll", "poll_child", "stop_record"}
      BY <3>1
    <3>. QED
      BY <3>1, <3>2
  <2>. QED
    BY <2>1, <2>2
<1>7. CASE enable_new \/ enable_free_extra \/ pipeline_disable_recording \/
       disable_free
  BY <1>7 DEF enable_new, enable_free_extra, pipeline_disable_recording,
      disable_free, Goto, FreeFresh, TakeRecorder
<1>8. CASE pipeline_poll_child
  BY <1>8 DEF pipeline_poll_child, Goto
<1>9. CASE main_poll \/ main_start_record \/ main_stop_record \/ main_restart
       \/ child_join_bus
  BY <1>9 DEF main_poll, main_start_record, main_stop_record, main_restart,
      child_join_bus, Goto, Call
<1>10. CASE main_spawn_worker \/ main_joined \/ main_join_timeout \/
       main_kill_watcher \/ main_join_watcher
  BY <1>10 DEF main_spawn_worker, main_joined, main_join_timeout,
      main_kill_watcher, main_join_watcher, Call, Goto
<1>11. CASE pipeline_stop
  <2>1. CASE ps.state = "STOPPED"
    BY <1>11, <2>1 DEF pipeline_stop, Return
  <2>2. CASE ps.state # "STOPPED"
    BY <1>11, <2>2, StopRequested
  <2>. QED
    BY <2>1, <2>2
<1>12. CASE stop_send_eos \/ stop_set_null \/
       udp_receiver_stop("stop_udp", "join_udp") \/ udp_receiver_join \/
       stop_appsink_thread("join_appsink", "join_bus") \/
       stop_bus_thread("join_bus", "clean_appsink")
  BY <1>12 DEF stop_send_eos, stop_set_null, udp_receiver_stop,
      udp_receiver_join, stop_appsink_thread, stop_bus_thread, Step,
      JoinableReceiver, JoinableAppsink, JoinableBus
<1>13. CASE stop_appsink_thread("clean_appsink", "clean_bus") \/
       stop_bus_thread("clean_bus", "clean_udp") \/
       udp_receiver_stop("clean_udp", "clean_join_udp") \/
       udp_receiver_destroy \/ cleanup_gst \/ cleanup_decoder \/
       cleanup_recorder \/ cleanup_free
  BY <1>13 DEF stop_appsink_thread, stop_bus_thread, udp_receiver_stop,
      udp_receiver_destroy, cleanup_gst, cleanup_decoder, cleanup_recorder,
      cleanup_free, Step, JoinableAppsink, JoinableBus, JoinableReceiver,
      NoReceiver, TakeRecorder, FreeFresh, Return
<1>14. CASE Appsink
  BY <1>14 DEF Appsink, appsink_loop, appsink_pull, appsink_record,
      appsink_recorded, appsink_feed, appsink_eos
<1>15. CASE Bus
  BY <1>15, BusEffect
<1>16. CASE Receiver
  BY <1>16 DEF Receiver, receiver_recv, receiver_push
<1>17. CASE gst_stream \/ gst_error
  BY <1>17 DEF gst_stream, gst_error
<1>18. CASE UNCHANGED vars
  BY <1>18 DEF vars
<1>. QED
  BY <1>1, <1>2, <1>3, <1>4, <1>5, <1>6, <1>7, <1>8, <1>9, <1>10, <1>11,
      <1>12, <1>13, <1>14, <1>15, <1>16, <1>17, <1>18 DEF Next, Watcher,
      MainStep, MainLocked, Procedure, Terminated

\* A request that was alone keeps waiting or being carried out.
LEMMA RequestStep ==
  TypeOK /\ RequestInv /\ [Next]_vars => RequestInv'
<1> SUFFICES ASSUME TypeOK, RequestInv, [Next]_vars PROVE RequestInv'
  OBVIOUS
<1> USE DEF TypeOK, Flags, PipelineState, UdpReceiver, RequestInv, AllSignals,
      signals, control, threads, recording
<1>1. ASSUME NEW sig \in Signals, Send(sig) PROVE RequestInv'
  BY <1>1 DEF Send
<1>2. ASSUME NEW sig \in AllSignals, signal_thread_func(sig) PROVE RequestInv'
  BY <1>2 DEF signal_thread_func
<1>3. CASE Tick
  BY <1>3 DEF Tick
<1>4. CASE main_boot \/ start_wire \/ udp_receiver_start \/ start_play \/
       start_decoder \/ start_threads
  BY <1>4 DEF main_boot, start_wire, udp_receiver_start, start_play,
      start_decoder, start_threads, Goto, Call, FailTo, NoPipeline, NoReceiver
<1>5. CASE enable_new \/ enable_publish \/ enable_free_extra \/
       pipeline_disable_recording \/ disable_free
  BY <1>5 DEF enable_new, enable_publish, enable_free_extra,
      pipeline_disable_recording, disable_free, Goto, FreeFresh, TakeRecorder
<1>6. CASE main_poll \/ main_start_record \/ main_stop_record \/ main_restart
       \/ pipeline_poll_child \/ child_join_bus
  BY <1>6 DEF main_poll, main_start_record, main_stop_record, main_restart,
      pipeline_poll_child, child_join_bus, Goto, Call
<1>7. CASE main_spawn_worker \/ main_joined \/ main_join_timeout \/
       main_kill_watcher \/ main_join_watcher
  BY <1>7 DEF main_spawn_worker, main_joined, main_join_timeout,
      main_kill_watcher, main_join_watcher, Call, Goto
<1>8. CASE pipeline_stop \/ stop_send_eos \/ stop_set_null \/
       udp_receiver_stop("stop_udp", "join_udp") \/ udp_receiver_join \/
       stop_appsink_thread("join_appsink", "join_bus") \/
       stop_bus_thread("join_bus", "clean_appsink")
  BY <1>8 DEF pipeline_stop, stop_send_eos, stop_set_null, udp_receiver_stop,
      udp_receiver_join, stop_appsink_thread, stop_bus_thread, Return, Step,
      JoinableReceiver, JoinableAppsink, JoinableBus
<1>9. CASE stop_appsink_thread("clean_appsink", "clean_bus") \/
       stop_bus_thread("clean_bus", "clean_udp") \/
       udp_receiver_stop("clean_udp", "clean_join_udp") \/
       udp_receiver_destroy \/ cleanup_gst \/ cleanup_decoder \/
       cleanup_recorder \/ cleanup_free
  BY <1>9 DEF stop_appsink_thread, stop_bus_thread, udp_receiver_stop,
      udp_receiver_destroy, cleanup_gst, cleanup_decoder, cleanup_recorder,
      cleanup_free, Step, JoinableAppsink, JoinableBus, JoinableReceiver,
      NoReceiver, TakeRecorder, FreeFresh, Return
<1>10. CASE Appsink
  BY <1>10 DEF Appsink, appsink_loop, appsink_pull, appsink_record,
      appsink_recorded, appsink_feed, appsink_eos
<1>11. CASE Bus
  BY <1>11 DEF Bus, bus_start, bus_timeout, bus_message, bus_end
<1>12. CASE Receiver
  BY <1>12 DEF Receiver, receiver_recv, receiver_push
<1>13. CASE gst_stream \/ gst_error
  BY <1>13 DEF gst_stream, gst_error
<1>14. CASE UNCHANGED vars
  BY <1>14 DEF vars
<1>. QED
  BY <1>1, <1>2, <1>3, <1>4, <1>5, <1>6, <1>7, <1>8, <1>9, <1>10, <1>11,
      <1>12, <1>13, <1>14 DEF Next, Watcher, MainStep, MainLocked, Procedure,
      Terminated

-----------------------------------------------------------------------------
(* The invariant.                                                          *)

\* The parsed, idle process satisfies the invariant: there is nothing yet.
LEMMA InitInv == Init => PipelineInv
<1> SUFFICES ASSUME Init PROVE PipelineInv
  OBVIOUS
<1> USE PipelineAssumption DEF Init
<1>1. TypeOK
  <2>1. flags \in Flags
    BY DEF Flags
  <2>2. ps \in PipelineState
    BY DEF PipelineState, NoPipeline
  <2>3. ur \in UdpReceiver
    BY NoReceiverTyped
  <2>. QED
    BY <2>1, <2>2, <2>3 DEF TypeOK, Starts
<1>2. ControlInv /\ BuildInv /\ ThreadsOutlived
  BY DEF ControlInv, BuildInv, ThreadsOutlived, Starting, Joined, Detached,
      Unreffed, Freed
<1>3. StateInv
  BY DEF StateInv, Clean, Starting, Looping, Down, StopSteps, CleanSteps,
      Joined, Detached, Unreffed, Freed, NoPipeline, NoReceiver
<1>4. LockInv /\ RecordersAccounted
  BY DEF LockInv, RecordersAccounted, NoPipeline
<1>5. SwitchInv /\ RequestInv
  BY DEF SwitchInv, RequestInv
<1>. QED
  BY <1>1, <1>2, <1>3, <1>4, <1>5 DEF PipelineInv

\* PipelineInv is preserved by every step of every thread.
LEMMA InvStep == PipelineInv /\ [Next]_vars => PipelineInv'
  BY TypeStep, ControlStep, StateStep, BuildStep, OutlivedStep, LockStep,
     AccountedStep, SwitchStep, RequestStep DEF PipelineInv

\* PipelineInv holds in every reachable state of main, its watcher and stop
\* worker, and the three pipeline threads.
THEOREM PipelineInvariant == Spec => []PipelineInv
<1>1. Init => PipelineInv
  BY InitInv
<1>2. PipelineInv /\ [Next]_vars => PipelineInv'
  BY InvStep
<1>. QED
  BY <1>1, <1>2, PTL DEF Spec

\* Every reachable state is well typed; in particular the receiver never has
\* more buffers out than its pool holds.
THEOREM PipelineTyped == Spec => []TypeOK
<1>1. PipelineInv => TypeOK
  BY DEF PipelineInv
<1>. QED
  BY <1>1, PipelineInvariant, PTL

\* cleanup_pipeline and udp_receiver_destroy free nothing a thread still uses,
\* whichever of stop, restart, bus error or failed start led to them.
THEOREM ThreadsAreOutlived == Spec => []ThreadsOutlived
<1>1. PipelineInv => ThreadsOutlived
  BY DEF PipelineInv
<1>. QED
  BY <1>1, PipelineInvariant, PTL

\* Every recorder is freed exactly once and never while the appsink thread
\* writes to it.
THEOREM RecordersFreedOnce == Spec => []RecordersAccounted
<1>1. PipelineInv => RecordersAccounted
  BY DEF PipelineInv
<1>. QED
  BY <1>1, PipelineInvariant, PTL

\* When main returns through the orderly path there is no thread, pipeline,
\* receiver, decoder or open recording left.
THEOREM ExitIsOrderly == Spec => []OrderlyExit
<1>1. PipelineInv => OrderlyExit
  <2> SUFFICES ASSUME PipelineInv, main = "exited"
               PROVE  Clean /\ open = {}
    BY DEF OrderlyExit, Clean
  <2>1. step = "idle"
    BY DEF PipelineInv, ControlInv
  <2>2. Clean
    BY <2>1 DEF PipelineInv, StateInv, Down, Starting, CleanSteps, Joined,
        Detached, Unreffed, Freed
  <2>3. ps.recorder = 0 /\ fresh = 0
    BY <2>1, <2>2 DEF PipelineInv, LockInv, Clean
  <2>4. {r.id : r \in open} = {}
    BY <2>3 DEF PipelineInv, RecordersAccounted
  <2>. QED
    BY <2>2, <2>4
<1>. QED
  BY <1>1, PipelineInvariant, PTL

\* Whenever main waits in poll, recording is on exactly when
\* cfg.record.enable says so, as long as video_recorder_new succeeds: when it
\* fails, main.c leaves the flag set and only logs.
THEOREM RecordingFollows ==
  ASSUME "recorder" \notin MayFail
  PROVE  Spec => []RecordingFollowsConfig
<1>1. PipelineInv => RecordingFollowsConfig
  BY DEF PipelineInv, SwitchInv, RecordingFollowsConfig
<1>. QED
  BY <1>1, PipelineInvariant, PTL

\* A recording request that was alone when the watcher received it is in
\* force whenever main waits in poll with no request pending.
THEOREM RequestsAreHonoured == Spec => []RequestHonoured
<1>1. PipelineInv => RequestHonoured
  BY DEF PipelineInv, TypeOK, RequestInv, RequestHonoured
<1>. QED
  BY <1>1, PipelineInvariant, PTL
=============================================================================
