------------------------------ MODULE Pipeline ------------------------------
(***************************************************************************)
(* The process around the decoder: main's loop and its signal watcher and  *)
(* stop worker (src/src/main.c), the pipeline's start, stop, cleanup and   *)
(* recorder switching with the appsink and bus threads                     *)
(* (src/src/pipeline.c), and the UDP receiver thread with its bounded      *)
(* buffer pool (src/src/udp_receiver.c).                                   *)
(*                                                                         *)
(* GStreamer, POSIX signals and GLib threads are external. The decoder is  *)
(* reduced to its life cycle: that video_decoder_stop and                  *)
(* video_decoder_feed return is the subject of module VideoDecoder.        *)
(***************************************************************************)
EXTENDS Integers

CONSTANTS
  Signals,     \* signals the environment may send
  MaxSignals,  \* bound: how many it sends
  MaxSeconds,  \* bound: wall-clock seconds that pass
  PoolMax,     \* buffers of the receiver's pool (32 in ensure_buffer_pool)
  MaxPackets,  \* bound: RTP packets in one life of the receiver
  MayFail,     \* set-up stages that may fail
  MayError,    \* may GStreamer post an ERROR message?
  BusFirst,    \* starts after which the bus thread runs before main goes on
  Flowing      \* pipeline states in which GStreamer consumes buffers

AllSignals == {"INT", "TERM", "HUP", "USR1", "USR2"}
Stages == {"card", "wire", "udp", "playing", "decoder", "recorder", "worker"}
Starts == {"boot", "restart"}

ASSUME PipelineAssumption ==
  /\ Signals \subseteq AllSignals
  /\ MaxSignals \in Nat
  /\ MaxSeconds \in Nat
  /\ PoolMax \in Nat \ {0}
  /\ MaxPackets \in Nat
  /\ MayFail \subseteq Stages
  /\ MayError \in BOOLEAN
  /\ BusFirst \subseteq Starts
  /\ Flowing \in SUBSET {"playing", "halted"}

VARIABLES
  pending,   \* signals pending for the process
  sent,      \* signals sent so far
  watcher,   \* signal_thread_func
  flags,     \* g_exit_flag, g_restart_flag, g_start_ and g_stop_record_flag
  main,      \* where main is
  step,      \* where the running pipeline_stop or cleanup_pipeline is
  ret,       \* where main goes on after the call it is in
  started,   \* the last pipeline_start: at boot or for a restart
  ps,        \* PipelineState
  appsink, bus, receiver,  \* the three threads; "none" is a NULL handle
  ur,        \* UdpReceiver
  record,    \* cfg.record.enable
  lock,      \* holder of ps->recorder_lock
  using,     \* recorder the appsink thread writes to
  fresh,     \* recorder in a local variable of the controlling thread
  open,      \* recorders not yet freed, each with the second of its file name
  created,   \* recorders created so far
  now,       \* the second recorder_timestamp_string would print
  lastRequest  \* last recording request, if no other was waiting (history)

signals == <<pending, sent, watcher, flags, lastRequest>>
control == <<main, step, ret, started>>
threads == <<appsink, bus, receiver>>
recording == <<record, lock, using, fresh, open, created, now>>
vars == <<signals, control, ps, threads, ur, recording>>

-----------------------------------------------------------------------------
Ended == {"exited", "aborted"}

NoPipeline ==
  [state |-> "STOPPED", pipeline |-> "none", stop_requested |-> FALSE,
   encountered_error |-> FALSE, bus_thread_running |-> FALSE,
   decoder |-> "null", recorder |-> 0]
NoReceiver == [alloc |-> FALSE, stop |-> FALSE, inFlight |-> 0, packets |-> 0]

\* The four flags of main.c, struct PipelineState and struct UdpReceiver,
\* each reduced to the fields that decide what a thread does next.
Flags == [exit : BOOLEAN, restart : BOOLEAN, start : BOOLEAN, stop : BOOLEAN]
PipelineState ==
  [state : {"STOPPED", "RUNNING", "STOPPING"},
   pipeline : {"none", "made", "playing", "eos", "halted", "null"},
   stop_requested : BOOLEAN, encountered_error : BOOLEAN,
   bus_thread_running : BOOLEAN,
   decoder : {"null", "alloc", "run"}, recorder : Nat]
UdpReceiver ==
  [alloc : BOOLEAN, stop : BOOLEAN, inFlight : 0..PoolMax, packets : Nat]

TypeOK ==
  /\ pending \subseteq AllSignals
  /\ sent \in 0..MaxSignals
  /\ watcher \in {"waiting", "ended"}
  /\ flags \in Flags
  /\ lastRequest \in {"none", "USR1", "USR2", "crossed"}
  /\ main \in {"boot", "start_wire", "start_udp", "start_play", "start_decoder",
               "start_threads", "enable", "publish", "free_extra", "poll",
               "start_record", "stop_record", "disable", "free_recorder",
               "restart", "poll_child", "join_bus", "call", "spawn_worker",
               "timedjoin", "kill_watcher", "join_watcher"} \cup Ended
  /\ step \in {"idle", "stop", "send_eos", "set_null", "stop_udp", "join_udp",
               "join_appsink", "join_bus", "clean_appsink", "clean_bus",
               "clean_udp", "clean_join_udp", "clean_gst", "clean_decoder",
               "clean_recorder", "clean_free"}
  /\ ret \in {"poll", "stop_record", "poll_child", "start_wire",
              "kill_watcher", "spawn_worker"}
  /\ started \in Starts
  /\ ps \in PipelineState
  /\ appsink \in {"none", "loop", "pull", "sample", "recording", "feed", "eos", "done"}
  /\ bus \in {"none", "starting", "loop", "ending", "done"}
  /\ receiver \in {"none", "recv", "acquire", "done"}
  /\ ur \in UdpReceiver
  /\ record \in BOOLEAN
  /\ lock \in {"free", "appsink"}
  /\ using \in Nat /\ fresh \in Nat /\ created \in Nat
  /\ open \subseteq [id : Nat, second : Nat]
  /\ now \in Nat

\* A process whose configuration has been parsed, with the signals blocked and
\* the watcher running.
Init ==
  /\ pending = {} /\ sent = 0 /\ watcher = "waiting"
  /\ flags = [exit |-> FALSE, restart |-> FALSE, start |-> FALSE, stop |-> FALSE]
  /\ lastRequest = "none"
  /\ main = "boot" /\ step = "idle" /\ ret = "poll" /\ started = "boot"
  /\ ps = NoPipeline
  /\ appsink = "none" /\ bus = "none" /\ receiver = "none"
  /\ ur = NoReceiver
  /\ record \in BOOLEAN
  /\ lock = "free" /\ using = 0 /\ fresh = 0 /\ open = {} /\ created = 0
  /\ now = 0

-----------------------------------------------------------------------------
(* Signals.                                                                *)

\* The environment: a standard signal that is already pending coalesces.
Send(sig) ==
  /\ main \notin Ended /\ sent < MaxSignals
  /\ sent' = sent + 1
  /\ pending' = pending \cup {sig}
  /\ UNCHANGED <<watcher, flags, lastRequest, control, ps, threads, ur, recording>>

\* One round of the watcher; it ends after SIGTERM. The record flags count,
\* but main only tests whether they are positive.
signal_thread_func(sig) ==
  /\ watcher = "waiting" /\ sig \in pending /\ main \notin Ended
  /\ pending' = pending \ {sig}
  /\ flags' = CASE sig \in {"INT", "TERM"} -> [flags EXCEPT !.exit = TRUE]
                [] sig = "HUP"             -> [flags EXCEPT !.restart = TRUE]
                [] sig = "USR1"            -> [flags EXCEPT !.start = TRUE]
                [] sig = "USR2"            -> [flags EXCEPT !.stop = TRUE]
  /\ lastRequest' = CASE sig \notin {"USR1", "USR2"} -> lastRequest
                      [] flags.start \/ flags.stop   -> "crossed"
                      [] OTHER                       -> sig
  /\ watcher' = IF sig = "TERM" THEN "ended" ELSE "waiting"
  /\ UNCHANGED <<sent, control, ps, threads, ur, recording>>

Tick ==
  /\ now < MaxSeconds /\ main \notin Ended
  /\ now' = now + 1
  /\ UNCHANGED <<signals, control, ps, threads, ur, record, lock, using, fresh,
                 open, created>>

-----------------------------------------------------------------------------
(* Call and return. A call of pipeline_stop or cleanup_pipeline runs in    *)
(* main itself ("call") or in the stop worker ("timedjoin").               *)

Goto(l) == main' = l /\ UNCHANGED <<step, ret, started>>
Call(s, r) == main' = "call" /\ step' = s /\ ret' = r /\ UNCHANGED started
Step(s) == step' = s /\ UNCHANGED <<main, ret, started>>

\* The callee's end. A pipeline_start that failed makes its caller set
\* g_exit_flag, and so does a pipeline that poll_child found stopped.
Return ==
  /\ step' = "idle"
  /\ main' = IF main = "call" THEN ret ELSE main
  /\ flags' = [flags EXCEPT !.exit = @ \/ (main = "call" /\ ret # "start_wire")]
  /\ UNCHANGED <<ret, started, pending, sent, watcher, lastRequest>>

-----------------------------------------------------------------------------
(* pipeline_start.                                                         *)

FailTo == IF started = "boot" THEN "kill_watcher" ELSE "poll_child"

\* main opens the card and sets the mode before the first pipeline_start.
main_boot ==
  /\ main = "boot"
  /\ \/ Goto("start_wire") /\ UNCHANGED flags
     \/ /\ "card" \in MayFail
        /\ Goto("kill_watcher")
        /\ flags' = [flags EXCEPT !.exit = TRUE]
  /\ UNCHANGED <<pending, sent, watcher, lastRequest, ps, threads, ur, recording>>

\* The fields are reset and the elements built and linked. On a failure the
\* new pipeline and receiver are still locals, which cleanup never sees.
start_wire ==
  /\ main = "start_wire"
  /\ ps.state = "STOPPED"
  /\ \/ /\ Goto("start_udp")
        /\ ps' = [NoPipeline EXCEPT !.pipeline = "made",
                                    !.decoder = ps.decoder, !.recorder = ps.recorder]
        /\ ur' = [NoReceiver EXCEPT !.alloc = TRUE]
     \/ /\ "wire" \in MayFail
        /\ Call("clean_appsink", FailTo)
        /\ ps' = [NoPipeline EXCEPT !.decoder = ps.decoder, !.recorder = ps.recorder]
        /\ ur' = NoReceiver
  /\ UNCHANGED <<signals, threads, recording>>

udp_receiver_start ==
  /\ main = "start_udp"
  /\ \/ Goto("start_play") /\ receiver' = "recv"
     \/ "udp" \in MayFail /\ Call("clean_appsink", FailTo) /\ UNCHANGED receiver
  /\ UNCHANGED <<signals, ps, appsink, bus, ur, recording>>

start_play ==
  /\ main = "start_play"
  /\ \/ Goto("start_decoder") /\ ps' = [ps EXCEPT !.pipeline = "playing"]
     \/ "playing" \in MayFail /\ Call("clean_appsink", FailTo) /\ UNCHANGED ps
  /\ UNCHANGED <<signals, threads, ur, recording>>

\* video_decoder_new, _init and _start; _init may fail.
start_decoder ==
  /\ main = "start_decoder"
  /\ \/ Goto("start_threads") /\ ps' = [ps EXCEPT !.decoder = "run"]
     \/ /\ "decoder" \in MayFail
        /\ Call("clean_appsink", FailTo)
        /\ ps' = [ps EXCEPT !.decoder = "alloc"]
  /\ UNCHANGED <<signals, threads, ur, recording>>

\* Mutant: a restart does not resume recording.
Mutant_restart_forgets_recorder ==
  /\ main = "start_threads"
  /\ appsink' = "loop" /\ bus' = "starting"
  /\ ps' = [ps EXCEPT !.state = "RUNNING"]
  /\ Goto(IF started = "boot" THEN "poll" ELSE "poll_child")
  /\ UNCHANGED <<signals, receiver, ur, recording>>

\* The two threads are created, the state is set, and the caller goes on to
\* the recorder or to its loop.
start_threads ==
  /\ main = "start_threads"
  /\ appsink' = "loop" /\ bus' = "starting"
  /\ ps' = [ps EXCEPT !.state = "RUNNING"]
  /\ LET after == IF started = "boot" THEN "poll" ELSE "poll_child"
     IN /\ main' = IF record THEN "enable" ELSE after
        /\ ret' = after
  /\ UNCHANGED <<step, started, signals, receiver, ur, recording>>

-----------------------------------------------------------------------------
(* pipeline_enable_recording and pipeline_disable_recording.               *)

\* video_recorder_new opens (and truncates) the file named after the current
\* second before anyone looks at ps->recorder.
enable_new ==
  /\ main = "enable"
  /\ \/ /\ Goto("publish")
        /\ created' = created + 1
        /\ fresh' = created'
        /\ open' = open \cup {[id |-> created', second |-> now]}
     \/ "recorder" \in MayFail /\ Goto(ret) /\ UNCHANGED <<created, fresh, open>>
  /\ UNCHANGED <<signals, ps, threads, ur, record, lock, using, now>>

enable_publish ==
  /\ main = "publish"
  /\ lock = "free"
  /\ IF ps.recorder # 0
     THEN Goto("free_extra") /\ UNCHANGED <<ps, fresh>>
     ELSE Goto(ret) /\ ps' = [ps EXCEPT !.recorder = fresh] /\ fresh' = 0
  /\ UNCHANGED <<signals, threads, ur, record, lock, using, open, created, now>>

\* video_recorder_free on the local recorder.
FreeFresh ==
  /\ open' = {r \in open : r.id # fresh}
  /\ fresh' = 0
  /\ UNCHANGED <<record, lock, using, created, now>>

\* Under recorder_lock, the recorder moves from ps to a local variable.
TakeRecorder ==
  /\ lock = "free"
  /\ fresh' = ps.recorder
  /\ ps' = [ps EXCEPT !.recorder = 0]
  /\ UNCHANGED <<record, lock, using, open, created, now>>

enable_free_extra ==
  /\ main = "free_extra"
  /\ FreeFresh /\ Goto(ret)
  /\ UNCHANGED <<signals, ps, threads, ur>>

pipeline_disable_recording ==
  /\ main = "disable"
  /\ TakeRecorder /\ Goto("free_recorder")
  /\ UNCHANGED <<signals, threads, ur>>

disable_free ==
  /\ main = "free_recorder"
  /\ FreeFresh /\ Goto("restart")
  /\ UNCHANGED <<signals, ps, threads, ur>>

-----------------------------------------------------------------------------
(* The loop of main. Each test of a flag is a step of its own.             *)

main_poll ==
  /\ main = "poll"
  /\ Goto(IF flags.exit THEN "spawn_worker" ELSE "start_record")
  /\ UNCHANGED <<signals, ps, threads, ur, recording>>

main_start_record ==
  /\ main = "start_record"
  /\ flags' = [flags EXCEPT !.start = FALSE]
  /\ record' = (record \/ flags.start)
  /\ main' = IF flags.start /\ ps.state = "RUNNING" THEN "enable" ELSE "stop_record"
  /\ ret' = "stop_record"
  /\ UNCHANGED <<step, started, pending, sent, watcher, lastRequest, ps, threads,
                 ur, lock, using, fresh, open, created, now>>

\* Mutant: both record flags are cleared after the second test.
Mutant_flags_cleared_late ==
  /\ main = "stop_record"
  /\ flags' = [flags EXCEPT !.start = FALSE, !.stop = FALSE]
  /\ record' = (record /\ ~flags.stop)
  /\ Goto(IF flags.stop /\ ps.state = "RUNNING" THEN "disable" ELSE "restart")
  /\ UNCHANGED <<pending, sent, watcher, lastRequest, ps, threads,
                 ur, lock, using, fresh, open, created, now>>

main_stop_record ==
  /\ main = "stop_record"
  /\ flags' = [flags EXCEPT !.stop = FALSE]
  /\ record' = (record /\ ~flags.stop)
  /\ Goto(IF flags.stop /\ ps.state = "RUNNING" THEN "disable" ELSE "restart")
  /\ UNCHANGED <<pending, sent, watcher, lastRequest, ps, threads,
                 ur, lock, using, fresh, open, created, now>>

main_restart ==
  /\ main = "restart"
  /\ flags' = [flags EXCEPT !.restart = FALSE]
  /\ IF flags.restart
     THEN main' = "call" /\ step' = "stop" /\ ret' = "start_wire" /\ started' = "restart"
     ELSE Goto("poll_child")
  /\ UNCHANGED <<pending, sent, watcher, lastRequest, ps, threads, ur, recording>>

\* pipeline_poll_child and main's test of ps.state. The bus thread sets
\* bus_thread_running itself, some time after it was created; BusFirst names
\* the starts after which it is taken to be scheduled before main gets here.
pipeline_poll_child ==
  /\ main = "poll_child"
  /\ ~(bus = "starting" /\ started \in BusFirst)
  /\ \/ /\ bus # "none" /\ ~ps.bus_thread_running
        /\ Goto("join_bus") /\ UNCHANGED flags
     \/ /\ bus = "none" \/ ps.bus_thread_running
        /\ Goto(IF ps.state = "STOPPED" THEN "spawn_worker" ELSE "poll")
        /\ flags' = [flags EXCEPT !.exit = @ \/ ps.state = "STOPPED"]
  /\ UNCHANGED <<pending, sent, watcher, lastRequest, ps, threads, ur, recording>>

child_join_bus ==
  /\ main = "join_bus"
  /\ bus = "done"
  /\ bus' = "none"
  /\ Call("clean_appsink", "spawn_worker")
  /\ UNCHANGED <<signals, ps, appsink, receiver, ur, recording>>

\* Without a worker thread main calls pipeline_stop itself.
main_spawn_worker ==
  /\ main = "spawn_worker"
  /\ \/ main' = "timedjoin" /\ step' = "stop" /\ UNCHANGED <<ret, started>>
     \/ "worker" \in MayFail /\ Call("stop", "kill_watcher")
  /\ UNCHANGED <<signals, ps, threads, ur, recording>>

\* pthread_timedjoin_np: the worker is done, or five seconds have passed.
main_joined ==
  /\ main = "timedjoin" /\ step = "idle"
  /\ Goto("kill_watcher")
  /\ UNCHANGED <<signals, ps, threads, ur, recording>>

main_join_timeout ==
  /\ main = "timedjoin" /\ step # "idle"
  /\ Goto("aborted")
  /\ UNCHANGED <<signals, ps, threads, ur, recording>>

\* Mutant: the watcher is joined without a SIGTERM to end it.
Mutant_watcher_not_killed ==
  /\ main = "kill_watcher"
  /\ Goto("join_watcher")
  /\ UNCHANGED <<signals, ps, threads, ur, recording>>

main_kill_watcher ==
  /\ main = "kill_watcher"
  /\ flags' = [flags EXCEPT !.exit = TRUE]
  /\ pending' = pending \cup {"TERM"}
  /\ Goto("join_watcher")
  /\ UNCHANGED <<sent, watcher, lastRequest, ps, threads, ur, recording>>

main_join_watcher ==
  /\ main = "join_watcher" /\ watcher = "ended"
  /\ Goto("exited")
  /\ UNCHANGED <<signals, ps, threads, ur, recording>>

-----------------------------------------------------------------------------
(* pipeline_stop and cleanup_pipeline. A join returns at once on a NULL    *)
(* handle. stop_bus_thread's timed wait always ends in a join.             *)

Alive == main \notin Ended
JoinableAppsink == appsink \in {"none", "done"}
JoinableBus == bus \in {"none", "done"}
JoinableReceiver == receiver \in {"none", "done"}

\* Mutant: the threads are not asked to stop.
Mutant_stop_not_requested ==
  /\ step = "stop" /\ Alive
  /\ IF ps.state = "STOPPED"
     THEN Return /\ UNCHANGED ps
     ELSE /\ Step("send_eos")
          /\ ps' = [ps EXCEPT !.state = "STOPPING"]
          /\ UNCHANGED signals
  /\ UNCHANGED <<threads, ur, recording>>

pipeline_stop ==
  /\ step = "stop" /\ Alive
  /\ IF ps.state = "STOPPED"
     THEN Return /\ UNCHANGED ps
     ELSE /\ Step("send_eos")
          /\ ps' = [ps EXCEPT !.state = "STOPPING", !.stop_requested = TRUE]
          /\ UNCHANGED signals
  /\ UNCHANGED <<threads, ur, recording>>

stop_send_eos ==
  /\ step = "send_eos" /\ Alive
  /\ Step("set_null")
  /\ ps' = [ps EXCEPT !.pipeline = IF @ = "playing" THEN "eos" ELSE @]
  /\ UNCHANGED <<signals, threads, ur, recording>>

\* Going to NULL flushes appsrc: its buffers return to the receiver's pool.
stop_set_null ==
  /\ step = "set_null" /\ Alive
  /\ Step("stop_udp")
  /\ ps' = [ps EXCEPT !.pipeline = "null"]
  /\ ur' = [ur EXCEPT !.inFlight = 0]
  /\ UNCHANGED <<signals, threads, recording>>

\* udp_receiver_stop: ask, then join and close the socket. The receiver's
\* running flag tells whether its thread was ever created.
udp_receiver_stop(at, next) ==
  /\ step = at /\ Alive
  /\ Step(next)
  /\ ur' = [ur EXCEPT !.stop = receiver # "none"]
  /\ UNCHANGED <<signals, ps, threads, recording>>

udp_receiver_join ==
  /\ step = "join_udp" /\ Alive
  /\ JoinableReceiver
  /\ Step("join_appsink")
  /\ receiver' = "none"
  /\ ur' = [ur EXCEPT !.stop = FALSE]
  /\ UNCHANGED <<signals, ps, appsink, bus, recording>>

\* Mutant: the appsink thread is not waited for.
Mutant_appsink_not_joined(at, next) ==
  /\ step = at /\ Alive
  /\ Step(next)
  /\ UNCHANGED <<signals, ps, threads, ur, recording>>

stop_appsink_thread(at, next) ==
  /\ step = at /\ Alive
  /\ JoinableAppsink
  /\ Step(next)
  /\ appsink' = "none"
  /\ UNCHANGED <<signals, ps, bus, receiver, ur, recording>>

\* Mutant: the bus thread is not waited for.
Mutant_bus_not_joined(at, next) ==
  /\ step = at /\ Alive
  /\ Step(next)
  /\ UNCHANGED <<signals, ps, threads, ur, recording>>

stop_bus_thread(at, next) ==
  /\ step = at /\ Alive
  /\ JoinableBus
  /\ Step(next)
  /\ bus' = "none"
  /\ UNCHANGED <<signals, ps, appsink, receiver, ur, recording>>

\* The rest of udp_receiver_destroy.
udp_receiver_destroy ==
  /\ step = "clean_join_udp" /\ Alive
  /\ JoinableReceiver
  /\ Step("clean_gst")
  /\ receiver' = "none"
  /\ ur' = NoReceiver
  /\ UNCHANGED <<signals, ps, appsink, bus, recording>>

cleanup_gst ==
  /\ step = "clean_gst" /\ Alive
  /\ Step("clean_decoder")
  /\ ps' = [ps EXCEPT !.pipeline = "none"]
  /\ UNCHANGED <<signals, threads, ur, recording>>

cleanup_decoder ==
  /\ step = "clean_decoder" /\ Alive
  /\ Step("clean_recorder")
  /\ ps' = [ps EXCEPT !.decoder = "null"]
  /\ UNCHANGED <<signals, threads, ur, recording>>

cleanup_recorder ==
  /\ step = "clean_recorder" /\ Alive
  /\ TakeRecorder
  /\ Step("clean_free")
  /\ UNCHANGED <<signals, threads, ur>>

\* Mutant: the state is not reset at the end of the cleanup.
Mutant_cleanup_keeps_state ==
  /\ step = "clean_free" /\ Alive
  /\ FreeFresh
  /\ Return
  /\ UNCHANGED <<ps, threads, ur>>

cleanup_free ==
  /\ step = "clean_free" /\ Alive
  /\ FreeFresh
  /\ Return
  /\ ps' = [ps EXCEPT !.state = "STOPPED"]
  /\ UNCHANGED <<threads, ur>>

Procedure ==
  \/ pipeline_stop \/ stop_send_eos \/ stop_set_null
  \/ udp_receiver_stop("stop_udp", "join_udp") \/ udp_receiver_join
  \/ stop_appsink_thread("join_appsink", "join_bus")
  \/ stop_bus_thread("join_bus", "clean_appsink")
  \/ stop_appsink_thread("clean_appsink", "clean_bus")
  \/ stop_bus_thread("clean_bus", "clean_udp")
  \/ udp_receiver_stop("clean_udp", "clean_join_udp") \/ udp_receiver_destroy
  \/ cleanup_gst \/ cleanup_decoder \/ cleanup_free

-----------------------------------------------------------------------------
(* The appsink thread.                                                     *)

appsink_loop ==
  /\ appsink = "loop" /\ Alive
  /\ appsink' = IF ps.stop_requested \/ ps.decoder # "run" THEN "eos" ELSE "pull"
  /\ UNCHANGED <<signals, control, ps, bus, receiver, ur, recording>>

\* try_pull_sample returns a sample or, after 100 ms, nothing. A sample that
\* is empty, too large or cannot be mapped is passed over.
appsink_pull ==
  /\ appsink = "pull" /\ Alive
  /\ \/ appsink' = "loop"
     \/ ps.pipeline \in {"playing", "eos"} /\ appsink' = "sample"
  /\ UNCHANGED <<signals, control, ps, bus, receiver, ur, recording>>

\* Mutant: the sample is written without recorder_lock.
Mutant_record_unlocked ==
  /\ appsink = "sample" /\ Alive
  /\ using' = ps.recorder
  /\ appsink' = IF ps.recorder # 0 THEN "recording" ELSE "feed"
  /\ UNCHANGED <<signals, control, ps, bus, receiver, ur, record, lock, fresh,
                 open, created, now>>

appsink_record ==
  /\ appsink = "sample" /\ Alive
  /\ lock = "free"
  /\ using' = ps.recorder
  /\ IF ps.recorder # 0
     THEN appsink' = "recording" /\ lock' = "appsink"
     ELSE appsink' = "feed" /\ UNCHANGED lock
  /\ UNCHANGED <<signals, control, ps, bus, receiver, ur, record, fresh, open,
                 created, now>>

\* video_recorder_handle_sample has returned.
appsink_recorded ==
  /\ appsink = "recording" /\ Alive
  /\ appsink' = "feed" /\ lock' = "free" /\ using' = 0
  /\ UNCHANGED <<signals, control, ps, bus, receiver, ur, record, fresh, open,
                 created, now>>

appsink_feed ==
  /\ appsink = "feed" /\ Alive
  /\ appsink' = "loop"
  /\ UNCHANGED <<signals, control, ps, bus, receiver, ur, recording>>

appsink_eos ==
  /\ appsink = "eos" /\ Alive
  /\ appsink' = "done"
  /\ UNCHANGED <<signals, control, ps, bus, receiver, ur, recording>>

-----------------------------------------------------------------------------
(* The bus thread.                                                         *)

bus_start ==
  /\ bus = "starting" /\ Alive
  /\ bus' = "loop"
  /\ ps' = [ps EXCEPT !.bus_thread_running = TRUE]
  /\ UNCHANGED <<signals, control, appsink, receiver, ur, recording>>

\* gst_bus_timed_pop found nothing.
bus_timeout ==
  /\ bus = "loop" /\ Alive
  /\ ps.stop_requested
  /\ bus' = "ending"
  /\ UNCHANGED <<signals, control, ps, appsink, receiver, ur, recording>>

\* An ERROR message, from a pipeline that has halted, or the EOS that
\* pipeline_stop sent, before set_state(NULL) flushes the bus.
bus_message ==
  /\ bus = "loop" /\ Alive
  /\ ps.pipeline \in {"halted", "eos"}
  /\ bus' = "ending"
  /\ ps' = [ps EXCEPT !.stop_requested = TRUE,
                      !.encountered_error = @ \/ ps.pipeline = "halted"]
  /\ UNCHANGED <<signals, control, appsink, receiver, ur, recording>>

\* Mutant: the bus thread ends without clearing bus_thread_running.
Mutant_bus_stays_running ==
  /\ bus = "ending" /\ Alive
  /\ bus' = "done"
  /\ UNCHANGED <<signals, control, ps, appsink, receiver, ur, recording>>

bus_end ==
  /\ bus = "ending" /\ Alive
  /\ bus' = "done"
  /\ ps' = [ps EXCEPT !.bus_thread_running = FALSE]
  /\ UNCHANGED <<signals, control, appsink, receiver, ur, recording>>

-----------------------------------------------------------------------------
(* The receiver thread and the GStreamer streaming threads.                *)

receiver_recv ==
  /\ receiver = "recv" /\ Alive
  /\ \/ ur.stop /\ receiver' = "done" /\ UNCHANGED ur
     \/ /\ ~ur.stop /\ ur.packets < MaxPackets
        /\ receiver' = "acquire"
        /\ ur' = [ur EXCEPT !.packets = @ + 1]
  /\ UNCHANGED <<signals, control, ps, appsink, bus, recording>>

\* Mutant: the pool hands out more buffers than it has.
Mutant_pool_unbounded ==
  /\ receiver = "acquire" /\ Alive
  /\ receiver' = "recv"
  /\ ur' = [ur EXCEPT !.inFlight = @ + 1]
  /\ UNCHANGED <<signals, control, ps, appsink, bus, recording>>

\* gst_buffer_pool_acquire_buffer blocks while the pool is exhausted. The
\* buffer then waits in appsrc, or is dropped at once when appsrc is flushing.
receiver_push ==
  /\ receiver = "acquire" /\ Alive
  /\ ur.inFlight < PoolMax
  /\ receiver' = "recv"
  /\ ur' = [ur EXCEPT !.inFlight = IF ps.pipeline = "null" THEN @ ELSE @ + 1]
  /\ UNCHANGED <<signals, control, ps, appsink, bus, recording>>

\* A streaming thread consumes a buffer, which returns to the pool. Without
\* "halted" in Flowing, an error keeps the buffers that are queued.
gst_stream ==
  /\ ps.pipeline \in Flowing /\ ur.inFlight > 0 /\ Alive
  /\ ur' = [ur EXCEPT !.inFlight = @ - 1]
  /\ UNCHANGED <<signals, control, ps, threads, recording>>

\* An element fails: streaming halts and an ERROR message is posted.
gst_error ==
  /\ MayError /\ ps.pipeline = "playing" /\ Alive
  /\ ps' = [ps EXCEPT !.pipeline = "halted"]
  /\ UNCHANGED <<signals, control, threads, ur, recording>>

-----------------------------------------------------------------------------
MainStep ==
  \/ main_boot \/ start_wire \/ udp_receiver_start \/ start_play
  \/ start_decoder \/ start_threads
  \/ enable_new \/ enable_free_extra \/ disable_free
  \/ main_poll \/ main_start_record \/ main_stop_record \/ main_restart
  \/ pipeline_poll_child \/ child_join_bus
  \/ main_spawn_worker \/ main_joined \/ main_kill_watcher \/ main_join_watcher
MainLocked == enable_publish \/ pipeline_disable_recording \/ cleanup_recorder
Appsink == appsink_loop \/ appsink_pull \/ appsink_record \/ appsink_recorded
           \/ appsink_feed \/ appsink_eos
Watcher == \E sig \in AllSignals : signal_thread_func(sig)
Bus == bus_start \/ bus_timeout \/ bus_message \/ bus_end
Receiver == receiver_recv \/ receiver_push

Terminated == main \in Ended /\ UNCHANGED vars

Next ==
  \/ \E sig \in Signals : Send(sig)
  \/ Watcher
  \/ Tick
  \/ MainStep \/ MainLocked \/ main_join_timeout \/ Procedure
  \/ Appsink \/ Bus \/ Receiver
  \/ gst_stream \/ gst_error
  \/ Terminated

Spec == Init /\ [][Next]_vars

\* Every thread that can run does; all waits but the joins, the mutex and
\* the pool have time limits. recorder_lock, which the appsink thread takes
\* again and again, is obtained by main in the end.
Fairness ==
  /\ WF_vars(Watcher) /\ WF_vars(MainStep) /\ SF_vars(MainLocked)
  /\ WF_vars(Procedure) /\ WF_vars(main_join_timeout)
  /\ WF_vars(Appsink) /\ WF_vars(Bus) /\ WF_vars(Receiver) /\ WF_vars(gst_stream)

FairSpec == Spec /\ Fairness

-----------------------------------------------------------------------------
(* Properties.                                                             *)

\* cleanup_pipeline and udp_receiver_destroy free nothing a thread still
\* uses: the appsink thread's pipeline and decoder, the pipeline whose bus
\* the bus thread is about to take, and the receiver outlive the threads, on
\* every path (stop, restart, bus error, failed start).
ThreadsOutlived ==
  /\ appsink \notin {"none", "done"} => ps.pipeline # "none" /\ ps.decoder = "run"
  /\ bus = "starting" => ps.pipeline # "none"
  /\ receiver \notin {"none", "done"} => ur.alloc

\* A recorder is freed (and its MP4 finalised) exactly once and never while
\* the appsink thread writes to it: what is open is what ps->recorder or the
\* controlling thread's local variable still refers to.
RecordersAccounted ==
  /\ {r.id : r \in open} = {ps.recorder, fresh} \ {0}
  /\ ps.recorder # 0 => ps.recorder # fresh
  /\ using # 0 => using = ps.recorder

\* Whenever main waits in poll, recording is on exactly when
\* cfg.record.enable says so: a restart that SIGHUP caused resumes it, and
\* SIGUSR1 and SIGUSR2 take effect whatever the appsink thread is doing.
RecordingFollowsConfig ==
  main = "poll" => (ps.recorder # 0) = record

\* main returns from an orderly shutdown only when nothing is left behind:
\* no thread, no pipeline, receiver or decoder, and no open recording.
OrderlyExit ==
  main = "exited" =>
    /\ appsink = "none" /\ bus = "none" /\ receiver = "none"
    /\ ps.pipeline = "none" /\ ps.decoder = "null" /\ ~ur.alloc
    /\ open = {}

\* SIGINT and SIGTERM end the process, if need be through _exit.
ExitHonoured == pending \cap {"INT", "TERM"} # {} ~> main \in Ended

\* A pipeline that reported an error is torn down: the process ends, or a
\* restart has put a new pipeline in its place.
ErrorHandled ==
  ps.encountered_error ~> main \in Ended \/ (started = "restart" /\ ~ps.encountered_error)

\* A SIGHUP the watcher received leads to a running pipeline again, or the
\* process ends.
RestartServed ==
  flags.restart ~> main \in Ended
                   \/ (started = "restart" /\ main = "poll" /\ ps.state = "RUNNING")

\* A recording request the watcher receives at any point of main's loop is
\* carried out and stays in force, over restarts too, when no other request
\* was waiting. (Of two that wait together main serves SIGUSR1 first.)
RequestHonoured ==
  main = "poll" /\ ~flags.start /\ ~flags.stop /\ lastRequest \in {"USR1", "USR2"}
    => record = (lastRequest = "USR1")

\* A recording that is in progress never has its file opened a second time.
OutputExclusive ==
  \A r, q \in open : r.second = q.second => r = q
-----------------------------------------------------------------------------
(* The inductive invariant behind the safety invariants.                   *)

\* Locations of main inside pipeline_start and in its loop, and the steps of
\* pipeline_stop proper and of cleanup_pipeline.
Starting == {"start_udp", "start_play", "start_decoder", "start_threads"}
Looping == {"enable", "publish", "free_extra", "poll", "start_record",
            "stop_record", "disable", "free_recorder", "restart"}
Down == {"boot", "start_wire", "kill_watcher", "join_watcher", "exited"}
StopSteps == {"send_eos", "set_null", "stop_udp", "join_udp", "join_appsink",
              "join_bus"}
Freed == {"clean_recorder", "clean_free"}
Unreffed == {"clean_decoder"} \cup Freed
Detached == {"clean_gst"} \cup Unreffed
Joined == {"clean_udp", "clean_join_udp"} \cup Detached
CleanSteps == {"clean_appsink", "clean_bus"} \cup Joined

\* What cleanup_pipeline leaves: nothing.
Clean ==
  /\ appsink = "none" /\ bus = "none" /\ receiver = "none"
  /\ ps.pipeline = "none" /\ ps.decoder = "null" /\ ps.recorder = 0
  /\ ~ur.alloc

\* A procedure runs exactly while main waits for it, and returns to where a
\* caller of it goes on.
ControlInv ==
  /\ step # "idle" => main \in {"call", "timedjoin", "aborted"}
  /\ main = "call" => /\ step # "idle"
                      /\ ret \in {"start_wire", "poll_child", "spawn_worker",
                                  "kill_watcher"}
  /\ main \in {"enable", "publish", "free_extra"}
       => ret \in {"poll", "poll_child", "stop_record"}

\* ps->state tells main what there is to tear down.
StateInv ==
  /\ ps.state = "STOPPING" => step \in StopSteps \cup CleanSteps
  /\ step \in StopSteps => ps.state = "STOPPING"
  /\ main \in Looping => ps.state = "RUNNING"
  /\ main \in Starting \cup Down => ps.state = "STOPPED"
  /\ main = "timedjoin" /\ step = "idle" => ps.state = "STOPPED"
  /\ ps.state = "STOPPED" /\ main \notin Starting /\ step \notin CleanSteps
       => Clean

\* What exists while pipeline_start builds, and what is gone while
\* cleanup_pipeline takes it down again.
BuildInv ==
  /\ main \in Starting => /\ appsink = "none" /\ bus = "none"
                          /\ ps.pipeline # "none" /\ ps.recorder = 0
                          /\ ur.alloc
  /\ main = "start_threads" => ps.decoder = "run"
  /\ step \in {"clean_bus"} \cup Joined => appsink = "none"
  /\ step \in Joined => bus = "none"
  /\ step \in Detached => receiver = "none" /\ ~ur.alloc
  /\ step \in Unreffed => ps.pipeline = "none"
  /\ step \in Freed => ps.decoder = "null"
  /\ step = "clean_free" => ps.recorder = 0

\* recorder_lock is held exactly while the appsink thread writes, and a
\* recorder is in a local variable only between its taking and its freeing.
LockInv ==
  /\ lock = "appsink" <=> appsink = "recording"
  /\ using # 0 => lock = "appsink"
  /\ fresh # 0 => main \in {"publish", "free_extra", "free_recorder"}
                  \/ step = "clean_free"
  /\ main = "publish" => fresh # 0
  /\ ps.recorder <= created /\ fresh <= created

\* Unless video_recorder_new may fail, recording agrees with
\* cfg.record.enable wherever no switch is under way.
SwitchInv ==
  "recorder" \notin MayFail =>
    /\ main \in {"poll", "start_record", "stop_record", "restart"}
         => (ps.recorder # 0) = record
    /\ main = "poll_child" /\ ps.state = "RUNNING" => (ps.recorder # 0) = record
    /\ main \in {"enable", "publish", "free_extra"} => record
    /\ main = "free_extra" => ps.recorder # 0
    /\ main \in {"disable", "free_recorder"} => ~record
    /\ main = "free_recorder" => ps.recorder = 0

\* The last request of its own is waiting, or carried out.
RequestInv ==
  /\ lastRequest = "USR1" => ~flags.stop /\ (flags.start \/ record)
  /\ lastRequest = "USR2" => ~flags.start /\ (flags.stop \/ ~record)

\* Preserved by every step of main, of the stop worker and of the watcher,
\* appsink, bus and receiver threads.
PipelineInv ==
  /\ TypeOK /\ ControlInv /\ StateInv /\ BuildInv /\ ThreadsOutlived
  /\ LockInv /\ RecordersAccounted /\ SwitchInv /\ RequestInv
=============================================================================
