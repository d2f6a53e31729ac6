# A TLA+ model of pixelpilot_stripped_rk

The program receives an RTP/H.265 stream over UDP, decodes it with the Rockchip
MPP library and shows it on a DRM plane; on request it also records the stream
to MP4. This directory models the parts in which its threads, signals and
failures meet, checks them with TLC on small instances and proves the invariants
with TLAPS for every value of the constants. Module `M_proofs` holds the
theorems about module `M`; each run also checks the inductive invariant they use.

Source references are to `src/src/*.c` unless stated otherwise.

## Inventory

| Component | State | Operations | Module |
|---|---|---|---|
| Video decoder, `video_decoder.c` | `running`, `pending_fb`, `frame_map`, buffer group, MPP context, mutex and condition, two threads | init, start, feed, send_eos, stop, deinit, free; `frame_thread_func`, `display_thread_func`, `setup_external_buffers` | `VideoDecoder`, `LatestFrame`, `Plane` |
| Pipeline, `pipeline.c` | `PipelineState` | start, stop, cleanup, poll_child, enable and disable recording; appsink and bus threads | `Pipeline` |
| Main loop and signals, `main.c` | four flags, `cfg.record.enable` | signal watcher, poll loop, stop worker with a limit of 5 s | `Pipeline` |
| UDP receiver, `udp_receiver.c` | `stop_requested`, thread, buffer pool of at most 32 | create, start, stop, destroy; `receiver_thread` | `Pipeline` (life cycle, pool), `Startup` (payload filter) |
| Recorder, `video_recorder.c` | pending sample, durations, `failed` | new, handle_sample, flush, free | `VideoRecorder` |
| Single instance, `main.c:43-130` | the pid file | create, read, probe, unlink, remove at exit | `SingleInstance` |
| Mode set, `drm_modeset.c`, with `drm_fb.c` | the DRM device's objects while the call lasts | connector, mode and CRTC search, commit, error paths | `Modeset` |
| Background, `video_decoder.c:260-442` | `background_fb`, `background_plane_id` | set-up and teardown with each decoder | `Modeset` |
| Configuration, `config.c`, `config_ini.c` | `AppCfg` | command line and INI, in two passes | `Config` |
| `drm_props.c`, logging, `third_party/minimp4/minimp4.h` | none of their own | look-ups, output, third-party writer | not modelled |

How the parts interact:

- `main` parses the command line and the INI files, makes sure it is alone,
  sets the mode for the configured connector and plane, and starts the
  pipeline.
- `main` calls `pipeline_start`, which creates the receiver thread, the
  decoder with its frame and display threads, the appsink thread and the bus
  thread. `pipeline_stop` and `cleanup_pipeline` end them, from `main` or from
  a stop worker that `main` waits for at most five seconds.
- The receiver fills pool buffers and pushes them to GStreamer; the appsink
  thread takes access units, hands them to the recorder under `recorder_lock`
  and to `video_decoder_feed`.
- The frame thread hands decoded pictures to the display thread through
  `pending_fb`, under `vd->lock` with a condition variable.
- The signal watcher sets flags that `main` tests once per poll interval.

What is hard here, and what would make it right: threads must be joined before
what they use is freed, on every failure path; joins must end; a picture must
not be lost, shown twice or shown after its buffer is gone; recordings must
follow the requests, be finalised once and lose no sample; every buffer slot
must be released exactly as far as it was acquired; at most one instance runs;
the options must win over the files; the display set-up must find the output
there is and leave nothing behind when it fails; a picture must come out whole
and undistorted while its size changes.
`PROJECT.json` lists the hazards with their lines.

## Modules

### VideoDecoder and LatestFrame

`owner`, `feeder`, `frame` and `display` say where the four threads are. One
step is a stretch of code between two points at which another thread can
observe or disturb it: a mutex-protected block, one MPP or DRM call, one test
of `running`. `held` is the set of resources `video_decoder_init` acquires.
`frame_map` holds in each field the generation (number of rebuilds) that filled
it, `kernel` the objects the DRM device and the fd table hold; file descriptor 0
is one of them, because a zeroed `prime_fd` would close it. `mpp` is what the
code can observe of MPP: whether the input queue is full, whether end of stream
has been queued, and whether MPP halts until `MPP_DEC_SET_INFO_CHANGE_READY`.

Abstracted: pixel data, plane geometry and the plane's contents
(`commit_plane` only shows which picture was committed; the frame thread's own
commit at the end of `setup_external_buffers`, `setup_commit`, shows no
picture; `Plane` is about both), MPP tuning, the background plane (one optional
resource; its set-up is in `Modeset`). MPP is taken not to flag an info-change
frame as end of stream. A stale framebuffer id, published before an info
change, is not tracked further here; `Plane` follows it to the screen.

`LatestFrame` is the abstract hand-over: a mailbox of one picture, newer ones
replace older ones, each shown at most once and in order. `VideoDecoder` is
shown to implement it (`ImplementsLatestFrame`): `offered` is `pending` when it
names a framebuffer, `hand` is what the display thread has taken and not yet
committed, `last` counts decoded pictures.

### Plane

`commit_plane` computes where on the screen a picture goes. The frame thread
calls it with the size of a new buffer group; the display thread calls it with
0, 0, and it then reads `vd->src_w` and `vd->src_h`, which the frame thread
zeroes and sets without a lock. Each read and each write is a step, and
`src_w ? src_w : mode_w` may read the field twice. `plane` records the last
commit the kernel accepted: the size of the framebuffer, the source rectangle,
the destination, and whether the picture was of the current group. A removed
framebuffer's id is given out again to the same slot, so a picture that was
taken before an info change may meet the new group's framebuffer.

The quotients are doubles in the code. `Rounded` is the nearest integer, and on
a tie either neighbour, since the double may be a little short of the exact
quotient. The comparison of the aspects is taken as exact; where doubles cannot
tell two aspects apart both branches give the full mode.

### Config, Modeset and Startup

`Startup` composes the two in the order of `main`: `parse_step`s until
`parse_cli` has returned 0, `main_modeset`, then `display_step`s.

`Config` steps through `parse_cli`: `parser` says in which pass it is, `i` is
its index, and in the first pass a `--config` file is read line by line.
Tokens, keys and values are compared as a whole. A line is a section header, an
assignment or noise; comments, white space, letter case and the truncation of
strings to their buffers are left out. `Numbers` names the texts that `strtol`
accepts; the value is cast to an int of `IntMax`.

`Modeset` steps through `atomic_modeset_maxhz`: `c` and `m` are its loop
counters, `best` and `crtc` its locals, `held` what it has taken from libdrm and
the device. `FbOutcomes` lists the ways `create_argb_fb` can end. A board says
what the device has and for which ids it answers. After the mode set, decoders
come and go (`video_decoder_init`, `teardown_background`), each with an attempt
at a black background on the primary plane; `scanout` is what the planes show.

`payload_type_matches` of the receiver is in `Startup` because its argument is
`cfg.vid_pt`, an int that ends as a byte.

### Pipeline

`main` and `step` are program counters: `main` for the main thread, `step` for
the `pipeline_stop` or `cleanup_pipeline` in progress, which runs in `main`
(`main = "call"`) or in the stop worker (`main = "timedjoin"`). Each test of a
flag, each lock-protected block and each join is a step. `ps` and `ur` are the
fields of `PipelineState` and `UdpReceiver` that control depends on;
`ur.inFlight` counts pool buffers that GStreamer holds. `open` holds recorders
not yet freed, with the second their file name contains. The decoder is reduced
to its life cycle; that its operations return is the subject of `VideoDecoder`.

GStreamer is external: while playing it consumes buffers, it may post an ERROR
and then halts, it posts EOS after `pipeline_stop` sent it, and going to NULL
drops all queued buffers. Left out: the `bus == NULL` path of
`bus_thread_func`, thread creation failures inside `pipeline_start` (GLib
aborts), and `pipeline_get_recording_stats`, which nothing calls.

### VideoRecorder

The recorder holds back one access unit until the time stamp of the next one
gives its duration. Clock units, ticks, the 32-bit limit and the default are
constants, so that TLC can use small ones; `FpsDurations` holds the quotients
the caps' frame rate can give, 0 (a rate above 90000) among them. The minimp4
writer answers OK, BAD_ARGUMENTS (waits for parameter sets and a key frame) or
an error. `accepted`, `written` and `skipped` are history variables.

### SingleInstance

Several processes go through `ensure_single_instance`. `entry` is the file the
path names, identified by its creator, `written` the files that hold a pid,
`overlapped` a history variable that says whether a process has started while
another was still deciding. A process may die at any point, and the file system
may refuse. `foreign` holds the dead processes whose pid another program has by
now, which `kill(pid, 0)` cannot tell from an instance.

## Runs

| Run | Question | Result |
|---|---|---|
| decoder_safety | Is anything used after release, leaked or released twice? Is the hand-over a mailbox? | holds |
| decoder_live | Does a stop complete, does a pending picture get committed, if buffer set-up succeeds? | holds |
| decoder_stall | The same when buffer set-up may fail | violated: finding |
| plane | Is a current picture shown whole, and every picture letterboxed, whatever the threads read and write? | holds |
| pipeline_safety | Are threads outlived, recordings accounted for, requests carried out, exits orderly, on all failure paths? | holds |
| pipeline_live | Are exit requests, errors and restarts served, with an exhausted pool too? | holds |
| pipeline_hup | Is an exit request honoured after a restart, whatever the scheduler does? | violated: finding |
| pipeline_pool | Is an error handled with an exhausted pool? | violated: finding |
| pipeline_output | Is a request during a recording ignored? | violated: finding |
| instance_start | One at a time: one instance, leftovers harmless? Does everyone's start-up loop end? | holds |
| recorder | Order, completeness, durations, drift | holds |
| startup | Does the configuration follow the documented precedence, from the last option to the payload filter? Is the output the right one, is everything given back, is the background behind? | holds |

Bounds, and why they are enough:

- `decoder_safety`: 2 slots (each fails independently, so two show every
  mixture), a queue of 2, 3 pictures (one shown, one taken, one pending) and 2
  info changes (one replaces another). The decoder can be freed and created
  again without limit. `decoder_live` has one slot and a queue of one, where
  the feeder blocks most.
- `plane`: a mode of 16 by 9 and eight sizes (its own aspect, narrower, wider,
  two that round on a tie, two that would shrink to nothing, one larger than
  the mode), two slots, and three groups, so that a picture can be two groups
  old.
- `Pipeline`: 2 signals of any kind, which is what an exit during a restart or
  two recording requests take; a pool of 1 with 2 packets, so that the pool is
  exhausted; one clock tick.
- `SingleInstance`: 3 processes (a dead one with its leftovers or its pid in
  use again, and two that race).
- `VideoRecorder`: 4 samples with time stamps and durations from
  {none, 0, 1, 4, 12}, 9 ticks per 10 clock units and a maximum of 8: missing,
  equal and backward stamps, a distance that rounds to 0 and one beyond the
  maximum all occur.
- `startup`: all command lines of up to 3 arguments from 17 words, and longer
  ones put together from pairs with `--config` before or after them; two files
  that set most keys, in and out of sections, validly and not. Every list of
  three different modes of four (equal rates, equal areas, a rate computed from
  the clock), single ones and none, and boards with two connectors, two
  encoders, two CRTCs and two planes, some of which do not answer. Two
  decoders, since the second one meets what the first one left. `IntMax` is
  8191, above every default of `cfg_defaults`.

Deadlock is checked except where the system may stop: all processes ended
(`SingleInstance`), a closed recorder, a start-up that failed or is complete,
the last buffer group of `Plane`, and `pipeline_safety`, which admits the
schedules of `pipeline_hup` and `pipeline_pool` on which all threads wait.

Fairness: weak fairness for threads that can run, since the scheduler runs them
and every wait other than joins, the mutexes and the pool has a time limit
(100 ms in the appsink and bus threads, 200 ms in `recv`, 5 ms in
`decode_get_frame`); strong fairness for taking `recorder_lock`, which is never
held across a wait and so becomes free again and again; strong fairness for MPP
delivering output while it has input and is not halted, as a poll that times
out may happen in between. Never forced: new samples, packets, signals, errors
and stop requests.

`BusFirst` names the starts after which the bus thread is taken to run before
`main` reaches `pipeline_poll_child`. At boot `main` waits in `poll` for up to
200 ms first (unless standard input is hung up); after a SIGHUP restart nothing
makes it wait, and `pipeline_hup` shows what follows. `pipeline_live` sets
`BusFirst` to both, to show that nothing else stands in the way;
`pipeline_safety` assumes nothing.

`Flowing` names the pipeline states in which GStreamer consumes buffers. While
playing it does; once an element has failed, the buffers that are queued stay
queued, and `pipeline_pool` shows what follows. `pipeline_live` lets a failed
pipeline drain, again to show that nothing else stands in the way.

Findings are in `PROJECT.json` with the lines quoted. In short: a restart can
make `main` join a live bus thread for ever; a pipeline error with an exhausted
pool hangs the cleanup; a second start request in the same second truncates the
running recording; and a failed buffer set-up makes the stop hang in
`video_decoder_feed` (at a signal, `main`'s time limit then ends the process
through `_exit`; after a pipeline error or for a restart nothing does).

Points the model makes visible without a run of their own:

- Two instances that start at the same time can both run: the pid file exists
  before the pid is in it (`main.c:84`), and a second process that reads it in
  between gets -1, unlinks it and creates its own. Checking the definition
  `SingleInstance` in place of `SequentialInstance` shows the trace.
- A program that has the pid of a dead instance keeps every start out as long
  as it lives.
- A picture taken before an info change may be committed after it, with the new
  group's framebuffer and a size read in the middle of the change; it may then
  be cropped until the next one. `WholePicture` excludes it.
- A payload type beyond 127 selects other packets or none, and a number beyond
  an int may come out negative, which selects all (`FilterFollowsConfig` says
  for which values the option means what it says).
- An option's value that is spelled `--config` or `--help` is read differently
  by the two passes (`Unambiguous` excludes it).
- `README.md:35` of the repository calls `standard` the default recording mode;
  `config.c:62` sets `sequential`.
- The CRTC that the mode set falls back to may already serve another connector.
- Of two recording requests that wait together `main` serves SIGUSR1 first
  whatever their order, so SIGUSR2 followed by SIGUSR1 within one poll interval
  leaves recording off. `RequestHonoured` states what does hold, for requests
  that do not cross.

## Proofs

For every value of the constants, under the `ASSUME` of each module (positive
slot count and queue capacity, positive units, numbers that are integers, boards
that are well formed and answer for no encoder they do not have, and so on):

- `VideoDecoder_proofs`: `DecoderInvariant`, and from it `TypeCorrect`,
  `ThreadsKeepResources`, `KernelObjectsAccounted`, `CommitsAreLive` and
  `DecoderImplementsMailbox`. None of the three safety invariants is inductive. `ThreadInv` ties the owner's
  position to where threads can be: the joins make it true, and it gives
  `ThreadsOwnResources`. `GroupInv` says that an open group holds only objects
  of the current generation, so a fresh generation's objects are new.
  `PictureInv` says that a pending picture of the current generation has its
  framebuffer, which is what the display thread relies on when it takes it.
  The lemmas prove one conjunct each, with a step per action; two lemmas
  collect the actions that leave buffers and pictures alone. The refinement
  needs `MailboxInv`: the picture shown, the one in the display thread's hand
  and the pending one are in the order MPP delivered them. Four steps of the
  decoder are steps of `LatestFrame` (publish, take, commit, reset of a new
  decoder), the rest are stutters.
- `Pipeline_proofs`: `PipelineInvariant`, and from it `PipelineTyped`,
  `ThreadsAreOutlived`, `RecordersFreedOnce`, `ExitIsOrderly`,
  `RecordingFollows` and `RequestsAreHonoured`, for any signals, any pool and
  any set of stages that may fail. `PipelineInv` adds to those properties what
  the code leaves implicit: a procedure runs exactly while somebody waits for
  it (`ControlInv`), `ps->state` says what there is to tear down (`StateInv`),
  which objects exist at each stage of the start and are gone at each stage of
  the cleanup (`BuildInv`), who has `recorder_lock` and which recorder is only
  in a local variable (`LockInv`), where recording must agree with
  `cfg.record.enable` (`SwitchInv`), and that a request is waiting or carried
  out (`RequestInv`). `RecordingFollows` assumes that `video_recorder_new` does
  not fail: when it does, `main.c` only logs it and leaves the flag set.
- `Plane_proofs`: `PicturesFit`, that `TypeOK`, `PlaneInv`, `WholePicture` and
  `Letterboxed` hold for any mode, sizes, slots and groups. `WholePicture` says
  nothing about `src_w` and `src_h`; `PlaneInv` adds that between info changes
  they hold the current size whenever some slot has a framebuffer, that no
  picture of a group is pending or taken before they do, and that what the
  display thread has read is that size as long as its picture's group lives.
  `Letterboxed` rests on lemmas about `Rounded` (within half of the quotient,
  and never above a bound that the quotient stays below) and on `Half` for the
  margins; `LetterboxFramed` puts them together.
- `Startup_proofs`: `DisplaySetUp`, that `DisplayInv`, `ChosenOutput`,
  `DisplayObjects` and `BackgroundBehind` hold for any boards, any number of
  modes and any number of decoders. `Holding` lists what the call holds at each
  stage; `Search` says that no connector left behind is usable and that `best`
  beats the modes compared so far, for which `better_mode` must be a strict
  order (`ModeOrder`, on the rates of `Rates`); `BackgroundPlane` follows the
  background from its choice to the teardown. That `PickCrtc` finds a CRTC
  exactly for a usable connector needs that `First` exists, which comes from
  the well-foundedness of the naturals. `StartupTyped` adds the types.
- `Config_proofs` and, for the composition, `Startup_proofs`:
  `ParserInvariant`, `CommandLineWins` and `FilterAsConfigured`, for command
  lines and files of any length. `CliWins` speaks of the end of `parse_cli`;
  `ParseInv` says the same of every point before it, with the settings read so
  far in place of all settings (`ValuesInv`), that the index of the second pass
  is always at an option, and that of the first pass at an option or its value
  (`PositionInv`). The reference finds the options with the recursive function
  `OptionAt`. Its defining equation is a theorem here (`OptionAtEquation`): that
  such a function exists and is unique is proved from the absence of a least
  counterexample, in place of an induction rule. Each step of the parser then
  adds at most one setting, and the new one is the last (`GreatestBelow` for
  the maximum of a finite set of positions).
- `SingleInstance_proofs`: `SequentialStarts`, that as long as no starts have
  overlapped at most one process runs, by `InstanceInv`: a running process's
  file is in place and holds its pid, and a process that is about to unlink has
  established that nobody runs. Pids that are in use again only make the probe
  refuse more often. Once starts overlap the statement is false.
- `VideoRecorder_proofs`: `RecorderInvariant`, and from it `RecorderTyped`,
  `WrittenInOrder`, `SamplesAccounted`, `DurationsInRange` and `NoMediaDrift`,
  for streams of any length and any units. `OrderInv` adds that no sample
  number runs ahead of `handled`, without which the next sample could not be
  shown newer than those in the file, and `StartInv` that an empty file has no
  duration. `MediaTimeFollowsPts` is inductive once its hypothesis is a
  property of the file's entries (`RegularStream`): each emitted sample adds
  the rounded distance to its successor, which is less than one tick short.

Only model-checked: the liveness properties (`StopCompletes`, `PictureShown`,
`ExitHonoured`, `ErrorHandled`, `RestartServed`, `StaleFileHarmless`,
`Decided`), which need fairness and `ENABLED` and are out of the prover's
reach, and the four properties that the code violates.

## Not modelled

- MPP tuning controls, the NEON copy, the pts conversion and statistics: they
  write nothing that another step reads.
- Element properties and linking in `pipeline_start`, socket options, pool
  configuration: one step that may fail. A failure before
  `pipeline.c:304` leaks local objects; the process exits right after.
- The `bus == NULL` path of `bus_thread_func`, which `gst_element_get_bus` of a
  pipeline does not take.
- MPP's rotation of buffers: `mpp_frame_deinit` returns a buffer while it is
  pending or scanned out, and whether MPP decodes into it is not visible here.
- `is_any_connected`, `drm_debug_list_props` and `pipeline_get_recording_stats`,
  which nothing calls.
- `drm_props.c` (look-ups; a failure is a failure of the step that uses them),
  logging, the text of output paths and time stamps, and minimp4, of which
  `VideoRecorder` has the answers the recorder tells apart.

## Plan

Done: all modules above with their runs; every invariant of a passing run, and
the refinement, is a theorem. Left, in this order, all of them proofs that
bear on what is only model-checked now:

1. Variants for the loops whose end the liveness runs show, as action
   properties: each step of `parse_cli` and of `atomic_modeset_maxhz` advances
   its position, each step of `pipeline_stop` and `cleanup_pipeline` its stage.
2. Which threads can be waiting when `main` is in a join, the safety half of
   `ExitHonoured`.
