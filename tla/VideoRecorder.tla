--------------------------- MODULE VideoRecorder ----------------------------
(***************************************************************************)
(* The MP4 recorder of src/src/video_recorder.c, called by one thread at a *)
(* time (under recorder_lock, see Pipeline). It holds back one access unit *)
(* so that the distance to the next one becomes its duration. The minimp4  *)
(* writer is external and only answers OK, BAD_ARGUMENTS or an error. Time *)
(* stamps are in GStreamer's clock unit, durations in media ticks; the     *)
(* units per second of both are parameters.                                *)
(***************************************************************************)
EXTENDS Integers, Sequences

CONSTANTS
  Times,       \* valid time stamps and durations of the input
  Second,      \* GST_SECOND
  Rate,        \* 90000, media ticks per second
  MaxU32,      \* G_MAXUINT32
  Default,     \* 3000, the fallback duration
  FpsDurations,\* quotients Rate * fps_d \div fps_n the caps can give
  MaxSamples   \* bound: samples handed over

None == -1     \* GST_CLOCK_TIME_NONE

ASSUME RecorderAssumption ==
  /\ Times \subseteq Nat
  /\ Second \in Nat \ {0} /\ Rate \in Nat \ {0}
  /\ MaxU32 \in Nat \ {0} /\ Default \in 1..MaxU32
  /\ FpsDurations \subseteq Nat
  /\ MaxSamples \in Nat

VARIABLES
  state,      \* "open", or "closed" after video_recorder_free
  failed,     \* rec->failed
  writerInitialized, default_duration, last_duration, total_duration,
  pending,    \* rec->pending, with the number of its sample
  handled,    \* samples handed over so far (history)
  accepted,   \* samples that became pending (history)
  written,    \* samples in the file, with their duration (history)
  skipped     \* samples emit_pending left out without failing (history)

file == <<total_duration, written, skipped>>
vars == <<state, failed, writerInitialized, default_duration, last_duration,
          pending, handled, accepted, file>>

-----------------------------------------------------------------------------
Stamps == Times \cup {None}
Sample == [id : Nat, pts : Int, duration : Int]
FileEntry == [id : Nat, pts : Int, duration : Int, ticks : Nat]
NoSample == [id |-> 0, pts |-> None, duration |-> None]

gst_time_to_90k(v) == (v * Rate) \div Second

\* The duration of the pending sample before the fallbacks.
RawDuration(prev, nextPts) ==
  IF prev.duration # None
  THEN gst_time_to_90k(prev.duration)
  ELSE IF prev.pts # None /\ nextPts # None /\ nextPts > prev.pts
       THEN gst_time_to_90k(nextPts - prev.pts)
       ELSE 0

\* Mutant: a distance that rounds to nothing is used as it is.
Mutant_no_fallback(prev, nextPts, last, default) == RawDuration(prev, nextPts)

\* compute_duration_90k: what becomes last_duration_90k, and the value
\* returned for it.
compute_duration_90k(prev, nextPts, last, default) ==
  LET raw == RawDuration(prev, nextPts)
  IN IF raw # 0 THEN raw
     ELSE IF last # 0 THEN last
     ELSE IF default # 0 THEN default
     ELSE Default

Clamp(duration) == IF duration > MaxU32 THEN MaxU32 ELSE duration

\* A sample in the file, with the duration it was written with.
Entry(sample, ticks) ==
  [id |-> sample.id, pts |-> sample.pts, duration |-> sample.duration,
   ticks |-> Clamp(ticks)]

TypeOK ==
  /\ state \in {"open", "closed"}
  /\ failed \in BOOLEAN
  /\ writerInitialized \in BOOLEAN
  /\ default_duration \in Nat \ {0}
  /\ last_duration \in Nat
  /\ total_duration \in Nat
  /\ pending \in Sample
  /\ pending.pts >= None /\ pending.duration >= None
  /\ handled \in Nat
  /\ accepted \subseteq Nat
  /\ written \in Seq(FileEntry)
  /\ skipped \subseteq Nat

\* video_recorder_new.
Init ==
  /\ state = "open" /\ failed = FALSE
  /\ writerInitialized = FALSE
  /\ default_duration = Default /\ last_duration = 0 /\ total_duration = 0
  /\ pending = NoSample
  /\ handled = 0 /\ accepted = {} /\ written = <<>> /\ skipped = {}

-----------------------------------------------------------------------------
\* Mutant: the sample is written, but stays pending.
Mutant_emit_keeps_pending(next, nextPts, default) ==
  LET ticks == compute_duration_90k(pending, nextPts, last_duration, default)
  IN /\ last_duration' = ticks
     /\ written' = Append(written, Entry(pending, ticks))
     /\ total_duration' = total_duration + Clamp(ticks)
     /\ UNCHANGED <<failed, skipped, pending>>

\* Mutant: the duration of a refused sample is counted.
Mutant_emit_counts_refused(next, nextPts, default) ==
  LET ticks == compute_duration_90k(pending, nextPts, last_duration, default)
  IN /\ last_duration' = ticks
     /\ total_duration' = total_duration + Clamp(ticks)
     /\ \/ /\ written' = Append(written, Entry(pending, ticks))
           /\ UNCHANGED skipped
        \/ skipped' = skipped \cup {pending.id} /\ UNCHANGED written
     /\ pending' = next
     /\ UNCHANGED failed

\* compute_duration_90k and emit_pending for the pending sample, which next
\* replaces. The writer takes it; or it is skipped, because the writer waits
\* for VPS/SPS/PPS and an IDR frame or the buffer cannot be mapped; or the
\* writer fails, which stops the recording for good.
emit_pending(next, nextPts, default) ==
  LET ticks == compute_duration_90k(pending, nextPts, last_duration, default)
  IN /\ last_duration' = ticks
     /\ \/ /\ written' = Append(written, Entry(pending, ticks))
           /\ total_duration' = total_duration + Clamp(ticks)
           /\ UNCHANGED <<failed, skipped>>
        \/ /\ skipped' = skipped \cup {pending.id}
           /\ UNCHANGED <<failed, written, total_duration>>
        \/ failed' = TRUE /\ UNCHANGED file
     /\ pending' = next

\* Mutant: a frame rate so high that its duration rounds to 0 is kept.
Mutant_ensure_keeps_zero(init) ==
  \/ writerInitialized /\ init /\ UNCHANGED <<writerInitialized, default_duration>>
  \/ /\ ~writerInitialized
     /\ default_duration' \in {Default} \cup FpsDurations
     /\ writerInitialized' = init

\* ensure_writer_initialized on the first sample: the default duration follows
\* the caps' frame rate (30 fps without one); the writer's set-up may fail.
ensure_writer_initialized(init) ==
  \/ writerInitialized /\ init /\ UNCHANGED <<writerInitialized, default_duration>>
  \/ /\ ~writerInitialized
     /\ default_duration' \in {Default} \cup (FpsDurations \ {0})
     /\ writerInitialized' = init

video_recorder_handle_sample(pts, duration) ==
  /\ state = "open" /\ ~failed
  /\ handled < MaxSamples
  /\ handled' = handled + 1
  /\ LET next == [id |-> handled', pts |-> pts, duration |-> duration]
     IN \/ /\ ensure_writer_initialized(TRUE)
           /\ accepted' = accepted \cup {handled'}
           /\ IF pending.id # 0
              THEN emit_pending(next, pts, default_duration')
              ELSE pending' = next /\ UNCHANGED <<failed, last_duration, file>>
        \/ /\ ensure_writer_initialized(FALSE)
           /\ failed' = TRUE
           /\ UNCHANGED <<accepted, pending, last_duration, file>>
  /\ UNCHANGED state

\* A recorder that failed ignores further samples.
HandleIgnored ==
  /\ state = "open" /\ failed
  /\ handled < MaxSamples
  /\ handled' = handled + 1
  /\ UNCHANGED <<state, failed, writerInitialized, default_duration, last_duration,
                 pending, accepted, file>>

\* Mutant: the recorder is closed without video_recorder_flush.
Mutant_free_without_flush ==
  /\ state = "open"
  /\ state' = "closed"
  /\ pending' = NoSample
  /\ UNCHANGED <<writerInitialized, default_duration, handled, accepted, failed,
                 last_duration, file>>

\* video_recorder_free: flush what is pending, close the file.
video_recorder_free ==
  /\ state = "open"
  /\ state' = "closed"
  /\ IF pending.id # 0 /\ ~failed
     THEN emit_pending(NoSample, None, default_duration)
     ELSE pending' = NoSample /\ UNCHANGED <<failed, last_duration, file>>
  /\ UNCHANGED <<writerInitialized, default_duration, handled, accepted>>

Next ==
  \/ \E pts \in Stamps, duration \in Stamps : video_recorder_handle_sample(pts, duration)
  \/ HandleIgnored
  \/ video_recorder_free

Spec == Init /\ [][Next]_vars

-----------------------------------------------------------------------------
(* Properties.                                                             *)

\* The file holds every sample at most once and in the order in which the
\* appsink thread handed them over, and what is pending is newer than all of it.
InOrderOnce ==
  /\ \A i, j \in DOMAIN written : i < j => written[i].id < written[j].id
  /\ pending.id # 0 => \A i \in DOMAIN written : written[i].id < pending.id

\* Unless the writer fails, no sample gets lost: each is in the file, was
\* skipped by emit_pending (the writer waits for a key frame), or is pending,
\* and closing the recorder leaves none pending.
NoSampleLost ==
  ~failed =>
    /\ accepted = {written[i].id : i \in DOMAIN written} \cup skipped
                  \cup ({pending.id} \ {0})
    /\ state = "closed" => pending.id = 0

\* Every duration in the file is positive and fits the format's 32 bits,
\* whatever time stamps (missing, repeated, going backwards, far apart) and
\* frame rate the stream has.
DurationsWritable ==
  \A i \in DOMAIN written : written[i].ticks \in 1..MaxU32

\* The second time stamp is later by a distance that fits a duration.
Regular(pts, nextPts) ==
  /\ pts # None /\ nextPts > pts
  /\ gst_time_to_90k(nextPts - pts) \in 1..MaxU32

\* What is written, and then pending, is a run of consecutive samples with
\* rising time stamps and no explicit durations.
RegularStream ==
  LET n == Len(written)
      stampAt(i) == IF i <= n THEN written[i].pts ELSE pending.pts
  IN /\ n > 0 /\ pending.id = written[n].id + 1
     /\ \A i \in 1..n : /\ Regular(stampAt(i), stampAt(i + 1))
                        /\ written[i].id = written[1].id + i - 1
                        /\ written[i].duration = None

\* Over such a stream the media time does not drift from the time stamps:
\* rounding each distance down costs less than one tick per sample, and nothing
\* is ever counted that is not in the file.
MediaTimeFollowsPts ==
  RegularStream =>
    LET elapsed == gst_time_to_90k(pending.pts - written[1].pts)
    IN total_duration <= elapsed /\ elapsed < total_duration + Len(written)

-----------------------------------------------------------------------------
(* The inductive invariant of the proofs.                                  *)

\* Sample numbers do not run ahead of video_recorder_handle_sample.
OrderInv ==
  /\ TypeOK /\ DurationsWritable /\ InOrderOnce
  /\ pending.id <= handled
  /\ \A i \in DOMAIN written : written[i].id <= handled

\* An empty file has no duration, and an open recorder that holds nothing back
\* has written nothing: emit_pending only ever runs when a successor replaces
\* the sample it writes.
StartInv ==
  /\ written = <<>> => total_duration = 0
  /\ state = "open" /\ pending.id = 0 => written = <<>>

\* The inductive invariant behind the recorder's safety properties.
RecorderInv == OrderInv /\ StartInv /\ NoSampleLost /\ MediaTimeFollowsPts
=============================================================================
