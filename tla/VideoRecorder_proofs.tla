------------------------ MODULE VideoRecorder_proofs ------------------------
(***************************************************************************)
(* Proofs about VideoRecorder, for all time stamps, tick rates and limits: *)
(* samples are written at most once and in order, none gets lost, every    *)
(* duration that reaches the file is positive and fits 32 bits, and the    *)
(* media time does not drift from the time stamps.                         *)
(***************************************************************************)
EXTENDS VideoRecorder, SequenceTheorems, TLAPS

\* gst_time_to_90k of a valid time is a natural number.
LEMMA TicksNat ==
  ASSUME NEW v \in Nat
  PROVE  gst_time_to_90k(v) \in Nat
<1>1. v * Rate \in Nat /\ Second \in Nat /\ Second > 0
  BY RecorderAssumption
<1>2. \A a \in Nat, b \in Nat : b > 0 => a \div b \in Nat
  OBVIOUS
<1>. QED
  BY <1>1, <1>2 DEF gst_time_to_90k

\* compute_duration_90k never returns 0, and what it returns is clamped into
\* the range of a 32-bit duration.
LEMMA DurationPositive ==
  ASSUME NEW prev \in Sample, prev.pts >= None, prev.duration >= None,
         NEW nextPts \in Int, NEW last \in Nat, NEW default \in Nat \ {0}
  PROVE  /\ compute_duration_90k(prev, nextPts, last, default) \in Nat \ {0}
         /\ Clamp(compute_duration_90k(prev, nextPts, last, default)) \in 1..MaxU32
<1>1. prev.duration \in Int /\ prev.pts \in Int
  BY DEF Sample
<1>2. RawDuration(prev, nextPts) \in Nat
  <2>1. CASE prev.duration # None
    <3>1. prev.duration \in Nat
      BY <1>1, <2>1 DEF None
    <3>. QED
      BY <2>1, <3>1, TicksNat DEF RawDuration
  <2>2. CASE prev.duration = None /\ prev.pts # None /\ nextPts # None /\ nextPts > prev.pts
    <3>1. nextPts - prev.pts \in Nat
      BY <1>1, <2>2
    <3>. QED
      BY <2>2, <3>1, TicksNat DEF RawDuration
  <2>. QED
    BY <2>1, <2>2 DEF RawDuration
<1>3. compute_duration_90k(prev, nextPts, last, default) \in Nat \ {0}
  BY <1>2 DEF compute_duration_90k
<1>. QED
  BY <1>3, RecorderAssumption DEF Clamp

\* The samples in a file have numbers.
LEMMA EntryId ==
  ASSUME NEW f \in Seq(FileEntry), NEW i \in DOMAIN f
  PROVE  f[i].id \in Nat
<1>1. i \in 1..Len(f)
  BY LenProperties
<1>2. f[i] \in FileEntry
  BY <1>1, ElementOfSeq
<1>. QED
  BY <1>2 DEF FileEntry

\* emit_pending appends the pending sample to the file or leaves the file
\* alone, and in both cases the invariant's parts about the file survive.
LEMMA EmitStep ==
  ASSUME OrderInv, pending.id # 0,
         NEW next \in Sample, NEW nextPts \in Int, NEW default \in Nat \ {0},
         next.id = 0 \/ next.id > handled,
         emit_pending(next, nextPts, default)
  PROVE  /\ pending' = next
         /\ failed' \in BOOLEAN
         /\ last_duration' \in Nat /\ total_duration' \in Nat
         /\ skipped' \subseteq Nat
         /\ written' \in Seq(FileEntry)
         /\ DurationsWritable' /\ InOrderOnce'
         /\ \A i \in DOMAIN written' : written'[i].id <= handled
<1> DEFINE ticks == compute_duration_90k(pending, nextPts, last_duration, default)
           entry == Entry(pending, ticks)
<1>1. /\ pending \in Sample /\ handled \in Nat
      /\ pending.id \in Nat /\ pending.pts \in Int /\ pending.duration \in Int
      /\ pending.id <= handled
      /\ last_duration \in Nat /\ total_duration \in Nat /\ next.id \in Nat
  BY DEF OrderInv, TypeOK, Sample
<1>2. ticks \in Nat \ {0} /\ Clamp(ticks) \in 1..MaxU32 /\ Clamp(ticks) \in Nat
  <2>1. pending.pts >= None /\ pending.duration >= None
    BY DEF OrderInv, TypeOK
  <2>2. ticks \in Nat \ {0} /\ Clamp(ticks) \in 1..MaxU32
    BY <1>1, <2>1, DurationPositive
  <2>. QED
    BY <2>2, RecorderAssumption
<1>3. /\ entry \in FileEntry
      /\ entry.id = pending.id /\ entry.ticks \in 1..MaxU32
  BY <1>1, <1>2 DEF Entry, FileEntry
<1>4. pending' = next /\ last_duration' = ticks
  BY DEF emit_pending
<1>5. /\ written \in Seq(FileEntry)
      /\ skipped \subseteq Nat /\ failed \in BOOLEAN
      /\ \A i \in DOMAIN written : written[i].id <= handled /\ written[i].id < pending.id
      /\ \A i \in DOMAIN written : written[i].ticks \in 1..MaxU32
      /\ \A i, j \in DOMAIN written : i < j => written[i].id < written[j].id
  BY DEF OrderInv, TypeOK, InOrderOnce, DurationsWritable
<1>6. CASE written' = Append(written, entry) /\ total_duration' = total_duration + Clamp(ticks)
           /\ UNCHANGED <<failed, skipped>>
  <2>1. /\ written' \in Seq(FileEntry)
        /\ DOMAIN written = 1..Len(written) /\ Len(written) \in Nat
        /\ DOMAIN written' = 1..(Len(written) + 1)
        /\ \A i \in DOMAIN written : written'[i] = written[i]
        /\ written'[Len(written) + 1] = entry
    <3>1. /\ written' \in Seq(FileEntry)
          /\ Len(written') = Len(written) + 1
          /\ \A i \in 1..Len(written) : written'[i] = written[i]
          /\ written'[Len(written) + 1] = entry
      BY <1>3, <1>5, <1>6, AppendProperties
    <3>2. /\ DOMAIN written = 1..Len(written) /\ Len(written) \in Nat
          /\ DOMAIN written' = 1..Len(written')
      BY <1>5, <3>1, LenProperties
    <3>. QED
      BY <3>1, <3>2
  <2>2. \A i \in DOMAIN written' : i \in DOMAIN written \/ i = Len(written) + 1
    BY <2>1
  <2>3. DurationsWritable'
    BY <1>3, <1>5, <2>1, <2>2 DEF DurationsWritable
  <2>4. \A i \in DOMAIN written' : written'[i].id <= handled /\ written'[i].id <= pending.id
    <3> SUFFICES ASSUME NEW i \in DOMAIN written'
                 PROVE  written'[i].id <= handled /\ written'[i].id <= pending.id
      OBVIOUS
    <3>1. CASE i \in DOMAIN written
      <4>1. written[i].id \in Nat
        BY <1>5, <3>1, EntryId
      <4>. QED
        BY <1>1, <1>5, <2>1, <3>1, <4>1
    <3>2. CASE i = Len(written) + 1
      BY <1>1, <1>3, <2>1, <3>2
    <3>. QED
      BY <2>2, <3>1, <3>2
  <2>5. \A i, j \in DOMAIN written' : i < j => written'[i].id < written'[j].id
    <3> SUFFICES ASSUME NEW i \in DOMAIN written', NEW j \in DOMAIN written', i < j
                 PROVE  written'[i].id < written'[j].id
      OBVIOUS
    <3>1. i \in DOMAIN written
      BY <2>1, <2>2
    <3>. QED
      BY <1>3, <1>5, <2>1, <2>2, <3>1
  <2>6. next.id # 0 => \A i \in DOMAIN written' : written'[i].id < next.id
    <3> SUFFICES ASSUME next.id # 0, NEW i \in DOMAIN written'
                 PROVE  written'[i].id < next.id
      OBVIOUS
    <3>1. written'[i].id \in Nat
      BY <2>1, EntryId
    <3>. QED
      BY <1>1, <2>4, <3>1
  <2>7. InOrderOnce'
    BY <1>4, <2>5, <2>6 DEF InOrderOnce
  <2>. QED
    <3>1. total_duration' \in Nat /\ failed' \in BOOLEAN /\ skipped' \subseteq Nat
      BY <1>1, <1>2, <1>5, <1>6, SMTT(30)
    <3>. QED
      BY <1>2, <1>4, <2>1, <2>3, <2>4, <2>7, <3>1
<1>7. CASE UNCHANGED <<written, total_duration>> /\ failed' \in BOOLEAN
           /\ skipped' \subseteq Nat
  <2>1. next.id # 0 => \A i \in DOMAIN written : written[i].id < next.id
    <3> SUFFICES ASSUME next.id # 0, NEW i \in DOMAIN written
                 PROVE  written[i].id < next.id
      OBVIOUS
    <3>1. written[i].id \in Nat
      BY <1>5, EntryId
    <3>. QED
      BY <1>1, <1>5, <3>1
  <2>2. InOrderOnce'
    BY <1>4, <1>5, <1>7, <2>1 DEF InOrderOnce
  <2>3. DurationsWritable'
    BY <1>5, <1>7 DEF DurationsWritable
  <2>. QED
    BY <1>1, <1>2, <1>4, <1>5, <1>7, <2>2, <2>3
<1>8. \/ written' = Append(written, entry) /\ total_duration' = total_duration + Clamp(ticks)
         /\ UNCHANGED <<failed, skipped>>
      \/ UNCHANGED <<written, total_duration>> /\ failed' \in BOOLEAN /\ skipped' \subseteq Nat
  BY <1>1, <1>5 DEF emit_pending, file
<1>. QED
  BY <1>6, <1>7, <1>8

-----------------------------------------------------------------------------
\* The time stamps of the input are integers no smaller than None.
LEMMA StampsTyped ==
  ASSUME NEW pts \in Stamps, NEW duration \in Stamps, NEW n \in Nat
  PROVE  LET sample == [id |-> n, pts |-> pts, duration |-> duration]
         IN sample \in Sample /\ sample.pts >= None /\ sample.duration >= None
  BY RecorderAssumption DEF Stamps, Sample, None

\* One sample handed over by the appsink thread.
LEMMA HandleStep ==
  ASSUME OrderInv, NEW pts \in Stamps, NEW duration \in Stamps,
         video_recorder_handle_sample(pts, duration)
  PROVE  OrderInv'
<1> DEFINE next == [id |-> handled', pts |-> pts, duration |-> duration]
<1>1. /\ handled \in Nat /\ handled' = handled + 1 /\ state' = state
      /\ default_duration \in Nat \ {0}
  BY DEF video_recorder_handle_sample, OrderInv, TypeOK
<1>2. /\ next \in Sample /\ next.pts >= None /\ next.duration >= None
      /\ next.id = handled + 1 /\ next.id > handled
  BY <1>1, StampsTyped
<1>3. /\ default_duration' \in Nat \ {0}
      /\ writerInitialized' \in BOOLEAN
  <2>1. ensure_writer_initialized(TRUE) \/ ensure_writer_initialized(FALSE)
    BY DEF video_recorder_handle_sample
  <2>2. writerInitialized \in BOOLEAN /\ Default \in Nat \ {0} /\ FpsDurations \subseteq Nat
    BY RecorderAssumption DEF OrderInv, TypeOK
  <2>. QED
    BY <1>1, <2>1, <2>2 DEF ensure_writer_initialized
<1>4. accepted' \subseteq Nat
  <2>1. accepted' = accepted \cup {handled'} \/ accepted' = accepted
    BY DEF video_recorder_handle_sample
  <2>. QED
    <3>1. accepted \subseteq Nat /\ handled' \in Nat
      BY <1>1 DEF OrderInv, TypeOK
    <3>. QED
      BY <2>1, <3>1
<1>5. \A i \in DOMAIN written : written[i].id \in Nat /\ written[i].id <= handled
  BY EntryId DEF OrderInv, TypeOK
<1>6. pts \in Int
  BY RecorderAssumption DEF Stamps, None
<1>7. CASE pending.id # 0 /\ emit_pending(next, pts, default_duration')
  <2>1. /\ pending' = next
        /\ failed' \in BOOLEAN
        /\ last_duration' \in Nat /\ total_duration' \in Nat
        /\ skipped' \subseteq Nat
        /\ written' \in Seq(FileEntry)
        /\ DurationsWritable' /\ InOrderOnce'
        /\ \A i \in DOMAIN written' : written'[i].id <= handled
    <3>. HIDE DEF next
    <3>. QED
      BY <1>1, <1>2, <1>3, <1>6, <1>7, EmitStep
  <2>2. \A i \in DOMAIN written' : written'[i].id <= handled'
    <3> SUFFICES ASSUME NEW i \in DOMAIN written' PROVE written'[i].id <= handled'
      OBVIOUS
    <3>1. written'[i].id \in Nat /\ written'[i].id <= handled
      BY <2>1, EntryId
    <3>. QED
      BY <1>1, <3>1
  <2>3. TypeOK'
    <3>. HIDE DEF next
    <3>. QED
      BY <1>1, <1>2, <1>3, <1>4, <2>1 DEF TypeOK, OrderInv
  <2>. QED
    BY <1>1, <1>2, <2>1, <2>2, <2>3 DEF OrderInv
<1>8. CASE pending.id = 0 /\ pending' = next /\ UNCHANGED <<failed, last_duration, file>>
  <2>1. TypeOK'
    <3>. HIDE DEF next
    <3>. QED
      BY <1>1, <1>2, <1>3, <1>4, <1>8 DEF TypeOK, OrderInv, file
  <2>2. DurationsWritable'
    BY <1>8 DEF OrderInv, DurationsWritable, file
  <2>3. InOrderOnce'
    <3>. HIDE DEF next
    <3>1. \A i \in DOMAIN written : written[i].id < next.id
      BY <1>1, <1>2, <1>5
    <3>. QED
      BY <1>8, <3>1 DEF OrderInv, InOrderOnce, file
  <2>4. \A i \in DOMAIN written' : written'[i].id <= handled'
    BY <1>1, <1>5, <1>8 DEF file
  <2>. QED
    BY <1>1, <1>2, <1>8, <2>1, <2>2, <2>3, <2>4 DEF OrderInv
<1>9. CASE failed' = TRUE /\ UNCHANGED <<accepted, pending, last_duration, file>>
  <2>1. TypeOK'
    BY <1>1, <1>3, <1>9 DEF TypeOK, OrderInv, file
  <2>2. DurationsWritable' /\ InOrderOnce'
    BY <1>9 DEF OrderInv, DurationsWritable, InOrderOnce, file
  <2>3. \A i \in DOMAIN written' : written'[i].id <= handled'
    BY <1>1, <1>5, <1>9 DEF file
  <2>4. pending'.id <= handled'
    BY <1>1, <1>9 DEF OrderInv, TypeOK, Sample
  <2>. QED
    BY <2>1, <2>2, <2>3, <2>4 DEF OrderInv
<1>. QED
  BY <1>7, <1>8, <1>9 DEF video_recorder_handle_sample

\* Closing the recorder.
LEMMA FreeStep ==
  ASSUME OrderInv, video_recorder_free
  PROVE  OrderInv'
<1>1. /\ handled' = handled /\ state' = "closed"
      /\ UNCHANGED <<writerInitialized, default_duration, accepted>>
      /\ default_duration \in Nat \ {0}
  BY DEF video_recorder_free, OrderInv, TypeOK
<1>2. NoSample \in Sample /\ NoSample.pts >= None /\ NoSample.duration >= None
      /\ NoSample.id = 0 /\ None \in Int /\ handled \in Nat
  BY DEF NoSample, Sample, None, OrderInv, TypeOK
<1>3. CASE pending.id # 0 /\ emit_pending(NoSample, None, default_duration)
  <2>1. /\ pending' = NoSample
        /\ failed' \in BOOLEAN
        /\ last_duration' \in Nat /\ total_duration' \in Nat
        /\ skipped' \subseteq Nat
        /\ written' \in Seq(FileEntry)
        /\ DurationsWritable' /\ InOrderOnce'
        /\ \A i \in DOMAIN written' : written'[i].id <= handled
    BY <1>1, <1>2, <1>3, EmitStep
  <2>2. TypeOK'
    BY <1>1, <1>2, <2>1 DEF TypeOK, OrderInv
  <2>. QED
    BY <1>1, <1>2, <2>1, <2>2 DEF OrderInv
<1>4. CASE pending' = NoSample /\ UNCHANGED <<failed, last_duration, file>>
  <2>1. TypeOK'
    BY <1>1, <1>2, <1>4 DEF TypeOK, OrderInv, file
  <2>2. DurationsWritable' /\ InOrderOnce'
    BY <1>2, <1>4 DEF OrderInv, DurationsWritable, InOrderOnce, file
  <2>. QED
    BY <1>1, <1>2, <1>4, <2>1, <2>2 DEF OrderInv, file
<1>. QED
  BY <1>3, <1>4 DEF video_recorder_free

\* The recorder of video_recorder_new satisfies OrderInv.
LEMMA OrderInit ==
  ASSUME Init
  PROVE  OrderInv
<1>1. NoSample \in Sample /\ NoSample.id = 0 /\ NoSample.pts = None /\ NoSample.duration = None
  BY DEF NoSample, Sample, None
<1>2. Default \in Nat \ {0} /\ <<>> \in Seq(FileEntry)
  BY RecorderAssumption, EmptySeq
<1>3. TypeOK
  <2>1. pending \in Sample /\ pending.pts >= None /\ pending.duration >= None
    BY <1>1 DEF Init, None
  <2>2. written \in Seq(FileEntry) /\ accepted \subseteq Nat /\ skipped \subseteq Nat
    BY <1>2 DEF Init
  <2>3. default_duration \in Nat \ {0}
    BY <1>2 DEF Init
  <2>. QED
    BY <2>1, <2>2, <2>3 DEF Init, TypeOK
<1>. QED
  BY <1>1, <1>3 DEF Init, OrderInv, DurationsWritable, InOrderOnce

\* Every step keeps OrderInv.
LEMMA OrderStep ==
  ASSUME OrderInv, [Next]_vars
  PROVE  OrderInv'
<1>1. CASE HandleIgnored
  <2>1. /\ handled \in Nat /\ handled' = handled + 1
        /\ UNCHANGED <<state, failed, writerInitialized, default_duration,
                       last_duration, pending, accepted, file>>
    BY <1>1 DEF HandleIgnored, OrderInv, TypeOK
  <2>2. TypeOK'
    BY <2>1 DEF OrderInv, TypeOK, file
  <2>3. DurationsWritable' /\ InOrderOnce'
    BY <2>1 DEF OrderInv, DurationsWritable, InOrderOnce, file
  <2>4. \A i \in DOMAIN written : written[i].id \in Nat /\ written[i].id <= handled
    BY EntryId DEF OrderInv, TypeOK
  <2>5. pending.id \in Nat
    BY DEF OrderInv, TypeOK, Sample
  <2>. QED
    BY <2>1, <2>2, <2>3, <2>4, <2>5 DEF OrderInv, file
<1>2. CASE UNCHANGED vars
  BY <1>2 DEF vars, file, OrderInv, TypeOK, DurationsWritable, InOrderOnce
<1>. QED
  BY <1>1, <1>2, HandleStep, FreeStep DEF Next

-----------------------------------------------------------------------------
(* What a step can do to the samples. A successor pushes the pending one   *)
(* out, the first one becomes pending, the recorder fails or ignores what  *)
(* it is given, and closing it flushes or drops what is pending.           *)

Successor ==
  /\ state = "open" /\ state' = "open" /\ ~failed /\ pending.id # 0
  /\ pending'.id = handled + 1
  /\ accepted' = accepted \cup {handled + 1}
  /\ default_duration' \in Nat \ {0}
  /\ emit_pending(pending', pending'.pts, default_duration')

First ==
  /\ state = "open" /\ state' = "open" /\ pending.id = 0
  /\ pending'.id = handled + 1
  /\ accepted' = accepted \cup {handled + 1}
  /\ UNCHANGED <<failed, file>>

Failing == failed' = TRUE /\ UNCHANGED <<state, pending, file>>

Flushing ==
  /\ state' = "closed" /\ ~failed /\ pending.id # 0 /\ pending'.id = 0
  /\ emit_pending(pending', None, default_duration)
  /\ UNCHANGED accepted

Dropping ==
  /\ state' = "closed" /\ (pending.id = 0 \/ failed) /\ pending'.id = 0
  /\ UNCHANGED <<failed, accepted, file>>

\* Every step is of one of these kinds, or leaves everything alone.
LEMMA StepKinds ==
  ASSUME OrderInv, [Next]_vars
  PROVE  Successor \/ First \/ Failing \/ Flushing \/ Dropping \/ UNCHANGED vars
<1>1. ASSUME NEW pts \in Stamps, NEW duration \in Stamps,
             video_recorder_handle_sample(pts, duration)
      PROVE  Successor \/ First \/ Failing
  <2> DEFINE next == [id |-> handled', pts |-> pts, duration |-> duration]
  <2>1. next.id = handled' /\ next.pts = pts
    OBVIOUS
  <2>2. /\ handled' = handled + 1 /\ state = "open" /\ state' = "open" /\ ~failed
    BY <1>1 DEF video_recorder_handle_sample
  <2>3. OrderInv'
    BY <1>1, HandleStep
  <2>4. default_duration' \in Nat \ {0}
    BY <2>3 DEF OrderInv, TypeOK
  <2>5. CASE /\ accepted' = accepted \cup {handled'}
             /\ pending.id # 0 /\ emit_pending(next, pts, default_duration')
    <3>. HIDE DEF next
    <3>1. pending' = next
      BY <2>5 DEF emit_pending
    <3>. QED
      BY <2>1, <2>2, <2>4, <2>5, <3>1 DEF Successor
  <2>6. CASE /\ accepted' = accepted \cup {handled'} /\ pending.id = 0
             /\ pending' = next /\ UNCHANGED <<failed, last_duration, file>>
    BY <2>1, <2>2, <2>6 DEF First
  <2>7. CASE failed' = TRUE /\ UNCHANGED <<accepted, pending, last_duration, file>>
    BY <2>2, <2>7 DEF Failing
  <2>. QED
    BY <1>1, <2>5, <2>6, <2>7 DEF video_recorder_handle_sample
<1>2. CASE HandleIgnored
  BY <1>2 DEF HandleIgnored, Failing
<1>3. CASE video_recorder_free
  <2>1. NoSample.id = 0
    BY DEF NoSample
  <2>2. state' = "closed" /\ UNCHANGED accepted
    BY <1>3 DEF video_recorder_free
  <2>3. CASE pending.id # 0 /\ ~failed /\ emit_pending(NoSample, None, default_duration)
    <3>1. pending' = NoSample
      BY <2>3 DEF emit_pending
    <3>. QED
      BY <2>1, <2>2, <2>3, <3>1 DEF Flushing
  <2>4. CASE /\ pending.id = 0 \/ failed
             /\ pending' = NoSample /\ UNCHANGED <<failed, last_duration, file>>
    BY <2>1, <2>2, <2>4 DEF Dropping
  <2>. QED
    BY <1>3, <2>3, <2>4 DEF video_recorder_free, OrderInv, TypeOK
<1>. QED
  BY <1>1, <1>2, <1>3 DEF Next

\* What appending a sample does to a file.
LEMMA AppendEntry ==
  ASSUME NEW f \in Seq(FileEntry), NEW e \in FileEntry
  PROVE  LET g == Append(f, e)
         IN /\ Len(f) \in Nat /\ DOMAIN f = 1..Len(f)
            /\ Len(g) = Len(f) + 1 /\ DOMAIN g = 1..(Len(f) + 1)
            /\ \A i \in 1..Len(f) : g[i] = f[i]
            /\ g[Len(f) + 1] = e
            /\ {g[i].id : i \in DOMAIN g} = {f[i].id : i \in DOMAIN f} \cup {e.id}
<1> DEFINE g == Append(f, e)
           n == Len(f)
<1>1. /\ g \in Seq(FileEntry) /\ Len(g) = n + 1
      /\ \A i \in 1..n : g[i] = f[i]
      /\ g[n + 1] = e
  BY AppendProperties
<1>2. n \in Nat /\ DOMAIN f = 1..n /\ DOMAIN g = 1..(n + 1)
  BY <1>1, LenProperties
<1>. HIDE DEF g, n
<1>3. {g[i].id : i \in DOMAIN g} \subseteq {f[i].id : i \in DOMAIN f} \cup {e.id}
  <2> SUFFICES ASSUME NEW i \in 1..(n + 1)
               PROVE  g[i].id \in {f[j].id : j \in DOMAIN f} \cup {e.id}
    BY <1>2
  <2>1. CASE i \in 1..n
    BY <1>1, <1>2, <2>1
  <2>2. CASE i = n + 1
    BY <1>1, <2>2
  <2>. QED
    BY <1>2, <2>1, <2>2
<1>4. {f[i].id : i \in DOMAIN f} \cup {e.id} \subseteq {g[i].id : i \in DOMAIN g}
  <2>1. ASSUME NEW i \in DOMAIN f PROVE f[i].id \in {g[j].id : j \in DOMAIN g}
    <3>1. i \in DOMAIN g /\ g[i] = f[i]
      BY <1>1, <1>2
    <3>. QED
      BY <3>1
  <2>2. e.id \in {g[j].id : j \in DOMAIN g}
    <3>1. n + 1 \in DOMAIN g
      BY <1>2
    <3>. QED
      BY <1>1, <3>1
  <2>. QED
    BY <2>1, <2>2
<1>. QED
  BY <1>1, <1>2, <1>3, <1>4 DEF g, n

\* The entry emit_pending writes.
LEMMA EntryTyped ==
  ASSUME OrderInv, NEW nextPts \in Int, NEW default \in Nat \ {0}
  PROVE  LET ticks == compute_duration_90k(pending, nextPts, last_duration, default)
         IN /\ Entry(pending, ticks) \in FileEntry
            /\ Entry(pending, ticks).id = pending.id
            /\ Entry(pending, ticks).pts = pending.pts
            /\ Entry(pending, ticks).duration = pending.duration
            /\ Clamp(ticks) \in 1..MaxU32
<1> DEFINE ticks == compute_duration_90k(pending, nextPts, last_duration, default)
<1>1. /\ pending \in Sample /\ pending.pts >= None /\ pending.duration >= None
      /\ last_duration \in Nat
  BY DEF OrderInv, TypeOK
<1>2. Clamp(ticks) \in 1..MaxU32
  BY <1>1, DurationPositive
<1>. HIDE DEF ticks
<1>3. Clamp(ticks) \in Nat /\ pending.id \in Nat /\ pending.pts \in Int /\ pending.duration \in Int
  BY <1>1, <1>2, RecorderAssumption DEF Sample
<1>4. Entry(pending, ticks) \in FileEntry
  BY <1>3 DEF Entry, FileEntry
<1>5. /\ Entry(pending, ticks).id = pending.id
      /\ Entry(pending, ticks).pts = pending.pts
      /\ Entry(pending, ticks).duration = pending.duration
  BY DEF Entry
<1>. QED
  BY <1>2, <1>4, <1>5 DEF ticks

-----------------------------------------------------------------------------
(* No sample is lost.                                                      *)

\* The samples emit_pending has dealt with.
Settled == {written[i].id : i \in DOMAIN written} \cup skipped

\* emit_pending settles the pending sample unless it fails.
LEMMA EmitSettles ==
  ASSUME OrderInv, NEW next, NEW nextPts \in Int, NEW default \in Nat \ {0},
         emit_pending(next, nextPts, default), ~failed'
  PROVE  Settled' = Settled \cup {pending.id}
<1> DEFINE ticks == compute_duration_90k(pending, nextPts, last_duration, default)
           entry == Entry(pending, ticks)
<1>1. entry \in FileEntry /\ entry.id = pending.id
  BY EntryTyped
<1>2. written \in Seq(FileEntry)
  BY DEF OrderInv, TypeOK
<1>3. \/ written' = Append(written, entry) /\ skipped' = skipped
      \/ written' = written /\ skipped' = skipped \cup {pending.id}
  BY DEF emit_pending
<1>. HIDE DEF entry
<1>4. CASE written' = Append(written, entry) /\ skipped' = skipped
  <2>1. {written'[i].id : i \in DOMAIN written'}
          = {written[i].id : i \in DOMAIN written} \cup {pending.id}
    BY <1>1, <1>2, <1>4, AppendEntry
  <2>. QED
    BY <1>4, <2>1 DEF Settled
<1>5. CASE written' = written /\ skipped' = skipped \cup {pending.id}
  BY <1>5 DEF Settled
<1>. QED
  BY <1>3, <1>4, <1>5

\* NoSampleLost survives every step.
LEMMA AccountStep ==
  ASSUME OrderInv, NoSampleLost, StartInv, [Next]_vars
  PROVE  NoSampleLost'
<1>1. /\ pending.id \in Nat /\ handled \in Nat /\ handled + 1 # 0
      /\ None \in Int /\ default_duration \in Nat \ {0}
  BY DEF OrderInv, TypeOK, Sample, None
<1>2. OrderInv'
  BY OrderStep
<1>3. pending'.pts \in Int
  BY <1>2 DEF OrderInv, TypeOK, Sample
<1>4. ~failed => /\ accepted = Settled \cup ({pending.id} \ {0})
                 /\ state = "closed" => pending.id = 0
  BY DEF NoSampleLost, Settled
<1>5. SUFFICES ASSUME ~failed'
               PROVE  /\ accepted' = Settled' \cup ({pending'.id} \ {0})
                      /\ state' = "closed" => pending'.id = 0
  BY DEF NoSampleLost, Settled
<1>6. CASE Successor
  <2>1. Settled' = Settled \cup {pending.id}
    BY <1>3, <1>5, <1>6, EmitSettles DEF Successor
  <2>. QED
    BY <1>1, <1>4, <1>6, <2>1 DEF Successor
<1>7. CASE First
  <2>1. Settled' = Settled /\ ~failed
    BY <1>5, <1>7 DEF First, Settled, file
  <2>. QED
    BY <1>1, <1>4, <1>7, <2>1 DEF First
<1>8. CASE Failing
  BY <1>5, <1>8 DEF Failing
<1>9. CASE Flushing
  <2>1. Settled' = Settled \cup {pending.id}
    BY <1>1, <1>5, <1>9, EmitSettles DEF Flushing
  <2>. QED
    BY <1>4, <1>9, <2>1 DEF Flushing
<1>10. CASE Dropping
  <2>1. Settled' = Settled /\ ~failed
    BY <1>5, <1>10 DEF Dropping, Settled, file
  <2>. QED
    BY <1>4, <1>10, <2>1 DEF Dropping
<1>11. CASE UNCHANGED vars
  <2>1. Settled' = Settled /\ ~failed
    BY <1>5, <1>11 DEF vars, Settled, file
  <2>. QED
    BY <1>4, <1>11, <2>1 DEF vars
<1>. QED
  BY <1>6, <1>7, <1>8, <1>9, <1>10, <1>11, StepKinds

-----------------------------------------------------------------------------
(* The media time follows the time stamps.                                 *)

\* Integer division as multiplication.
LEMMA DivBounds ==
  ASSUME NEW x \in Int, NEW s \in Nat \ {0}
  PROVE  x \div s \in Int /\ s * (x \div s) <= x /\ x < s * (x \div s) + s
OBVIOUS

\* Rounding two quotients down loses at most one against rounding their sum.
LEMMA QuotientSum ==
  ASSUME NEW x \in Int, NEW y \in Int, NEW s \in Nat \ {0},
         NEW p \in Int, s * p <= x, x < s * p + s,
         NEW q \in Int, s * q <= y, y < s * q + s,
         NEW r \in Int, s * r <= x + y, x + y < s * r + s
  PROVE  p + q <= r /\ r <= p + q + 1
<1>1. s * p \in Int /\ s * q \in Int /\ s * r \in Int
  OBVIOUS
<1>2. s * (r + 1) > s * (p + q)
  <2>1. s * (r + 1) = s * r + s /\ s * (p + q) = s * p + s * q
    OBVIOUS
  <2>. QED
    BY <1>1, <2>1
<1>3. s * r < s * (p + q + 2)
  <2>1. s * (p + q + 2) = s * p + s * q + s + s
    OBVIOUS
  <2>. QED
    BY <1>1, <2>1
<1>4. \A a, b \in Int : s * a < s * b => a < b
  OBVIOUS
<1>5. p + q < r + 1
  BY <1>2, <1>4
<1>6. r < p + q + 2
  BY <1>3, <1>4
<1>. QED
  BY <1>5, <1>6

\* gst_time_to_90k of two adjoining distances.
LEMMA TicksAdd ==
  ASSUME NEW a \in Int, NEW b \in Int
  PROVE  /\ gst_time_to_90k(a) \in Int /\ gst_time_to_90k(b) \in Int
         /\ gst_time_to_90k(a + b) \in Int
         /\ gst_time_to_90k(a) + gst_time_to_90k(b) <= gst_time_to_90k(a + b)
         /\ gst_time_to_90k(a + b) <= gst_time_to_90k(a) + gst_time_to_90k(b) + 1
<1> DEFINE x == a * Rate
           y == b * Rate
           z == (a + b) * Rate
<1>1. Second \in Nat \ {0} /\ Rate \in Int
  BY RecorderAssumption
<1>2. x \in Int /\ y \in Int /\ z = x + y
  BY <1>1
<1>. HIDE DEF x, y, z
<1>3. /\ x \div Second \in Int
      /\ Second * (x \div Second) <= x /\ x < Second * (x \div Second) + Second
  BY <1>1, <1>2, DivBounds
<1>4. /\ y \div Second \in Int
      /\ Second * (y \div Second) <= y /\ y < Second * (y \div Second) + Second
  BY <1>1, <1>2, DivBounds
<1>5. /\ z \div Second \in Int
      /\ Second * (z \div Second) <= x + y /\ x + y < Second * (z \div Second) + Second
  BY <1>1, <1>2, DivBounds
<1>6. /\ x \div Second + y \div Second <= z \div Second
      /\ z \div Second <= x \div Second + y \div Second + 1
  BY <1>1, <1>2, <1>3, <1>4, <1>5, QuotientSum
<1>. QED
  BY <1>3, <1>4, <1>5, <1>6 DEF gst_time_to_90k, x, y, z

\* What emit_pending does to the file and its duration.
LEMMA EmitFile ==
  ASSUME NEW next, NEW nextPts, NEW default, emit_pending(next, nextPts, default)
  PROVE  LET ticks == compute_duration_90k(pending, nextPts, last_duration, default)
         IN \/ /\ written' = Append(written, Entry(pending, ticks))
               /\ total_duration' = total_duration + Clamp(ticks)
            \/ written' = written /\ total_duration' = total_duration
  BY DEF emit_pending, file

\* StartInv survives every step.
LEMMA StartStep ==
  ASSUME OrderInv, StartInv, [Next]_vars
  PROVE  StartInv'
<1>1. written \in Seq(FileEntry) /\ handled \in Nat /\ handled + 1 # 0
      /\ None \in Int /\ default_duration \in Nat \ {0}
  BY DEF OrderInv, TypeOK, None
<1>2. pending'.pts \in Int
  BY OrderStep DEF OrderInv, TypeOK, Sample
<1>3. ASSUME NEW nextPts \in Int, NEW default \in Nat \ {0},
             emit_pending(pending', nextPts, default)
      PROVE  written' = <<>> => total_duration' = 0
  <2> DEFINE ticks == compute_duration_90k(pending, nextPts, last_duration, default)
             entry == Entry(pending, ticks)
  <2>1. entry \in FileEntry
    BY EntryTyped
  <2>2. CASE written' = Append(written, entry)
    <3>. HIDE DEF entry
    <3>1. Len(written) \in Nat /\ Len(written') = Len(written) + 1
      BY <1>1, <2>1, <2>2, AppendEntry
    <3>2. Len(written') # 0
      BY <3>1
    <3>. QED
      BY <3>2, EmptySeq
  <2>3. CASE written' = written /\ total_duration' = total_duration
    BY <2>3 DEF StartInv
  <2>. QED
    BY <1>3, <2>2, <2>3, EmitFile
<1>4. CASE Successor
  BY <1>1, <1>2, <1>3, <1>4 DEF Successor, StartInv
<1>5. CASE First \/ Failing \/ Dropping \/ UNCHANGED vars
  BY <1>1, <1>5 DEF First, Failing, Dropping, vars, file, StartInv
<1>6. CASE Flushing
  BY <1>1, <1>3, <1>6 DEF Flushing, StartInv
<1>. QED
  BY <1>4, <1>5, <1>6, StepKinds

\* The sample written last and the one that replaces it as pending.
LEMMA RegularEmit ==
  ASSUME OrderInv, StartInv, MediaTimeFollowsPts, OrderInv',
         NEW default \in Nat \ {0}, pending.id # 0,
         emit_pending(pending', pending'.pts, default),
         LET ticks == compute_duration_90k(pending, pending'.pts, last_duration, default)
         IN /\ written' = Append(written, Entry(pending, ticks))
            /\ total_duration' = total_duration + Clamp(ticks)
  PROVE  MediaTimeFollowsPts'
<1> DEFINE ticks == compute_duration_90k(pending, pending'.pts, last_duration, default)
           entry == Entry(pending, ticks)
           n == Len(written)
           at(i) == IF i <= n THEN written[i].pts ELSE pending.pts
           at2(i) == IF i <= n + 1 THEN written'[i].pts ELSE pending'.pts
<1>1. SUFFICES ASSUME RegularStream'
               PROVE  /\ total_duration' <= gst_time_to_90k(pending'.pts - written'[1].pts)
                      /\ gst_time_to_90k(pending'.pts - written'[1].pts)
                           < total_duration' + Len(written')
  BY DEF MediaTimeFollowsPts
<1>2. /\ written \in Seq(FileEntry) /\ total_duration \in Nat
      /\ pending.pts \in Int /\ pending'.pts \in Int /\ pending.id \in Nat
  BY DEF OrderInv, TypeOK, Sample
<1>3. entry \in FileEntry /\ entry.id = pending.id /\ entry.pts = pending.pts
      /\ entry.duration = pending.duration
  BY <1>2, EntryTyped
<1>4. written' = Append(written, entry) /\ total_duration' = total_duration + Clamp(ticks)
  OBVIOUS
<1>. HIDE DEF entry, ticks
<1>5. /\ n \in Nat /\ Len(written') = n + 1
      /\ \A i \in 1..n : written'[i] = written[i]
      /\ written'[n + 1] = entry
  BY <1>2, <1>3, <1>4, AppendEntry
<1>6. \A i \in 1..n : written[i].id \in Nat /\ written[i].pts \in Int
  <2> SUFFICES ASSUME NEW i \in 1..n PROVE written[i].id \in Nat /\ written[i].pts \in Int
    OBVIOUS
  <2>1. written[i] \in FileEntry
    BY <1>2, ElementOfSeq
  <2>. QED
    BY <2>1 DEF FileEntry
<1>. HIDE DEF n
<1>7. /\ pending'.id = written'[n + 1].id + 1
      /\ \A i \in 1..(n + 1) : /\ Regular(at2(i), at2(i + 1))
                               /\ written'[i].id = written'[1].id + i - 1
                               /\ written'[i].duration = None
  BY <1>1, <1>5 DEF RegularStream
<1>8. pending.duration = None /\ Regular(pending.pts, pending'.pts)
  <2>1. n + 1 \in 1..(n + 1) /\ n + 1 <= n + 1 /\ ~(n + 1 + 1 <= n + 1)
    BY <1>5
  <2>2. Regular(at2(n + 1), at2(n + 1 + 1)) /\ written'[n + 1].duration = None
    BY <1>7, <2>1
  <2>. QED
    BY <1>3, <1>5, <2>1, <2>2
<1> DEFINE step == gst_time_to_90k(pending'.pts - pending.pts)
<1>9. Clamp(ticks) = step /\ step \in 1..MaxU32
  <2>1. step \in 1..MaxU32 /\ pending.pts # None /\ pending'.pts > pending.pts
    BY <1>8 DEF Regular
  <2>2. pending'.pts # None
    <3>1. pending.pts >= None
      BY DEF OrderInv, TypeOK
    <3>. QED
      BY <1>2, <2>1, <3>1 DEF None
  <2>. HIDE DEF step
  <2>3. RawDuration(pending, pending'.pts) = step
    BY <1>8, <2>1, <2>2 DEF RawDuration, step
  <2>4. ticks = step
    BY <2>1, <2>3, RecorderAssumption DEF ticks, compute_duration_90k
  <2>. QED
    BY <2>1, <2>4, RecorderAssumption DEF Clamp
<1>. HIDE DEF step
<1>10. CASE n = 0
  <2>1. written = <<>>
    BY <1>2, <1>10, EmptySeq DEF n
  <2>2. total_duration = 0 /\ written'[1].pts = pending.pts
    BY <1>3, <1>5, <1>10, <2>1 DEF StartInv
  <2>. QED
    BY <1>4, <1>5, <1>9, <1>10, <2>2, RecorderAssumption DEF step
<1>11. CASE n # 0
  <2> DEFINE first == written[1].pts
             elapsed == gst_time_to_90k(pending.pts - first)
  <2>1. /\ 1 \in 1..n /\ n \in 1..n /\ n + 1 \in 1..(n + 1) /\ n \in 1..(n + 1)
        /\ 1 \in 1..(n + 1)
    BY <1>5, <1>11
  <2>2. first \in Int /\ written'[1] = written[1] /\ written'[n] = written[n]
    BY <1>5, <1>6, <2>1
  <2>3. pending.id = written[n].id + 1
    <3>1. /\ written'[n + 1].id = written'[1].id + (n + 1) - 1
          /\ written'[n].id = written'[1].id + n - 1
      BY <1>7, <2>1
    <3>2. written[1].id \in Nat
      BY <1>6, <2>1
    <3>3. pending.id = written[1].id + (n + 1) - 1
      BY <1>3, <1>5, <2>2, <3>1
    <3>4. written[n].id = written[1].id + n - 1
      BY <2>2, <3>1
    <3>5. written[1].id + (n + 1) - 1 = (written[1].id + n - 1) + 1
      <4>1. \A a, b \in Nat : a + (b + 1) - 1 = (a + b - 1) + 1
        OBVIOUS
      <4>. QED
        BY <1>5, <3>2, <4>1
    <3>. QED
      BY <3>3, <3>4, <3>5
  <2>4. ASSUME NEW i \in 1..n
        PROVE  /\ Regular(at(i), at(i + 1))
               /\ written[i].id = written[1].id + i - 1
               /\ written[i].duration = None
    <3>1. i \in 1..(n + 1) /\ i <= n /\ i <= n + 1 /\ i + 1 <= n + 1
      BY <1>5
    <3>2. at2(i) = at(i)
      BY <1>5, <3>1
    <3>3. at2(i + 1) = at(i + 1)
      <4>1. CASE i + 1 <= n
        BY <1>5, <3>1, <4>1
      <4>2. CASE i = n
        BY <1>3, <1>5, <3>1, <4>2
      <4>. QED
        BY <1>5, <4>1, <4>2
    <3>4. /\ Regular(at2(i), at2(i + 1))
          /\ written'[i].id = written'[1].id + i - 1
          /\ written'[i].duration = None
      BY <1>7, <3>1
    <3>. QED
      BY <1>5, <2>2, <3>2, <3>3, <3>4
  <2>5. RegularStream
    BY <1>5, <1>11, <2>3, <2>4 DEF RegularStream, n
  <2>6. total_duration <= elapsed /\ elapsed < total_duration + n
    BY <2>5 DEF MediaTimeFollowsPts, n
  <2>7. pending'.pts - first = (pending.pts - first) + (pending'.pts - pending.pts)
    BY <1>2, <2>2
  <2>8. /\ elapsed \in Int
        /\ gst_time_to_90k(pending'.pts - first) \in Int
        /\ elapsed + step <= gst_time_to_90k(pending'.pts - first)
        /\ gst_time_to_90k(pending'.pts - first) <= elapsed + step + 1
    <3>1. pending.pts - first \in Int /\ pending'.pts - pending.pts \in Int
      BY <1>2, <2>2
    <3>. QED
      BY <2>7, <3>1, TicksAdd DEF step
  <2>. HIDE DEF elapsed, first
  <2>9. step \in Int
    BY <1>9, RecorderAssumption
  <2>10. /\ total_duration' <= gst_time_to_90k(pending'.pts - first)
         /\ gst_time_to_90k(pending'.pts - first) < total_duration' + (n + 1)
    BY <1>2, <1>4, <1>5, <1>9, <2>6, <2>8, <2>9
  <2>. QED
    BY <1>5, <2>2, <2>10 DEF first
<1>. QED
  BY <1>10, <1>11

\* A pending sample that does not follow the file's last one directly is not
\* part of a regular stream.
LEMMA GapIsIrregular ==
  ASSUME written' = written,
         written \in Seq(FileEntry),
         \A i \in DOMAIN written : written[i].id + 1 < pending'.id
  PROVE  MediaTimeFollowsPts'
<1>1. Len(written) \in Nat /\ DOMAIN written = 1..Len(written)
  BY LenProperties
<1>2. SUFFICES ASSUME Len(written) > 0, pending'.id = written[Len(written)].id + 1
               PROVE  FALSE
  BY DEF MediaTimeFollowsPts, RegularStream
<1>3. Len(written) \in DOMAIN written
  BY <1>1, <1>2
<1>4. written[Len(written)].id \in Nat
  BY <1>3, EntryId
<1>. QED
  BY <1>2, <1>3, <1>4

\* The flushed file has no pending sample to compare it with.
LEMMA NonePendingIrregular ==
  ASSUME OrderInv', pending'.id = 0
  PROVE  MediaTimeFollowsPts'
<1>1. written' \in Seq(FileEntry)
  BY DEF OrderInv, TypeOK
<1>2. Len(written') \in Nat /\ DOMAIN written' = 1..Len(written')
  BY <1>1, LenProperties
<1>3. SUFFICES ASSUME Len(written') > 0, pending'.id = written'[Len(written')].id + 1
               PROVE  FALSE
  BY DEF MediaTimeFollowsPts, RegularStream
<1>4. written'[Len(written')].id \in Nat
  BY <1>1, <1>2, <1>3, EntryId
<1>. QED
  BY <1>3, <1>4

\* MediaTimeFollowsPts survives every step.
LEMMA MediaStep ==
  ASSUME OrderInv, StartInv, MediaTimeFollowsPts, [Next]_vars
  PROVE  MediaTimeFollowsPts'
<1>1. OrderInv'
  BY OrderStep
<1>2. /\ written \in Seq(FileEntry) /\ handled \in Nat
      /\ pending.id \in Nat /\ pending.id <= handled
  BY DEF OrderInv, TypeOK, Sample
<1>3. CASE Successor
  <2> DEFINE ticks == compute_duration_90k(pending, pending'.pts, last_duration, default_duration')
  <2>1. CASE /\ written' = Append(written, Entry(pending, ticks))
             /\ total_duration' = total_duration + Clamp(ticks)
    BY <1>1, <1>3, <2>1, RegularEmit DEF Successor
  <2>2. CASE written' = written /\ total_duration' = total_duration
    <3>1. ASSUME NEW i \in DOMAIN written PROVE written[i].id + 1 < pending'.id
      <4>1. written[i].id \in Nat
        BY <1>2, EntryId
      <4>2. written[i].id < pending.id /\ pending'.id = handled + 1
        BY <1>3 DEF OrderInv, InOrderOnce, Successor
      <4>. QED
        BY <1>2, <4>1, <4>2
    <3>. QED
      BY <1>2, <2>2, <3>1, GapIsIrregular
  <2>3. \/ /\ written' = Append(written, Entry(pending, ticks))
           /\ total_duration' = total_duration + Clamp(ticks)
        \/ written' = written /\ total_duration' = total_duration
    BY <1>3, EmitFile DEF Successor
  <2>. QED
    BY <2>1, <2>2, <2>3
<1>4. CASE First
  <2>1. written = <<>> /\ written' = written
    BY <1>4 DEF First, StartInv, file
  <2>2. Len(written') = 0
    BY <2>1, EmptySeq
  <2>. QED
    BY <2>2 DEF MediaTimeFollowsPts, RegularStream
<1>5. CASE Failing \/ UNCHANGED vars
  BY <1>5 DEF Failing, vars, file, MediaTimeFollowsPts, RegularStream
<1>6. CASE Flushing \/ Dropping
  BY <1>1, <1>6, NonePendingIrregular DEF Flushing, Dropping
<1>. QED
  BY <1>3, <1>4, <1>5, <1>6, StepKinds

-----------------------------------------------------------------------------
\* RecorderInv is inductive.
THEOREM RecorderInvariant == Spec => []RecorderInv
<1>1. Init => RecorderInv
  <2> SUFFICES ASSUME Init PROVE RecorderInv
    OBVIOUS
  <2>1. OrderInv
    BY OrderInit
  <2>2. /\ written = <<>> /\ total_duration = 0 /\ accepted = {} /\ skipped = {}
        /\ pending.id = 0 /\ state = "open"
    BY DEF Init, NoSample
  <2>3. Len(written) = 0 /\ DOMAIN written = {}
    BY <2>2, EmptySeq
  <2>. QED
    BY <2>1, <2>2, <2>3
    DEF RecorderInv, StartInv, NoSampleLost, MediaTimeFollowsPts, RegularStream
<1>2. RecorderInv /\ [Next]_vars => RecorderInv'
  BY OrderStep, StartStep, AccountStep, MediaStep DEF RecorderInv
<1>. QED
  BY <1>1, <1>2, PTL DEF Spec

\* The recorder's state stays well-typed; no duration goes negative.
THEOREM RecorderTyped == Spec => []TypeOK
<1>1. RecorderInv => TypeOK
  BY DEF RecorderInv, OrderInv
<1>. QED
  BY <1>1, RecorderInvariant, PTL

\* Unless the writer fails, every access unit that became pending ends up in the
\* file or is skipped by emit_pending; video_recorder_free leaves none behind.
THEOREM SamplesAccounted == Spec => []NoSampleLost
<1>1. RecorderInv => NoSampleLost
  BY DEF RecorderInv
<1>. QED
  BY <1>1, RecorderInvariant, PTL

\* However long a regular stream runs, the sum of the rounded durations stays
\* within one tick per sample of the time its stamps span.
THEOREM NoMediaDrift == Spec => []MediaTimeFollowsPts
<1>1. RecorderInv => MediaTimeFollowsPts
  BY DEF RecorderInv
<1>. QED
  BY <1>1, RecorderInvariant, PTL

\* The file holds each access unit at most once, in the order of arrival.
THEOREM WrittenInOrder == Spec => []InOrderOnce
<1>1. RecorderInv => InOrderOnce
  BY DEF RecorderInv, OrderInv
<1>. QED
  BY <1>1, RecorderInvariant, PTL

\* No stream makes compute_duration_90k write a zero or oversized duration.
THEOREM DurationsInRange == Spec => []DurationsWritable
<1>1. RecorderInv => DurationsWritable
  BY DEF RecorderInv, OrderInv
<1>. QED
  BY <1>1, RecorderInvariant, PTL
=============================================================================
