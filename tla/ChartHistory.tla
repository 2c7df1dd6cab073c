---------------------------- MODULE ChartHistory ----------------------------
(***************************************************************************)
(* spread_history: the chart samples of each series and minute, reduced to    *)
(* first, lowest, highest and last, buffered in memory (HistoryBuffer) and    *)
(* merged into an SQLite file (HistoryStore.persist) by another thread, in    *)
(* batches that may fail; the process may die. The chunk of an hour holds all *)
(* minutes of a series here, and a day's file all chunks of a batch or fewer. *)
(***************************************************************************)
EXTENDS Integers, SequencesExt, FiniteSets

CONSTANTS Series,       \* symbol, exchange and metric
          Quotes,       \* the values a series may have
          Minute,       \* time units in a minute
          MaxGap,       \* MAX_GAP
          MaxMinutes,   \* records the buffer may hold (24000)
          Batch,        \* chunks in one transaction (50)
          MaxTime,      \* bound: the end of time
          MaxFaults,    \* bound: transactions that fail
          MayDie        \* bound: whether the process may die (once)

ASSUME HistoryAssumption ==
  /\ IsFiniteSet(Series) /\ Quotes \subseteq Int /\ Minute \in Nat \ {0} /\ MaxGap \in Nat
  /\ MaxMinutes \in Nat \ {0} /\ Batch \in Nat \ {0}
  /\ MaxTime \in Nat /\ MaxFaults \in Nat /\ MayDie \in BOOLEAN

VARIABLES time, quote,   \* the value read at each time, the same for every series
          minutes,      \* HistoryBuffer.minutes, in the dict's order
          todo,         \* the rest of the snapshot persist is writing: chunks of records
          acks,         \* the committed part it has yet to acknowledge
          disk,         \* the saved segments of each series and minute
          onDisk,       \* history: the samples they stand for
          accepted,     \* history: every sample the buffer took
          counted,      \* history: those in evictions HistoryBuffer.dropped counts, or
                        \* in the memory of a process that died
          overflowed,   \* history: keys of which an unsaved record was dropped
          faults, crashed

writing == <<todo, acks>>
file == <<disk, onDisk>>
chartVars == <<time, quote, minutes, writing, file, accepted, counted, overflowed, faults, crashed>>

Times == 0 .. MaxTime
MinuteOf(t) == t \div Minute
Keys == Series \X {MinuteOf(t) : t \in Times}
NoSamples == [k \in Keys |-> {}]

ChartInit == /\ time = 0 /\ quote \in [Times -> Quotes]
        /\ minutes = <<>> /\ todo = {} /\ acks = {}
        /\ disk = [k \in Keys |-> <<>>] /\ onDisk = NoSamples
        /\ accepted = NoSamples /\ counted = NoSamples
        /\ overflowed = {} /\ faults = 0 /\ crashed = FALSE

-----------------------------------------------------------------------------
\* extrema, on times in order: first, earliest lowest, earliest highest, last.
Ordered(T) == [n \in 1 .. Cardinality(T) |->
                 CHOOSE t \in T : Cardinality({u \in T : u < t}) = n - 1]
Picked(s, I) == [n \in 1 .. Cardinality(I) |-> s[Ordered(I)[n]]]
Lowest(T) == {t \in T : \A u \in T : quote[t] < quote[u] \/ (quote[t] = quote[u] /\ t <= u)}
Highest(T) == {t \in T : \A u \in T : quote[t] > quote[u] \/ (quote[t] = quote[u] /\ t <= u)}
Ends(T) == {t \in T : (\A u \in T : u <= t) \/ (\A u \in T : t <= u)}
Extremes(T) == Lowest(T) \cup Highest(T) \cup Ends(T)
Extrema(T) == Ordered(Extremes(T))

\* add_point: a gap opens a segment.
LastTime(segments) == Last(Last(segments))
AddPoint(segments, t) ==
  IF segments = <<>> \/ t - LastTime(segments) > MaxGap THEN Append(segments, <<t>>)
  ELSE Append(Front(segments), Extrema(ToSet(Last(segments)) \cup {t}))
Takes(r, t) == r.segments = <<>> \/ t > LastTime(r.segments)

NewRecord(k) == [key |-> k, segments |-> <<>>, version |-> 0, saved |-> 0, all |-> {}]
Sampled(r, t) == IF Takes(r, t)
                 THEN [r EXCEPT !.segments = AddPoint(@, t), !.version = @ + 1, !.all = @ \cup {t}]
                 ELSE r
Has(records, k) == \E r \in records : r.key = k
RecordOf(records, k) == CHOOSE r \in records : r.key = k
Buffered == ToSet(minutes)

\* Too many records: those of the oldest minutes go, the first inserted of equals.
Older(s, i, j) == \/ s[i].key[2] < s[j].key[2]
                  \/ s[i].key[2] = s[j].key[2] /\ i < j
Evicted(s) == {i \in DOMAIN s : Cardinality({j \in DOMAIN s : Older(s, j, i)}) + MaxMinutes < Len(s)}
Unsaved(r) == r.version # r.saved

\* HistoryBuffer.observe: samples of some series, read now or a moment ago.
sample ==
  \E S \in SUBSET Series \ {{}}, t \in {time - 1, time} \cap Times :
    LET keys  == {<<s, MinuteOf(t)>> : s \in S}
        fresh == {Sampled(NewRecord(k), t) : k \in {x \in keys : ~ Has(Buffered, x)}}
        known == [i \in DOMAIN minutes |-> IF minutes[i].key \in keys THEN Sampled(minutes[i], t) ELSE minutes[i]]
    IN \E added \in Bijection(1 .. Cardinality(fresh), fresh) :
         LET full == known \o added
             out  == Evicted(full)
             lost == {full[i] : i \in {j \in out : Unsaved(full[j])}}
         IN /\ full # minutes
            /\ minutes' = Picked(full, DOMAIN full \ out)
            /\ accepted' = [k \in Keys |-> accepted[k] \cup UNION {r.all : r \in {x \in ToSet(full) : x.key = k}}]
            /\ counted' = [k \in Keys |-> counted[k] \cup UNION {r.all : r \in {x \in lost : x.key = k}}]
            /\ overflowed' = overflowed \cup {r.key : r \in lost}
            /\ UNCHANGED <<time, quote, writing, file, faults, crashed>>

-----------------------------------------------------------------------------
\* HistoryBuffer.snapshot: saved records of past minutes leave, unsaved ones are copied,
\* one chunk for each series.
Past(r) == r.key[2] < MinuteOf(time)
Forget(r) == ~ Unsaved(r) /\ Past(r)
ChunkOf(s) == {r \in Buffered : Unsaved(r) /\ r.key[1] = s}
snapshot ==
  /\ todo = {} /\ acks = {} /\ minutes # <<>>
  /\ minutes' = Picked(minutes, {i \in DOMAIN minutes : ~ Forget(minutes[i])})
  /\ todo' = {ChunkOf(s) : s \in Series} \ {{}}
  /\ UNCHANGED <<time, quote, acks, file, accepted, counted, overflowed, faults, crashed>>

\* merge_minutes: the points of both, over the ranges both cover; ranges no farther
\* apart than a gap are one.
Points(segments) == UNION {ToSet(segments[i]) : i \in DOMAIN segments}
Ranges(segments) == {<<Head(segments[i]), Last(segments[i])>> : i \in DOMAIN segments}
Openings(ranges) == {r[1] : r \in {x \in ranges : \A y \in ranges : y[1] < x[1] => x[1] - y[2] > MaxGap}}
EndOf(ranges, from) ==
  Max({r[2] : r \in {x \in ranges : from <= x[1] /\ \A b \in Openings(ranges) : b <= x[1] => b <= from}})
Replaced(old, new) == new
Merged(old, new) ==
  LET points == Points(old) \cup Points(new)
      ranges == Ranges(old) \cup Ranges(new)
      starts == Ordered(Openings(ranges))
  IN [i \in 1 .. Cardinality(Openings(ranges)) |->
        Extrema({t \in points : starts[i] <= t /\ t <= EndOf(ranges, starts[i])})]

\* One transaction: some chunks, merged into what the file has.
commit ==
  /\ acks = {} /\ \E part \in SUBSET todo \ {{}} :
       /\ Cardinality(part) <= Batch /\ todo' = todo \ part /\ acks' = UNION part
       /\ disk' = [k \in Keys |-> IF Has(acks', k) THEN Merged(disk[k], RecordOf(acks', k).segments) ELSE disk[k]]
       /\ onDisk' = [k \in Keys |-> IF Has(acks', k) THEN onDisk[k] \cup RecordOf(acks', k).all ELSE onDisk[k]]
  /\ UNCHANGED <<time, quote, minutes, accepted, counted, overflowed, faults, crashed>>

\* A failure leaves the rest of the snapshot for the next one.
fail ==
  /\ todo # {} /\ acks = {} /\ faults < MaxFaults /\ faults' = faults + 1
  /\ todo' = {}
  /\ UNCHANGED <<time, quote, minutes, acks, file, accepted, counted, overflowed, crashed>>

\* HistoryBuffer.acknowledge: saved up to the version that was copied.
CurrentVersion(r, copy) == r.version
FirstVersion(r, copy) == IF r.saved = 0 THEN copy.version ELSE r.saved
SavedVersion(r, copy) == IF copy.version > r.saved THEN copy.version ELSE r.saved
acknowledge ==
  /\ acks # {} /\ acks' = {}
  /\ minutes' = [i \in DOMAIN minutes |->
                   IF Has(acks, minutes[i].key)
                   THEN [minutes[i] EXCEPT !.saved = SavedVersion(minutes[i], RecordOf(acks, minutes[i].key))]
                   ELSE minutes[i]]
  /\ UNCHANGED <<time, quote, todo, file, accepted, counted, overflowed, faults, crashed>>

crash ==
  /\ MayDie /\ ~ crashed /\ crashed' = TRUE
  /\ minutes' = <<>> /\ todo' = {} /\ acks' = {}
  /\ counted' = [k \in Keys |-> counted[k] \cup UNION {r.all : r \in {x \in Buffered : x.key = k}}]
  /\ UNCHANGED <<time, quote, file, accepted, overflowed, faults>>

tick == time < MaxTime /\ time' = time + 1
        /\ UNCHANGED <<quote, minutes, writing, file, accepted, counted, overflowed, faults, crashed>>

ChartNext == sample \/ snapshot \/ commit \/ fail \/ acknowledge \/ crash \/ tick
ChartSpec == ChartInit /\ [][ChartNext]_chartVars
\* background_spread_history persists every few seconds, whatever failed before.
ChartFairness == /\ WF_chartVars(snapshot) /\ WF_chartVars(commit)
                 /\ WF_chartVars(acknowledge) /\ WF_chartVars(tick)
FairChart == ChartSpec /\ ChartFairness

-----------------------------------------------------------------------------
\* What a minute should be: its samples cut at every gap, each part reduced.
GapStarts(T) == {t \in T : \A u \in T : t - u > MaxGap \/ u >= t}
Part(T, from) == {t \in T : from <= t /\ \A b \in GapStarts(T) : b <= t => b <= from}
Reduction(T) == [i \in 1 .. Cardinality(GapStarts(T)) |-> Extrema(Part(T, Ordered(GapStarts(T))[i]))]

\* "A restart can write the same minute: merge observations, not replace it": however a
\* minute reached the file, over retries, evictions and deaths of the process, it is what
\* reducing all its saved samples at once gives. No peak is lost and no gap bridged.
FileIsExact == \A k \in Keys : disk[k] = Reduction(onDisk[k])

Kept(k, t) == \/ t \in onDisk[k] \/ t \in counted[k]
              \/ \E r \in Buffered : r.key = k /\ Unsaved(r) /\ t \in r.all

\* Every sample is in the file, or in a record that is still to be written, or was
\* counted as dropped, in every minute whose unsaved record the overflowing buffer never
\* dropped. An acknowledgement never marks a later sample as saved.
NoSilentLoss == \A k \in Keys \ overflowed : \A t \in accepted[k] : Kept(k, t)

\* "Ack does not erase concurrent observation" (the title of a test), in any minute.
AckErasesNothing == \A k \in Keys : \A t \in accepted[k] : Kept(k, t)

\* The records of past minutes are written and leave the memory: again and again none
\* of them is left, with the same exception.
Lingers(k) == Has(Buffered, k) /\ k[2] < MinuteOf(time)
PastMinutesLeave == []<>(\A k \in Keys \ overflowed : ~ Lingers(k))

\* A chart shows every sample there was, once, or says how many it lacks.
ChartIsWhole == FileIsExact /\ NoSilentLoss
=============================================================================
