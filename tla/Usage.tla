------------------------------- MODULE Usage -------------------------------
(***************************************************************************)
(* The usage collector of the relay (usage.go): goroutines record events   *)
(* in the buffer of an API key, which they find, or create, under c.mu and *)
(* add to without it; flushLoop swaps the map of buffers at every tick and *)
(* once more after Stop, empties each buffer field by field and adds what  *)
(* it took to the day's row of the database, whose errors it ignores.      *)
(*                                                                         *)
(* Messages and Errors behave as Requests and are left out.  The day does  *)
(* not change.  A latency is 1 ms: sums are told apart from counts by when *)
(* they are added.  External: the database (its average is modelled by     *)
(* whether it is NULL) and the ticker.                                     *)
(***************************************************************************)
EXTENDS Naturals, Sequences

CONSTANTS Recorders,
          BufferKeys,   \* of c.buffer: a tenant with one of its API keys
          MaxStreams,   \* bound: the numbers of streams reported are up to it
          MaxCalls      \* bound: calls of Record* and UpdatePeakStreams

NoBufferKey == "none"
NoBuffer == 0

ASSUME UsageAssumption ==
  NoBufferKey \notin BufferKeys /\ MaxStreams \in Nat /\ MaxCalls \in Nat

\* The fields of UsageBuffer in the order in which Flush empties them.
FlushOrder == <<"requests", "peak", "latencySum", "latencyCount">>
Fields == {"requests", "peak", "latencySum", "latencyCount"}
Zero == [f \in Fields |-> 0]

\* A UsageBuffer has the number of the call that creates it.
Buffers == 1 .. MaxCalls

VARIABLES
  buffer,      \* c.buffer: key -> UsageBuffer or NoBuffer
  value,       \* the fields of each UsageBuffer
  calls,       \* calls made, which numbers them
  pc, call, bufferKey, todo, level, buf, loaded,
               \* each recorder: where it is, its call, the key and the fields it
               \* has to add to, the streams it reports, its buffer and the peak
               \* it has loaded
  loop,        \* flushLoop: "wait", "each", "swap", "upsert" or "ended"
  batch,       \* the map that Flush took
  target, next, hand,  \* the key being written, its next field, what was taken
  stopped, last,       \* ctx is cancelled; this Flush is the last one
  average,     \* rows whose avg_latency_ms is not NULL
  written,     \* history: what the rows of each key were given
  lost,        \* history: taken and not written, or added to a field that was
               \* taken before
  recorded,    \* history: everything recorded
  overlapped   \* history: recorders during whose call the map was swapped

recorderVars == <<pc, call, bufferKey, todo, level, buf, loaded>>
bufferVars == <<buffer, value>>
flushVars == <<loop, batch, target, next, hand, last>>
rowVars == <<average, written>>
usageVars == <<bufferVars, calls, recorderVars, flushVars, stopped, rowVars,
          lost, recorded, overlapped>>

Totals == [BufferKeys -> [Fields -> Nat]]
Larger(a, b) == IF a >= b THEN a ELSE b

\* How two reports of a field make one, in a buffer as in a row.
Merge(f, a, b) == IF f = "peak" THEN Larger(a, b) ELSE a + b
Merged(u, v) == [f \in Fields |-> Merge(f, u[f], v[f])]

UsageTypeOK ==
  /\ buffer \in [BufferKeys -> Buffers \cup {NoBuffer}]
  /\ value \in [Buffers -> [Fields -> Nat]]
  /\ calls \in 0 .. MaxCalls
  /\ pc \in [Recorders -> {"idle", "create", "add", "load", "cas"}]
  /\ call \in [Recorders -> 0 .. calls]
  /\ bufferKey \in [Recorders -> BufferKeys \cup {NoBufferKey}]
  /\ buf \in [Recorders -> Buffers \cup {NoBuffer}]
  /\ todo \in [Recorders -> {<<>>, <<"requests">>, <<"peak">>,
                           <<"latencySum", "latencyCount">>, <<"latencyCount">>}]
  /\ level \in [Recorders -> 0 .. MaxStreams] /\ loaded \in [Recorders -> Nat]
  /\ loop \in {"wait", "each", "swap", "upsert", "ended"}
  /\ batch \in [BufferKeys -> Buffers \cup {NoBuffer}]
  /\ target \in BufferKeys \cup {NoBufferKey} /\ next \in 1 .. Len(FlushOrder) + 1
  /\ hand \in [Fields -> Nat]
  /\ stopped \in BOOLEAN /\ last \in BOOLEAN
  /\ average \subseteq BufferKeys
  /\ written \in Totals /\ lost \in Totals /\ recorded \in Totals
  /\ overlapped \subseteq Recorders

UsageInit ==
  /\ buffer = [k \in BufferKeys |-> NoBuffer] /\ calls = 0
  /\ value = [b \in Buffers |-> Zero]
  /\ pc = [r \in Recorders |-> "idle"]
  /\ call = [r \in Recorders |-> 0] /\ bufferKey = [r \in Recorders |-> NoBufferKey]
  /\ todo = [r \in Recorders |-> <<>>] /\ buf = [r \in Recorders |-> NoBuffer]
  /\ level = [r \in Recorders |-> 0] /\ loaded = [r \in Recorders |-> 0]
  /\ loop = "wait" /\ batch = [k \in BufferKeys |-> NoBuffer]
  /\ target = NoBufferKey /\ next = 1 /\ hand = Zero
  /\ stopped = FALSE /\ last = FALSE
  /\ average = {}
  /\ \E none \in {[k \in BufferKeys |-> Zero]} :
       written = none /\ lost = none /\ recorded = none
  /\ overlapped = {}

-----------------------------------------------------------------------------
(* Recording.                                                              *)

Entry(fields) == IF fields = <<"peak">> THEN "load" ELSE "add"

\* The first half of getOrCreateBuffer: the map under the read lock.
Lookup(r, k, fields, streams) ==
  /\ pc[r] = "idle"
  /\ calls < MaxCalls
  /\ calls' = calls + 1
  /\ call' = [call EXCEPT ![r] = calls + 1]
  /\ bufferKey' = [bufferKey EXCEPT ![r] = k]
  /\ todo' = [todo EXCEPT ![r] = fields]
  /\ level' = [level EXCEPT ![r] = streams]
  /\ buf' = [buf EXCEPT ![r] = buffer[k]]
  /\ pc' = [pc EXCEPT ![r] = IF buffer[k] = NoBuffer THEN "create" ELSE Entry(fields)]
  /\ overlapped' = overlapped \ {r}
  /\ UNCHANGED <<bufferVars, loaded, flushVars, stopped, rowVars, lost, recorded>>

RecordRequest(r, k) == Lookup(r, k, <<"requests">>, 0)
RecordLatency(r, k) == Lookup(r, k, <<"latencySum", "latencyCount">>, 0)
UpdatePeakStreams(r, k, n) == Lookup(r, k, <<"peak">>, n)

\* Mutation of Create: no second look at the map.
CreateUnchecked(r) ==
  /\ pc[r] = "create"
  /\ buffer' = [buffer EXCEPT ![bufferKey[r]] = call[r]]
  /\ buf' = [buf EXCEPT ![r] = call[r]]
  /\ overlapped' = overlapped \ {r}
  /\ pc' = [pc EXCEPT ![r] = Entry(todo[r])]
  /\ UNCHANGED <<value, calls, call, bufferKey, todo, level, loaded, flushVars, stopped, rowVars,
                 lost, recorded>>

\* The second half: the double-check and the creation under the lock.
Create(r) ==
  /\ pc[r] = "create"
  /\ IF buffer[bufferKey[r]] # NoBuffer
     THEN /\ buf' = [buf EXCEPT ![r] = buffer[bufferKey[r]]]
          /\ UNCHANGED buffer
     ELSE /\ buffer' = [buffer EXCEPT ![bufferKey[r]] = call[r]]
          /\ buf' = [buf EXCEPT ![r] = call[r]]
  /\ overlapped' = overlapped \ {r}
  /\ pc' = [pc EXCEPT ![r] = Entry(todo[r])]
  /\ UNCHANGED <<value, calls, call, bufferKey, todo, level, loaded, flushVars, stopped, rowVars,
                 lost, recorded>>

\* Flush has emptied, or will never see, field f of buffer b.
Taken(b, k, f) ==
  /\ b # buffer[k]
  /\ b = batch[k] => target = k /\ \E i \in 1 .. next - 1 : FlushOrder[i] = f

Report(r, f, n) ==
  LET one == [g \in Fields |-> IF g = f THEN n ELSE 0]
      k == bufferKey[r]
  IN  /\ recorded' = [recorded EXCEPT ![k] = Merged(@, one)]
      /\ lost' = IF Taken(buf[r], k, f) THEN [lost EXCEPT ![k] = Merged(@, one)] ELSE lost

\* One field is done; after the last one the call returns.
FieldDone(r) ==
  IF Len(todo[r]) = 1
  THEN /\ pc' = [pc EXCEPT ![r] = "idle"]
       /\ call' = [call EXCEPT ![r] = 0] /\ bufferKey' = [bufferKey EXCEPT ![r] = NoBufferKey]
       /\ todo' = [todo EXCEPT ![r] = <<>>]
       /\ buf' = [buf EXCEPT ![r] = NoBuffer] /\ level' = [level EXCEPT ![r] = 0]
       /\ loaded' = [loaded EXCEPT ![r] = 0] /\ overlapped' = overlapped \ {r}
  ELSE /\ todo' = [todo EXCEPT ![r] = Tail(@)]
       /\ UNCHANGED <<pc, call, bufferKey, buf, level, loaded, overlapped>>

\* Add(1), or Add(latencyMs): atomic, without a lock.
Add(r) ==
  LET f == Head(todo[r])
  IN  /\ pc[r] = "add"
      /\ value' = [value EXCEPT ![buf[r]][f] = @ + 1]
      /\ Report(r, f, 1)
      /\ FieldDone(r)
      /\ UNCHANGED <<buffer, calls, flushVars, stopped, rowVars>>

\* The loop of UpdatePeakStreams: load, compare, compare-and-swap.
LoadPeak(r) ==
  /\ pc[r] = "load"
  /\ IF level[r] <= value[buf[r]]["peak"]
     THEN FieldDone(r)
     ELSE /\ pc' = [pc EXCEPT ![r] = "cas"]
          /\ loaded' = [loaded EXCEPT ![r] = value[buf[r]]["peak"]]
          /\ UNCHANGED <<call, bufferKey, todo, buf, level, overlapped>>
  /\ UNCHANGED <<bufferVars, calls, flushVars, stopped, rowVars, lost, recorded>>

\* Mutation of SwapPeak: a store instead of the compare-and-swap.
StorePeak(r) ==
  /\ pc[r] = "cas"
  /\ value' = [value EXCEPT ![buf[r]]["peak"] = level[r]]
  /\ Report(r, "peak", level[r])
  /\ FieldDone(r)
  /\ UNCHANGED <<buffer, calls, flushVars, stopped, rowVars>>

SwapPeak(r) ==
  /\ pc[r] = "cas"
  /\ IF value[buf[r]]["peak"] = loaded[r]
     THEN /\ value' = [value EXCEPT ![buf[r]]["peak"] = level[r]]
          /\ Report(r, "peak", level[r])
          /\ FieldDone(r)
     ELSE /\ pc' = [pc EXCEPT ![r] = "load"]
          /\ loaded' = [loaded EXCEPT ![r] = 0]
          /\ UNCHANGED <<value, call, bufferKey, todo, buf, level, overlapped, recorded, lost>>
  /\ UNCHANGED <<buffer, calls, flushVars, stopped, rowVars>>

-----------------------------------------------------------------------------
(* flushLoop and Flush.                                                    *)

Using(r) == pc[r] # "idle"

\* The map is replaced under the lock; Flush returns if it was empty.
TakeMap(final) ==
  /\ loop = "wait"
  /\ batch' = buffer
  /\ buffer' = [k \in BufferKeys |-> NoBuffer]
  /\ loop' = IF \E k \in BufferKeys : buffer[k] # NoBuffer THEN "each"
             ELSE IF final THEN "ended" ELSE "wait"
  /\ last' = final
  /\ overlapped' = overlapped \cup {r \in Recorders : Using(r)}
  /\ UNCHANGED <<value, calls, recorderVars, target, next, hand, stopped,
                 rowVars, lost, recorded>>

\* The two cases of the select; when both are ready, either is taken.
TickFlush == TakeMap(FALSE)

\* Mutation of FinalFlush: the loop returns without a last Flush.
FinalFlushNot ==
  /\ stopped /\ loop = "wait"
  /\ loop' = "ended" /\ last' = TRUE
  /\ UNCHANGED <<bufferVars, calls, recorderVars, batch, target, next, hand, stopped,
                 rowVars, lost, recorded, overlapped>>

FinalFlush == stopped /\ TakeMap(TRUE)

\* The range over the batch, in any order.
NextBuffer(k) ==
  /\ loop = "each"
  /\ batch[k] # NoBuffer
  /\ loop' = "swap" /\ target' = k /\ next' = 1 /\ hand' = Zero
  /\ UNCHANGED <<bufferVars, calls, recorderVars, batch, last, stopped, rowVars,
                 lost, recorded, overlapped>>

\* Swap(0) of one field.
SwapField ==
  LET f == FlushOrder[next]
      b == batch[target]
  IN  /\ loop = "swap"
      /\ hand' = [hand EXCEPT ![f] = value[b][f]]
      /\ value' = [value EXCEPT ![b][f] = 0]
      /\ next' = next + 1
      /\ loop' = IF next = Len(FlushOrder) THEN "upsert" ELSE "swap"
      /\ UNCHANGED <<buffer, calls, recorderVars, batch, target, last, stopped,
                     rowVars, lost, recorded, overlapped>>

\* A sum without a count gives no average: it is not written.
Given == [hand EXCEPT !["latencySum"] = IF hand["latencyCount"] = 0 THEN 0 ELSE @]
Ungiven == [Zero EXCEPT !["latencySum"] = hand["latencySum"] - Given["latencySum"]]

UpsertDone ==
  /\ loop = "upsert"
  /\ batch' = [batch EXCEPT ![target] = NoBuffer]
  /\ target' = NoBufferKey /\ next' = 1 /\ hand' = Zero
  /\ loop' = "each"
  /\ UNCHANGED <<bufferVars, calls, recorderVars, last, stopped, recorded, overlapped>>

\* upsertUsage: requests are added up, the peak is the greatest.  NULL * x and
\* NULL + x are NULL, so COALESCE leaves what VALUES(avg_latency_ms) is.
Upsert ==
  /\ UpsertDone
  /\ written' = [written EXCEPT ![target] = Merged(@, Given)]
  /\ lost' = [lost EXCEPT ![target] = Merged(@, Ungiven)]
  /\ average' = IF hand["latencyCount"] > 0 THEN average \cup {target} ELSE average \ {target}

\* External: the statement fails, and its error is ignored.
UpsertFails ==
  /\ UpsertDone
  /\ lost' = [lost EXCEPT ![target] = Merged(@, hand)]
  /\ UNCHANGED <<average, written>>

\* The range is over: back to the select, or the end of the goroutine.
Flushed ==
  /\ loop = "each"
  /\ \A k \in BufferKeys : batch[k] = NoBuffer
  /\ loop' = IF last THEN "ended" ELSE "wait"
  /\ UNCHANGED <<bufferVars, calls, recorderVars, batch, target, next, hand, last, stopped,
                 rowVars, lost, recorded, overlapped>>

Stop ==
  /\ ~stopped
  /\ stopped' = TRUE
  /\ UNCHANGED <<bufferVars, calls, recorderVars, flushVars, rowVars, lost, recorded, overlapped>>

-----------------------------------------------------------------------------
RecorderStep(r) ==
  \/ Create(r) \/ Add(r) \/ LoadPeak(r) \/ SwapPeak(r)
  \/ \E k \in BufferKeys :
       \/ RecordRequest(r, k) \/ RecordLatency(r, k)
       \/ \E n \in 1 .. MaxStreams : UpdatePeakStreams(r, k, n)

FlushStep ==
  \/ FinalFlush \/ (\E k \in BufferKeys : NextBuffer(k)) \/ SwapField
  \/ Upsert \/ UpsertFails \/ Flushed

UsageNext == (\E r \in Recorders : RecorderStep(r)) \/ TickFlush \/ FlushStep \/ Stop

\* flushLoop is a goroutine of its own, the ticker ticks, and a select that
\* finds ctx.Done ready again and again takes it some day.
UsageFairness == WF_usageVars(FlushStep) /\ WF_usageVars(TickFlush) /\ SF_usageVars(FinalFlush)
UsageSpec == UsageInit /\ [][UsageNext]_usageVars /\ UsageFairness

-----------------------------------------------------------------------------
InMap(k, f) == IF buffer[k] = NoBuffer THEN 0 ELSE value[buffer[k]][f]
InBatch(k, f) ==
  IF batch[k] = NoBuffer \/ Taken(batch[k], k, f) THEN 0 ELSE value[batch[k]][f]
InHand(k, f) == IF k = target THEN hand[f] ELSE 0

\* Every event recorded is in exactly one place: written to the database,
\* waiting in the key's one buffer or in the hands of Flush, or lost, by a
\* statement that failed or by being added to a field Flush had taken before.
\* No event is counted twice, and a key never has two buffers in use.
Conserved ==
  \A k \in BufferKeys, f \in Fields :
    LET stored == Merge(f, written[k][f], lost[k][f])
        waiting == Merge(f, InMap(k, f), Merge(f, InBatch(k, f), InHand(k, f)))
    IN  recorded[k][f] = Merge(f, stored, waiting)

\* An event comes too late only when the map was swapped while its call was
\* under way: a call that finds its buffer after the last swap always counts.
LateOnlyAcrossFlush ==
  \A r \in Recorders : pc[r] \in {"add", "load", "cas"} =>
    buf[r] = buffer[bufferKey[r]] \/ r \in overlapped

\* A buffer in use before the last Flush is emptied some day, and Stop is
\* followed by a last Flush, whatever else is ready at the select.
StoppedIsFlushed ==
  /\ stopped ~> loop = "ended"
  /\ \A k \in BufferKeys, b \in Buffers :
       buffer[k] = b /\ ~last ~> buffer[k] # b /\ batch[k] # b

-----------------------------------------------------------------------------
(* What makes Conserved inductive.                                         *)

\* No two keys share a buffer, no key has its buffer in both maps, and the
\* buffer a call will create is in none and has never been added to.
OneKeyPerBuffer ==
  /\ \A j, k \in BufferKeys :
       /\ buffer[j] = buffer[k] /\ buffer[j] # NoBuffer => j = k
       /\ batch[j] = batch[k] /\ batch[j] # NoBuffer => j = k
       /\ buffer[j] = batch[k] => buffer[j] = NoBuffer
  /\ \A n \in Buffers :
       n > calls \/ (\E r \in Recorders : pc[r] = "create" /\ call[r] = n) =>
         /\ value[n] = Zero
         /\ \A k \in BufferKeys : buffer[k] # n /\ batch[k] # n
         /\ \A r \in Recorders : buf[r] # n

\* What a call that is under way has in hand.
CallsInPlace ==
  /\ \A q, r \in Recorders : call[q] = call[r] /\ call[q] # 0 => q = r
  /\ \A r \in Recorders :
       /\ pc[r] = "idle" <=> todo[r] = <<>>
       /\ pc[r] = "idle" => call[r] = 0 /\ buf[r] = NoBuffer
       /\ pc[r] # "idle" => call[r] # 0 /\ bufferKey[r] \in BufferKeys
       /\ pc[r] = "create" => buf[r] = NoBuffer
       /\ pc[r] \in {"load", "cas"} => todo[r] = <<"peak">>
       /\ pc[r] = "add" => todo[r] # <<"peak">>
       /\ pc[r] \in {"add", "load", "cas"} =>
            /\ buf[r] # NoBuffer
            /\ \A k \in BufferKeys : buf[r] \in {buffer[k], batch[k]} => k = bufferKey[r]
       /\ pc[r] = "cas" => loaded[r] < level[r]

\* What Flush has in hand.
FlushInPlace ==
  /\ loop \in {"wait", "ended"} => \A k \in BufferKeys : batch[k] = NoBuffer
  /\ loop \in {"swap", "upsert"} <=> target # NoBufferKey
  /\ target # NoBufferKey => batch[target] # NoBuffer
  /\ loop = "swap" => next <= Len(FlushOrder)
  /\ loop = "upsert" => next = Len(FlushOrder) + 1
  /\ \A i \in DOMAIN FlushOrder : i >= next \/ target = NoBufferKey => hand[FlushOrder[i]] = 0

UsageInv ==
  /\ UsageTypeOK
  /\ OneKeyPerBuffer
  /\ CallsInPlace
  /\ FlushInPlace
  /\ LateOnlyAcrossFlush
  /\ Conserved

-----------------------------------------------------------------------------
\* control-plane-design.md 7.3: the average latency of a day is an average, so
\* a day that has one keeps one.
AverageKept == [][average \subseteq average']_usageVars
=============================================================================
