-------------------------------- MODULE Stream --------------------------------
(***************************************************************************)
(* wrap_stream_with_span (src/src/stream.rs): a stream of an LLM's answer  *)
(* passes through while its chunks are collected, partial outputs are      *)
(* logged to a span, and the end of the stream logs the whole output, ends *)
(* the span and flushes.                                                   *)
(*                                                                         *)
(* An item is one kind of chunk or an error of the source.  The `then`     *)
(* combinator runs one closure at a time.  The aggregate of the chunks     *)
(* keeps what may be cut over chunks: the text and the tool calls.         *)
(***************************************************************************)
EXTENDS Naturals, SequencesExt

CONSTANTS
  Items,          \* what the source may yield: records [kind, text, index, args]
  FlushInterval,  \* STREAMING_FLUSH_CHUNK_INTERVAL
  MaxItems        \* bound: items of the source

ASSUME StreamAssumption == FlushInterval \in Nat \ {0} /\ MaxItems \in Nat

VARIABLES
  source,      \* the items the source has yielded
  delivered,   \* the items the consumer has got
  closure,     \* where the closure of the last item is: "none", "ttft", "push",
               \* "count", "partial", "trigger" or "return"
  ttft,        \* ttft_recorded
  raw_chunks,  \* chunks pushed to the aggregator
  count,       \* chunk_count
  calls,       \* calls on the span: [op, output]
  finalize,    \* FinalizeState: "idle", "log", "end", "flush", "done"
  consumer     \* "polling", "ended" (has seen None) or "gone" (dropped the stream)

streamVars == <<source, delivered, closure, ttft, raw_chunks, count, calls, finalize, consumer>>

StreamInit ==
  /\ source = <<>> /\ delivered = <<>>
  /\ closure = "none"
  /\ ttft = FALSE
  /\ raw_chunks = <<>>
  /\ count = 0
  /\ calls = <<>>
  /\ finalize = "idle"
  /\ consumer = "polling"

Item == Last(source)

-----------------------------------------------------------------------------
(* Aggregation.  A chunk with kind "text" has text, one with kind "tool"   *)
(* carries a fragment of the arguments of the tool call with its index;    *)
(* "usage" and "other" chunks have none of it.                             *)

(* The chunks in S, in their order. *)
Those(chunks, S) ==
  LET f[n \in 0..Len(chunks)] ==
        IF n = 0 THEN <<>>
        ELSE IF chunks[n] \in S THEN Append(f[n - 1], chunks[n]) ELSE f[n - 1]
  IN f[Len(chunks)]

OfKind(chunks, kind) == Those(chunks, {c \in Items : c.kind = kind})
Texts(chunks) ==
  LET mine == OfKind(chunks, "text") IN [n \in DOMAIN mine |-> mine[n].text]
Indexes(chunks) == {c.index : c \in ToSet(OfKind(chunks, "tool"))}
Fragments(chunks, i) ==
  LET mine == Those(chunks, {c \in Items : c.kind = "tool" /\ c.index = i})
  IN [n \in DOMAIN mine |-> mine[n].args]

(* aggregate: the tool calls with index 0, 1, ... below their number. *)
Aggregate(chunks) ==
  [text |-> Texts(chunks),
   tool_calls |->
     [i \in Indexes(chunks) \cap 0..(Cardinality(Indexes(chunks)) - 1) |->
        Fragments(chunks, i)]]

-----------------------------------------------------------------------------
(* An item passes through the closure.                                     *)

Span(op, output) == calls' = Append(calls, [op |-> op, output |-> output])
Nothing == Aggregate(<<>>)

(* The consumer polls, the source yields an item; errors and keep-alive    *)
(* markers go straight through.                                            *)
Yield ==
  /\ consumer = "polling" /\ finalize = "idle" /\ closure = "none"
  /\ Len(source) < MaxItems
  /\ \E i \in Items :
       /\ source' = Append(source, i)
       /\ closure' = IF i.kind \in {"error", "keep_alive"} THEN "return" ELSE "ttft"
  /\ UNCHANGED <<delivered, ttft, raw_chunks, count, calls, finalize, consumer>>

(* value_has_content *)
HasContent(i) == i.kind \in {"text", "tool", "usage"}

(* `!ttft_recorded.swap(true) && value_has_content(value)` *)
RecordTtft ==
  /\ closure = "ttft"
  /\ ttft' = TRUE
  /\ IF ~ttft /\ HasContent(Item) THEN Span("ttft", Nothing) ELSE calls' = calls
  /\ closure' = "push"
  /\ UNCHANGED <<source, delivered, raw_chunks, count, finalize, consumer>>

Push ==
  /\ closure = "push"
  /\ raw_chunks' = Append(raw_chunks, Item)
  /\ closure' = "count"
  /\ UNCHANGED <<source, delivered, ttft, count, calls, finalize, consumer>>

(* Every FlushInterval chunks, or when enough time has passed. *)
Count ==
  /\ closure = "count"
  /\ count' = count + 1
  /\ closure' \in IF count' % FlushInterval = 0 THEN {"partial"} ELSE {"partial", "return"}
  /\ UNCHANGED <<source, delivered, ttft, raw_chunks, calls, finalize, consumer>>

LogPartial ==
  /\ closure = "partial"
  /\ Span("log", Aggregate(raw_chunks))
  /\ closure' = "trigger"
  /\ UNCHANGED <<source, delivered, ttft, raw_chunks, count, finalize, consumer>>

TriggerFlush ==
  /\ closure = "trigger"
  /\ Span("trigger_flush", Nothing)
  /\ closure' = "return"
  /\ UNCHANGED <<source, delivered, ttft, raw_chunks, count, finalize, consumer>>

Deliver ==
  /\ closure = "return"
  /\ delivered' = Append(delivered, Item)
  /\ closure' = "none"
  /\ UNCHANGED <<source, ttft, raw_chunks, count, calls, finalize, consumer>>

-----------------------------------------------------------------------------
(* The end of the source.                                                  *)

(* Mutant: the end is passed on and the span finalized behind it. *)
SourceEndsAtOnce ==
  /\ consumer = "polling" /\ finalize = "idle" /\ closure = "none"
  /\ finalize' = "log"
  /\ consumer' = "ended"
  /\ UNCHANGED <<source, delivered, closure, ttft, raw_chunks, count, calls>>

(* The inner stream returns None: span and aggregator are taken. *)
SourceEnds ==
  /\ consumer = "polling" /\ finalize = "idle" /\ closure = "none"
  /\ finalize' = "log"
  /\ UNCHANGED <<source, delivered, closure, ttft, raw_chunks, count, calls, consumer>>

(* Mutant: the output is logged unless a partial output was. *)
LogFinalOnce ==
  /\ finalize = "log" /\ consumer # "gone"
  /\ IF raw_chunks # <<>> /\ \A n \in DOMAIN calls : calls[n].op # "log"
     THEN Span("log", Aggregate(raw_chunks)) ELSE calls' = calls
  /\ finalize' = "end"
  /\ UNCHANGED <<source, delivered, closure, ttft, raw_chunks, count, consumer>>

(* finalize_span *)
LogFinal ==
  /\ finalize = "log" /\ consumer # "gone"
  /\ IF raw_chunks # <<>> THEN Span("log", Aggregate(raw_chunks)) ELSE calls' = calls
  /\ finalize' = "end"
  /\ UNCHANGED <<source, delivered, closure, ttft, raw_chunks, count, consumer>>

EndSpan ==
  /\ finalize = "end" /\ consumer # "gone"
  /\ Span("end", Nothing)
  /\ finalize' = "flush"
  /\ UNCHANGED <<source, delivered, closure, ttft, raw_chunks, count, consumer>>

(* Mutant: the end of an empty stream waits for a flush that never comes. *)
FlushOutput ==
  /\ finalize = "flush" /\ consumer # "gone" /\ raw_chunks # <<>>
  /\ Span("flush", Nothing)
  /\ finalize' = "done"
  /\ consumer' = "ended"
  /\ UNCHANGED <<source, delivered, closure, ttft, raw_chunks, count>>

(* span.flush() has returned, whatever it returned: now the consumer gets  *)
(* None.                                                                   *)
Flush ==
  /\ finalize = "flush" /\ consumer # "gone"
  /\ Span("flush", Nothing)
  /\ finalize' = "done"
  /\ consumer' = "ended"
  /\ UNCHANGED <<source, delivered, closure, ttft, raw_chunks, count>>

(* The consumer drops the stream between two polls, also where the closure *)
(* or the finalization waits for a lock or for the flush.                  *)
Drop ==
  /\ consumer = "polling"
  /\ closure # "ttft"
  /\ finalize \in {"idle", "log", "flush"}
  /\ consumer' = "gone"
  /\ UNCHANGED <<source, delivered, closure, ttft, raw_chunks, count, calls, finalize>>

Closure ==
  /\ consumer = "polling"
  /\ RecordTtft \/ Push \/ Count \/ LogPartial \/ TriggerFlush \/ Deliver

Finalize == LogFinal \/ EndSpan \/ Flush

StreamNext == Yield \/ Closure \/ SourceEnds \/ Finalize \/ Drop

StreamSpec == StreamInit /\ [][StreamNext]_streamVars

(* The consumer polls until it drops the stream, and the source ends. *)
StreamFairSpec ==
  /\ StreamSpec
  /\ WF_streamVars(Closure) /\ WF_streamVars(SourceEnds) /\ WF_streamVars(Finalize)

-----------------------------------------------------------------------------
Calls(op) == {n \in DOMAIN calls : calls[n].op = op}

(* Whoever sees the end of the stream finds the span ended exactly once,   *)
(* after its last output was logged, and flushed after that.               *)
EndIsComplete ==
  consumer = "ended" =>
    /\ Cardinality(Calls("end")) = 1
    /\ \A e \in Calls("end") :
         /\ \A n \in Calls("log") \cup Calls("ttft") : n < e
         /\ \E f \in Calls("flush") : e < f
    /\ Cardinality(Calls("flush")) = 1

(* The last output logged before the end is that of all the chunks the     *)
(* consumer got, however the periodic partial outputs fell: all the text   *)
(* in its order, each tool call whole, and every tool call unless the      *)
(* indexes have a gap.                                                     *)
ChunkItems == {i \in Items : i.kind \notin {"error", "keep_alive"}}
Chunks(items) == Those(items, ChunkItems)
OutputIsWhole ==
  Calls("end") # {} /\ Chunks(source) # <<>> =>
    /\ Calls("log") # {}
    /\ LET n == CHOOSE n \in Calls("log") : \A m \in Calls("log") : m <= n
           out == calls[n].output
           indexes == Indexes(delivered)
       IN /\ out.text = Texts(delivered)
          /\ indexes = 0..(Cardinality(indexes) - 1) => DOMAIN out.tool_calls = indexes
          /\ \A i \in DOMAIN out.tool_calls : out.tool_calls[i] = Fragments(delivered, i)

(* A consumer that polls on sees the end of the stream. *)
Ends == <>(consumer # "polling")
=============================================================================
