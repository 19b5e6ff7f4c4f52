-------------------------------- MODULE Span --------------------------------
(***************************************************************************)
(* Spans (src/src/span.rs): built, exported to children, logged to, ended  *)
(* and updated by several threads that hold clones of a handle.  Each call *)
(* changes the data and takes a snapshot under the mutex, and submits the  *)
(* snapshot after it has released the mutex.                               *)
(*                                                                         *)
(* Submitting is what LogQueue, FlushPipeline and SendBatch make of it: a  *)
(* row is lost, or reaches the server in the order of submission.  What a  *)
(* call writes is one path, and the value there is the time of the call.   *)
(***************************************************************************)
EXTENDS Naturals, JsonMerge, SpanComponents

CONSTANTS
  Threads,   \* threads with clones of the handles
  Roots,     \* what a program gives to the builder of a root: records [parent,
             \* project] of a ParentSpanInfo and a project name or None
  IdForms,   \* forms of the text of span ids
  Paths,     \* what a log writes
  Updated,   \* what an update_span writes
  MaxRoots,  \* bound: spans built with one of Roots
  MaxSpans,  \* bound: spans of a program
  MaxCalls   \* bound: calls that write

ASSUME SpanAssumption == MaxRoots \in Nat /\ MaxSpans \in Nat /\ MaxCalls \in Nat

IsId(id) == id # None /\ id = [number |-> id.number, form |-> id.form]

(* ParentSpanInfo, or none.  Only fields of type Option may be absent. *)
IsParent(p) ==
  \/ p.kind \in {"none", "project_name"}
  \/ p.kind \in {"experiment", "project_logs", "playground_logs", "dataset"} /\ p.id # None
  \/ /\ p.kind = "full_span" /\ p.type \in {"experiment", "project_logs", "playground_logs"}
     /\ IsId(p.span_id) /\ IsId(p.root_span_id)

ASSUME RootsAssumption ==
  /\ \A r \in Roots :
       IsParent(r.parent) /\ None # [project_id |-> None, project_name |-> r.project]
  /\ \A n \in 1..MaxSpans : n # None /\ \A f \in IdForms : [number |-> n, form |-> f] # None

VARIABLES
  spans,    \* the spans built, as SpanComponents describes them
  tree,     \* tree[s]: the span that s was made a child of, 0 for none
  data,     \* data[s]: SpanData, [content, ended, has_flushed, taken]
  pending,  \* pending[t]: the snapshot that t has yet to submit
  rows,     \* rows[s]: the rows of s that were submitted, [taken, is_merge, stored]
  server,   \* server[k]: the content of the row with destination and id k
  clock     \* calls so far

vars == <<spans, tree, data, pending, rows, server, clock>>

Empty == [p \in {} |-> 0]
NoRow == [span |-> 0]
End   == <<"metrics", "end">>

Init ==
  /\ spans = <<>> /\ tree = <<>> /\ data = <<>> /\ rows = <<>>
  /\ pending = [t \in Threads |-> NoRow]
  /\ server = Empty
  /\ clock = 0

-----------------------------------------------------------------------------
(* Building.                                                               *)

(* Ids are fresh, or those of an earlier span that is emitted again. *)
RowIds  == {Len(spans) + 1} \cup {spans[s].row_id : s \in DOMAIN spans}
SpanIds == {[number |-> Len(spans) + 1, form |-> f] : f \in IdForms}
             \cup {spans[s].span_id : s \in DOMAIN spans}

(* SpanBuilder::build, with the propagated event of the parent. *)
Build(parent, project, row_id, span_id, under) ==
  /\ Len(spans) < MaxSpans
  /\ spans' = Append(spans, [row_id |-> row_id, span_id |-> span_id,
                             project |-> project, parent |-> parent,
                             event |-> IF parent.kind = "full_span" THEN parent.event ELSE None])
  /\ tree' = Append(tree, under)
  /\ data' = Append(data, [content |-> Empty, ended |-> 0, has_flushed |-> FALSE, taken |-> 0])
  /\ rows' = Append(rows, <<>>)
  /\ UNCHANGED <<pending, server, clock>>

Exported(s) == Parse(ToStr(Export(spans[s])))

BuildRoot ==
  /\ Cardinality({s \in DOMAIN tree : tree[s] = 0}) < MaxRoots
  /\ \E r \in Roots, row_id \in RowIds, span_id \in SpanIds :
       Build(r.parent, r.project, row_id, span_id, 0)

(* The exported string of s becomes the parent of a span elsewhere. *)
BuildChild ==
  \E s \in DOMAIN spans, row_id \in RowIds, span_id \in SpanIds :
    LET parent == ToParentResolving(Exported(s)) IN
    Build(parent, None, row_id, span_id, s) /\ parent # Invalid

-----------------------------------------------------------------------------
(* Calls on a handle.                                                      *)

(* apply_span_log_to_data: an option replaces, maps and tags are extended. *)
Replaced == {"name", "input", "output", "expected", "error", "context"}
Applied(content, p, now) ==
  LET over(q) == IF Head(p) \in Replaced THEN Head(q) = Head(p) ELSE Conflict(p, q)
      kept == {q \in DOMAIN content : ~over(q)}
  IN [q \in kept \cup {p} |->
        IF q # p THEN content[q]
        ELSE IF ~United(p) THEN now
        ELSE IF p \in DOMAIN content THEN content[p] \cup {now} ELSE {now}]

WithEvent(content, event) == IF event = None THEN content ELSE MergeRowInto(content, event)

(* Mutant: has_flushed is known only once a row has been submitted. *)
SnapshotUnmarked(t, s, d) ==
  LET content == IF d.ended = 0 THEN d.content ELSE MergeRowInto(d.content, [p \in {End} |-> d.ended])
  IN /\ data' = [data EXCEPT ![s] = [content |-> content, ended |-> d.ended,
                                     has_flushed |-> TRUE, taken |-> d.taken + 1]]
     /\ pending' = [pending EXCEPT ![t] =
                      [span |-> s, taken |-> d.taken + 1, is_merge |-> rows[s] # <<>>,
                       content |-> WithEvent(content, spans[s].event)]]

(* Mutant: a snapshot holds what its own call wrote. *)
SnapshotOfCall(t, s, d) ==
  LET content == IF d.ended = 0 THEN d.content ELSE MergeRowInto(d.content, [p \in {End} |-> d.ended])
      fresh   == {p \in DOMAIN content : content[p] = clock + 1}
  IN /\ data' = [data EXCEPT ![s] = [content |-> content, ended |-> d.ended,
                                     has_flushed |-> TRUE, taken |-> d.taken + 1]]
     /\ pending' = [pending EXCEPT ![t] =
                      [span |-> s, taken |-> d.taken + 1, is_merge |-> d.has_flushed,
                       content |-> WithEvent([p \in fresh |-> content[p]], spans[s].event)]]

(* current_span_payload and SpanPayload::from, for the new data d of s. *)
Snapshot(t, s, d) ==
  LET content == IF d.ended = 0 THEN d.content ELSE MergeRowInto(d.content, [p \in {End} |-> d.ended])
  IN /\ data' = [data EXCEPT ![s] = [content |-> content, ended |-> d.ended,
                                     has_flushed |-> TRUE, taken |-> d.taken + 1]]
     /\ pending' = [pending EXCEPT ![t] =
                      [span |-> s, taken |-> d.taken + 1, is_merge |-> d.has_flushed,
                       content |-> WithEvent(content, spans[s].event)]]

Call(t) ==
  /\ pending[t] = NoRow
  /\ clock < MaxCalls
  /\ clock' = clock + 1
  /\ UNCHANGED <<spans, tree, rows, server>>

Log(t, s, p) ==
  /\ Call(t)
  /\ Snapshot(t, s, [data[s] EXCEPT !.content = Applied(@, p, clock + 1)])

(* end_with_time, which returns at once when the span has ended. *)
EndSpan(t, s) ==
  /\ Call(t)
  /\ data[s].ended = 0
  /\ Snapshot(t, s, [data[s] EXCEPT !.ended = clock + 1])

-----------------------------------------------------------------------------
(* Submission, and the server.                                             *)

Held(k) == IF k \in DOMAIN server THEN server[k] ELSE Empty

Receive(k, is_merge, content) ==
  server' = [l \in DOMAIN server \cup {k} |->
               IF l # k THEN server[l] ELSE IF is_merge THEN MergeRowInto(Held(k), content) ELSE content]

Key(s) == <<DestinationOfSpan(spans[s]), spans[s].row_id>>

(* The row may be lost: the queue is full, or its destination is missing. *)
Submit(t) ==
  /\ pending[t] # NoRow
  /\ LET r == pending[t] IN
     \E stored \in BOOLEAN :
       /\ stored => Key(r.span)[1] # Invalid
       /\ rows' = [rows EXCEPT ![r.span] = Append(@,
            [taken |-> r.taken, is_merge |-> r.is_merge, stored |-> stored])]
       /\ IF stored THEN Receive(Key(r.span), r.is_merge, r.content) ELSE server' = server
  /\ pending' = [pending EXCEPT ![t] = NoRow]
  /\ UNCHANGED <<spans, tree, data, clock>>

(* update_span on an exported span: one row that merges. *)
UpdateSpan(s, p) ==
  /\ clock < MaxCalls
  /\ Updatable(Exported(s))
  /\ LET c == Exported(s)
         content == Applied(Empty, p, clock + 1)
     IN \/ /\ DestinationOfUpdate(c) # Invalid
           /\ Receive(<<DestinationOfUpdate(c), c.row_id>>, TRUE, WithEvent(content, c.event))
        \/ server' = server
  /\ clock' = clock + 1
  /\ UNCHANGED <<spans, tree, data, pending, rows>>

Next ==
  \/ BuildRoot \/ BuildChild
  \/ \E s \in DOMAIN spans, p \in Updated : UpdateSpan(s, p)
  \/ \E t \in Threads :
       \/ Submit(t)
       \/ \E s \in DOMAIN spans : EndSpan(t, s) \/ \E p \in Paths : Log(t, s, p)

Spec == Init /\ [][Next]_vars

-----------------------------------------------------------------------------
(* However the threads of a span race, one of its rows replaces what the   *)
(* server has and all the others merge into it.  A span that is emitted    *)
(* again under its row id is built anew, and replaces once more.           *)
ReplacesOnce ==
  \A s \in DOMAIN spans :
    LET submitted == {i \in DOMAIN rows[s] : ~rows[s][i].is_merge}
        waiting   == {t \in Threads : pending[t].span = s /\ ~pending[t].is_merge}
    IN Cardinality(submitted) + Cardinality(waiting) <= 1

(* What p wrote at v is there, or something newer in its place. *)
HeldAt(k, p, v) ==
  \E q \in DOMAIN Held(k) :
    /\ Conflict(p, q)
    /\ IF United(p) THEN v \subseteq Held(k)[q] ELSE Held(k)[q] >= v

EventPaths(s) == IF spans[s].event = None THEN {} ELSE DOMAIN spans[s].event

(* No other span was built under the row id of s. *)
Alone(s) == \A r \in DOMAIN spans : spans[r].row_id = spans[s].row_id => r = s

(* Snapshots repeat everything, so that the last one makes up for all the  *)
(* rows lost before it: if the snapshots of a span that is alone on its    *)
(* row were submitted in the order they were taken and the last one was    *)
(* stored, the server holds all that was logged.  Only the propagated      *)
(* event is stronger.                                                      *)
LastSnapshotSuffices ==
  \A s \in DOMAIN spans :
    LET n == Len(rows[s]) IN
    /\ Alone(s)
    /\ n > 0 /\ n = data[s].taken
    /\ \A i \in 1..n : rows[s][i].taken = i
    /\ rows[s][n].stored
    => \A p \in DOMAIN data[s].content \ EventPaths(s) : HeldAt(Key(s), p, data[s].content[p])

(* Ids whose text is the one that format_hex writes. *)
FormsKept ==
  /\ IdForms \cap {"HEX16", "HEX32"} = {}
  /\ \A r \in Roots : r.parent.kind = "full_span" =>
       r.parent.root_span_id.form \notin {"HEX16", "HEX32"}

(* An export keeps the place where the rows of s go.  A span under a       *)
(* project name or a dataset is exported without it, one under a span that *)
(* names no place is exported under its own project, and a blank id or     *)
(* name becomes none.                                                      *)
ParentKept(s) ==
  CASE s.parent.kind = "none"         -> s.project # Blank
    [] s.parent.kind = "project_logs" -> s.parent.id # Blank
    [] s.parent.kind = "full_span"    -> Placed(s.parent)
    [] OTHER -> s.parent.kind \notin {"project_name", "dataset"}

(* No path that a program or a propagated event writes lies below another. *)
Events == {r.parent.event : r \in {q \in Roots : q.parent.kind = "full_span"}} \ {None}
Written == Paths \cup Updated \cup {End} \cup UNION {DOMAIN e : e \in Events}
PathsApart == \A p, q \in Written : Conflict(p, q) <=> p = q

(* Spans exported to one another form one trace: a child names its parent, *)
(* shares its root and its propagated event, and the place where its rows  *)
(* go if an export keeps that of its parent.                               *)
OneTrace ==
  \A c \in DOMAIN spans : tree[c] # 0 =>
    LET s == tree[c] IN
    /\ spans[c].parent.span_id = spans[s].span_id
    /\ RootOfSpan(spans[c]) = RootOfSpan(spans[s])
    /\ spans[c].event = spans[s].event
    /\ ParentKept(spans[s]) => DestinationOfSpan(spans[c]) = DestinationOfSpan(spans[s])

(* A span whose rows have a place that an export keeps can be exported as  *)
(* a parent and for an update, and the update goes to the row of the span. *)
ExportUsable ==
  \A s \in DOMAIN spans : DestinationOfSpan(spans[s]) # Invalid /\ ParentKept(spans[s]) =>
    LET c == Exported(s) IN
    /\ ToParentResolving(c) # Invalid
    /\ Updatable(c)
    /\ <<DestinationOfUpdate(c), c.row_id>> = Key(s)

(* Project logs with a blank id: the dump takes it for the id. *)
BlankLogs(c) == c.type = "project_logs" /\ c.object_id = Blank

(* The dump of a row that was dropped names the destination that the row   *)
(* would have had, whichever of its two forms it was in: of a span, or of  *)
(* an update of a span that was exported.                                  *)
DumpAgrees ==
  \A s \in DOMAIN spans :
    LET p == spans[s].parent
        c == Exported(s)
    IN /\ ~(p.kind = "full_span" /\ BlankLogs(p)) =>
            DumpOfSpan(spans[s]) \in {Invalid, DestinationOfSpan(spans[s])}
       /\ ~BlankLogs(c) => DumpOfUpdate(c) \in {Invalid, DestinationOfUpdate(c)}

(* What the server holds of a row is only ever replaced by newer values. *)
NothingLost ==
  [][\A k \in DOMAIN server : \A p \in DOMAIN server[k] :
       \E q \in DOMAIN server'[k] :
         /\ Conflict(p, q)
         /\ IF United(p) THEN server[k][p] \subseteq server'[k][q]
            ELSE server'[k][q] >= server[k][p]]_vars
=============================================================================
