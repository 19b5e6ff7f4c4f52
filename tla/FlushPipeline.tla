--------------------------- MODULE FlushPipeline ---------------------------
(***************************************************************************)
(* LogQueueCore::flush_internal (src/src/log_queue/queue.rs) after it has  *)
(* drained the queue: rows are prepared, grouped by credentials, cut in    *)
(* chunks, merged by row key, batched, and the batches of a chunk are sent *)
(* concurrently.                                                           *)
(*                                                                         *)
(* A row is its position in the order of submission; what it writes is a   *)
(* set of paths (see JsonMerge), and the value there is the row itself.    *)
(* Sending a batch is the contract of Delivery: what is sent may arrive    *)
(* several times, in parts, and as late as it likes, after the answer of   *)
(* its sender and after the flush too; Ok implies that all of it arrived.  *)
(* The flush is the first one of its rows' keys: what arrives late from an *)
(* earlier flush is the same matter as what arrives late within this one.  *)
(***************************************************************************)
EXTENDS Integers, FiniteSets, JsonMerge

CONSTANTS
  Inputs,         \* the sequences of rows a flush may drain; a row is a record
                  \* [token, org, orgName, project, id, merge, paths]
  Given,          \* project of a row whose destination needs no registration
  None,           \* no organisation name
  LoginOrgName,   \* login_state.org_name(), None when not logged in
  Checked,        \* config.checked_delivery
  ChunkSize,      \* max(1, min(batch_max_items, flush_chunk_size))
  BatchMaxItems   \* config.batch_max_items

(* A queue that is empty is not flushed. *)
ASSUME InputsAssumption ==
  \A s \in Inputs : /\ Len(s) \in Nat \ {0} /\ DOMAIN s = 1..Len(s)
                    /\ \A i \in DOMAIN s : s[i].merge \in BOOLEAN

ASSUME FlushPipelineAssumption ==
  /\ ChunkSize \in Nat \ {0}
  /\ BatchMaxItems \in Nat \ {0}
  /\ Checked \in BOOLEAN

VARIABLES
  rows,        \* the drained rows
  phase,       \* "prepare", "chunk", "sending" or "done"
  next,        \* the row to prepare next
  cache,       \* project_cache: the registered <<org, project>> pairs
  groups,      \* rows by (token, org), with the header of their requests
  group,       \* the group being sent
  offset,      \* rows of that group already cut in chunks
  sends,       \* the batches of the current chunk: sequence of records
  requests,    \* every batch handed to a sender so far
  server,      \* server[k]: the content the server holds for row key k
  arrived,     \* history: the merged rows that have reached the server
  overtaken,   \* history: the keys of which a row arrived late, after a later row
  failed,      \* rows that some step failed
  firstError,  \* first_error is set
  result       \* what flush_internal returned

vars == <<rows, phase, next, cache, groups, group, offset, sends, requests,
          server, arrived, overtaken, failed, firstError, result>>

delivery == <<server, arrived, overtaken>>

Empty == [f \in {} |-> 0]

Init ==
  /\ rows \in Inputs
  /\ phase = "prepare"
  /\ next = 1
  /\ cache = {}
  /\ groups = <<>>
  /\ group = 1
  /\ offset = 0
  /\ sends = <<>>
  /\ requests = {}
  /\ server = Empty
  /\ arrived = {}
  /\ overtaken = {}
  /\ failed = {}
  /\ firstError = FALSE
  /\ result = "none"

Return(error) ==
  /\ phase' = "done"
  /\ result' = IF Checked /\ error THEN "err" ELSE "ok"

-----------------------------------------------------------------------------
(* Preparation and grouping.                                               *)

(* The data-plane URL does not parse: all rows are lost. *)
BadUrl ==
  /\ phase = "prepare" /\ next = 1
  /\ failed' = DOMAIN rows
  /\ Return(TRUE)
  /\ UNCHANGED <<rows, next, cache, groups, group, offset, sends, requests,
                 delivery, firstError>>

(* `row.org_name.or_else(|| login_state.org_name())` *)
Header(r) == IF r.orgName # None THEN r.orgName ELSE LoginOrgName

(* What callers keep to: under one token an organisation has one name, and *)
(* the rows of one key are logged with one token.                          *)
HeadersAgree ==
  \A s \in Inputs : \A i, j \in DOMAIN s :
    s[i].token = s[j].token /\ s[i].org = s[j].org => Header(s[i]) = Header(s[j])

(* Mutant: rows are grouped by organisation alone. *)
SameGroupByOrg(g, r) == g.org = r.org

SameGroup(g, r) == g.token = r.token /\ g.org = r.org

(* Row i joins the group of its credentials, which its first row opens. *)
Enter(i) ==
  LET r == rows[i]
      g == SelectInSeq(groups, LAMBDA h : SameGroup(h, r))
  IN groups' = IF g # 0
               THEN [groups EXCEPT ![g].rows = Append(@, i)]
               ELSE Append(groups, [token |-> r.token, org |-> r.org,
                                    header |-> Header(r), rows |-> <<i>>])

(* prepare_row: the destination is given, cached, or registered now; it    *)
(* may also be missing, or the registration fail.                          *)
Prepare ==
  /\ phase = "prepare"
  /\ next <= Len(rows)
  /\ LET r == rows[next] IN
     \/ /\ Enter(next)
        /\ cache' = IF r.project = Given THEN cache
                    ELSE cache \cup {<<r.org, r.project>>}
        /\ UNCHANGED <<failed, firstError>>
     \/ /\ r.project = Given \/ <<r.org, r.project>> \notin cache
        /\ failed' = failed \cup {next}
        /\ firstError' = TRUE
        /\ UNCHANGED <<groups, cache>>
  /\ next' = next + 1
  /\ UNCHANGED <<rows, phase, group, offset, sends, requests, delivery, result>>

(* No row could be prepared, or the groups are sent one after another.     *)
Prepared ==
  /\ phase = "prepare"
  /\ next > Len(rows)
  /\ IF groups = <<>> THEN Return(firstError) ELSE phase' = "chunk" /\ result' = result
  /\ UNCHANGED <<rows, next, cache, groups, group, offset, sends, requests,
                 delivery, failed, firstError>>

-----------------------------------------------------------------------------
(* Chunks, merging and batches.                                            *)

(* RowKey::from_row *)
RowKey(r) == <<r.org, r.project, r.id>>

KeysApart ==
  \A s \in Inputs : \A i, j \in DOMAIN s :
    RowKey(s[i]) = RowKey(s[j]) => s[i].token = s[j].token

Content(i) == [p \in rows[i].paths |-> IF United(p) THEN {i} ELSE i]

(* Mutant: a row that does not merge is merged all the same. *)
MergeAlways(merged, i) ==
  LET m == SelectInSeq(merged, LAMBDA x : x.key = RowKey(rows[i])) IN
  IF m = 0
  THEN Append(merged, [key |-> RowKey(rows[i]), merge |-> rows[i].merge,
                       content |-> Content(i), from |-> {i}])
  ELSE [merged EXCEPT ![m].content = MergeRowInto(@, Content(i)), ![m].from = @ \cup {i}]

(* A row enters the IndexMap of its chunk: it is merged into the row with  *)
(* its key, which keeps its own is_merge, or replaces it, or is new.       *)
MergeInto(merged, i) ==
  LET r   == rows[i]
      new == [key |-> RowKey(r), merge |-> r.merge, content |-> Content(i), from |-> {i}]
      m   == SelectInSeq(merged, LAMBDA x : x.key = RowKey(r))
  IN  IF m = 0 THEN Append(merged, new)
      ELSE IF r.merge
           THEN [merged EXCEPT ![m].content = MergeRowInto(@, Content(i)), ![m].from = @ \cup {i}]
           ELSE [merged EXCEPT ![m] = [new EXCEPT !.from = @ \cup merged[m].from]]

MergeChunk(chunk) ==
  LET merged[n \in 0..Len(chunk)] == IF n = 0 THEN <<>> ELSE MergeInto(merged[n - 1], chunk[n])
  IN  merged[Len(chunk)]

(* batch_and_serialize_rows cuts the merged rows into consecutive batches, *)
(* batch b ending at ends[b].  Sizes are abstract: any cut that respects   *)
(* batch_max_items may result.                                             *)
Start(ends, b) == IF b = 1 THEN 0 ELSE ends[b - 1]

Cuts(merged) ==
  {ends \in UNION {[1..n -> 1..Len(merged)] : n \in 1..Len(merged)} :
     /\ ends[Len(ends)] = Len(merged)
     /\ \A b \in DOMAIN ends : ends[b] - Start(ends, b) \in 1..BatchMaxItems}

Batches(merged, ends) ==
  [b \in DOMAIN ends |-> SubSeq(merged, Start(ends, b) + 1, ends[b])]

Members(batch) == UNION {batch[n].from : n \in DOMAIN batch}

Size(g) == Len(groups[g].rows)
ChunkEnd == IF offset + ChunkSize < Size(group) THEN offset + ChunkSize ELSE Size(group)
Chunk == SubSeq(groups[group].rows, offset + 1, ChunkEnd)

(* The next chunk of the group is merged and its batches are handed out. *)
StartChunk ==
  /\ phase = "chunk"
  /\ LET merged == MergeChunk(Chunk) IN
     \E ends \in Cuts(merged) :
       /\ sends' = [n \in DOMAIN ends |->
                      [rows |-> Batches(merged, ends)[n], answer |-> "none"]]
       /\ requests' = requests \cup
            {[token |-> groups[group].token, header |-> groups[group].header,
              rows |-> Batches(merged, ends)[n]] : n \in DOMAIN ends}
  /\ offset' = ChunkEnd
  /\ phase' = "sending"
  /\ UNCHANGED <<rows, next, cache, groups, group, delivery, failed, firstError, result>>

(* Serialization of the chunk fails: it sends nothing. *)
ChunkFails ==
  /\ phase = "chunk"
  /\ sends' = <<>>
  /\ offset' = ChunkEnd
  /\ phase' = "sending"
  /\ failed' = failed \cup ToSet(Chunk)
  /\ firstError' = TRUE
  /\ UNCHANGED <<rows, next, cache, groups, group, requests, delivery, result>>

-----------------------------------------------------------------------------
(* The concurrent sends of one chunk, and join_all.                        *)

(* The server merges a row with is_merge into what it has, and takes any   *)
(* other row instead of what it has.                                       *)
Held(s, k) == IF k \in DOMAIN s THEN s[k] ELSE Empty
Apply(s, m) ==
  LET new == IF m.merge THEN MergeRowInto(Held(s, m.key), m.content) ELSE m.content
  IN [k \in DOMAIN s \cup {m.key} |-> IF k = m.key THEN new ELSE s[k]]

StoreAll(s, batch) ==
  LET held[n \in 0..Len(batch)] == IF n = 0 THEN s ELSE Apply(held[n - 1], batch[n])
  IN  held[Len(batch)]

Unanswered(n) == sends[n].answer = "none"

(* A merged row that some sender was given reaches the server, perhaps not *)
(* for the first time, and perhaps when its sender has given it up.        *)
Handed == UNION {ToSet(q.rows) : q \in requests}

Late(m) == \A n \in DOMAIN sends : Unanswered(n) => m \notin ToSet(sends[n].rows)

Overtakes(x, m) == x.key = m.key /\ Min(m.from) < Min(x.from)

Arrive(m) ==
  /\ server' = Apply(server, m)
  /\ arrived' = arrived \cup {m}
  /\ overtaken' = overtaken \cup
       {x.key : x \in {y \in arrived : Late(m) /\ Overtakes(y, m)}}
  /\ UNCHANGED <<rows, phase, next, cache, groups, group, offset, sends, requests,
                 failed, firstError, result>>

(* send_batch_with_retry returns for batch n. *)
Answer(n) ==
  /\ phase = "sending" /\ Unanswered(n)
  /\ \/ ToSet(sends[n].rows) \subseteq arrived /\ sends' = [sends EXCEPT ![n].answer = "ok"]
     \/ sends' = [sends EXCEPT ![n].answer = "err"]
  /\ UNCHANGED <<rows, phase, next, cache, groups, group, offset, requests, delivery,
                 failed, firstError, result>>

FailedSends == {n \in DOMAIN sends : sends[n].answer = "err"}

(* What follows the sends of a chunk: the next chunk, group, or the end. *)
Advance(error) ==
  IF offset < Size(group) THEN phase' = "chunk" /\ UNCHANGED <<group, offset, result>>
  ELSE IF group < Len(groups)
       THEN phase' = "chunk" /\ group' = group + 1 /\ offset' = 0 /\ result' = result
       ELSE Return(error) /\ UNCHANGED <<group, offset>>

(* Mutant: only the last chunk's errors are looked at. *)
EndChunkForgetting ==
  /\ phase = "sending"
  /\ \A n \in DOMAIN sends : ~Unanswered(n)
  /\ failed' = failed \cup UNION {Members(sends[n].rows) : n \in FailedSends}
  /\ firstError' = (FailedSends # {})
  /\ Advance(firstError')
  /\ sends' = <<>>
  /\ UNCHANGED <<rows, next, cache, groups, requests, delivery>>

(* Mutant: the next chunk does not wait for the sends of this one. *)
EndChunkWithoutWaiting ==
  /\ phase = "sending"
  /\ IF offset < Size(group)
     THEN /\ sends' = Append(sends, [rows |-> MergeChunk(Chunk), answer |-> "none"])
          /\ requests' = requests \cup
               {[token |-> groups[group].token, header |-> groups[group].header,
                 rows |-> MergeChunk(Chunk)]}
          /\ offset' = ChunkEnd
          /\ UNCHANGED <<phase, group, result, failed, firstError>>
     ELSE /\ \A n \in DOMAIN sends : ~Unanswered(n)
          /\ failed' = failed \cup UNION {Members(sends[n].rows) : n \in FailedSends}
          /\ firstError' = (firstError \/ FailedSends # {})
          /\ Advance(firstError')
          /\ sends' = <<>>
          /\ requests' = requests
  /\ UNCHANGED <<rows, next, cache, groups, delivery>>

(* join_all is over and the first error is kept. *)
EndChunk ==
  /\ phase = "sending"
  /\ \A n \in DOMAIN sends : ~Unanswered(n)
  /\ failed' = failed \cup UNION {Members(sends[n].rows) : n \in FailedSends}
  /\ firstError' = (firstError \/ FailedSends # {})
  /\ Advance(firstError')
  /\ sends' = <<>>
  /\ UNCHANGED <<rows, next, cache, groups, requests, delivery>>

Next ==
  \/ BadUrl \/ Prepare \/ Prepared \/ StartChunk \/ ChunkFails \/ EndChunk
  \/ \E m \in Handed : Arrive(m)
  \/ \E n \in DOMAIN sends : Answer(n)

Spec == Init /\ [][Next]_vars

-----------------------------------------------------------------------------
(* What the server would hold if rows 1..n had been sent one by one. *)
Alone(i) == [key |-> RowKey(rows[i]), merge |-> rows[i].merge, content |-> Content(i)]

OneByOne(n) == StoreAll(Empty, [i \in 1..n |-> Alone(i)])

(* No path is an object in one row and something else in another. *)
StableShape ==
  \A i, j \in DOMAIN rows : \A p \in rows[i].paths, q \in rows[j].paths :
    Conflict(p, q) => p = q

(* Merging rows of a span, batching and concurrent sending are invisible:  *)
(* after a flush without failure the server holds what sending every row   *)
(* on its own, in the order of submission, would have left.  A row that    *)
(* was overtaken has undone that: nothing numbers the rows of a key, so a  *)
(* timed-out post that arrives after a later chunk wins.  And only when a  *)
(* field changes between object and scalar does it matter which rows met   *)
(* in a chunk.                                                             *)
SameAsOneByOne ==
  result # "none" /\ failed = {} /\ StableShape =>
    \A i \in DOMAIN rows :
      RowKey(rows[i]) \notin overtaken =>
        Held(server, RowKey(rows[i])) = Held(OneByOne(Len(rows)), RowKey(rows[i]))

(* In every case what the last row of a key wrote is there, where no row   *)
(* of that key was overtaken.                                              *)
LastRowHeld ==
  result # "none" /\ failed = {} =>
    \A i \in DOMAIN rows :
      /\ RowKey(rows[i]) \notin overtaken
      /\ \A j \in DOMAIN rows : RowKey(rows[j]) = RowKey(rows[i]) => j <= i
      => \A p \in rows[i].paths :
          /\ p \in DOMAIN server[RowKey(rows[i])]
          /\ LET v == server[RowKey(rows[i])][p] IN IF United(p) THEN i \in v ELSE v = i

(* Even when some sends fail, are repeated or arrive after their sender    *)
(* gave them up, a field never goes back to the value of an earlier row,   *)
(* unless a row replaces the others, until a row arrives that was          *)
(* overtaken.                                                              *)
NotOlder(p, new, old) == IF United(p) THEN \A i \in new : i >= Min(old) ELSE new >= old
NeverStale ==
  [][\A k \in DOMAIN server \cap DOMAIN server' :
       k \notin overtaken' =>
         \A p \in DOMAIN server[k] \cap DOMAIN server'[k] :
           NotOlder(p, server'[k][p], server[k][p])]_vars

(* Checked delivery reports a failure exactly when a row may be lost: an   *)
(* Ok means that every row reached a sender that succeeded.                *)
ErrorsReported ==
  result # "none" =>
    /\ result = "err" <=> Checked /\ failed # {}
    /\ (UNION {Members(q.rows) : q \in requests}) \cup failed = DOMAIN rows

(* "rows uploaded with different tokens or orgs must never be merged or    *)
(* batched into the same request": and the request's header names the      *)
(* organisation of its rows, or that of the login where they name none.    *)
OneCredential ==
  \A q \in requests : \A i, j \in Members(q.rows) :
    /\ rows[i].token = q.token
    /\ rows[i].org = rows[j].org
    /\ q.header = IF rows[i].orgName # None THEN rows[i].orgName ELSE LoginOrgName
=============================================================================
