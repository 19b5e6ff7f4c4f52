--------------------------- MODULE DatasetReader ---------------------------
(***************************************************************************)
(* DatasetIterator (src/src/dataset.rs): the records of a dataset, page by *)
(* page.  A record is its position.  The server cuts the pages as it likes *)
(* up to the limit; a page may be empty, and a cursor may follow the last  *)
(* record.                                                                 *)
(***************************************************************************)
EXTENDS Client

CONSTANTS
  DataSize,   \* records of the dataset
  BatchSize   \* batch_size

(* next takes &mut self and collect takes self: one task has the iterator. *)
OneReader(p) ==
  \A t, u \in Tasks : \A i \in DOMAIN p[t], j \in DOMAIN p[u] :
    p[t][i].on = "reader" /\ p[u][j].on = "reader" => t = u

ASSUME ReaderAssumption ==
  /\ DataSize \in Nat /\ BatchSize \in Nat \ {0} /\ None \notin Nat
  /\ \A p \in Programs : OneReader(p)

VARIABLES
  cursor,    \* the position to go on from, None at the start and the end
  asked,     \* the cursor of the request on its way
  buffer,    \* records fetched and not returned yet
  done,      \* no more pages
  yielded,   \* what next has returned so far
  disturbed  \* a fetch failed, was given up, or brought an empty page

readerVars == <<cursor, asked, buffer, done, yielded, disturbed>>

ReaderInit ==
  /\ cursor = None
  /\ asked = None
  /\ buffer = <<>>
  /\ done = FALSE
  /\ yielded = <<>>
  /\ disturbed = FALSE

AtReader(t, label) == At(t, label, {"reader"}, {"next", "collect"})

(* next or collect, which consumes it, on the iterator that fetch returned. *)
BeginRead(t) ==
  /\ AtReader(t, "idle")
  /\ \E n \in DOMAIN answers[t] : program[t][n].op = "fetch" /\ answers[t][n] = "ok"
  /\ \A n \in DOMAIN answers[t] : program[t][n].op # "collect"
  /\ Goto(t, "reading")
  /\ UNCHANGED <<cellVars, queueVars, readerVars>>

(* next returns a record; collect goes on with the next one. *)
Yield(t, record) ==
  /\ yielded' = Append(yielded, record)
  /\ IF Call(t).op = "next" THEN Return(t, "some") ELSE Goto(t, "reading")

(* A buffered record. *)
PopBuffer(t) ==
  /\ AtReader(t, "reading")
  /\ buffer # <<>>
  /\ buffer' = Tail(buffer)
  /\ Yield(t, Head(buffer))
  /\ UNCHANGED <<cellVars, queueVars, cursor, asked, done, disturbed>>

(* All pages are exhausted. *)
ReadEnd(t) ==
  /\ AtReader(t, "reading")
  /\ buffer = <<>> /\ done
  /\ Return(t, "none")
  /\ UNCHANGED <<cellVars, queueVars, readerVars>>

(* `cursor.take()`, and the request goes out. *)
AskPage(t) ==
  /\ AtReader(t, "reading")
  /\ buffer = <<>> /\ ~done
  /\ asked' = cursor
  /\ cursor' = None
  /\ Goto(t, "fetching")
  /\ UNCHANGED <<cellVars, queueVars, buffer, done, yielded, disturbed>>

From == IF asked = None THEN 0 ELSE asked

(* The pages the server may answer with: n records and where to go on. *)
Pages(from) ==
  {[size |-> n, cursor |-> from + n] : n \in 0..Min({BatchSize, DataSize - from})}
  \cup {[size |-> n, cursor |-> None] : n \in {DataSize - from} \cap 0..BatchSize}

(* BraintrustClient::fetch_dataset_records. *)
FetchDatasetRecords(reply, from) == IF reply = "ok" THEN Pages(from) ELSE {None}

(* The first record of the page is returned, which is None of an empty one. *)
FirstOf(t, page) ==
  IF page.size = 0
  THEN buffer' = <<>> /\ yielded' = yielded /\ Return(t, "none")
  ELSE buffer' = [i \in 1..(page.size - 1) |-> From + 1 + i] /\ Yield(t, From + 1)

(* Mutant: the reader is done when a page is shorter than the limit. *)
PageShortEnds(t) ==
  /\ AtReader(t, "fetching")
  /\ \E reply \in Replies : \E page \in FetchDatasetRecords(reply, From) \ {None} :
       /\ cursor' = page.cursor
       /\ done' = (page.size < BatchSize)
       /\ disturbed' = (disturbed \/ (page.size = 0 /\ From < DataSize))
       /\ FirstOf(t, page)
  /\ UNCHANGED <<cellVars, queueVars, asked>>

(* A page arrives: the reader is done when no cursor comes with it. *)
Page(t) ==
  /\ AtReader(t, "fetching")
  /\ \E reply \in Replies : \E page \in FetchDatasetRecords(reply, From) \ {None} :
       /\ cursor' = page.cursor
       /\ done' = (page.cursor = None)
       /\ disturbed' = (disturbed \/ (page.size = 0 /\ From < DataSize))
       /\ FirstOf(t, page)
  /\ UNCHANGED <<cellVars, queueVars, asked>>

(* An error is logged and ends the data. *)
PageFails(t) ==
  /\ AtReader(t, "fetching")
  /\ \E reply \in Replies : None \in FetchDatasetRecords(reply, From)
  /\ done' = TRUE
  /\ disturbed' = TRUE
  /\ Return(t, "none")
  /\ UNCHANGED <<cellVars, queueVars, cursor, asked, buffer, yielded>>

(* The future of next is dropped; the cursor it took is gone. *)
GiveUpRead(t) ==
  /\ AtReader(t, "fetching")
  /\ disturbed' = TRUE
  /\ Return(t, "given up")
  /\ UNCHANGED <<cellVars, queueVars, cursor, asked, buffer, done, yielded>>

ReaderStep(t) == PopBuffer(t) \/ ReadEnd(t) \/ AskPage(t) \/ Page(t) \/ PageFails(t)

-----------------------------------------------------------------------------
(* However the server cuts the pages, next returns every record once and   *)
(* in order, and None only after the last one, unless a fetch failed, was  *)
(* given up or brought nothing.                                            *)
ReadsEverything ==
  ~disturbed =>
    /\ \A i \in DOMAIN yielded : yielded[i] = i
    /\ \A t \in Tasks : "none" \in ToSet(answers[t]) => Len(yielded) = DataSize
=============================================================================
