--------------------------- MODULE SpanComponents ---------------------------
(***************************************************************************)
(* The identity of a span and the ways it travels: export                  *)
(* (src/src/span.rs), the string form and the parent it becomes            *)
(* (src/src/span_components.rs), the place of its row (prepare_row in      *)
(* src/src/log_queue/queue.rs) and of an update (src/src/logger.rs).       *)
(*                                                                         *)
(* A span id is a record of its number and the form of its text.  Only the *)
(* form decides how it is encoded.  Blank is the empty string where an id  *)
(* or a name stands: some of the code takes it as present, some as absent. *)
(***************************************************************************)
EXTENDS Naturals, SequencesExt

CONSTANTS None, Blank

ASSUME BlankAssumption == Blank # None

Fields == {"object_id", "args", "row_id", "span_id", "root_span_id", "span_parents", "event"}

-----------------------------------------------------------------------------
(* to_str and parse.  to_str writes version 4, older SDKs write version 3. *)

(* u8::from_str_radix takes digits of both cases, format_hex writes lower. *)
Bytes(id) ==
  [id EXCEPT !.form = CASE id.form = "HEX16" -> "hex16"
                        [] id.form = "HEX32" -> "hex32"
                        [] OTHER -> id.form]

(* try_parse_hex_span_id and try_parse_hex_trace_id *)
HexEncoded(c, f) ==
  \/ f = "span_id" /\ c[f].form \in {"hex16", "HEX16"}
  \/ f = "root_span_id" /\ c[f].form \in {"hex32", "HEX32"}

ToStr(c) ==
  LET present == {f \in Fields : c[f] # None}
      hex     == {f \in present : HexEncoded(c, f)}
  IN [version |-> 4, type |-> c.type,
      hex  |-> [f \in hex |-> Bytes(c[f])],
      json |-> [f \in present \ hex |-> c[f]]]

FromJsonObj(type, obj) ==
  [f \in Fields \cup {"type"} |->
     CASE f = "type" -> type [] f \in DOMAIN obj -> obj[f] [] OTHER -> None]

(* The JSON remainder is laid over what is encoded in bytes: UUIDs in the  *)
(* older form, ids in hexadecimal in the newer one.                        *)
LaidOver(json, bytes) ==
  [f \in DOMAIN json \cup DOMAIN bytes |-> IF f \in DOMAIN json THEN json[f] ELSE bytes[f]]

ParseV3(s) == FromJsonObj(s.type, LaidOver(s.json, s.uuid))
ParseV4(s) == FromJsonObj(s.type, LaidOver(s.json, s.hex))

Parse(s) == IF s.version < 4 THEN ParseV3(s) ELSE ParseV4(s)

-----------------------------------------------------------------------------
(* Parents.                                                                *)

Invalid == [kind |-> "invalid"]

Filled(x) == x \notin {None, Blank}

(* project_logs_identifier: the id if there is one, else the name.  This   *)
(* is where a blank counts as absent.                                      *)
Identifier(objectId, args) ==
  CASE Filled(objectId) -> [kind |-> "id", id |-> objectId]
    [] ~Filled(objectId) /\ args # None /\ Filled(args.project_id)
         -> [kind |-> "id", id |-> args.project_id]
    [] ~Filled(objectId) /\ args # None /\ ~Filled(args.project_id) /\ Filled(args.project_name)
         -> [kind |-> "name", name |-> args.project_name]
    [] OTHER -> Invalid

Placed(c) == IF c.type = "project_logs" THEN Identifier(c.object_id, c.args) # Invalid
             ELSE c.object_id # None

(* to_parent_span_info *)
ToParentSpanInfo(c) ==
  IF c.span_id = None \/ c.root_span_id = None \/ ~Placed(c) THEN Invalid
  ELSE [kind |-> "full_span", type |-> c.type, object_id |-> c.object_id, args |-> c.args,
        span_id |-> c.span_id, root_span_id |-> c.root_span_id, event |-> c.event]

(* to_parent_span_info_resolving_metadata: an id is put in only where there *)
(* is none, a blank stays.                                                  *)
ToParentResolving(c) ==
  LET i == Identifier(c.object_id, c.args)
      resolved == IF c.type = "project_logs" /\ c.object_id = None /\ i.kind = "id"
                  THEN [c EXCEPT !.object_id = i.id] ELSE c
  IN CASE c.span_id # None \/ c.root_span_id # None -> ToParentSpanInfo(resolved)
       [] OTHER ->
          CASE ~Placed(c) -> Invalid
            [] c.type = "project_logs" /\ i.kind = "id"   -> [kind |-> c.type, id |-> i.id]
            [] c.type = "project_logs" /\ i.kind = "name" -> [kind |-> "project_name", name |-> i.name]
            [] OTHER -> [kind |-> c.type, id |-> c.object_id]

-----------------------------------------------------------------------------
(* Spans.  A span is a record [row_id, span_id, project, parent, event].   *)

(* Mutant: the exported span starts a trace of its own. *)
ExportRootOfItself(s) ==
  LET p == s.parent
      full == p.kind = "full_span"
      direct == p.kind \in {"experiment", "project_logs", "playground_logs"}
      id   == IF full THEN p.object_id ELSE IF direct THEN p.id ELSE None
      args == IF full THEN p.args ELSE None
  IN [type |-> IF full THEN p.type ELSE IF direct THEN p.kind ELSE "project_logs",
      object_id |-> id,
      args |-> IF id = None /\ args = None /\ s.project # None
               THEN [project_id |-> None, project_name |-> s.project] ELSE args,
      row_id |-> s.row_id, span_id |-> s.span_id, root_span_id |-> s.span_id,
      span_parents |-> IF full THEN <<p.span_id>> ELSE None, event |-> s.event]

(* SpanHandle::export.  A parent that is a dataset or a project name is    *)
(* treated as none.                                                        *)
Export(s) ==
  LET p == s.parent
      full == p.kind = "full_span"
      direct == p.kind \in {"experiment", "project_logs", "playground_logs"}
      id   == IF full THEN p.object_id ELSE IF direct THEN p.id ELSE None
      args == IF full THEN p.args ELSE None
  IN [type |-> IF full THEN p.type ELSE IF direct THEN p.kind ELSE "project_logs",
      object_id |-> id,
      args |-> IF id = None /\ args = None /\ s.project # None
               THEN [project_id |-> None, project_name |-> s.project] ELSE args,
      row_id |-> s.row_id, span_id |-> s.span_id,
      root_span_id |-> IF full THEN p.root_span_id ELSE s.span_id,
      span_parents |-> IF full THEN <<p.span_id>> ELSE None,
      event |-> s.event]

(* The constructors of LogDestination.  Experiments have no log_id. *)
LogDestination(kind, id) ==
  [kind |-> kind, id |-> id,
   log_id |-> CASE kind = "experiment" -> None [] kind = "playground_logs" -> "x" [] OTHER -> "g"]

(* ensure_project_id: the server's id of a registered name. *)
ProjectId(name) == <<"id of", name>>

Destination(type, objectId, args) ==
  LET i == Identifier(objectId, args) IN
  CASE type # "project_logs" /\ objectId # None -> LogDestination(type, objectId)
    [] type = "project_logs" /\ i.kind = "id"   -> LogDestination(type, i.id)
    [] type = "project_logs" /\ i.kind = "name" -> LogDestination(type, ProjectId(i.name))
    [] OTHER                                    -> Invalid

(* The destination of the rows of a span (prepare_row). *)
DestinationOfSpan(s) ==
  LET p == s.parent IN
  CASE p.kind = "none" /\ s.project = None -> Invalid
    [] p.kind = "none" /\ s.project # None -> LogDestination("project_logs", ProjectId(s.project))
    [] p.kind = "project_name" -> LogDestination("project_logs", ProjectId(p.name))
    [] p.kind = "full_span" -> Destination(p.type, p.object_id, p.args)
    [] OTHER -> LogDestination(p.kind, p.id)

RootOfSpan(s) == IF s.parent.kind = "full_span" THEN s.parent.root_span_id ELSE s.span_id

(* update_span_internal: an exported span may be updated.  Where there is  *)
(* an id, nothing more is looked at.                                       *)
Updatable(c) ==
  /\ c.row_id # None
  /\ (c.root_span_id # None) = (c.span_id # None)
  /\ c.object_id # None \/ Placed(c)

(* Mutant: only an object_id is looked at. *)
DestinationOfUpdateById(c) == Destination(c.type, c.object_id, None)

(* destination_from_span_components *)
DestinationOfUpdate(c) == Destination(c.type, c.object_id, c.args)

(* Mutant: the type of the parent is not looked at. *)
DumpOfSpanAsLogs(s) ==
  LET p == s.parent IN
  CASE p.kind \in {"none", "project_name"} -> Invalid
    [] p.kind = "full_span" /\ p.object_id = None -> Invalid
    [] p.kind = "full_span" /\ p.object_id # None -> LogDestination("project_logs", p.object_id)
    [] OTHER -> LogDestination(p.kind, p.id)

(* dump_dropped_row_if_configured: the destination that the dump of a      *)
(* dropped row names, and Invalid where nothing is dumped.  A name is not  *)
(* looked up, and a row is dumped only with an id, which may be blank.     *)
DumpOfSpan(s) ==
  LET p == s.parent IN
  CASE p.kind \in {"none", "project_name"} -> Invalid
    [] p.kind = "full_span" /\ p.object_id = None -> Invalid
    [] p.kind = "full_span" /\ p.object_id # None -> LogDestination(p.type, p.object_id)
    [] OTHER -> LogDestination(p.kind, p.id)

DumpOfUpdate(c) ==
  LET i == Identifier(None, c.args) IN
  CASE c.object_id # None -> LogDestination(c.type, c.object_id)
    [] c.object_id = None /\ c.type = "project_logs" /\ i.kind = "id"
                          -> LogDestination("project_logs", i.id)
    [] OTHER              -> Invalid
=============================================================================
