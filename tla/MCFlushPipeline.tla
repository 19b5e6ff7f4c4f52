-------------------------- MODULE MCFlushPipeline --------------------------
(***************************************************************************)
(* Instances of FlushPipeline: what the flush drains.                      *)
(***************************************************************************)
EXTENDS FlushPipeline

CONSTANTS MaxRows  \* bound: rows drained by the flush

(* Rows of two spans under one credential, every mixture of merging rows,  *)
(* with an object, a value that is none, and tags.                         *)
SpanRows ==
  [token : {"a"}, org : {"orgA"}, orgName : {None}, project : {Given},
   id : {"x", "y"}, merge : BOOLEAN, paths : {{<<"in">>}, {<<"in", "a">>, <<"tags">>}, {<<"in", "b">>, <<"tags">>}}]

(* Rows of two sessions with a token and an organisation each, one of      *)
(* which registers its project, and of a second token of one organisation. *)
Session(token, org, orgName, project) ==
  [token : {token}, org : {org}, orgName : {orgName}, project : {project},
   id : {token}, merge : {TRUE}, paths : {{<<"in">>}}]

SessionRows ==
  Session("a", "orgA", None, "p") \cup Session("b", "orgB", "B", Given)
  \cup Session("c", "orgB", "B", "p")

SequencesOf(S) == UNION {[1..n -> S] : n \in 1..MaxRows}
Spans    == SequencesOf(SpanRows)
Sessions == SequencesOf(SessionRows)
Flushes  == Spans \cup Sessions

ASSUME CallersKeep == HeadersAgree /\ KeysApart
=============================================================================
