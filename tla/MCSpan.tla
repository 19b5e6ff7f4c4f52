------------------------------- MODULE MCSpan -------------------------------
(* Parents of the roots: given by the program, or parsed from a header of  *)
(* another service.                                                        *)
EXTENDS Span

Header(type, id, args) ==
  [type |-> type, object_id |-> id, args |-> args, row_id |-> None, span_id |-> None,
   root_span_id |-> None, span_parents |-> None, event |-> None]
Remote(type, id, args) ==
  [Header(type, id, args) EXCEPT !.span_id = [number |-> 90, form |-> "hex16"],
     !.root_span_id = [number |-> 91, form |-> "hex32"],
     !.event = (<<"metadata", "k">> :> 0)]
(* The same from an SDK that writes version 3 and UUIDs. *)
Older(type, id) ==
  Parse([version |-> 3, type |-> type,
         uuid |-> ("span_id" :> [number |-> 90, form |-> "uuid"]
                   @@ "root_span_id" :> [number |-> 91, form |-> "uuid"]),
         json |-> ("object_id" :> id @@ "event" :> (<<"metadata", "k">> :> 0))])
Named == [project_id |-> None, project_name |-> "P"]
Known == [project_id |-> <<"p2">>, project_name |-> "P"]

Root(parent, project) == [parent |-> parent, project |-> project]
AllRoots ==
  {Root([kind |-> "none"], "Q"), Root([kind |-> "dataset", id |-> <<"d">>], None),
   Root([kind |-> "playground_logs", id |-> <<"y">>], "Q"), Root([kind |-> "project_logs", id |-> Blank], None),
   Root(ToParentResolving(Header("project_logs", None, Named)), "Q")} \cup
  {Root(ToParentResolving(c), None) :
     c \in {Remote("project_logs", None, Named), Remote("project_logs", Blank, Known),
            Older("experiment", <<"x">>)}}
RemoteRoots == {Root(ToParentResolving(Remote("experiment", <<"x">>, None)), None)}

ASSUME ProgramKept == FormsKept /\ PathsApart

Logged == {<<"output", "a">>, <<"output", "b">>, End}
Fed == {<<"tags">>}
Symmetry == Permutations(Threads)
=============================================================================
