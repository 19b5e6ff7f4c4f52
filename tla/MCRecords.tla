----------------------------- MODULE MCRecords -----------------------------
(***************************************************************************)
(* Instances of Records: what the tasks of the program do.                 *)
(***************************************************************************)
EXTENDS Records

CONSTANTS MaxFirst, MaxSecond  \* bounds: calls of the first and of the second task

Calls(h, ops, n) == [1..n -> [on : {h}, op : ops]]
Pairs(firsts, seconds) == {("a" :> p @@ "b" :> q) : p \in firsts, q \in seconds}

(* Two tasks share a dataset; update and delete push a row as insert does. *)
DatasetPrograms ==
  LET ops == {"insert", "flush"} IN
  Pairs(Calls("dataset", ops, MaxFirst), Calls("dataset", ops, MaxSecond))

(* Two tasks share an experiment, or one has a clone of it. *)
ExperimentPrograms ==
  Pairs(Calls("experiment", {"log", "flush"}, MaxSecond),
        UNION {Calls(h, {"log", "flush"}, MaxSecond) : h \in Experiments})

(* One task, the other calls nothing. *)
Alone(p) == "a" :> p @@ "b" :> <<>>

(* A dataset is read, with next and then with collect. *)
ReaderPrograms ==
  {Alone(<<[on |-> "dataset", op |-> "fetch"]>>
         \o [i \in 1..n |-> [on |-> "reader", op |-> "next"]]
         \o <<[on |-> "reader", op |-> "collect"]>>) : n \in 0..(DataSize + 1)}

(* The remaining operations, and a clone. *)
OtherPrograms ==
  {Alone(<<[on |-> "experiment", op |-> op], [on |-> "experiment", op |-> "clone"],
           [on |-> "clone", op |-> "log"], [on |-> "experiment", op |-> "summarize"]>>) :
     op \in {"log", "start_span", "traced", "log_feedback", "update_span", "project", "export",
              "fetch_base_experiment"}}
  \cup {Alone(<<[on |-> "dataset", op |-> "delete"], [on |-> "dataset", op |-> op],
                [on |-> "dataset", op |-> "summarize"]>>) : op \in {"update", "dataset_id", "fetch"}}

AllPrograms == DatasetPrograms \cup ExperimentPrograms \cup ReaderPrograms \cup OtherPrograms
=============================================================================
