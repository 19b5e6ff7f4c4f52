------------------------------ MODULE MCStream ------------------------------
EXTENDS Stream

Plain(kind) == [kind |-> kind, text |-> 0, index |-> 0, args |-> 0]
Tool(i, args) == [kind |-> "tool", text |-> 0, index |-> i, args |-> args]
Text(t) == [kind |-> "text", text |-> t, index |-> 0, args |-> 0]
SomeItems ==
  {Text(1), Tool(0, 1), Tool(0, 2), Tool(1, 1), Plain("other"), Plain("keep_alive"), Plain("error")}
=============================================================================
