----------------------------- MODULE MCToolLoop -----------------------------
(* Instances of ToolLoop for TLC. *)
EXTENDS ToolLoop

Of1(tools) == [tool : tools, args : {1}]

\* One call of each tool, and a second for the schema tools.
Calls == Of1(Tool) \cup [tool : Schema, args : {2}]

Orders == Of1({"order"})
Destructive == Of1({"delete"})

\* A stall finds a search tool at its limit, or below it.
Limits == [t \in Discovery |-> 1]

\* No plan, or one compiled to the same order twice.
Compiled == {<< >>} \cup {<<c, c>> : c \in Orders}
=============================================================================
