---------------------------- MODULE MCLLMPlanner ----------------------------
(***************************************************************************)
(* Two tools with three actions, runs of up to three steps, and prompts    *)
(* that are charged as counted, for one token more, or beyond the budget.  *)
(***************************************************************************)
EXTENDS LLMPlanner

CONSTANTS email, file, send, request, find, recipient, approval, filename

MCToolOf == [a \in {send, request, find} |-> IF a = find THEN file ELSE email]

MCAccepts ==
  [a \in {send, request, find} |->
     IF a = find THEN {filename} ELSE IF a = send THEN {recipient, approval} ELSE {recipient}]

Reply(tool, act, keys) == [tool |-> tool, action |-> act, keys |-> keys]

\* Calls that agree, with and without their tool, with arguments of another
\* action; a tool alone, the wrong tool, an unknown name, and plain text.
MCPayload ==
  {Reply(email, send, {recipient, approval}), Reply(None, find, {filename, recipient}),
   Reply(Other, request, {Other}), Reply(file, None, {}), Reply(file, send, {recipient}),
   Reply(email, Other, {}), Reply(None, None, {})}

MCPrompt == {[counted |-> 1, charged |-> 1], [counted |-> 1, charged |-> 2], [counted |-> 2, charged |-> 3]}

=============================================================================
