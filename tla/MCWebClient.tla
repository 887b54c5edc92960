------------------------------ MODULE MCWebClient ------------------------------
(* Instances of WebClient for TLC: a saved session and one to be created, what *)
(* they say in a few orders, and a ring shorter than a log can become.         *)
EXTENDS WebClient

Say(kind, call, status, text) ==
    [kind |-> kind, call |-> call, status |-> status, text |-> text]
User_    == Say("user_message_chunk", 0, "", TRUE)
Agent    == Say("agent_message_chunk", 0, "", TRUE)
Usage    == Say("usage_update", 0, "", TRUE)
Call(c)  == Say("tool_call", c, "pending", FALSE)
Output(c) == Say("tool_call_update", c, "in_progress", TRUE)

\* The first outgrows the ring.
MCScripts == {<<User_, Agent, Usage, Agent, User_>>,
              <<Call(1), Call(2), Agent, Output(1)>>}
=============================================================================
