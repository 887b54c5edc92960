------------------------------ MODULE Transcript ------------------------------
(***************************************************************************)
(* The transcript reducer of the web client                                *)
(* (apps/web-client/src/transcript.ts): what each session/update does to   *)
(* the turns shown, and what a transcript of a list of updates should be.  *)
(*                                                                         *)
(* A text is the sequence of the chunks it is put together from.  An       *)
(* update is a record with the kind of its sessionUpdate, the call a tool  *)
(* update is about, the status it sets and the text it brings; an update   *)
(* without one of them has call 0, no status ("") or no text (<<>>).       *)
(***************************************************************************)
EXTENDS Naturals, Sequences, FiniteSets

EMPTY_TRANSCRIPT == [turns |-> <<>>, nextId |-> 1, usage |-> <<>>]

\* A turn of a message has no call, a turn of a tool shows its card only.
MessageTurn(id, role, text) ==
    [id |-> id, role |-> role, text |-> text, call |-> 0, status |-> "", output |-> <<>>]
ToolCard(id, call, status) ==
    [id |-> id, role |-> "tool", text |-> <<>>, call |-> call,
     status |-> IF status = "" THEN "pending" ELSE status, output |-> <<>>]

\* The last of the positions P.
LastOf(P) == CHOOSE i \in P : \A j \in P : j <= i

roleForUpdate(u) ==
    CASE u.kind = "user_message_chunk"  -> "user"
      [] u.kind = "agent_message_chunk" -> "agent"
      [] OTHER -> "none"

AppendTurn(t, turn) ==
    [t EXCEPT !.turns = Append(@, turn), !.nextId = @ + 1]

\* Mutant of applyMessage: a chunk goes to the last turn of its role.
applyMessageToRole(t, u) ==
    LET role == roleForUpdate(u)
        same == {i \in DOMAIN t.turns : t.turns[i].role = role}
    IN  IF same # {}
        THEN [t EXCEPT !.turns[LastOf(same)].text = @ \o u.text]
        ELSE AppendTurn(t, MessageTurn(t.nextId, role, u.text))

\* A chunk joins the last turn if that is of its role, or begins a turn.
applyMessage(t, u) ==
    LET role == roleForUpdate(u)
        last == Len(t.turns)
    IN  IF last > 0 /\ t.turns[last].role = role
        THEN [t EXCEPT !.turns[last].text = @ \o u.text]
        ELSE AppendTurn(t, MessageTurn(t.nextId, role, u.text))

applyToolCall(t, u) ==
    IF u.call = 0 THEN t ELSE AppendTurn(t, ToolCard(t.nextId, u.call, u.status))

\* The cards of a call; an update goes to the last of them.
ToolTurns(t, call) == {i \in DOMAIN t.turns : t.turns[i].call = call}
findToolTurnIndex(t, call) == LastOf(ToolTurns(t, call))

applyToolCallUpdate(t, u) ==
    IF u.call = 0 \/ ToolTurns(t, u.call) = {} THEN t
    ELSE LET i == findToolTurnIndex(t, u.call)
         IN  [t EXCEPT !.turns[i].status = IF u.status = "" THEN @ ELSE u.status,
                       !.turns[i].output = @ \o u.text]

applySessionUpdate(t, u) ==
    CASE u.kind = "usage_update"     -> [t EXCEPT !.usage = u.text]
      [] u.kind = "tool_call"        -> applyToolCall(t, u)
      [] u.kind = "tool_call_update" -> applyToolCallUpdate(t, u)
      [] roleForUpdate(u) # "none"   -> applyMessage(t, u)
      [] OTHER -> t
-----------------------------------------------------------------------------
(* What the turns of a list of updates are, without going through it.      *)

\* The updates that are part of the conversation, by position.
IsTurnUpdate(u) == roleForUpdate(u) # "none" \/ (u.kind = "tool_call" /\ u.call # 0)

\* A turn begins at a tool call, at the first message, and where the speaker
\* changes or a tool was called in between.
Begins(us, i) ==
    /\ IsTurnUpdate(us[i])
    /\ \/ us[i].kind = "tool_call"
       \/ \A j \in 1..(i - 1) :
             IsTurnUpdate(us[j]) /\ us[j].kind = us[i].kind
                 => \E k \in (j + 1)..(i - 1) : IsTurnUpdate(us[k]) /\ us[k].kind # us[i].kind
Beginnings(us) == {i \in DOMAIN us : Begins(us, i)}

\* The text is that of those updates whose position is in P, in order; each
\* brings one chunk or none.
IsTextOf(text, us, P) ==
    LET Q == {i \in P : us[i].text # <<>>}
    IN  /\ Len(text) = Cardinality(Q)
        /\ \A i \in Q : us[i].text = <<text[Cardinality({j \in Q : j <= i})]>>

\* The updates a turn that begins at b is made from: the chunks up to the next
\* beginning, or what is said of the call until the call is begun anew.
PartsOf(us, b) ==
    IF us[b].kind = "tool_call"
    THEN {i \in (b + 1)..Len(us) :
             /\ us[i].kind = "tool_call_update" /\ us[i].call = us[b].call
             /\ \A j \in (b + 1)..i : ~(us[j].kind = "tool_call" /\ us[j].call = us[b].call)}
    ELSE {i \in b..Len(us) :
             /\ roleForUpdate(us[i]) # "none"
             /\ \A j \in (b + 1)..i : j \notin Beginnings(us)}

StatusOf(us, b) ==
    LET said == {i \in {b} \cup PartsOf(us, b) : us[i].status # ""}
    IN  IF said = {} THEN "pending" ELSE us[LastOf(said)].status

\* t shows the updates us: a turn for each beginning, in order, numbered from
\* 1, with the texts, the output and the status of its own parts and nothing
\* else, and the usage reported last.
Faithful(t, us) ==
    LET begin == Beginnings(us)
        usages == {i \in DOMAIN us : us[i].kind = "usage_update"}
    IN  /\ Len(t.turns) = Cardinality(begin)
        /\ t.nextId = Len(t.turns) + 1
        /\ \A b \in begin :
              LET n    == Cardinality({i \in begin : i <= b})
                  turn == t.turns[n]
              IN  /\ turn.id = n
                  /\ IF us[b].kind = "tool_call"
                     THEN /\ turn.role = "tool" /\ turn.call = us[b].call
                          /\ turn.text = <<>>
                          /\ IsTextOf(turn.output, us, PartsOf(us, b))
                          /\ turn.status = StatusOf(us, b)
                     ELSE /\ turn.role = roleForUpdate(us[b])
                          /\ IsTextOf(turn.text, us, PartsOf(us, b))
                          /\ turn.call = 0 /\ turn.output = <<>>
        /\ t.usage = IF usages = {} THEN <<>> ELSE us[LastOf(usages)].text
=============================================================================
