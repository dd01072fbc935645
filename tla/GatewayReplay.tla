---------------------------- MODULE GatewayReplay ----------------------------
(***************************************************************************)
(* The other loop of a subagent job, agent.use_gateway_loop = true:        *)
(* runSubagentViaGateway of handlers/subagent.ts with toolLoop of          *)
(* ai/gateway.ts.                                                          *)
(*                                                                         *)
(* It keeps the tables of the default loop differently.  The assistant's   *)
(* turns are persisted and the user turns with the tool results are not;   *)
(* a tool row is keyed by (message_idx, ordinal) instead of the provider's *)
(* id.  Here one claim runs at a time: what overlapping claims do to the   *)
(* tables is the subject of SubagentReplay.                                *)
(***************************************************************************)
EXTENDS FiniteSets, Integers, Sequences

CONSTANTS
  ToolCall,    (* Tool calls the provider can answer with.                 *)
  Idempotent,  (* Those of idempotent tools.                               *)
  Unknown,     (* Those of tools the registry does not have.               *)
  MaxTurns,    (* data.max_turns                                           *)
  MaxCalls,    (* Calls in one answer.  Bounds the model.                  *)
  MaxClaims,   (* Claims of the job.  Bounds the model.                    *)
  NoCall

VARIABLES
  log,         (* subagent_messages: the calls of the message at each      *)
               (* message_idx, if there is one.                            *)
  rows,        (* Tool rows by key: status, and the call that settled it.  *)
  emitted,     (* Calls the provider has answered with.                    *)
  claims,      (* Claims so far.                                           *)
  pc,          (* Where the handler is.                                    *)
  turn,        (* turnIdx                                                  *)
  idx,         (* messageIdx                                               *)
  prior,       (* replayState.priorTools                                   *)
  todo,        (* The calls of this turn that are left, in order.          *)
  ord,         (* callIdx                                                  *)
  conv         (* The calls in the conversation the provider will see,     *)
               (* and for each the call whose outcome it is told.          *)

vars == <<log, rows, emitted, claims, pc, turn, idx, prior, todo, ord, conv>>

tables == <<log, rows>>
place  == <<turn, idx, prior, todo, ord, conv>>
-----------------------------------------------------------------------------
Idx == 0 .. 2 * MaxTurns
Key == Idx \X (0 .. MaxCalls - 1)

Settled == {"complete", "failed"}

NoRow == [status |-> "none", out |-> NoCall]

Persisted == DOMAIN log

(* The row of the call being dispatched: (job_id, message_idx, ordinal).   *)
(* The index of the assistant's turn is one behind messageIdx.             *)
ThisKey == <<idx - 1, ord>>

(* Whether the turn at i is the assistant's: the prompt is at 0, and no    *)
(* other user turn is persisted.                                           *)
AssistantTurns == Persisted \ {0}

CallsIn(t) == {t[n] : n \in DOMAIN t}

(* The result of the first call left joins the user turn.                  *)
Result(out) ==
  /\ conv' = [conv EXCEPT ![Head(todo)] = out]
  /\ todo' = Tail(todo) /\ ord' = ord + 1
  /\ pc' = "dispatch"
-----------------------------------------------------------------------------
(* A claim loads the tables: the conversation is what is persisted, the    *)
(* next index is the number of messages.  A first claim persists the       *)
(* prompt.                                                                 *)
Resume ==
  /\ pc = "off" /\ claims < MaxClaims
  /\ log' = IF Persisted = {} THEN [i \in {0} |-> <<>>] ELSE log
  /\ idx' = Cardinality(DOMAIN log')
  /\ turn' = Cardinality(AssistantTurns)
  /\ prior' = rows
  /\ conv' = [c \in UNION {CallsIn(log'[i]) : i \in DOMAIN log'} |-> NoCall]
  /\ todo' = <<>> /\ ord' = 0
  /\ claims' = claims + 1
  /\ pc' = "chat"
  /\ UNCHANGED <<rows, emitted>>

(* chat() answers with fresh calls, and onAssistantTurn persists the       *)
(* answer: ON CONFLICT (job_id, message_idx) DO NOTHING.                   *)
Chat ==
  /\ pc = "chat" /\ turn < MaxTurns
  /\ \E t \in UNION {[1 .. n -> ToolCall] : n \in 0 .. MaxCalls} :
       /\ CallsIn(t) \cap emitted = {} /\ Cardinality(CallsIn(t)) = Len(t)
       /\ emitted' = emitted \cup CallsIn(t)
       /\ log' = IF idx \in Persisted THEN log
                 ELSE [i \in Persisted \cup {idx} |-> IF i = idx THEN t ELSE log[i]]
       /\ conv' = [c \in DOMAIN conv \cup CallsIn(t) |->
                     IF c \in DOMAIN conv THEN conv[c] ELSE NoCall]
       /\ todo' = t
       /\ pc' = IF t = <<>> THEN "done" ELSE "dispatch"
  /\ idx' = idx + 1 /\ ord' = 0
  /\ UNCHANGED <<rows, claims, turn, prior>>

(* Past max_turns the loop ends.                                           *)
OutOfTurns ==
  /\ pc = "chat" /\ turn >= MaxTurns
  /\ pc' = "done"
  /\ UNCHANGED <<tables, emitted, claims, place>>

(* A tool that is not registered: an error result, and no row.             *)
Reject ==
  /\ pc = "dispatch" /\ todo # <<>> /\ Head(todo) \in Unknown
  /\ Result(Head(todo))
  /\ UNCHANGED <<tables, emitted, claims, turn, idx, prior>>

(* onToolCallStart: INSERT ... ON CONFLICT (job_id, message_idx, ordinal)  *)
(* returns the row's own id, under which the outcome before is looked up.  *)
Start ==
  /\ pc = "dispatch" /\ todo # <<>> /\ Head(todo) \notin Unknown
  /\ rows' = [rows EXCEPT ![ThisKey].status = IF @ = "none" THEN "pending" ELSE @]
  /\ IF prior[ThisKey].status \in Settled
     THEN Result(prior[ThisKey].out)
     ELSE /\ pc' = IF prior[ThisKey].status = "pending" /\ Head(todo) \notin Idempotent
                   THEN "off" ELSE "execute"
          /\ UNCHANGED <<conv, todo, ord>>
  /\ UNCHANGED <<log, emitted, claims, turn, idx, prior>>

(* The tool runs and its row is settled.                                   *)
Execute ==
  /\ pc = "execute"
  /\ \E outcome \in Settled :
       rows' = [rows EXCEPT ![ThisKey] = [status |-> outcome, out |-> Head(todo)]]
  /\ Result(Head(todo))
  /\ UNCHANGED <<log, emitted, claims, turn, idx, prior>>

(* The results are pushed on the conversation; their index is taken, and   *)
(* nothing is written.                                                     *)
FeedBack ==
  /\ pc = "dispatch" /\ todo = <<>>
  /\ idx' = idx + 1 /\ turn' = turn + 1
  /\ pc' = "chat"
  /\ UNCHANGED <<tables, emitted, claims, prior, todo, ord, conv>>

(* A crash, an abort or an error.                                          *)
Stop ==
  /\ pc \in {"chat", "dispatch", "execute"}
  /\ pc' = "off"
  /\ UNCHANGED <<tables, emitted, claims, place>>
-----------------------------------------------------------------------------
Init ==
  /\ log = [i \in {} |-> <<>>]
  /\ rows = [k \in Key |-> NoRow]
  /\ emitted = {} /\ claims = 0
  /\ pc = "off" /\ turn = 0 /\ idx = 0 /\ ord = 0
  /\ prior = [k \in Key |-> NoRow]
  /\ todo = <<>>
  /\ conv = [c \in {} |-> NoCall]

Next == Resume \/ Chat \/ OutOfTurns \/ Reject \/ Start \/ Execute \/ FeedBack \/ Stop

Spec == Init /\ [][Next]_vars
-----------------------------------------------------------------------------
(* A call that was settled before a crash is answered from its row:        *)
(* test/e2e/subagent-crash-replay-multi-provider.test.ts says that the     *)
(* loop "should immediately re-feed the tool_result", before it asks.      *)
SettledCallsRefed ==
  pc = "chat" /\ turn < MaxTurns =>
    \A c \in DOMAIN conv : (\E k \in Key : rows[k].out = c) => conv[c] = c
=============================================================================
