--------------------------- MODULE SubagentReplay ---------------------------
(***************************************************************************)
(* The conversation of one subagent job and how it survives crashes: the   *)
(* default loop of src/core/minions/handlers/subagent.ts.                  *)
(*                                                                         *)
(* A handler (a run) works on two tables: subagent_messages, the           *)
(* conversation by message_idx, and subagent_tool_executions, one row for  *)
(* each tool use.  It writes each step before the next one.  It may stop   *)
(* between any two statements, and the next claim of the job resumes from  *)
(* the tables.  Neither table is fenced by the lock token: a run that lost *)
(* its lock writes on beside its successor until it notices.               *)
(***************************************************************************)
EXTENDS FiniteSets, Integers

CONSTANTS
  Use,         (* tool_use ids the provider can answer with.               *)
  Idempotent,  (* Those of idempotent tools.                               *)
  Unknown,     (* Those of tools the registry does not have.               *)
  Run,         (* Claims of the job.                                       *)
  MaxTurns,    (* data.max_turns                                           *)
  MaxUses,     (* Tool uses in one answer.  Bounds the model.              *)
  MaxLive,     (* Runs alive at once.  Bounds the model.                   *)
  NoUse, NoMessage, NoRun

ASSUME SubagentAssumption ==
  /\ Idempotent \subseteq Use /\ Unknown \subseteq Use
  /\ MaxTurns \in Nat \ {0} /\ MaxUses \in Nat /\ MaxLive \in Nat \ {0}
  /\ NoUse \notin Use /\ NoRun \notin Run

VARIABLES
  log,         (* subagent_messages, by message_idx.                       *)
  rows,        (* Status of the row of each tool use.                      *)
  runs,        (* The handlers.                                            *)
  holder,      (* The run that has the lock token of the job.              *)
  jobDone,     (* completeJob went through.                                *)
  emitted,     (* Uses the provider has answered with.                     *)
  executed,    (* How often the tool of each use was executed.             *)
  overlapped   (* Whether two runs were ever alive at once.                *)

vars == <<log, rows, runs, holder, jobDone, emitted, executed, overlapped>>
-----------------------------------------------------------------------------
Settled == {"complete", "failed"}

Idx == 0 .. 2 * MaxTurns

(* An assistant's message has its uses, a user's the outcome of each use   *)
(* it answers.                                                             *)
Bodies == UNION {[S -> {"use"} \cup Settled] : S \in SUBSET Use}

Message == [role : {"user", "assistant"}, body : Bodies]

ASSUME NoMessageAssumption == NoMessage \notin Message

Empty == [u \in {} |-> "use"]

Prompt    == [role |-> "user", body |-> Empty]
Answer(S) == [role |-> "assistant", body |-> [u \in S |-> "use"]]
Results(b) == [role |-> "user", body |-> b]

UsesOf(m) == DOMAIN m.body

Indices == DOMAIN log

PC == {"off", "load", "loadTools", "seed", "call", "answered", "dispatch",
       "execute", "complete", "failed", "return", "stopped"}

Live == {r \in Run : runs[r].pc \notin {"off", "stopped"}}

NewRun == [pc |-> "off", idx |-> 0, turns |-> 0, last |-> NoMessage,
           prior |-> [u \in Use |-> "none"], todo |-> {}, body |-> Empty, cur |-> NoUse]

(* persistMessage: INSERT ... ON CONFLICT (job_id, message_idx) DO NOTHING *)
Persist(i, m) ==
  [j \in Indices \cup {i} |-> IF j \in Indices THEN log[j] ELSE m]

(* A tool result joins the user turn under construction.                   *)
With(b, u, outcome) == [v \in DOMAIN b \cup {u} |-> IF v = u THEN outcome ELSE b[v]]
-----------------------------------------------------------------------------
(* A worker claims the job: after the last run stopped, or after its lock  *)
(* expired while it runs.                                                  *)
Claim(r) ==
  /\ runs[r].pc = "off" /\ ~jobDone /\ Cardinality(Live) < MaxLive
  /\ runs' = [runs EXCEPT ![r].pc = "load"]
  /\ holder' = r
  /\ overlapped' = (overlapped \/ Live # {})
  /\ UNCHANGED <<log, rows, jobDone, emitted, executed>>

Step(r, new) ==
  /\ runs' = [runs EXCEPT ![r] = new]
  /\ UNCHANGED <<holder, jobDone, overlapped>>

(* Mutant: the next index is the last one.                                 *)
LoadMessagesOffByOne(r) ==
  LET n == Cardinality(Indices) IN
  /\ runs[r].pc = "load"
  /\ Step(r, [runs[r] EXCEPT
       !.pc = "loadTools",
       !.idx = IF n > 0 THEN n - 1 ELSE 0,
       !.turns = Cardinality({i \in Indices : log[i].role = "assistant"}),
       !.last = IF n > 0 THEN log[n - 1] ELSE NoMessage])
  /\ UNCHANGED <<log, rows, emitted, executed>>

(* loadPriorMessages                                                       *)
LoadMessages(r) ==
  LET n == Cardinality(Indices) IN
  /\ runs[r].pc = "load"
  /\ Step(r, [runs[r] EXCEPT
       !.pc = "loadTools",
       !.idx = n,
       !.turns = Cardinality({i \in Indices : log[i].role = "assistant"}),
       !.last = IF n > 0 THEN log[CHOOSE i \in Indices : \A j \in Indices : j <= i]
                ELSE NoMessage])
  /\ UNCHANGED <<log, rows, emitted, executed>>

(* Where a run resumes: at the seed message, at the tools of the last      *)
(* answer, at its end, or at the next call.                                *)
AfterLoad(m) ==
  IF m = NoMessage THEN "seed"
  ELSE IF m.role = "user" THEN "call"
  ELSE IF UsesOf(m) = {} THEN "return" ELSE "dispatch"

(* Mutant: only the pending rows are loaded.                               *)
PriorPending == [u \in Use |-> IF rows[u] = "pending" THEN "pending" ELSE "none"]

Prior == rows

(* loadPriorTools and the replay reconciliation.                           *)
LoadTools(r) ==
  /\ runs[r].pc = "loadTools"
  /\ LET m == runs[r].last IN
     Step(r, [runs[r] EXCEPT
       !.pc = AfterLoad(m),
       !.prior = Prior,
       !.todo = IF m # NoMessage /\ m.role = "assistant" THEN UsesOf(m) ELSE {},
       !.last = NoMessage])
  /\ UNCHANGED <<log, rows, emitted, executed>>

(* The first run persists the prompt.                                      *)
Seed(r) ==
  /\ runs[r].pc = "seed"
  /\ log' = Persist(0, Prompt)
  /\ Step(r, [runs[r] EXCEPT !.pc = "call", !.idx = 1])
  /\ UNCHANGED <<rows, emitted, executed>>

(* The provider answers, with fresh tool uses or with none.                *)
Answered(r) ==
  /\ \E S \in SUBSET (Use \ emitted) :
       /\ Cardinality(S) <= MaxUses
       /\ emitted' = emitted \cup S
       /\ Step(r, [runs[r] EXCEPT !.pc = "answered", !.todo = S])
  /\ UNCHANGED <<log, rows, executed>>

(* Past max_turns the handler returns, else it calls the provider.         *)
Call(r) ==
  /\ runs[r].pc = "call"
  /\ IF runs[r].turns < MaxTurns
     THEN Answered(r)
     ELSE Step(r, [runs[r] EXCEPT !.pc = "return"])
          /\ UNCHANGED <<log, rows, emitted, executed>>

(* The answer is persisted before any tool runs.                           *)
PersistAnswer(r) ==
  /\ runs[r].pc = "answered"
  /\ log' = Persist(runs[r].idx, Answer(runs[r].todo))
  /\ Step(r, [runs[r] EXCEPT
       !.pc = IF runs[r].todo = {} THEN "return" ELSE "dispatch",
       !.idx = @ + 1, !.turns = @ + 1])
  /\ UNCHANGED <<rows, emitted, executed>>

Done(r, u, outcome) ==
  Step(r, [runs[r] EXCEPT !.pc = "dispatch", !.todo = @ \ {u},
                          !.body = With(@, u, outcome), !.cur = NoUse])

(* A use that was settled before this run is answered from its row.        *)
Reuse(r, u) ==
  /\ runs[r].pc = "dispatch" /\ u \in runs[r].todo
  /\ runs[r].prior[u] \in Settled
  /\ Done(r, u, runs[r].prior[u])
  /\ UNCHANGED <<log, rows, emitted, executed>>

(* The tool is not in the registry: persistToolExecFailed                  *)
Reject(r, u) ==
  /\ runs[r].pc = "dispatch" /\ u \in runs[r].todo
  /\ u \in Unknown /\ runs[r].prior[u] \notin Settled
  /\ rows' = [rows EXCEPT ![u] = "failed"]
  /\ Done(r, u, "failed")
  /\ UNCHANGED <<log, emitted, executed>>

(* Mutant: a pending row is always run again.                              *)
RerunnableAny(r, u) == runs[r].prior[u] \in {"none", "pending"}

(* A pending row may have been executed: only an idempotent tool runs      *)
(* again.                                                                  *)
Rerunnable(r, u) ==
  runs[r].prior[u] = "none" \/ (runs[r].prior[u] = "pending" /\ u \in Idempotent)

(* persistToolExecPending: ON CONFLICT (job_id, tool_use_id) DO NOTHING    *)
Pending(r, u) ==
  /\ runs[r].pc = "dispatch" /\ u \in runs[r].todo
  /\ u \notin Unknown /\ Rerunnable(r, u)
  /\ rows' = [rows EXCEPT ![u] = IF @ = "none" THEN "pending" ELSE @]
  /\ Step(r, [runs[r] EXCEPT !.pc = "execute", !.cur = u])
  /\ UNCHANGED <<log, emitted, executed>>

(* The tool has its effect and returns, or throws.                         *)
Execute(r) ==
  /\ runs[r].pc = "execute"
  /\ executed' = [executed EXCEPT ![runs[r].cur] = @ + 1]
  /\ \E next \in {"complete", "failed"} : Step(r, [runs[r] EXCEPT !.pc = next])
  /\ UNCHANGED <<log, rows, emitted>>

(* persistToolExecComplete; if it throws, the use counts as failed.        *)
Complete(r) ==
  /\ runs[r].pc = "complete"
  /\ \/ /\ rows' = [rows EXCEPT ![runs[r].cur] = "complete"]
        /\ Done(r, runs[r].cur, "complete")
     \/ /\ Step(r, [runs[r] EXCEPT !.pc = "failed"])
        /\ UNCHANGED rows
  /\ UNCHANGED <<log, emitted, executed>>

(* persistToolExecFailed                                                   *)
Failed(r) ==
  /\ runs[r].pc = "failed"
  /\ rows' = [rows EXCEPT ![runs[r].cur] = "failed"]
  /\ Done(r, runs[r].cur, "failed")
  /\ UNCHANGED <<log, emitted, executed>>

(* Mutant: the next turn starts with the results of this one.              *)
PersistResultsKept(r) ==
  /\ runs[r].pc = "dispatch" /\ runs[r].todo = {}
  /\ log' = Persist(runs[r].idx, Results(runs[r].body))
  /\ Step(r, [runs[r] EXCEPT !.pc = "call", !.idx = @ + 1])
  /\ UNCHANGED <<rows, emitted, executed>>

(* All tools of the turn are answered: the user turn is persisted.         *)
PersistResults(r) ==
  /\ runs[r].pc = "dispatch" /\ runs[r].todo = {}
  /\ log' = Persist(runs[r].idx, Results(runs[r].body))
  /\ Step(r, [runs[r] EXCEPT !.pc = "call", !.idx = @ + 1, !.body = Empty])
  /\ UNCHANGED <<rows, emitted, executed>>

(* The handler returns; completeJob is fenced by the lock token.           *)
Return(r) ==
  /\ runs[r].pc = "return"
  /\ runs' = [runs EXCEPT ![r] = [NewRun EXCEPT !.pc = "stopped"]]
  /\ jobDone' = (jobDone \/ holder = r)
  /\ UNCHANGED <<log, rows, holder, emitted, executed, overlapped>>

(* A crash, an abort, a lease that is not free, a provider or database     *)
(* error, or a non-idempotent tool found pending.                          *)
Stop(r) ==
  /\ r \in Live
  /\ runs' = [runs EXCEPT ![r] = [NewRun EXCEPT !.pc = "stopped"]]
  /\ UNCHANGED <<log, rows, holder, jobDone, emitted, executed, overlapped>>
-----------------------------------------------------------------------------
Init ==
  /\ log = [i \in {} |-> Prompt]
  /\ rows = [u \in Use |-> "none"]
  /\ runs = [r \in Run |-> NewRun]
  /\ holder = NoRun
  /\ jobDone = FALSE
  /\ emitted = {}
  /\ executed = [u \in Use |-> 0]
  /\ overlapped = FALSE

Next == \E r \in Run :
  \/ Claim(r) \/ LoadMessages(r) \/ LoadTools(r) \/ Seed(r) \/ Call(r)
  \/ PersistAnswer(r) \/ PersistResults(r) \/ Execute(r) \/ Complete(r) \/ Failed(r)
  \/ Return(r) \/ Stop(r)
  \/ \E u \in Use : Reuse(r, u) \/ Reject(r, u) \/ Pending(r, u)

Spec == Init /\ [][Next]_vars
-----------------------------------------------------------------------------
(* The tables and the runs have their shape; no run counts beyond          *)
(* max_turns, also when it resumed.                                        *)
TypeOK ==
  /\ Indices \subseteq Idx /\ log \in [Indices -> Message]
  /\ rows \in [Use -> {"none", "pending"} \cup Settled]
  /\ runs \in [Run -> [pc : PC, idx : 0 .. 2 * MaxTurns + 1, turns : 0 .. MaxTurns,
                       last : Message \cup {NoMessage},
                       prior : [Use -> {"none", "pending"} \cup Settled],
                       todo : SUBSET Use, body : Bodies, cur : Use \cup {NoUse}]]
  /\ holder \in Run \cup {NoRun}
  /\ jobDone \in BOOLEAN /\ overlapped \in BOOLEAN
  /\ emitted \subseteq Use
  /\ executed \in [Use -> Nat]

(* The provider wants a conversation without gaps in which the roles take  *)
(* turns.  It has one even when several runs write it at once, since they  *)
(* all count messages and never skip one.                                  *)
RolesAlternate ==
  \A i \in Indices :
    /\ \A j \in 0 .. i : j \in Indices
    /\ log[i].role = IF i % 2 = 0 THEN "user" ELSE "assistant"

(* Each user turn answers the tool uses of the assistant's turn before it, *)
(* all of them and no other, with the outcome their rows record: the       *)
(* provider refuses a conversation with an unanswered use, and a resumed   *)
(* run must tell the model what really happened.                           *)
AnswersMatch ==
  ~overlapped =>
    \A i \in Indices : i > 0 /\ log[i].role = "user" =>
      /\ UsesOf(log[i]) = UsesOf(log[i - 1])
      /\ \A u \in UsesOf(log[i]) : log[i].body[u] = rows[u]

(* A tool that is not idempotent is executed at most once for each use,    *)
(* wherever the runs before stopped: a pending row stops the job instead.  *)
NonIdempotentOnce ==
  ~overlapped => \A u \in Use \ Idempotent : executed[u] <= 1

(* A use whose outcome is recorded is not executed again: the header of    *)
(* subagent.ts trusts the executions marked complete or failed.            *)
SettledNotRerun ==
  [][ ~overlapped => \A u \in Use : rows[u] \in Settled => executed'[u] = executed[u] ]_vars
=============================================================================
