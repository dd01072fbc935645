---------------------------- MODULE AgentFanOut ----------------------------
(***************************************************************************)
(* `agent run --fanout-manifest` (commands/agent.ts) over the job queue,   *)
(* and the aggregator that reports on the children (subagent-aggregator.ts *)
(* and readInbox of queue.ts).  The command adds the aggregator, which any *)
(* worker may claim at once, then the children, and only then writes their *)
(* ids into the aggregator's row; it may die in between.  The aggregator's *)
(* handler knows the ids its claim returned and the messages it was first  *)
(* to read.                                                                *)
(*                                                                         *)
(* A behaviour has one command, or none: then jobs come from anywhere, as  *)
(* in MinionQueue.  on_child_fail is 'continue', which failJob treats like *)
(* 'ignore'.                                                               *)
(***************************************************************************)
EXTENDS MinionQueueProps

CONSTANT OtherClaims  \* claims of other rows than the aggregator. Bounds the model.

VARIABLES
  command,  \* how far the command is, "none" where there is none
  children, \* childIds, in its memory
  listed,   \* data.children_ids of the aggregator
  read,     \* messages of the aggregator with read_at
  desk      \* what the handler of each claim of the aggregator has in hand

fanVars == <<command, children, listed, read, desk>>
allVars == <<vars, fanVars>>

Agg     == 1
Entries == MaxJobs - 1  \* of the manifest
Empty   == [at |-> "none", ids |-> {}, got |-> {}]
-----------------------------------------------------------------------------
(* The command, from one call to the next.                                 *)
SubmitAggregator ==
  /\ command = "start"
  /\ Add(NoJob, "waiting", "fail_parent", {}, FALSE)
  /\ command' = "adding"
  /\ UNCHANGED <<children, listed, read, desk>>

(* Mutant: each id is written as soon as its child is there.               *)
SubmitListedChild ==
  /\ command = "adding"
  /\ \E deadline \in Deadlines : Add(Agg, "waiting", "ignore", {}, deadline)
  /\ children' = children \cup {nextId}
  /\ listed' = children'
  /\ command' = IF Cardinality(children') = Entries THEN "listing" ELSE "adding"
  /\ UNCHANGED <<read, desk>>

SubmitChild ==
  /\ command = "adding"
  /\ \E deadline \in Deadlines : Add(Agg, "waiting", "ignore", {}, deadline)
  /\ children' = children \cup {nextId}
  /\ command' = IF Cardinality(children') = Entries THEN "listing" ELSE "adding"
  /\ UNCHANGED <<listed, read, desk>>

ListChildren ==
  /\ command = "listing"
  /\ listed' = children
  /\ command' = "done"
  /\ UNCHANGED <<vars, children, read, desk>>

CommandDies ==
  /\ command \in {"adding", "listing"}
  /\ command' = "dead"
  /\ UNCHANGED <<vars, children, listed, read, desk>>
-----------------------------------------------------------------------------
(* The aggregator.                                                         *)
ClaimAggregator ==
  /\ Claim(Agg, "running")
  /\ desk' = [desk EXCEPT ![jobs'[Agg].started] =
                [at |-> IF listed = {} THEN "answering" ELSE "reading",
                 ids |-> listed, got |-> {}]]
  /\ UNCHANGED <<command, children, listed, read>>

(* readInbox, first statement: whose token it is.                          *)
CheckToken(r) ==
  /\ InHandler(r) /\ desk[r.claim].at = "reading"
  /\ desk' = [desk EXCEPT ![r.claim].at = IF Holds(jobs, r) THEN "marking" ELSE "answering"]
  /\ UNCHANGED <<vars, command, children, listed, read>>

(* Second statement: the unread messages, and read_at.                     *)
MarkRead(r) ==
  /\ InHandler(r) /\ desk[r.claim].at = "marking"
  /\ desk' = [desk EXCEPT ![r.claim].at = "answering",
                          ![r.claim].got = inbox[Agg] \ read]
  /\ read' = read \cup inbox[Agg]
  /\ UNCHANGED <<vars, command, children, listed>>

Answer(r) ==
  /\ desk[r.claim].at = "answering"
  /\ CompleteRun(r)
  /\ UNCHANGED fanVars

AggregatorStep(r) ==
  \/ CheckToken(r)
  \/ MarkRead(r)
  \/ Answer(r)
  \/ /\ (FailRun(r, FALSE) \/ DropRun(r)) /\ UNCHANGED fanVars

(* The outcome the answer of a claim has for a child.                      *)
Reported(n, child) ==
  IF \E m \in desk[n].got : m.child = child
  THEN (CHOOSE m \in desk[n].got : m.child = child).outcome
  ELSE "missing"
-----------------------------------------------------------------------------
FanInit ==
  /\ Init
  /\ command \in {"none", "start"}
  /\ children = {} /\ listed = {} /\ read = {}
  /\ desk = [n \in 1 .. MaxClaims |-> Empty]

ClaimChild(j) == jobs[j].started < OtherClaims /\ Claim(j, "running")

FanOut ==
  \/ SubmitAggregator \/ SubmitChild \/ ListChildren \/ CommandDies
  \/ ClaimAggregator
  \/ \E r \in runs : r.job = Agg /\ AggregatorStep(r)
  \/ /\ UNCHANGED fanVars
     /\ \/ \E j \in Job \ {Agg} : ClaimChild(j)
        \/ \E r \in runs : r.job # Agg /\ WorkerStep(r)
        \/ Sweep
        \/ Operate

Elsewhere ==
  /\ Next
  /\ \A j \in Job : jobs'[j].started <= OtherClaims
  /\ UNCHANGED fanVars

FanNext ==
  \/ command = "none" /\ Elsewhere
  \/ command # "none" /\ FanOut

(* The command's calls follow each other unless it dies; for the rest see  *)
(* Fairness of MinionQueueProps.                                           *)
FanFairness ==
  /\ WF_allVars(ClaimAggregator)
  /\ \A j \in Job :
       LET Fanned(A) == command # "none" /\ A /\ UNCHANGED fanVars
       IN /\ WF_allVars(Fanned(\E S \in SUBSET Job : j \in S /\ HandleWallClockTimeouts(S)))
          /\ WF_allVars(Fanned(\E S \in SUBSET Job : j \in S /\ PromoteDelayed(S)))
          /\ j # Agg => WF_allVars(Fanned(ClaimChild(j)))

FanSpec == FanInit /\ [][FanNext]_allVars /\ FanFairness
-----------------------------------------------------------------------------
(* How a settled child ended, in the words of ChildOutcome.  A child that  *)
(* handleStalled killed sent no message.                                   *)
Fate(row) ==
  CASE row.status = "completed" -> "complete"
    [] row.status = "cancelled" -> "cancelled"
    [] row.status = "dead" /\ row.error = "timeout" -> "timeout"
    [] row.status = "dead" /\ row.error = "run" -> "dead"
    [] OTHER -> "missing"

(* The answer of an aggregator that was told about any child at all has    *)
(* all of the manifest's, each with how it ended, unless another claim of  *)
(* the aggregator took messages away: the ids come last, and by then the   *)
(* aggregator waits until each child has sent its message.                 *)
AnswerIsTrue ==
  LET n == jobs[Agg].result
  IN  /\ command # "none" /\ jobs[Agg].status = "completed"
      /\ desk[n].ids # {}
      /\ \A m \in 1 .. MaxClaims : m # n => desk[m].got = {}
      => /\ Cardinality(desk[n].ids) = Entries
         /\ \A c \in desk[n].ids : Reported(n, c) = Fate(jobs[c])

(* A fan-out whose children are all listed ends with a settled aggregator: *)
(* unless a child was killed by handleStalled, which wakes no parent, or   *)
(* the claims of the model ran out.  (MaxRuns is not to limit the claims.) *)
FanOutIsAnswered ==
  command = "done" ~>
    \/ jobs[Agg].status \in Terminal
    \/ \E c \in children : Unreported(jobs[c])
    \/ jobs[Agg].status = "waiting" /\ jobs[Agg].started = MaxClaims
    \/ \E c \in children : jobs[c].status = "waiting" /\ jobs[c].started = OtherClaims
=============================================================================
