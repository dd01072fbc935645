------------------------ MODULE SubagentReplayProofs ------------------------
(***************************************************************************)
(* Machine-checked proofs about SubagentReplay, for every set of tool uses *)
(* and runs and every bound on turns, uses and live runs.                  *)
(*                                                                         *)
(* The invariant has four parts.  LogOK, TablesOK and RunOK hold whatever  *)
(* runs overlap, because a run only ever counts, never skips an index, and *)
(* a row never goes back.  Alone is what one run at a time adds: the run   *)
(* knows the length of the conversation and the rows of its own uses.      *)
(***************************************************************************)
EXTENDS SubagentReplay, FiniteSetTheorems, FunctionTheorems, TLAPS

RowStatus == {"none", "pending"} \cup Settled

RunType ==
  [pc : PC, idx : 0 .. 2 * MaxTurns + 1, turns : 0 .. MaxTurns,
   last : Message \cup {NoMessage}, prior : [Use -> RowStatus], todo : SUBSET Use,
   body : Bodies, cur : Use \cup {NoUse}]

Size == Cardinality(Indices)

(* The steps of a turn's tools; those of one tool; those after the load.   *)
Turn   == {"dispatch", "execute", "complete", "failed"}
Tool   == {"execute", "complete", "failed"}
Loaded == PC \ {"off", "load", "stopped"}

RoleAt(i) == IF i % 2 = 0 THEN "user" ELSE "assistant"

LogOK ==
  /\ Size \in 0 .. 2 * MaxTurns + 1
  /\ Indices = 0 .. Size - 1
  /\ log \in [Indices -> Message]
  /\ \A i \in Indices : log[i].role = RoleAt(i)

(* The next index follows from the turns done and the place in the loop;   *)
(* what a run has in hand was emitted, and it has a row before it runs.    *)
RunOK(r) ==
  LET R == runs[r] IN
  /\ R.pc \in Loaded => R.idx <= Size
  /\ R.pc = "loadTools" =>
       /\ R.idx \in {2 * R.turns, 2 * R.turns + 1}
       /\ R.last = IF R.idx = 0 THEN NoMessage ELSE log[R.idx - 1]
  /\ R.pc = "seed" => R.idx = 0 /\ R.turns = 0
  /\ R.pc \in {"call", "answered"} => R.idx = 2 * R.turns + 1
  /\ R.pc = "answered" => R.turns < MaxTurns
  /\ R.pc \in Turn => R.idx = 2 * R.turns /\ R.turns > 0
  /\ R.pc \in Tool => R.cur \in R.todo /\ rows[R.cur] # "none"
  /\ R.pc \notin Turn => R.body = Empty
  /\ R.todo \subseteq emitted /\ DOMAIN R.body \subseteq emitted
  /\ \A u \in Use \ emitted : R.prior[u] = "none"

(* A use the conversation has was emitted; one that was not has no row,    *)
(* and one without a row was not executed.                                 *)
TablesOK ==
  /\ emitted \subseteq Use
  /\ rows \in [Use -> RowStatus]
  /\ executed \in [Use -> Nat]
  /\ \A i \in Indices : UsesOf(log[i]) \subseteq emitted
  /\ \A u \in Use \ emitted : rows[u] = "none"
  /\ \A u \in Use : rows[u] = "none" => executed[u] = 0

(* A run that has the tables to itself: it appends, what it loaded of the  *)
(* uses it has yet to answer is still so, and its turn is the last answer, *)
(* part done and part to do.                                               *)
AloneRun(r) ==
  LET R == runs[r] IN
  /\ R.pc \in Loaded => R.idx = Size
  /\ R.pc \in {"answered"} \cup Turn =>
       \A u \in R.todo : (R.pc \in Tool /\ u = R.cur) \/ R.prior[u] = rows[u]
  /\ R.pc \in Tool => rows[R.cur] = "pending"
  /\ R.pc = "execute" /\ R.cur \notin Idempotent => executed[R.cur] = 0
  /\ R.pc = "answered" => \A i \in Indices : UsesOf(log[i]) \cap R.todo = {}
  /\ R.pc \in Turn =>
       /\ R.todo \cup DOMAIN R.body = UsesOf(log[Size - 1])
       /\ R.todo \cap DOMAIN R.body = {}
       /\ \A u \in DOMAIN R.body : R.body[u] = rows[u]

TurnsMatch ==
  \A i \in Indices : i > 0 /\ log[i].role = "user" =>
    /\ UsesOf(log[i]) = UsesOf(log[i - 1])
    /\ \A u \in UsesOf(log[i]) : log[i].body[u] = rows[u]

AnswersDisjoint ==
  \A i, k \in Indices : i # k /\ log[i].role = "assistant" /\ log[k].role = "assistant" =>
    UsesOf(log[i]) \cap UsesOf(log[k]) = {}

Alone ==
  /\ \A r, s \in Live : r = s
  /\ \A r \in Live : AloneRun(r)
  /\ \A u \in Use \ Idempotent : executed[u] <= 1
  /\ TurnsMatch
  /\ AnswersDisjoint

IInv ==
  /\ LogOK
  /\ TablesOK
  /\ runs \in [Run -> RunType]
  /\ \A r \in Run : RunOK(r)
  /\ ~overlapped => Alone
-----------------------------------------------------------------------------
(* Bodies.                                                                 *)

LEMMA BodyType ==
  ASSUME NEW S \in SUBSET Use, NEW f \in [S -> {"use"} \cup Settled]
  PROVE  f \in Bodies
BY DEF Bodies

LEMMA BodyIs ==
  ASSUME NEW b \in Bodies
  PROVE  /\ DOMAIN b \in SUBSET Use
         /\ b \in [DOMAIN b -> {"use"} \cup Settled]
BY DEF Bodies

LEMMA EmptyBody == Empty \in Bodies /\ DOMAIN Empty = {}
<1>1. Empty \in [{} -> {"use"} \cup Settled]
    BY DEF Empty
<1> QED
    BY <1>1, BodyType

LEMMA WithBody ==
  ASSUME NEW b \in Bodies, NEW u \in Use, NEW outcome \in Settled
  PROVE  /\ With(b, u, outcome) \in Bodies
         /\ DOMAIN With(b, u, outcome) = DOMAIN b \cup {u}
<1>1. With(b, u, outcome) \in [DOMAIN b \cup {u} -> {"use"} \cup Settled]
    BY BodyIs DEF With
<1> QED
    BY <1>1, BodyIs, BodyType DEF With

LEMMA AnswerType ==
  ASSUME NEW S \in SUBSET Use
  PROVE  /\ Answer(S) \in Message /\ Answer(S).role = "assistant"
         /\ UsesOf(Answer(S)) = S
<1>1. [u \in S |-> "use"] \in Bodies
    BY BodyType
<1> QED
    BY <1>1 DEF Answer, Message, UsesOf

LEMMA ResultsType ==
  ASSUME NEW b \in Bodies
  PROVE  Results(b) \in Message /\ Results(b).role = "user" /\ Results(b).body = b
BY DEF Results, Message

LEMMA PromptType == Prompt \in Message /\ Prompt.role = "user" /\ UsesOf(Prompt) = {}
BY EmptyBody DEF Prompt, Message, UsesOf

LEMMA NewRunType ==
  ASSUME NEW p \in PC
  PROVE  [NewRun EXCEPT !.pc = p] \in RunType
BY EmptyBody, SubagentAssumption DEF NewRun, RunType, RowStatus
-----------------------------------------------------------------------------
(* The conversation.                                                       *)

LEMMA SizeIs ==
  ASSUME NEW n \in Nat, Indices = 0 .. n - 1
  PROVE  Size = n
BY FS_Interval DEF Size

LEMMA NextSizeIs ==
  ASSUME NEW n \in Nat, Indices' = 0 .. n - 1
  PROVE  Size' = n
BY FS_Interval DEF Size

(* Half of the first n messages are the assistant's.                       *)
LEMMA CountAnswers ==
  ASSUME LogOK
  PROVE  LET c == Cardinality({i \in Indices : log[i].role = "assistant"})
         IN  /\ c \in 0 .. MaxTurns
             /\ Size \in {2 * c, 2 * c + 1}
<1> DEFINE A == {i \in Indices : log[i].role = "assistant"}
           h == Size \div 2
           f == [k \in 1 .. h |-> 2 * k - 1]
<1>1. Size \in Nat /\ MaxTurns \in Nat /\ Size <= 2 * MaxTurns + 1
    BY SubagentAssumption DEF LogOK
<1>2. h \in Nat /\ (Size = 2 * h \/ Size = 2 * h + 1)
    BY <1>1
<1>3. A = {i \in 0 .. Size - 1 : i % 2 = 1}
    <2>1. \A i \in Int : i % 2 = 0 \/ i % 2 = 1
        OBVIOUS
    <2> QED
        BY <2>1, <1>1 DEF LogOK, RoleAt
<1>4. ExistsBijection(1 .. h, A)
    <2>1. f \in [1 .. h -> A]
        BY <1>1, <1>2, <1>3
    <2>2. \A k, l \in 1 .. h : f[k] = f[l] => k = l
        BY <1>2
    <2>3. \A i \in A : \E k \in 1 .. h : f[k] = i
        <3> SUFFICES ASSUME NEW i \in A PROVE \E k \in 1 .. h : f[k] = i
            OBVIOUS
        <3>1. i \in 0 .. Size - 1 /\ i % 2 = 1
            BY <1>3
        <3>2. (i + 1) \div 2 \in 1 .. h /\ 2 * ((i + 1) \div 2) - 1 = i
            BY <3>1, <1>1, <1>2
        <3> QED
            BY <3>2
    <2>4. f \in Bijection(1 .. h, A)
        BY <2>1, <2>2, <2>3, Fun_IsBij
    <2> QED
        BY <2>4 DEF ExistsBijection
<1>5. Cardinality(A) = h
    BY <1>2, <1>4, FS_CountingElements
<1> QED
    BY <1>1, <1>2, <1>5

(* ON CONFLICT DO NOTHING: a run's index is that of a message that exists, *)
(* which stays, or the next one.                                           *)
LEMMA Persisted ==
  ASSUME LogOK, NEW i \in 0 .. 2 * MaxTurns, i <= Size, NEW m \in Message,
         m.role = RoleAt(i), log' = Persist(i, m)
  PROVE  /\ LogOK'
         /\ Size <= Size' /\ i < Size'
         /\ Indices' = Indices \cup {i}
         /\ \A k \in Indices : log'[k] = log[k]
         /\ i = Size => Size' = Size + 1 /\ log'[i] = m
<1>1. Size \in Nat /\ MaxTurns \in Nat /\ i \in Nat /\ Size <= 2 * MaxTurns + 1
    BY SubagentAssumption DEF LogOK
<1>2. Indices = 0 .. Size - 1
    BY DEF LogOK
<1>3. /\ Indices' = Indices \cup {i}
      /\ log' \in [Indices \cup {i} -> Message]
      /\ \A k \in Indices : log'[k] = log[k]
      /\ i \notin Indices => log'[i] = m
    BY DEF Persist, Indices, LogOK
<1>4. CASE i = Size
    <2>1. Indices' = 0 .. (Size + 1) - 1
        BY <1>1, <1>2, <1>3, <1>4
    <2>2. Size' = Size + 1
        BY <2>1, <1>1, NextSizeIs
    <2>3. i \notin Indices
        BY <1>1, <1>2, <1>4
    <2>4. LogOK'
        BY <1>1, <1>3, <1>4, <2>1, <2>2, <2>3 DEF LogOK, Indices
    <2> QED
        BY <1>1, <1>3, <1>4, <2>2, <2>3, <2>4
<1>5. CASE i < Size
    <2>1. i \in Indices
        BY <1>1, <1>2, <1>5
    <2>2. Indices' = Indices
        BY <1>3, <2>1
    <2>3. Size' = Size
        BY <2>2 DEF Size
    <2>4. LogOK'
        BY <1>3, <2>2, <2>3 DEF LogOK, Indices
    <2> QED
        BY <1>1, <1>3, <1>5, <2>3, <2>4
<1> QED
    BY <1>1, <1>4, <1>5
-----------------------------------------------------------------------------
(* Steps.                                                                  *)

(* No step takes back a message, an emitted use or a row.                  *)
Grown ==
  /\ Size <= Size'
  /\ \A k \in Indices : k \in Indices' /\ log'[k] = log[k]
  /\ emitted \subseteq emitted'
  /\ \A u \in Use : rows[u] # "none" => rows'[u] # "none"

(* So what is known of a run stays known while others move.                *)
LEMMA KeepsRun ==
  ASSUME LogOK, LogOK', TablesOK, Grown, NEW q \in Run, runs[q] \in RunType,
         RunOK(q), runs'[q] = runs[q]
  PROVE  RunOK(q)'
<1> DEFINE R == runs[q]
<1>1. /\ Size \in Nat /\ Size' \in Nat /\ R.idx \in Nat /\ R.todo \subseteq Use
      /\ Indices = 0 .. Size - 1
    BY SubagentAssumption DEF LogOK, RunType
<1>2. R.pc \in Loaded => R.idx <= Size'
    BY <1>1 DEF RunOK, Grown
<1>3. ASSUME R.pc = "loadTools"
      PROVE  R.last = IF R.idx = 0 THEN NoMessage ELSE log'[R.idx - 1]
    <2>1. R.idx <= Size
        BY <1>3 DEF RunOK, Loaded, PC
    <2>2. R.idx # 0 => R.idx - 1 \in Indices
        BY <1>1, <2>1
    <2> QED
        BY <1>3, <2>2 DEF RunOK, Grown
<1>4. R.pc \in Tool => rows'[R.cur] # "none"
    BY <1>1 DEF RunOK, Grown
<1>5. /\ R.todo \subseteq emitted' /\ DOMAIN R.body \subseteq emitted'
      /\ \A u \in Use \ emitted' : R.prior[u] = "none"
    BY DEF RunOK, Grown
<1> QED
    BY <1>2, <1>3, <1>4, <1>5 DEF RunOK

(* A step of run r: what is left to show of it.                            *)
LEMMA StepOf ==
  ASSUME IInv, NEW r \in Run, r \in Live, NEW new \in RunType,
         runs' = [runs EXCEPT ![r] = new], overlapped' = overlapped,
         LogOK', TablesOK', Grown, RunOK(r)',
         ~overlapped => /\ r \in Live' => AloneRun(r)'
                        /\ \A u \in Use \ Idempotent : executed'[u] <= 1
                        /\ TurnsMatch' /\ AnswersDisjoint'
  PROVE  IInv'
<1>1. runs' \in [Run -> RunType] /\ \A q \in Run \ {r} : runs'[q] = runs[q]
    BY DEF IInv
<1>2. \A q \in Run : RunOK(q)'
    BY <1>1, KeepsRun DEF IInv
<1>3. ASSUME ~overlapped
      PROVE  Alone'
    <2>1. Live' \subseteq {r}
        BY <1>1, <1>3 DEF IInv, Alone, Live
    <2> QED
        BY <1>3, <2>1 DEF Alone
<1> QED
    BY <1>1, <1>2, <1>3 DEF IInv

(* The steps that only move the run.                                       *)
LEMMA MoveOf ==
  ASSUME IInv, NEW r \in Run, r \in Live, NEW new \in RunType,
         runs' = [runs EXCEPT ![r] = new],
         UNCHANGED <<log, rows, executed, overlapped, emitted>>,
         RunOK(r)', ~overlapped => (r \in Live' => AloneRun(r)')
  PROVE  IInv'
<1>1. LogOK' /\ TablesOK'
    BY DEF IInv, LogOK, TablesOK, Indices, Size
<1>2. Grown
    BY <1>1 DEF Grown, Indices, Size, LogOK
<1>3. ~overlapped => /\ \A u \in Use \ Idempotent : executed'[u] <= 1
                     /\ TurnsMatch' /\ AnswersDisjoint'
    BY DEF IInv, Alone, TurnsMatch, AnswersDisjoint, Indices
<1> QED
    BY <1>1, <1>2, <1>3, StepOf

LEMMA LiveIs ==
  ASSUME NEW r \in Run
  PROVE  /\ r \in Live <=> runs[r].pc \notin {"off", "stopped"}
         /\ r \in Live' <=> runs'[r].pc \notin {"off", "stopped"}
BY DEF Live

(* The user speaks at even indices, the assistant at odd ones.             *)
LEMMA Parity ==
  ASSUME NEW t \in Nat
  PROVE  /\ RoleAt(2 * t) = "user" /\ RoleAt(2 * t + 1) = "assistant"
         /\ t > 0 => RoleAt(2 * t - 1) = "assistant"
<1>1. (2 * t) % 2 = 0 /\ (2 * t + 1) % 2 = 1 /\ (t > 0 => (2 * t - 1) % 2 = 1)
    OBVIOUS
<1> QED
    BY <1>1 DEF RoleAt

LEMMA ParityOf ==
  ASSUME NEW i \in Nat
  PROVE  /\ RoleAt(i) = "user" => \A t \in Nat : i # 2 * t + 1
         /\ RoleAt(i) = "assistant" => \A t \in Nat : i # 2 * t
         /\ i > 0 /\ RoleAt(i) = "user" => RoleAt(i - 1) = "assistant"
<1>1. i % 2 \in {0, 1} /\ (i > 0 /\ i % 2 = 0 => (i - 1) % 2 = 1)
    OBVIOUS
<1>2. \A t \in Nat : (2 * t) % 2 = 0 /\ (2 * t + 1) % 2 = 1
    OBVIOUS
<1> QED
    BY <1>1, <1>2 DEF RoleAt

LEMMA ClaimKeeps ==
  ASSUME IInv, NEW r \in Run, Claim(r)
  PROVE  IInv'
<1> USE DEF Claim
<1>1. LogOK' /\ TablesOK'
    BY DEF IInv, LogOK, TablesOK, Indices, Size
<1>2. Grown
    BY <1>1 DEF Grown, Indices, Size, LogOK
<1>3. /\ runs' \in [Run -> RunType] /\ runs'[r] = [runs[r] EXCEPT !.pc = "load"]
      /\ \A q \in Run \ {r} : runs'[q] = runs[q]
    <2>1. runs \in [Run -> RunType]
        BY DEF IInv
    <2>2. [runs[r] EXCEPT !.pc = "load"] \in RunType
        BY <2>1 DEF RunType, PC
    <2>3. runs' = [runs EXCEPT ![r] = [runs[r] EXCEPT !.pc = "load"]]
        OBVIOUS
    <2> QED
        BY <2>1, <2>2, <2>3
<1>4. RunOK(r)'
    BY <1>3 DEF IInv, RunOK, RunType, Loaded, Turn, Tool
<1>5. \A q \in Run : RunOK(q)'
    BY <1>1, <1>2, <1>3, <1>4, KeepsRun DEF IInv
<1>6. ASSUME ~overlapped'
      PROVE  Alone'
    <2>1. ~overlapped /\ Live = {}
        BY <1>6
    <2>2. Live' \subseteq {r}
        BY <1>3, <2>1 DEF Live
    <2>3. AloneRun(r)'
        BY <1>3 DEF AloneRun, Loaded, Turn, Tool
    <2>4. IInv /\ ~overlapped
        BY <1>6
    <2>5. (\A u \in Use \ Idempotent : executed'[u] <= 1) /\ TurnsMatch' /\ AnswersDisjoint'
        BY <2>4 DEF IInv, Alone, TurnsMatch, AnswersDisjoint, Indices
    <2> QED
        BY <2>2, <2>3, <2>5 DEF Alone
<1> QED
    BY <1>1, <1>3, <1>5, <1>6 DEF IInv

(* loadPriorMessages counts the messages, and half of them are answers.    *)
LEMMA LoadMessagesKeeps ==
  ASSUME IInv, NEW r \in Run, LoadMessages(r)
  PROVE  IInv'
<1> DEFINE R == runs[r]
           c == Cardinality({i \in Indices : log[i].role = "assistant"})
           l == IF Size > 0 THEN log[CHOOSE i \in Indices : \A j \in Indices : j <= i]
                ELSE NoMessage
           new == [R EXCEPT !.pc = "loadTools", !.idx = Size, !.turns = c, !.last = l]
<1>1. /\ R.pc = "load" /\ r \in Live /\ runs' = [runs EXCEPT ![r] = new]
      /\ UNCHANGED <<log, rows, executed, overlapped, emitted>>
    BY LiveIs DEF LoadMessages, Step, Size
<1>2. Size \in 0 .. 2 * MaxTurns + 1 /\ c \in 0 .. MaxTurns /\ Size \in {2 * c, 2 * c + 1}
    BY CountAnswers DEF IInv, LogOK
<1>3. l \in Message \cup {NoMessage} /\ l = IF Size = 0 THEN NoMessage ELSE log[Size - 1]
    <2>1. CASE Size = 0
        BY <2>1
    <2>2. CASE Size > 0
        <3>1. Indices = 0 .. Size - 1 /\ log \in [Indices -> Message] /\ Size \in Nat
            BY <1>2, SubagentAssumption DEF IInv, LogOK
        <3>2. (CHOOSE i \in Indices : \A j \in Indices : j <= i) = Size - 1
            BY <3>1, <2>2
        <3> QED
            BY <3>1, <3>2, <2>2
    <2> QED
        BY <1>2, <2>1, <2>2, SubagentAssumption
<1>4. new \in RunType /\ runs'[r] = new
    <2>1. R \in RunType /\ runs \in [Run -> RunType]
        BY DEF IInv
    <2> HIDE DEF R, c, l
    <2>2. new \in RunType
        BY <1>2, <1>3, <2>1 DEF RunType, PC
    <2> QED
        BY <1>1, <2>1, <2>2
<1>5. /\ new.pc = "loadTools" /\ new.idx = Size /\ new.turns = c /\ new.last = l
      /\ new.todo = R.todo /\ new.body = R.body /\ new.prior = R.prior
    BY <1>4 DEF IInv, RunType
<1>6. RunOK(r)'
    BY <1>1, <1>2, <1>3, <1>4, <1>5, SubagentAssumption
       DEF IInv, RunOK, Turn, Tool, Loaded, Size, Indices
<1>7. AloneRun(r)'
    BY <1>1, <1>4, <1>5 DEF AloneRun, Turn, Tool, Loaded, Size, Indices
<1> QED
    BY <1>1, <1>4, <1>6, <1>7, MoveOf

(* loadPriorTools: the run goes on at the last message it has loaded.      *)
LEMMA LoadToolsKeeps ==
  ASSUME IInv, NEW r \in Run, LoadTools(r)
  PROVE  IInv'
<1> DEFINE R == runs[r]
           m == R.last
           todo == IF m # NoMessage /\ m.role = "assistant" THEN UsesOf(m) ELSE {}
           new == [R EXCEPT !.pc = AfterLoad(m), !.prior = Prior, !.todo = todo,
                            !.last = NoMessage]
<1>1. /\ R.pc = "loadTools" /\ r \in Live /\ runs' = [runs EXCEPT ![r] = new]
      /\ UNCHANGED <<log, rows, executed, overlapped, emitted>>
    BY LiveIs DEF LoadTools, Step
<1>2. /\ R \in RunType /\ R.idx \in Nat /\ R.turns \in 0 .. MaxTurns /\ MaxTurns \in Nat
      /\ R.idx \in {2 * R.turns, 2 * R.turns + 1} /\ R.idx <= Size /\ Size \in Nat
      /\ m = IF R.idx = 0 THEN NoMessage ELSE log[R.idx - 1]
      /\ R.body = Empty
    <2>1. R \in RunType /\ RunOK(r) /\ Size \in Nat /\ MaxTurns \in Nat
        BY SubagentAssumption DEF IInv, LogOK
    <2>2. R.idx \in Nat /\ R.turns \in 0 .. MaxTurns
        BY <2>1 DEF RunType
    <2> QED
        BY <1>1, <2>1, <2>2 DEF RunOK, Loaded, Turn, PC
<1>3. ASSUME R.idx # 0
      PROVE  /\ m \in Message /\ m # NoMessage /\ m = log[R.idx - 1] /\ R.idx - 1 \in Indices
             /\ m.role = RoleAt(R.idx - 1)
             /\ UsesOf(m) \subseteq emitted /\ emitted \subseteq Use
    BY <1>2, <1>3, NoMessageAssumption DEF IInv, LogOK, TablesOK
<1>4. todo \subseteq emitted /\ emitted \subseteq Use
    BY <1>2, <1>3 DEF IInv, TablesOK
<1>5. /\ new \in RunType /\ runs'[r] = new
      /\ new.pc = AfterLoad(m) /\ new.idx = R.idx /\ new.turns = R.turns
      /\ new.todo = todo /\ new.body = R.body /\ new.prior = rows
    <2>1. AfterLoad(m) \in {"seed", "call", "return", "dispatch"}
        BY DEF AfterLoad
    <2>2. rows \in [Use -> RowStatus]
        BY DEF IInv, TablesOK
    <2> QED
        BY <1>1, <1>2, <1>4, <2>1, <2>2 DEF IInv, RunType, PC, Prior
<1>6. AfterLoad(m) = "seed" => R.idx = 0 /\ R.turns = 0
    BY <1>2, <1>3 DEF AfterLoad
<1>7. AfterLoad(m) = "call" => R.idx = 2 * R.turns + 1
    <2>1. SUFFICES ASSUME AfterLoad(m) = "call", R.idx = 2 * R.turns PROVE FALSE
        BY <1>2
    <2>2. R.idx # 0 /\ m.role = "user"
        BY <1>2, <2>1 DEF AfterLoad
    <2>3. R.turns > 0 /\ m.role = RoleAt(2 * R.turns - 1)
        BY <1>2, <1>3, <2>1, <2>2
    <2> QED
        BY <1>2, <2>2, <2>3, Parity
<1>8. AfterLoad(m) = "dispatch" =>
        R.idx = 2 * R.turns /\ R.turns > 0 /\ R.idx # 0 /\ todo = UsesOf(m)
    <2>1. SUFFICES ASSUME AfterLoad(m) = "dispatch"
                   PROVE  R.idx = 2 * R.turns /\ R.turns > 0 /\ R.idx # 0 /\ todo = UsesOf(m)
        OBVIOUS
    <2>2. R.idx # 0 /\ m.role # "user"
        BY <1>2, <2>1 DEF AfterLoad
    <2>3. m.role = "assistant"
        BY <1>3, <2>2 DEF Message
    <2>4. R.idx # 2 * R.turns + 1
        BY <1>2, <1>3, <2>2, Parity
    <2> QED
        BY <1>2, <1>3, <2>2, <2>3, <2>4
<1>9. AfterLoad(m) \in {"seed", "call", "return", "dispatch"}
    BY DEF AfterLoad
<1>10. RunOK(r)'
    <2>1. new.idx <= Size' /\ Size' = Size
        BY <1>1, <1>2, <1>5 DEF Size, Indices
    <2>2. /\ todo \subseteq emitted' /\ new.body = Empty /\ DOMAIN new.body \subseteq emitted'
          /\ \A u \in Use \ emitted' : new.prior[u] = "none"
        BY <1>1, <1>2, <1>4, <1>5, EmptyBody DEF IInv, TablesOK
    <2> QED
        BY <1>5, <1>6, <1>7, <1>8, <1>9, <2>1, <2>2 DEF RunOK, Turn, Tool
<1>11. ~overlapped => AloneRun(r)'
    <2>1. SUFFICES ASSUME ~overlapped PROVE AloneRun(r)'
        OBVIOUS
    <2>2. R.idx = Size
        BY <1>1, <2>1 DEF IInv, Alone, AloneRun, Loaded, PC
    <2>3. /\ new.idx = Size' /\ new.pc \notin Tool /\ new.pc \notin {"execute", "answered"}
          /\ UNCHANGED <<log, rows>>
        BY <1>1, <1>5, <1>9, <2>2 DEF Tool, Size, Indices
    <2>4. new.prior = rows' /\ new.body = Empty
        BY <1>1, <1>2, <1>5
    <2>5. new.pc \in Turn => new.todo = UsesOf(log[Size - 1])
        <3>1. SUFFICES ASSUME new.pc = "dispatch" PROVE todo = UsesOf(log[Size - 1])
            BY <1>5, <1>9 DEF Turn, Tool
        <3>2. R.idx # 0 /\ todo = UsesOf(m)
            BY <1>5, <1>8, <3>1
        <3> QED
            BY <1>3, <2>2, <3>2
    <2> HIDE DEF new
    <2> QED
        BY <1>5, <2>3, <2>4, <2>5, EmptyBody DEF AloneRun, Size, Indices
<1> QED
    BY <1>1, <1>5, <1>10, <1>11, MoveOf

(* The steps that write a message, at the index of the run.                *)
LEMMA PersistOf ==
  ASSUME IInv, NEW r \in Run, r \in Live, runs[r].pc \in Loaded,
         NEW i, i = runs[r].idx, i <= 2 * MaxTurns,
         NEW m \in Message, m.role = RoleAt(i), UsesOf(m) \subseteq emitted,
         NEW new \in RunType, runs' = [runs EXCEPT ![r] = new], log' = Persist(i, m),
         UNCHANGED <<rows, executed, overlapped, emitted>>,
         new.idx = i + 1, RunOK(r)',
         ~overlapped => /\ AloneRun(r)'
                        /\ m.role = "user" /\ i > 0 =>
                             /\ UsesOf(m) = UsesOf(log[i - 1])
                             /\ \A u \in UsesOf(m) : m.body[u] = rows[u]
                        /\ m.role = "assistant" =>
                             \A k \in Indices : UsesOf(log[k]) \cap UsesOf(m) = {}
  PROVE  IInv'
<1>1. i \in 0 .. 2 * MaxTurns /\ i <= Size /\ MaxTurns \in Nat /\ Size \in Nat
    BY SubagentAssumption DEF IInv, LogOK, RunType, RunOK
<1>2. /\ LogOK' /\ Size <= Size' /\ Indices' = Indices \cup {i}
      /\ \A k \in Indices : log'[k] = log[k]
      /\ i = Size => log'[i] = m
    BY <1>1, Persisted DEF IInv
<1>3. log'[i] \in {log[i], m} /\ (i \notin Indices => log'[i] = m)
    BY DEF Persist
<1>4. TablesOK'
    BY <1>2, <1>3 DEF IInv, TablesOK
<1>5. Grown
    BY <1>2 DEF Grown
<1>6. ASSUME ~overlapped
      PROVE  (\A u \in Use \ Idempotent : executed'[u] <= 1) /\ TurnsMatch' /\ AnswersDisjoint'
    <2>1. i = Size /\ log'[i] = m /\ Indices = 0 .. Size - 1
        BY <1>2, <1>6 DEF IInv, LogOK, Alone, AloneRun
    <2>2. i > 0 => i - 1 \in Indices
        BY <1>1, <2>1
    <2>3. TurnsMatch'
        <3> SUFFICES ASSUME NEW k \in Indices', k > 0, log'[k].role = "user"
                     PROVE  /\ UsesOf(log'[k]) = UsesOf(log'[k - 1])
                            /\ \A u \in UsesOf(log'[k]) : log'[k].body[u] = rows'[u]
            BY DEF TurnsMatch
        <3>1. CASE k = i
            BY <3>1, <1>2, <1>6, <2>1, <2>2
        <3>2. CASE k \in Indices
            <4>1. k - 1 \in Indices
                BY <3>2, <2>1, <1>1
            <4> QED
                BY <3>2, <4>1, <1>2, <1>6 DEF IInv, Alone, TurnsMatch
        <3> QED
            BY <3>1, <3>2, <1>2
    <2>4. AnswersDisjoint'
        <3> SUFFICES ASSUME NEW k \in Indices', NEW l \in Indices', k # l,
                            log'[k].role = "assistant", log'[l].role = "assistant"
                     PROVE  UsesOf(log'[k]) \cap UsesOf(log'[l]) = {}
            BY DEF AnswersDisjoint
        <3>1. CASE k \in Indices /\ l \in Indices
            BY <3>1, <1>2, <1>6 DEF IInv, Alone, AnswersDisjoint
        <3>2. CASE k = i
            <4>1. l \in Indices /\ m.role = "assistant"
                BY <3>2, <1>2, <2>1
            <4> QED
                BY <3>2, <4>1, <1>2, <1>6, <2>1
        <3>3. CASE l = i
            <4>1. k \in Indices /\ m.role = "assistant"
                BY <3>3, <1>2, <2>1
            <4> QED
                BY <3>3, <4>1, <1>2, <1>6, <2>1
        <3> QED
            BY <3>1, <3>2, <3>3, <1>2
    <2> QED
        BY <1>6, <2>3, <2>4 DEF IInv, Alone
<1> QED
    BY <1>2, <1>4, <1>5, <1>6, StepOf

(* The first message.                                                      *)
LEMMA SeedKeeps ==
  ASSUME IInv, NEW r \in Run, Seed(r)
  PROVE  IInv'
<1> DEFINE R == runs[r]
           new == [R EXCEPT !.pc = "call", !.idx = 1]
<1>1. /\ R.pc = "seed" /\ r \in Live /\ runs' = [runs EXCEPT ![r] = new]
      /\ log' = Persist(0, Prompt) /\ UNCHANGED <<rows, executed, overlapped, emitted>>
    BY LiveIs DEF Seed, Step
<1>2. R \in RunType /\ R.turns = 0 /\ R.idx = 0 /\ MaxTurns \in Nat /\ Size \in Nat
    BY <1>1, SubagentAssumption DEF IInv, LogOK, RunOK
<1>3. Prompt.role = RoleAt(0)
    BY Parity, PromptType
<1>4. /\ LogOK' /\ Size <= Size' /\ 0 < Size' /\ Indices' = Indices \cup {0}
      /\ \A k \in Indices : log'[k] = log[k]
      /\ 0 = Size => Size' = Size + 1 /\ log'[0] = Prompt
    BY <1>1, <1>2, <1>3, PromptType, Persisted DEF IInv
<1>5. /\ new \in RunType /\ runs'[r] = new /\ new.pc = "call" /\ new.idx = 1
      /\ new.turns = 0 /\ new.todo = R.todo /\ new.body = R.body /\ new.prior = R.prior
    <2>1. 1 \in 0 .. 2 * MaxTurns + 1 /\ "call" \in PC
        BY <1>2 DEF PC
    <2>2. new \in RunType
        BY <1>2, <2>1 DEF RunType
    <2>3. runs'[r] = new
        BY <1>1 DEF IInv
    <2> QED
        BY <1>2, <2>2, <2>3 DEF RunType
<1>6. RunOK(r)'
    <2>1. 1 <= Size'
        BY <1>2, <1>4 DEF LogOK
    <2> QED
        BY <1>1, <1>5, <2>1 DEF IInv, RunOK, Turn, Tool
<1>7. ~overlapped => AloneRun(r)'
    BY <1>1, <1>2, <1>4, <1>5 DEF IInv, Alone, AloneRun, Loaded, PC, Turn, Tool
<1>8. UsesOf(Prompt) \subseteq emitted
    BY PromptType
<1>9. R.pc \in Loaded
    BY <1>1 DEF Loaded, PC
<1>10. 0 <= 2 * MaxTurns /\ new.idx = R.idx + 1
    BY <1>2, <1>5
<1>11. UsesOf(Prompt) = {} /\ Prompt \in Message /\ Prompt.role = "user"
    BY PromptType
<1>12. /\ R.idx = runs[r].idx /\ R.idx <= 2 * MaxTurns
       /\ Prompt.role = RoleAt(R.idx) /\ log' = Persist(R.idx, Prompt)
    BY <1>1, <1>2, <1>3, <1>10
<1>13. ~overlapped =>
         /\ AloneRun(r)'
         /\ Prompt.role = "user" /\ R.idx > 0 =>
              /\ UsesOf(Prompt) = UsesOf(log[R.idx - 1])
              /\ \A u \in UsesOf(Prompt) : Prompt.body[u] = rows[u]
         /\ Prompt.role = "assistant" =>
              \A k \in Indices : UsesOf(log[k]) \cap UsesOf(Prompt) = {}
    BY <1>2, <1>7, <1>11
<1> HIDE DEF new
<1> QED
    BY <1>1, <1>5, <1>6, <1>8, <1>9, <1>10, <1>11, <1>12, <1>13, PersistOf

(* The provider answers with uses nobody has seen, or the turns are used   *)
(* up.                                                                     *)
LEMMA CallKeeps ==
  ASSUME IInv, NEW r \in Run, Call(r)
  PROVE  IInv'
<1> DEFINE R == runs[r]
<1>1. R.pc = "call" /\ r \in Live
    BY LiveIs DEF Call
<1>2. /\ R \in RunType /\ R.idx = 2 * R.turns + 1 /\ R.idx <= Size /\ R.body = Empty
      /\ ~overlapped => R.idx = Size
    BY <1>1 DEF IInv, RunOK, Alone, AloneRun, Loaded, PC, Turn
<1>3. CASE R.turns < MaxTurns
    <2>1. PICK S \in SUBSET (Use \ emitted) :
            /\ emitted' = emitted \cup S
            /\ Step(r, [R EXCEPT !.pc = "answered", !.todo = S])
            /\ UNCHANGED <<log, rows, executed>>
        BY <1>3 DEF Call, Answered
    <2> DEFINE new == [R EXCEPT !.pc = "answered", !.todo = S]
    <2>2. /\ new \in RunType /\ runs'[r] = new /\ runs' = [runs EXCEPT ![r] = new]
          /\ overlapped' = overlapped
          /\ new.pc = "answered" /\ new.idx = R.idx /\ new.turns = R.turns /\ new.todo = S
          /\ new.body = R.body /\ new.prior = R.prior
        BY <1>2, <2>1 DEF IInv, RunType, PC, Step
    <2>3. LogOK' /\ Size' = Size /\ Indices' = Indices
        BY <2>1 DEF IInv, LogOK, Indices, Size
    <2>4. TablesOK' /\ Grown
        BY <2>1, <2>3, SubagentAssumption DEF IInv, TablesOK, Grown, LogOK
    <2>5. RunOK(r)'
        BY <1>2, <1>3, <2>1, <2>2, <2>3 DEF IInv, RunOK, Turn, Tool
    <2>6. ~overlapped => AloneRun(r)'
        BY <1>2, <2>1, <2>2, <2>3 DEF IInv, TablesOK, RunOK, AloneRun, Turn, Tool
    <2>7. ~overlapped => /\ \A u \in Use \ Idempotent : executed'[u] <= 1
                         /\ TurnsMatch' /\ AnswersDisjoint'
        BY <2>1 DEF IInv, Alone, TurnsMatch, AnswersDisjoint, Indices
    <2> QED
        BY <1>1, <2>2, <2>3, <2>4, <2>5, <2>6, <2>7, StepOf
<1>4. CASE ~(R.turns < MaxTurns)
    <2> DEFINE new == [R EXCEPT !.pc = "return"]
    <2>1. /\ runs' = [runs EXCEPT ![r] = new]
          /\ UNCHANGED <<log, rows, executed, overlapped, emitted>>
        BY <1>4 DEF Call, Step
    <2>2. /\ new \in RunType /\ runs'[r] = new
          /\ new.pc = "return" /\ new.idx = R.idx /\ new.todo = R.todo
          /\ new.body = R.body /\ new.prior = R.prior
        BY <1>2, <2>1 DEF IInv, RunType, PC
    <2>3. RunOK(r)' /\ (~overlapped => AloneRun(r)')
        BY <1>2, <2>1, <2>2 DEF IInv, RunOK, AloneRun, Turn, Tool, Size, Indices
    <2> QED
        BY <1>1, <2>1, <2>2, <2>3, MoveOf
<1> QED
    BY <1>3, <1>4

(* The answer is the next message, and its uses are new to the log.        *)
LEMMA PersistAnswerKeeps ==
  ASSUME IInv, NEW r \in Run, PersistAnswer(r)
  PROVE  IInv'
<1> DEFINE R == runs[r]
           m == Answer(R.todo)
           p == IF R.todo = {} THEN "return" ELSE "dispatch"
           new == [R EXCEPT !.pc = p, !.idx = @ + 1, !.turns = @ + 1]
<1>1. /\ R.pc = "answered" /\ r \in Live /\ R.pc \in Loaded
      /\ runs' = [runs EXCEPT ![r] = new] /\ log' = Persist(R.idx, m)
      /\ UNCHANGED <<rows, executed, overlapped, emitted>>
    BY LiveIs DEF PersistAnswer, Step, Loaded, PC
<1>2. /\ R \in RunType /\ R.idx = 2 * R.turns + 1 /\ R.idx <= Size /\ R.body = Empty
      /\ R.turns < MaxTurns /\ R.todo \subseteq emitted
    BY <1>1 DEF IInv, RunOK, Turn
<1>3. /\ R.turns \in 0 .. MaxTurns /\ R.idx \in Nat /\ R.todo \in SUBSET Use
      /\ MaxTurns \in Nat /\ Size \in Nat
    BY <1>2, SubagentAssumption DEF RunType, IInv, LogOK
<1>4. /\ m \in Message /\ m.role = "assistant" /\ m.role = RoleAt(R.idx) /\ UsesOf(m) = R.todo
      /\ R.idx <= 2 * MaxTurns
    BY <1>2, <1>3, AnswerType, Parity
<1>5. /\ new \in RunType /\ runs'[r] = new
      /\ new.pc = p /\ new.idx = R.idx + 1 /\ new.turns = R.turns + 1 /\ new.todo = R.todo
      /\ new.body = R.body /\ new.prior = R.prior
    <2>1. R.idx + 1 \in 0 .. 2 * MaxTurns + 1 /\ R.turns + 1 \in 0 .. MaxTurns /\ p \in PC
        BY <1>2, <1>3 DEF PC
    <2>2. new \in RunType
        BY <1>2, <2>1 DEF RunType
    <2>3. runs'[r] = new
        BY <1>1 DEF IInv
    <2> QED
        BY <1>2, <2>2, <2>3 DEF RunType
<1>6. /\ LogOK' /\ R.idx < Size' /\ Indices' = Indices \cup {R.idx} /\ Size' \in Nat
      /\ R.idx = Size => Size' = Size + 1 /\ log'[R.idx] = m
    <2>1. R.idx \in 0 .. 2 * MaxTurns
        BY <1>3, <1>4
    <2>2. LogOK' => Size' \in Nat
        BY SubagentAssumption DEF LogOK
    <2> QED
        BY <1>1, <1>2, <1>4, <2>1, <2>2, Persisted DEF IInv
<1>7. RunOK(r)'
    <2>1. new.idx <= Size' /\ new.idx = 2 * new.turns /\ new.turns > 0
        BY <1>2, <1>3, <1>5, <1>6
    <2> QED
        BY <1>1, <1>2, <1>5, <2>1 DEF IInv, RunOK, Turn, Tool
<1>8. ASSUME ~overlapped
      PROVE  /\ AloneRun(r)'
             /\ \A k \in Indices : UsesOf(log[k]) \cap UsesOf(m) = {}
    <2>1. AloneRun(r)
        BY <1>1, <1>8 DEF IInv, Alone
    <2>2. /\ R.idx = Size /\ Size' = Size + 1 /\ log'[Size' - 1] = m
          /\ \A u \in R.todo : R.prior[u] = rows[u]
          /\ \A k \in Indices : UsesOf(log[k]) \cap R.todo = {}
        BY <1>1, <1>3, <1>6, <2>1 DEF AloneRun, Tool
    <2>3. p = "dispatch" =>
            /\ R.todo \cup DOMAIN R.body = UsesOf(log'[Size' - 1])
            /\ R.todo \cap DOMAIN R.body = {}
            /\ \A u \in DOMAIN R.body : R.body[u] = rows[u]
        BY <1>2, <1>4, <2>2, EmptyBody
    <2>4. AloneRun(r)'
        <3>1. /\ new.idx = Size' /\ new.pc \in {"return", "dispatch"}
              /\ new.todo = R.todo /\ new.body = R.body /\ new.prior = R.prior /\ rows' = rows
              /\ new.pc = p /\ runs'[r] = new
            BY <1>1, <1>5, <2>2
        <3> HIDE DEF new, p, m
        <3> QED
            BY <2>2, <2>3, <3>1 DEF AloneRun, Turn, Tool
    <2> QED
        BY <1>4, <2>2, <2>4
<1>9. ~overlapped =>
        /\ AloneRun(r)'
        /\ m.role = "user" /\ R.idx > 0 =>
             /\ UsesOf(m) = UsesOf(log[R.idx - 1])
             /\ \A u \in UsesOf(m) : m.body[u] = rows[u]
        /\ m.role = "assistant" => \A k \in Indices : UsesOf(log[k]) \cap UsesOf(m) = {}
    BY <1>4, <1>8
<1> HIDE DEF new, m
<1> QED
    BY <1>1, <1>2, <1>4, <1>5, <1>7, <1>9, PersistOf

(* The results answer the last message, with what the rows say.            *)
LEMMA PersistResultsKeeps ==
  ASSUME IInv, NEW r \in Run, PersistResults(r)
  PROVE  IInv'
<1> DEFINE R == runs[r]
           m == Results(R.body)
           new == [R EXCEPT !.pc = "call", !.idx = @ + 1, !.body = Empty]
<1>1. /\ R.pc = "dispatch" /\ R.todo = {} /\ r \in Live /\ R.pc \in Loaded
      /\ runs' = [runs EXCEPT ![r] = new] /\ log' = Persist(R.idx, m)
      /\ UNCHANGED <<rows, executed, overlapped, emitted>>
    BY LiveIs DEF PersistResults, Step, Loaded, PC
<1>2. /\ R \in RunType /\ R.idx = 2 * R.turns /\ R.turns > 0 /\ R.idx <= Size
      /\ DOMAIN R.body \subseteq emitted
    BY <1>1 DEF IInv, RunOK, Turn
<1>3. /\ R.turns \in 0 .. MaxTurns /\ R.idx \in Nat /\ R.body \in Bodies
      /\ MaxTurns \in Nat /\ Size \in Nat
    BY <1>2, SubagentAssumption DEF RunType, IInv, LogOK
<1>4. /\ m \in Message /\ m.role = "user" /\ m.role = RoleAt(R.idx) /\ m.body = R.body
      /\ UsesOf(m) = DOMAIN R.body /\ R.idx <= 2 * MaxTurns
    BY <1>2, <1>3, ResultsType, Parity DEF UsesOf
<1>5. /\ new \in RunType /\ runs'[r] = new
      /\ new.pc = "call" /\ new.idx = R.idx + 1 /\ new.turns = R.turns /\ new.todo = {}
      /\ new.body = Empty /\ new.prior = R.prior
    <2>1. R.idx + 1 \in 0 .. 2 * MaxTurns + 1 /\ "call" \in PC
        BY <1>2, <1>3 DEF PC
    <2>2. new \in RunType
        BY <1>2, <2>1, EmptyBody DEF RunType
    <2>3. runs'[r] = new
        BY <1>1 DEF IInv
    <2> QED
        BY <1>1, <1>2, <2>2, <2>3 DEF RunType
<1>6. /\ LogOK' /\ R.idx < Size' /\ Size' \in Nat
      /\ R.idx = Size => Size' = Size + 1
    <2>1. R.idx \in 0 .. 2 * MaxTurns
        BY <1>3, <1>4
    <2>2. LogOK' => Size' \in Nat
        BY SubagentAssumption DEF LogOK
    <2> QED
        BY <1>1, <1>2, <1>4, <2>1, <2>2, Persisted DEF IInv
<1>7. RunOK(r)'
    <2>1. new.idx <= Size' /\ new.idx = 2 * new.turns + 1
        BY <1>2, <1>3, <1>5, <1>6
    <2>2. /\ \A u \in Use \ emitted : R.prior[u] = "none"
          /\ new.todo \subseteq emitted /\ DOMAIN new.body \subseteq emitted
        BY <1>5, EmptyBody DEF IInv, RunOK
    <2> HIDE DEF new
    <2>3. /\ new.pc \in Loaded => new.idx <= Size'
          /\ new.pc # "loadTools" /\ new.pc # "seed" /\ new.pc # "answered"
          /\ new.pc \notin Turn /\ new.pc \notin Tool
        BY <1>5, <2>1 DEF Turn, Tool
    <2>4. emitted' = emitted /\ new.prior = R.prior /\ new.body = Empty
        BY <1>1, <1>5
    <2> QED
        BY <1>5, <2>1, <2>2, <2>3, <2>4 DEF RunOK
<1>8. ASSUME ~overlapped
      PROVE  /\ AloneRun(r)'
             /\ UsesOf(m) = UsesOf(log[R.idx - 1])
             /\ \A u \in UsesOf(m) : m.body[u] = rows[u]
    <2>1. AloneRun(r)
        BY <1>1, <1>8 DEF IInv, Alone
    <2>2. /\ R.idx = Size /\ Size' = Size + 1 /\ DOMAIN R.body = UsesOf(log[Size - 1])
          /\ \A u \in DOMAIN R.body : R.body[u] = rows[u]
        BY <1>1, <1>6, <2>1 DEF AloneRun, Turn
    <2>3. AloneRun(r)'
        BY <1>5, <2>2 DEF AloneRun, Turn, Tool
    <2> QED
        BY <1>4, <2>2, <2>3
<1>9. ~overlapped =>
        /\ AloneRun(r)'
        /\ m.role = "user" /\ R.idx > 0 =>
             /\ UsesOf(m) = UsesOf(log[R.idx - 1])
             /\ \A u \in UsesOf(m) : m.body[u] = rows[u]
        /\ m.role = "assistant" => \A k \in Indices : UsesOf(log[k]) \cap UsesOf(m) = {}
    BY <1>4, <1>8
<1>10. UsesOf(m) \subseteq emitted
    BY <1>2, <1>4
<1> HIDE DEF new, m
<1> QED
    BY <1>1, <1>2, <1>4, <1>5, <1>7, <1>9, <1>10, PersistOf

(* A run that ends, for whatever reason, has nothing in hand.              *)
LEMMA StoppedKeeps ==
  ASSUME IInv, NEW r \in Run, Return(r) \/ Stop(r)
  PROVE  IInv'
<1> DEFINE new == [NewRun EXCEPT !.pc = "stopped"]
<1>1. /\ r \in Live /\ runs' = [runs EXCEPT ![r] = new]
      /\ UNCHANGED <<log, rows, executed, overlapped, emitted>>
    BY LiveIs DEF Return, Stop
<1>2. new \in RunType
    BY NewRunType DEF PC
<1>3. /\ runs'[r] = new /\ new.pc = "stopped" /\ new.todo = {} /\ new.body = Empty
      /\ new.prior = [u \in Use |-> "none"]
    BY <1>1 DEF IInv, NewRun
<1>4. RunOK(r)' /\ r \notin Live'
    BY <1>1, <1>3, LiveIs, EmptyBody DEF RunOK, Loaded, Turn, Tool
<1> QED
    BY <1>1, <1>2, <1>4, MoveOf
-----------------------------------------------------------------------------
(* The tools of a turn.                                                    *)

(* Writing the row of a use that is still to do disturbs no message: while *)
(* a run is alone, the uses in the answered messages are not those of the  *)
(* last answer.                                                            *)
LEMMA RowOf ==
  ASSUME IInv, NEW r \in Run, r \in Live, runs[r].pc \in Turn,
         NEW u \in runs[r].todo, NEW st \in RowStatus \ {"none"},
         NEW new \in RunType, runs' = [runs EXCEPT ![r] = new],
         rows' = [rows EXCEPT ![u] = st],
         UNCHANGED <<log, executed, overlapped, emitted>>,
         RunOK(r)', ~overlapped => AloneRun(r)'
  PROVE  IInv'
<1> DEFINE R == runs[r]
<1>1. /\ R \in RunType /\ u \in Use /\ u \in emitted /\ rows \in [Use -> RowStatus]
      /\ R.idx = 2 * R.turns /\ R.turns \in Nat /\ R.turns > 0
    BY SubagentAssumption DEF IInv, TablesOK, RunOK, RunType
<1>2. LogOK' /\ Size' = Size /\ Indices' = Indices /\ Size \in Nat
    BY SubagentAssumption DEF IInv, LogOK, Indices, Size
<1>3. /\ rows' \in [Use -> RowStatus] /\ rows'[u] # "none"
      /\ \A v \in Use \ {u} : rows'[v] = rows[v]
    BY <1>1
<1>4. TablesOK'
    BY <1>1, <1>2, <1>3 DEF IInv, TablesOK
<1>5. Grown
    BY <1>1, <1>2, <1>3 DEF Grown
<1>6. ASSUME ~overlapped
      PROVE  (\A v \in Use \ Idempotent : executed'[v] <= 1) /\ TurnsMatch' /\ AnswersDisjoint'
    <2>1. R.idx = Size /\ u \in UsesOf(log[Size - 1]) /\ Size - 1 \in Indices
        BY <1>1, <1>2, <1>6 DEF IInv, LogOK, Alone, AloneRun, Loaded, Turn, PC
    <2>2. log[Size - 1].role = "assistant"
        BY <1>1, <2>1, Parity DEF IInv, LogOK
    <2>3. ASSUME NEW i \in Indices, i > 0, log[i].role = "user"
          PROVE  u \notin UsesOf(log[i])
        <3>1. i \in Nat /\ i <= Size - 1 /\ i - 1 \in Indices
            BY <1>2, <2>3 DEF IInv, LogOK
        <3>2. log[i - 1].role = "assistant"
            BY <2>3, <3>1, ParityOf DEF IInv, LogOK
        <3>3. i - 1 # Size - 1
            BY <1>2, <3>1
        <3> QED
            BY <1>6, <2>1, <2>2, <2>3, <3>1, <3>2, <3>3 DEF IInv, Alone, AnswersDisjoint, TurnsMatch
    <2>4. \A i \in Indices : UsesOf(log[i]) \subseteq Use
        BY DEF IInv, TablesOK
    <2>5. TurnsMatch'
        BY <1>2, <1>3, <1>6, <2>3, <2>4 DEF IInv, Alone, TurnsMatch
    <2> QED
        BY <1>2, <1>6, <2>5 DEF IInv, Alone, AnswersDisjoint
<1> QED
    BY <1>2, <1>4, <1>5, <1>6, StepOf

(* A use that is answered leaves the ones to do and joins the user turn.   *)
LEMMA DoneOf ==
  ASSUME IInv, NEW r \in Run, r \in Live, runs[r].pc \in Turn,
         NEW u \in runs[r].todo, NEW outcome \in Settled, Done(r, u, outcome),
         runs[r].pc \in Tool => u = runs[r].cur,
         \/ rows' = [rows EXCEPT ![u] = outcome]
         \/ /\ rows' = rows
            /\ ~overlapped => rows[u] = outcome
         ,
         UNCHANGED <<log, executed, emitted>>
  PROVE  IInv'
<1> DEFINE R == runs[r]
           new == [R EXCEPT !.pc = "dispatch", !.todo = @ \ {u},
                            !.body = With(@, u, outcome), !.cur = NoUse]
<1>1. /\ R \in RunType /\ u \in Use /\ u \in emitted /\ rows \in [Use -> RowStatus]
      /\ R.idx <= Size /\ R.idx = 2 * R.turns /\ R.turns > 0 /\ R.body \in Bodies
      /\ DOMAIN R.body \subseteq emitted /\ R.todo \subseteq emitted
      /\ DOMAIN R.body \subseteq Use /\ R.todo \subseteq Use
    BY DEF IInv, TablesOK, RunOK, RunType, Turn, Loaded, PC
<1>2. runs' = [runs EXCEPT ![r] = new] /\ overlapped' = overlapped
    BY DEF Done, Step
<1>3. /\ With(R.body, u, outcome) \in Bodies
      /\ DOMAIN With(R.body, u, outcome) = DOMAIN R.body \cup {u}
      /\ \A v \in DOMAIN R.body \cup {u} :
           With(R.body, u, outcome)[v] = IF v = u THEN outcome ELSE R.body[v]
    <2>1. \A v \in DOMAIN R.body \cup {u} :
            With(R.body, u, outcome)[v] = IF v = u THEN outcome ELSE R.body[v]
        BY DEF With
    <2> QED
        BY <1>1, <2>1, WithBody
<1>4. /\ new \in RunType /\ runs'[r] = new
      /\ new.pc = "dispatch" /\ new.idx = R.idx /\ new.turns = R.turns
      /\ new.todo = R.todo \ {u} /\ new.body = With(R.body, u, outcome)
      /\ new.prior = R.prior
    BY <1>1, <1>2, <1>3 DEF IInv, RunType, PC
<1>5. Size' = Size
    BY DEF Size, Indices
<1>6. RunOK(r)'
    <2>1. \A v \in Use \ emitted : R.prior[v] = "none"
        BY DEF IInv, RunOK
    <2>2. DOMAIN new.body \subseteq emitted' /\ new.todo \subseteq emitted'
        BY <1>1, <1>3, <1>4
    <2> HIDE DEF new
    <2> QED
        BY <1>1, <1>4, <1>5, <2>1, <2>2 DEF RunOK, Turn, Tool
<1>7. ASSUME ~overlapped
      PROVE  AloneRun(r)'
    <2>1. AloneRun(r)
        BY <1>7 DEF IInv, Alone
    <2>2. /\ R.idx = Size
          /\ R.todo \cup DOMAIN R.body = UsesOf(log[Size - 1])
          /\ R.todo \cap DOMAIN R.body = {}
          /\ \A v \in DOMAIN R.body : R.body[v] = rows[v]
          /\ \A v \in R.todo \ {u} : R.prior[v] = rows[v]
        BY <2>1 DEF AloneRun, Turn, Loaded, PC
    <2>3. rows'[u] = outcome /\ \A v \in Use \ {u} : rows'[v] = rows[v]
        BY <1>1, <1>7
    <2>4. \A v \in DOMAIN new.body : new.body[v] = rows'[v]
        BY <1>1, <1>3, <1>4, <2>2, <2>3
    <2>5. /\ new.todo \cup DOMAIN new.body = UsesOf(log[Size - 1])
          /\ new.todo \cap DOMAIN new.body = {}
        BY <1>3, <1>4, <2>2
    <2>6. \A v \in new.todo : new.prior[v] = rows'[v]
        BY <1>1, <1>4, <2>2, <2>3
    <2> HIDE DEF new
    <2> QED
        BY <1>4, <1>5, <2>2, <2>4, <2>5, <2>6 DEF AloneRun, Turn, Tool
<1>8. CASE rows' = [rows EXCEPT ![u] = outcome]
    <2>1. outcome \in RowStatus \ {"none"}
        BY DEF RowStatus, Settled
    <2> HIDE DEF new
    <2> QED
        BY <1>2, <1>4, <1>6, <1>7, <1>8, <2>1, RowOf
<1>9. CASE rows' = rows
    BY <1>2, <1>4, <1>6, <1>7, <1>9, MoveOf
<1> QED
    BY <1>8, <1>9

LEMMA ReuseKeeps ==
  ASSUME IInv, NEW r \in Run, NEW u \in Use, Reuse(r, u)
  PROVE  IInv'
<1>1. r \in Live /\ runs[r].pc = "dispatch" /\ runs[r].pc \in Turn /\ runs[r].pc \notin Tool
    BY LiveIs DEF Reuse, Turn, Tool
<1>2. ~overlapped => rows[u] = runs[r].prior[u]
    BY <1>1 DEF IInv, Alone, AloneRun, Reuse
<1> QED
    BY <1>1, <1>2, DoneOf DEF Reuse

LEMMA RejectKeeps ==
  ASSUME IInv, NEW r \in Run, NEW u \in Use, Reject(r, u)
  PROVE  IInv'
<1>1. r \in Live /\ runs[r].pc = "dispatch" /\ runs[r].pc \in Turn /\ runs[r].pc \notin Tool
    BY LiveIs DEF Reject, Turn, Tool
<1>2. "failed" \in Settled
    BY DEF Settled
<1> QED
    BY <1>1, <1>2, DoneOf DEF Reject

LEMMA FailedKeeps ==
  ASSUME IInv, NEW r \in Run, Failed(r)
  PROVE  IInv'
<1>1. /\ r \in Live /\ runs[r].pc = "failed" /\ runs[r].pc \in Turn /\ runs[r].pc \in Tool
      /\ "failed" \in Settled
    BY LiveIs DEF Failed, Turn, Tool, Settled
<1>2. runs[r].cur \in runs[r].todo
    BY <1>1 DEF IInv, RunOK
<1> QED
    BY <1>1, <1>2, DoneOf DEF Failed

(* The row is written before the tool runs; a tool that is not idempotent  *)
(* runs only if there was none, and then it has never run.                 *)
LEMMA PendingKeeps ==
  ASSUME IInv, NEW r \in Run, NEW u \in Use, Pending(r, u)
  PROVE  IInv'
<1> DEFINE R == runs[r]
           new == [R EXCEPT !.pc = "execute", !.cur = u]
<1>1. /\ R.pc = "dispatch" /\ r \in Live /\ R.pc \in Turn /\ u \in R.todo
      /\ runs' = [runs EXCEPT ![r] = new]
      /\ rows' = [rows EXCEPT ![u] = IF rows[u] = "none" THEN "pending" ELSE rows[u]]
      /\ UNCHANGED <<log, executed, overlapped, emitted>>
    BY LiveIs DEF Pending, Step, Turn
<1>2. /\ R \in RunType /\ rows \in [Use -> RowStatus] /\ R.idx <= Size
      /\ R.idx = 2 * R.turns /\ R.turns > 0
    BY <1>1 DEF IInv, TablesOK, RunOK, Turn, Loaded, PC
<1>3. /\ new \in RunType /\ runs'[r] = new
      /\ new.pc = "execute" /\ new.cur = u /\ new.idx = R.idx /\ new.turns = R.turns
      /\ new.todo = R.todo /\ new.body = R.body /\ new.prior = R.prior
    BY <1>1, <1>2 DEF IInv, RunType, PC
<1>4. Size' = Size
    BY <1>1 DEF Size, Indices
<1> DEFINE st == IF rows[u] = "none" THEN "pending" ELSE rows[u]
<1>5. st \in RowStatus \ {"none"} /\ rows' = [rows EXCEPT ![u] = st]
    BY <1>1, <1>2 DEF RowStatus
<1>6. RunOK(r)'
    <2>1. rows'[u] # "none"
        BY <1>2, <1>5
    <2>2. /\ R.todo \subseteq emitted /\ DOMAIN R.body \subseteq emitted
          /\ \A v \in Use \ emitted : R.prior[v] = "none"
        BY DEF IInv, RunOK
    <2> HIDE DEF new
    <2> QED
        BY <1>1, <1>2, <1>3, <1>4, <2>1, <2>2 DEF RunOK, Turn, Tool
<1>7. ASSUME ~overlapped
      PROVE  AloneRun(r)'
    <2>1. AloneRun(r)
        BY <1>1, <1>7 DEF IInv, Alone
    <2>2. /\ R.idx = Size
          /\ R.todo \cup DOMAIN R.body = UsesOf(log[Size - 1])
          /\ R.todo \cap DOMAIN R.body = {}
          /\ \A v \in DOMAIN R.body : R.body[v] = rows[v]
          /\ \A v \in R.todo : R.prior[v] = rows[v]
        BY <1>1, <2>1 DEF AloneRun, Turn, Tool, Loaded, PC
    <2>3. rows[u] = "none" \/ (rows[u] = "pending" /\ u \in Idempotent)
        BY <1>1, <2>2 DEF Pending, Rerunnable
    <2>4. rows'[u] = "pending" /\ \A v \in Use \ {u} : rows'[v] = rows[v]
        BY <1>2, <1>5, <2>3
    <2>5. u \notin Idempotent => executed'[u] = 0
        BY <1>1, <2>3 DEF IInv, TablesOK
    <2>6. /\ \A v \in R.todo : v = u \/ R.prior[v] = rows'[v]
          /\ \A v \in DOMAIN R.body : R.body[v] = rows'[v]
        BY <1>1, <1>2, <2>2, <2>4, BodyIs DEF RunType
    <2> HIDE DEF new
    <2> QED
        BY <1>1, <1>3, <1>4, <2>2, <2>4, <2>5, <2>6 DEF AloneRun, Turn, Tool
<1> HIDE DEF new, st
<1> QED
    BY <1>1, <1>3, <1>5, <1>6, <1>7, RowOf

(* The effect: of a tool that is not idempotent, the first.                *)
LEMMA ExecuteKeeps ==
  ASSUME IInv, NEW r \in Run, Execute(r)
  PROVE  IInv'
<1> DEFINE R == runs[r]
<1>1. PICK next \in {"complete", "failed"} : Step(r, [R EXCEPT !.pc = next])
    BY DEF Execute
<1> DEFINE new == [R EXCEPT !.pc = next]
<1>2. /\ R.pc = "execute" /\ r \in Live /\ R.pc \in Turn /\ R.pc \in Tool
      /\ runs' = [runs EXCEPT ![r] = new] /\ overlapped' = overlapped
      /\ executed' = [executed EXCEPT ![R.cur] = @ + 1] /\ UNCHANGED <<log, rows, emitted>>
    BY <1>1, LiveIs DEF Execute, Step, Turn, Tool
<1>3. /\ R \in RunType /\ R.cur \in R.todo /\ R.cur \in Use /\ rows[R.cur] # "none"
      /\ executed \in [Use -> Nat] /\ RunOK(r)
    BY <1>2 DEF IInv, TablesOK, RunOK, RunType
<1>4. /\ new \in RunType /\ runs'[r] = new
      /\ new.pc = next /\ new.cur = R.cur /\ new.idx = R.idx /\ new.turns = R.turns
      /\ new.todo = R.todo /\ new.body = R.body /\ new.prior = R.prior
    BY <1>2, <1>3 DEF IInv, RunType, PC
<1>5. LogOK' /\ Size' = Size /\ Indices' = Indices /\ Size \in Nat
    BY <1>2, SubagentAssumption DEF IInv, LogOK, Indices, Size
<1>6. /\ executed' \in [Use -> Nat] /\ executed'[R.cur] = executed[R.cur] + 1
      /\ \A v \in Use \ {R.cur} : executed'[v] = executed[v]
    BY <1>2, <1>3
<1>7. TablesOK' /\ Grown
    BY <1>2, <1>3, <1>5, <1>6 DEF IInv, TablesOK, Grown
<1>8. RunOK(r)'
    <2> HIDE DEF new
    <2> QED
        BY <1>2, <1>3, <1>4, <1>5 DEF RunOK, Turn, Tool, Loaded, PC
<1>9. ASSUME ~overlapped
      PROVE  /\ AloneRun(r)'
             /\ \A v \in Use \ Idempotent : executed'[v] <= 1
             /\ TurnsMatch' /\ AnswersDisjoint'
    <2>1. AloneRun(r) /\ \A v \in Use \ Idempotent : executed[v] <= 1
        BY <1>2, <1>9 DEF IInv, Alone
    <2>2. R.cur \notin Idempotent => executed[R.cur] = 0
        BY <1>2, <2>1 DEF AloneRun
    <2>3. \A v \in Use \ Idempotent : executed'[v] <= 1
        BY <1>3, <1>6, <2>1, <2>2
    <2>4. TurnsMatch' /\ AnswersDisjoint'
        BY <1>2, <1>9 DEF IInv, Alone, TurnsMatch, AnswersDisjoint, Indices
    <2>5. AloneRun(r)'
        <3>1. new.pc \in {"complete", "failed"}
            BY <1>4
        <3> HIDE DEF new
        <3> QED
            BY <1>2, <1>4, <1>5, <2>1, <3>1 DEF AloneRun, Turn, Tool, Loaded, PC
    <2> QED
        BY <2>3, <2>4, <2>5
<1> HIDE DEF new
<1> QED
    BY <1>2, <1>4, <1>5, <1>7, <1>8, <1>9, StepOf

(* The outcome is recorded; or writing it throws, and the use has failed.  *)
LEMMA CompleteKeeps ==
  ASSUME IInv, NEW r \in Run, Complete(r)
  PROVE  IInv'
<1> DEFINE R == runs[r]
           new == [R EXCEPT !.pc = "failed"]
<1>1. R.pc = "complete" /\ r \in Live /\ R.pc \in Turn /\ R.pc \in Tool
    BY LiveIs DEF Complete, Turn, Tool
<1>2. R \in RunType /\ R.cur \in R.todo /\ RunOK(r) /\ "complete" \in Settled
    BY <1>1 DEF IInv, RunOK, Settled
<1>3. CASE rows' = [rows EXCEPT ![R.cur] = "complete"] /\ Done(r, R.cur, "complete")
    BY <1>1, <1>2, <1>3, DoneOf DEF Complete
<1>4. CASE Step(r, new) /\ UNCHANGED rows
    <2>1. /\ runs' = [runs EXCEPT ![r] = new]
          /\ UNCHANGED <<log, rows, executed, overlapped, emitted>>
        BY <1>4 DEF Complete, Step
    <2>2. /\ new \in RunType /\ runs'[r] = new
          /\ new.pc = "failed" /\ new.cur = R.cur /\ new.idx = R.idx /\ new.turns = R.turns
          /\ new.todo = R.todo /\ new.body = R.body /\ new.prior = R.prior
        BY <1>2, <2>1 DEF IInv, RunType, PC
    <2>3. Size' = Size /\ Indices' = Indices
        BY <2>1 DEF Size, Indices
    <2> HIDE DEF new
    <2>4. RunOK(r)'
        BY <1>1, <1>2, <2>1, <2>2, <2>3 DEF RunOK, Turn, Tool, Loaded, PC
    <2>5. ~overlapped => AloneRun(r)'
        <3>1. ~overlapped => AloneRun(r)
            BY <1>1 DEF IInv, Alone
        <3> QED
            BY <1>1, <2>1, <2>2, <2>3, <3>1 DEF AloneRun, Turn, Tool, Loaded, PC
    <2> QED
        BY <1>1, <2>1, <2>2, <2>4, <2>5, MoveOf
<1> QED
    BY <1>3, <1>4 DEF Complete
-----------------------------------------------------------------------------
(* The theorems.                                                           *)

LEMMA InitKeeps ==
  ASSUME Init
  PROVE  IInv
<1> USE DEF Init
<1>1. Indices = {} /\ 0 \in Nat /\ Indices = 0 .. 0 - 1
    BY DEF Indices
<1>2. Size = 0
    BY <1>1, SizeIs
<1>3. LogOK
    BY <1>1, <1>2, SubagentAssumption DEF LogOK, Indices
<1>4. TablesOK
    BY <1>1 DEF TablesOK, RowStatus
<1>5. NewRun \in RunType
    BY EmptyBody, SubagentAssumption DEF NewRun, RunType, RowStatus, PC
<1>6. runs \in [Run -> RunType]
    BY <1>5
<1>7. \A r \in Run : RunOK(r)
    BY EmptyBody DEF RunOK, NewRun, Loaded, Turn, Tool
<1>8. Alone
    <2>1. Live = {}
        BY DEF Live, NewRun
    <2> QED
        BY <1>1, <2>1 DEF Alone, TurnsMatch, AnswersDisjoint
<1> QED
    BY <1>3, <1>4, <1>6, <1>7, <1>8 DEF IInv

LEMMA NextKeeps ==
  ASSUME IInv, [Next]_vars
  PROVE  IInv'
<1>1. CASE UNCHANGED vars
    <2>1. LogOK' /\ TablesOK' /\ runs' \in [Run -> RunType]
        BY <1>1 DEF vars, IInv, LogOK, TablesOK, Indices, Size
    <2>2. \A r \in Run : RunOK(r)'
        BY <1>1 DEF vars, IInv, RunOK, Size, Indices
    <2>3. overlapped' = overlapped /\ (Alone => Alone')
        BY <1>1 DEF vars, Alone, AloneRun, TurnsMatch, AnswersDisjoint, Live, Indices, Size
    <2> QED
        BY <2>1, <2>2, <2>3 DEF IInv
<1>2. CASE Next
    <2>1. PICK r \in Run :
            \/ Claim(r) \/ LoadMessages(r) \/ LoadTools(r) \/ Seed(r) \/ Call(r)
            \/ PersistAnswer(r) \/ PersistResults(r) \/ Execute(r) \/ Complete(r) \/ Failed(r)
            \/ Return(r) \/ Stop(r)
            \/ \E u \in Use : Reuse(r, u) \/ Reject(r, u) \/ Pending(r, u)
        BY <1>2 DEF Next
    <2> QED
        BY <2>1, ClaimKeeps, LoadMessagesKeeps, LoadToolsKeeps, SeedKeeps, CallKeeps,
           PersistAnswerKeeps, PersistResultsKeeps, ExecuteKeeps, CompleteKeeps, FailedKeeps,
           StoppedKeeps, ReuseKeeps, RejectKeeps, PendingKeeps
<1> QED
    BY <1>1, <1>2

(* The invariant holds in every state of every conversation.               *)
THEOREM Inductive == Spec => []IInv
<1>1. Init => IInv
    BY InitKeeps
<1>2. IInv /\ [Next]_vars => IInv'
    BY NextKeeps
<1> QED
    BY <1>1, <1>2, PTL DEF Spec

(* However many runs write it at once, and wherever they stop, the         *)
(* conversation has no gap and the roles take turns.                       *)
THEOREM RolesAlternateHolds == Spec => []RolesAlternate
<1>1. IInv => RolesAlternate
    BY SubagentAssumption DEF IInv, LogOK, RolesAlternate, RoleAt
<1> QED
    BY <1>1, Inductive, PTL

(* While the runs follow one another, each user turn answers the uses of   *)
(* the answer before it, with the outcomes of their rows.                  *)
THEOREM AnswersMatchHolds == Spec => []AnswersMatch
<1>1. IInv => AnswersMatch
    BY DEF IInv, Alone, TurnsMatch, AnswersMatch
<1> QED
    BY <1>1, Inductive, PTL

(* While the runs follow one another, a tool that is not idempotent is     *)
(* executed at most once for each use, wherever the runs stop.             *)
THEOREM NonIdempotentOnceHolds == Spec => []NonIdempotentOnce
<1>1. IInv => NonIdempotentOnce
    BY DEF IInv, Alone, NonIdempotentOnce
<1> QED
    BY <1>1, Inductive, PTL

(* Only Execute has the effect of a tool.                                  *)
LEMMA OnlyExecute ==
  ASSUME NEW r \in Run,
         \/ Claim(r) \/ LoadMessages(r) \/ LoadTools(r) \/ Seed(r) \/ Call(r)
         \/ PersistAnswer(r) \/ PersistResults(r) \/ Complete(r) \/ Failed(r)
         \/ Return(r) \/ Stop(r)
         \/ \E u \in Use : Reuse(r, u) \/ Reject(r, u) \/ Pending(r, u)
  PROVE  executed' = executed
BY DEF Claim, LoadMessages, LoadTools, Seed, Call, Answered, PersistAnswer, PersistResults,
       Complete, Failed, Return, Stop, Reuse, Reject, Pending

(* While the runs follow one another, a use whose outcome is recorded is   *)
(* not executed again.                                                     *)
THEOREM SettledNotRerunHolds == Spec => SettledNotRerun
<1>1. ASSUME IInv, [Next]_vars
      PROVE  [~overlapped => \A u \in Use : rows[u] \in Settled => executed'[u] = executed[u]]_vars
    <2>1. CASE UNCHANGED vars
        BY <2>1
    <2>2. ASSUME Next, ~overlapped, NEW u \in Use, rows[u] \in Settled
          PROVE  executed'[u] = executed[u]
        <3>1. PICK r \in Run : Execute(r) \/ executed' = executed
            BY <2>2, OnlyExecute DEF Next
        <3>2. CASE Execute(r)
            <4>1. rows[runs[r].cur] = "pending"
                <5>1. r \in Live /\ runs[r].pc \in Tool
                    BY <3>2, LiveIs DEF Execute, Tool
                <5> QED
                    BY <1>1, <2>2, <5>1 DEF IInv, Alone, AloneRun
            <4>2. u # runs[r].cur
                BY <2>2, <4>1 DEF Settled
            <4> QED
                BY <1>1, <3>2, <4>2 DEF Execute, IInv, TablesOK
        <3> QED
            BY <3>1, <3>2
    <2> QED
        BY <1>1, <2>1, <2>2
<1> QED
    BY <1>1, Inductive, PTL DEF Spec, SettledNotRerun

(* The tables and the runs keep their shape; in particular no run counts   *)
(* beyond max_turns, also when it resumed, and no index is beyond twice    *)
(* that.                                                                   *)
THEOREM TypeCorrect == Spec => []TypeOK
<1> DEFINE Fence == /\ holder \in Run \cup {NoRun}
                    /\ jobDone \in BOOLEAN /\ overlapped \in BOOLEAN
<1>1. Init => Fence
    BY DEF Init
<1>2. Fence /\ [Next]_vars => Fence'
    <2>1. ASSUME NEW r \in Run, Fence, Claim(r)
          PROVE  Fence'
        BY <2>1 DEF Claim
    <2>2. ASSUME NEW r \in Run, Fence, Return(r) \/ Stop(r)
          PROVE  Fence'
        BY <2>2 DEF Return, Stop
    <2>3. ASSUME NEW r \in Run, Fence,
                 \/ LoadMessages(r) \/ LoadTools(r) \/ Seed(r) \/ Call(r)
                 \/ PersistAnswer(r) \/ PersistResults(r) \/ Execute(r)
                 \/ Complete(r) \/ Failed(r)
                 \/ \E u \in Use : Reuse(r, u) \/ Reject(r, u) \/ Pending(r, u)
          PROVE  UNCHANGED <<holder, jobDone, overlapped>>
        BY <2>3 DEF Step, Done, LoadMessages, LoadTools, Seed, Call, Answered, PersistAnswer,
                    PersistResults, Execute, Complete, Failed, Reuse, Reject, Pending
    <2>4. UNCHANGED <<holder, jobDone, overlapped>> /\ Fence => Fence'
        OBVIOUS
    <2>5. UNCHANGED vars => UNCHANGED <<holder, jobDone, overlapped>>
        BY DEF vars
    <2> QED
        BY <2>1, <2>2, <2>3, <2>4, <2>5 DEF Next
<1>3. IInv /\ Fence => TypeOK
    <2>1. IInv => Indices \subseteq Idx
        BY SubagentAssumption DEF IInv, LogOK, Idx
    <2> QED
        BY <2>1 DEF IInv, LogOK, TablesOK, TypeOK, RunType, RowStatus
<1> QED
    BY <1>1, <1>2, <1>3, Inductive, PTL DEF Spec
=============================================================================
