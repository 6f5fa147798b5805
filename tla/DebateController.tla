--------------------------- MODULE DebateController ---------------------------
(***************************************************************************)
(* One debate run of orchestrator/debate_controller.py: the tool calls the *)
(* MCP server executes one at a time, the thread pool that runs one        *)
(* panelist job per worker, and the state file that outlives the process.  *)
(*                                                                         *)
(* `rounds' is what state.json holds.  Everything else is lost when the    *)
(* process stops, except the threads the Codex server has created.         *)
(***************************************************************************)
EXTENDS Integers, FiniteSets

CONSTANTS
  Panelists,    \* the roster of the run
  Concurrency,  \* the `concurrency' argument of the tool calls
  MaxRound,     \* bound: rounds played
  MaxThreads,   \* bound: Codex threads that are ever created
  FailClosed,   \* the run was started with fail_closed
  Faults        \* which of "crash", "raise", "save", "loss" may happen

ASSUME PanelAssumption == Panelists # {} /\ IsFiniteSet(Panelists)
ASSUME BoundsAssumption ==
  Concurrency \in Nat \ {0} /\ MaxRound \in Nat \ {0} /\ MaxThreads \in Nat
ASSUME SwitchAssumption ==
  FailClosed \in BOOLEAN /\ Faults \subseteq {"crash", "raise", "save", "loss"}

VARIABLES
  rounds,   \* state["rounds"] on disk
  phase,    \* what the controller process is doing
  round,    \* the round the running call works on, 0 between calls
  job,      \* the future of each panelist's job in the running call
  outcome,  \* the result dict a finished job returned
  minted,   \* Codex: threads created so far, numbered from 1
  users     \* Codex: users[t], the panelists who have spoken on thread t

vars == <<rounds, phase, round, job, outcome, minted, users>>

-------------------------------------------------------------------------------

Rounds == 1 .. MaxRound
Threads == 1 .. MaxThreads
Statuses == {"absent", "running", "failed", "complete"}
Phases == {"idle", "dispatch", "abort", "down"}
JobStates == {"none", "queued", "running", "done", "raised"}

\* What finalize() makes of a reply: no boundary_decision, a decision from
\* which render_finalizer builds an answer, or one it rejects.
Gates == {"none", "renderable", "rejected"}

\* An entry of a round's results: no key yet, a dict with "error", or a reply.
Missing == [kind |-> "missing", thread |-> 0, gate |-> "none"]
Error == [kind |-> "error", thread |-> 0, gate |-> "none"]
Answered(thread, gate) == [kind |-> "reply", thread |-> thread, gate |-> gate]
Results == {Missing, Error} \cup [kind : {"reply"}, thread : Threads, gate : Gates]
RoundStates ==
  [status : Statuses, results : [Panelists -> Results], finalized : BOOLEAN]

BlankRound(status) ==
  [status |-> status, results |-> [p \in Panelists |-> Missing], finalized |-> FALSE]

AbsentRound == BlankRound("absent")
RunningRound == BlankRound("running")

NoJobs == [p \in Panelists |-> "none"]
NoOutcomes == [p \in Panelists |-> Missing]

Present(r) == rounds[r].status # "absent"
IsLatest(r) == Present(r) /\ \A s \in Rounds : Present(s) => s <= r
HasError(r, p) == rounds[r].results[p].kind = "error"
Replied(r, p) == rounds[r].results[p].kind = "reply"
Failed(r) == {p \in Panelists : HasError(r, p)}

\* state["rounds"]["1"]["results"][p]["thread_id"], 0 when there is none.
OpeningThread(p) == rounds[1].results[p].thread

-------------------------------------------------------------------------------

Init ==
  /\ rounds = [r \in Rounds |-> AbsentRound]
  /\ phase = "idle"
  /\ round = 0
  /\ job = NoJobs
  /\ outcome = NoOutcomes
  /\ minted = 0
  /\ users = [t \in Threads |-> {}]

\* Submit one future per panelist of S.
Dispatch(r, S) ==
  /\ phase' = "dispatch"
  /\ round' = r
  /\ job' = [p \in Panelists |-> IF p \in S THEN "queued" ELSE "none"]
  /\ UNCHANGED <<outcome, minted, users>>

\* The call is over, with an answer or with an error: its locals are gone.
Leave(next) ==
  /\ phase' = next
  /\ round' = 0
  /\ job' = NoJobs
  /\ outcome' = NoOutcomes
  /\ UNCHANGED <<minted, users>>

\* debate_start, past its configuration gates.
Start ==
  /\ phase = "idle"
  /\ ~Present(1)
  /\ rounds' = [rounds EXCEPT ![1] = RunningRound]
  /\ Dispatch(1, Panelists)

\* Mutant of Reply: the barrier is not asked for.
ReplyUnguarded(r) ==
  /\ phase = "idle"
  /\ IsLatest(r)
  /\ \A p \in Panelists : OpeningThread(p) # 0
  /\ r + 1 \in Rounds
  /\ rounds' = [rounds EXCEPT ![r + 1] = RunningRound]
  /\ Dispatch(r + 1, Panelists)

\* debate_reply: the latest round must be complete, and every panelist must
\* have the thread of its opening.
Reply(r) ==
  /\ phase = "idle"
  /\ IsLatest(r)
  /\ rounds[r].status = "complete"
  /\ \A p \in Panelists : OpeningThread(p) # 0
  /\ r + 1 \in Rounds
  /\ rounds' = [rounds EXCEPT ![r + 1] = RunningRound]
  /\ Dispatch(r + 1, Panelists)

\* Mutants of Retry: the whole panel is asked again; only the opening round can
\* be retried.
RetryEveryone(r) ==
  /\ phase = "idle"
  /\ Present(r)
  /\ Failed(r) # {}
  /\ rounds' = [rounds EXCEPT ![r].status = "running"]
  /\ Dispatch(r, Panelists)

RetryOpening(r) ==
  /\ r = 1
  /\ phase = "idle"
  /\ Failed(r) # {}
  /\ rounds' = [rounds EXCEPT ![r].status = "running"]
  /\ Dispatch(r, Failed(r))

\* debate_retry: rerun the entries that hold an error, of any round.  Without
\* one the call answers with a summary and changes nothing.
Retry(r) ==
  /\ phase = "idle"
  /\ Present(r)
  /\ Failed(r) # {}
  /\ r # 1 => \A p \in Failed(r) : OpeningThread(p) # 0
  /\ rounds' = [rounds EXCEPT ![r].status = "running"]
  /\ Dispatch(r, Failed(r))

\* Mutant of Finalize: the panelists without an answer are not counted.
FinalizePartial(r) ==
  /\ phase = "idle"
  /\ FailClosed
  /\ Present(r)
  /\ rounds' = [rounds EXCEPT ![r].finalized =
                  \A p \in Panelists : Replied(r, p) => rounds[r].results[p].gate = "renderable"]
  /\ UNCHANGED <<phase, round, job, outcome, minted, users>>

\* debate_finalize: only the round's flag is saved.  An answer whose snapshots have been
\* lost is not finalized any more.
Finalize(r) ==
  /\ phase = "idle"
  /\ FailClosed
  /\ Present(r)
  /\ \E failing \in SUBSET Panelists :
       /\ failing # {} => "loss" \in Faults
       /\ rounds' = [rounds EXCEPT ![r].finalized =
                       \A p \in Panelists : p \notin failing /\ rounds[r].results[p].gate = "renderable"]
  /\ UNCHANGED <<phase, round, job, outcome, minted, users>>

-------------------------------------------------------------------------------

\* A pool thread takes a job.  A follow-up is sent to the opening thread.
WorkerBegins(p) ==
  /\ job[p] = "queued"
  /\ Cardinality({q \in Panelists : job[q] = "running"}) < Concurrency
  /\ job' = [job EXCEPT ![p] = "running"]
  /\ users' = IF round = 1 THEN users
              ELSE [users EXCEPT ![OpeningThread(p)] = @ \cup {p}]
  /\ UNCHANGED <<rounds, phase, round, outcome, minted>>

WorkerReturns(p, result) ==
  /\ job[p] = "running"
  /\ job' = [job EXCEPT ![p] = "done"]
  /\ outcome' = [outcome EXCEPT ![p] = result]
  /\ UNCHANGED <<rounds, phase, round>>

ReplyGates == IF FailClosed THEN Gates ELSE {"none"}

\* A `codex' call succeeds: the server has created a thread for it.
OpeningReply(p) ==
  /\ round = 1
  /\ minted < MaxThreads
  /\ \E gate \in ReplyGates : WorkerReturns(p, Answered(minted + 1, gate))
  /\ minted' = minted + 1
  /\ users' = [users EXCEPT ![minted + 1] = {p}]

\* Mutants of FollowUpReply: the thread is not recorded; the follow-up is a new
\* `codex' call, on a thread of its own.
FollowUpThreadless(p) ==
  /\ round # 1
  /\ \E gate \in ReplyGates : WorkerReturns(p, Answered(0, gate))
  /\ UNCHANGED <<minted, users>>

FollowUpAfresh(p) ==
  /\ round # 1
  /\ minted < MaxThreads
  /\ \E gate \in ReplyGates : WorkerReturns(p, Answered(minted + 1, gate))
  /\ minted' = minted + 1
  /\ users' = [users EXCEPT ![minted + 1] = {p}]

\* A `codex-reply' call succeeds, on the thread it was sent to.
FollowUpReply(p) ==
  /\ round # 1
  /\ \E gate \in ReplyGates : WorkerReturns(p, Answered(OpeningThread(p), gate))
  /\ UNCHANGED <<minted, users>>

\* Every transport attempt failed: an ordinary result with an "error" key.
WorkerExhausted(p) ==
  /\ WorkerReturns(p, Error)
  /\ UNCHANGED <<minted, users>>

\* The job itself raises: an exception that _attach_structured lets through.
WorkerRaises(p) ==
  /\ "raise" \in Faults
  /\ job[p] = "running"
  /\ job' = [job EXCEPT ![p] = "raised"]
  /\ UNCHANGED <<rounds, phase, round, outcome, minted, users>>

WorkerFinishes(p) ==
  OpeningReply(p) \/ FollowUpReply(p) \/ WorkerExhausted(p) \/ WorkerRaises(p)

-------------------------------------------------------------------------------

\* as_completed yields a future: store its result and save the state.
Collect(p) ==
  /\ phase = "dispatch"
  /\ job[p] = "done"
  /\ rounds' = [rounds EXCEPT ![round].results[p] = outcome[p]]
  /\ job' = [job EXCEPT ![p] = "none"]
  /\ outcome' = [outcome EXCEPT ![p] = Missing]
  /\ UNCHANGED <<phase, round, minted, users>>

\* future.result() or the save raises: the loop is left, while the executor's
\* exit still waits for every job, the queued ones included.
CollectAborts(p) ==
  /\ phase = "dispatch"
  /\ job[p] = "raised" \/ (job[p] = "done" /\ "save" \in Faults)
  /\ phase' = "abort"
  /\ job' = [job EXCEPT ![p] = "none"]
  /\ outcome' = [outcome EXCEPT ![p] = Missing]
  /\ UNCHANGED <<rounds, round, minted, users>>

\* Mutant of AbortReturns: it waits until every future has been consumed.
AbortLingers ==
  /\ phase = "abort"
  /\ job = NoJobs
  /\ UNCHANGED rounds
  /\ Leave("idle")

\* The pool is drained; the call answers isError and the rest is dropped.
AbortReturns ==
  /\ phase = "abort"
  /\ \A p \in Panelists : job[p] \notin {"queued", "running"}
  /\ UNCHANGED rounds
  /\ Leave("idle")

\* Mutants of Settle: the failures are not looked at; the status is not written.
SettleAnyway ==
  /\ phase = "dispatch"
  /\ job = NoJobs
  /\ rounds' = [rounds EXCEPT ![round].status = "complete"]
  /\ Leave("idle")

SettleUnwritten ==
  /\ phase = "dispatch"
  /\ job = NoJobs
  /\ UNCHANGED rounds
  /\ Leave("idle")

\* All futures are collected: decide the round, save, answer.
Settle ==
  /\ phase = "dispatch"
  /\ job = NoJobs
  /\ rounds' = [rounds EXCEPT ![round].status =
                  IF Failed(round) # {} THEN "failed" ELSE "complete"]
  /\ Leave("idle")

\* The save of the decision raises.
SettleAborts ==
  /\ "save" \in Faults
  /\ phase = "dispatch"
  /\ job = NoJobs
  /\ UNCHANGED rounds
  /\ Leave("idle")

\* The controller process dies; only the state file remains.
Crash ==
  /\ "crash" \in Faults
  /\ phase # "down"
  /\ UNCHANGED rounds
  /\ Leave("down")

Restart ==
  /\ phase = "down"
  /\ phase' = "idle"
  /\ UNCHANGED <<rounds, round, job, outcome, minted, users>>

-------------------------------------------------------------------------------

Next ==
  \/ Start
  \/ \E r \in Rounds : Reply(r) \/ Retry(r) \/ Finalize(r)
  \/ \E p \in Panelists :
       WorkerBegins(p) \/ WorkerFinishes(p) \/ Collect(p) \/ CollectAborts(p)
  \/ AbortReturns \/ Settle \/ SettleAborts
  \/ Crash \/ Restart

Spec == Init /\ [][Next]_vars

\* A pool thread that is free takes a job, a call to Codex ends at its timeout at the
\* latest, and the controller's own loop goes on.  The timeout counts from when the request
\* has been written: that Codex reads its stdin on or exits is assumed here, too, as in
\* CodexClient.
Fairness ==
  /\ \A p \in Panelists : /\ WF_vars(WorkerBegins(p))
                          /\ WF_vars(WorkerFinishes(p))
                          /\ WF_vars(Collect(p) \/ CollectAborts(p))
  /\ WF_vars(AbortReturns)
  /\ WF_vars(Settle \/ SettleAborts)

FairSpec == Spec /\ Fairness

\* A moderator who retries the latest round while it has errors, and a Codex
\* server that answers a panelist in the end if it is asked often enough.
Perseverance ==
  /\ WF_vars(\E r \in Rounds : IsLatest(r) /\ Retry(r))
  /\ \A p \in Panelists : SF_vars(OpeningReply(p) \/ FollowUpReply(p))

PerseveringSpec == FairSpec /\ Perseverance
-------------------------------------------------------------------------------

TypeOK ==
  /\ rounds \in [Rounds -> RoundStates]
  /\ phase \in Phases
  /\ round \in 0 .. MaxRound
  /\ job \in [Panelists -> JobStates]
  /\ outcome \in [Panelists -> Results]
  /\ minted \in 0 .. MaxThreads
  /\ users \in [Threads -> SUBSET Panelists]

\* A round is complete only when every configured panelist succeeded: the
\* barrier of docs/ORCHESTRATION.md, as _execute_round and retry() decide it.
BarrierHolds ==
  \A r \in Rounds :
    rounds[r].status = "complete" => \A p \in Panelists : Replied(r, p)

\* Between calls, when the summary of the latest round lists no failed panelist
\* it advises debate_reply (_round_summary's "next"); reply() must then not
\* refuse the round as incomplete.
AdviceHonoured ==
  \A r \in Rounds :
    phase = "idle" /\ IsLatest(r) /\ Failed(r) = {} => rounds[r].status = "complete"

\* A round is opened only over a complete one, which stays complete whatever
\* is retried, aborted or lost afterwards.
RoundsInOrder ==
  \A r \in Rounds :
    r + 1 \in Rounds /\ Present(r + 1) => rounds[r].status = "complete"

\* All the answers of a panelist were given on the thread of its opening, and
\* nobody else has spoken there: the panelists stay independent.
OneConversation ==
  \A r \in Rounds, p \in Panelists :
    Replied(r, p) =>
      /\ rounds[r].results[p].thread = OpeningThread(p)
      /\ OpeningThread(p) \in Threads
      /\ users[OpeningThread(p)] = {p}

\* debate_finalize's flag is never left over answers that do not all have a
\* finalized answer object, and the round it marks has no error to retry.
FinalizedSound ==
  \A r \in Rounds :
    rounds[r].finalized =>
      \A p \in Panelists : Replied(r, p) /\ rounds[r].results[p].gate = "renderable"

\* An answer that was recorded is never changed or lost, by a retry, a later
\* round, a failing call or a crash ("preserving successful results").
AnswersKept ==
  [][\A r \in Rounds, p \in Panelists :
       Replied(r, p) => rounds'[r].results[p] = rounds[r].results[p]]_vars

\* A round that is finalized stays finalized, as long as its snapshots do.
FinalizedStays ==
  [][\A r \in Rounds : rounds[r].finalized => rounds'[r].finalized]_vars

\* Every call ends, unless its process dies: no order of workers, failures and
\* raised exceptions leaves the single-threaded server inside one.
CallsReturn == phase \in {"dispatch", "abort"} ~> phase \in {"idle", "down"}

\* Retrying until there is nothing to retry completes a round that was opened.
RoundsComplete ==
  \A r \in Rounds : Present(r) ~> rounds[r].status = "complete"

\* The abstract barrier the run implements.
Barrier == INSTANCE RoundBarrier WITH
  answered <- [r \in Rounds |-> {p \in Panelists : Replied(r, p)}],
  closed <- [r \in Rounds |-> rounds[r].status = "complete"]

ImplementsBarrier == Barrier!Spec
-------------------------------------------------------------------------------
(* The inductive invariant behind the safety properties above. *)

\* A round without an entry in the state is blank.
BlankWhenAbsent ==
  \A r \in Rounds : ~Present(r) => rounds[r] = AbsentRound

\* What a settled round has left to retry.
CompleteHasNoError ==
  \A r \in Rounds : rounds[r].status = "complete" => Failed(r) = {}

\* No follow-up round without the opening answers of the whole panel.
OpeningsFirst ==
  \A r \in Rounds : r # 1 /\ Present(r) => \A p \in Panelists : Replied(1, p)

\* A call works on one running round, on panelists who have not answered it.
CallShape ==
  /\ phase \in {"dispatch", "abort"} =>
       /\ round \in Rounds
       /\ rounds[round].status = "running"
       /\ \A p \in Panelists : job[p] # "none" => ~Replied(round, p)
  /\ phase \in {"idle", "down"} => round = 0 /\ job = NoJobs

\* A finished job holds an error or an answer from a thread of its panelist:
\* in a follow-up round, from the opening thread.
OutcomeShape ==
  \A p \in Panelists :
    job[p] = "done" =>
      \/ outcome[p] = Error
      \/ /\ outcome[p].kind = "reply"
         /\ outcome[p].thread \in 1 .. minted
         /\ users[outcome[p].thread] = {p}
         /\ round # 1 => outcome[p].thread = OpeningThread(p)

\* Every recorded thread was created by the server.
ThreadsMinted ==
  \A r \in Rounds, p \in Panelists : rounds[r].results[p].thread <= minted

IInv ==
  /\ TypeOK
  /\ BlankWhenAbsent
  /\ CompleteHasNoError
  /\ RoundsInOrder
  /\ OpeningsFirst
  /\ CallShape
  /\ OutcomeShape
  /\ ThreadsMinted
  /\ OneConversation
  /\ FinalizedSound

\* Without faults no answer is dropped on the way: a call that is running has a
\* job for every panelist without an entry, and a settled round has every entry.
NothingLost ==
  /\ phase \in {"idle", "dispatch"}
  /\ \A p \in Panelists : job[p] # "raised"
  /\ \A r \in Rounds, p \in Panelists :
       Present(r) /\ rounds[r].results[p] = Missing => r = round /\ job[p] # "none"
  /\ \A r \in Rounds : rounds[r].status = "running" => r = round /\ phase = "dispatch"
  /\ \A r \in Rounds : rounds[r].status = "failed" => Failed(r) # {}
===============================================================================
