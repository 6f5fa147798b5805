------------------------ MODULE DebateControllerProofs ------------------------
(***************************************************************************)
(* Proofs about DebateController, for every roster, every number of rounds *)
(* and threads, every concurrency and, where nothing else is said, every   *)
(* set of faults: IInv is inductive, one lemma per action; the safety      *)
(* properties and the action properties follow from it; without faults     *)
(* nothing is lost, and the run implements RoundBarrier.                   *)
(***************************************************************************)
EXTENDS DebateController, TLAPS

USE DEF Rounds, Threads, Statuses, Phases, JobStates, Gates, RoundStates

\* A run that has not been started satisfies the invariant.
LEMMA InitIInv == Init => IInv
  BY BoundsAssumption, PanelAssumption DEF Init, IInv, TypeOK, BlankWhenAbsent,
    CompleteHasNoError, RoundsInOrder, OpeningsFirst, CallShape, OutcomeShape,
    ThreadsMinted, OneConversation, FinalizedSound, AbsentRound, BlankRound, Present, Failed,
    HasError, Replied, NoJobs, NoOutcomes, Results, Missing, Error

\* Opening round 1 touches only blank rounds and starts one job per panelist.
LEMMA StartIInv ==
  ASSUME IInv, Start
  PROVE  IInv'
<1> USE BoundsAssumption, PanelAssumption DEF IInv, Start, Dispatch
<1>1. TypeOK'
  BY DEF TypeOK, RunningRound, AbsentRound, BlankRound, Results, Missing, Error
<1>2. BlankWhenAbsent'
  BY DEF BlankWhenAbsent, TypeOK, RunningRound, AbsentRound, BlankRound, Present
<1>3. CompleteHasNoError'
  BY DEF CompleteHasNoError, TypeOK, RunningRound, AbsentRound, BlankRound, Present, Failed, HasError
<1>4. RoundsInOrder'
  BY DEF RoundsInOrder, TypeOK, RunningRound, AbsentRound, BlankRound, Present
<1>5. OpeningsFirst'
  BY DEF OpeningsFirst, BlankWhenAbsent, TypeOK, RunningRound, AbsentRound, BlankRound, Present, Replied, Missing
<1>6. CallShape'
  BY DEF CallShape, TypeOK, RunningRound, AbsentRound, BlankRound, Replied, Missing
<1>7. OutcomeShape'
  BY DEF OutcomeShape, CallShape, TypeOK, NoJobs
<1>8. ThreadsMinted'
  BY DEF ThreadsMinted, TypeOK, RunningRound, AbsentRound, BlankRound, Missing
<1>9. OneConversation'
  BY DEF OneConversation, OpeningsFirst, BlankWhenAbsent, TypeOK, RunningRound, AbsentRound, BlankRound, Missing, Replied, OpeningThread, Present
<1>10. FinalizedSound'
  BY DEF FinalizedSound, TypeOK, RunningRound, AbsentRound, BlankRound, Missing, Replied
<1> QED BY <1>1, <1>2, <1>3, <1>4, <1>5, <1>6, <1>7, <1>8, <1>9, <1>10

\* Opening the next round happens over a complete one, which has every opening.
LEMMA ReplyIInv ==
  ASSUME NEW r \in Rounds, IInv, Reply(r)
  PROVE  IInv'
<1> USE BoundsAssumption, PanelAssumption DEF IInv, Reply, Dispatch
<1>1. TypeOK'
  BY DEF TypeOK, RunningRound, BlankRound, AbsentRound, Results, Missing, Error
<1>2. BlankWhenAbsent'
  BY DEF BlankWhenAbsent, TypeOK, RunningRound, BlankRound, AbsentRound, Present
<1>3. CompleteHasNoError'
  BY DEF CompleteHasNoError, TypeOK, RunningRound, BlankRound, AbsentRound, Present, Failed, HasError
<1>4. RoundsInOrder'
  BY DEF RoundsInOrder, TypeOK, RunningRound, BlankRound, AbsentRound, Present, IsLatest
<1>5. OpeningsFirst'
  BY DEF OpeningsFirst, TypeOK, RunningRound, BlankRound, AbsentRound, Present, IsLatest, Replied, OpeningThread, Missing, Error, Results
<1>6. CallShape'
  BY DEF CallShape, TypeOK, RunningRound, BlankRound, AbsentRound, Replied, Missing
<1>7. OutcomeShape'
  BY DEF OutcomeShape, TypeOK, CallShape, NoJobs
<1>8. ThreadsMinted'
  BY DEF ThreadsMinted, TypeOK, RunningRound, BlankRound, AbsentRound, Missing
<1>9. OneConversation'
  BY DEF OneConversation, TypeOK, RunningRound, BlankRound, AbsentRound, Missing, Replied, OpeningThread, Present
<1>10. FinalizedSound'
  BY DEF FinalizedSound, TypeOK, RunningRound, BlankRound, AbsentRound, Missing, Replied
<1> QED BY <1>1, <1>2, <1>3, <1>4, <1>5, <1>6, <1>7, <1>8, <1>9, <1>10

\* A retry reopens a round with errors, and a complete round has none: so no
\* round that a later one stands on is ever reopened.
LEMMA RetryIInv ==
  ASSUME NEW r \in Rounds, IInv, Retry(r)
  PROVE  IInv'
<1> USE BoundsAssumption, PanelAssumption DEF IInv, Retry, Dispatch
<1>1. TypeOK'
  <2> DEFINE entry == [rounds[r] EXCEPT !.status = "running"]
  <2>1. entry \in RoundStates BY DEF TypeOK
  <2>2. rounds' = [rounds EXCEPT ![r] = entry] OBVIOUS
  <2>3. rounds' \in [Rounds -> RoundStates] BY <2>1, <2>2 DEF TypeOK
  <2>4. job' \in [Panelists -> JobStates] OBVIOUS
  <2>5. phase' \in Phases /\ round' \in 0 .. MaxRound OBVIOUS
  <2>6. UNCHANGED <<outcome, minted, users>> OBVIOUS
  <2> HIDE DEF Retry, Dispatch
  <2> QED BY <2>3, <2>4, <2>5, <2>6 DEF TypeOK
<1>2. BlankWhenAbsent'
  BY DEF BlankWhenAbsent, TypeOK, Present, AbsentRound, BlankRound
<1>3. CompleteHasNoError'
  BY DEF CompleteHasNoError, TypeOK, Present, Failed, HasError
<1>4. RoundsInOrder'
  BY DEF RoundsInOrder, TypeOK, Present, CompleteHasNoError, Failed
<1>5. OpeningsFirst'
  BY DEF OpeningsFirst, TypeOK, Present, Replied
<1>6. CallShape'
  BY DEF CallShape, TypeOK, Replied, Failed, HasError
<1>7. OutcomeShape'
  BY DEF OutcomeShape, TypeOK, CallShape, NoJobs
<1>8. ThreadsMinted'
  BY DEF ThreadsMinted, TypeOK
<1>9. OneConversation'
  BY DEF OneConversation, TypeOK, Replied, OpeningThread
<1>10. FinalizedSound'
  BY DEF FinalizedSound, TypeOK, Replied
<1> QED BY <1>1, <1>2, <1>3, <1>4, <1>5, <1>6, <1>7, <1>8, <1>9, <1>10

\* The flag of debate_finalize is set over renderable answers of the whole panel.
LEMMA FinalizeIInv ==
  ASSUME NEW r \in Rounds, IInv, Finalize(r)
  PROVE  IInv'
<1> DEFINE all(failing) == \A p \in Panelists : p \notin failing /\ rounds[r].results[p].gate = "renderable"
<1>0. PICK flag \in BOOLEAN :
        /\ rounds' = [rounds EXCEPT ![r].finalized = flag]
        /\ flag => \A p \in Panelists : rounds[r].results[p].gate = "renderable"
  <2>1. PICK failing \in SUBSET Panelists : rounds' = [rounds EXCEPT ![r].finalized = all(failing)]
    BY DEF Finalize
  <2>2. all(failing) \in BOOLEAN
    OBVIOUS
  <2> QED BY <2>1, <2>2
<1>a. phase = "idle" /\ Present(r) /\ UNCHANGED <<phase, round, job, outcome, minted, users>>
  BY DEF Finalize
<1> USE BoundsAssumption, PanelAssumption, <1>0, <1>a DEF IInv
<1>1. TypeOK'
  BY DEF TypeOK
<1>2. BlankWhenAbsent'
  BY DEF BlankWhenAbsent, TypeOK, Present, AbsentRound, BlankRound
<1>3. CompleteHasNoError'
  BY DEF CompleteHasNoError, TypeOK, Failed, HasError
<1>4. RoundsInOrder'
  BY DEF RoundsInOrder, TypeOK, Present
<1>5. OpeningsFirst'
  BY DEF OpeningsFirst, TypeOK, Present, Replied
<1>6. CallShape'
  BY DEF CallShape, TypeOK, Replied, NoJobs
<1>7. OutcomeShape'
  BY DEF OutcomeShape, TypeOK, OpeningThread
<1>8. ThreadsMinted'
  BY DEF ThreadsMinted, TypeOK
<1>9. OneConversation'
  BY DEF OneConversation, TypeOK, Replied, OpeningThread
<1>10. FinalizedSound'
  BY DEF FinalizedSound, TypeOK, Replied, Results, Missing, Error
<1> QED
  BY <1>1, <1>2, <1>3, <1>4, <1>5, <1>6, <1>7, <1>8, <1>9, <1>10

\* A follow-up is sent on the opening thread, where only its panelist speaks.
LEMMA WorkerBeginsIInv ==
  ASSUME NEW p \in Panelists, IInv, WorkerBegins(p)
  PROVE  IInv'
<1> USE BoundsAssumption, PanelAssumption DEF IInv, WorkerBegins
\* A follow-up adds nobody to the opening thread: the panelist is there.
<1>0. users' = users
  <2>1. CASE round = 1 BY <2>1
  <2>2. CASE round # 1
    <3>1. round \in Rounds /\ Present(round)
      BY DEF CallShape, NoJobs, TypeOK, Present
    <3>2. Replied(1, p) BY <2>2, <3>1 DEF OpeningsFirst
    <3>3. users[OpeningThread(p)] = {p} BY <3>2 DEF OneConversation
    <3> QED BY <2>2, <3>3 DEF TypeOK
  <2> QED BY <2>1, <2>2
<1>1. TypeOK'
  BY DEF TypeOK, OpeningThread
<1>2. BlankWhenAbsent'
  BY DEF BlankWhenAbsent, TypeOK, Present
<1>3. CompleteHasNoError'
  BY DEF CompleteHasNoError, TypeOK, Failed, HasError
<1>4. RoundsInOrder'
  BY DEF RoundsInOrder, TypeOK, Present
<1>5. OpeningsFirst'
  BY DEF OpeningsFirst, TypeOK, Present, Replied
<1>6. CallShape'
  BY DEF CallShape, TypeOK, Replied, NoJobs
<1>7. OutcomeShape'
  BY <1>0 DEF OutcomeShape, TypeOK, OpeningThread
<1>8. ThreadsMinted'
  BY DEF ThreadsMinted, TypeOK
<1>9. OneConversation'
  BY <1>0 DEF OneConversation, TypeOK, Replied, OpeningThread
<1>10. FinalizedSound'
  BY DEF FinalizedSound, TypeOK, Replied
<1> QED
  BY <1>1, <1>2, <1>3, <1>4, <1>5, <1>6, <1>7, <1>8, <1>9, <1>10

\* The thread an opening comes from is new, so nobody else speaks on it.
LEMMA OpeningReplyIInv ==
  ASSUME NEW p \in Panelists, IInv, OpeningReply(p)
  PROVE  IInv'
<1> USE BoundsAssumption, PanelAssumption DEF IInv, OpeningReply, WorkerReturns
<1>1. TypeOK'
  BY DEF TypeOK, Results, ReplyGates, Answered
<1>2. BlankWhenAbsent'
  BY DEF BlankWhenAbsent, TypeOK, Present
<1>3. CompleteHasNoError'
  BY DEF CompleteHasNoError, TypeOK, Failed, HasError
<1>4. RoundsInOrder'
  BY DEF RoundsInOrder, TypeOK, Present
<1>5. OpeningsFirst'
  BY DEF OpeningsFirst, TypeOK, Present, Replied
<1>6. CallShape'
  BY DEF CallShape, TypeOK, NoJobs, Replied
<1>7. OutcomeShape'
  <2>1. PICK gate \in ReplyGates : outcome' = [outcome EXCEPT ![p] = Answered(minted + 1, gate)]
    OBVIOUS
  <2> SUFFICES ASSUME NEW q \in Panelists, job'[q] = "done", outcome'[q] # Error
               PROVE  /\ outcome'[q].kind = "reply"
                      /\ outcome'[q].thread \in 1 .. minted'
                      /\ users'[outcome'[q].thread] = {q}
                      /\ round' # 1 => outcome'[q].thread = OpeningThread(q)'
    BY DEF OutcomeShape
  <2>2. CASE q = p
    BY <2>1, <2>2 DEF TypeOK, Answered
  <2>3. CASE q # p
    BY <2>1, <2>3 DEF TypeOK, OutcomeShape, OpeningThread
  <2> QED BY <2>2, <2>3
<1>8. ThreadsMinted'
  <2> SUFFICES ASSUME NEW s \in Rounds, NEW q \in Panelists
               PROVE  rounds[s].results[q].thread <= minted + 1
    BY DEF ThreadsMinted
  <2>1. rounds[s].results[q] \in Results BY DEF TypeOK
  <2>2. rounds[s].results[q].thread \in Int BY <2>1 DEF Results, Missing, Error
  <2> QED BY <2>2 DEF ThreadsMinted, TypeOK
<1>9. OneConversation'
  BY DEF OneConversation, TypeOK, Replied, OpeningThread, ThreadsMinted
<1>10. FinalizedSound'
  BY DEF FinalizedSound, TypeOK, Replied
<1> QED
  BY <1>1, <1>2, <1>3, <1>4, <1>5, <1>6, <1>7, <1>8, <1>9, <1>10

\* A follow-up comes from the thread it was sent to.
LEMMA FollowUpReplyIInv ==
  ASSUME NEW p \in Panelists, IInv, FollowUpReply(p)
  PROVE  IInv'
<1> USE BoundsAssumption, PanelAssumption DEF IInv, FollowUpReply, WorkerReturns
<1>1. TypeOK'
  BY DEF TypeOK, Results, ReplyGates, Answered, OpeningThread, CallShape, NoJobs, OpeningsFirst, OneConversation, Present, Replied
<1>2. BlankWhenAbsent'
  BY DEF BlankWhenAbsent, TypeOK, Present
<1>3. CompleteHasNoError'
  BY DEF CompleteHasNoError, TypeOK, Failed, HasError
<1>4. RoundsInOrder'
  BY DEF RoundsInOrder, TypeOK, Present
<1>5. OpeningsFirst'
  BY DEF OpeningsFirst, TypeOK, Present, Replied
<1>6. CallShape'
  BY DEF CallShape, TypeOK, NoJobs, Replied
<1>7. OutcomeShape'
  BY DEF OutcomeShape, TypeOK, Answered, OpeningThread, Error, CallShape, NoJobs, OpeningsFirst, OneConversation, Present, Replied, ThreadsMinted
<1>8. ThreadsMinted'
  BY DEF ThreadsMinted, TypeOK
<1>9. OneConversation'
  BY DEF OneConversation, TypeOK, Replied, OpeningThread
<1>10. FinalizedSound'
  BY DEF FinalizedSound, TypeOK, Replied
<1> QED
  BY <1>1, <1>2, <1>3, <1>4, <1>5, <1>6, <1>7, <1>8, <1>9, <1>10

\* A job whose attempts are spent leaves an error, which is no answer.
LEMMA WorkerExhaustedIInv ==
  ASSUME NEW p \in Panelists, IInv, WorkerExhausted(p)
  PROVE  IInv'
<1> USE BoundsAssumption, PanelAssumption DEF IInv, WorkerExhausted, WorkerReturns
<1>1. TypeOK'
  BY DEF TypeOK, Results
<1>2. BlankWhenAbsent'
  BY DEF BlankWhenAbsent, TypeOK, Present
<1>3. CompleteHasNoError'
  BY DEF CompleteHasNoError, TypeOK, Failed, HasError
<1>4. RoundsInOrder'
  BY DEF RoundsInOrder, TypeOK, Present
<1>5. OpeningsFirst'
  BY DEF OpeningsFirst, TypeOK, Present, Replied
<1>6. CallShape'
  BY DEF CallShape, TypeOK, Replied, NoJobs
<1>7. OutcomeShape'
  BY DEF OutcomeShape, TypeOK, OpeningThread, Error
<1>8. ThreadsMinted'
  BY DEF ThreadsMinted, TypeOK
<1>9. OneConversation'
  BY DEF OneConversation, TypeOK, Replied, OpeningThread
<1>10. FinalizedSound'
  BY DEF FinalizedSound, TypeOK, Replied
<1> QED
  BY <1>1, <1>2, <1>3, <1>4, <1>5, <1>6, <1>7, <1>8, <1>9, <1>10

\* A job that raises leaves nothing behind.
LEMMA WorkerRaisesIInv ==
  ASSUME NEW p \in Panelists, IInv, WorkerRaises(p)
  PROVE  IInv'
<1> USE BoundsAssumption, PanelAssumption DEF IInv, WorkerRaises
<1>1. TypeOK'
  BY DEF TypeOK
<1>2. BlankWhenAbsent'
  BY DEF BlankWhenAbsent, TypeOK, Present
<1>3. CompleteHasNoError'
  BY DEF CompleteHasNoError, TypeOK, Failed, HasError
<1>4. RoundsInOrder'
  BY DEF RoundsInOrder, TypeOK, Present
<1>5. OpeningsFirst'
  BY DEF OpeningsFirst, TypeOK, Present, Replied
<1>6. CallShape'
  BY DEF CallShape, TypeOK, Replied, NoJobs
<1>7. OutcomeShape'
  BY DEF OutcomeShape, TypeOK, OpeningThread
<1>8. ThreadsMinted'
  BY DEF ThreadsMinted, TypeOK
<1>9. OneConversation'
  BY DEF OneConversation, TypeOK, Replied, OpeningThread
<1>10. FinalizedSound'
  BY DEF FinalizedSound, TypeOK, Replied
<1> QED
  BY <1>1, <1>2, <1>3, <1>4, <1>5, <1>6, <1>7, <1>8, <1>9, <1>10

\* The result that is stored replaces no answer, for jobs run for unanswered
\* entries only.
LEMMA CollectIInv ==
  ASSUME NEW p \in Panelists, IInv, Collect(p)
  PROVE  IInv'
<1> USE BoundsAssumption, PanelAssumption DEF IInv, Collect
<1>1. TypeOK'
  <2> DEFINE entry == [rounds[round] EXCEPT !.results[p] = outcome[p]]
  <2>1. entry \in RoundStates BY DEF TypeOK, CallShape
  <2>2. rounds' = [rounds EXCEPT ![round] = entry] BY DEF CallShape
  <2>3. rounds' \in [Rounds -> RoundStates] BY <2>1, <2>2 DEF TypeOK, CallShape
  <2> QED BY <2>3 DEF TypeOK, Results
<1>2. BlankWhenAbsent'
  BY DEF BlankWhenAbsent, TypeOK, Present, CallShape
<1>3. CompleteHasNoError'
  BY DEF CompleteHasNoError, TypeOK, Failed, HasError, CallShape
<1>4. RoundsInOrder'
  BY DEF RoundsInOrder, TypeOK, Present, CallShape
<1>5. OpeningsFirst'
  BY DEF OpeningsFirst, TypeOK, Present, Replied, CallShape
<1>6. CallShape'
  BY DEF CallShape, TypeOK, Replied, NoJobs
<1>7. OutcomeShape'
  BY DEF OutcomeShape, TypeOK, OpeningThread, CallShape, Replied
<1>8. ThreadsMinted'
  BY DEF ThreadsMinted, TypeOK, OutcomeShape, CallShape, Error
<1>9. OneConversation'
  <2> SUFFICES ASSUME NEW s \in Rounds, NEW q \in Panelists, Replied(s, q)'
               PROVE  /\ rounds'[s].results[q].thread = OpeningThread(q)'
                      /\ OpeningThread(q)' \in Threads
                      /\ users[OpeningThread(q)'] = {q}
    BY DEF OneConversation
  <2>1. round \in Rounds /\ ~Replied(round, p) /\ Present(round)
    BY DEF TypeOK, CallShape, Present
  <2>2. Replied(round, p)' => /\ outcome[p].thread \in Threads
                              /\ users[outcome[p].thread] = {p}
                              /\ round # 1 => outcome[p].thread = OpeningThread(p)
    BY <2>1 DEF OutcomeShape, TypeOK, Error, Replied
  <2>3. CASE s = round /\ q = p
    BY <2>1, <2>2, <2>3 DEF TypeOK, Replied, OpeningThread
  <2>4. CASE ~(s = round /\ q = p)
    <3>1. Replied(s, q) /\ rounds'[s].results[q] = rounds[s].results[q]
      BY <2>1, <2>4 DEF TypeOK, Replied
    <3>2. Present(s) BY <3>1 DEF BlankWhenAbsent, AbsentRound, BlankRound, Missing, Replied
    <3>3. Replied(1, q) BY <3>1, <3>2 DEF OpeningsFirst
    <3>4. OpeningThread(q)' = OpeningThread(q)
      BY <2>1, <3>3 DEF TypeOK, Replied, OpeningThread
    <3> QED BY <3>1, <3>4 DEF OneConversation
  <2> QED BY <2>3, <2>4
<1>10. FinalizedSound'
  BY DEF FinalizedSound, TypeOK, Replied, CallShape
<1> QED
  BY <1>1, <1>2, <1>3, <1>4, <1>5, <1>6, <1>7, <1>8, <1>9, <1>10

\* A result that is dropped leaves the state file as it was.
LEMMA CollectAbortsIInv ==
  ASSUME NEW p \in Panelists, IInv, CollectAborts(p)
  PROVE  IInv'
<1> USE BoundsAssumption, PanelAssumption DEF IInv, CollectAborts
<1>1. TypeOK'
  BY DEF TypeOK, Results
<1>2. BlankWhenAbsent'
  BY DEF BlankWhenAbsent, TypeOK, Present
<1>3. CompleteHasNoError'
  BY DEF CompleteHasNoError, TypeOK, Failed, HasError
<1>4. RoundsInOrder'
  BY DEF RoundsInOrder, TypeOK, Present
<1>5. OpeningsFirst'
  BY DEF OpeningsFirst, TypeOK, Present, Replied
<1>6. CallShape'
  BY DEF CallShape, TypeOK, Replied, NoJobs
<1>7. OutcomeShape'
  BY DEF OutcomeShape, TypeOK, OpeningThread
<1>8. ThreadsMinted'
  BY DEF ThreadsMinted, TypeOK
<1>9. OneConversation'
  BY DEF OneConversation, TypeOK, Replied, OpeningThread
<1>10. FinalizedSound'
  BY DEF FinalizedSound, TypeOK, Replied
<1> QED
  BY <1>1, <1>2, <1>3, <1>4, <1>5, <1>6, <1>7, <1>8, <1>9, <1>10

\* A round becomes complete only without an error in it.
LEMMA SettleIInv ==
  ASSUME IInv, Settle
  PROVE  IInv'
<1> USE BoundsAssumption, PanelAssumption DEF IInv, Settle, Leave
<1>1. TypeOK'
  <2> DEFINE entry == [rounds[round] EXCEPT
                         !.status = IF Failed(round) # {} THEN "failed" ELSE "complete"]
  <2>1. entry \in RoundStates BY DEF TypeOK, CallShape
  <2>2. rounds' = [rounds EXCEPT ![round] = entry] BY DEF CallShape
  <2>3. rounds' \in [Rounds -> RoundStates] BY <2>1, <2>2 DEF TypeOK, CallShape
  <2> QED BY <2>3 DEF TypeOK, NoJobs, NoOutcomes, Results
<1>2. BlankWhenAbsent'
  BY DEF BlankWhenAbsent, TypeOK, Present, CallShape, AbsentRound, BlankRound
<1>3. CompleteHasNoError'
  BY DEF CompleteHasNoError, TypeOK, Failed, HasError
<1>4. RoundsInOrder'
  BY DEF RoundsInOrder, TypeOK, Present, CallShape
<1>5. OpeningsFirst'
  BY DEF OpeningsFirst, TypeOK, Present, Replied, CallShape
<1>6. CallShape'
  BY DEF CallShape, TypeOK, Replied, NoJobs
<1>7. OutcomeShape'
  BY DEF OutcomeShape, TypeOK, NoJobs
<1>8. ThreadsMinted'
  BY DEF ThreadsMinted, TypeOK
<1>9. OneConversation'
  BY DEF OneConversation, TypeOK, Replied, OpeningThread
<1>10. FinalizedSound'
  BY DEF FinalizedSound, TypeOK, Replied
<1> QED
  BY <1>1, <1>2, <1>3, <1>4, <1>5, <1>6, <1>7, <1>8, <1>9, <1>10

\* A call that ends in an exception leaves its round running, without jobs.
LEMMA AbortReturnsIInv ==
  ASSUME IInv, AbortReturns
  PROVE  IInv'
<1> USE BoundsAssumption, PanelAssumption DEF IInv, AbortReturns, Leave
<1>1. TypeOK'
  BY DEF TypeOK, NoJobs, NoOutcomes, Results
<1>2. BlankWhenAbsent'
  BY DEF BlankWhenAbsent, TypeOK, Present
<1>3. CompleteHasNoError'
  BY DEF CompleteHasNoError, TypeOK, Failed, HasError
<1>4. RoundsInOrder'
  BY DEF RoundsInOrder, TypeOK, Present
<1>5. OpeningsFirst'
  BY DEF OpeningsFirst, TypeOK, Present, Replied
<1>6. CallShape'
  BY DEF CallShape, TypeOK, NoJobs
<1>7. OutcomeShape'
  BY DEF OutcomeShape, TypeOK, NoJobs
<1>8. ThreadsMinted'
  BY DEF ThreadsMinted, TypeOK
<1>9. OneConversation'
  BY DEF OneConversation, TypeOK, Replied, OpeningThread
<1>10. FinalizedSound'
  BY DEF FinalizedSound, TypeOK, Replied
<1> QED
  BY <1>1, <1>2, <1>3, <1>4, <1>5, <1>6, <1>7, <1>8, <1>9, <1>10

\* The decision that could not be saved leaves the round running.
LEMMA SettleAbortsIInv ==
  ASSUME IInv, SettleAborts
  PROVE  IInv'
<1> USE BoundsAssumption, PanelAssumption DEF IInv, SettleAborts, Leave
<1>1. TypeOK'
  BY DEF TypeOK, NoJobs, NoOutcomes, Results
<1>2. BlankWhenAbsent'
  BY DEF BlankWhenAbsent, TypeOK, Present
<1>3. CompleteHasNoError'
  BY DEF CompleteHasNoError, TypeOK, Failed, HasError
<1>4. RoundsInOrder'
  BY DEF RoundsInOrder, TypeOK, Present
<1>5. OpeningsFirst'
  BY DEF OpeningsFirst, TypeOK, Present, Replied
<1>6. CallShape'
  BY DEF CallShape, TypeOK, NoJobs
<1>7. OutcomeShape'
  BY DEF OutcomeShape, TypeOK, NoJobs
<1>8. ThreadsMinted'
  BY DEF ThreadsMinted, TypeOK
<1>9. OneConversation'
  BY DEF OneConversation, TypeOK, Replied, OpeningThread
<1>10. FinalizedSound'
  BY DEF FinalizedSound, TypeOK, Replied
<1> QED
  BY <1>1, <1>2, <1>3, <1>4, <1>5, <1>6, <1>7, <1>8, <1>9, <1>10

\* What a crash takes away was in memory only.
LEMMA CrashIInv ==
  ASSUME IInv, Crash
  PROVE  IInv'
<1> USE BoundsAssumption, PanelAssumption DEF IInv, Crash, Leave
<1>1. TypeOK'
  BY DEF TypeOK, NoJobs, NoOutcomes, Results
<1>2. BlankWhenAbsent'
  BY DEF BlankWhenAbsent, TypeOK, Present
<1>3. CompleteHasNoError'
  BY DEF CompleteHasNoError, TypeOK, Failed, HasError
<1>4. RoundsInOrder'
  BY DEF RoundsInOrder, TypeOK, Present
<1>5. OpeningsFirst'
  BY DEF OpeningsFirst, TypeOK, Present, Replied
<1>6. CallShape'
  BY DEF CallShape, TypeOK, NoJobs
<1>7. OutcomeShape'
  BY DEF OutcomeShape, TypeOK, NoJobs
<1>8. ThreadsMinted'
  BY DEF ThreadsMinted, TypeOK
<1>9. OneConversation'
  BY DEF OneConversation, TypeOK, Replied, OpeningThread
<1>10. FinalizedSound'
  BY DEF FinalizedSound, TypeOK, Replied
<1> QED
  BY <1>1, <1>2, <1>3, <1>4, <1>5, <1>6, <1>7, <1>8, <1>9, <1>10

\* A restarted controller has no call and no jobs.
LEMMA RestartIInv ==
  ASSUME IInv, Restart
  PROVE  IInv'
<1> USE BoundsAssumption, PanelAssumption DEF IInv, Restart
<1>1. TypeOK'
  BY DEF TypeOK
<1>2. BlankWhenAbsent'
  BY DEF BlankWhenAbsent, TypeOK, Present
<1>3. CompleteHasNoError'
  BY DEF CompleteHasNoError, TypeOK, Failed, HasError
<1>4. RoundsInOrder'
  BY DEF RoundsInOrder, TypeOK, Present
<1>5. OpeningsFirst'
  BY DEF OpeningsFirst, TypeOK, Present, Replied
<1>6. CallShape'
  BY DEF CallShape, TypeOK, Replied, NoJobs
<1>7. OutcomeShape'
  BY DEF OutcomeShape, TypeOK, OpeningThread
<1>8. ThreadsMinted'
  BY DEF ThreadsMinted, TypeOK
<1>9. OneConversation'
  BY DEF OneConversation, TypeOK, Replied, OpeningThread
<1>10. FinalizedSound'
  BY DEF FinalizedSound, TypeOK, Replied
<1> QED
  BY <1>1, <1>2, <1>3, <1>4, <1>5, <1>6, <1>7, <1>8, <1>9, <1>10

\* The invariant speaks of the variables only.
LEMMA StutterIInv ==
  ASSUME IInv, UNCHANGED vars
  PROVE  IInv'
<1> USE BoundsAssumption, PanelAssumption DEF IInv, vars
<1>1. TypeOK'
  BY DEF TypeOK
<1>2. BlankWhenAbsent'
  BY DEF BlankWhenAbsent, TypeOK, Present
<1>3. CompleteHasNoError'
  BY DEF CompleteHasNoError, TypeOK, Failed, HasError
<1>4. RoundsInOrder'
  BY DEF RoundsInOrder, TypeOK, Present
<1>5. OpeningsFirst'
  BY DEF OpeningsFirst, TypeOK, Present, Replied
<1>6. CallShape'
  BY DEF CallShape, TypeOK, Replied, NoJobs
<1>7. OutcomeShape'
  BY DEF OutcomeShape, TypeOK, OpeningThread
<1>8. ThreadsMinted'
  BY DEF ThreadsMinted, TypeOK
<1>9. OneConversation'
  BY DEF OneConversation, TypeOK, Replied, OpeningThread
<1>10. FinalizedSound'
  BY DEF FinalizedSound, TypeOK, Replied
<1> QED
  BY <1>1, <1>2, <1>3, <1>4, <1>5, <1>6, <1>7, <1>8, <1>9, <1>10

-------------------------------------------------------------------------------

\* Every step of the controller, of a worker or of the process preserves IInv.
LEMMA NextIInv == IInv /\ [Next]_vars => IInv'
<1> SUFFICES ASSUME IInv, [Next]_vars PROVE IInv' OBVIOUS
<1>1. CASE Start BY <1>1, StartIInv
<1>2. ASSUME NEW r \in Rounds, Reply(r) \/ Retry(r) \/ Finalize(r) PROVE IInv'
  BY <1>2, ReplyIInv, RetryIInv, FinalizeIInv
<1>3. ASSUME NEW p \in Panelists,
             WorkerBegins(p) \/ WorkerFinishes(p) \/ Collect(p) \/ CollectAborts(p)
      PROVE  IInv'
  BY <1>3, WorkerBeginsIInv, OpeningReplyIInv, FollowUpReplyIInv, WorkerExhaustedIInv,
     WorkerRaisesIInv, CollectIInv, CollectAbortsIInv DEF WorkerFinishes
<1>4. CASE AbortReturns \/ Settle \/ SettleAborts \/ Crash \/ Restart
  BY <1>4, AbortReturnsIInv, SettleIInv, SettleAbortsIInv, CrashIInv, RestartIInv
<1>5. CASE UNCHANGED vars BY <1>5, StutterIInv
<1> QED BY <1>1, <1>2, <1>3, <1>4, <1>5 DEF Next

\* The inductive invariant: it holds in every state of every run, whatever fails.
THEOREM Inductive == Spec => []IInv
<1> QED BY InitIInv, NextIInv, PTL DEF Spec

-------------------------------------------------------------------------------
(* What holds whatever faults occur. *)

\* The state of the controller always has its type.
THEOREM TypeCorrect == Spec => []TypeOK
<1>1. IInv => TypeOK BY DEF IInv
<1> QED BY <1>1, Inductive, PTL

\* A round is opened only over a complete one, and stays that way.
THEOREM Ordered == Spec => []RoundsInOrder
<1>1. IInv => RoundsInOrder BY DEF IInv
<1> QED BY <1>1, Inductive, PTL

\* Every answer of a panelist comes from one thread that is its own.
THEOREM Independent == Spec => []OneConversation
<1>1. IInv => OneConversation BY DEF IInv
<1> QED BY <1>1, Inductive, PTL

\* A finalized round is finalized for the whole panel.
THEOREM Finalized == Spec => []FinalizedSound
<1>1. IInv => FinalizedSound BY DEF IInv
<1> QED BY <1>1, Inductive, PTL

\* The entries a step changes: Start and Reply blank a round that was absent,
\* Collect stores the result of a job, and jobs run for unanswered entries only.
LEMMA StepKeepsAnswers ==
  ASSUME IInv, [Next]_vars,
         NEW r \in Rounds, NEW p \in Panelists, Replied(r, p)
  PROVE  rounds'[r].results[p] = rounds[r].results[p]
<1> USE DEF IInv
<1>1. Present(r)
  BY DEF BlankWhenAbsent, AbsentRound, BlankRound, Missing, Replied
<1>2. CASE Start
  BY <1>1, <1>2 DEF Start, OpeningsFirst, BlankWhenAbsent, RoundsInOrder, TypeOK, Present
<1>3. ASSUME NEW s \in Rounds, Reply(s) PROVE rounds'[r].results[p] = rounds[r].results[p]
  BY <1>1, <1>3 DEF Reply, IsLatest, TypeOK
<1>4. ASSUME NEW s \in Rounds, Retry(s) \/ Finalize(s)
      PROVE  rounds'[r].results[p] = rounds[r].results[p]
  <2>1. CASE Retry(s) BY <2>1 DEF Retry, TypeOK
  <2>2. CASE Finalize(s) BY <2>2 DEF Finalize, TypeOK
  <2> QED BY <1>4, <2>1, <2>2
<1>5. ASSUME NEW q \in Panelists, Collect(q)
      PROVE  rounds'[r].results[p] = rounds[r].results[p]
  BY <1>5 DEF Collect, CallShape, TypeOK
<1>6. CASE Settle
  BY <1>6 DEF Settle, CallShape, TypeOK
<1>7. CASE UNCHANGED rounds
  BY <1>7
<1> QED
  BY <1>2, <1>3, <1>4, <1>5, <1>6, <1>7
  DEF Next, vars, WorkerBegins, WorkerFinishes, OpeningReply, FollowUpReply, WorkerReturns,
      WorkerExhausted, WorkerRaises, CollectAborts, AbortReturns, SettleAborts, Crash, Restart

\* No answer that reached the state file is ever changed or lost.
THEOREM AnswersAreKept == Spec => AnswersKept
<1>1. IInv /\ [Next]_vars =>
        [\A r \in Rounds, p \in Panelists :
           Replied(r, p) => rounds'[r].results[p] = rounds[r].results[p]]_vars
  BY StepKeepsAnswers
<1> QED BY <1>1, Inductive, PTL DEF Spec, AnswersKept

\* While the store keeps its snapshots the flag of debate_finalize is never taken back, by
\* another finalization, a retry, a later round or a crash.
THEOREM FinalizedIsKept ==
  ASSUME "loss" \notin Faults PROVE Spec => FinalizedStays
<1>1. ASSUME IInv, [Next]_vars, NEW r \in Rounds, rounds[r].finalized
      PROVE  rounds'[r].finalized
  <2> USE DEF IInv
  <2>1. Present(r) BY <1>1 DEF BlankWhenAbsent, AbsentRound, BlankRound
  <2>2. \A p \in Panelists : Replied(r, p) /\ rounds[r].results[p].gate = "renderable"
    BY <1>1 DEF FinalizedSound
  <2>3. CASE Start
    BY <1>1, <2>1, <2>3 DEF Start, TypeOK
  <2>4. ASSUME NEW s \in Rounds, Reply(s) PROVE rounds'[r].finalized
    BY <1>1, <2>1, <2>4 DEF Reply, IsLatest, TypeOK
  <2>5. ASSUME NEW s \in Rounds, Retry(s) PROVE rounds'[r].finalized
    BY <1>1, <2>5 DEF Retry, TypeOK
  <2>6. ASSUME NEW s \in Rounds, Finalize(s) PROVE rounds'[r].finalized
    BY <1>1, <2>2, <2>6 DEF Finalize, TypeOK
  <2>7. ASSUME NEW q \in Panelists, Collect(q) PROVE rounds'[r].finalized
    BY <1>1, <2>7 DEF Collect, CallShape, TypeOK
  <2>8. CASE Settle
    BY <1>1, <2>8 DEF Settle, CallShape, TypeOK
  <2>9. CASE UNCHANGED rounds
    BY <1>1, <2>9
  <2> QED
    BY <1>1, <2>3, <2>4, <2>5, <2>6, <2>7, <2>8, <2>9
    DEF Next, vars, WorkerBegins, WorkerFinishes, OpeningReply, FollowUpReply, WorkerReturns,
        WorkerExhausted, WorkerRaises, CollectAborts, AbortReturns, SettleAborts, Crash, Restart
<1>2. IInv /\ [Next]_vars => [\A r \in Rounds : rounds[r].finalized => rounds'[r].finalized]_vars
  BY <1>1
<1> QED BY <1>2, Inductive, PTL DEF Spec, FinalizedStays
-------------------------------------------------------------------------------
(* What holds as long as no call raises and the process does not die. *)

\* Before the start there is nothing to lose.
LEMMA InitNothingLost == Init => NothingLost
  BY BoundsAssumption DEF Init, NothingLost, AbsentRound, BlankRound, Present, NoJobs

\* Without faults no step of a call loses an entry of its round.
LEMMA NextNothingLost ==
  ASSUME Faults = {}, IInv, NothingLost, [Next]_vars
  PROVE  NothingLost'
<1> USE BoundsAssumption, PanelAssumption DEF IInv, NothingLost
<1>1. CASE Start
  BY <1>1 DEF Start, Dispatch, RunningRound, BlankRound, Present, TypeOK, Failed, HasError, CallShape
<1>2. ASSUME NEW r \in Rounds, Reply(r) PROVE NothingLost'
  BY <1>2 DEF Reply, Dispatch, RunningRound, BlankRound, Present, TypeOK, Failed, HasError, CallShape
<1>3. ASSUME NEW r \in Rounds, Retry(r) PROVE NothingLost'
  BY <1>3 DEF Retry, Dispatch, Present, TypeOK, Failed, HasError, CallShape
<1>4. ASSUME NEW r \in Rounds, Finalize(r) PROVE NothingLost'
  BY <1>4 DEF Finalize, Present, TypeOK, Failed, HasError
<1>5. ASSUME NEW p \in Panelists, WorkerBegins(p) \/ WorkerFinishes(p) PROVE NothingLost'
  <2>1. UNCHANGED <<rounds, phase, round>>
    BY <1>5 DEF WorkerBegins, WorkerFinishes, OpeningReply, FollowUpReply, WorkerReturns,
       WorkerExhausted, WorkerRaises
  <2>2. \/ job' = [job EXCEPT ![p] = "running"]
        \/ job' = [job EXCEPT ![p] = "done"]
    BY <1>5 DEF WorkerBegins, WorkerFinishes, OpeningReply, FollowUpReply, WorkerReturns,
       WorkerExhausted, WorkerRaises
  <2>3. \A r \in Rounds : Failed(r)' = Failed(r)
    BY <2>1 DEF Failed, HasError
  <2> QED BY <2>1, <2>2, <2>3 DEF TypeOK, Present
<1>6. ASSUME NEW p \in Panelists, Collect(p) PROVE NothingLost'
  BY <1>6 DEF Collect, CallShape, OutcomeShape, TypeOK, Failed, HasError, Present, Missing, Error
<1>7. CASE Settle
  BY <1>7 DEF Settle, Leave, CallShape, TypeOK, Failed, HasError, Present, NoJobs
<1>8. CASE AbortReturns \/ SettleAborts \/ Crash \/ Restart
  BY <1>8 DEF AbortReturns, SettleAborts, Crash, Restart
<1>9. ASSUME NEW p \in Panelists, CollectAborts(p) PROVE FALSE
  BY <1>9 DEF CollectAborts, CallShape
<1>10. CASE UNCHANGED vars
  BY <1>10 DEF vars, Failed, HasError, Present
<1> QED
  BY <1>1, <1>2, <1>3, <1>4, <1>5, <1>6, <1>7, <1>8, <1>9, <1>10 DEF Next
\* The barrier and the advice of the summary, in the absence of faults.
LEMMA WholeRounds ==
  ASSUME IInv, NothingLost
  PROVE  BarrierHolds /\ AdviceHonoured
<1> USE DEF IInv
<1>1. BarrierHolds
  <2> SUFFICES ASSUME NEW r \in Rounds, rounds[r].status = "complete",
                      NEW p \in Panelists
               PROVE  Replied(r, p)
    BY DEF BarrierHolds
  <2>1. rounds[r].results[p] # Error
    BY DEF CompleteHasNoError, Failed, HasError, Error
  <2>2. rounds[r].results[p] # Missing
    BY DEF NothingLost, CallShape, Present, NoJobs
  <2>3. rounds[r].results[p] \in Results BY DEF TypeOK
  <2> QED BY <2>1, <2>2, <2>3 DEF Results, Replied
<1>2. AdviceHonoured
  <2> SUFFICES ASSUME NEW r \in Rounds, phase = "idle", Present(r), Failed(r) = {}
               PROVE  rounds[r].status = "complete"
    BY DEF AdviceHonoured, IsLatest
  <2>1. rounds[r].status \in Statuses BY DEF TypeOK
  <2> QED BY <2>1 DEF NothingLost, Present
<1> QED BY <1>1, <1>2

\* Without faults a complete round holds an answer of every panelist.
THEOREM BarrierWithoutFaults ==
  ASSUME Faults = {} PROVE Spec => []BarrierHolds
<1>1. Init => NothingLost BY InitNothingLost
<1>2. IInv /\ NothingLost /\ [Next]_vars => NothingLost' BY NextNothingLost
<1>3. IInv /\ NothingLost => BarrierHolds BY WholeRounds
<1> QED BY <1>1, <1>2, <1>3, Inductive, PTL DEF Spec

\* Without faults a summary that lists no failure comes with a complete round.
THEOREM AdviceWithoutFaults ==
  ASSUME Faults = {} PROVE Spec => []AdviceHonoured
<1>1. Init => NothingLost BY InitNothingLost
<1>2. IInv /\ NothingLost /\ [Next]_vars => NothingLost' BY NextNothingLost
<1>3. IInv /\ NothingLost => AdviceHonoured BY WholeRounds
<1> QED BY <1>1, <1>2, <1>3, Inductive, PTL DEF Spec
-------------------------------------------------------------------------------
(* The run implements the abstract barrier. *)

answeredBar == [r \in Rounds |-> {p \in Panelists : Replied(r, p)}]
closedBar == [r \in Rounds |-> rounds[r].status = "complete"]

\* A run that has not been started is a barrier nobody has answered.
LEMMA InitRefines == Init => Barrier!Init
<1> SUFFICES ASSUME Init PROVE Barrier!Init OBVIOUS
<1>1. \A r \in Rounds, p \in Panelists : ~Replied(r, p) /\ rounds[r].status = "absent"
  BY DEF Init, AbsentRound, BlankRound, Missing, Replied
<1>2. \A r \in Rounds : {p \in Panelists : Replied(r, p)} = {}
  BY <1>1
<1>3. \A r \in Rounds : rounds[r].status # "complete"
  BY DEF Init, AbsentRound, BlankRound
<1> QED BY <1>2, <1>3 DEF Barrier!Init, Barrier!Rounds

\* Opening a round, retrying it and finalizing it are invisible to the barrier.
LEMMA CallsStutter ==
  ASSUME IInv, Start \/ \E r \in Rounds : Reply(r) \/ Retry(r) \/ Finalize(r)
  PROVE  UNCHANGED <<answeredBar, closedBar>>
<1> USE BoundsAssumption DEF IInv
<1> SUFFICES ASSUME NEW r \in Rounds
             PROVE  /\ rounds'[r].status = "complete" <=> rounds[r].status = "complete"
                    /\ \A p \in Panelists : Replied(r, p)' <=> Replied(r, p)
  BY DEF answeredBar, closedBar
<1>1. CASE Start
  BY <1>1 DEF Start, RunningRound, BlankRound, AbsentRound, Missing, BlankWhenAbsent,
     TypeOK, Replied, Present
<1>2. ASSUME NEW s \in Rounds, Reply(s)
      PROVE  /\ rounds'[r].status = "complete" <=> rounds[r].status = "complete"
             /\ \A p \in Panelists : Replied(r, p)' <=> Replied(r, p)
  BY <1>2 DEF Reply, IsLatest, RunningRound, BlankRound, AbsentRound, Missing,
     BlankWhenAbsent, TypeOK, Replied, Present
<1>3. ASSUME NEW s \in Rounds, Retry(s)
      PROVE  /\ rounds'[r].status = "complete" <=> rounds[r].status = "complete"
             /\ \A p \in Panelists : Replied(r, p)' <=> Replied(r, p)
  BY <1>3 DEF Retry, CompleteHasNoError, TypeOK, Replied
<1>4. ASSUME NEW s \in Rounds, Finalize(s)
      PROVE  /\ rounds'[r].status = "complete" <=> rounds[r].status = "complete"
             /\ \A p \in Panelists : Replied(r, p)' <=> Replied(r, p)
  BY <1>4 DEF Finalize, TypeOK, Replied
<1> QED BY <1>1, <1>2, <1>3, <1>4

\* Collecting a reply is the panelist's answer; collecting an error is nothing.
LEMMA CollectAnswers ==
  ASSUME IInv, NEW p \in Panelists, Collect(p)
  PROVE  Barrier!Answer(round, p) \/ UNCHANGED <<answeredBar, closedBar>>
<1> USE BoundsAssumption DEF IInv
<1>1. /\ round \in Rounds
      /\ rounds[round].status = "running"
      /\ ~Replied(round, p)
      /\ rounds' = [rounds EXCEPT ![round].results[p] = outcome[p]]
  BY DEF Collect, CallShape
<1>2. closedBar' = closedBar
  BY <1>1 DEF closedBar, TypeOK
<1>3. CASE outcome[p].kind = "reply"
  <2>1. answeredBar' = [answeredBar EXCEPT ![round] = @ \cup {p}]
    BY <1>1, <1>3 DEF answeredBar, TypeOK, Replied
  <2>2. ASSUME round # 1 PROVE closedBar[round - 1]
    <3>1. round - 1 \in Rounds /\ (round - 1) + 1 = round BY <1>1, <2>2
    <3>2. Present((round - 1) + 1) BY <1>1, <3>1 DEF Present
    <3> QED BY <1>1, <3>1, <3>2 DEF RoundsInOrder, closedBar
  <2>3. ~closedBar[round] /\ p \notin answeredBar[round]
    BY <1>1 DEF closedBar, answeredBar
  <2> HIDE DEF IInv
  <2> QED BY <1>2, <2>1, <2>2, <2>3 DEF Barrier!Answer, answeredBar, closedBar
<1>4. CASE outcome[p].kind # "reply"
  <2>1. answeredBar' = answeredBar
    BY <1>1, <1>4 DEF answeredBar, TypeOK, Replied
  <2> QED BY <1>2, <2>1
<1> QED BY <1>3, <1>4

\* Deciding a round as complete closes it, over the whole panel; deciding it as
\* failed is nothing.
LEMMA SettleCloses ==
  ASSUME IInv, BarrierHolds', Settle
  PROVE  Barrier!Close(round) \/ UNCHANGED <<answeredBar, closedBar>>
<1> USE BoundsAssumption DEF IInv
<1>1. /\ round \in Rounds
      /\ rounds[round].status = "running"
      /\ rounds' = [rounds EXCEPT ![round].status =
                       IF Failed(round) # {} THEN "failed" ELSE "complete"]
  BY DEF Settle, CallShape
<1>2. \A r \in Rounds, p \in Panelists : Replied(r, p)' <=> Replied(r, p)
  BY <1>1 DEF TypeOK, Replied
<1>3. answeredBar' = answeredBar
  BY <1>2 DEF answeredBar
<1>4. CASE Failed(round) # {}
  BY <1>1, <1>3, <1>4 DEF closedBar, TypeOK
<1>5. CASE Failed(round) = {}
  <2>1. rounds'[round].status = "complete" BY <1>1, <1>5 DEF TypeOK
  <2>2. answeredBar[round] = Panelists
    BY <1>1, <1>2, <2>1 DEF BarrierHolds, answeredBar
  <2>3. closedBar' = [closedBar EXCEPT ![round] = TRUE]
    BY <1>1, <1>5 DEF closedBar, TypeOK
  <2> QED BY <1>1, <1>3, <2>2, <2>3 DEF Barrier!Close, closedBar, answeredBar
<1> QED BY <1>4, <1>5

\* Every step of the run is a step of the barrier or invisible to it.
LEMMA StepRefines ==
  ASSUME Faults = {}, IInv, NothingLost, BarrierHolds', [Next]_vars
  PROVE  [Barrier!Next]_(Barrier!vars)
<1>1. UNCHANGED <<answeredBar, closedBar>> => UNCHANGED Barrier!vars
  BY DEF Barrier!vars, answeredBar, closedBar
<1>2. CASE Start \/ \E r \in Rounds : Reply(r) \/ Retry(r) \/ Finalize(r)
  BY <1>1, <1>2, CallsStutter
<1>3. ASSUME NEW p \in Panelists, Collect(p) PROVE [Barrier!Next]_(Barrier!vars)
  <2>1. round \in Barrier!Rounds BY <1>3 DEF IInv, CallShape, Collect, Barrier!Rounds
  <2>2. Barrier!Answer(round, p) \/ UNCHANGED <<answeredBar, closedBar>>
    BY <1>3, CollectAnswers
  <2> QED BY <1>1, <2>1, <2>2 DEF Barrier!Next
<1>4. CASE Settle
  <2>1. round \in Barrier!Rounds BY <1>4 DEF IInv, CallShape, Settle, Barrier!Rounds
  <2>2. Barrier!Close(round) \/ UNCHANGED <<answeredBar, closedBar>>
    BY <1>4, SettleCloses
  <2>3. CASE Barrier!Close(round)
    <3>1. \E r \in Barrier!Rounds : Barrier!Close(r) BY <2>1, <2>3 DEF Barrier!Close
    <3> QED BY <3>1 DEF Barrier!Next
  <2> QED BY <1>1, <2>2, <2>3
<1>5. CASE UNCHANGED rounds
  BY <1>1, <1>5 DEF answeredBar, closedBar, Replied
<1> QED
  BY <1>2, <1>3, <1>4, <1>5
  DEF Next, vars, WorkerBegins, WorkerFinishes, OpeningReply, FollowUpReply, WorkerReturns,
      WorkerExhausted, WorkerRaises, CollectAborts, AbortReturns, SettleAborts, Crash, Restart

\* Without faults the controller, its pool and its state file implement the
\* abstract barrier.
THEOREM Refinement ==
  ASSUME Faults = {} PROVE Spec => ImplementsBarrier
<1>1. IInv /\ NothingLost /\ BarrierHolds' /\ [Next]_vars => [Barrier!Next]_(Barrier!vars)
  BY StepRefines
<1>2. Init => NothingLost BY InitNothingLost
<1>3. IInv /\ NothingLost /\ [Next]_vars => NothingLost' BY NextNothingLost
<1> QED
  BY <1>1, <1>2, <1>3, InitRefines, Inductive, BarrierWithoutFaults, PTL
  DEF Spec, ImplementsBarrier, Barrier!Spec
===============================================================================
