----------------------------- MODULE CodexClient -----------------------------
(***************************************************************************)
(* CodexMcpClient of orchestrator/debate_controller.py: the pool threads   *)
(* that issue JSON-RPC requests and retry them, the table of waiters, the  *)
(* daemon thread that reads the server's stdout, and the end of the server.*)
(*                                                                         *)
(* Writing to the server's stdin goes through a lock and may block, for as *)
(* long as the pipe is full and the server does not read.                  *)
(*                                                                         *)
(* The server itself is external: it reads a request, creates the thread   *)
(* the request asks for, answers in any order, asks for approvals, and may *)
(* exit.  The handshake that precedes all this is ClientLifecycle.         *)
(***************************************************************************)
EXTENDS Integers, Sequences, FiniteSets

CONSTANTS
  Workers,     \* the pool threads, each with one call to make
  Retries,     \* the `retries' argument
  MaxAsks      \* bound: approval requests the server sends

ASSUME ClientAssumption ==
  /\ Workers # {} /\ IsFiniteSet(Workers)
  /\ Retries \in Nat /\ MaxAsks \in Nat

VARIABLES
  call,     \* the request() of each worker
  nextId,   \* _next_id
  pending,  \* keys of _pending
  box,      \* the waiter of each request id: a queue of one message
  reader,   \* the stdout thread: what it does, and the message in its hand
  todo,     \* ids whose waiters _fail_pending has still to wake
  server,   \* whether the Codex process runs
  inbox,    \* requests written to the server and not yet taken up
  busy,     \* requests that have created their thread and are not answered
  stdout,   \* lines the server has written and the reader has not read
  asks      \* approval requests sent so far

vars == <<call, nextId, pending, box, reader, todo, server, inbox, busy, stdout, asks>>

-------------------------------------------------------------------------------

Ids == 1 .. Cardinality(Workers) * (Retries + 1)

Message(kind, id) == [kind |-> kind, id |-> id]
\* "response" is the server's, which holds a result or an error; "error" is
\* what _fail_pending puts into a waiter.
Messages == [kind : {"response", "error", "ask"}, id : Ids \cup {0}]
Empty == Message("empty", 0)

\* In "sending" and "cancelling" a worker is inside write(), and holds _write_lock.
InFlight == {"registered", "sending", "waiting", "expired", "cancelling", "answered", "failed"}
CallStates == InFlight \cup {"ready", "ok", "gaveUp"}
Calls == [state : CallStates, attempt : 1 .. Retries + 1, id : Ids \cup {0},
          answer : Messages \cup {Empty}]

Init ==
  /\ call = [w \in Workers |-> [state |-> "ready", attempt |-> 1, id |-> 0, answer |-> Empty]]
  /\ nextId = 1
  /\ pending = {}
  /\ box = [i \in Ids |-> Empty]
  /\ reader = [state |-> "reading", hold |-> Empty]
  /\ todo = {}
  /\ server = "up"
  /\ inbox = {}
  /\ busy = {}
  /\ stdout = <<>>
  /\ asks = 0

\* The reader wants to refuse an approval ("refusing"), and writes its refusal ("writing").
ReaderStates == {"reading", "putting", "refusing", "writing", "failing", "ended", "died"}

\* Nobody is inside write().
WriteLockFree ==
  /\ \A w \in Workers : call[w].state \notin {"sending", "cancelling"}
  /\ reader.state # "writing"

clientVars == <<call, nextId, pending>>
readerVars == <<reader, todo>>
serverVars == <<server, inbox, busy, stdout, asks>>

-------------------------------------------------------------------------------
(* request() and _call_with_retries(), one worker. *)

Goto(w, state) == call' = [call EXCEPT ![w].state = state]

\* Mutant of Register: a retry goes out under the id of the first attempt.
RegisterAgain(w) ==
  LET first == call[w].id = 0
      id == IF first THEN nextId ELSE call[w].id
  IN /\ call[w].state = "ready"
     /\ id \in Ids
     /\ call' = [call EXCEPT ![w].state = "registered", ![w].id = id]
     /\ nextId' = IF first THEN nextId + 1 ELSE nextId
     /\ pending' = pending \cup {id}
     /\ box' = [box EXCEPT ![id] = Empty]
     /\ UNCHANGED <<readerVars, serverVars>>

\* A fresh id and a fresh waiter for every attempt.  There is an id for every attempt,
\* so that the bound on the counter never keeps anyone from going on.
Register(w) ==
  /\ call[w].state = "ready"
  /\ nextId \in Ids
  /\ call' = [call EXCEPT ![w].state = "registered", ![w].id = nextId]
  /\ nextId' = nextId + 1
  /\ pending' = pending \cup {nextId}
  /\ UNCHANGED <<box, readerVars, serverVars>>

\* _send takes the lock and starts to write, which ends with Sent.  Once the process has
\* exited it raises: before the write, or out of it (a broken pipe).
Send(w) ==
  /\ \/ /\ call[w].state = "registered"
        /\ server = "up" /\ WriteLockFree
        /\ Goto(w, "sending")
     \/ /\ call[w].state \in {"registered", "sending"}
        /\ server = "exited"
        /\ Goto(w, "failed")
  /\ UNCHANGED <<nextId, pending, box, readerVars, serverVars>>

\* Mutant of Receive: an error is taken for an answer.
ReceiveAnything(w) ==
  /\ call[w].state = "waiting"
  /\ box[call[w].id] # Empty
  /\ call' = [call EXCEPT ![w].state = "answered", ![w].answer = box[call[w].id]]
  /\ box' = [box EXCEPT ![call[w].id] = Empty]
  /\ UNCHANGED <<nextId, pending, readerVars, serverVars>>

\* waiter.get returns: a result is the answer, an error raises.  Which of the
\* two a response holds is looked at here and nowhere before.
Receive(w) ==
  LET message == box[call[w].id] IN
  /\ call[w].state = "waiting"
  /\ message # Empty
  /\ \E state \in {"answered", "failed"} :
       /\ state = "answered" => message.kind = "response"
       /\ call' = [call EXCEPT ![w].state = state, ![w].answer = message]
  /\ box' = [box EXCEPT ![call[w].id] = Empty]
  /\ UNCHANGED <<nextId, pending, readerVars, serverVars>>

\* Mutant of Expire: waiter.get() without a timeout.
ExpireNever(w) ==
  /\ FALSE
  /\ Goto(w, "expired")
  /\ UNCHANGED <<nextId, pending, box, readerVars, serverVars>>

\* queue.Empty.
Expire(w) ==
  /\ call[w].state = "waiting"
  /\ box[call[w].id] = Empty
  /\ Goto(w, "expired")
  /\ UNCHANGED <<nextId, pending, box, readerVars, serverVars>>

\* notifications/cancelled is written in the same way, and ends with Cancelled.  Whether
\* it can be sent or not, the attempt has failed.
Cancel(w) ==
  /\ \/ /\ call[w].state = "expired"
        /\ server = "up" /\ WriteLockFree
        /\ Goto(w, "cancelling")
     \/ /\ call[w].state \in {"expired", "cancelling"}
        /\ server = "exited"
        /\ Goto(w, "failed")
  /\ UNCHANGED <<nextId, pending, box, readerVars, serverVars>>

\* Mutants of Unregister: one attempt too many; the waiter stays in the table.
UnregisterLate(w) ==
  /\ call[w].state \in {"answered", "failed"}
  /\ pending' = pending \ {call[w].id}
  /\ \/ call[w].state = "answered" /\ Goto(w, "ok")
     \/ call[w].state = "failed" /\ call[w].attempt > Retries + 1 /\ Goto(w, "gaveUp")
     \/ /\ call[w].state = "failed"
        /\ call[w].attempt <= Retries + 1
        /\ call' = [call EXCEPT ![w].state = "ready", ![w].attempt = @ + 1, ![w].answer = Empty]
  /\ UNCHANGED <<nextId, box, readerVars, serverVars>>

UnregisterNot(w) ==
  /\ call[w].state \in {"answered", "failed"}
  /\ \/ call[w].state = "answered" /\ Goto(w, "ok")
     \/ call[w].state = "failed" /\ call[w].attempt > Retries /\ Goto(w, "gaveUp")
     \/ /\ call[w].state = "failed"
        /\ call[w].attempt <= Retries
        /\ call' = [call EXCEPT ![w].state = "ready", ![w].attempt = @ + 1, ![w].answer = Empty]
  /\ UNCHANGED <<nextId, pending, box, readerVars, serverVars>>

\* The finally clause, then the end of the retry loop or its next round.
Unregister(w) ==
  /\ call[w].state \in {"answered", "failed"}
  /\ pending' = pending \ {call[w].id}
  /\ \/ call[w].state = "answered" /\ Goto(w, "ok")
     \/ call[w].state = "failed" /\ call[w].attempt > Retries /\ Goto(w, "gaveUp")
     \/ /\ call[w].state = "failed"
        /\ call[w].attempt <= Retries
        /\ call' = [call EXCEPT ![w].state = "ready", ![w].attempt = @ + 1, ![w].answer = Empty]
  /\ UNCHANGED <<nextId, box, readerVars, serverVars>>

Work(w) ==
  Register(w) \/ Send(w) \/ Receive(w) \/ Expire(w) \/ Cancel(w) \/ Unregister(w)

-------------------------------------------------------------------------------
(* _read_stdout() and _fail_pending(). *)

\* A response nobody waits for is dropped; otherwise the reader holds its waiter.
ReadResponse ==
  /\ reader.state = "reading"
  /\ stdout # <<>>
  /\ Head(stdout).kind # "ask"
  /\ stdout' = Tail(stdout)
  /\ reader' = IF Head(stdout).id \in pending
               THEN [state |-> "putting", hold |-> Head(stdout)]
               ELSE reader
  /\ UNCHANGED <<clientVars, box, todo, server, inbox, busy, asks>>

\* waiter.put blocks while the queue is full.
Put ==
  /\ reader.state = "putting"
  /\ box[reader.hold.id] = Empty
  /\ box' = [box EXCEPT ![reader.hold.id] = reader.hold]
  /\ reader' = [state |-> "reading", hold |-> Empty]
  /\ UNCHANGED <<clientVars, todo, serverVars>>

\* The reader refuses an approval itself, and meanwhile reads nothing.
ReadAsk ==
  /\ reader.state = "reading"
  /\ stdout # <<>>
  /\ Head(stdout).kind = "ask"
  /\ stdout' = Tail(stdout)
  /\ reader' = [reader EXCEPT !.state = "refusing"]
  /\ UNCHANGED <<clientVars, box, todo, server, inbox, busy, asks>>

\* Its _send, which ends with Refused; if it raises, the thread dies.
Refuse ==
  /\ \/ /\ reader.state = "refusing"
        /\ server = "up" /\ WriteLockFree
        /\ reader' = [reader EXCEPT !.state = "writing"]
     \/ /\ reader.state \in {"refusing", "writing"}
        /\ server = "exited"
        /\ reader' = [reader EXCEPT !.state = "died"]
  /\ UNCHANGED <<clientVars, box, todo, serverVars>>

\* Mutant of ReadEof: the waiters are not woken.
ReadEofSilently ==
  /\ reader.state = "reading"
  /\ server = "exited" /\ stdout = <<>>
  /\ reader' = [reader EXCEPT !.state = "failing"]
  /\ todo' = {}
  /\ UNCHANGED <<clientVars, box, serverVars>>

\* End of stdout: take the waiters that are registered now.
ReadEof ==
  /\ reader.state = "reading"
  /\ server = "exited" /\ stdout = <<>>
  /\ reader' = [reader EXCEPT !.state = "failing"]
  /\ todo' = pending
  /\ UNCHANGED <<clientVars, box, serverVars>>

\* Wake them one after the other, in the order of their registration.
FailNext ==
  /\ reader.state = "failing"
  /\ \E i \in todo :
       /\ \A j \in todo : i <= j
       /\ box[i] = Empty
       /\ box' = [box EXCEPT ![i] = Message("error", i)]
       /\ todo' = todo \ {i}
  /\ UNCHANGED <<clientVars, reader, serverVars>>

FailDone ==
  /\ reader.state = "failing"
  /\ todo = {}
  /\ reader' = [reader EXCEPT !.state = "ended"]
  /\ UNCHANGED <<clientVars, box, todo, serverVars>>

Read == ReadResponse \/ Put \/ ReadAsk \/ Refuse \/ ReadEof \/ FailNext \/ FailDone

-------------------------------------------------------------------------------
(* The Codex server, external.  A write ends when the server has read so far *)
(* that the rest of the line fits into the pipe.                             *)

Sent(w) ==
  /\ server = "up"
  /\ call[w].state = "sending"
  /\ inbox' = inbox \cup {call[w].id}
  /\ Goto(w, "waiting")
  /\ UNCHANGED <<nextId, pending, box, readerVars, server, busy, stdout, asks>>

\* The server may drop the request, or be too far.
Cancelled(w) ==
  /\ server = "up"
  /\ call[w].state = "cancelling"
  /\ inbox' \in {inbox, inbox \ {call[w].id}}
  /\ Goto(w, "failed")
  /\ UNCHANGED <<nextId, pending, box, readerVars, server, busy, stdout, asks>>

Refused ==
  /\ server = "up"
  /\ reader.state = "writing"
  /\ reader' = [reader EXCEPT !.state = "reading"]
  /\ UNCHANGED <<clientVars, box, todo, serverVars>>

ReadOn == Refused \/ \E w \in Workers : Sent(w) \/ Cancelled(w)

TakeUp(i) ==
  /\ server = "up"
  /\ i \in inbox
  /\ inbox' = inbox \ {i}
  /\ busy' = busy \cup {i}
  /\ UNCHANGED <<clientVars, box, readerVars, server, stdout, asks>>

Respond(i) ==
  /\ server = "up"
  /\ i \in busy
  /\ busy' = busy \ {i}
  /\ stdout' = Append(stdout, Message("response", i))
  /\ UNCHANGED <<clientVars, box, readerVars, server, inbox, asks>>

Ask ==
  /\ server = "up"
  /\ asks < MaxAsks
  /\ asks' = asks + 1
  /\ stdout' = Append(stdout, Message("ask", 0))
  /\ UNCHANGED <<clientVars, box, readerVars, server, inbox, busy>>

Exit ==
  /\ server = "up"
  /\ server' = "exited"
  /\ inbox' = {}
  /\ busy' = {}
  /\ UNCHANGED <<clientVars, box, readerVars, stdout, asks>>

Serve == \E i \in Ids : TakeUp(i) \/ Respond(i)

-------------------------------------------------------------------------------

Next ==
  \/ \E w \in Workers : Work(w)
  \/ Read
  \/ ReadOn \/ Serve \/ Ask \/ Exit

Spec == Init /\ [][Next]_vars

\* The operating system runs every worker, and a clock ends every wait for an answer.  No
\* clock ends a write: the server is assumed to read its stdin on for as long as it runs,
\* also while nobody reads its stdout.  Nothing else is assumed of it, and nothing of the
\* reader.
WorkerFairness == \A w \in Workers : WF_vars(Work(w))
ServerReadsOn == WF_vars(ReadOn)

FairSpec == Spec /\ WorkerFairness /\ ServerReadsOn

-------------------------------------------------------------------------------

TypeOK ==
  /\ call \in [Workers -> Calls]
  /\ nextId \in Nat
  /\ pending \subseteq Ids
  /\ box \in [Ids -> Messages \cup {Empty}]
  /\ reader \in [state : ReaderStates, hold : Messages \cup {Empty}]
  /\ todo \subseteq Ids
  /\ server \in {"up", "exited"}
  /\ inbox \subseteq Ids
  /\ busy \subseteq Ids
  /\ stdout \in Seq(Messages)
  /\ asks \in 0 .. MaxAsks

\* A call succeeds with the answer to its own last attempt: never with a late
\* answer to an attempt that was given up, nor with another worker's answer.
OwnAnswer ==
  \A w \in Workers :
    call[w].state \in {"answered", "ok"} =>
      call[w].answer = Message("response", call[w].id)

\* The table of waiters holds the requests in flight and no other: nothing is
\* left behind by a timeout, an error, a late answer or the end of the server.
PendingExact ==
  pending = {call[w].id : w \in {v \in Workers : call[v].state \in InFlight}}

\* Once the reader has seen the end of stdout and returned, nobody waits for an
\* answer that cannot come: every waiter that was registered has been woken, and
\* who registers later fails in _send.
NoneForgotten ==
  reader.state = "ended" =>
    \A w \in Workers : call[w].state = "waiting" => box[call[w].id] # Empty

\* However late an answer is and whoever has given up on it, the queue of one that it is
\* for has room: answers never hold up the reader, so that nobody's answer waits behind
\* one that nobody takes.  Only _fail_pending meets full queues.
AnswerHasRoom == reader.state = "putting" => box[reader.hold.id] = Empty

\* Every call ends, as long as the server exits or goes on reading its stdin: it may answer
\* late or never, the reader may be stuck or dead, and all may want to write at once.
CallsReturn == \A w \in Workers : <>(call[w].state \in {"ok", "gaveUp"})
===============================================================================
