--------------------------- MODULE ClientLifecycle ---------------------------
(***************************************************************************)
(* How the controller comes by its CodexMcpClient: _client_instance under  *)
(* its lock, the constructor that spawns the Codex subprocess and shakes   *)
(* hands with it, the retries of the pool threads that need it, and        *)
(* close() when the MCP session ends.                                      *)
(***************************************************************************)
EXTENDS Integers, FiniteSets

CONSTANTS
  Workers,  \* pool threads with one panelist job each
  Retries   \* the `retries' argument

ASSUME LifecycleAssumption ==
  Workers # {} /\ IsFiniteSet(Workers) /\ Retries \in Nat

VARIABLES
  worker,   \* the transport attempt of each pool thread
  attempt,  \* its number, from 1
  lock,     \* the holder of _client_lock
  client,   \* _client: the subprocess it talks to, 0 while it is None
  process,  \* the Codex subprocesses this controller has started
  ready,    \* the subprocesses whose handshake has ended well
  closed    \* the session is over: controller.close() has run

vars == <<worker, attempt, lock, client, process, ready, closed>>

Nobody == "nobody"
ASSUME NobodyAssumption == Nobody \notin Workers
WorkerStates == {"wanting", "locked", "spawned", "initialized", "using", "ok", "gaveUp"}
Attempts == 1 .. Retries + 1
Processes == 1 .. Cardinality(Workers) * (Retries + 1)

Init ==
  /\ worker = [w \in Workers |-> "wanting"]
  /\ attempt = [w \in Workers |-> 1]
  /\ lock = Nobody
  /\ client = 0
  /\ process = [i \in Processes |-> "unborn"]
  /\ ready = {}
  /\ closed = FALSE

-------------------------------------------------------------------------------

\* with self._client_lock
Lock(w) ==
  /\ worker[w] = "wanting"
  /\ lock = Nobody
  /\ lock' = w
  /\ worker' = [worker EXCEPT ![w] = "locked"]
  /\ UNCHANGED <<attempt, client, process, ready, closed>>

\* Mutant of Fail: one attempt too many.
FailLate(w) ==
  IF attempt[w] <= Retries + 1
  THEN /\ worker' = [worker EXCEPT ![w] = "wanting"]
       /\ attempt' = [attempt EXCEPT ![w] = @ + 1]
  ELSE /\ worker' = [worker EXCEPT ![w] = "gaveUp"]
       /\ UNCHANGED attempt

\* An exception of the attempt: retried, or the error of the job.
Fail(w) ==
  IF attempt[w] <= Retries
  THEN /\ worker' = [worker EXCEPT ![w] = "wanting"]
       /\ attempt' = [attempt EXCEPT ![w] = @ + 1]
  ELSE /\ worker' = [worker EXCEPT ![w] = "gaveUp"]
       /\ UNCHANGED attempt

\* The client is there already, whether its process still runs or not.
Share(w) ==
  /\ worker[w] = "locked"
  /\ client # 0
  /\ lock' = Nobody
  /\ worker' = [worker EXCEPT ![w] = "using"]
  /\ UNCHANGED <<attempt, client, process, ready, closed>>

\* Popen starts a subprocess; they are numbered in the order of their start.
Started == {i \in Processes : process[i] # "unborn"}

\* Mutant of Spawn: _client is set before the handshake.
SpawnInstalls(w) ==
  /\ worker[w] = "locked"
  /\ client = 0
  /\ process' = [process EXCEPT ![Cardinality(Started) + 1] = "alive"]
  /\ client' = Cardinality(Started) + 1
  /\ worker' = [worker EXCEPT ![w] = "spawned"]
  /\ UNCHANGED <<attempt, lock, ready, closed>>

Spawn(w) ==
  /\ worker[w] = "locked"
  /\ client = 0
  /\ process' = [process EXCEPT ![Cardinality(Started) + 1] = "alive"]
  /\ worker' = [worker EXCEPT ![w] = "spawned"]
  /\ UNCHANGED <<attempt, lock, client, ready, closed>>

\* Popen itself raises: no such command.
SpawnFails(w) ==
  /\ worker[w] = "locked"
  /\ client = 0
  /\ lock' = Nobody
  /\ Fail(w)
  /\ UNCHANGED <<client, process, ready, closed>>

\* The subprocess the holder of the lock has started last.
Newest == Cardinality(Started)

\* The answer to `initialize', then the notification.
Initialize(w) ==
  /\ worker[w] = "spawned"
  /\ process[Newest] = "alive"
  /\ worker' = [worker EXCEPT ![w] = "initialized"]
  /\ UNCHANGED <<attempt, lock, client, process, ready, closed>>

\* tools/list names both tools: the constructor returns, _client is set.
Install(w) ==
  /\ worker[w] = "initialized"
  /\ process[Newest] = "alive"
  /\ client' = Newest
  /\ ready' = ready \cup {Newest}
  /\ lock' = Nobody
  /\ worker' = [worker EXCEPT ![w] = "using"]
  /\ UNCHANGED <<attempt, process, closed>>

\* Mutant of HandshakeFails: the lock is not released.
HandshakeKeepsLock(w) ==
  /\ worker[w] \in {"spawned", "initialized"}
  /\ Fail(w)
  /\ UNCHANGED <<lock, client, process, ready, closed>>

\* A timeout, an error, a missing tool, the end of the process: the constructor
\* raises, nothing stops the subprocess and _client stays None.
HandshakeFails(w) ==
  /\ worker[w] \in {"spawned", "initialized"}
  /\ lock' = Nobody
  /\ Fail(w)
  /\ UNCHANGED <<client, process, ready, closed>>

\* call_tool on the shared client.
CallSucceeds(w) ==
  /\ worker[w] = "using"
  /\ process[client] = "alive"
  /\ worker' = [worker EXCEPT ![w] = "ok"]
  /\ UNCHANGED <<attempt, lock, client, process, ready, closed>>

CallFails(w) ==
  /\ worker[w] = "using"
  /\ Fail(w)
  /\ UNCHANGED <<lock, client, process, ready, closed>>

\* A subprocess ends on its own.
Exit(i) ==
  /\ process[i] = "alive"
  /\ process' = [process EXCEPT ![i] = "exited"]
  /\ UNCHANGED <<worker, attempt, lock, client, ready, closed>>

\* The serve loop has ended, so no call runs: close() stops the client it has.
Close ==
  /\ ~closed
  /\ \A w \in Workers : worker[w] \in {"ok", "gaveUp"}
  /\ closed' = TRUE
  /\ client' = 0
  /\ process' = [i \in Processes |-> IF i = client THEN "exited" ELSE process[i]]
  /\ UNCHANGED <<worker, attempt, lock, ready>>

Attempt(w) ==
  \/ Lock(w) \/ Share(w) \/ Spawn(w) \/ SpawnFails(w)
  \/ Initialize(w) \/ Install(w) \/ HandshakeFails(w)
  \/ CallSucceeds(w) \/ CallFails(w)

Next ==
  \/ \E w \in Workers : Attempt(w)
  \/ \E i \in Processes : Exit(i)
  \/ Close

Spec == Init /\ [][Next]_vars

\* A pool thread that holds the lock goes on, for the handshake has a timeout,
\* and one that waits for the lock gets it if it is released again and again.
FairSpec == Spec /\ \A w \in Workers : WF_vars(Attempt(w)) /\ SF_vars(Lock(w))

-------------------------------------------------------------------------------

TypeOK ==
  /\ worker \in [Workers -> WorkerStates]
  /\ attempt \in [Workers -> Attempts]
  /\ lock \in Workers \cup {Nobody}
  /\ client \in Processes \cup {0}
  /\ process \in [Processes -> {"unborn", "alive", "exited"}]
  /\ ready \subseteq Processes
  /\ closed \in BOOLEAN

\* No request goes to a subprocess before its handshake has ended well, and at
\* most one handshake is under way, by the holder of the lock.
HandshakeFirst ==
  /\ client # 0 => client \in ready
  /\ \A w \in Workers :
       /\ worker[w] = "using" => client # 0
       /\ worker[w] \in {"locked", "spawned", "initialized"} => lock = w

\* Every pool thread comes out of the queue for the client.
WorkersReturn == \A w \in Workers : <>(worker[w] \in {"ok", "gaveUp"})
===============================================================================
