------------------------ MODULE ClientLifecycleProofs ------------------------
(* Proofs about ClientLifecycle, for every set of pool threads and any number  *)
(* of retries: types, and that no call uses a client before its handshake.     *)
EXTENDS ClientLifecycle, FiniteSetTheorems, TLAPS

\* Whoever is in a handshake has started a subprocess.
HandshakeHasProcess ==
  \A w \in Workers : worker[w] \in {"spawned", "initialized"} => Started # {}

LInv == TypeOK /\ HandshakeFirst /\ HandshakeHasProcess

\* There is room for one subprocess at least, and the last one that was started
\* has a number.
LEMMA OneFits == 1 \in Processes /\ Cardinality(Workers) * (Retries + 1) \in Nat
<1>1. Cardinality(Workers) \in Nat \ {0}
  BY LifecycleAssumption, FS_CardinalityType, FS_EmptySet
<1>2. \A m, n \in Nat \ {0} : m * n \in Nat \ {0}
  BY Z3
<1> QED BY <1>1, <1>2, LifecycleAssumption DEF Processes

LEMMA NewestIsProcess ==
  ASSUME Started # {}
  PROVE  Newest \in Processes
<1>1. IsFiniteSet(Processes) /\ Cardinality(Processes) = Cardinality(Workers) * (Retries + 1)
  BY OneFits, FS_Interval DEF Processes
<1>2. Started \subseteq Processes
  BY DEF Started
<1>3. IsFiniteSet(Started) /\ Cardinality(Started) <= Cardinality(Processes)
  BY <1>1, <1>2, FS_Subset
<1>4. Cardinality(Started) \in Nat \ {0}
  BY <1>3, FS_CardinalityType, FS_EmptySet
<1> QED BY <1>1, <1>3, <1>4, OneFits DEF Newest, Processes

\* After a start of a subprocess there is one.
LEMMA SpawnStarts ==
  ASSUME TypeOK, NEW w \in Workers, Spawn(w)
  PROVE  Started' # {}
<1>1. CASE Started = {}
  <2>1. Cardinality(Started) + 1 = 1
    BY <1>1, FS_EmptySet
  <2>2. process'[1] = "alive"
    BY <2>1, OneFits DEF Spawn, TypeOK
  <2> QED BY <2>2, OneFits DEF Started
<1>2. CASE Started # {}
  <2>1. PICK i \in Processes : process[i] # "unborn"
    BY <1>2 DEF Started
  <2>2. process'[i] # "unborn"
    BY <2>1 DEF Spawn, TypeOK
  <2> QED BY <2>2 DEF Started
<1> QED BY <1>1, <1>2

LEMMA InitLInv == Init => LInv
<1>1. 1 \in Attempts
  BY LifecycleAssumption DEF Attempts
<1>2. Init => TypeOK
  BY <1>1 DEF Init, TypeOK, WorkerStates
<1>3. Init => HandshakeFirst /\ HandshakeHasProcess
  BY DEF Init, HandshakeFirst, HandshakeHasProcess
<1> QED BY <1>2, <1>3 DEF LInv

\* An attempt that fails changes its own worker only.
LEMMA FailKeepsTypes ==
  ASSUME TypeOK, NEW w \in Workers, Fail(w)
  PROVE  /\ worker' \in [Workers -> WorkerStates] /\ attempt' \in [Workers -> Attempts]
         /\ worker'[w] \in {"wanting", "gaveUp"}
         /\ \A v \in Workers \ {w} : worker'[v] = worker[v]
  BY LifecycleAssumption DEF Fail, TypeOK, WorkerStates, Attempts

\* The lock is taken and given by its holder, and the client is installed with its
\* handshake behind it.
LEMMA AttemptLInv ==
  ASSUME LInv, NEW w \in Workers, Attempt(w)
  PROVE  LInv'
<1> USE NobodyAssumption DEF LInv, TypeOK, HandshakeFirst, HandshakeHasProcess
<1>1. CASE Lock(w)
  BY <1>1 DEF Lock, Started, WorkerStates
<1>2. CASE Share(w)
  BY <1>2 DEF Share, Started, WorkerStates
<1>3. CASE Spawn(w)
  <2>1. Started' # {}
    BY <1>3, SpawnStarts
  <2>2. TypeOK'
    BY <1>3 DEF Spawn, WorkerStates
  <2>3. HandshakeFirst'
    BY <1>3 DEF Spawn
  <2> QED BY <2>1, <2>2, <2>3
<1>4. CASE SpawnFails(w)
  <2>1. TypeOK'
    BY <1>4, FailKeepsTypes DEF SpawnFails
  <2>2. HandshakeFirst' /\ HandshakeHasProcess'
    BY <1>4, FailKeepsTypes DEF SpawnFails, Started
  <2> QED BY <2>1, <2>2
<1>5. CASE Initialize(w)
  BY <1>5 DEF Initialize, Started, WorkerStates
<1>6. CASE Install(w)
  <2>1. Newest \in Processes
    BY <1>6, NewestIsProcess DEF Install
  <2>2. TypeOK'
    BY <1>6, <2>1 DEF Install, WorkerStates
  <2>3. HandshakeFirst'
    BY <1>6, <2>1 DEF Install, Processes
  <2>4. HandshakeHasProcess'
    BY <1>6 DEF Install, Started
  <2> QED BY <2>2, <2>3, <2>4
<1>7. CASE HandshakeFails(w)
  <2>1. TypeOK'
    BY <1>7, FailKeepsTypes DEF HandshakeFails
  <2>2. HandshakeFirst' /\ HandshakeHasProcess'
    BY <1>7, FailKeepsTypes DEF HandshakeFails, Started
  <2> QED BY <2>1, <2>2
<1>8. CASE CallSucceeds(w)
  BY <1>8 DEF CallSucceeds, Started, WorkerStates
<1>9. CASE CallFails(w)
  <2>1. TypeOK'
    BY <1>9, FailKeepsTypes DEF CallFails
  <2>2. HandshakeFirst' /\ HandshakeHasProcess'
    BY <1>9, FailKeepsTypes DEF CallFails, Started
  <2> QED BY <2>1, <2>2
<1> QED BY <1>1, <1>2, <1>3, <1>4, <1>5, <1>6, <1>7, <1>8, <1>9 DEF Attempt

\* A subprocess that ends was started all the same, and close() comes after the calls.
LEMMA StepLInv == LInv /\ [Next]_vars => LInv'
<1> SUFFICES ASSUME LInv, [Next]_vars PROVE LInv'
  OBVIOUS
<1>1. CASE \E w \in Workers : Attempt(w)
  BY <1>1, AttemptLInv
<1>2. CASE \E i \in Processes : Exit(i)
  BY <1>2 DEF LInv, TypeOK, HandshakeFirst, HandshakeHasProcess, Exit, Started
<1>3. CASE Close
  BY <1>3 DEF LInv, TypeOK, HandshakeFirst, HandshakeHasProcess, Close
<1>4. CASE UNCHANGED vars
  BY <1>4 DEF LInv, TypeOK, HandshakeFirst, HandshakeHasProcess, Started, vars
<1> QED BY <1>1, <1>2, <1>3, <1>4 DEF Next

LEMMA LInductive == Spec => []LInv
<1>1. Init => LInv
  BY InitLInv
<1>2. LInv /\ [Next]_vars => LInv'
  BY StepLInv
<1> QED BY <1>1, <1>2, PTL DEF Spec

\* Type correctness of the way to the client, for every number of threads.
THEOREM LifecycleTypes == Spec => []TypeOK
<1>1. LInv => TypeOK
  BY DEF LInv
<1> QED BY <1>1, LInductive, PTL

\* Whatever handshakes fail, whatever subprocesses end: the shared client has its
\* handshake behind it, and the holder of the lock is alone with its own.
THEOREM HandshakeComesFirst == Spec => []HandshakeFirst
<1>1. LInv => HandshakeFirst
  BY DEF LInv
<1> QED BY <1>1, LInductive, PTL
===============================================================================
