-------------------------- MODULE CodexClientProofs --------------------------
(* Proofs about CodexClient, for every set of pool threads, any number of      *)
(* retries and approval requests: types; the table of waiters is exact; every  *)
(* answer is one's own and finds room; the end of stdout wakes everyone.       *)
EXTENDS CodexClient, FiniteSetTheorems, TLAPS

\* No id is used twice, and a request in flight has one.
IdsFresh ==
  /\ nextId \in Nat \ {0}
  /\ \A w \in Workers : call[w].id < nextId /\ (call[w].state \in InFlight => call[w].id # 0)
  /\ \A v, w \in Workers : v # w /\ call[v].id = call[w].id => call[v].id = 0

\* Whatever is under way to a waiter bears its id, and only the reader makes errors.
Addressed ==
  /\ \A i \in Ids : box[i] # Empty => box[i].id = i
  /\ \A k \in 1 .. Len(stdout) : stdout[k].kind \in {"response", "ask"}
  /\ \A k \in 1 .. Len(stdout) : stdout[k].kind = "response" => stdout[k].id \in Ids
  /\ reader.state = "putting" => reader.hold.kind = "response" /\ reader.hold.id \in Ids

\* While the reader wakes the waiters, who is not woken is on its list.
OnTheList ==
  reader.state \in {"failing", "ended"} =>
    /\ server = "exited"
    /\ reader.state = "ended" => todo = {}
    /\ \A w \in Workers : call[w].state = "waiting" => call[w].id \in todo \/ box[call[w].id] # Empty

CInv == TypeOK /\ IdsFresh /\ PendingExact /\ Addressed /\ OwnAnswer /\ OnTheList

LEMMA IdsAreNumbers == 0 \notin Ids /\ \A i \in Ids \cup {0} : i \in Nat
  BY ClientAssumption, FS_CardinalityType DEF Ids

\* A record of the calls, or a message, is not looked into unless a step needs it.
LEMMA CallFields ==
  ASSUME NEW c \in Calls
  PROVE  /\ c.state \in CallStates /\ c.attempt \in 1 .. Retries + 1
         /\ c.id \in Ids \cup {0} /\ c.answer \in Messages \cup {Empty}
  BY DEF Calls

LEMMA MessageFields ==
  /\ \A kind \in {"response", "error", "ask"}, i \in Ids \cup {0} : Message(kind, i) \in Messages
  /\ \A kind \in {"response", "error", "ask"}, i \in Ids \cup {0} : Message(kind, i) # Empty
  /\ \A m \in Messages : m.kind \in {"response", "error", "ask"} /\ m.id \in Ids \cup {0}
  /\ \A m \in Messages : m # Empty /\ m = Message(m.kind, m.id)
  /\ \A kind, i : Message(kind, i).kind = kind /\ Message(kind, i).id = i
  BY DEF Messages, Message, Empty

LEMMA InitCInv == Init => CInv
<1> SUFFICES ASSUME Init PROVE CInv
  OBVIOUS
<1>1. TypeOK
  BY ClientAssumption DEF Init, TypeOK, Calls, CallStates, ReaderStates
<1>2. \A w \in Workers : call[w].state = "ready" /\ call[w].id = 0
  BY DEF Init
<1>3. IdsFresh
  BY <1>2 DEF Init, IdsFresh, InFlight
<1>4. PendingExact
  BY <1>2 DEF Init, PendingExact, InFlight
<1>5. OwnAnswer /\ OnTheList
  BY <1>2 DEF Init, OwnAnswer, OnTheList
<1>6. Addressed
  BY DEF Init, Addressed
<1> QED BY <1>1, <1>3, <1>4, <1>5, <1>6 DEF CInv

-------------------------------------------------------------------------------
(* The steps of one worker.                                                *)

\* A step of w that keeps its id.
StepOf(w) ==
  /\ call' \in [Workers -> Calls]
  /\ \A v \in Workers \ {w} : call'[v] = call[v]
  /\ call'[w].id = call[w].id

LEMMA GotoStep ==
  ASSUME TypeOK, NEW w \in Workers, NEW state \in CallStates, Goto(w, state)
  PROVE  StepOf(w) /\ call'[w].state = state /\ call'[w].answer = call[w].answer
<1>1. call \in [Workers -> Calls] /\ call[w] \in Calls
  BY DEF TypeOK
<1>2. [call[w] EXCEPT !.state = state] \in Calls
  BY <1>1 DEF Calls
<1>3. call' = [call EXCEPT ![w] = [call[w] EXCEPT !.state = state]]
  BY DEF Goto
<1> DEFINE c == [call[w] EXCEPT !.state = state]
<1>4. c.state = state /\ c.id = call[w].id /\ c.answer = call[w].answer
  BY <1>1 DEF Calls
<1>5. call'[w] = c /\ \A v \in Workers \ {w} : call'[v] = call[v]
  BY <1>1, <1>3
<1>6. call' \in [Workers -> Calls]
  BY <1>1, <1>2, <1>3
<1> QED BY <1>4, <1>5, <1>6 DEF StepOf

LEMMA FreshAfter ==
  ASSUME CInv, NEW w \in Workers, StepOf(w), call[w].state \in InFlight, nextId' = nextId
  PROVE  IdsFresh'
  BY DEF CInv, IdsFresh, StepOf

LEMMA TableAfter ==
  ASSUME CInv, NEW w \in Workers, StepOf(w), call[w].state \in InFlight,
         pending' = IF call'[w].state \in InFlight THEN pending ELSE pending \ {call[w].id}
  PROVE  PendingExact'
<1> DEFINE Owners == {v \in Workers : call[v].state \in InFlight}
           Owners1 == {v \in Workers : call'[v].state \in InFlight}
<1>1. \A v \in Workers : call'[v].id = call[v].id
  BY DEF StepOf
<1>2. pending = {call[v].id : v \in Owners}
  BY DEF CInv, PendingExact
<1>3. pending' = {call[v].id : v \in Owners1}
  <2>1. CASE call'[w].state \in InFlight
    <3>1. Owners1 = Owners
      BY <2>1 DEF StepOf
    <3> QED BY <2>1, <3>1, <1>2
  <2>2. CASE call'[w].state \notin InFlight
    <3>1. Owners1 = Owners \ {w} /\ w \in Owners
      BY <2>2 DEF StepOf
    <3>2. \A v \in Owners \ {w} : call[v].id # call[w].id
      BY DEF CInv, IdsFresh
    <3>3. pending' = pending \ {call[w].id}
      BY <2>2
    <3> HIDE DEF Owners, Owners1
    <3> QED BY <3>1, <3>2, <3>3, <1>2
  <2> QED BY <2>1, <2>2
<1>4. {call[v].id : v \in Owners1} = {call'[v].id : v \in Owners1}
  BY <1>1
<1> QED BY <1>3, <1>4 DEF PendingExact

LEMMA AnswerAfter ==
  ASSUME CInv, NEW w \in Workers, StepOf(w),
         call'[w].state \in {"answered", "ok"} => call'[w].answer = Message("response", call'[w].id)
  PROVE  OwnAnswer'
  BY DEF CInv, OwnAnswer, StepOf

LEMMA ListAfter ==
  ASSUME CInv, NEW w \in Workers, StepOf(w), box' = box, UNCHANGED <<todo, reader, server>>,
         call'[w].state = "waiting" => call[w].state = "waiting" \/ server = "up"
  PROVE  OnTheList'
  BY DEF CInv, OnTheList, StepOf

LEMMA AddressedAfter ==
  ASSUME CInv, UNCHANGED <<box, stdout, reader>>
  PROVE  Addressed'
  BY DEF CInv, Addressed

LEMMA IdInFlight ==
  ASSUME CInv, NEW w \in Workers, call[w].state \in InFlight
  PROVE  call[w].id \in Ids
  BY CallFields DEF CInv, TypeOK, IdsFresh

LEMMA RegisterCInv ==
  ASSUME CInv, NEW w \in Workers, Register(w)
  PROVE  CInv'
<1> DEFINE c == [call[w] EXCEPT !.state = "registered", !.id = nextId]
<1>1. call \in [Workers -> Calls] /\ call[w] \in Calls /\ nextId \in Ids /\ call[w].state = "ready"
  BY DEF CInv, TypeOK, Register
<1>2. call' = [call EXCEPT ![w] = c]
  BY DEF Register
<1>3. c \in Calls /\ c.state = "registered" /\ c.id = nextId
  BY <1>1 DEF Calls, CallStates, InFlight
<1>4. call' \in [Workers -> Calls]
  BY <1>1, <1>2, <1>3
<1>5. call'[w].state = "registered" /\ call'[w].id = nextId
  BY <1>1, <1>2, <1>3
<1>6. \A v \in Workers \ {w} : call'[v] = call[v]
  BY <1>1, <1>2
<1>7. nextId' = nextId + 1 /\ pending' = pending \cup {nextId} /\ UNCHANGED <<box, reader, todo, server, inbox, busy, stdout, asks>>
  BY DEF Register, readerVars, serverVars
<1> HIDE DEF c
<1>8. TypeOK'
  BY <1>1, <1>4, <1>7 DEF CInv, TypeOK
<1>9. IdsFresh'
  <2>1. nextId' \in Nat \ {0} /\ nextId < nextId' /\ nextId # 0
    BY <1>7 DEF CInv, IdsFresh
  <2>2. \A v \in Workers \ {w} : call[v].id < nextId /\ call[v].id # nextId /\ call[v].id < nextId'
    <3>1. \A v \in Workers : call[v].id \in Nat
      <4>1. \A v \in Workers : call[v] \in Calls
        BY <1>1
      <4>2. \A v \in Workers : call[v].id \in Ids \cup {0}
        BY <4>1, CallFields
      <4> QED BY <4>2, IdsAreNumbers
    <3> QED BY <2>1, <3>1, <1>7 DEF CInv, IdsFresh
  <2> QED BY <1>5, <1>6, <2>1, <2>2 DEF CInv, IdsFresh
<1>10. PendingExact'
  <2> DEFINE Owners == {v \in Workers : call[v].state \in InFlight}
             Owners1 == {v \in Workers : call'[v].state \in InFlight}
  <2>1. Owners1 = Owners \cup {w} /\ w \notin Owners
    BY <1>1, <1>5, <1>6 DEF InFlight
  <2>2. pending = {call[v].id : v \in Owners}
    BY DEF CInv, PendingExact
  <2>3. \A v \in Owners : call'[v].id = call[v].id
    BY <1>6, <2>1
  <2> HIDE DEF Owners, Owners1
  <2>4. {call'[v].id : v \in Owners1} = {call[v].id : v \in Owners} \cup {nextId}
    BY <1>5, <2>1, <2>3
  <2> QED BY <1>7, <2>2, <2>4 DEF PendingExact, Owners1
<1>11. Addressed'
  BY <1>7, AddressedAfter
<1>12. OwnAnswer'
  BY <1>5, <1>6 DEF CInv, OwnAnswer
<1>13. OnTheList'
  BY <1>5, <1>6, <1>7 DEF CInv, OnTheList
<1> QED BY <1>8, <1>9, <1>10, <1>11, <1>12, <1>13 DEF CInv

\* A step between two states in flight, which changes no answer and no waiter, but perhaps
\* what the server has yet to read.
LEMMA MoveCInv ==
  ASSUME CInv, NEW w \in Workers, NEW state \in InFlight \ {"answered"},
         call[w].state \in InFlight, Goto(w, state),
         state = "waiting" => server = "up",
         inbox' \subseteq inbox \cup {call[w].id},
         UNCHANGED <<nextId, pending, box, reader, todo, server, busy, stdout, asks>>
  PROVE  CInv'
<1>1. StepOf(w) /\ call'[w].state = state
  BY GotoStep DEF CInv, CallStates
<1>2. call'[w].state \in InFlight /\ state # "ok"
  BY <1>1 DEF InFlight
<1>3. call[w].id \in Ids
  BY IdInFlight
<1>4. TypeOK'
  BY <1>1, <1>3 DEF CInv, TypeOK, StepOf
<1>5. IdsFresh' /\ PendingExact' /\ Addressed'
  BY <1>1, <1>2, FreshAfter, TableAfter, AddressedAfter
<1>6. OwnAnswer' /\ OnTheList'
  BY <1>1, <1>2, AnswerAfter, ListAfter
<1> QED BY <1>4, <1>5, <1>6 DEF CInv

LEMMA WriteCInv ==
  ASSUME CInv, NEW w \in Workers, Send(w) \/ Cancel(w) \/ Sent(w) \/ Cancelled(w)
  PROVE  CInv'
<1>1. CASE Send(w) \/ Cancel(w)
  <2>1. PICK state \in {"sending", "cancelling", "failed"} : Goto(w, state)
    BY <1>1 DEF Send, Cancel
  <2>2. /\ call[w].state \in {"registered", "sending", "expired", "cancelling"}
        /\ UNCHANGED <<nextId, pending, box, reader, todo, server, inbox, busy, stdout, asks>>
    BY <1>1 DEF Send, Cancel, readerVars, serverVars
  <2> QED BY <2>1, <2>2, MoveCInv DEF InFlight
<1>2. CASE Sent(w) \/ Cancelled(w)
  <2>1. PICK state \in {"waiting", "failed"} : Goto(w, state)
    BY <1>2 DEF Sent, Cancelled
  <2>2. /\ server = "up" /\ call[w].state \in {"sending", "cancelling"}
        /\ inbox' \subseteq inbox \cup {call[w].id}
        /\ UNCHANGED <<nextId, pending, box, reader, todo, server, busy, stdout, asks>>
    BY <1>2 DEF Sent, Cancelled, readerVars
  <2> QED BY <2>1, <2>2, MoveCInv DEF InFlight
<1> QED BY <1>1, <1>2

LEMMA ReceiveCInv ==
  ASSUME CInv, NEW w \in Workers, Receive(w)
  PROVE  CInv'
<1> DEFINE id == call[w].id
           message == box[id]
<1>1. PICK state \in {"answered", "failed"} :
        /\ state = "answered" => message.kind = "response"
        /\ call' = [call EXCEPT ![w].state = state, ![w].answer = message]
  BY DEF Receive
<1>2. /\ call[w].state = "waiting" /\ message # Empty
      /\ box' = [box EXCEPT ![id] = Empty]
      /\ UNCHANGED <<nextId, pending, reader, todo, server, inbox, busy, stdout, asks>>
  BY DEF Receive, readerVars, serverVars
<1>3. call[w].state \in InFlight
  BY <1>2 DEF InFlight
<1>4. id \in Ids
  BY <1>3, IdInFlight
<1>5. message \in Messages /\ message.id = id
  BY <1>2, <1>4 DEF CInv, TypeOK, Addressed
<1> DEFINE c == [call[w] EXCEPT !.state = state, !.answer = message]
<1>6. call \in [Workers -> Calls] /\ call[w] \in Calls
  BY DEF CInv, TypeOK
<1>7. call' = [call EXCEPT ![w] = c]
  BY <1>1
<1> HIDE DEF message
<1>8. c \in Calls /\ c.state = state /\ c.id = id /\ c.answer = message
  BY <1>5, <1>6 DEF Calls, CallStates, InFlight
<1> HIDE DEF c, id
<1>9. /\ call'[w] = c
      /\ \A v \in Workers \ {w} : call'[v] = call[v]
      /\ call' \in [Workers -> Calls]
  BY <1>6, <1>7, <1>8
<1>10. StepOf(w) /\ call'[w].state = state /\ call'[w].id = id /\ call'[w].answer = message
  BY <1>8, <1>9 DEF StepOf, id
<1>11. call'[w].state \in InFlight
  BY <1>10 DEF InFlight
<1>12. box \in [Ids -> Messages \cup {Empty}] /\ box' \in [Ids -> Messages \cup {Empty}]
  BY <1>2, <1>4 DEF CInv, TypeOK
<1>13. TypeOK'
  BY <1>2, <1>9, <1>12 DEF CInv, TypeOK
<1>14. IdsFresh' /\ PendingExact'
  BY <1>2, <1>3, <1>10, <1>11, FreshAfter, TableAfter
<1>15. Addressed'
  BY <1>2, <1>12 DEF CInv, Addressed
<1>16. OwnAnswer'
  <2>1. state = "answered" => message = Message("response", id)
    BY <1>1, <1>5, MessageFields DEF id, message
  <2> QED BY <2>1, <1>10, AnswerAfter
<1>17. OnTheList'
  <2>1. \A v \in Workers \ {w} : call[v].id # id
    BY <1>4, IdsAreNumbers DEF CInv, IdsFresh, id
  <2>2. \A v \in Workers \ {w} : call[v].state = "waiting" => call[v].id \in Ids
    BY IdInFlight DEF InFlight
  <2>3. \A v \in Workers \ {w} : call[v].state = "waiting" => box'[call[v].id] = box[call[v].id]
    BY <1>2, <1>12, <2>1, <2>2
  <2> QED BY <1>2, <1>9, <1>10, <2>3 DEF CInv, OnTheList
<1> QED BY <1>13, <1>14, <1>15, <1>16, <1>17 DEF CInv

LEMMA ExpireCInv ==
  ASSUME CInv, NEW w \in Workers, Expire(w)
  PROVE  CInv'
<1>1. /\ Goto(w, "expired") /\ call[w].state = "waiting"
      /\ UNCHANGED <<nextId, pending, box, reader, todo, server, inbox, busy, stdout, asks>>
  BY DEF Expire, readerVars, serverVars
<1> QED BY <1>1, MoveCInv DEF InFlight

LEMMA UnregisterCInv ==
  ASSUME CInv, NEW w \in Workers, Unregister(w)
  PROVE  CInv'
<1>1. /\ call[w].state \in {"answered", "failed"}
      /\ pending' = pending \ {call[w].id}
      /\ UNCHANGED <<nextId, box, reader, todo, server, inbox, busy, stdout, asks>>
  BY DEF Unregister, readerVars, serverVars
<1>2. call[w].state \in InFlight
  BY <1>1 DEF InFlight
<1>3. /\ StepOf(w) /\ call'[w].state \in {"ok", "gaveUp", "ready"}
      /\ call'[w].state = "ok" => call[w].state = "answered" /\ call'[w].answer = call[w].answer
  <2>1. CASE call[w].state = "answered" /\ Goto(w, "ok")
    BY <2>1, GotoStep DEF CInv, CallStates, InFlight
  <2>2. CASE call[w].state = "failed" /\ Goto(w, "gaveUp")
    BY <2>2, GotoStep DEF CInv, CallStates, InFlight
  <2>3. CASE /\ call[w].attempt <= Retries
             /\ call' = [call EXCEPT ![w].state = "ready", ![w].attempt = @ + 1, ![w].answer = Empty]
    <3> DEFINE c == [call[w] EXCEPT !.state = "ready", !.attempt = @ + 1, !.answer = Empty]
    <3>1. call \in [Workers -> Calls] /\ call[w] \in Calls
      BY DEF CInv, TypeOK
    <3>2. call' = [call EXCEPT ![w] = c]
      BY <2>3
    <3>3. call[w].attempt + 1 \in 1 .. Retries + 1
      BY <2>3, <3>1, CallFields, ClientAssumption
    <3>4. c \in Calls /\ c.state = "ready" /\ c.id = call[w].id
      BY <3>1, <3>3 DEF Calls, CallStates, InFlight
    <3> HIDE DEF c
    <3>5. /\ call'[w] = c
          /\ \A v \in Workers \ {w} : call'[v] = call[v]
          /\ call' \in [Workers -> Calls]
      BY <3>1, <3>2, <3>4
    <3> QED BY <3>4, <3>5 DEF StepOf
  <2> QED BY <2>1, <2>2, <2>3 DEF Unregister
<1>4. call'[w].state \notin InFlight
  BY <1>3 DEF InFlight
<1>5. TypeOK'
  BY <1>1, <1>3 DEF CInv, TypeOK, StepOf
<1>6. IdsFresh' /\ PendingExact' /\ Addressed'
  BY <1>1, <1>2, <1>3, <1>4, FreshAfter, TableAfter, AddressedAfter
<1>7. OwnAnswer'
  <2>1. call'[w].state = "ok" => call'[w].answer = Message("response", call'[w].id)
    BY <1>3 DEF CInv, OwnAnswer, StepOf
  <2> QED BY <1>3, <2>1, AnswerAfter
<1>8. OnTheList'
  BY <1>1, <1>3, ListAfter
<1> QED BY <1>5, <1>6, <1>7, <1>8 DEF CInv

-------------------------------------------------------------------------------
(* The steps of the reader and of the server.                              *)

\* They leave the calls alone.
LEMMA CallsAlone ==
  ASSUME CInv, UNCHANGED <<call, nextId, pending>>
  PROVE  IdsFresh' /\ PendingExact' /\ OwnAnswer'
  BY DEF CInv, IdsFresh, PendingExact, OwnAnswer

LEMMA WaitingPending ==
  ASSUME CInv, NEW w \in Workers, call[w].state = "waiting"
  PROVE  call[w].id \in pending
  BY DEF CInv, PendingExact, InFlight

LEMMA ReadResponseCInv ==
  ASSUME CInv, ReadResponse
  PROVE  CInv'
<1>1. /\ stdout \in Seq(Messages) /\ stdout # <<>> /\ stdout' = Tail(stdout)
      /\ Head(stdout).kind # "ask"
      /\ UNCHANGED <<call, nextId, pending, box, todo, server, inbox, busy, asks>>
      /\ reader.state = "reading"
      /\ reader' = IF Head(stdout).id \in pending
                   THEN [state |-> "putting", hold |-> Head(stdout)] ELSE reader
  BY DEF ReadResponse, CInv, TypeOK, clientVars
<1>2. Head(stdout) = stdout[1] /\ 1 \in 1 .. Len(stdout) /\ Head(stdout) \in Messages
  BY <1>1
<1>3. stdout' \in Seq(Messages) /\ \A k \in 1 .. Len(stdout') : k + 1 \in 1 .. Len(stdout) /\ stdout'[k] = stdout[k + 1]
  BY <1>1
<1>4. Head(stdout).kind = "response" /\ Head(stdout).id \in Ids
  BY <1>1, <1>2 DEF CInv, Addressed
<1>5. TypeOK'
  BY <1>1, <1>2, <1>3 DEF CInv, TypeOK, ReaderStates
<1>6. Addressed'
  BY <1>1, <1>3, <1>4 DEF CInv, Addressed
<1>7. OnTheList'
  BY <1>1 DEF CInv, OnTheList
<1> QED BY <1>1, <1>5, <1>6, <1>7, CallsAlone DEF CInv

LEMMA PutCInv ==
  ASSUME CInv, Put
  PROVE  CInv'
<1>1. /\ reader.hold.kind = "response" /\ reader.hold.id \in Ids
      /\ reader.hold \in Messages \cup {Empty}
      /\ box' = [box EXCEPT ![reader.hold.id] = reader.hold]
      /\ reader' = [state |-> "reading", hold |-> Empty]
      /\ UNCHANGED <<call, nextId, pending, todo, server, inbox, busy, stdout, asks>>
      /\ box \in [Ids -> Messages \cup {Empty}]
  BY DEF Put, CInv, TypeOK, Addressed, clientVars, serverVars
<1>2. TypeOK'
  BY <1>1 DEF CInv, TypeOK, ReaderStates
<1>3. Addressed'
  BY <1>1 DEF CInv, Addressed
<1>4. OnTheList'
  BY <1>1 DEF CInv, OnTheList
<1> QED BY <1>1, <1>2, <1>3, <1>4, CallsAlone DEF CInv

LEMMA ReadAskCInv ==
  ASSUME CInv, ReadAsk
  PROVE  CInv'
<1>1. /\ stdout \in Seq(Messages) /\ stdout # <<>> /\ stdout' = Tail(stdout)
      /\ UNCHANGED <<call, nextId, pending, box, todo, server, inbox, busy, asks>>
      /\ reader.state = "reading"
      /\ reader' = [reader EXCEPT !.state = "refusing"]
  BY DEF ReadAsk, CInv, TypeOK, clientVars
<1>2. stdout' \in Seq(Messages) /\ \A k \in 1 .. Len(stdout') : k + 1 \in 1 .. Len(stdout) /\ stdout'[k] = stdout[k + 1]
  BY <1>1
<1>3. reader'.state = "refusing" /\ TypeOK'
  BY <1>1, <1>2 DEF CInv, TypeOK, ReaderStates
<1>4. Addressed'
  BY <1>1, <1>2, <1>3 DEF CInv, Addressed
<1>5. OnTheList'
  BY <1>3 DEF OnTheList
<1> QED BY <1>1, <1>3, <1>4, <1>5, CallsAlone DEF CInv

LEMMA RefuseCInv ==
  ASSUME CInv, Refuse \/ Refused
  PROVE  CInv'
<1>1. PICK state \in {"reading", "writing", "died"} : reader' = [reader EXCEPT !.state = state]
  BY DEF Refuse, Refused
<1>2. UNCHANGED <<call, nextId, pending, box, todo, server, inbox, busy, stdout, asks>>
  BY DEF Refuse, Refused, clientVars, serverVars
<1>3. reader'.state = state /\ TypeOK'
  BY <1>1, <1>2 DEF CInv, TypeOK, ReaderStates
<1>4. Addressed' /\ OnTheList'
  BY <1>2, <1>3 DEF CInv, Addressed, OnTheList
<1> QED BY <1>2, <1>3, <1>4, CallsAlone DEF CInv

LEMMA EndCInv ==
  ASSUME CInv, ReadEof \/ FailNext \/ FailDone
  PROVE  CInv'
<1>1. CASE ReadEof
  <2>1. /\ server = "exited" /\ todo' = pending
        /\ reader' = [reader EXCEPT !.state = "failing"]
        /\ UNCHANGED <<call, nextId, pending, box, server, inbox, busy, stdout, asks>>
    BY <1>1 DEF ReadEof, clientVars, serverVars
  <2>2. reader'.state = "failing" /\ TypeOK'
    BY <2>1 DEF CInv, TypeOK, ReaderStates
  <2>3. Addressed'
    BY <2>1, <2>2 DEF CInv, Addressed
  <2>4. OnTheList'
    BY <2>1, <2>2, WaitingPending DEF OnTheList
  <2> QED BY <2>1, <2>2, <2>3, <2>4, CallsAlone DEF CInv
<1>2. CASE FailNext
  <2> PICK i \in todo : /\ box[i] = Empty
                        /\ box' = [box EXCEPT ![i] = Message("error", i)]
                        /\ todo' = todo \ {i}
    BY <1>2 DEF FailNext
  <2>1. /\ reader.state = "failing"
        /\ UNCHANGED <<call, nextId, pending, reader, server, inbox, busy, stdout, asks>>
    BY <1>2 DEF FailNext, clientVars, serverVars
  <2>2. i \in Ids /\ box \in [Ids -> Messages \cup {Empty}]
    BY DEF CInv, TypeOK
  <2>3. /\ Message("error", i) \in Messages /\ Message("error", i) # Empty
        /\ Message("error", i).id = i
    BY <2>2, MessageFields
  <2>4. TypeOK'
    BY <2>1, <2>2, <2>3 DEF CInv, TypeOK
  <2>5. Addressed'
    BY <2>1, <2>2, <2>3 DEF CInv, Addressed
  <2>6. OnTheList'
    BY <2>1, <2>2, <2>3 DEF CInv, OnTheList
  <2> QED BY <2>1, <2>4, <2>5, <2>6, CallsAlone DEF CInv
<1>3. CASE FailDone
  <2>1. /\ reader.state = "failing" /\ todo = {}
        /\ reader' = [reader EXCEPT !.state = "ended"]
        /\ UNCHANGED <<call, nextId, pending, box, todo, server, inbox, busy, stdout, asks>>
    BY <1>3 DEF FailDone, clientVars, serverVars
  <2>2. reader'.state = "ended" /\ TypeOK'
    BY <2>1 DEF CInv, TypeOK, ReaderStates
  <2>3. Addressed' /\ OnTheList'
    BY <2>1, <2>2 DEF CInv, Addressed, OnTheList
  <2> QED BY <2>1, <2>2, <2>3, CallsAlone DEF CInv
<1> QED BY <1>1, <1>2, <1>3

\* The server has only its pipes.
LEMMA ServerCInv ==
  ASSUME CInv, Serve \/ Ask \/ Exit
  PROVE  CInv'
<1>1. ASSUME NEW m \in Messages, stdout' = Append(stdout, m),
             m.kind \in {"response", "ask"}, m.kind = "response" => m.id \in Ids,
             UNCHANGED <<box, reader>>
      PROVE  stdout' \in Seq(Messages) /\ Addressed'
  <2>1. stdout \in Seq(Messages)
    BY DEF CInv, TypeOK
  <2>2. stdout' \in Seq(Messages) /\ \A k \in 1 .. Len(stdout') : stdout'[k] = m \/ (k \in 1 .. Len(stdout) /\ stdout'[k] = stdout[k])
    BY <1>1, <2>1
  <2> QED BY <1>1, <2>2 DEF CInv, Addressed
<1>2. ASSUME NEW i \in Ids, TakeUp(i) PROVE CInv'
  <2>1. UNCHANGED <<call, nextId, pending, box, reader, todo, server, stdout, asks>>
    BY <1>2 DEF TakeUp, clientVars, readerVars
  <2>2. TypeOK'
    BY <1>2, <2>1 DEF TakeUp, CInv, TypeOK
  <2>3. OnTheList'
    BY <2>1 DEF CInv, OnTheList
  <2> QED BY <2>1, <2>2, <2>3, AddressedAfter, CallsAlone DEF CInv
<1>3. ASSUME NEW i \in Ids, Respond(i) PROVE CInv'
  <2>1. /\ UNCHANGED <<call, nextId, pending, box, reader, todo, server, inbox, asks>>
        /\ busy' = busy \ {i} /\ stdout' = Append(stdout, Message("response", i))
    BY <1>3 DEF Respond, clientVars, readerVars
  <2>2. /\ Message("response", i) \in Messages
        /\ Message("response", i).kind = "response" /\ Message("response", i).id = i
    BY MessageFields
  <2>3. stdout' \in Seq(Messages) /\ Addressed'
    BY <2>1, <2>2, <1>1
  <2>4. TypeOK' /\ OnTheList'
    BY <2>1, <2>3 DEF CInv, TypeOK, OnTheList
  <2> QED BY <2>1, <2>3, <2>4, CallsAlone DEF CInv
<1>4. CASE Ask
  <2>1. /\ UNCHANGED <<call, nextId, pending, box, reader, todo, server, inbox, busy>>
        /\ asks < MaxAsks /\ asks' = asks + 1 /\ stdout' = Append(stdout, Message("ask", 0))
    BY <1>4 DEF Ask, clientVars, readerVars
  <2>2. Message("ask", 0) \in Messages /\ Message("ask", 0).kind = "ask"
    BY MessageFields
  <2>3. stdout' \in Seq(Messages) /\ Addressed'
    BY <2>1, <2>2, <1>1
  <2>4. asks' \in 0 .. MaxAsks
    BY <2>1, ClientAssumption DEF CInv, TypeOK
  <2>5. TypeOK' /\ OnTheList'
    BY <2>1, <2>3, <2>4 DEF CInv, TypeOK, OnTheList
  <2> QED BY <2>1, <2>3, <2>5, CallsAlone DEF CInv
<1>5. CASE Exit
  <2>1. /\ UNCHANGED <<call, nextId, pending, box, reader, todo, stdout, asks>>
        /\ server = "up" /\ server' = "exited" /\ inbox' = {} /\ busy' = {}
    BY <1>5 DEF Exit, clientVars, readerVars
  <2>2. TypeOK' /\ OnTheList'
    BY <2>1 DEF CInv, TypeOK, OnTheList
  <2> QED BY <2>1, <2>2, AddressedAfter, CallsAlone DEF CInv
<1> QED BY <1>2, <1>3, <1>4, <1>5 DEF Serve

LEMMA StepCInv == CInv /\ [Next]_vars => CInv'
<1> SUFFICES ASSUME CInv, [Next]_vars PROVE CInv'
  OBVIOUS
<1>1. ASSUME NEW w \in Workers, Work(w) PROVE CInv'
  BY <1>1, RegisterCInv, WriteCInv, ReceiveCInv, ExpireCInv, UnregisterCInv DEF Work
<1>2. CASE UNCHANGED vars
  BY <1>2 DEF vars, CInv, TypeOK, Addressed, IdsFresh, PendingExact, OwnAnswer, OnTheList
<1>3. ASSUME Read PROVE CInv'
  BY <1>3, ReadResponseCInv, PutCInv, ReadAskCInv, RefuseCInv, EndCInv DEF Read
<1>4. ASSUME ReadOn PROVE CInv'
  BY <1>4, WriteCInv, RefuseCInv DEF ReadOn
<1> QED BY <1>1, <1>2, <1>3, <1>4, ServerCInv DEF Next

LEMMA CInductive == Spec => []CInv
<1>1. Init => CInv
  BY InitCInv
<1>2. CInv /\ [Next]_vars => CInv'
  BY StepCInv
<1> QED BY <1>1, <1>2, PTL DEF Spec

-------------------------------------------------------------------------------
(* A waiter has room for its answer: no id is sent twice, none is answered     *)
(* twice, and errors are made only when the reader has stopped reading.        *)

\* The ids of the answers in the pipe, in the reader's hand and in the waiters, and those
\* whose requests have not reached the server.
Replies == {k \in 1 .. Len(stdout) : stdout[k].kind = "response"}
Piped == {stdout[k].id : k \in Replies}
Held == IF reader.state = "putting" THEN {reader.hold.id} ELSE {}
Boxed == {i \in Ids : box[i] # Empty}
Unsent ==
  {i \in Ids : i >= nextId} \cup {call[w].id : w \in {v \in Workers : call[v].state \in {"registered", "sending"}}}

\* As long as the reader reads, an id is in one place at most on its way to the server and
\* back: it is sent once and answered once.
OnePlace ==
  reader.state \in {"reading", "putting", "refusing", "writing"} =>
    /\ \A j, k \in Replies : j # k => stdout[j].id # stdout[k].id
    /\ Unsent \cap (inbox \cup busy \cup Piped \cup Held \cup Boxed) = {}
    /\ inbox \cap (busy \cup Piped \cup Held \cup Boxed) = {}
    /\ busy \cap (Piped \cup Held \cup Boxed) = {}
    /\ Piped \cap (Held \cup Boxed) = {}
    /\ Held \cap Boxed = {}

\* A step that brings nothing to the server keeps every id where it is, or takes it away.
LEMMA OnePlaceShrinks ==
  ASSUME OnePlace, reader' = reader, stdout' = stdout,
         Unsent' \subseteq Unsent, inbox' \subseteq inbox, busy' \subseteq busy, Boxed' \subseteq Boxed
  PROVE  OnePlace'
<1>1. Replies' = Replies /\ Piped' = Piped /\ Held' = Held
  BY DEF Replies, Piped, Held
<1>2. \A j, k \in Replies : stdout'[j].id = stdout'[k].id <=> stdout[j].id = stdout[k].id
  OBVIOUS
<1> QED BY <1>1, <1>2 DEF OnePlace

LEMMA UnsentShrinks ==
  ASSUME CInv, NEW w \in Workers, StepOf(w), nextId' = nextId,
         call'[w].state \in {"registered", "sending"} => call[w].state \in {"registered", "sending"}
  PROVE  Unsent' \subseteq Unsent
  BY DEF Unsent, StepOf

LEMMA RegisterOnePlace ==
  ASSUME CInv, OnePlace, NEW w \in Workers, Register(w)
  PROVE  OnePlace'
<1>1. /\ call \in [Workers -> Calls] /\ call[w].state = "ready" /\ nextId \in Ids
      /\ call' = [call EXCEPT ![w].state = "registered", ![w].id = nextId] /\ nextId' = nextId + 1
      /\ UNCHANGED <<box, reader, todo, server, inbox, busy, stdout, asks>>
  BY DEF Register, CInv, TypeOK, readerVars, serverVars
<1>2. /\ \A v \in Workers \ {w} : call'[v] = call[v]
      /\ call'[w].state = "registered" /\ call'[w].id = nextId
  BY <1>1 DEF Calls
<1>3. \A i \in Ids : i >= nextId + 1 => i >= nextId
  BY <1>1, IdsAreNumbers
<1>4. Unsent' \subseteq Unsent
  <2> SUFFICES ASSUME NEW i \in Unsent' PROVE i \in Unsent
    OBVIOUS
  <2>1. CASE i \in Ids /\ i >= nextId'
    BY <1>1, <1>3, <2>1 DEF Unsent
  <2>2. CASE \E v \in Workers : call'[v].state \in {"registered", "sending"} /\ i = call'[v].id
    <3>1. PICK v \in Workers : call'[v].state \in {"registered", "sending"} /\ i = call'[v].id
      BY <2>2
    <3>2. CASE v = w
      <4>1. i \in Ids /\ i >= nextId
        BY <1>1, <1>2, <3>1, <3>2, IdsAreNumbers
      <4> QED BY <4>1 DEF Unsent
    <3>3. CASE v # w
      BY <1>2, <3>1, <3>3 DEF Unsent
    <3> QED BY <3>2, <3>3
  <2> QED BY <2>1, <2>2 DEF Unsent
<1>5. Boxed' = Boxed
  BY <1>1 DEF Boxed
<1> QED BY <1>1, <1>4, <1>5, OnePlaceShrinks

LEMMA SentOnePlace ==
  ASSUME CInv, OnePlace, NEW w \in Workers, Sent(w)
  PROVE  OnePlace'
<1> DEFINE id == call[w].id
<1>1. Goto(w, "waiting") /\ inbox' = inbox \cup {id}
  BY DEF Sent
<1>2. call[w].state = "sending" /\ UNCHANGED <<nextId, pending, box, reader, todo, server, busy, stdout, asks>>
  BY DEF Sent, readerVars
<1>3. StepOf(w) /\ call'[w].state = "waiting"
  BY <1>1, GotoStep DEF CInv, CallStates, InFlight
<1>4. Unsent' \subseteq Unsent
  BY <1>2, <1>3, UnsentShrinks
<1>5. id \in Unsent /\ id \notin Unsent'
  <2>1. call[w].state \in InFlight
    BY <1>2 DEF InFlight
  <2>2. id \in Ids /\ id < nextId /\ nextId \in Nat /\ id # 0
    BY <2>1, IdInFlight DEF CInv, IdsFresh
  <2>3. id \in Nat /\ ~(id >= nextId)
    BY <2>2, IdsAreNumbers
  <2>4. \A v \in Workers \ {w} : call'[v].id # id
    BY <1>3, <2>2 DEF CInv, IdsFresh, StepOf
  <2>5. id \notin Unsent'
    BY <1>2, <1>3, <2>3, <2>4 DEF Unsent
  <2> QED BY <1>2, <2>5 DEF Unsent
<1>6. Replies' = Replies /\ Piped' = Piped /\ Held' = Held /\ Boxed' = Boxed
  BY <1>2 DEF Replies, Piped, Held, Boxed
<1> HIDE DEF id
<1> QED BY <1>1, <1>2, <1>4, <1>5, <1>6 DEF OnePlace

LEMMA WorkOnePlace ==
  ASSUME CInv, OnePlace, NEW w \in Workers, Work(w)
  PROVE  OnePlace'
<1>1. CASE Receive(w)
  <2>1. /\ call \in [Workers -> Calls] /\ box \in [Ids -> Messages \cup {Empty}]
        /\ box' = [box EXCEPT ![call[w].id] = Empty]
        /\ UNCHANGED <<nextId, pending, reader, todo, server, inbox, busy, stdout, asks>>
    BY <1>1 DEF Receive, CInv, TypeOK, readerVars, serverVars
  <2>2. PICK state \in {"answered", "failed"} :
          call' = [call EXCEPT ![w].state = state, ![w].answer = box[call[w].id]]
    BY <1>1 DEF Receive
  <2>3. \A v \in Workers : call'[v].state \in {"registered", "sending"} => v # w /\ call'[v] = call[v]
    BY <2>1, <2>2 DEF Calls
  <2>4. Unsent' \subseteq Unsent
    BY <2>1, <2>3 DEF Unsent
  <2>5. Boxed' \subseteq Boxed
    BY <2>1 DEF Boxed
  <2> QED BY <2>1, <2>4, <2>5, OnePlaceShrinks
<1>2. CASE Send(w) \/ Expire(w) \/ Cancel(w)
  <2>1. PICK state \in {"sending", "expired", "cancelling", "failed"} :
          Goto(w, state) /\ (state = "sending" => call[w].state = "registered")
    BY <1>2 DEF Send, Expire, Cancel
  <2>2. UNCHANGED <<nextId, pending, box, reader, todo, server, inbox, busy, stdout, asks>>
    BY <1>2 DEF Send, Expire, Cancel, readerVars, serverVars
  <2>3. StepOf(w) /\ call'[w].state = state
    BY <2>1, GotoStep DEF CInv, CallStates, InFlight
  <2>4. Unsent' \subseteq Unsent /\ Boxed' = Boxed
    BY <2>1, <2>2, <2>3, UnsentShrinks DEF Boxed
  <2> QED BY <2>2, <2>4, OnePlaceShrinks
<1>3. CASE Unregister(w)
  <2>1. UNCHANGED <<nextId, box, reader, todo, server, inbox, busy, stdout, asks>>
    BY <1>3 DEF Unregister, readerVars, serverVars
  <2>2. call \in [Workers -> Calls]
    BY DEF CInv, TypeOK
  <2>3. \A v \in Workers : call'[v].state \in {"registered", "sending"} => v # w /\ call'[v] = call[v]
    <3>1. CASE Goto(w, "ok") \/ Goto(w, "gaveUp")
      BY <2>2, <3>1 DEF Goto, Calls
    <3>2. CASE call' = [call EXCEPT ![w].state = "ready", ![w].attempt = @ + 1, ![w].answer = Empty]
      BY <2>2, <3>2 DEF Calls
    <3> QED BY <1>3, <3>1, <3>2 DEF Unregister
  <2>4. Unsent' \subseteq Unsent /\ Boxed' = Boxed
    BY <2>1, <2>3 DEF Unsent, Boxed
  <2> QED BY <2>1, <2>4, OnePlaceShrinks
<1> QED BY <1>1, <1>2, <1>3, RegisterOnePlace DEF Work

\* What the reader takes out of the pipe was there once.
LEMMA ReadTail ==
  ASSUME CInv, OnePlace, reader.state = "reading", stdout # <<>>, stdout' = Tail(stdout)
  PROVE  /\ Piped' \subseteq Piped
         /\ \A j, k \in Replies' : j # k => stdout'[j].id # stdout'[k].id
         /\ Head(stdout).kind = "response" => Head(stdout).id \in Piped \ Piped'
<1>1. stdout \in Seq(Messages)
  BY DEF CInv, TypeOK
<1>2. Head(stdout) = stdout[1] /\ 1 \in 1 .. Len(stdout)
  BY <1>1
<1>3. \A k \in 1 .. Len(stdout') :
        k + 1 \in 1 .. Len(stdout) /\ k + 1 # 1 /\ stdout'[k] = stdout[k + 1]
  BY <1>1
<1>4. \A k \in Replies' : k \in Nat /\ k + 1 \in Replies /\ k + 1 # 1 /\ stdout'[k] = stdout[k + 1]
  BY <1>3 DEF Replies
<1>5. \A j, k \in Replies : j # k => stdout[j].id # stdout[k].id
  BY DEF OnePlace
<1>6. Head(stdout).kind = "response" => 1 \in Replies
  BY <1>2 DEF Replies
<1>7. \A j, k \in Replies' : j # k => j + 1 # k + 1
  BY <1>4
<1>8. \A j, k \in Replies' : j # k => stdout'[j].id # stdout'[k].id
  BY <1>4, <1>5, <1>7
<1>9. Piped' \subseteq Piped
  BY <1>4 DEF Piped
<1>10. ASSUME Head(stdout).kind = "response"
       PROVE  Head(stdout).id \in Piped /\ Head(stdout).id \notin Piped'
  <2>1. \A k \in Replies' : stdout'[k].id # Head(stdout).id
    BY <1>2, <1>4, <1>5, <1>6, <1>10
  <2> QED BY <1>2, <1>6, <1>10, <2>1 DEF Piped
<1> QED BY <1>8, <1>9, <1>10

LEMMA RefuseOnePlace ==
  ASSUME CInv, OnePlace, Refuse \/ Refused
  PROVE  OnePlace'
<1>1. /\ reader \in [state : ReaderStates, hold : Messages \cup {Empty}]
      /\ UNCHANGED <<call, nextId, pending, box, todo, server, inbox, busy, stdout, asks>>
  BY DEF Refuse, Refused, CInv, TypeOK, clientVars, serverVars
<1>2. \/ reader.state \in {"refusing", "writing"} /\ reader'.state \in {"reading", "writing"}
      \/ reader'.state = "died"
  BY <1>1 DEF Refuse, Refused
<1>3. Replies' = Replies /\ Piped' = Piped /\ Unsent' = Unsent /\ Boxed' = Boxed
  BY <1>1 DEF Replies, Piped, Unsent, Boxed
<1>4. reader'.state \in {"reading", "writing"} => Held' = {} /\ Held = {}
  BY <1>2 DEF Held
<1> QED BY <1>1, <1>2, <1>3, <1>4 DEF OnePlace

LEMMA ReadOnePlace ==
  ASSUME CInv, OnePlace, Read
  PROVE  OnePlace'
<1>1. CASE ReadResponse
  <2>1. /\ reader.state = "reading" /\ stdout # <<>> /\ stdout' = Tail(stdout)
        /\ Head(stdout).kind # "ask"
        /\ reader' = IF Head(stdout).id \in pending
                     THEN [state |-> "putting", hold |-> Head(stdout)] ELSE reader
        /\ UNCHANGED <<call, nextId, pending, box, todo, server, inbox, busy, asks>>
    BY <1>1 DEF ReadResponse, clientVars
  <2>2. stdout \in Seq(Messages) /\ Head(stdout) = stdout[1] /\ 1 \in 1 .. Len(stdout)
    BY <2>1 DEF CInv, TypeOK
  <2>3. Head(stdout).kind = "response"
    BY <2>1, <2>2 DEF CInv, Addressed
  <2>4. Held' \subseteq {Head(stdout).id} /\ Boxed' = Boxed /\ Unsent' = Unsent
    BY <2>1 DEF Held, Boxed, Unsent
  <2> QED BY <2>1, <2>3, <2>4, ReadTail DEF OnePlace
<1>2. CASE Put
  <2>1. /\ reader.state = "putting" /\ reader.hold.id \in Ids
        /\ box \in [Ids -> Messages \cup {Empty}]
        /\ box' = [box EXCEPT ![reader.hold.id] = reader.hold]
        /\ reader' = [state |-> "reading", hold |-> Empty]
        /\ UNCHANGED <<call, nextId, pending, todo, server, inbox, busy, stdout, asks>>
    BY <1>2 DEF Put, CInv, TypeOK, Addressed, clientVars, serverVars
  <2>2. Held = {reader.hold.id} /\ Held' = {}
    BY <2>1 DEF Held
  <2>3. Boxed' \subseteq Boxed \cup Held
    BY <2>1, <2>2 DEF Boxed
  <2>4. Replies' = Replies /\ Piped' = Piped /\ Unsent' = Unsent
    BY <2>1 DEF Replies, Piped, Unsent
  <2> QED BY <2>1, <2>2, <2>3, <2>4 DEF OnePlace
<1>3. CASE ReadAsk
  <2>1. /\ reader.state = "reading" /\ stdout # <<>> /\ stdout' = Tail(stdout)
        /\ reader' = [reader EXCEPT !.state = "refusing"]
        /\ UNCHANGED <<call, nextId, pending, box, todo, server, inbox, busy, asks>>
        /\ reader \in [state : ReaderStates, hold : Messages \cup {Empty}]
    BY <1>3 DEF ReadAsk, clientVars, CInv, TypeOK
  <2>2. Held' = {} /\ Boxed' = Boxed /\ Unsent' = Unsent
    BY <2>1 DEF Held, Boxed, Unsent
  <2> QED BY <2>1, <2>2, ReadTail DEF OnePlace
<1>4. CASE ReadEof \/ FailNext \/ FailDone
  <2>1. reader'.state \in {"failing", "ended"}
    BY <1>4 DEF ReadEof, FailNext, FailDone, CInv, TypeOK
  <2> QED BY <2>1 DEF OnePlace
<1> QED BY <1>1, <1>2, <1>3, <1>4, RefuseOnePlace DEF Read

LEMMA ReadOnOnePlace ==
  ASSUME CInv, OnePlace, ReadOn
  PROVE  OnePlace'
<1>1. ASSUME NEW w \in Workers, Cancelled(w) PROVE OnePlace'
  <2>1. /\ Goto(w, "failed") /\ inbox' \subseteq inbox
        /\ UNCHANGED <<nextId, pending, box, reader, todo, server, busy, stdout, asks>>
    BY <1>1 DEF Cancelled, readerVars
  <2>2. StepOf(w) /\ call'[w].state = "failed"
    BY <2>1, GotoStep DEF CInv, CallStates, InFlight
  <2>3. Unsent' \subseteq Unsent /\ Boxed' = Boxed
    BY <2>1, <2>2, UnsentShrinks DEF Boxed
  <2> QED BY <2>1, <2>3, OnePlaceShrinks
<1> QED BY <1>1, SentOnePlace, RefuseOnePlace DEF ReadOn

LEMMA ServerOnePlace ==
  ASSUME CInv, OnePlace, Serve \/ Ask \/ Exit
  PROVE  OnePlace'
<1>1. ASSUME UNCHANGED <<call, nextId, box, reader>>
      PROVE  Unsent' = Unsent /\ Held' = Held /\ Boxed' = Boxed
  BY <1>1 DEF Unsent, Held, Boxed
<1>2. ASSUME NEW m \in Messages, stdout' = Append(stdout, m)
      PROVE  /\ Replies' = IF m.kind = "response" THEN Replies \cup {Len(stdout) + 1} ELSE Replies
             /\ \A k \in Replies : stdout'[k] = stdout[k] /\ k # Len(stdout) + 1
             /\ stdout'[Len(stdout) + 1] = m
             /\ Piped' = IF m.kind = "response" THEN Piped \cup {m.id} ELSE Piped
  <2>1. stdout \in Seq(Messages)
    BY DEF CInv, TypeOK
  <2>2. /\ Len(stdout') = Len(stdout) + 1 /\ stdout'[Len(stdout) + 1] = m
        /\ \A k \in 1 .. Len(stdout) : stdout'[k] = stdout[k] /\ k # Len(stdout) + 1
    BY <1>2, <2>1
  <2>3. 1 .. Len(stdout) + 1 = (1 .. Len(stdout)) \cup {Len(stdout) + 1}
    BY <2>1
  <2>4. \A k \in Replies : stdout'[k] = stdout[k] /\ k # Len(stdout) + 1
    BY <2>2 DEF Replies
  <2>5. Replies' = IF m.kind = "response" THEN Replies \cup {Len(stdout) + 1} ELSE Replies
    BY <2>2, <2>3 DEF Replies
  <2> QED BY <2>2, <2>4, <2>5 DEF Piped
<1>3. ASSUME NEW i \in Ids, TakeUp(i) PROVE OnePlace'
  <2>1. /\ UNCHANGED <<call, nextId, pending, box, reader, todo, server, stdout, asks>>
        /\ i \in inbox /\ inbox' = inbox \ {i} /\ busy' = busy \cup {i}
    BY <1>3 DEF TakeUp, clientVars, readerVars
  <2>2. Replies' = Replies /\ Piped' = Piped
    BY <2>1 DEF Replies, Piped
  <2> QED BY <1>1, <2>1, <2>2 DEF OnePlace
<1>4. ASSUME NEW i \in Ids, Respond(i) PROVE OnePlace'
  <2> DEFINE m == Message("response", i)
  <2>1. /\ UNCHANGED <<call, nextId, pending, box, reader, todo, server, inbox, asks>>
        /\ i \in busy /\ busy' = busy \ {i} /\ stdout' = Append(stdout, m)
    BY <1>4 DEF Respond, clientVars, readerVars
  <2>2. m \in Messages /\ m.kind = "response" /\ m.id = i
    BY MessageFields
  <2> HIDE DEF m
  <2>3. /\ Replies' = Replies \cup {Len(stdout) + 1}
        /\ \A k \in Replies : stdout'[k] = stdout[k] /\ k # Len(stdout) + 1
        /\ stdout'[Len(stdout) + 1] = m /\ Piped' = Piped \cup {i}
    BY <1>2, <2>1, <2>2
  <2>4. ASSUME reader.state \in {"reading", "putting", "refusing", "writing"}
        PROVE  \A j, k \in Replies' : j # k => stdout'[j].id # stdout'[k].id
    <3>1. i \notin Piped /\ \A j, k \in Replies : j # k => stdout[j].id # stdout[k].id
      BY <2>1, <2>4 DEF OnePlace
    <3> QED BY <2>2, <2>3, <3>1 DEF Piped
  <2> QED BY <1>1, <2>1, <2>3, <2>4 DEF OnePlace
<1>5. CASE Ask
  <2>1. /\ UNCHANGED <<call, nextId, pending, box, reader, todo, server, inbox, busy>>
        /\ stdout' = Append(stdout, Message("ask", 0))
    BY <1>5 DEF Ask, clientVars, readerVars
  <2>2. Message("ask", 0) \in Messages /\ Message("ask", 0).kind = "ask"
    BY MessageFields
  <2>3. Replies' = Replies /\ Piped' = Piped /\ \A k \in Replies : stdout'[k] = stdout[k]
    BY <1>2, <2>1, <2>2
  <2>4. Unsent' = Unsent /\ Held' = Held /\ Boxed' = Boxed
    BY <1>1, <2>1
  <2>5. (\A j, k \in Replies : j # k => stdout[j].id # stdout[k].id)
          => \A j, k \in Replies' : j # k => stdout'[j].id # stdout'[k].id
    BY <2>3
  <2> QED BY <2>1, <2>3, <2>4, <2>5 DEF OnePlace
<1>6. CASE Exit
  <2>1. /\ UNCHANGED <<call, nextId, pending, box, reader, todo, stdout, asks>>
        /\ inbox' = {} /\ busy' = {}
    BY <1>6 DEF Exit, clientVars, readerVars
  <2> QED BY <1>1, <2>1, OnePlaceShrinks
<1> QED BY <1>3, <1>4, <1>5, <1>6 DEF Serve

LEMMA OnePlaceInductive == Spec => []OnePlace
<1>1. Init => OnePlace
  <2> SUFFICES ASSUME Init PROVE OnePlace
    OBVIOUS
  <2>1. Replies = {} /\ Piped = {} /\ Held = {} /\ Boxed = {} /\ inbox = {} /\ busy = {}
    BY DEF Init, Replies, Piped, Held, Boxed
  <2> QED BY <2>1 DEF OnePlace
<1>2. CInv /\ OnePlace /\ [Next]_vars => OnePlace'
  <2> SUFFICES ASSUME CInv, OnePlace, [Next]_vars PROVE OnePlace'
    OBVIOUS
  <2>1. CASE UNCHANGED vars
    <3>1. UNCHANGED <<call, nextId, box, reader, inbox, busy, stdout>>
      BY <2>1 DEF vars
    <3>2. Unsent' = Unsent /\ Boxed' = Boxed
      BY <3>1 DEF Unsent, Boxed
    <3> QED BY <3>1, <3>2, OnePlaceShrinks
  <2> QED BY <2>1, WorkOnePlace, ReadOnePlace, ReadOnOnePlace, ServerOnePlace DEF Next
<1> QED BY <1>1, <1>2, CInductive, PTL DEF Spec

-------------------------------------------------------------------------------

\* Type correctness of the client, the reader and the server's pipes.
THEOREM ClientTypes == Spec => []TypeOK
<1>1. CInv => TypeOK
  BY DEF CInv
<1> QED BY <1>1, CInductive, PTL

\* No timeout, error, late answer or end of the server leaves a waiter behind or
\* takes one away, with any number of threads and retries.
THEOREM TableExact == Spec => []PendingExact
<1>1. CInv => PendingExact
  BY DEF CInv
<1> QED BY <1>1, CInductive, PTL

\* A call that succeeds has the answer to its own last attempt.
THEOREM AnswerIsOwn == Spec => []OwnAnswer
<1>1. CInv => OwnAnswer
  BY DEF CInv
<1> QED BY <1>1, CInductive, PTL

\* Once the reader has ended, nobody waits in vain.
THEOREM EveryoneWoken == Spec => []NoneForgotten
<1>1. CInv => NoneForgotten
  BY DEF CInv, OnTheList, NoneForgotten
<1> QED BY <1>1, CInductive, PTL

\* No answer, however late, finds its queue of one full, so that the reader is held up by none.
THEOREM RoomForAnswers == Spec => []AnswerHasRoom
<1>1. CInv /\ OnePlace => AnswerHasRoom
  BY DEF CInv, Addressed, OnePlace, Held, Boxed, AnswerHasRoom
<1> QED BY <1>1, CInductive, OnePlaceInductive, PTL
===============================================================================
