--------------------------- MODULE BackEndProofs ----------------------------
(***************************************************************************)
(* Theorems about what a session's back end is given and what it answers.  *)
(*                                                                         *)
(* Qdk, for every number of clients, of runs, of retries and of polls: a   *)
(* run puts at most one circuit for each of its attempts on the device,    *)
(* and the counts it returns are those of its own circuit.                 *)
(*                                                                         *)
(* Translation, for circuits of every length, with every angle: the        *)
(* hardware is given its own gates only, at angles within its range; and   *)
(* every measurement of a circuit that went to TKET comes back in place.   *)
(***************************************************************************)
EXTENDS Qdk, Translation, InductionFacts

-----------------------------------------------------------------------------
(* The requests of a run: Qdk.                                             *)

Keys == [client : Clients, call : Nat, attempt : Nat]
Key(r) == [client |-> r.client, call |-> r.call, attempt |-> r.attempt]
Messages == [client : Clients, call : Nat, kind : Requests, attempt : Nat, id : Nat]
Attempts == 0..HTTP_NUM_RETRIES

\* The types the argument needs, and no id before the submission's answer.
Types ==
    /\ call \in [Clients -> Nat]
    /\ stage \in [Clients -> Requests \cup Ends]
    /\ retry_count \in [Clients -> Attempts]
    /\ circuit_id \in [Clients -> Nat]
    /\ network \subseteq Messages
    /\ jobs \in Seq(Keys)

NoIdYet ==
    \A c \in Clients : stage[c] \in {"reserve", "gates", "submit"} => circuit_id[c] = NoId

\* The submission with key x has been sent.
Known(x) ==
    /\ x.attempt \in Attempts
    /\ x.call <= call[x.client]
    /\ x.call = call[x.client] =>
        /\ stage[x.client] \notin {"reserve", "gates"}
        /\ stage[x.client] = "submit" => x.attempt <= retry_count[x.client]

\* A submission on its way is not on the device as well.
Travelling ==
    \A r \in network : r.kind = "submit" =>
        /\ r.id = NoId
        /\ Known(Key(r))
        /\ \A i \in DOMAIN jobs : jobs[i] # Key(r)

Accepted ==
    /\ \A i \in DOMAIN jobs : Known(jobs[i])
    /\ \A i, j \in DOMAIN jobs : jobs[i] = jobs[j] => i = j

Inv == Types /\ NoIdYet /\ Travelling /\ Accepted

\* The step of client c to another stage, whatever makes it: at most one
\* request is new, and a submission only follows the native gates query.
Moves(c, next, others) ==
    /\ stage' = [stage EXCEPT ![c] = next]
    /\ retry_count' = [retry_count EXCEPT ![c] = 0]
    /\ call' = call
    /\ circuit_id' \in [Clients -> Nat]
    /\ \A d \in Clients \ {c} : circuit_id'[d] = circuit_id[d]
    /\ next \in Requests \cup Ends
    /\ next # "reserve"
    /\ next = "gates" => stage[c] = "reserve" /\ circuit_id'[c] = circuit_id[c]
    /\ next = "submit" => stage[c] = "gates" /\ circuit_id'[c] = circuit_id[c]
    /\ network' = others \cup (IF next \in Requests THEN {Request(c, next, 0)} ELSE {})

----------------------------------------------------------------------------
LEMMA InitInv == Init => Inv
  <1> SUFFICES ASSUME Init PROVE Inv
    OBVIOUS
  <1>1. Types
    BY RetriesAssumption DEF Init, Types, Ends, Attempts, NoId
  <1>2. NoIdYet /\ Travelling /\ Accepted
    BY DEF Init, NoIdYet, Travelling, Accepted, NoId
  <1> QED
    BY <1>1, <1>2 DEF Inv

\* What every step has in common: requests of others stay, the new ones are
\* not known yet, and a circuit is accepted when its submission arrives.
LEMMA StepKeepsCopies ==
  ASSUME Inv, Types',
         NEW others \in SUBSET network,
         NEW new \in SUBSET Messages,
         network' \subseteq others \cup new,
         \A x \in Keys : Known(x) => Known(x)',
         \A r \in new : r.kind = "submit" =>
             r.id = NoId /\ Known(Key(r))' /\ ~Known(Key(r)),
         \/ jobs' = jobs
         \/ \E r \in network \ others : r.kind = "submit" /\ jobs' = Append(jobs, Key(r))
  PROVE  Travelling' /\ Accepted'
  <1> USE DEF Inv
  <1>k. \A r \in Messages : Key(r) \in Keys
    BY DEF Messages, Keys, Key
  <1>j. \A i \in DOMAIN jobs : jobs[i] \in Keys
    BY DEF Types
  <1>d. DOMAIN jobs = 1..Len(jobs) /\ Len(jobs) \in Nat
    BY DEF Types
  <1>1. CASE jobs' = jobs
    <2>1. Accepted'
      BY <1>1, <1>j DEF Accepted
    <2>2. ASSUME NEW r \in network', r.kind = "submit"
          PROVE  r.id = NoId /\ Known(Key(r))' /\ \A i \in DOMAIN jobs' : jobs'[i] # Key(r)
      <3>1. CASE r \in others
        BY <3>1, <2>2, <1>1, <1>k DEF Travelling, Types
      <3>2. CASE r \in new
        BY <3>2, <2>2, <1>1 DEF Accepted
      <3> QED
        BY <3>1, <3>2
    <2> QED
      BY <2>1, <2>2 DEF Travelling
  <1>2. ASSUME NEW s \in network \ others, s.kind = "submit", jobs' = Append(jobs, Key(s))
        PROVE  Travelling' /\ Accepted'
    <2>1. s \in Messages /\ Key(s) \in Keys /\ Known(Key(s)) /\ s.id = NoId
      BY <1>2, <1>k DEF Travelling, Types
    <2>2. /\ DOMAIN jobs' = 1..(Len(jobs) + 1)
          /\ \A i \in DOMAIN jobs : jobs'[i] = jobs[i]
          /\ jobs'[Len(jobs) + 1] = Key(s)
      BY <1>2, <2>1 DEF Types
    <2>3. \A i \in DOMAIN jobs' : i \in DOMAIN jobs \/ i = Len(jobs) + 1
      BY <2>2, <1>d
    <2>4. \A i \in DOMAIN jobs : jobs[i] # Key(s)
      BY <1>2 DEF Travelling
    <2>5. Accepted'
      <3>1. (\A i \in DOMAIN jobs : Known(jobs[i]))'
        BY <2>1, <2>2, <2>3, <1>j DEF Accepted
      <3>2. \A i, j \in DOMAIN jobs' : jobs'[i] = jobs'[j] => i = j
        BY <2>2, <2>3, <2>4 DEF Accepted
      <3> QED
        BY <3>1, <3>2 DEF Accepted
    <2>6. ASSUME NEW r \in network', r.kind = "submit"
          PROVE  r.id = NoId /\ Known(Key(r))' /\ \A i \in DOMAIN jobs' : jobs'[i] # Key(r)
      <3>1. CASE r \in others
        <4>1. r \in Messages /\ r.id = NoId /\ Known(Key(r)) /\ \A i \in DOMAIN jobs : jobs[i] # Key(r)
          BY <3>1, <2>6 DEF Travelling, Types
        <4>2. Known(Key(r))'
          BY <4>1, <1>k
        <4>3. r # s
          BY <3>1
        <4>4. Key(r) # Key(s)
          BY <4>1, <4>3, <2>1, <2>6, <1>2 DEF Messages, Key
        <4> QED
          BY <4>1, <4>2, <4>4, <2>2, <2>3
      <3>2. CASE r \in new
        <4>1. r.id = NoId /\ Known(Key(r))' /\ ~Known(Key(r))
          BY <3>2, <2>6
        <4> QED
          BY <4>1, <2>1, <2>2, <2>3 DEF Accepted
      <3> QED
        BY <3>1, <3>2
    <2> QED
      BY <2>5, <2>6 DEF Travelling
  <1> QED
    BY <1>1, <1>2

LEMMA MovesKeeps ==
  ASSUME Inv, NEW c \in Clients, NEW next, NEW others \in SUBSET network,
         Moves(c, next, others),
         jobs' \in Seq(Keys),
         \/ jobs' = jobs
         \/ \E r \in network \ others : r.kind = "submit" /\ jobs' = Append(jobs, Key(r))
  PROVE  Inv'
  <1> USE DEF Inv
  <1> DEFINE new == IF next \in Requests THEN {Request(c, next, 0)} ELSE {}
  <1>1. new \in SUBSET Messages
    BY DEF Moves, Request, Messages, Types
  <1>2. Types'
    BY <1>1, RetriesAssumption DEF Moves, Types, Attempts
  <1>3. NoIdYet'
    BY DEF Moves, NoIdYet, Types
  <1>4. ASSUME NEW x \in Keys, Known(x) PROVE Known(x)'
    BY <1>4 DEF Known, Moves, Types, Keys, Requests, Ends
  <1>5. ASSUME NEW r \in new, r.kind = "submit"
        PROVE  r.id = NoId /\ Known(Key(r))' /\ ~Known(Key(r))
    <2>1. r = Request(c, "submit", 0) /\ next = "submit"
      BY <1>5 DEF Request
    <2>2. circuit_id'[c] = NoId /\ stage[c] = "gates"
      BY <2>1 DEF Moves, NoIdYet
    <2>3. Key(r) = [client |-> c, call |-> call[c], attempt |-> 0] /\ r.id = NoId
      BY <2>1, <2>2 DEF Request, Key, Moves
    <2> QED
      BY <2>1, <2>2, <2>3, RetriesAssumption DEF Known, Moves, Types, Attempts
  <1>6. network' = others \cup new
    BY DEF Moves
  <1>7. Travelling' /\ Accepted'
    <2> HIDE DEF new
    <2> QED
      BY <1>1, <1>2, <1>4, <1>5, <1>6, StepKeepsCopies
  <1> QED
    BY <1>2, <1>3, <1>7

LEMMA BeginKeeps ==
  ASSUME Inv, NEW c \in Clients, Begin(c)
  PROVE  Inv'
  <1> USE DEF Inv
  <1> DEFINE next == FirstRequest(mode[c])
             new == IF next \in Requests THEN {Request(c, next, 0)} ELSE {}
  <1>1. next \in {"reserve", "gates", "returned"}
    BY DEF FirstRequest
  <1>2. /\ call' = [call EXCEPT ![c] = call[c] + 1]
        /\ circuit_id' = [circuit_id EXCEPT ![c] = NoId]
        /\ stage' = [stage EXCEPT ![c] = next]
        /\ retry_count' = [retry_count EXCEPT ![c] = 0]
        /\ network' = network \cup new
        /\ jobs' = jobs
    BY DEF Begin, GoTo, device
  <1> HIDE DEF next
  <1>3. new \in SUBSET Messages
    BY <1>1, <1>2 DEF Request, Messages, Types, Requests, NoId
  <1>4. Types'
    BY <1>1, <1>2, <1>3, RetriesAssumption DEF Types, Attempts, NoId, Requests, Ends
  <1>5. NoIdYet'
    BY <1>2 DEF NoIdYet, Types
  <1>6. ASSUME NEW x \in Keys, Known(x) PROVE Known(x)'
    BY <1>6, <1>2 DEF Known, Types, Keys
  <1>7. ASSUME NEW r \in new, r.kind = "submit" PROVE FALSE
    BY <1>7, <1>1 DEF Request
  <1>8. Travelling' /\ Accepted'
    <2> HIDE DEF new
    <2> QED
      BY <1>2, <1>3, <1>4, <1>6, <1>7, StepKeepsCopies
  <1> QED
    BY <1>4, <1>5, <1>8

LEMMA RepeatKeeps ==
  ASSUME Inv, NEW c \in Clients, Repeat(c)
  PROVE  Inv'
  <1> USE DEF Inv
  <1> DEFINE new == {Request(c, stage[c], retry_count'[c])}
  <1>1. /\ call' = call /\ circuit_id' = circuit_id /\ stage' = stage /\ jobs' = jobs
        /\ retry_count' = [retry_count EXCEPT ![c] = retry_count[c] + 1]
        /\ network' = Late(c) \cup new
        /\ stage[c] \in Requests
        /\ retry_count[c] < HTTP_NUM_RETRIES
    BY DEF Repeat, device, RepeatLimit
  <1>2. retry_count[c] \in Attempts /\ retry_count'[c] = retry_count[c] + 1
    BY <1>1 DEF Types
  <1>3. retry_count'[c] \in Attempts /\ retry_count'[c] \in Nat
    BY <1>1, <1>2, RetriesAssumption DEF Attempts
  <1>4. new \in SUBSET Messages
    BY <1>1, <1>3 DEF Request, Messages, Types
  <1>5. Late(c) \in SUBSET network
    BY DEF Late
  <1>6. Types'
    BY <1>1, <1>3, <1>4, <1>5 DEF Types
  <1>7. NoIdYet'
    BY <1>1 DEF NoIdYet
  <1>8. ASSUME NEW x \in Keys, Known(x) PROVE Known(x)'
    BY <1>8, <1>1, RetriesAssumption DEF Known, Types, Keys, Attempts
  <1>9. ASSUME NEW r \in new, r.kind = "submit"
        PROVE  r.id = NoId /\ Known(Key(r))' /\ ~Known(Key(r))
    <2>1. stage[c] = "submit"
      BY <1>9 DEF Request
    <2>2. Key(r) = [client |-> c, call |-> call[c], attempt |-> retry_count[c] + 1] /\ r.id = NoId
      BY <1>9, <1>1, <1>2, <2>1 DEF Request, Key, NoIdYet
    <2> QED
      BY <2>1, <2>2, <1>1, <1>2, <1>3, RetriesAssumption DEF Known, Types, Attempts
  <1>10. Travelling' /\ Accepted'
    <2> HIDE DEF new
    <2> QED
      BY <1>1, <1>4, <1>5, <1>6, <1>8, <1>9, StepKeepsCopies
  <1> QED
    BY <1>6, <1>7, <1>10

\* Every answer, and giving up, moves the client that gets it.
LEMMA ReceiveMoves ==
  ASSUME Inv, NEW c \in Clients, NEW reply, reply.id \in Nat, Receive(c, reply)
  PROVE  \E next : Moves(c, next, Others(c))
  <1> USE DEF Inv
  <1>0. circuit_id \in [Clients -> Nat] /\ stage[c] \in Requests \cup Ends
    BY DEF Types
  <1>1. CASE Refused(c, reply)
    BY <1>0, <1>1 DEF Refused, Unwind, GoTo, Moves, Ends, Requests
  <1>2. CASE Unreadable(c, reply)
    BY <1>0, <1>2 DEF Unreadable, GoTo, Moves, Ends, Requests
  <1>3. CASE SetUp(c, reply)
    <2>1. CASE stage[c] = "reserve"
      <3>1. Following(stage[c], mode[c]) \in {"gates", "returned"}
        BY <2>1 DEF Following
      <3> QED
        BY <1>0, <1>3, <2>1, <3>1 DEF SetUp, GoTo, Moves, Ends, Requests
    <2>2. CASE stage[c] = "gates"
      <3>1. Following(stage[c], mode[c]) = "submit"
        BY <2>2 DEF Following
      <3> QED
        BY <1>0, <1>3, <2>2, <3>1 DEF SetUp, GoTo, Moves, Ends, Requests
    <2> QED
      BY <1>3, <2>1, <2>2 DEF SetUp
  <1>4. CASE Submitted(c, reply)
    <2>1. Following("submit", mode[c]) \in {"poll", "returned"}
      BY DEF Following
    <2> QED
      BY <1>0, <1>4, <2>1 DEF Submitted, GoTo, Moves, Ends, Requests
  <1>5. CASE Ready(c, reply)
    <2>1. Following("poll", mode[c]) = "returned"
      BY DEF Following
    <2> QED
      BY <1>0, <1>5, <2>1 DEF Ready, GoTo, Moves, Ends, Requests
  <1>6. CASE NotReady(c, reply)
    <2> DEFINE next == IF polls[c] + 1 < poll_retries THEN "poll" ELSE "returned"
    <2>1. next \in {"poll", "returned"}
      OBVIOUS
    <2>2. GoTo(c, next, Others(c)) /\ UNCHANGED << call, circuit_id >>
      BY <1>6 DEF NotReady
    <2> HIDE DEF next
    <2> QED
      BY <1>0, <2>1, <2>2 DEF GoTo, Moves, Ends, Requests
  <1> QED
    BY <1>1, <1>2, <1>3, <1>4, <1>5, <1>6 DEF Receive

LEMMA AnswerKeeps ==
  ASSUME Inv, NEW r \in network, NEW status, NEW id \in Nat, NEW data,
         Answer(r, status, id, data),
         jobs' \in Seq(Keys),
         jobs' = jobs \/ (r.kind = "submit" /\ jobs' = Append(jobs, Key(r)))
  PROVE  Inv'
  <1> USE DEF Inv
  <1>0. r \in Messages /\ r.client \in Clients
    BY DEF Types, Messages
  <1>1. CASE Awaited(r.client) = r /\ Receive(r.client, [status |-> status, id |-> id, data |-> data])
    <2>1. PICK next : Moves(r.client, next, Others(r.client))
      BY <1>0, <1>1, ReceiveMoves
    <2>2. Others(r.client) \in SUBSET network /\ r \in network \ Others(r.client)
      BY <1>1 DEF Others
    <2> QED
      BY <1>0, <2>1, <2>2, MovesKeeps
  <1>2. CASE network' = network \ {r} /\ UNCHANGED client
    <2>1. call' = call /\ stage' = stage /\ retry_count' = retry_count /\ circuit_id' = circuit_id
      BY <1>2 DEF client
    <2>2. Types' /\ NoIdYet'
      BY <1>2, <2>1 DEF Types, NoIdYet
    <2>3. \A x \in Keys : Known(x) => Known(x)'
      BY <2>1 DEF Known
    <2>4. Travelling' /\ Accepted'
      <3> DEFINE others == network \ {r}
      <3>1. others \in SUBSET network /\ {} \in SUBSET Messages /\ network' \subseteq others \cup {}
        BY <1>2
      <3>2. \A s \in {} : s.kind = "submit" => s.id = NoId /\ Known(Key(s))' /\ ~Known(Key(s))
        OBVIOUS
      <3>3. jobs' = jobs \/ \E s \in network \ others : s.kind = "submit" /\ jobs' = Append(jobs, Key(s))
        OBVIOUS
      <3>4. Types'
        BY <2>2
      <3> HIDE DEF others
      <3> DEFINE none == {}
      <3>5. none \in SUBSET Messages /\ network' \subseteq others \cup none
            /\ \A s \in none : s.kind = "submit" => s.id = NoId /\ Known(Key(s))' /\ ~Known(Key(s))
        BY <3>1
      <3> HIDE DEF none
      <3> QED
        BY <2>3, <3>1, <3>3, <3>4, <3>5, StepKeepsCopies
    <2> QED
      BY <2>2, <2>4
  <1> QED
    BY <1>1, <1>2 DEF Answer

LEMMA NextKeeps == Inv /\ [Next]_vars => Inv'
  <1> SUFFICES ASSUME Inv, [Next]_vars PROVE Inv'
    OBVIOUS
  <1>0. jobs \in Seq(Keys) /\ \A r \in network : r \in Messages
    BY DEF Inv, Types
  <1>1. ASSUME NEW c \in Clients, Begin(c) PROVE Inv'
    BY <1>1, BeginKeeps
  <1>2. ASSUME NEW c \in Clients, Repeat(c) PROVE Inv'
    BY <1>2, RepeatKeeps
  <1>3. ASSUME NEW c \in Clients, GiveUp(c) PROVE Inv'
    <2>1. jobs' = jobs /\ circuit_id' = circuit_id /\ call' = call /\ GoTo(c, "threw", Late(c))
      BY <1>3 DEF GiveUp, Unwind, device
    <2>2. Moves(c, "threw", Late(c))
      BY <2>1 DEF Moves, GoTo, Ends, Requests, Inv, Types
    <2>3. Late(c) \in SUBSET network
      BY DEF Late
    <2> QED
      BY <1>0, <2>1, <2>2, <2>3, MovesKeeps
  <1>a. ASSUME NEW r \in network, NEW status, NEW data, jobs' = jobs, Answer(r, status, NoId, data)
        PROVE  Inv'
    <2>1. NoId \in Nat
      BY DEF NoId
    <2>2. jobs' \in Seq(Keys)
      BY <1>0, <1>a
    <2>3. jobs' = jobs \/ (r.kind = "submit" /\ jobs' = Append(jobs, Key(r)))
      BY <1>a
    <2>4. Answer(r, status, NoId, data)
      BY <1>a
    <2> QED
      BY <2>1, <2>2, <2>3, <2>4, AnswerKeeps
  <1>4. ASSUME NEW r \in network, Fails(r) PROVE Inv'
    <2>1. jobs' = jobs /\ \E status : Answer(r, status, NoId, 0)
      BY <1>4 DEF Fails, device
    <2> QED
      BY <2>1, <1>a
  <1>5. ASSUME NEW r \in network, Reserve(r) PROVE Inv'
    <2>1. jobs' = jobs /\ \E status : Answer(r, status, NoId, 0)
      BY <1>5 DEF Reserve
    <2> QED
      BY <2>1, <1>a
  <1>6. ASSUME NEW r \in network, NativeGates(r) PROVE Inv'
    BY <1>6, <1>a DEF NativeGates, device
  <1>7. ASSUME NEW r \in network, Accept(r) PROVE Inv'
    <2>1. CASE holder \in {None, r.client}
      <3>1. /\ r.kind = "submit"
            /\ jobs' = Append(jobs, Key(r))
            /\ Answer(r, "ok", Len(jobs) + 1, 0)
        BY <1>7, <2>1 DEF Accept, Key
      <3>2. Key(r) \in Keys /\ Len(jobs) + 1 \in Nat
        BY <1>0 DEF Messages, Key, Keys
      <3>3. jobs' \in Seq(Keys)
        BY <1>0, <3>1, <3>2
      <3> QED
        BY <3>1, <3>2, <3>3, AnswerKeeps
    <2>2. CASE holder \notin {None, r.client}
      BY <1>7, <2>2, <1>a DEF Accept
    <2> QED
      BY <2>1, <2>2
  <1>8. ASSUME NEW r \in network, Results(r) PROVE Inv'
    <2>1. r.id \in Nat /\ jobs' = jobs
      BY <1>0, <1>8 DEF Messages, Results, device
    <2>2. PICK status, data : Answer(r, status, r.id, data)
      BY <1>8 DEF Results
    <2>3. r.id \in Nat
      BY <2>1
    <2>4. jobs' \in Seq(Keys)
      BY <1>0, <2>1
    <2>5. jobs' = jobs \/ (r.kind = "submit" /\ jobs' = Append(jobs, Key(r)))
      BY <2>1
    <2> QED
      BY <2>2, <2>3, <2>4, <2>5, AnswerKeeps
  <1>9. CASE RunCircuit \/ UNCHANGED vars
    BY <1>9 DEF RunCircuit, vars, client, device, Inv, Types, NoIdYet, Travelling, Accepted, Known
  <1> QED
    BY <1>1, <1>2, <1>3, <1>4, <1>5, <1>6, <1>7, <1>8, <1>9 DEF Next, Device, TimeOut

LEMMA InvBoundsCopies == Inv => CopiesBounded
  <1> SUFFICES ASSUME Inv, NEW c \in Clients, NEW k \in 1..call[c]
               PROVE  Cardinality(Copies(c, k)) <= HTTP_NUM_RETRIES + 1
    BY DEF CopiesBounded
  <1> DEFINE f == [i \in Copies(c, k) |-> jobs[i].attempt]
  <1>1. \A i \in Copies(c, k) : i \in DOMAIN jobs /\ jobs[i] \in Keys /\ jobs[i].client = c
                                /\ jobs[i].call = k /\ jobs[i].attempt \in Attempts
    BY DEF Copies, Inv, Types, Accepted, Known
  <1>2. \A i, j \in Copies(c, k) : jobs[i].attempt = jobs[j].attempt => jobs[i] = jobs[j]
    BY <1>1 DEF Keys
  <1>3. f \in Injection(Copies(c, k), Attempts)
    BY <1>1, <1>2 DEF Injection, IsInjective, Inv, Accepted
  <1>4. IsFiniteSet(Attempts) /\ Cardinality(Attempts) = HTTP_NUM_RETRIES + 1
    BY RetriesAssumption, FS_Interval DEF Attempts
  <1> QED
    BY <1>3, <1>4, FS_Injection

\* The inductive invariant: submissions on their way and circuits accepted are
\* distinct attempts of what their client has sent.
THEOREM QdkInvariance == Spec => []Inv
  <1> QED
    BY InitInv, NextKeeps, PTL DEF Spec

\* For every number of clients, runs, retries and polls, and however requests
\* are lost, delayed and repeated, a run leaves at most HTTP_NUM_RETRIES + 1
\* circuits on the device.
THEOREM CopiesAreBounded == Spec => []CopiesBounded
  <1> QED
    BY QdkInvariance, InvBoundsCopies, PTL

----------------------------------------------------------------------------
(* The id that is polled is that of a circuit of the client's present run.   *)

OwnJob(c, id) == id \in 1..Len(jobs) /\ jobs[id].client = c /\ jobs[id].call = call[c]
OwnResults(c) ==
    /\ circuit_id[c] # NoId => OwnJob(c, circuit_id[c])
    /\ stage[c] = "poll" => circuit_id[c] # NoId
    /\ counts[c] # NoCounts =>
        OwnJob(c, counts[c].id) /\ counts[c].id <= ran /\ counts[c].tally <= shots

CountsInv ==
    /\ counts \in [Clients -> [id : Nat, tally : Nat]]
    /\ ran \in 0..Len(jobs)
    /\ \A c \in Clients : OwnResults(c)

Grows == jobs' = jobs \/ \E x \in Keys : jobs' = Append(jobs, x)

LEMMA OwnJobStays ==
  ASSUME Inv, Grows, NEW c \in Clients, NEW id, OwnJob(c, id), call'[c] = call[c]
  PROVE  OwnJob(c, id)'
  <1>1. jobs \in Seq(Keys)
    BY DEF Inv, Types
  <1>2. CASE jobs' = jobs
    BY <1>2 DEF OwnJob
  <1>3. ASSUME NEW x \in Keys, jobs' = Append(jobs, x) PROVE OwnJob(c, id)'
    <2>1. Len(jobs') = Len(jobs) + 1 /\ \A i \in 1..Len(jobs) : jobs'[i] = jobs[i]
      BY <1>1, <1>3
    <2>2. id \in 1..Len(jobs') /\ jobs'[id] = jobs[id]
      BY <1>1, <2>1 DEF OwnJob
    <2> QED
      BY <2>2 DEF OwnJob
  <1> QED
    BY <1>2, <1>3 DEF Grows

\* A client whose run goes on and gets no answer keeps what it has.
LEMMA OwnResultsStay ==
  ASSUME Inv, CountsInv, Grows, NEW c \in Clients,
         call'[c] = call[c], circuit_id'[c] = circuit_id[c], counts'[c] = counts[c],
         stage'[c] = "poll" => stage[c] = "poll",
         ran' \in Nat, ran <= ran'
  PROVE  OwnResults(c)'
  <1>1. OwnResults(c) /\ ran \in Nat
    BY DEF CountsInv
  <1>2. circuit_id'[c] # NoId => OwnJob(c, circuit_id[c])'
    BY <1>1, OwnJobStays DEF OwnResults
  <1>3. counts'[c] # NoCounts =>
            OwnJob(c, counts[c].id)' /\ counts[c].id <= ran' /\ counts[c].tally <= shots
    <2>1. counts[c] # NoCounts => OwnJob(c, counts[c].id)'
      BY <1>1, OwnJobStays DEF OwnResults
    <2>2. counts[c].id \in Nat
      BY DEF CountsInv
    <2> QED
      BY <1>1, <2>1, <2>2 DEF OwnResults
  <1> QED
    BY <1>1, <1>2, <1>3 DEF OwnResults, OwnJob

\* What the answer to client c's request must be like: an id is that of a
\* circuit of this run, results are of a circuit that was run.
Truthful(c, reply) ==
    reply.status = "ok" =>
        /\ stage[c] = "submit" =>
            /\ reply.id \in 1..Len(jobs')
            /\ jobs'[reply.id].client = c
            /\ jobs'[reply.id].call = call[c]
        /\ stage[c] = "poll" => circuit_id[c] <= ran /\ reply.data \in Nat

LEMMA ReceiveKeepsOwn ==
  ASSUME Inv, CountsInv, Grows, NEW c \in Clients, NEW reply,
         Receive(c, reply), Truthful(c, reply), jobs' \in Seq(Keys), ran' = ran
  PROVE  CountsInv'
  <1>0. /\ call \in [Clients -> Nat] /\ circuit_id \in [Clients -> Nat]
        /\ counts \in [Clients -> [id : Nat, tally : Nat]]
        /\ stage \in [Clients -> Requests \cup Ends]
        /\ ran \in Nat /\ OwnResults(c)
    BY DEF Inv, Types, CountsInv
  <1>1. ran' \in 0..Len(jobs')
    <2>1. ran \in 0..Len(jobs) /\ jobs \in Seq(Keys)
      BY DEF Inv, Types, CountsInv
    <2> QED
      BY <2>1 DEF Grows
  <1>2. ASSUME NEW next, GoTo(c, next, Others(c)), UNCHANGED << call, circuit_id, counts >>,
               next = "poll" => stage[c] = "poll"
        PROVE  CountsInv'
    <2>1. ASSUME NEW d \in Clients PROVE OwnResults(d)'
      <3>1. stage'[d] = "poll" => stage[d] = "poll"
        BY <1>0, <1>2 DEF GoTo
      <3> QED
        BY <1>0, <1>2, <3>1, OwnResultsStay
    <2> QED
      BY <1>0, <1>1, <1>2, <2>1 DEF CountsInv
  <1>3. CASE Refused(c, reply)
    BY <1>2, <1>3 DEF Refused, Unwind
  <1>4. CASE Unreadable(c, reply)
    BY <1>2, <1>4 DEF Unreadable
  <1>5. CASE SetUp(c, reply)
    <2>1. Following(stage[c], mode[c]) # "poll"
      BY <1>5 DEF SetUp, Following
    <2> QED
      BY <1>2, <1>5, <2>1 DEF SetUp
  <1>6. CASE NotReady(c, reply)
    BY <1>2, <1>6 DEF NotReady
  <1>7. CASE Submitted(c, reply)
    <2>1. /\ circuit_id' = [circuit_id EXCEPT ![c] = reply.id]
          /\ stage' = [stage EXCEPT ![c] = Following("submit", mode[c])]
          /\ UNCHANGED << call, counts >>
      BY <1>7 DEF Submitted, GoTo
    <2>2. ASSUME NEW d \in Clients \ {c} PROVE OwnResults(d)'
      <3>1. circuit_id'[d] = circuit_id[d] /\ stage'[d] = stage[d]
        BY <1>0, <2>1
      <3> QED
        BY <1>0, <2>1, <3>1, OwnResultsStay
    <2>3. circuit_id'[c] = reply.id /\ OwnJob(c, reply.id)' /\ reply.id # NoId
      BY <1>0, <1>7, <2>1 DEF Submitted, Truthful, OwnJob, NoId
    <2>4. counts'[c] # NoCounts =>
              OwnJob(c, counts[c].id)' /\ counts[c].id <= ran' /\ counts[c].tally <= shots
      BY <1>0, <2>1, OwnJobStays DEF OwnResults
    <2>5. OwnResults(c)'
      BY <2>1, <2>3, <2>4 DEF OwnResults, OwnJob
    <2> QED
      BY <1>0, <1>1, <2>1, <2>2, <2>5 DEF CountsInv
  <1>8. CASE Ready(c, reply)
    <2> DEFINE found == [id |-> circuit_id[c], tally |-> Tally(reply.data)]
    <2>1. /\ counts' = [counts EXCEPT ![c] = found]
          /\ stage' = [stage EXCEPT ![c] = "returned"]
          /\ stage[c] = "poll" /\ reply.status = "ok"
          /\ UNCHANGED << call, circuit_id >>
      BY <1>8 DEF Ready, GoTo, Following
    <2>2. ASSUME NEW d \in Clients \ {c} PROVE OwnResults(d)'
      <3>1. counts'[d] = counts[d] /\ stage'[d] = stage[d]
        BY <1>0, <2>1
      <3> QED
        BY <1>0, <2>1, <3>1, OwnResultsStay
    <2>3. Tally(reply.data) \in Nat /\ Tally(reply.data) <= shots
      BY <2>1, ShotsAssumption DEF Truthful, Tally
    <2>4. circuit_id[c] # NoId /\ circuit_id[c] <= ran /\ OwnJob(c, circuit_id[c])'
      BY <1>0, <2>1, OwnJobStays DEF OwnResults, Truthful
    <2>5. counts'[c] = found /\ stage'[c] = "returned" /\ circuit_id'[c] = circuit_id[c]
      BY <1>0, <2>1
    <2>6. OwnResults(c)'
      BY <2>3, <2>4, <2>5 DEF OwnResults, OwnJob
    <2>7. found \in [id : Nat, tally : Nat]
      BY <1>0, <2>3
    <2> QED
      BY <1>0, <1>1, <2>1, <2>2, <2>6, <2>7 DEF CountsInv
  <1> QED
    BY <1>3, <1>4, <1>5, <1>6, <1>7, <1>8 DEF Receive

\* A request is answered, or its answer is lost.
LEMMA AnswerKeepsOwn ==
  ASSUME Inv, CountsInv, Grows, NEW r \in network, NEW status, NEW id, NEW data,
         Answer(r, status, id, data), jobs' \in Seq(Keys), ran' = ran,
         Awaited(r.client) = r =>
             Truthful(r.client, [status |-> status, id |-> id, data |-> data])
  PROVE  CountsInv'
  <1>0. r.client \in Clients /\ ran \in Nat
    BY DEF Inv, Types, Messages, CountsInv
  <1>1. CASE Awaited(r.client) = r /\ Receive(r.client, [status |-> status, id |-> id, data |-> data])
    BY <1>0, <1>1, ReceiveKeepsOwn
  <1>2. CASE UNCHANGED client
    <2>1. /\ call' = call /\ stage' = stage /\ circuit_id' = circuit_id /\ counts' = counts
      BY <1>2 DEF client
    <2>2. \A c \in Clients : OwnResults(c)'
      BY <1>0, <2>1, OwnResultsStay
    <2>3. ran' \in 0..Len(jobs')
      <3>1. ran \in 0..Len(jobs) /\ jobs \in Seq(Keys)
        BY DEF Inv, Types, CountsInv
      <3> QED
        BY <3>1 DEF Grows
    <2> QED
      BY <2>1, <2>2, <2>3 DEF CountsInv
  <1> QED
    BY <1>1, <1>2 DEF Answer

LEMMA BeginKeepsOwn ==
  ASSUME Inv, CountsInv, NEW c \in Clients, Begin(c)
  PROVE  CountsInv'
  <1>0. /\ call \in [Clients -> Nat] /\ circuit_id \in [Clients -> Nat]
        /\ stage \in [Clients -> Requests \cup Ends]
        /\ ran \in Nat
    BY DEF Inv, Types, CountsInv
  <1>1. /\ call' = [call EXCEPT ![c] = @ + 1]
        /\ circuit_id' = [circuit_id EXCEPT ![c] = NoId]
        /\ counts' = [counts EXCEPT ![c] = NoCounts]
        /\ stage' = [stage EXCEPT ![c] = FirstRequest(mode[c])]
        /\ jobs' = jobs /\ ran' = ran
    BY DEF Begin, GoTo, device
  <1>2. ASSUME NEW d \in Clients \ {c} PROVE OwnResults(d)'
    BY <1>0, <1>1, OwnResultsStay DEF Grows
  <1>3. OwnResults(c)'
    BY <1>0, <1>1 DEF OwnResults, CountsInv, FirstRequest
  <1>4. NoCounts \in [id : Nat, tally : Nat]
    BY DEF NoCounts, NoId
  <1> QED
    BY <1>1, <1>2, <1>3, <1>4 DEF CountsInv

\* Steps that answer nobody.
LEMMA QuietKeepsOwn ==
  ASSUME Inv, CountsInv, UNCHANGED << call, circuit_id, counts, jobs >>,
         \A c \in Clients : stage'[c] = "poll" => stage[c] = "poll",
         ran' \in 0..Len(jobs), ran <= ran'
  PROVE  CountsInv'
  <1>1. \A c \in Clients : OwnResults(c)'
    BY OwnResultsStay DEF Grows
  <1> QED
    BY <1>1 DEF CountsInv

LEMMA NextKeepsOwn == Inv /\ CountsInv /\ [Next]_vars => CountsInv'
  <1> SUFFICES ASSUME Inv, CountsInv, [Next]_vars PROVE CountsInv'
    OBVIOUS
  <1>0. /\ jobs \in Seq(Keys) /\ Len(jobs) \in Nat /\ ran \in 0..Len(jobs)
        /\ stage \in [Clients -> Requests \cup Ends]
        /\ \A r \in network : r \in Messages
    BY DEF Inv, Types, CountsInv
  <1>1. ASSUME NEW c \in Clients, Begin(c) PROVE CountsInv'
    BY <1>1, BeginKeepsOwn
  <1>2. ASSUME NEW c \in Clients, TimeOut(c) PROVE CountsInv'
    <2>1. CASE Repeat(c)
      BY <2>1, <1>0, QuietKeepsOwn DEF Repeat, device
    <2>2. CASE GiveUp(c)
      <3>1. /\ UNCHANGED << call, circuit_id, counts, jobs, ran >>
            /\ stage' = [stage EXCEPT ![c] = "threw"]
        BY <2>2 DEF GiveUp, Unwind, GoTo, device
      <3> QED
        BY <3>1, <1>0, QuietKeepsOwn
    <2> QED
      BY <1>2, <2>1, <2>2 DEF TimeOut
  <1>a. ASSUME NEW r \in network, NEW status, NEW id, NEW data, UNCHANGED << jobs, ran >>,
               Answer(r, status, id, data),
               status = "ok" => r.kind \in {"reserve", "gates"}
        PROVE  CountsInv'
    <2>1. Awaited(r.client) = r => Truthful(r.client, [status |-> status, id |-> id, data |-> data])
      BY <1>a DEF Awaited, Truthful
    <2>2. Grows /\ jobs' \in Seq(Keys)
      BY <1>0, <1>a DEF Grows
    <2> QED
      BY <1>a, <2>1, <2>2, AnswerKeepsOwn
  <1>3. ASSUME NEW r \in network, Fails(r) PROVE CountsInv'
    <2>1. PICK status \in {"error", "garbled", "wait"} : Answer(r, status, NoId, 0)
      BY <1>3 DEF Fails
    <2>2. UNCHANGED << jobs, ran >>
      BY <1>3 DEF Fails, device
    <2>3. status # "ok"
      BY <2>1
    <2> QED
      BY <2>1, <2>2, <2>3, <1>a
  <1>4. ASSUME NEW r \in network, Reserve(r) PROVE CountsInv'
    BY <1>4, <1>a DEF Reserve
  <1>5. ASSUME NEW r \in network, NativeGates(r) PROVE CountsInv'
    BY <1>5, <1>a DEF NativeGates, device
  <1>6. ASSUME NEW r \in network, Accept(r) PROVE CountsInv'
    <2>0. r.kind = "submit" /\ ran' = ran
      BY <1>6 DEF Accept
    <2>1. CASE holder \in {None, r.client}
      <3>1. jobs' = Append(jobs, Key(r)) /\ Answer(r, "ok", Len(jobs) + 1, 0)
        BY <1>6, <2>1 DEF Accept, Key
      <3>2. Key(r) \in Keys
        BY <1>0 DEF Messages, Key, Keys
      <3>3. Grows /\ jobs' \in Seq(Keys)
        BY <1>0, <3>1, <3>2 DEF Grows
      <3>4. Len(jobs) + 1 \in 1..Len(jobs') /\ jobs'[Len(jobs) + 1] = Key(r)
        BY <1>0, <3>1, <3>2
      <3>5. Awaited(r.client) = r =>
                Truthful(r.client, [status |-> "ok", id |-> Len(jobs) + 1, data |-> 0])
        <4> SUFFICES ASSUME Awaited(r.client) = r
                     PROVE  Truthful(r.client, [status |-> "ok", id |-> Len(jobs) + 1, data |-> 0])
          OBVIOUS
        <4>1. stage[r.client] = "submit" /\ call[r.client] = r.call
          BY <2>0 DEF Awaited
        <4> QED
          BY <4>1, <3>4 DEF Truthful, Key
      <3> QED
        BY <2>0, <3>1, <3>3, <3>5, AnswerKeepsOwn
    <2>2. CASE holder \notin {None, r.client}
      BY <1>6, <2>2, <1>a DEF Accept
    <2> QED
      BY <2>1, <2>2
  <1>7. ASSUME NEW r \in network, Results(r) PROVE CountsInv'
    <2>0. r.kind = "poll" /\ UNCHANGED << jobs, ran >>
      BY <1>7 DEF Results, device
    <2>1. CASE r.id <= ran
      <3>1. PICK data \in {shots, shots + 1} : Answer(r, "ok", r.id, data)
        BY <1>7, <2>1 DEF Results
      <3>2. data \in Nat
        BY ShotsAssumption
      <3>3. Awaited(r.client) = r =>
                Truthful(r.client, [status |-> "ok", id |-> r.id, data |-> data])
        BY <2>0, <2>1, <3>2 DEF Awaited, Truthful
      <3>4. Grows /\ jobs' \in Seq(Keys)
        BY <1>0, <2>0 DEF Grows
      <3> QED
        BY <2>0, <3>1, <3>3, <3>4, AnswerKeepsOwn
    <2>2. CASE ~(r.id <= ran)
      BY <1>7, <2>0, <2>2, <1>a DEF Results
    <2> QED
      BY <2>1, <2>2
  <1>8. CASE RunCircuit
    BY <1>0, <1>8, QuietKeepsOwn DEF RunCircuit, client
  <1>9. CASE UNCHANGED vars
    BY <1>0, <1>9, QuietKeepsOwn DEF vars, client, device
  <1> QED
    BY <1>1, <1>2, <1>3, <1>4, <1>5, <1>6, <1>7, <1>8, <1>9 DEF Next, Device

LEMMA InitOwn == Init => CountsInv
  <1> SUFFICES ASSUME Init PROVE CountsInv
    OBVIOUS
  <1>1. NoCounts \in [id : Nat, tally : Nat]
    BY DEF NoCounts, NoId
  <1> QED
    BY <1>1 DEF Init, CountsInv, OwnResults

LEMMA OwnGivesCounts == CountsInv => CountsAreOwn
  BY DEF CountsInv, OwnResults, OwnJob, CountsAreOwn

\* Whatever is lost, delayed, refused or repeated, and whoever else uses the
\* device, the counts a run returns are those of a circuit it submitted itself
\* and the device has run, no more than the shots it asked for.
THEOREM CountsOfOwnCircuit == Spec => []CountsAreOwn
  <1>1. Init => Inv /\ CountsInv
    BY InitInv, InitOwn
  <1>2. Inv /\ CountsInv /\ [Next]_vars => Inv' /\ CountsInv'
    BY NextKeeps, NextKeepsOwn
  <1> QED
    BY <1>1, <1>2, OwnGivesCounts, PTL DEF Spec

-----------------------------------------------------------------------------
(* The circuit a back end is given: Translation.                             *)

-----------------------------------------------------------------------------
(* The hardware's own gates: what each handler of visitor.cpp pushes.        *)

(* norm: a number, within a half turn when angles are restricted.            *)
LEMMA NormType ==
  ASSUME NEW a \in Int, NEW r \in BOOLEAN, NotANumber \notin Int
  PROVE  norm(a, r) \in Int /\ (r => norm(a, r) \in -4 .. 4)
<1>1. a # NotANumber
  OBVIOUS
<1>2. CASE a < 0
  <2>1. Sign(a) = -1
    BY <1>2 DEF Sign
  <2>2. Sign(a - 4) = -1
    BY <1>2 DEF Sign
  <2>3. (-1 * (a - 4)) % 8 \in 0 .. 7
    BY SMT
  <2>4. a + Sign(a) * Pi = a - 4
    BY <2>1 DEF Pi
  <2>5. fmod(a - 4, 8) \in -7 .. 0
    BY <2>2, <2>3 DEF fmod
  <2> QED
    BY <1>1, <2>1, <2>4, <2>5 DEF norm, Pi
<1>3. CASE a >= 0
  <2>1. Sign(a) = 1 /\ Sign(a + 4) = 1
    BY <1>3 DEF Sign
  <2>3. (1 * (a + 4)) % 8 \in 0 .. 7
    BY SMT
  <2>4. a + Sign(a) * Pi = a + 4
    BY <2>1 DEF Pi
  <2>5. fmod(a + 4, 8) \in 0 .. 7
    BY <2>1, <2>3 DEF fmod
  <2> QED
    BY <1>1, <2>1, <2>4, <2>5 DEF norm, Pi
<1> QED
  BY <1>2, <1>3

(* Native gates.                                                             *)
AngleSet(r) == IF r THEN -4 .. 4 ELSE Int
OwnGates(anti, r) ==
  [name : {"I", "Rx", "Ry", IF anti THEN "ACZ" ELSE "CZ"}, on : Seq(Nat),
   angles : {<<>>} \cup {<<a>> : a \in AngleSet(r)}]
Words(anti, r) == Seq(OwnGates(anti, r))

(* Two of them written one behind the other.                                *)
LEMMA Joined ==
  ASSUME NEW anti, NEW r, NEW v \in Words(anti, r), NEW w \in Words(anti, r)
  PROVE  v \o w \in Words(anti, r)
BY ConcatProperties DEF Words

Closed(W) == \A v, w \in W : v \o w \in W

(* And up to five, as the handlers of gates on two qubits need.             *)
LEMMA JoinedMore ==
  ASSUME NEW W, Closed(W), NEW a \in W, NEW b \in W, NEW c \in W
  PROVE  /\ a \o b \o c \in W
         /\ \A d \in W : /\ a \o b \o c \o d \in W
                        /\ \A e \in W : a \o b \o c \o d \o e \in W
<1>1. a \o b \o c \in W
  BY DEF Closed
<1>2. \A d \in W : a \o b \o c \o d \in W
  BY <1>1 DEF Closed
<1> QED
  BY <1>1, <1>2 DEF Closed

(* A turn about x or y is one pulse.                                        *)
LEMMA TurnIsOwn ==
  ASSUME NotANumber \notin Int, NEW anti \in BOOLEAN, NEW r \in BOOLEAN,
         NEW q \in Nat, NEW a \in Int
  PROVE  Rx(q, a, r) \in Words(anti, r) /\ Ry(q, a, r) \in Words(anti, r)
<1> DEFINE b == norm(a, r)
<1>1. b \in AngleSet(r)
  BY NormType DEF AngleSet
<1> HIDE DEF b
<1>2. <<q>> \in Seq(Nat) /\ <<b>> \in {<<x>> : x \in AngleSet(r)}
  BY <1>1
<1>3. \A n \in {"Rx", "Ry"} : [name |-> n, on |-> <<q>>, angles |-> <<b>>] \in OwnGates(anti, r)
  BY <1>2 DEF OwnGates
<1>4. \A n \in {"Rx", "Ry"} : <<[name |-> n, on |-> <<q>>, angles |-> <<b>>]>> \in Words(anti, r)
  BY <1>3 DEF Words
<1> QED
  BY <1>4 DEF Rx, Ry, Gate, b

(* So are the identity, and the gate the hardware has on two qubits.        *)
LEMMA NativePair ==
  ASSUME NEW anti \in BOOLEAN, NEW r \in BOOLEAN, NEW q \in Nat, NEW p \in Nat
  PROVE  /\ <<Gate("I", <<q>>, <<>>)>> \in Words(anti, r)
         /\ Native(IF anti THEN "ACZ" ELSE "CZ", q, p) \in Words(anti, r)
<1>1. <<q>> \in Seq(Nat) /\ <<q, p>> \in Seq(Nat)
  OBVIOUS
<1>2. /\ [name |-> "I", on |-> <<q>>, angles |-> <<>>] \in OwnGates(anti, r)
      /\ [name |-> IF anti THEN "ACZ" ELSE "CZ", on |-> <<q, p>>, angles |-> <<>>] \in OwnGates(anti, r)
  BY <1>1 DEF OwnGates
<1> QED
  BY <1>2 DEF Words, Native, Gate

(* The handlers that push several turns.                                    *)
LEMMA OneQubitWords ==
  ASSUME NotANumber \notin Int, NEW anti \in BOOLEAN, NEW r \in BOOLEAN,
         NEW q \in Nat, NEW a \in Int
  PROVE  /\ Rz(q, a, r) \in Words(anti, r)
         /\ Hadamard(q, r) \in Words(anti, r)
         /\ PauliX(q, r) \in Words(anti, r)
         /\ PauliY(q, r) \in Words(anti, r)
         /\ PauliZ(q, r) \in Words(anti, r)
<1>1. norm(a, r) \in Int /\ Pi \in Int
  BY NormType DEF Pi
<1>2. \A b \in Int : Rx(q, b, r) \in Words(anti, r) /\ Ry(q, b, r) \in Words(anti, r)
  BY TurnIsOwn
<1> QED
  BY <1>1, <1>2, Joined DEF Rz, Hadamard, PauliX, PauliY, PauliZ

(* The quotients of U.                                                       *)
Doubles == [sign : {-1, 1}, order : -30 .. 30, rough : BOOLEAN]

(* How small sine and cosine of a multiple of pi/8 may be.                  *)
LEMMA SinCos ==
  ASSUME NEW k \in Int
  PROVE  /\ sin(k) \in Doubles /\ cos(k) \in Doubles
         /\ cos(k).order \in {0, 1}
         /\ k # 0 => sin(k).order \in {0, 1}
         /\ k = 0 => sin(k).order = 9
<1>1. sin(k) \in Doubles /\ (k # 0 => sin(k).order \in {0, 1}) /\ (k = 0 => sin(k).order = 9)
  BY DEF sin, Sign, Double, Exact, Doubles
<1>2. cos(k) \in Doubles /\ cos(k).order \in {0, 1}
  BY DEF cos, Sign, Double, Doubles
<1> QED
  BY <1>1, <1>2

(* What a double is, but for the size of its order.                          *)
Reals == [sign : {-1, 1}, order : Int, rough : BOOLEAN]

(* Orders of magnitude add and subtract.                                    *)
LEMMA DoubleArithmetic ==
  ASSUME NEW x \in Reals, NEW y \in Reals
  PROVE  /\ Product(x, y) \in Reals /\ Product(x, y).order = x.order + y.order
         /\ Quotient(x, y) \in Reals /\ Quotient(x, y).order = x.order - y.order
         /\ Opposite(x) \in Reals /\ Opposite(x).order = x.order
<1>1. Product(x, y) \in Reals /\ Product(x, y).order = x.order + y.order
  BY DEF Product, Reals
<1>2. Opposite(x) \in Reals /\ Opposite(x).order = x.order
  BY DEF Opposite, Reals
<1> DEFINE z == [y EXCEPT !.order = -@]
<1>3. z \in Reals /\ z.order = -y.order
  BY DEF Reals
<1> HIDE DEF z
<1>4. Product(x, z) \in Reals /\ Product(x, z).order = x.order + z.order
  BY <1>3 DEF Product, Reals
<1>5. Quotient(x, y) = Product(x, z)
  BY DEF Quotient, z
<1>6. x.order + z.order = x.order - y.order
  BY <1>3 DEF Reals
<1> QED
  BY <1>1, <1>2, <1>4, <1>5, <1>6

(* What atan2 and atan take to a number.                                    *)
LEMMA Arctangents ==
  ASSUME NEW x \in Reals, NEW y \in Reals, ~ (Zero(x) /\ Zero(y))
  PROVE  arctan(x, y) \subseteq Int
<1>1. Quotient(x, y) \in Reals
  BY DoubleArithmetic
<1>2. Quotient(x, y).sign \in Int /\ 2 * Quotient(x, y).sign \in Int
  BY <1>1 DEF Reals
<1> QED
  BY <1>2 DEF arctan

(* The angles of U are numbers where no quotient is 0 / 0.                  *)
LEMMA AnglesAreNumbers ==
  ASSUME NotANumber \notin Int, NEW theta \in Int, NEW phi \in Int, NEW lambda \in Int,
         ~ (theta \div 2 = 0 /\ (lambda + phi) \div 2 = 0)
  PROVE  \A a \in Angles(theta, phi, lambda) : a[1] \in Int /\ a[2] \in Int /\ a[3] \in Int
<1> DEFINE half == theta \div 2
           delta == (lambda + phi) \div 2
           deltaPrime == (lambda - phi) \div 2
           tangent == tan(half)
           x1 == Product(sin(deltaPrime), tangent)
           x2 == Opposite(sin(delta))
           y2 == Product(cos(deltaPrime), tangent)
<1>1. half \in Int /\ delta \in Int /\ deltaPrime \in Int
  OBVIOUS
<1>2. ~ (half = 0 /\ delta = 0)
  OBVIOUS
<1> HIDE DEF half, delta, deltaPrime
<1>3. \A k \in Int : sin(k) \in Reals /\ cos(k) \in Reals
  <2>1. Doubles \subseteq Reals
    BY DEF Doubles, Reals
  <2> QED
    BY <2>1, SinCos
<1>4. tangent \in Reals /\ (half # 0 => tangent.order \in -1 .. 1) /\ (half = 0 => tangent.order \in 8 .. 9)
  <2>1. tangent \in Reals /\ tangent.order = sin(half).order - cos(half).order
    BY <1>1, <1>3, DoubleArithmetic DEF tan
  <2> QED
    BY <1>1, <2>1, SinCos
<1> HIDE DEF tangent
<1>5. x1 \in Reals /\ x2 \in Reals /\ y2 \in Reals
  BY <1>1, <1>3, <1>4, DoubleArithmetic
<1>6. ~ Zero(cos(delta))
  BY <1>1, SinCos DEF Zero
<1>7. ~ (Zero(x2) /\ Zero(y2))
  <2>1. CASE delta # 0
    <3>1. x2.order \in {0, 1}
      BY <1>1, <1>3, <2>1, SinCos, DoubleArithmetic
    <3> HIDE DEF x2, y2
    <3> QED
      BY <3>1 DEF Zero
  <2>2. CASE half # 0
    <3>1. y2.order = cos(deltaPrime).order + tangent.order
      BY <1>1, <1>3, <1>4, DoubleArithmetic
    <3>2. y2.order \in -1 .. 2
      <4>1. cos(deltaPrime).order \in {0, 1} /\ tangent.order \in -1 .. 1
        BY <1>1, <1>4, <2>2, SinCos
      <4> HIDE DEF y2
      <4> QED
        BY <3>1, <4>1
    <3> HIDE DEF x2, y2
    <3> QED
      BY <3>2 DEF Zero
  <2> QED
    BY <1>2, <2>1, <2>2
<1>8. arctan(x1, cos(delta)) \subseteq Int /\ arctan(x2, y2) \subseteq Int
  <2> HIDE DEF x1, x2, y2
  <2> QED
    BY <1>1, <1>3, <1>5, <1>6, <1>7, Arctangents
<1>9. \A t \in Int : \A test : Corrected(t, test) \in Int
  <2> TAKE t \in Int
  <2> TAKE test
  <2>1. t - Sign(t) * Pi \in Int
    BY DEF Sign, Pi
  <2> QED
    BY <2>1 DEF Corrected
<1> DEFINE test1 == Product(cos(delta), cos(half))
           test2 == Product(cos(deltaPrime), sin(half))
           term1 == {Corrected(t, test1) : t \in arctan(x1, cos(delta))}
           term2 == {Corrected(t, test2) : t \in arctan(x2, y2)}
<1>10. term1 \subseteq Int /\ term2 \subseteq Int
  <2> HIDE DEF x1, x2, y2, test1, test2
  <2> QED
    BY <1>8, <1>9
<1> DEFINE squared == CosSquared(delta) * CosSquared(half)
                        + SinSquared(deltaPrime) * SinSquared(half)
           beta == IF squared = 0 THEN Pi ELSE IF squared = 4 THEN 0 ELSE 2
           sum(s, t) == IF NotANumber \in {s, t} THEN NotANumber ELSE s + t
           minus(t) == IF t = NotANumber THEN t ELSE -t
<1>11. Angles(theta, phi, lambda) =
         {<<sum(s, t), beta, sum(s, minus(t))>> : s \in term1, t \in term2}
  BY DEF Angles, half, delta, deltaPrime, tangent
<1>12. beta \in Int
  <2> HIDE DEF squared
  <2> QED
    BY DEF Pi
<1> HIDE DEF term1, term2, beta
<1>13. \A s \in term1, t \in term2 : s \in Int /\ t \in Int /\ sum(s, t) \in Int /\ sum(s, minus(t)) \in Int
  BY <1>10
<1> HIDE DEF sum, minus
<1> QED
  BY <1>11, <1>12, <1>13

(* So visitor::visit(U) pushes turns.                                       *)
LEMMA AnyU ==
  ASSUME NotANumber \notin Int, NEW anti \in BOOLEAN, NEW r \in BOOLEAN,
         NEW q \in Nat, NEW theta \in Int, NEW phi \in Int, NEW lambda \in Int,
         theta % 2 = 0, phi % 2 = 0, lambda % 2 = 0,
         ~ (theta = 0 /\ phi + lambda = 0 /\ lambda \notin {0, 2})
  PROVE  U(q, theta, phi, lambda, r) \subseteq Words(anti, r)
<1>1. \A b \in Int : Rx(q, b, r) \in Words(anti, r) /\ Ry(q, b, r) \in Words(anti, r)
  BY TurnIsOwn
<1>2. CASE lambda + phi = 0 /\ lambda = 2
  <2>1. U(q, theta, phi, lambda, r) = {Rx(q, theta, r)}
    BY <1>2 DEF U
  <2> QED
    BY <1>1, <2>1
<1>3. CASE ~ (lambda + phi = 0 /\ lambda = 2) /\ phi = 0 /\ lambda = 0
  <2>1. U(q, theta, phi, lambda, r) = {Ry(q, theta, r)}
    BY <1>3 DEF U
  <2> QED
    BY <1>1, <2>1
<1>4. CASE ~ (lambda + phi = 0 /\ lambda = 2) /\ ~ (phi = 0 /\ lambda = 0)
  <2>1. U(q, theta, phi, lambda, r) =
          {Rx(q, a[1], r) \o Ry(q, a[2], r) \o Rx(q, a[3], r) :
             a \in Angles(theta, phi, lambda)}
    BY <1>4, Zenon DEF U
  <2>2. ~ (theta \div 2 = 0 /\ (lambda + phi) \div 2 = 0)
    <3>1. theta \div 2 = 0 => theta = 0
      OBVIOUS
    <3>2. (lambda + phi) % 2 = 0 /\ lambda + phi \in Int
      OBVIOUS
    <3>3. (lambda + phi) \div 2 = 0 => lambda + phi = 0
      BY <3>2
    <3> QED
      BY <1>4, <3>1, <3>3
  <2>3. \A a \in Angles(theta, phi, lambda) : a[1] \in Int /\ a[2] \in Int /\ a[3] \in Int
    BY <2>2, AnglesAreNumbers
  <2>4. ASSUME NEW a \in Angles(theta, phi, lambda)
        PROVE  Rx(q, a[1], r) \o Ry(q, a[2], r) \o Rx(q, a[3], r) \in Words(anti, r)
    <3>1. /\ Rx(q, a[1], r) \in Words(anti, r) /\ Ry(q, a[2], r) \in Words(anti, r)
          /\ Rx(q, a[3], r) \in Words(anti, r)
      BY <1>1, <2>3
    <3> QED
      BY <3>1, Joined
  <2> QED
    BY <2>1, <2>4
<1> QED
  BY <1>2, <1>3, <1>4

(* The gates on two qubits, by visitor_CZ.cpp                               *)
LEMMA CZWords ==
  ASSUME NotANumber \notin Int, NEW anti \in BOOLEAN, ~ anti, NEW r \in BOOLEAN, NEW c \in Nat, NEW t \in Nat, NEW a \in Int
  PROVE  /\ Native("CZ", c, t) \in Words(anti, r)
         /\ CZ_ACZ(c, t, r) \in Words(anti, r)
         /\ CZ_CNOT(c, t, r) \in Words(anti, r)
         /\ CZ_CPhase(c, t, a, r) \in Words(anti, r)
         /\ CZ_Swap(c, t, r) \in Words(anti, r)
<1> DEFINE W == Words(anti, r)
<1>1. \A q \in Nat, b \in Int : Rx(q, b, r) \in W /\ Ry(q, b, r) \in W
  BY TurnIsOwn
<1>2. Native("CZ", c, t) \in W
  BY NativePair
<1>3. \A q \in Nat : PauliX(q, r) \in W /\ Hadamard(q, r) \in W
  BY OneQubitWords
<1>4. Closed(W)
  BY Joined DEF Closed
<1> HIDE DEF W
<1>5. CZ_ACZ(c, t, r) \in W /\ CZ_CNOT(c, t, r) \in W
  BY <1>2, <1>3, <1>4, JoinedMore DEF CZ_ACZ, CZ_CNOT
<1>6. CZ_Swap(c, t, r) \in W
  <2> DEFINE third == Rx(c, 2, r) \o Rx(t, 2, r) \o Native("CZ", c, t)
  <2>1. third \in W
    BY <1>1, <1>2, <1>4, JoinedMore
  <2>2. CZ_Swap(c, t, r) = third \o third \o third
    BY DEF CZ_Swap
  <2> HIDE DEF third
  <2> QED
    BY <2>1, <2>2, <1>4, JoinedMore
<1>7. CZ_CPhase(c, t, a, r) \in W
  <2> DEFINE lambda == Sign(a) * ((Sign(a) * a) \div 2 - Pi)
             half == -(a \div 2)
  <2>1. lambda \in Int /\ half \in Int /\ Pi \in Int
    BY DEF Sign, Pi
  <2> DEFINE first == Rx(c, 2, r) \o Ry(c, half, r) \o Rx(c, -2, r)
                        \o Ry(t, 2, r) \o Rx(t, Pi, r)
             second == first \o Native("CZ", c, t) \o Rx(t, half, r) \o Native("CZ", c, t)
  <2>2. CZ_CPhase(c, t, a, r) = second \o Rx(t, lambda, r) \o Ry(t, -2, r)
    BY DEF CZ_CPhase
  <2> HIDE DEF lambda, half
  <2>3. \A q \in {c, t} : \A b \in {2, -2, half, lambda, Pi} :
          Rx(q, b, r) \in W /\ Ry(q, b, r) \in W
    BY <1>1, <2>1
  <2>4. first \in W
    <3>1. /\ Rx(c, 2, r) \in W /\ Ry(c, half, r) \in W
          /\ Rx(c, -2, r) \in W /\ Ry(t, 2, r) \in W
          /\ Rx(t, Pi, r) \in W
      BY <2>3
    <3> QED
      BY <3>1, <1>4, JoinedMore
  <2> HIDE DEF first
  <2>5. second \in W
    <3>1. Rx(t, half, r) \in W
      BY <2>3
    <3> QED
      BY <1>2, <2>4, <3>1, <1>4, JoinedMore
  <2> HIDE DEF second
  <2>6. Rx(t, lambda, r) \in W /\ Ry(t, -2, r) \in W
    BY <2>3
  <2> QED
    BY <2>2, <2>5, <2>6, <1>4, JoinedMore
<1> QED
  BY <1>2, <1>5, <1>6, <1>7 DEF W

(* and by visitor_ACZ.cpp.                                                  *)
LEMMA ACZWords ==
  ASSUME NotANumber \notin Int, NEW anti \in BOOLEAN, anti, NEW r \in BOOLEAN, NEW c \in Nat, NEW t \in Nat, NEW a \in Int
  PROVE  /\ Native("ACZ", c, t) \in Words(anti, r)
         /\ ACZ_CZ(c, t, r) \in Words(anti, r)
         /\ ACZ_CNOT(c, t, r) \in Words(anti, r)
         /\ ACZ_CPhase(c, t, a, r) \in Words(anti, r)
         /\ ACZ_Swap(c, t, r) \in Words(anti, r)
<1> DEFINE W == Words(anti, r)
<1>1. \A q \in Nat, b \in Int : Rx(q, b, r) \in W /\ Ry(q, b, r) \in W
  BY TurnIsOwn
<1>2. Native("ACZ", c, t) \in W /\ Native("ACZ", t, c) \in W
  BY NativePair
<1>3. \A q \in Nat : PauliX(q, r) \in W
  BY OneQubitWords
<1>4. Closed(W)
  BY Joined DEF Closed
<1> HIDE DEF W
<1>5. ACZ_CZ(c, t, r) \in W /\ ACZ_CNOT(c, t, r) \in W
  <2>1. Ry(t, 2, r) \in W /\ Ry(t, -2, r) \in W
    BY <1>1
  <2>2. PauliX(c, r) \in W
    BY <1>3
  <2> QED
    BY <1>2, <2>1, <2>2, <1>4, JoinedMore DEF ACZ_CZ, ACZ_CNOT
<1>6. ACZ_Swap(c, t, r) \in W
  <2> DEFINE third(first) == Rx(c, 2, r) \o Rx(t, first, r) \o Native("ACZ", t, c)
  <2>1. \A b \in Int : third(b) \in W
    <3> TAKE b \in Int
    <3>1. Rx(c, 2, r) \in W /\ Rx(t, b, r) \in W
      BY <1>1
    <3> QED
      BY <1>2, <3>1, <1>4, JoinedMore
  <2>2. ACZ_Swap(c, t, r) = third(-2) \o third(2) \o third(2) \o PauliX(t, r)
    BY DEF ACZ_Swap
  <2> HIDE DEF third
  <2>3. third(-2) \in W /\ third(2) \in W /\ PauliX(t, r) \in W
    BY <1>3, <2>1
  <2> QED
    BY <2>2, <2>3, <1>4, JoinedMore
<1>7. ACZ_CPhase(c, t, a, r) \in W
  <2> DEFINE half == a \div 2
             first == Rx(c, 2, r) \o Ry(c, -half, r) \o Rx(c, -2, r) \o Ry(t, 2, r)
             second == first \o Native("ACZ", t, c) \o Rx(t, -half, r) \o Native("ACZ", t, c)
  <2>1. half \in Int /\ -half \in Int
    OBVIOUS
  <2>2. ACZ_CPhase(c, t, a, r) = second \o Rx(t, half, r) \o Ry(t, -2, r)
    BY DEF ACZ_CPhase
  <2> HIDE DEF half
  <2>3. \A q \in {c, t} : \A b \in {2, -2, half, -half} :
          Rx(q, b, r) \in W /\ Ry(q, b, r) \in W
    BY <1>1, <2>1
  <2>4. first \in W
    <3>1. /\ Rx(c, 2, r) \in W /\ Ry(c, -half, r) \in W
          /\ Rx(c, -2, r) \in W /\ Ry(t, 2, r) \in W
      BY <2>3
    <3> QED
      BY <3>1, <1>4, JoinedMore
  <2> HIDE DEF first
  <2>5. second \in W
    <3>1. Rx(t, -half, r) \in W
      BY <2>3
    <3> QED
      BY <1>2, <2>4, <3>1, <1>4, JoinedMore
  <2> HIDE DEF second
  <2>6. Rx(t, half, r) \in W /\ Ry(t, -2, r) \in W
    BY <2>3
  <2> QED
    BY <2>2, <2>5, <2>6, <1>4, JoinedMore
<1> QED
  BY <1>2, <1>5, <1>6, <1>7 DEF W

(* Every handler pushes native gates only.                                   *)
LEMMA HandlersAreNative ==
  ASSUME NotANumber \notin Int, NEW anti \in BOOLEAN, NEW r \in BOOLEAN,
         NEW g, Shaped(g), ~ Undefined(g)
  PROVE  QbPushed(g, anti, r) \subseteq Words(anti, r)
<1> DEFINE c == g.on[1]
           t == g.on[2]
           a == IF g.angles = <<>> THEN 0 ELSE g.angles[1]
<1>1. c \in Nat /\ a \in Int
  <2>1. g.on \in Seq(Nat) /\ g.on # <<>> /\ g.angles \in Seq(Int)
    BY DEF Shaped
  <2> QED
    BY <2>1
<1>2. g.name \in {"CNOT", "CZ", "ACZ", "CPhase", "Swap"} => t \in Nat
  <2>1. g.on \in Seq(Nat) /\ (g.name \in {"CNOT", "CZ", "ACZ", "CPhase", "Swap"} => Len(g.on) = 2)
    BY DEF Shaped
  <2> QED
    BY <2>1
<1>3. g.name = "CPhase" => g.angles[1] \in Int
  <2>1. g.angles \in Seq(Int) /\ (g.name = "CPhase" => Len(g.angles) = 1)
    BY DEF Shaped
  <2> QED
    BY <2>1
<1>4. CASE g.name \in {"CNOT", "CZ", "ACZ", "CPhase", "Swap"}
  <2> HIDE DEF c, t, a
  <2>1. CASE anti
    <3>1. QbPushed(g, anti, r) \in
            {{ACZ_CZ(c, t, r)}, {Native("ACZ", c, t)}, {ACZ_CNOT(c, t, r)},
             {ACZ_CPhase(c, t, g.angles[1], r)}, {ACZ_Swap(c, t, r)}}
      BY <1>4, <2>1 DEF QbPushed, c, t
    <3>2. /\ ACZ_CZ(c, t, r) \in Words(anti, r) /\ Native("ACZ", c, t) \in Words(anti, r)
          /\ ACZ_CNOT(c, t, r) \in Words(anti, r) /\ ACZ_Swap(c, t, r) \in Words(anti, r)
      BY <1>1, <1>2, <1>4, <2>1, ACZWords
    <3>3. g.name = "CPhase" => ACZ_CPhase(c, t, g.angles[1], r) \in Words(anti, r)
      BY <1>1, <1>2, <1>3, <1>4, <2>1, ACZWords
    <3>4. g.name # "CPhase" => QbPushed(g, anti, r) \in
            {{ACZ_CZ(c, t, r)}, {Native("ACZ", c, t)}, {ACZ_CNOT(c, t, r)},
             {ACZ_Swap(c, t, r)}}
      BY <1>4, <2>1 DEF QbPushed, c, t
    <3> QED
      BY <3>1, <3>2, <3>3, <3>4
  <2>2. CASE ~ anti
    <3>1. QbPushed(g, anti, r) \in
            {{CZ_ACZ(c, t, r)}, {Native("CZ", c, t)}, {CZ_CNOT(c, t, r)},
             {CZ_CPhase(c, t, g.angles[1], r)}, {CZ_Swap(c, t, r)}}
      BY <1>4, <2>2 DEF QbPushed, c, t
    <3>2. /\ CZ_ACZ(c, t, r) \in Words(anti, r) /\ Native("CZ", c, t) \in Words(anti, r)
          /\ CZ_CNOT(c, t, r) \in Words(anti, r) /\ CZ_Swap(c, t, r) \in Words(anti, r)
      BY <1>1, <1>2, <1>4, <2>2, CZWords
    <3>3. g.name = "CPhase" => CZ_CPhase(c, t, g.angles[1], r) \in Words(anti, r)
      BY <1>1, <1>2, <1>3, <1>4, <2>2, CZWords
    <3>4. g.name # "CPhase" => QbPushed(g, anti, r) \in
            {{CZ_ACZ(c, t, r)}, {Native("CZ", c, t)}, {CZ_CNOT(c, t, r)},
             {CZ_Swap(c, t, r)}}
      BY <1>4, <2>2 DEF QbPushed, c, t
    <3> QED
      BY <3>1, <3>2, <3>3, <3>4
  <2> QED
    BY <2>1, <2>2
<1>5. CASE g.name \notin {"CNOT", "CZ", "ACZ", "CPhase", "Swap"}
  <2>1. QbPushed(g, anti, r) = QbOneQubit(g, r)
    BY <1>5 DEF QbPushed
  <2>2. CASE g.name = "U"
    <3>1. /\ g.angles \in Seq(Int) /\ Len(g.angles) = 3
          /\ \A k \in DOMAIN g.angles : g.angles[k] % 2 = 0
      BY <2>2 DEF Shaped
    <3>2. /\ a = g.angles[1] /\ g.angles[2] \in Int /\ g.angles[3] \in Int
          /\ g.angles[1] % 2 = 0 /\ g.angles[2] % 2 = 0 /\ g.angles[3] % 2 = 0
      BY <3>1
    <3>3. ~ (a = 0 /\ g.angles[2] + g.angles[3] = 0 /\ g.angles[3] \notin {0, 2})
      BY <2>2, <3>2 DEF Undefined
    <3>4. QbOneQubit(g, r) = U(c, a, g.angles[2], g.angles[3], r)
      BY <2>2 DEF QbOneQubit
    <3> HIDE DEF c, a
    <3>5. U(c, a, g.angles[2], g.angles[3], r) \subseteq Words(anti, r)
      BY <1>1, <3>2, <3>3, AnyU
    <3> QED
      BY <2>1, <3>4, <3>5
  <2>3. CASE g.name # "U"
    <3>1. \A b \in Int : Rx(c, b, r) \in Words(anti, r) /\ Ry(c, b, r) \in Words(anti, r)
                         /\ Rz(c, b, r) \in Words(anti, r)
      BY <1>1, TurnIsOwn, OneQubitWords
    <3>2. <<Gate("I", <<c>>, <<>>)>> \in Words(anti, r) /\ <<>> \in Words(anti, r)
      BY <1>1, NativePair, EmptySeq DEF Words
    <3>3. /\ Hadamard(c, r) \in Words(anti, r) /\ PauliX(c, r) \in Words(anti, r)
          /\ PauliY(c, r) \in Words(anti, r) /\ PauliZ(c, r) \in Words(anti, r)
      BY <1>1, OneQubitWords
    <3>4. Rz(c, 2, r) \in Words(anti, r) /\ Rz(c, -2, r) \in Words(anti, r)
          /\ Rz(c, 1, r) \in Words(anti, r) /\ Rz(c, -1, r) \in Words(anti, r)
      BY <3>1
    <3>5. Rx(c, a, r) \in Words(anti, r) /\ Ry(c, a, r) \in Words(anti, r) /\ Rz(c, a, r) \in Words(anti, r)
      BY <1>1, <3>1
    <3>6. /\ DOMAIN PhaseAngle = {"S", "Sdg", "T", "Tdg"}
          /\ PhaseAngle["S"] = 2 /\ PhaseAngle["Sdg"] = -2
          /\ PhaseAngle["T"] = 1 /\ PhaseAngle["Tdg"] = -1
      BY DEF PhaseAngle
    <3>7. g.name \in DOMAIN PhaseAngle => Rz(c, PhaseAngle[g.name], r) \in Words(anti, r)
      BY <3>4, <3>6
    <3> DEFINE simple == {<<Gate("I", <<c>>, <<>>)>>, <<>>, Hadamard(c, r), PauliX(c, r),
                 PauliY(c, r), PauliZ(c, r), Rx(c, a, r), Ry(c, a, r), Rz(c, a, r)}
    <3>8. \/ \E w \in simple : QbOneQubit(g, r) = {w}
          \/ g.name \in DOMAIN PhaseAngle /\ QbOneQubit(g, r) = {Rz(c, PhaseAngle[g.name], r)}
      BY <2>3, <3>6, Zenon DEF QbOneQubit
    <3> HIDE DEF c, a
    <3> QED
      BY <2>1, <3>2, <3>3, <3>5, <3>7, <3>8
  <2> QED
    BY <2>2, <2>3
<1> QED
  BY <1>4, <1>5

-----------------------------------------------------------------------------
(* The walk on the hardware's visitors.                                      *)

GatesFor(b) == UNION {Range(task.circuit) : task \in {t \in Tasks : t.backEnd = b}}
Measures == [name : {"Measure"}, on : Seq(Nat), angles : {<<>>}]
Hardware(b) == b.kind \in {"qb", "transpiler"}
NativeInv ==
  Hardware(backEnd) =>
    /\ backEnd \in BackEnds
    /\ place # "returning"
    /\ left \in Seq(GatesFor(backEnd))
    /\ measured \in Seq(Nat)
    /\ output \in Seq(OwnGates(backEnd.anti, backEnd.restricted) \cup Measures)

(* What the transpiler puts behind the gates.                               *)
LEMMA MeasureType == ASSUME NEW q \in Nat PROVE MeasureOf(q) \in Measures
BY DEF MeasureOf, Gate, Measures

(* What the gates of a task may be.                                         *)
LEMMA GatesAreShaped ==
  ASSUME TasksShaped, Numerical, NEW b, NEW g \in GatesFor(b)
  PROVE  Shaped(g) /\ (Hardware(b) => ~ Undefined(g)) /\ g.on[1] \in Nat
<1>1. PICK task \in Tasks : task.backEnd = b /\ g \in Range(task.circuit)
  BY DEF GatesFor
<1>2. Shaped(g) /\ (Hardware(b) => ~ Undefined(g))
  BY <1>1 DEF TasksShaped, Numerical, Hardware
<1>3. g.on \in Seq(Nat) /\ g.on # <<>>
  BY <1>2 DEF Shaped
<1> QED
  BY <1>2, <1>3

(* At first nothing is written.                                             *)
LEMMA NativeInitially == ASSUME TasksShaped, WalkInit PROVE NativeInv
<1> SUFFICES ASSUME Hardware(backEnd) PROVE NativeInv!2
  BY DEF NativeInv
<1>1. PICK task \in Tasks : backEnd = task.backEnd /\ left = task.circuit
  BY DEF WalkInit
<1>2. task.circuit \in Seq(Range(task.circuit)) /\ task.backEnd \in BackEnds
  BY <1>1 DEF TasksShaped
<1>3. Range(task.circuit) \subseteq GatesFor(backEnd)
  BY <1>1 DEF GatesFor
<1>4. left \in Seq(GatesFor(backEnd))
  BY <1>1, <1>2, <1>3, SeqMonotonic
<1> QED
  BY <1>1, <1>2, <1>4, EmptySeq DEF WalkInit

(* No step writes what is not the hardware's.                               *)
LEMMA NativeStep ==
  ASSUME TasksShaped, Numerical, NotANumber \notin Int, NativeInv, [WalkNext]_walkVars
  PROVE  NativeInv'
<1>1. backEnd' = backEnd
  BY DEF WalkNext, walkVars, Visit, VisitMeasure, Throw, Finish,
         ReturnGate, ReturnMeasure, Return, Done
<1> SUFFICES ASSUME Hardware(backEnd) PROVE NativeInv'
  BY <1>1 DEF NativeInv
<1> DEFINE anti == backEnd.anti
           r == backEnd.restricted
           Out == OwnGates(anti, r) \cup Measures
<1>2. /\ backEnd \in BackEnds /\ place # "returning"
      /\ left \in Seq(GatesFor(backEnd)) /\ measured \in Seq(Nat) /\ output \in Seq(Out)
  BY DEF NativeInv
<1>3. anti \in BOOLEAN /\ r \in BOOLEAN /\ backEnd.kind # "tket" /\ backEnd.kind # "openqasm3"
  BY <1>2 DEF BackEnds, Hardware
<1> SUFFICES /\ place' # "returning" /\ left' \in Seq(GatesFor(backEnd))
             /\ measured' \in Seq(Nat) /\ output' \in Seq(Out)
  BY <1>1, <1>2 DEF NativeInv
<1> HIDE DEF Out, anti, r
<1>4. ASSUME left # <<>> PROVE Head(left) \in GatesFor(backEnd) /\ Tail(left) \in Seq(GatesFor(backEnd))
  BY <1>2, <1>4
<1>5. CASE Visit
  <2>1. left # <<>> /\ left' = Tail(left) /\ UNCHANGED <<measured, place>>
        /\ \E w \in Written(backEnd, Head(left)) : output' = output \o w
    BY <1>5 DEF Visit, Walking, Walk
  <2>2. Written(backEnd, Head(left)) = QbPushed(Head(left), anti, r)
    BY DEF Written, Hardware, anti, r
  <2>3. QbPushed(Head(left), anti, r) \subseteq Words(anti, r)
    BY <1>3, <1>4, <2>1, GatesAreShaped, HandlersAreNative
  <2>4. Words(anti, r) \subseteq Seq(Out)
    BY SeqMonotonic DEF Words, Out
  <2>5. PICK w \in Seq(Out) : output' = output \o w
    BY <2>1, <2>2, <2>3, <2>4
  <2>6. output' \in Seq(Out)
    BY <1>2, <2>5, ConcatProperties
  <2> QED
    BY <1>2, <1>4, <2>1, <2>6
<1>6. CASE VisitMeasure
  <2>1. left # <<>> /\ left' = Tail(left) /\ place' = place
        /\ measured' = Append(measured, Head(left).on[1]) /\ output' = output
    BY <1>3, <1>6 DEF VisitMeasure, Walking, Walk
  <2>2. Head(left).on[1] \in Nat
    BY <1>4, <2>1, GatesAreShaped
  <2> QED
    BY <1>2, <1>4, <2>1, <2>2
<1>7. CASE Throw
  BY <1>2, <1>7 DEF Throw
<1>8. CASE Finish
  <2>1. /\ place' = "done" /\ left' = left /\ measured' = measured
        /\ output' = IF backEnd.kind = "transpiler"
                     THEN output \o [i \in DOMAIN measured |-> MeasureOf(measured[i])] ELSE output
    BY <1>3, <1>8 DEF Finish
  <2>2. [i \in DOMAIN measured |-> MeasureOf(measured[i])] \in Seq(Out)
    <3> DEFINE f == [q \in Nat |-> MeasureOf(q)]
    <3>1. f \in [Nat -> Measures]
      BY MeasureType
    <3>2. [i \in DOMAIN measured |-> f[measured[i]]] \in Seq(Measures)
      <4> HIDE DEF f
      <4> QED
        BY <1>2, <3>1, MappedSequence
    <3>3. \A i \in DOMAIN measured : f[measured[i]] = MeasureOf(measured[i])
      BY <1>2
    <3>4. [i \in DOMAIN measured |-> f[measured[i]]] = [i \in DOMAIN measured |-> MeasureOf(measured[i])]
      BY <3>3
    <3> HIDE DEF f
    <3>5. Seq(Measures) \subseteq Seq(Out)
      BY SeqMonotonic DEF Out
    <3> QED
      BY <3>2, <3>4, <3>5
  <2>3. output' \in Seq(Out)
    BY <1>2, <2>1, <2>2, ConcatProperties
  <2> QED
    BY <1>2, <2>1, <2>3
<1>9. CASE ReturnGate \/ ReturnMeasure \/ Return
  BY <1>2, <1>9 DEF ReturnGate, ReturnMeasure, Return, Returning
<1>10. CASE UNCHANGED walkVars
  BY <1>2, <1>10 DEF walkVars
<1> QED
  BY <1>5, <1>6, <1>7, <1>8, <1>9, <1>10 DEF WalkNext, Done

(* The invariant says what the run checks.                                  *)
LEMMA NativeWhenWalking == ASSUME NativeInv PROVE NativeAndInRange
<1> SUFFICES ASSUME Hardware(backEnd) PROVE NativeAndInRange
  BY DEF NativeAndInRange, Hardware
<1> DEFINE N == OwnGates(backEnd.anti, backEnd.restricted)
           S == {g \in Range(output) : "name" \in DOMAIN g /\ g.name \notin {"Measure", "endbox"}}
<1>1. output \in Seq(N \cup Measures) /\ backEnd \in BackEnds
  BY DEF NativeInv
<1>2. Gates(output) = Among(output, S)
  BY DEF Gates
<1>3. Among(output, S) \in Seq((N \cup Measures) \cap S)
  <2> HIDE DEF N, S
  <2> QED
    BY <1>1, AmongType
<1>4. (N \cup Measures) \cap S \subseteq N
  BY DEF Measures
<1>5. Gates(output) \in Seq(N)
  <2> HIDE DEF N, S
  <2> QED
    BY <1>2, <1>3, <1>4, SeqMonotonic
<1>6. \A i \in DOMAIN Gates(output) : Gates(output)[i] \in N
  <2> HIDE DEF N
  <2> QED
    BY <1>5, LenProperties, ElementOfSeq
<1>7. ASSUME NEW g \in N
      PROVE  /\ g.name \in {"I", "Rx", "Ry", IF backEnd.anti THEN "ACZ" ELSE "CZ"}
             /\ backEnd.restricted => \A k \in DOMAIN g.angles : g.angles[k] \in -Pi .. Pi
  BY <1>1 DEF OwnGates, AngleSet, Pi, BackEnds
<1> QED
  BY <1>6, <1>7 DEF NativeAndInRange

(* Whatever circuit the hardware's visitors or the gate set transpiler walk, *)
(* one that spares visitor::visit(U) a quotient 0 / 0: what they have        *)
(* written, at every step, has gates of the hardware only, and angles within *)
(* a half turn where the options ask for it (visitor.cpp, visitor::norm).    *)
THEOREM HardwareGetsItsOwnGates ==
  ASSUME Numerical PROVE WalkSpec => []NativeAndInRange
<1>1. WalkInit => NativeInv
  BY TasksAssumption, NativeInitially
<1>2. NativeInv /\ [WalkNext]_walkVars => NativeInv'
  BY TasksAssumption, NotANumberIsNone, NativeStep
<1>3. NativeInv => NativeAndInRange
  BY NativeWhenWalking
<1> QED
  BY <1>1, <1>2, <1>3, PTL DEF WalkSpec

-----------------------------------------------------------------------------
(* There and back from TKET.                                                 *)

Names == DOMAIN TketOps
Whole(g) == g.name = "Measure" => g = MeasureOf(g.on[1])
Walked == {g \in TketGates : Whole(g) /\ g.name \notin TketRefuses}
Kept == {g \in Walked : g.name # "I"}
Command(g) == [op |-> TketOps[g.name], on |-> g.on, params |-> g.angles]
Commands(s) == [i \in DOMAIN s |-> Command(s[i])]

(* LINK_OPS undoes to_tket.                                                 *)
LEMMA NamesGoBack ==
  ASSUME NEW n \in Names
  PROVE  /\ XaccOps[TketOps[n]] = n
         /\ TketOps[n] = "Measure" <=> n = "Measure"
         /\ n # "I" /\ n \notin TketRefuses
BY DEF Names, TketOps, XaccOps, TketRefuses

(* A gate that is kept.                                                     *)
LEMMA KeptType ==
  ASSUME NEW g \in Kept
  PROVE  /\ g.name \in Names /\ g.on \in Seq(Nat) /\ g.angles \in Seq(Int) /\ Whole(g)
         /\ g = Gate(g.name, g.on, g.angles)
BY DEF Kept, Walked, TketGates, Names, Gate

(* So is a measurement, which acts on its qubit only.                       *)
LEMMA MeasureIsKept == ASSUME NEW q \in Nat PROVE MeasureOf(q) \in Kept /\ Range(MeasureOf(q).on) = {q}
<1>1. MeasureOf(q) = [name |-> "Measure", on |-> <<q>>, angles |-> <<>>]
  BY DEF MeasureOf, Gate
<1>2. "Measure" \in Names
  BY DEF Names, TketOps
<1>3. <<q>> \in Seq(Nat) /\ <<>> \in Seq(Int) /\ <<q>>[1] = q /\ Range(<<q>>) = {q}
  BY DEF Range
<1>4. MeasureOf(q) \in TketGates
  BY <1>1, <1>2, <1>3 DEF TketGates, Names
<1>5. Whole(MeasureOf(q))
  BY <1>1, <1>3 DEF Whole
<1>6. "Measure" \notin TketRefuses
  BY DEF TketRefuses
<1> QED
  BY <1>1, <1>3, <1>4, <1>5, <1>6 DEF Kept, Walked

(* What comes back of a gate is that gate.                                  *)
LEMMA BackIsSame ==
  ASSUME NEW g \in Kept
  PROVE  /\ ToXacc(Command(g)) = g
         /\ Command(g).op = "Measure" <=> g.name = "Measure"
         /\ Command(g).on = g.on
<1>1. g.name \in Names /\ g = Gate(g.name, g.on, g.angles)
  BY KeptType
<1>2. Command(g).op = TketOps[g.name] /\ Command(g).on = g.on /\ Command(g).params = g.angles
  BY DEF Command
<1> QED
  BY <1>1, <1>2, NamesGoBack DEF ToXacc

(* A sequence has finitely many elements.                                   *)
LEMMA RangeFinite == ASSUME NEW X, NEW s \in Seq(X) PROVE IsFiniteSet(Range(s))
<1>1. DOMAIN s = 1 .. Len(s) /\ Len(s) \in Nat /\ s \in [1 .. Len(s) -> X]
  BY LenProperties
<1>2. IsFiniteSet(1 .. Len(s))
  BY <1>1, FS_Interval
<1>3. s \in Surjection(1 .. Len(s), Range(s))
  BY <1>1 DEF Surjection, Range
<1> QED
  BY <1>2, <1>3, FS_Surjection

(* The gates on a qubit.                                                     *)
KeptOn(q, s) == Among(s, {g \in Kept : q \in Range(g.on)})

(* To select among all gates is to select among those of the circuit.       *)
LEMMA OnIsOn == ASSUME NEW s \in Seq(Kept), NEW q PROVE On(q, s) = KeptOn(q, s)
<1> DEFINE S == {g \in Range(s) : q \in Range(g.on)}
           T == {g \in Kept : q \in Range(g.on)}
<1>1. On(q, s) = Among(s, S)
  BY DEF On, QubitsOf
<1>2. Range(s) \cap S = Range(s) \cap T
  <2>1. Range(s) \subseteq Kept
    BY LenProperties, ElementOfSeq DEF Range
  <2> QED
    BY <2>1
<1>3. Among(s, S) = Among(s, T)
  <2> HIDE DEF S, T
  <2> QED
    BY <1>2, AmongSame
<1> QED
  BY <1>1, <1>3 DEF KeptOn

(* The gates on a qubit, part by part.                                      *)
LEMMA OnConcat ==
  ASSUME NEW s \in Seq(Kept), NEW t \in Seq(Kept), NEW q
  PROVE  KeptOn(q, s \o t) = KeptOn(q, s) \o KeptOn(q, t)
BY AmongConcat DEF KeptOn

(* Of a single gate.                                                        *)
LEMMA OnOne ==
  ASSUME NEW g \in Kept, NEW q PROVE KeptOn(q, <<g>>) = IF q \in Range(g.on) THEN <<g>> ELSE <<>>
BY AmongOne DEF KeptOn

(* They are gates of the circuit.                                           *)
LEMMA OnType == ASSUME NEW s \in Seq(Kept), NEW q PROVE KeptOn(q, s) \in Seq(Kept)
BY AmongType DEF KeptOn

(* Of an empty circuit there are none.                                      *)
LEMMA OnNothing == ASSUME NEW q PROVE KeptOn(q, <<>>) = <<>>
BY AmongEmpty DEF KeptOn

(* What identities leave.                                                    *)
LEMMA IdentitiesGo ==
  ASSUME NEW s \in Seq(Walked)
  PROVE  /\ WithoutIdentities(s) = Among(s, Kept)
         /\ Among(s, Kept) \in Seq(Kept)
<1> DEFINE S == {g \in Range(s) : g.name # "I"}
<1>1. WithoutIdentities(s) = Among(s, S)
  BY DEF WithoutIdentities
<1>2. Range(s) \cap S = Range(s) \cap Kept
  <2>1. Range(s) \subseteq Walked
    BY LenProperties, ElementOfSeq DEF Range
  <2> QED
    BY <2>1 DEF Kept
<1>3. Among(s, S) = Among(s, Kept)
  <2> HIDE DEF S
  <2> QED
    BY <1>2, AmongSame
<1>4. Among(s, Kept) \in Seq(Walked \cap Kept)
  BY AmongType
<1>5. Walked \cap Kept = Kept
  BY DEF Kept
<1> QED
  BY <1>1, <1>3, <1>4, <1>5

(* The commands of the TKET circuit, one for each gate                      *)
LEMMA CommandsType ==
  ASSUME NEW s \in Seq(Kept)
  PROVE  /\ Commands(s) \in Seq({Command(g) : g \in Kept}) /\ Len(Commands(s)) = Len(s)
         /\ \A i \in 1 .. Len(s) : Commands(s)[i] = Command(s[i])
<1>1. Len(s) \in Nat /\ DOMAIN s = 1 .. Len(s) /\ \A i \in 1 .. Len(s) : s[i] \in Kept
  BY LenProperties, ElementOfSeq
<1>2. Commands(s) \in [1 .. Len(s) -> {Command(g) : g \in Kept}]
  BY <1>1 DEF Commands
<1>3. Commands(s) \in Seq({Command(g) : g \in Kept})
  BY <1>1, <1>2, SeqDef
<1>4. Len(Commands(s)) = Len(s)
  BY <1>1, <1>2, <1>3, LenProperties
<1> QED
  BY <1>1, <1>3, <1>4 DEF Commands

(* and in the same order.                                                   *)
LEMMA CommandsAppend ==
  ASSUME NEW s \in Seq(Kept), NEW g \in Kept
  PROVE  Commands(Append(s, g)) = Append(Commands(s), Command(g))
<1> DEFINE C == {Command(h) : h \in Kept}
           f == [h \in Kept |-> Command(h)]
<1>1. f \in [Kept -> C] /\ f[g] = Command(g)
  OBVIOUS
<1>2. \A t \in Seq(Kept) : Commands(t) = [i \in DOMAIN t |-> f[t[i]]]
  <2> TAKE t \in Seq(Kept)
  <2>1. \A i \in DOMAIN t : t[i] \in Kept
    BY LenProperties, ElementOfSeq
  <2>2. \A i \in DOMAIN t : f[t[i]] = Command(t[i])
    BY <2>1
  <2> HIDE DEF f
  <2> QED
    BY <2>2 DEF Commands
<1> HIDE DEF f, C
<1>3. Append(s, g) \in Seq(Kept)
  BY AppendProperties
<1>4. [i \in DOMAIN Append(s, g) |-> f[Append(s, g)[i]]] = Append([i \in DOMAIN s |-> f[s[i]]], f[g])
  BY <1>1, MappedAppend
<1> QED
  BY <1>1, <1>2, <1>3, <1>4

(* Which measurements are held back.                                         *)
LEMMA FreshStep ==
  ASSUME NEW K \in Seq(Kept), NEW n \in Nat, n < Len(K), NEW q
  PROVE  Fresh(K, q, n + 2) <=>
           K[n + 1] = MeasureOf(q) \/ (Fresh(K, q, n + 1) /\ q \notin Range(K[n + 1].on))
<1>1. \A i : Fresh(K, q, i) <=>
        \E j \in 1 .. i - 1 : K[j] = MeasureOf(q) /\ \A k \in j + 1 .. i - 1 : q \notin Range(K[k].on)
  BY DEF Fresh, QubitsOf
<1>2. ASSUME K[n + 1] = MeasureOf(q) PROVE Fresh(K, q, n + 2)
  <2>1. n + 1 \in 1 .. (n + 2) - 1 /\ (n + 1) + 1 .. (n + 2) - 1 = {}
    OBVIOUS
  <2> QED
    BY <1>1, <1>2, <2>1
<1>3. ASSUME Fresh(K, q, n + 1), q \notin Range(K[n + 1].on) PROVE Fresh(K, q, n + 2)
  <2>1. PICK j \in 1 .. (n + 1) - 1 :
          K[j] = MeasureOf(q) /\ \A k \in j + 1 .. (n + 1) - 1 : q \notin Range(K[k].on)
    BY <1>1, <1>3
  <2>2. j \in 1 .. (n + 2) - 1 /\ \A k \in j + 1 .. (n + 2) - 1 : q \notin Range(K[k].on)
    <3>1. \A k \in j + 1 .. (n + 2) - 1 : k = n + 1 \/ k \in j + 1 .. (n + 1) - 1
      OBVIOUS
    <3> QED
      BY <1>3, <2>1, <3>1
  <2> QED
    BY <1>1, <2>1, <2>2
<1>4. ASSUME Fresh(K, q, n + 2), K[n + 1] # MeasureOf(q)
      PROVE  Fresh(K, q, n + 1) /\ q \notin Range(K[n + 1].on)
  <2>1. PICK j \in 1 .. (n + 2) - 1 :
          K[j] = MeasureOf(q) /\ \A k \in j + 1 .. (n + 2) - 1 : q \notin Range(K[k].on)
    BY <1>1, <1>4
  <2>2. j # n + 1
    BY <1>4, <2>1
  <2>3. j \in 1 .. (n + 1) - 1 /\ n + 1 \in j + 1 .. (n + 2) - 1
        /\ j + 1 .. (n + 1) - 1 \subseteq j + 1 .. (n + 2) - 1
    BY <2>2
  <2> QED
    BY <1>1, <2>1, <2>3
<1> QED
  BY <1>2, <1>3, <1>4

(* What is put out at the end.                                               *)
LEMMA PendingOut ==
  ASSUME NEW S \in SUBSET Nat, IsFiniteSet(S), NEW q \in Nat
  PROVE  LET out == [i \in DOMAIN Ascending(S) |-> MeasureOf(Ascending(S)[i])]
         IN  /\ out \in Seq(Kept)
             /\ KeptOn(q, out) = IF q \in S THEN <<MeasureOf(q)>> ELSE <<>>
<1> DEFINE s == Ascending(S)
           f == [p \in Nat |-> MeasureOf(p)]
           out == [i \in DOMAIN s |-> f[s[i]]]
           T == {g \in Kept : q \in Range(g.on)}
<1>1. s \in Seq(Nat) /\ IsInjective(s) /\ Range(s) = S
  BY AscendingOrder
<1> HIDE DEF s
<1>2. Ascending(S) = s
  BY DEF s
<1>3. \A i \in DOMAIN s : s[i] \in Nat /\ f[s[i]] = MeasureOf(s[i])
  BY <1>1, LenProperties, ElementOfSeq
<1>4. f \in [Nat -> Kept]
  BY MeasureIsKept
<1> HIDE DEF f
<1>5. out \in Seq(Kept)
  BY <1>1, <1>4, MappedSequence
<1>6. IsInjective(out)
  <2>1. \A i, j \in DOMAIN s : MeasureOf(s[i]) = MeasureOf(s[j]) => s[i] = s[j]
    BY <1>3 DEF MeasureOf, Gate
  <2> QED
    BY <1>1, <1>3, <2>1 DEF IsInjective
<1>7. Range(out) = {MeasureOf(p) : p \in S}
  BY <1>1, <1>3 DEF Range
<1>12. [i \in DOMAIN Ascending(S) |-> MeasureOf(Ascending(S)[i])] = out
  BY <1>2, <1>3
<1>8. \A p \in S : MeasureOf(p) \in T <=> p = q
  BY MeasureIsKept
<1> HIDE DEF out, T
<1>9. KeptOn(q, out) = Among(out, T)
  BY DEF KeptOn, T
<1>10. CASE q \in S
  <2>1. Range(out) \cap T = {MeasureOf(q)}
    BY <1>7, <1>8, <1>10
  <2>2. Among(out, T) = <<MeasureOf(q)>>
    BY <1>5, <1>6, <2>1, AmongOnce
  <2> QED
    BY <1>5, <1>9, <1>10, <1>12, <2>2
<1>11. CASE q \notin S
  <2>1. Range(out) \cap T = {}
    BY <1>7, <1>8, <1>11
  <2>2. Among(out, T) = <<>>
    BY <1>5, <1>6, <2>1, AmongOnce
  <2> QED
    BY <1>5, <1>9, <1>11, <1>12, <2>2
<1> QED
  BY <1>10, <1>11

(* The invariant of the way to TKET and back.                                *)
K == Among(walked, Kept)
Pending(q) == IF q \in Range(measured) THEN <<MeasureOf(q)>> ELSE <<>>

WalkingInv ==
  /\ \E task \in Tasks : task.backEnd = backEnd /\ walked \o left = task.circuit
  /\ left \in Seq(GatesFor(backEnd))
  /\ measured = <<>>
  /\ output = Commands(K)

Passed == Len(K) - Len(left)
ReturningInv ==
  /\ Apart(K)
  /\ left \in Seq({Command(g) : g \in Kept}) /\ Len(left) <= Len(K)
  /\ \A i \in 1 .. Len(left) : left[i] = Command(K[Passed + i])
  /\ measured \in Seq(Nat) /\ output \in Seq(Kept)
  /\ \A q \in Nat : q \in Range(measured) <=> Fresh(K, q, Passed + 1)
  /\ \A q \in Nat : KeptOn(q, output) \o Pending(q) = KeptOn(q, SubSeq(K, 1, Passed))

DoneInv == output \in Seq(Kept) /\ \A q \in Nat : KeptOn(q, output) = KeptOn(q, K)

TketInv ==
  backEnd.kind = "tket" =>
    /\ place \in {"walking", "returning", "done", "refused"}
    /\ walked \in Seq(Walked)
    /\ place = "walking" => WalkingInv
    /\ place = "returning" => ReturningInv
    /\ place = "done" => DoneInv

(* At first nothing has been walked.                                        *)
LEMMA TketInitially == ASSUME TasksShaped, WalkInit PROVE TketInv
<1> SUFFICES ASSUME backEnd.kind = "tket" PROVE TketInv
  BY DEF TketInv
<1>1. PICK task \in Tasks : backEnd = task.backEnd /\ left = task.circuit
  BY DEF WalkInit
<1>2. task.circuit \in Seq(Range(task.circuit))
  BY <1>1 DEF TasksShaped
<1>3. Range(task.circuit) \subseteq GatesFor(backEnd)
  BY <1>1 DEF GatesFor
<1>4. left \in Seq(GatesFor(backEnd))
  BY <1>1, <1>2, <1>3, SeqMonotonic
<1>5. walked = <<>> /\ output = <<>> /\ measured = <<>> /\ place = "walking"
  BY DEF WalkInit
<1>6. walked \o left = task.circuit
  BY <1>1, <1>4, <1>5, ConcatEmptySeq
<1>7. output = Commands(K)
  <2>1. K = <<>>
    BY <1>5, AmongEmpty DEF K
  <2>2. Commands(<<>>) = <<>>
    BY DEF Commands
  <2> QED
    BY <1>5, <2>1, <2>2
<1>8. WalkingInv
  BY <1>1, <1>4, <1>5, <1>6, <1>7 DEF WalkingInv
<1> QED
  BY <1>5, <1>8, EmptySeq DEF TketInv

(* The gates a task for TKET may have, those refused among them.             *)
LEMMA GatesAreWhole ==
  ASSUME Convertible, NEW b, b.kind = "tket", NEW g \in GatesFor(b)
  PROVE  g \in TketGates /\ Whole(g)
<1>1. PICK task \in Tasks : task.backEnd = b /\ g \in Range(task.circuit)
  BY DEF GatesFor
<1> QED
  BY <1>1 DEF Convertible, Whole

(* The way there: one gate more is walked and written.                      *)
LEMMA WalkOn ==
  ASSUME Convertible, backEnd.kind = "tket", WalkingInv, walked \in Seq(Walked),
         left # <<>>, Walk, backEnd' = backEnd, place' = place, measured' = measured,
         Head(left).name \notin TketRefuses, output' = output \o ToTket(Head(left))
  PROVE  WalkingInv' /\ walked' \in Seq(Walked)
<1> DEFINE g == Head(left)
<1>1. left \in Seq(GatesFor(backEnd)) /\ g \in GatesFor(backEnd) /\ Tail(left) \in Seq(GatesFor(backEnd))
  BY DEF WalkingInv
<1>2. walked' = Append(walked, g) /\ left' = Tail(left)
  BY DEF Walk
<1>3. left = <<g>> \o Tail(left)
  BY <1>1
<1> HIDE DEF g
<1>4. g \in Walked
  <2>1. g \in TketGates /\ Whole(g)
    BY <1>1, GatesAreWhole
  <2>2. g.name \notin TketRefuses
    BY DEF g
  <2> QED
    BY <2>1, <2>2 DEF Walked
<1>5. walked' \in Seq(Walked) /\ walked' = walked \o <<g>>
  BY <1>2, <1>4, AppendProperties, AppendIsConcat
<1>6. walked' \o left' = walked \o left
  <2> DEFINE X == Walked \cup GatesFor(backEnd)
  <2>1. walked \in Seq(X) /\ <<g>> \in Seq(X) /\ Tail(left) \in Seq(X)
    <3>1. Seq(Walked) \subseteq Seq(X) /\ Seq(GatesFor(backEnd)) \subseteq Seq(X)
      BY SeqMonotonic
    <3>2. g \in X
      BY <1>4
    <3> HIDE DEF X
    <3> QED
      BY <1>1, <3>1, <3>2
  <2> HIDE DEF X
  <2>2. (walked \o <<g>>) \o Tail(left) = walked \o (<<g>> \o Tail(left))
    BY <2>1, ConcatAssociative
  <2> QED
    BY <1>2, <1>3, <1>5, <2>2
<1>7. K' = K \o (IF g \in Kept THEN <<g>> ELSE <<>>) /\ K \in Seq(Kept)
  <2>1. <<g>> \in Seq(Walked)
    BY <1>4
  <2>2. Among(walked \o <<g>>, Kept) = Among(walked, Kept) \o Among(<<g>>, Kept)
    BY <2>1, AmongConcat
  <2>3. Among(<<g>>, Kept) = IF g \in Kept THEN <<g>> ELSE <<>>
    BY AmongOne
  <2>4. K' = Among(walked', Kept)
    BY DEF K
  <2> QED
    BY <1>5, <2>2, <2>3, <2>4, IdentitiesGo DEF K
<1>8. output' = Commands(K')
  <2>1. CASE g \in Kept
    <3>1. ToTket(g) = <<Command(g)>>
      <4>1. g.name \in Names
        BY <2>1, KeptType
      <4> QED
        BY <4>1 DEF ToTket, Command, Names
    <3>2. K' = Append(K, g)
      BY <1>7, <2>1, AppendIsConcat
    <3>3. Commands(K') = Append(Commands(K), Command(g))
      BY <1>7, <2>1, <3>2, CommandsAppend
    <3>4. Commands(K) \in Seq({Command(h) : h \in Kept})
      BY <1>7, CommandsType
    <3>5. Append(Commands(K), Command(g)) = Commands(K) \o <<Command(g)>>
      BY <2>1, <3>4, AppendIsConcat
    <3> QED
      BY <3>1, <3>3, <3>5 DEF WalkingInv, g
  <2>2. CASE g \notin Kept
    <3>1. g.name = "I"
      BY <1>4, <2>2 DEF Kept
    <3>2. ToTket(g) = <<>>
      BY <3>1 DEF ToTket, TketOps
    <3>3. K' = K
      BY <1>7, <2>2, ConcatEmptySeq
    <3>4. Commands(K) \in Seq({Command(h) : h \in Kept})
      BY <1>7, CommandsType
    <3>5. Commands(K) \o <<>> = Commands(K)
      BY <3>4, ConcatEmptySeq
    <3> QED
      BY <3>2, <3>3, <3>5 DEF WalkingInv, g
  <2> QED
    BY <2>1, <2>2
<1> QED
  BY <1>1, <1>2, <1>5, <1>6, <1>8 DEF WalkingInv

(* The TKET circuit goes back.                                              *)
LEMMA TurnBack ==
  ASSUME Convertible, backEnd.kind = "tket", WalkingInv, walked \in Seq(Walked),
         left = <<>>, left' = output, output' = <<>>, measured' = measured, walked' = walked
  PROVE  ReturningInv'
<1>1. K' = K /\ K \in Seq(Kept) /\ WithoutIdentities(walked) = K
  BY IdentitiesGo DEF K
<1>2. Len(K) \in Nat /\ Len(left') = Len(K) /\ Passed' = 0
  <2>1. Len(K) \in Nat /\ Len(left') = Len(K)
    BY <1>1, CommandsType, LenProperties DEF WalkingInv
  <2> QED
    BY <1>1, <2>1 DEF Passed
<1>3. Apart(K')
  <2>1. PICK task \in Tasks : task.backEnd = backEnd /\ walked \o left = task.circuit
    BY DEF WalkingInv
  <2>2. task.circuit = walked
    BY <2>1, ConcatEmptySeq
  <2> QED
    BY <1>1, <2>1, <2>2 DEF Convertible
<1>4. left' \in Seq({Command(g) : g \in Kept}) /\ \A i \in 1 .. Len(left') : left'[i] = Command(K'[Passed' + i])
  <2>1. left' = Commands(K)
    BY DEF WalkingInv
  <2>2. \A i \in 1 .. Len(K) : K'[Passed' + i] = K[i]
    BY <1>1, <1>2
  <2>3. /\ Commands(K) \in Seq({Command(g) : g \in Kept}) /\ Len(Commands(K)) = Len(K)
        /\ \A i \in 1 .. Len(K) : Commands(K)[i] = Command(K[i])
    BY <1>1, CommandsType
  <2>4. \A i \in 1 .. Len(left') : left'[i] = Command(K'[Passed' + i])
    <3> TAKE i \in 1 .. Len(left')
    <3>1. i \in 1 .. Len(K) /\ left'[i] = Commands(K)[i]
      BY <1>2, <2>1
    <3> QED
      BY <2>2, <2>3, <3>1
  <2> QED
    BY <2>1, <2>3, <2>4
<1>5. measured' = <<>> /\ output' = <<>>
  BY DEF WalkingInv
<1>6. ASSUME NEW q \in Nat
      PROVE  /\ q \in Range(measured') <=> Fresh(K', q, Passed' + 1)
             /\ KeptOn(q, output') \o Pending(q)' = KeptOn(q, SubSeq(K', 1, Passed'))
  <2>1. q \notin Range(measured')
    BY <1>5, RangeOfEmpty
  <2>2. ~ Fresh(K', q, Passed' + 1)
    BY <1>2 DEF Fresh
  <2>3. SubSeq(K', 1, Passed') = <<>>
    BY <1>1, <1>2
  <2>4. KeptOn(q, <<>>) = <<>>
    BY OnNothing
  <2>5. Pending(q)' = <<>>
    BY <2>1 DEF Pending
  <2>6. KeptOn(q, output') \o Pending(q)' = <<>>
    BY <1>5, <2>4, <2>5
  <2> QED
    BY <2>1, <2>2, <2>3, <2>4, <2>6
<1>7. measured' \in Seq(Nat) /\ output' \in Seq(Kept)
  BY <1>5
<1>8. Len(left') <= Len(K')
  BY <1>1, <1>2
<1> QED
  BY <1>3, <1>4, <1>6, <1>7, <1>8 DEF ReturningInv

(* The gate that returns next, and what precedes it.                         *)
LEMMA NextBack ==
  ASSUME ReturningInv, K \in Seq(Kept), left # <<>>, left' = Tail(left), K' = K
  PROVE  /\ Passed \in Nat /\ Passed < Len(K) /\ Passed + 1 \in 1 .. Len(K)
         /\ K[Passed + 1] \in Kept /\ Head(left) = Command(K[Passed + 1])
         /\ Passed' = Passed + 1 /\ Len(left') <= Len(K')
         /\ left' \in Seq({Command(g) : g \in Kept})
         /\ \A i \in 1 .. Len(left') : left'[i] = Command(K'[Passed' + i])
         /\ SubSeq(K, 1, Passed) \in Seq(Kept)
         /\ SubSeq(K, 1, Passed + 1) = SubSeq(K, 1, Passed) \o <<K[Passed + 1]>>
<1> DEFINE C == {Command(g) : g \in Kept}
<1>1. left \in Seq(C) /\ Len(left) <= Len(K) /\ \A i \in 1 .. Len(left) : left[i] = Command(K[Passed + i])
  BY DEF ReturningInv
<1> HIDE DEF C
<1>2. Len(K) \in Nat /\ Len(left) \in Nat /\ Len(left) > 0
  BY <1>1, LenProperties
<1>3. left' \in Seq(C) /\ Len(left') = Len(left) - 1 /\ \A i \in 1 .. Len(left') : left'[i] = left[i + 1]
  BY <1>1, <1>2
<1>4. Passed \in Nat /\ Passed < Len(K) /\ Passed' = Passed + 1
  BY <1>1, <1>2, <1>3 DEF Passed
<1>5. Head(left) = left[1] /\ 1 \in 1 .. Len(left)
  BY <1>1, <1>2
<1>6. K[Passed + 1] \in Kept
  BY <1>2, <1>4, ElementOfSeq
<1>7. \A i \in 1 .. Len(left') : left'[i] = Command(K'[Passed' + i])
  <2> TAKE i \in 1 .. Len(left')
  <2>1. i + 1 \in 1 .. Len(left) /\ Passed + (i + 1) = Passed' + i
    BY <1>2, <1>3, <1>4
  <2> QED
    BY <1>1, <1>3, <2>1
<1>8. SubSeq(K, 1, Passed) \in Seq(Kept)
  BY <1>2, <1>4
<1>9. SubSeq(K, 1, Passed + 1) = SubSeq(K, 1, Passed) \o <<K[Passed + 1]>>
  <2>1. Append(SubSeq(K, 1, Passed), K[Passed + 1]) = SubSeq(K, 1, Passed) \o <<K[Passed + 1]>>
    BY <1>6, <1>8, AppendIsConcat
  <2>2. SubSeq(K, 1, Passed + 1) = Append(SubSeq(K, 1, Passed), K[Passed + 1])
    BY <1>2, <1>4, <1>6
  <2> QED
    BY <2>1, <2>2
<1> QED
  BY <1>1, <1>2, <1>3, <1>4, <1>5, <1>6, <1>7, <1>8, <1>9 DEF C

(* A gate comes back, behind the measurement it would overtake.             *)
LEMMA GoBack ==
  ASSUME ReturningInv, K \in Seq(Kept), K' = K, ReturnGate
  PROVE  ReturningInv'
<1> DEFINE n == Passed
           k == K[Passed + 1]
           held == Range(measured)
           over == Overtaken(k, held)
           put == PutOut(k, held)
<1>0. left # <<>> /\ left' = Tail(left) /\ Head(left).op # "Measure"
  BY DEF ReturnGate, Returning
<1>1. /\ n \in Nat /\ n < Len(K) /\ n + 1 \in 1 .. Len(K) /\ k \in Kept /\ Head(left) = Command(k)
      /\ Passed' = n + 1 /\ Len(left') <= Len(K')
      /\ left' \in Seq({Command(g) : g \in Kept})
      /\ \A i \in 1 .. Len(left') : left'[i] = Command(K'[Passed' + i])
      /\ SubSeq(K, 1, n) \in Seq(Kept)
      /\ SubSeq(K, 1, n + 1) = SubSeq(K, 1, n) \o <<k>>
  BY <1>0, NextBack
<1>2. /\ Apart(K) /\ measured \in Seq(Nat) /\ output \in Seq(Kept)
      /\ \A q \in Nat : q \in held <=> Fresh(K, q, n + 1)
      /\ \A q \in Nat : KeptOn(q, output) \o Pending(q) = KeptOn(q, SubSeq(K, 1, n))
  BY DEF ReturningInv
<1>3. held \subseteq Nat
  BY <1>2, RangeOfSeq
<1>4. k.name # "Measure" /\ ToXacc(Head(left)) = k
  BY <1>0, <1>1, BackIsSame
<1>5. Held = held
  BY DEF Held, Range
<1>6. output' = output \o put /\ measured' = Among(measured, StillHeld(k, held))
  BY <1>4, <1>5 DEF ReturnGate
<1>7. over = held \cap Range(k.on)
  BY DEF Overtaken, Range
<1>8. \A p, q \in over : p = q
  <2>1. n + 1 \in DOMAIN K
    BY <1>1, LenProperties
  <2>2. \A p, q \in over : p \in Nat /\ q \in Nat /\ Fresh(K, p, n + 1) /\ Fresh(K, q, n + 1)
                           /\ p \in Range(k.on) /\ q \in Range(k.on)
    BY <1>2, <1>3, <1>7
  <2> QED
    BY <1>2, <2>1, <2>2 DEF Apart, QubitsOf
<1> HIDE DEF n, k, held, over, put
<1>9. \A q \in over : over = {q} /\ Lowest(over) = q /\ q \in Nat
  <2> TAKE q \in over
  <2>1. over = {q} /\ q \in Nat
    BY <1>3, <1>7, <1>8
  <2>2. Lowest({q}) = q
    BY <2>1 DEF Lowest
  <2> QED
    BY <2>1, <2>2
<1>10. StillHeld(k, held) = held \ over
  BY <1>9 DEF StillHeld, over
<1>11. put \in Seq(Kept) /\ \A q \in Nat :
         KeptOn(q, put) = (IF q \in over THEN <<MeasureOf(q)>> ELSE <<>>)
                        \o (IF q \in Range(k.on) THEN <<k>> ELSE <<>>)
  <2>1. <<k>> \in Seq(Kept) /\ \A q : KeptOn(q, <<k>>) = IF q \in Range(k.on) THEN <<k>> ELSE <<>>
    BY <1>1, OnOne
  <2>2. CASE over = {}
    <3>1. put = <<k>>
      BY <2>2 DEF PutOut, put, over
    <3>2. \A q : <<>> \o KeptOn(q, <<k>>) = KeptOn(q, <<k>>)
      BY <2>1, OnType, ConcatEmptySeq
    <3> QED
      BY <2>1, <2>2, <3>1, <3>2
  <2>3. CASE over # {}
    <3>1. PICK p \in over : over = {p} /\ Lowest(over) = p /\ p \in Nat
      BY <1>9, <2>3
    <3> DEFINE m == MeasureOf(p)
    <3>2. put = <<m, k>>
      BY <2>3, <3>1 DEF PutOut, put, over
    <3>3. m \in Kept /\ Range(m.on) = {p}
      BY <3>1, MeasureIsKept
    <3> HIDE DEF m
    <3>4. put = <<m>> \o <<k>> /\ <<m>> \in Seq(Kept)
      BY <1>1, <3>2, <3>3
    <3>5. put \in Seq(Kept)
      BY <2>1, <3>4, ConcatProperties
    <3>6. \A q : KeptOn(q, <<m>>) = IF q \in {p} THEN <<m>> ELSE <<>>
      BY <3>3, OnOne
    <3>7. \A q : KeptOn(q, put) = KeptOn(q, <<m>>) \o KeptOn(q, <<k>>)
      BY <2>1, <3>4, OnConcat
    <3>8. \A q \in Nat : q \in over => MeasureOf(q) = m
      BY <3>1 DEF m
    <3> QED
      BY <2>1, <3>1, <3>5, <3>6, <3>7, <3>8
  <2> QED
    BY <2>2, <2>3
<1>12. output' \in Seq(Kept)
  BY <1>2, <1>6, <1>11, ConcatProperties
<1>13. measured' \in Seq(Nat) /\ Range(measured') = held \ Range(k.on)
  <2>1. Range(measured') = Range(measured) \cap (held \ over) /\ measured' \in Seq(Nat)
    BY <1>2, <1>6, <1>10, AmongType, AmongRange
  <2> QED
    BY <1>7, <2>1 DEF held
<1>14. ASSUME NEW q \in Nat PROVE q \in Range(measured') <=> Fresh(K', q, Passed' + 1)
  <2>1. Fresh(K, q, n + 2) <=> k = MeasureOf(q) \/ (Fresh(K, q, n + 1) /\ q \notin Range(k.on))
    BY <1>1, FreshStep DEF n, k
  <2>2. k # MeasureOf(q)
    BY <1>4 DEF MeasureOf, Gate
  <2>3. Passed' + 1 = n + 2
    BY <1>1
  <2> QED
    BY <1>2, <1>13, <2>1, <2>2, <2>3
<1>15. ASSUME NEW q \in Nat PROVE KeptOn(q, output') \o Pending(q)' = KeptOn(q, SubSeq(K', 1, Passed'))
  <2> DEFINE before == KeptOn(q, output)
             past == KeptOn(q, SubSeq(K, 1, n))
             m == MeasureOf(q)
  <2>1. before \in Seq(Kept) /\ past \in Seq(Kept) /\ <<m>> \in Seq(Kept) /\ <<k>> \in Seq(Kept) /\ <<>> \in Seq(Kept)
    <3>1. before \in Seq(Kept) /\ past \in Seq(Kept)
      BY <1>1, <1>2, OnType
    <3>2. m \in Kept
      BY MeasureIsKept
    <3> HIDE DEF m, before, past
    <3> QED
      BY <1>1, <3>1, <3>2
  <2>2. KeptOn(q, output') = before \o KeptOn(q, put)
    BY <1>2, <1>6, <1>11, OnConcat
  <2>3. KeptOn(q, SubSeq(K', 1, Passed')) = past \o KeptOn(q, <<k>>) /\ KeptOn(q, <<k>>) = IF q \in Range(k.on) THEN <<k>> ELSE <<>>
    <3>1. SubSeq(K', 1, Passed') = SubSeq(K, 1, n) \o <<k>>
      BY <1>1
    <3>2. KeptOn(q, SubSeq(K, 1, n) \o <<k>>) = KeptOn(q, SubSeq(K, 1, n)) \o KeptOn(q, <<k>>)
      BY <1>1, <2>1, OnConcat
    <3>3. KeptOn(q, <<k>>) = IF q \in Range(k.on) THEN <<k>> ELSE <<>>
      BY <1>1, OnOne
    <3> QED
      BY <3>1, <3>2, <3>3
  <2>4. before \o (IF q \in held THEN <<m>> ELSE <<>>) = past
    BY <1>2 DEF Pending, held
  <2>5. Pending(q)' = IF q \in held \ Range(k.on) THEN <<m>> ELSE <<>>
    BY <1>13 DEF Pending
  <2>6. KeptOn(q, put) = (IF q \in held \cap Range(k.on) THEN <<m>> ELSE <<>>) \o (IF q \in Range(k.on) THEN <<k>> ELSE <<>>)
    BY <1>7, <1>11
  <2> HIDE DEF before, past, m
  <2>7. CASE q \in Range(k.on)
    <3> DEFINE x == IF q \in held THEN <<m>> ELSE <<>>
    <3>1. x \in Seq(Kept)
      BY <2>1
    <3>2. KeptOn(q, put) = x \o <<k>> /\ before \o x = past /\ Pending(q)' = <<>>
      BY <2>4, <2>5, <2>6, <2>7
    <3> HIDE DEF x
    <3>3. before \o (x \o <<k>>) = (before \o x) \o <<k>>
      BY <2>1, <3>1, ConcatAssociative
    <3>4. past \o <<k>> \in Seq(Kept)
      BY <2>1, ConcatProperties
    <3> QED
      BY <2>2, <2>3, <2>7, <3>2, <3>3, <3>4, ConcatEmptySeq
  <2>8. CASE q \notin Range(k.on)
    <3>1. KeptOn(q, put) = <<>> \o <<>> /\ <<>> \o <<>> = <<>>
      BY <2>6, <2>8
    <3>2. before \o <<>> = before /\ past \o <<>> = past
      BY <2>1, ConcatEmptySeq
    <3> QED
      BY <2>2, <2>3, <2>4, <2>5, <2>8, <3>1, <3>2
  <2> QED
    BY <2>7, <2>8
<1> QED
  BY <1>1, <1>2, <1>12, <1>13, <1>14, <1>15 DEF ReturningInv

(* A measurement that returns is held back.                                  *)
LEMMA HoldBack ==
  ASSUME ReturningInv, K \in Seq(Kept), K' = K, ReturnMeasure
  PROVE  ReturningInv'
<1> DEFINE n == Passed
           k == K[Passed + 1]
           held == Range(measured)
           p == k.on[1]
<1>0. left # <<>> /\ left' = Tail(left) /\ Head(left).op = "Measure" /\ output' = output
  BY DEF ReturnMeasure, Returning
<1>1. /\ n \in Nat /\ n < Len(K) /\ n + 1 \in 1 .. Len(K) /\ k \in Kept /\ Head(left) = Command(k)
      /\ Passed' = n + 1 /\ Len(left') <= Len(K')
      /\ left' \in Seq({Command(g) : g \in Kept})
      /\ \A i \in 1 .. Len(left') : left'[i] = Command(K'[Passed' + i])
      /\ SubSeq(K, 1, n) \in Seq(Kept)
      /\ SubSeq(K, 1, n + 1) = SubSeq(K, 1, n) \o <<k>>
  BY <1>0, NextBack
<1>2. /\ Apart(K) /\ measured \in Seq(Nat) /\ output \in Seq(Kept)
      /\ \A q \in Nat : q \in held <=> Fresh(K, q, n + 1)
      /\ \A q \in Nat : KeptOn(q, output) \o Pending(q) = KeptOn(q, SubSeq(K, 1, n))
  BY DEF ReturningInv
<1>3. held \subseteq Nat
  BY <1>2, RangeOfSeq
<1>4. k.name = "Measure" /\ Head(left).on = k.on
  BY <1>0, <1>1, BackIsSame
<1>5. k = MeasureOf(p) /\ p \in Nat /\ Range(k.on) = {p}
  <2>1. k = MeasureOf(p)
    BY <1>1, <1>4, KeptType DEF Whole
  <2>2. k.on = <<p>>
    BY <2>1 DEF MeasureOf, Gate
  <2>3. k.on \in Seq(Nat)
    BY <1>1, KeptType
  <2>4. p \in Nat
    <3> HIDE DEF k, p
    <3>1. Len(k.on) = 1
      BY <2>2
    <3>2. k.on[1] \in Nat
      BY <2>3, <3>1, ElementOfSeq
    <3> QED
      BY <3>2 DEF p
  <2> QED
    BY <2>1, <2>4, MeasureIsKept
<1>6. p \notin held
  <2>1. n + 1 \in DOMAIN K
    BY <1>1, LenProperties
  <2>2. ~ Fresh(K, p, n + 1)
    BY <1>2, <1>4, <1>5, <2>1 DEF Apart, QubitsOf
  <2> QED
    BY <1>2, <1>5, <2>2
<1>7. measured' = Append(measured, p)
  <2>1. Held = held
    BY DEF Held, Range
  <2> QED
    BY <1>4, <1>6, <2>1 DEF ReturnMeasure
<1> HIDE DEF n, k, held, p
<1>8. measured' \in Seq(Nat) /\ Range(measured') = held \cup {p}
  <2>1. Range(Append(measured, p)) = Range(measured) \cup {p}
    <3>1. measured \in Seq(Nat) /\ p \in Nat
      BY <1>2, <1>5
    <3>2. \A s \in Seq(Nat), x \in Nat : Range(Append(s, x)) = Range(s) \cup {x}
      BY RangeOfAppend
    <3> QED
      BY <3>1, <3>2
  <2> QED
    BY <1>2, <1>5, <1>7, <2>1, AppendProperties DEF held
<1>9. ASSUME NEW q \in Nat PROVE q \in Range(measured') <=> Fresh(K', q, Passed' + 1)
  <2>1. Fresh(K, q, n + 2) <=> k = MeasureOf(q) \/ (Fresh(K, q, n + 1) /\ q \notin Range(k.on))
    BY <1>1, FreshStep DEF n, k
  <2>2. k = MeasureOf(q) <=> q = p
    BY <1>5 DEF MeasureOf, Gate
  <2>3. Passed' + 1 = n + 2
    BY <1>1
  <2> QED
    BY <1>2, <1>5, <1>8, <2>1, <2>2, <2>3
<1>10. ASSUME NEW q \in Nat PROVE KeptOn(q, output') \o Pending(q)' = KeptOn(q, SubSeq(K', 1, Passed'))
  <2> DEFINE before == KeptOn(q, output)
             past == KeptOn(q, SubSeq(K, 1, n))
             m == MeasureOf(q)
  <2>1. before \in Seq(Kept) /\ past \in Seq(Kept)
    BY <1>1, <1>2, OnType
  <2>2. KeptOn(q, SubSeq(K', 1, Passed')) = past \o KeptOn(q, <<k>>) /\ KeptOn(q, <<k>>) = IF q = p THEN <<m>> ELSE <<>>
    <3>1. SubSeq(K', 1, Passed') = SubSeq(K, 1, n) \o <<k>>
      BY <1>1
    <3>2. KeptOn(q, SubSeq(K, 1, n) \o <<k>>) = KeptOn(q, SubSeq(K, 1, n)) \o KeptOn(q, <<k>>)
      <4>1. <<k>> \in Seq(Kept)
        BY <1>1
      <4> QED
        BY <1>1, <4>1, OnConcat
    <3>3. KeptOn(q, <<k>>) = IF q \in Range(k.on) THEN <<k>> ELSE <<>>
      BY <1>1, OnOne
    <3> QED
      BY <1>5, <3>1, <3>2, <3>3
  <2>3. before \o (IF q \in held THEN <<m>> ELSE <<>>) = past
    BY <1>2 DEF Pending, held
  <2>4. Pending(q)' = IF q \in held \cup {p} THEN <<m>> ELSE <<>>
    BY <1>8 DEF Pending
  <2>5. KeptOn(q, output') = before
    BY <1>0
  <2> HIDE DEF before, past, m
  <2>6. CASE q = p
    <3>1. before \o <<>> = before
      BY <2>1, ConcatEmptySeq
    <3> QED
      BY <1>6, <2>2, <2>3, <2>4, <2>5, <2>6, <3>1
  <2>7. CASE q # p
    <3>1. past \o <<>> = past
      BY <2>1, ConcatEmptySeq
    <3> QED
      BY <2>2, <2>3, <2>4, <2>5, <2>7, <3>1
  <2> QED
    BY <2>6, <2>7
<1> QED
  BY <1>0, <1>1, <1>2, <1>8, <1>9, <1>10 DEF ReturningInv

(* What is still held back goes behind the rest.                             *)
LEMMA AllIsBack ==
  ASSUME ReturningInv, K \in Seq(Kept), K' = K, Return
  PROVE  DoneInv'
<1> DEFINE S == Range(measured)
           out == [i \in DOMAIN Ascending(S) |-> MeasureOf(Ascending(S)[i])]
<1>1. measured \in Seq(Nat) /\ output \in Seq(Kept)
      /\ \A q \in Nat : KeptOn(q, output) \o Pending(q) = KeptOn(q, SubSeq(K, 1, Passed))
  BY DEF ReturningInv
<1>2. left = <<>>
  BY DEF Return
<1>3. S \in SUBSET Nat /\ IsFiniteSet(S)
  BY <1>1, RangeOfSeq, RangeFinite
<1>4. Held = S
  BY DEF Held, Range
<1>5. output' = output \o out
  BY <1>4 DEF Return
<1> HIDE DEF S
<1>6. /\ out \in Seq(Kept)
      /\ \A q \in Nat : KeptOn(q, out) = IF q \in S THEN <<MeasureOf(q)>> ELSE <<>>
  BY <1>3, PendingOut
<1> HIDE DEF out
<1>7. SubSeq(K, 1, Passed) = K
  <2>1. Passed = Len(K) /\ Len(K) \in Nat
    BY <1>2, LenProperties DEF Passed
  <2> QED
    BY <2>1
<1>8. output' \in Seq(Kept)
  BY <1>1, <1>5, <1>6, ConcatProperties
<1>9. ASSUME NEW q \in Nat PROVE KeptOn(q, output') = KeptOn(q, K')
  <2>1. KeptOn(q, output') = KeptOn(q, output) \o KeptOn(q, out)
    BY <1>1, <1>5, <1>6, OnConcat
  <2>2. Pending(q) = KeptOn(q, out)
    BY <1>6 DEF Pending, S
  <2>3. KeptOn(q, output) \o Pending(q) = KeptOn(q, K)
    BY <1>1, <1>7
  <2> QED
    BY <2>1, <2>2, <2>3
<1> QED
  BY <1>8, <1>9 DEF DoneInv

(* No step of the way breaks it.                                             *)
LEMMA TketStep ==
  ASSUME Convertible, TketInv, [WalkNext]_walkVars
  PROVE  TketInv'
<1>1. backEnd' = backEnd
  BY DEF WalkNext, walkVars, Visit, VisitMeasure, Throw, Finish,
         ReturnGate, ReturnMeasure, Return, Done
<1> SUFFICES ASSUME backEnd.kind = "tket" PROVE TketInv'
  BY <1>1 DEF TketInv
<1>2. /\ place \in {"walking", "returning", "done", "refused"} /\ walked \in Seq(Walked)
      /\ place = "walking" => WalkingInv
      /\ place = "returning" => ReturningInv
      /\ place = "done" => DoneInv
  BY DEF TketInv
<1>3. K \in Seq(Kept)
  BY <1>2, IdentitiesGo DEF K
<1>4. ASSUME walked' = walked PROVE K' = K
  BY <1>4 DEF K
<1>5. CASE Visit
  <2>1. /\ place = "walking" /\ left # <<>> /\ ~ Refuses(backEnd, Head(left)) /\ Walk
        /\ measured' = measured /\ place' = place
    BY <1>5 DEF Visit, Walking
  <2>2. output' = output \o ToTket(Head(left))
    BY <1>5 DEF Visit, Written
  <2>3. Head(left).name \notin TketRefuses
    BY <2>1 DEF Refuses
  <2>4. WalkingInv' /\ walked' \in Seq(Walked)
    BY <1>1, <1>2, <2>1, <2>2, <2>3, WalkOn
  <2> QED
    BY <1>1, <2>1, <2>4 DEF TketInv
<1>6. CASE VisitMeasure
  <2>1. /\ place = "walking" /\ left # <<>> /\ Head(left).name = "Measure" /\ Walk
        /\ measured' = measured /\ place' = place /\ output' = output \o ToTket(Head(left))
    BY <1>6 DEF VisitMeasure, Walking
  <2>3. Head(left).name \notin TketRefuses
    BY <2>1 DEF TketRefuses
  <2>4. WalkingInv' /\ walked' \in Seq(Walked)
    BY <1>1, <1>2, <2>1, <2>3, WalkOn
  <2> QED
    BY <1>1, <2>1, <2>4 DEF TketInv
<1>7. CASE Throw
  BY <1>1, <1>2, <1>7 DEF Throw, TketInv
<1>8. CASE Finish
  <2>1. /\ place = "walking" /\ left = <<>> /\ place' = "returning" /\ left' = output
        /\ output' = <<>> /\ walked' = walked /\ measured' = measured
    BY <1>8 DEF Finish
  <2>2. ReturningInv'
    BY <1>2, <2>1, TurnBack
  <2> QED
    BY <1>1, <1>2, <2>1, <2>2 DEF TketInv
<1>9. CASE ReturnGate
  <2>1. place = "returning" /\ place' = place /\ walked' = walked
    BY <1>9 DEF ReturnGate, Returning
  <2>2. ReturningInv'
    BY <1>2, <1>3, <1>4, <1>9, <2>1, GoBack
  <2> QED
    BY <1>1, <1>2, <2>1, <2>2 DEF TketInv
<1>10. CASE ReturnMeasure
  <2>1. place = "returning" /\ place' = place /\ walked' = walked
    BY <1>10 DEF ReturnMeasure, Returning
  <2>2. ReturningInv'
    BY <1>2, <1>3, <1>4, <1>10, <2>1, HoldBack
  <2> QED
    BY <1>1, <1>2, <2>1, <2>2 DEF TketInv
<1>11. CASE Return
  <2>1. place = "returning" /\ place' = "done" /\ walked' = walked
    BY <1>11 DEF Return
  <2>2. DoneInv'
    BY <1>2, <1>3, <1>4, <1>11, <2>1, AllIsBack
  <2> QED
    BY <1>1, <1>2, <2>1, <2>2 DEF TketInv
<1>12. CASE Done \/ UNCHANGED walkVars
  BY <1>2, <1>12 DEF Done, walkVars, TketInv, WalkingInv, ReturningInv, DoneInv, Passed, K, Pending
<1> QED
  BY <1>5, <1>6, <1>7, <1>8, <1>9, <1>10, <1>11, <1>12 DEF WalkNext

(* At the end it says that every measurement is in place.                    *)
LEMMA TketWhenDone == ASSUME TketInv PROVE MeasurementsInPlace
<1> SUFFICES ASSUME place = "done", backEnd.kind = "tket",
                    NEW q \in UNION {QubitsOf(g) : g \in Range(walked)}
             PROVE  On(q, output) = On(q, WithoutIdentities(walked))
  BY DEF MeasurementsInPlace
<1>1. walked \in Seq(Walked) /\ DoneInv
  BY DEF TketInv
<1>2. q \in Nat
  <2>1. PICK g \in Range(walked) : q \in Range(g.on)
    BY DEF QubitsOf
  <2>2. g \in Walked
    BY <1>1, RangeOfSeq
  <2>3. g.on \in Seq(Nat)
    BY <2>2 DEF Walked, TketGates
  <2> QED
    BY <2>1, <2>3, RangeOfSeq
<1>3. WithoutIdentities(walked) = K /\ K \in Seq(Kept)
  BY <1>1, IdentitiesGo DEF K
<1>4. KeptOn(q, output) = KeptOn(q, K) /\ output \in Seq(Kept)
  BY <1>1, <1>2 DEF DoneInv
<1> QED
  BY <1>3, <1>4, OnIsOn

(* Whatever circuit goes to TKET and back, one with gates TKET has and no    *)
(* gate on two measurements held back: on each qubit, gates and measurements *)
(* are those of the circuit and in its order (tket_ir_converter.cpp,         *)
(* to_xacc).                                                                 *)
THEOREM MeasurementsComeBack ==
  ASSUME Convertible PROVE WalkSpec => []MeasurementsInPlace
<1>1. WalkInit => TketInv
  BY TasksAssumption, TketInitially
<1>2. TketInv /\ [WalkNext]_walkVars => TketInv'
  BY TketStep
<1>3. TketInv => MeasurementsInPlace
  BY TketWhenDone
<1> QED
  BY <1>1, <1>2, <1>3, PTL DEF WalkSpec
=============================================================================
