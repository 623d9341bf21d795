-------------------------------- MODULE Qdk --------------------------------
(***************************************************************************)
(* Execution on Quantum Brilliance hardware: qdk.cpp.                      *)
(*                                                                         *)
(* Every session that runs on a hardware device makes a qdk object, which  *)
(* talks HTTP to the device: it may reserve the device (PUT), asks for the *)
(* native gates (GET), submits the circuit (POST) and polls for the        *)
(* results (GET).  Each request is repeated while the device does not      *)
(* answer within HTTP_TIMEOUT.  A client is one such session, and a call   *)
(* is one run of it, with a new qdk object.                                *)
(*                                                                         *)
(* The network may lose a request or its answer, and may deliver a request *)
(* long after the client stopped waiting for it.  The device is external.  *)
(***************************************************************************)
EXTENDS Integers, Sequences, FiniteSets

CONSTANTS
    Clients,            \* the sessions that share the device
    HTTP_NUM_RETRIES,
    poll_retries,
    shots,              \* the shots of every circuit
    Settings            \* the settings the sessions may have: functions to Mode

ASSUME ClientsAssumption == IsFiniteSet(Clients)
ASSUME RetriesAssumption == HTTP_NUM_RETRIES \in Nat /\ poll_retries \in Nat
ASSUME ShotsAssumption == shots \in Nat

VARIABLES
    call,               \* the runs a session has begun
    mode,               \* its settings
    stage,              \* the request the run is at, or how it ended
    retry_count,
    polls,              \* the unsuccessful queries of poll_for_results
    circuit_id,
    counts,             \* what poll_for_results returns
    network,            \* the requests that have not reached the device
    jobs,               \* device: the circuits accepted, by id
    ran,                \* device: how many of them it has run
    holder              \* device: who reserved it

client == << call, mode, stage, retry_count, polls, circuit_id, counts >>
device == << jobs, ran, holder >>
vars == << client, network, device >>

\* The options of a session that its runs on hardware depend on, and the bound
\* on the number of its runs.
Mode == [exclusive_access : BOOLEAN, execute_circuit : BOOLEAN, calls : Nat]
ASSUME SettingsAssumption == Settings \subseteq [Clients -> Mode]

None == "none"
Requests == {"reserve", "gates", "submit", "poll"}
Ends == {"returned", "threw"}
NoId == 0
NoCounts == [id |-> NoId, tally |-> 0]

Init ==
    /\ call = [c \in Clients |-> 0]
    /\ mode \in Settings
    /\ stage = [c \in Clients |-> "returned"]
    /\ retry_count = [c \in Clients |-> 0]
    /\ polls = [c \in Clients |-> 0]
    /\ circuit_id = [c \in Clients |-> NoId]
    /\ counts = [c \in Clients |-> NoCounts]
    /\ network = {}
    /\ jobs = << >>
    /\ ran = 0
    /\ holder = None

----------------------------------------------------------------------------
(* The stages of execute_on_qb_hardware. *)

\* setup_hardware reserves the device if the options ask for it, and queries
\* the native gates if a circuit will be executed.
FirstRequest(m) ==
    IF m.exclusive_access THEN "reserve" ELSE IF m.execute_circuit THEN "gates" ELSE "returned"

\* What follows a request that was answered: the reservation's answer is not
\* looked at.
Following(kind, m) ==
    CASE kind = "reserve" -> IF m.execute_circuit THEN "gates" ELSE "returned"
      [] kind = "gates" -> "submit"
      [] kind = "submit" -> IF poll_retries = 0 THEN "returned" ELSE "poll"
      [] kind = "poll" -> "returned"

\* HTTP: the operation is called, as attempt a of the request next.
Request(c, next, a) ==
    [client |-> c, call |-> call'[c], kind |-> next, attempt |-> a, id |-> circuit_id'[c]]

\* The request the client waits for.
Awaited(c) ==
    [client |-> c, call |-> call[c], kind |-> stage[c], attempt |-> retry_count[c],
     id |-> circuit_id[c]]

\* The next request, or the end of the run; others are the requests that stay
\* on their way.
GoTo(c, next, others) ==
    /\ stage' = [stage EXCEPT ![c] = next]
    /\ retry_count' = [retry_count EXCEPT ![c] = 0]
    /\ network' = others \cup (IF next \in Requests THEN {Request(c, next, 0)} ELSE {})

\* A session's run makes a new qdk object and begins.
Begin(c) ==
    /\ stage[c] \in Ends
    /\ call[c] < mode[c].calls
    /\ call' = [call EXCEPT ![c] = @ + 1]
    /\ polls' = [polls EXCEPT ![c] = 0]
    /\ circuit_id' = [circuit_id EXCEPT ![c] = NoId]
    /\ counts' = [counts EXCEPT ![c] = NoCounts]
    /\ GoTo(c, FirstRequest(mode[c]), network)
    /\ UNCHANGED << mode, device >>

\* An exception leaves HTTP through every level of its recursion.  Each level
\* calls cancel(), which qdk does not override: no request follows from it.
Unwind(c, others) ==
    /\ UNCHANGED << call, mode, polls, circuit_id, counts >>
    /\ GoTo(c, "threw", others)

----------------------------------------------------------------------------
(* Status code 0: HTTP_TIMEOUT has passed without an answer. *)

\* A query nobody waits for any more has no effect and is forgotten; a
\* submission or a reservation may still reach the device.
Late(c) == {r \in network : r # Awaited(c) \/ r.kind \in {"reserve", "submit"}}

RepeatLimit_OneMore(c) == retry_count[c] <= HTTP_NUM_RETRIES
RepeatLimit(c) == retry_count[c] < HTTP_NUM_RETRIES

Repeat(c) ==
    /\ stage[c] \in Requests
    /\ RepeatLimit(c)
    /\ retry_count' = [retry_count EXCEPT ![c] = @ + 1]
    /\ UNCHANGED << call, mode, stage, polls, circuit_id, counts, device >>
    /\ network' = Late(c) \cup {Request(c, stage[c], retry_count'[c])}

GiveUp(c) ==
    /\ stage[c] \in Requests
    /\ ~RepeatLimit(c)
    /\ Unwind(c, Late(c))
    /\ UNCHANGED device

----------------------------------------------------------------------------
(***************************************************************************)
(* The answer reply to the request client c waits for.  Its status is "ok" *)
(* for code 200 with the text the caller needs, "wait" for code 425 or the *)
(* text null, which HTTP turns into an object without the caller's key,    *)
(* "garbled" for a text that is not JSON, "error" for any other code.      *)
(***************************************************************************)
Others(c) == network \ {Awaited(c)}

Refused_Swallowed(c, reply) ==
    /\ reply.status = "error"
    /\ UNCHANGED << call, mode, polls, circuit_id, counts >>
    /\ GoTo(c, Following(stage[c], mode[c]), Others(c))
Refused(c, reply) ==
    /\ reply.status = "error"
    /\ Unwind(c, Others(c))

\* The caller of Get or Post cannot read the text, or finds no id in it, and
\* throws.
Unreadable(c, reply) ==
    /\ \/ reply.status = "garbled" /\ stage[c] # "reserve"
       \/ reply.status = "wait" /\ stage[c] = "submit"
    /\ UNCHANGED << call, mode, polls, circuit_id, counts >>
    /\ GoTo(c, "threw", Others(c))

SetUp(c, reply) ==
    /\ \/ stage[c] = "reserve" /\ reply.status # "error"
       \/ stage[c] = "gates" /\ reply.status \in {"ok", "wait"}
    /\ UNCHANGED << call, mode, polls, circuit_id, counts >>
    /\ GoTo(c, Following(stage[c], mode[c]), Others(c))

\* processResponse
Submitted(c, reply) ==
    /\ stage[c] = "submit"
    /\ reply.status = "ok"
    /\ circuit_id' = [circuit_id EXCEPT ![c] = reply.id]
    /\ UNCHANGED << call, mode, polls, counts >>
    /\ GoTo(c, Following("submit", mode[c]), Others(c))

\* resultsReady: at most the shots asked for are counted.
Tally_OneMore(data) == IF data <= shots THEN data ELSE shots + 1
Tally(data) == IF data < shots THEN data ELSE shots

Ready_AnyAnswer(c, reply) ==
    /\ stage[c] = "poll"
    /\ reply.status \in {"ok", "wait"}
    /\ counts' = [counts EXCEPT ![c] = [id |-> circuit_id[c], tally |-> Tally(reply.data)]]
    /\ UNCHANGED << call, mode, polls, circuit_id >>
    /\ GoTo(c, Following("poll", mode[c]), Others(c))
Ready(c, reply) ==
    /\ stage[c] = "poll"
    /\ reply.status = "ok"
    /\ counts' = [counts EXCEPT ![c] = [id |-> circuit_id[c], tally |-> Tally(reply.data)]]
    /\ UNCHANGED << call, mode, polls, circuit_id >>
    /\ GoTo(c, Following("poll", mode[c]), Others(c))

\* No "data" yet: another turn of the loop in poll_for_results, which returns
\* what it has, no counts at all, when it has made its turns.
NotReady_Uncounted(c, reply) ==
    /\ stage[c] = "poll"
    /\ reply.status = "wait"
    /\ UNCHANGED << call, mode, polls, circuit_id, counts >>
    /\ GoTo(c, "poll", Others(c))
NotReady(c, reply) ==
    /\ stage[c] = "poll"
    /\ reply.status = "wait"
    /\ polls' = [polls EXCEPT ![c] = @ + 1]
    /\ UNCHANGED << call, mode, circuit_id, counts >>
    /\ GoTo(c, IF polls[c] + 1 < poll_retries THEN "poll" ELSE "returned", Others(c))

Receive(c, reply) ==
    \/ Refused(c, reply) \/ Unreadable(c, reply) \/ SetUp(c, reply) \/ Submitted(c, reply)
    \/ Ready(c, reply) \/ NotReady(c, reply)

----------------------------------------------------------------------------
(* The device and the network, as far as the code can tell. *)

\* The answer to request r reaches its client, if that still waits for it, or
\* is lost.
Answer(r, status, id, data) ==
    \/ /\ Awaited(r.client) = r
       /\ Receive(r.client, [status |-> status, id |-> id, data |-> data])
    \/ /\ network' = network \ {r}
       /\ UNCHANGED client

\* The request is lost, refused, put off (code 425), or answered with something
\* else than JSON.
Fails(r) ==
    /\ \E status \in {"error", "garbled", "wait"} : Answer(r, status, NoId, 0)
    /\ UNCHANGED device

\* A reservation is accepted when nobody else holds one.
Reserve(r) ==
    /\ r.kind = "reserve"
    /\ IF holder \in {None, r.client}
       THEN holder' = r.client /\ Answer(r, "ok", NoId, 0)
       ELSE UNCHANGED holder /\ Answer(r, "error", NoId, 0)
    /\ UNCHANGED << jobs, ran >>

NativeGates(r) ==
    /\ r.kind = "gates"
    /\ Answer(r, "ok", NoId, 0)
    /\ UNCHANGED device

\* A circuit is accepted unless somebody else reserved the device.
Accept(r) ==
    /\ r.kind = "submit"
    /\ IF holder \in {None, r.client}
       THEN /\ jobs' = Append(jobs, [client |-> r.client, call |-> r.call, attempt |-> r.attempt])
            /\ Answer(r, "ok", Len(jobs) + 1, 0)
       ELSE UNCHANGED jobs /\ Answer(r, "error", NoId, 0)
    /\ UNCHANGED << ran, holder >>

\* The device runs its circuits in the order of arrival, and may report more
\* shots than it was asked for.
RunCircuit ==
    /\ ran < Len(jobs)
    /\ ran' = ran + 1
    /\ UNCHANGED << client, network, jobs, holder >>

Results(r) ==
    /\ r.kind = "poll"
    /\ IF r.id <= ran
       THEN \E data \in {shots, shots + 1} : Answer(r, "ok", r.id, data)
       ELSE Answer(r, "wait", r.id, 0)
    /\ UNCHANGED device

Device ==
    \/ \E r \in network : Fails(r) \/ Reserve(r) \/ NativeGates(r) \/ Accept(r) \/ Results(r)
    \/ RunCircuit

TimeOut(c) == Repeat(c) \/ GiveUp(c)

Next == Device \/ \E c \in Clients : Begin(c) \/ TimeOut(c)

Spec == Init /\ [][Next]_vars

\* HTTP_TIMEOUT ends every wait.  Nothing is assumed of the network, of the
\* device or of the user.
FairSpec == Spec /\ \A c \in Clients : WF_vars(TimeOut(c))

----------------------------------------------------------------------------
\* The counts a run returns are those of its own circuit, which the device has
\* run, however many copies of it and of other circuits were submitted and
\* however late their answers: the id of the last answered submission is the
\* one that is polled.  They add up to at most the shots asked for, whatever the
\* device reports.
CountsAreOwn ==
    \A c \in Clients :
        counts[c] # NoCounts =>
            /\ counts[c].id \in 1..ran
            /\ jobs[counts[c].id].client = c
            /\ jobs[counts[c].id].call = call[c]
            /\ counts[c].tally <= shots

\* However often a submission is repeated because its answer did not come, and
\* however late the copies arrive, a run puts at most one circuit for each of
\* its attempts on the device.
Copies(c, k) == {i \in DOMAIN jobs : jobs[i].client = c /\ jobs[i].call = k}
CopiesBounded ==
    \A c \in Clients : \A k \in 1..call[c] : Cardinality(Copies(c, k)) <= HTTP_NUM_RETRIES + 1

\* Every run on hardware ends, even if the network and the device do nothing
\* any more: requests are repeated, and results queried, a limited number of
\* times.
EveryCallEnds == \A c \in Clients : stage[c] \in Requests ~> stage[c] \in Ends

============================================================================
