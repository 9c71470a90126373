----------------------------- MODULE ApiSession -----------------------------
(***************************************************************************)
(* RLApiServer behind AsyncioTcpServer, and the Training clients that talk *)
(* to it.  Every client runs one logical session; a TCP stream may break   *)
(* at any time, after which the client reconnects (hello), checks the      *)
(* server_epoch and resends the identical unresolved request.  Frames left *)
(* on a broken stream may still be read by the server, or be lost with it. *)
(* A restart of the server loses its memory and every stream.              *)
(*                                                                         *)
(* The handler is serialized by _handler_lock: Admit is handle_request up  *)
(* to ledger.begin, the Execute actions are the rest.  Streams may break   *)
(* and the process may be restarted between the two.                       *)
(*                                                                         *)
(* Requests are well-formed (validate_request passes); a payload's SHA-256 *)
(* digest is the payload itself.                                           *)
(***************************************************************************)
EXTENDS Naturals, FiniteSets

CONSTANTS
    Sessions,       \* client_session_ids
    MaxSessions,    \* RLApiServer._max_sessions
    MaxSeq,         \* bound: requests a client makes
    MaxDrops,       \* bound: broken streams per client
    MaxEpoch        \* bound: server starts

ASSUME CapacityAssumption == MaxSessions \in Nat \ {0}
ASSUME BoundAssumption ==
    MaxSeq \in Nat /\ MaxDrops \in Nat /\ MaxEpoch \in Nat \ {0}

VARIABLES
    epoch,      \* server_epoch, a fresh one per start
    ledger,     \* _sessions: SessionLedger of every session
    instances,  \* keys of _instances
    serial,     \* last value of _instance_serial
    handler,    \* the request being executed, or Idle
    requests,   \* frames on their way to the server, with their stream
    responses,  \* frames on their way to the clients' present streams
    client,     \* the Training clients (external)
    executed    \* history: executions of request seq of a session

vars == <<epoch, ledger, instances, serial, handler, requests, responses,
          client, executed>>

NoInstance == 0
Seqs == 1..MaxSeq
Operations == {"start_instance", "close_instance", "dispatch"}

Payload ==
    [session : Sessions, seq : Seqs, op : Operations, instance : Nat]
NoPayload == [session |-> "none"]

PreExecutionFaults ==
    {"session_sequence_conflict", "session_sequence_gap", "session_capacity_exceeded"}
LifecycleFaults == {"session_instance_conflict", "unknown_instance"}

Response ==
    [session : Sessions, seq : Seqs, op : Operations,
     status : {"completed", "rejected", "faulted"},
     fault : PreExecutionFaults \cup LifecycleFaults \cup {"none"},
     instance : Nat, epoch : 1..MaxEpoch]
NoResponse == [status |-> "none"]

Idle == [stream |-> 0, payload |-> NoPayload]
Streams == 1..(MaxDrops + 1)

EmptyLedger ==
    [last_seq |-> 0, last_payload |-> NoPayload, last_response |-> NoResponse,
     active |-> NoInstance]

NewClient ==
    [mode |-> "new", seq |-> 1, pending |-> NoPayload, epoch |-> 0,
     instance |-> NoInstance, stream |-> 1]

Init ==
    /\ epoch = 1
    /\ ledger = [s \in Sessions |-> EmptyLedger]
    /\ instances = {}
    /\ serial = 0
    /\ handler = Idle
    /\ requests = {}
    /\ responses = {}
    /\ client = [s \in Sessions |-> NewClient]
    /\ executed = [s \in Sessions |-> [n \in Seqs |-> 0]]

(* A session record exists from its first admitted request on.             *)
Known == {s \in Sessions : ledger[s].last_seq > 0}

-----------------------------------------------------------------------------
(* The server.                                                             *)

(* _get_or_create_session, then SessionLedger.begin.                       *)
Verdict(p) ==
    LET l == ledger[p.session] IN
    IF p.session \notin Known
    THEN IF p.seq # 1 THEN "session_sequence_gap"
         ELSE IF Cardinality(Known) >= MaxSessions THEN "session_capacity_exceeded"
         ELSE "execute"
    ELSE IF p.seq = l.last_seq
    THEN IF p # l.last_payload \/ l.last_response = NoResponse
         THEN "session_sequence_conflict" ELSE "replay"
    ELSE IF p.seq # l.last_seq + 1 THEN "session_sequence_gap" ELSE "execute"

(* _wrap: the correlation fields are those of the request.                 *)
Wrap(p, status, fault, instance) ==
    [session |-> p.session, seq |-> p.seq, op |-> p.op, status |-> status,
     fault |-> fault, instance |-> instance, epoch |-> epoch]

(* A response goes out on the stream its request came in on; the client    *)
(* has only the last one of its streams open.                              *)
Sent(stream, r) ==
    IF client[r.session].stream = stream THEN {[stream |-> stream, response |-> r]} ELSE {}

AdmitWithoutReplay(m) ==
    /\ handler = Idle
    /\ requests' = requests \ {m}
    /\ IF Verdict(m.payload) = "execute"
       THEN /\ ledger' = [ledger EXCEPT ![m.payload.session].last_seq = m.payload.seq,
                                        ![m.payload.session].last_payload = m.payload,
                                        ![m.payload.session].last_response = NoResponse]
            /\ handler' = m
            /\ UNCHANGED responses
       ELSE /\ responses' = responses \cup
                 (IF Verdict(m.payload) = "replay" THEN {}
                  ELSE Sent(m.stream, Wrap(m.payload, "rejected", Verdict(m.payload), m.payload.instance)))
            /\ UNCHANGED <<ledger, handler>>
    /\ UNCHANGED <<epoch, instances, serial, client, executed>>

(* A capacity check that makes room by dropping an idle session record.    *)
AdmitEvicting(m) ==
    LET p == m.payload
        full == p.session \notin Known /\ p.seq = 1 /\ Cardinality(Known) >= MaxSessions
        old == CHOOSE s \in Known : TRUE
        base == IF full THEN [ledger EXCEPT ![old] = EmptyLedger] ELSE ledger
    IN /\ handler = Idle
       /\ requests' = requests \ {m}
       /\ IF full \/ Verdict(p) = "execute"
          THEN /\ ledger' = [base EXCEPT ![p.session].last_seq = p.seq,
                                         ![p.session].last_payload = p,
                                         ![p.session].last_response = NoResponse]
               /\ handler' = m
               /\ UNCHANGED responses
          ELSE /\ responses' = responses \cup Sent(m.stream,
                    IF Verdict(p) = "replay" THEN ledger[p.session].last_response
                    ELSE Wrap(p, "rejected", Verdict(p), p.instance))
               /\ UNCHANGED <<ledger, handler>>
       /\ UNCHANGED <<epoch, instances, serial, client, executed>>

(***************************************************************************)
(* A frame is read and the handler lock taken: a retry is answered from    *)
(* the ledger, an out-of-order request rejected without a trace in it, and *)
(* the next request of the session becomes the handler's.                  *)
(***************************************************************************)
Admit(m) ==
    /\ handler = Idle
    /\ requests' = requests \ {m}
    /\ IF Verdict(m.payload) = "execute"
       THEN /\ ledger' = [ledger EXCEPT ![m.payload.session].last_seq = m.payload.seq,
                                        ![m.payload.session].last_payload = m.payload,
                                        ![m.payload.session].last_response = NoResponse]
            /\ handler' = m
            /\ UNCHANGED responses
       ELSE /\ responses' = responses \cup Sent(m.stream,
                 IF Verdict(m.payload) = "replay"
                 THEN ledger[m.payload.session].last_response
                 ELSE Wrap(m.payload, "rejected", Verdict(m.payload), m.payload.instance))
            /\ UNCHANGED <<ledger, handler>>
    /\ UNCHANGED <<epoch, instances, serial, client, executed>>

(* ledger.complete(_wrap(...)) and the response frame, with the session's  *)
(* active_instance_id left at "active".                                    *)
Complete(status, fault, instance, active) ==
    LET p == handler.payload
        r == Wrap(p, status, fault, instance)
    IN /\ ledger' = [ledger EXCEPT ![p.session].last_response = r,
                                   ![p.session].active = active]
       /\ responses' = responses \cup Sent(handler.stream, r)
       /\ executed' = [executed EXCEPT ![p.session][p.seq] = @ + 1]
       /\ handler' = Idle
       /\ UNCHANGED <<epoch, requests, client>>

Active == ledger[handler.payload.session].active

Executing(op) == handler # Idle /\ handler.payload.op = op

(* start_instance: refused while the session owns an instance, ...         *)
StartConflict ==
    /\ Executing("start_instance")
    /\ Active # NoInstance
    /\ Complete("rejected", "session_instance_conflict", NoInstance, Active)
    /\ UNCHANGED <<instances, serial>>

(* ... a constructed instance becomes the session's, ...                   *)
StartCompletes ==
    /\ Executing("start_instance")
    /\ Active = NoInstance
    /\ serial' = serial + 1
    /\ instances' = instances \cup {serial + 1}
    /\ Complete("completed", "none", serial + 1, serial + 1)

(* ... and a failed start uses up the serial, closes and forgets it.       *)
StartFailsKeepingInstance ==
    /\ Executing("start_instance")
    /\ Active = NoInstance
    /\ serial' = serial + 1
    /\ instances' = instances \cup {serial + 1}
    /\ \E status \in {"rejected", "faulted"} :
         Complete(status, "none", NoInstance, NoInstance)

StartFails ==
    /\ Executing("start_instance")
    /\ Active = NoInstance
    /\ serial' = serial + 1
    /\ \E status \in {"rejected", "faulted"} :
         Complete(status, "none", NoInstance, NoInstance)
    /\ UNCHANGED instances

(* The ownership checks of every other operation.                          *)
OwnershipFault(p) ==
    IF Active # p.instance THEN "session_instance_conflict"
    ELSE IF p.instance \notin instances THEN "unknown_instance"
    ELSE "none"

Disowned ==
    /\ Executing("close_instance") \/ Executing("dispatch")
    /\ OwnershipFault(handler.payload) # "none"
    /\ Complete("rejected", OwnershipFault(handler.payload), handler.payload.instance, Active)
    /\ UNCHANGED <<instances, serial>>

(* _handle_close_instance: a faulting close removes the instance too.      *)
CloseFaultKeepsOwner ==
    /\ Executing("close_instance")
    /\ OwnershipFault(handler.payload) = "none"
    /\ instances' = instances \ {handler.payload.instance}
    /\ \/ Complete("completed", "none", handler.payload.instance, NoInstance)
       \/ Complete("faulted", "none", handler.payload.instance, Active)
    /\ UNCHANGED serial

CloseInstance ==
    /\ Executing("close_instance")
    /\ OwnershipFault(handler.payload) = "none"
    /\ instances' = instances \ {handler.payload.instance}
    /\ \E status \in {"completed", "faulted"} :
         Complete(status, "none", handler.payload.instance, NoInstance)
    /\ UNCHANGED serial

(* _dispatch of an instance operation.                                     *)
Dispatch ==
    /\ Executing("dispatch")
    /\ OwnershipFault(handler.payload) = "none"
    /\ \E status \in {"completed", "rejected", "faulted"} :
         Complete(status, "none", handler.payload.instance, Active)
    /\ UNCHANGED <<instances, serial>>

(* The process ends (crash or close_all) and a new one starts.             *)
Restart ==
    /\ epoch < MaxEpoch
    /\ epoch' = epoch + 1
    /\ ledger' = [s \in Sessions |-> EmptyLedger]
    /\ instances' = {}
    /\ serial' = 0
    /\ handler' = Idle
    /\ requests' = {}
    /\ responses' = {}
    /\ UNCHANGED <<client, executed>>

-----------------------------------------------------------------------------
(* The Training clients, as the transport contract binds them.             *)

Hello(s) ==
    /\ client[s].mode = "new"
    /\ client' = [client EXCEPT ![s].mode = "ready", ![s].epoch = epoch]
    /\ UNCHANGED <<epoch, ledger, instances, serial, handler, requests, responses, executed>>

(* A client names the instance it owns, or one it merely learned of.       *)
Request(s, op) ==
    /\ client[s].mode = "ready"
    /\ client[s].epoch = epoch
    /\ client[s].seq <= MaxSeq
    /\ \E i \in IF op = "start_instance" THEN {NoInstance} ELSE instances \cup {client[s].instance} :
         LET p == [session |-> s, seq |-> client[s].seq, op |-> op, instance |-> i] IN
         /\ client' = [client EXCEPT ![s].mode = "waiting", ![s].pending = p]
         /\ requests' = requests \cup {[stream |-> client[s].stream, payload |-> p]}
    /\ UNCHANGED <<epoch, ledger, instances, serial, handler, responses, executed>>

(* The stream breaks or the client times out: reconnect in the same epoch  *)
(* and resend the unresolved request.  What the old stream still carried   *)
(* to the server is delivered later or never; its responses are lost.      *)
Reconnect(s) ==
    /\ client[s].mode = "waiting"
    /\ client[s].epoch = epoch
    /\ client[s].stream <= MaxDrops
    /\ LET old == {m \in requests : m.payload.session = s}
           resent == [stream |-> client[s].stream + 1, payload |-> client[s].pending]
       IN \E kept \in {{}, old} : requests' = (requests \ old) \cup kept \cup {resent}
    /\ responses' = {r \in responses : r.response.session # s}
    /\ client' = [client EXCEPT ![s].stream = @ + 1]
    /\ UNCHANGED <<epoch, ledger, instances, serial, handler, executed>>

(* hello on reconnection reports another epoch: the session is given up.   *)
EpochChanged(s) ==
    /\ client[s].mode \in {"ready", "waiting"}
    /\ client[s].epoch # epoch
    /\ client' = [client EXCEPT ![s].mode = "invalid", ![s].pending = NoPayload]
    /\ UNCHANGED <<epoch, ledger, instances, serial, handler, requests, responses, executed>>

(* A correlated response resolves the request and advances the sequence,   *)
(* or ends the session.                                                    *)
Receive(s) ==
    \E m \in responses :
      LET r == m.response IN
      /\ r.session = s
      /\ client[s].mode = "waiting"
      /\ responses' = responses \ {m}
      /\ IF r.fault # "none"
         THEN client' = [client EXCEPT ![s].mode = "invalid", ![s].pending = NoPayload]
         ELSE client' = [client EXCEPT
                ![s].mode = "ready",
                ![s].pending = NoPayload,
                ![s].seq = @ + 1,
                ![s].instance =
                    IF r.op = "start_instance" /\ r.status = "completed" THEN r.instance
                    ELSE IF r.op = "close_instance" /\ r.status # "rejected" THEN NoInstance
                    ELSE @]
      /\ UNCHANGED <<epoch, ledger, instances, serial, handler, requests, executed>>

-----------------------------------------------------------------------------
ServerStep ==
    \/ \E m \in requests : Admit(m)
    \/ StartConflict \/ StartCompletes \/ StartFails
    \/ Disowned \/ CloseInstance \/ Dispatch

Next ==
    \/ ServerStep
    \/ Restart
    \/ \E s \in Sessions :
         \/ Hello(s)
         \/ \E op \in Operations : Request(s, op)
         \/ Reconnect(s) \/ EpochChanged(s) \/ Receive(s)

(***************************************************************************)
(* The event loop keeps reading frames and the handler returns; a client   *)
(* reads what arrives on its open stream and notices a lost server.        *)
(***************************************************************************)
Fairness ==
    /\ WF_vars(ServerStep)
    /\ \A s \in Sessions : WF_vars(Receive(s)) /\ WF_vars(EpochChanged(s))

Spec == Init /\ [][Next]_vars /\ Fairness

-----------------------------------------------------------------------------
(* The state of the server, the streams and the clients keeps its types.   *)
TypeOK ==
    /\ epoch \in 1..MaxEpoch
    /\ ledger \in [Sessions ->
         [last_seq : 0..MaxSeq, last_payload : Payload \cup {NoPayload},
          last_response : Response \cup {NoResponse}, active : Nat]]
    /\ serial \in Nat
    /\ instances \subseteq 1..serial
    /\ handler \in [stream : Streams, payload : Payload] \cup {Idle}
    /\ requests \subseteq [stream : Streams, payload : Payload]
    /\ responses \subseteq [stream : Streams, response : Response]
    /\ client \in [Sessions ->
         [mode : {"new", "ready", "waiting", "invalid"}, seq : 1..(MaxSeq + 1),
          pending : Payload \cup {NoPayload}, epoch : 0..MaxEpoch,
          instance : Nat, stream : Streams]]
    /\ executed \in [Sessions -> [Seqs -> Nat]]

(***************************************************************************)
(* No request is executed twice: not by a retry, not by a frame of a       *)
(* broken stream that arrives after later requests, not by a full session  *)
(* table, not across a restart.                                            *)
(***************************************************************************)
AtMostOnce == \A s \in Sessions, n \in Seqs : executed[s][n] <= 1

(***************************************************************************)
(* Whatever was lost on the way, a client with no open request agrees with *)
(* the server on the next sequence number and on the instance it owns; a   *)
(* client with an open request is at most that one request behind.         *)
(***************************************************************************)
ClientAgreesWithLedger ==
    \A s \in Sessions :
      client[s].epoch = epoch =>
        /\ client[s].mode = "ready" =>
             /\ ledger[s].last_seq + 1 = client[s].seq
             /\ ledger[s].active = client[s].instance
        /\ client[s].mode = "waiting" =>
             \/ /\ ledger[s].last_seq + 1 = client[s].seq
                /\ ledger[s].active = client[s].instance
             \/ /\ ledger[s].last_seq = client[s].seq
                /\ ledger[s].last_payload = client[s].pending

(***************************************************************************)
(* Every live instance is the active instance of exactly one session: a    *)
(* start that failed or a close that faulted leaves nothing behind.        *)
(***************************************************************************)
EveryInstanceIsOwned ==
    /\ \A i \in instances : Cardinality({s \in Sessions : ledger[s].active = i}) = 1
    /\ \A s \in Sessions : ledger[s].active \in instances \cup {NoInstance}

(***************************************************************************)
(* A request, once sent, is eventually answered or its session given up,   *)
(* however many streams break and servers restart on the way.              *)
(***************************************************************************)
RequestsResolve ==
    \A s \in Sessions : client[s].mode = "waiting" ~> client[s].mode # "waiting"
=============================================================================
