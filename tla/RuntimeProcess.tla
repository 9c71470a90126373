--------------------------- MODULE RuntimeProcess ---------------------------
(* API/api_runtime.py and API/mock_training_client.py: the server in a child *)
(* process behind two queues, and the client whose calls give up after       *)
(* request_timeout_s.  The child answers in order, but an answer may come    *)
(* after its call gave up; it then meets the next call.                      *)
EXTENDS Naturals, FiniteSets, Sequences

CONSTANT MaxCalls       \* bound: calls of the client

ASSUME CallsAssumption == MaxCalls \in Nat

VARIABLES
    child,      \* the RL Runtime process: its queues and its RLApiServer
    mock,       \* MockTrainingClient and the parent's RLApiServerProcess
    done        \* history: what the server made of every request_seq

runtimeVars == <<child, mock, done>>

NoId == 0
Statuses ==
    {"completed", "rejected", "faulted", "invalid_request", "session_sequence_gap",
     "session_instance_conflict"}
Calls == {"start_instance", "close_instance", "get_decision", "override"}
Stop == [id |-> NoId, seq |-> 0, op |-> "stop", instance |-> NoId, well_formed |-> TRUE]
Nothing == [op |-> "none", status |-> "none"]

RuntimeInit ==
    /\ child = [status |-> "running", in_queue |-> <<>>, out_queue |-> <<>>,
                last_seq |-> 0, active |-> NoId, serial |-> 0]
    /\ mock = [pc |-> "idle", next_internal_id |-> 0, request_seq |-> 1, instance |-> NoId,
               sent |-> Stop, returned |-> Nothing, closed |-> FALSE]
    /\ done = [n \in 1..MaxCalls |-> Nothing]

-----------------------------------------------------------------------------
(* The parent                                                              *)

(* An operation with a request_id other than the expected one is an        *)
(* "override": the server refuses it, and it uses up no request_seq.  A    *)
(* request that validate_request refuses for another reason does.          *)
NextSeq(op) == IF op = "override" THEN mock.request_seq ELSE mock.request_seq + 1

Call(op, well_formed) ==
    /\ mock.pc = "idle" /\ ~mock.closed /\ mock.next_internal_id < MaxCalls
    /\ LET m == [id |-> mock.next_internal_id + 1, seq |-> mock.request_seq, op |-> op,
                 instance |-> mock.instance, well_formed |-> well_formed]
       IN /\ child' = [child EXCEPT !.in_queue = Append(@, m)]
          /\ mock' = [mock EXCEPT !.pc = "waiting", !.next_internal_id = m.id,
                                  !.request_seq = NextSeq(op), !.sent = m, !.returned = Nothing]
    /\ UNCHANGED done

(* start_instance keeps the id of a completed start, close_instance        *)
(* forgets the id whatever it is answered.                                 *)
Returns(status, instance) ==
    mock' = [mock EXCEPT !.pc = "idle",
                         !.returned = [op |-> mock.sent.op, status |-> status],
                         !.instance = CASE mock.sent.op = "start_instance" /\ status = "completed" -> instance
                                        [] mock.sent.op = "close_instance" -> NoId
                                        [] OTHER -> @]

CallTimesOut ==
    /\ mock.pc = "waiting" /\ child.out_queue = <<>>
    /\ Returns("task_timeout", NoId)
    /\ UNCHANGED <<child, done>>

ExpectedAny(answer) == TRUE
Expected(answer) == answer.id = mock.next_internal_id

CallReturns ==
    /\ mock.pc = "waiting" /\ child.out_queue # <<>> /\ Expected(Head(child.out_queue))
    /\ Returns(Head(child.out_queue).status, Head(child.out_queue).instance)
    /\ child' = [child EXCEPT !.out_queue = Tail(@)]
    /\ UNCHANGED done

(* "received an out-of-order response": the operation has no effect on the *)
(* client, the answer is gone, the request stays with the child.           *)
CallRaises ==
    /\ mock.pc = "waiting" /\ child.out_queue # <<>> /\ ~Expected(Head(child.out_queue))
    /\ mock' = [mock EXCEPT !.pc = "idle"]
    /\ child' = [child EXCEPT !.out_queue = Tail(@)]
    /\ UNCHANGED done

(* close: ask the child to stop, wait for it, and end it if it does not.   *)
CloseProcess ==
    /\ mock.pc = "idle" /\ ~mock.closed
    /\ mock' = [mock EXCEPT !.pc = "joining", !.closed = TRUE]
    /\ child' = [child EXCEPT !.in_queue = Append(@, Stop)]
    /\ UNCHANGED done

JoinReturns ==
    /\ mock.pc = "joining" /\ child.status # "running"
    /\ mock' = [mock EXCEPT !.pc = "ended"]
    /\ UNCHANGED <<child, done>>

JoinTimesOut ==
    /\ mock.pc = "joining" /\ child.status = "running"
    /\ mock' = [mock EXCEPT !.pc = "ended"]
    /\ child' = [child EXCEPT !.status = "terminated"]
    /\ UNCHANGED done

-----------------------------------------------------------------------------
(* The child                                                               *)

Answered(m, status, instance) ==
    [child EXCEPT !.in_queue = Tail(@),
                  !.out_queue = Append(@, [id |-> m.id, status |-> status, instance |-> instance])]

(* validate_request, before the ledger sees the request: the request_id is *)
(* the expected one, the fields of the operation are well-formed, and every *)
(* operation but start_instance names an instance.                          *)
Validated(m) ==
    /\ m.op # "override"
    /\ m.well_formed
    /\ m.op = "start_instance" \/ m.instance # NoId

(* handle_request of RLApiServer: a start runs when the session owns no     *)
(* instance, the other operations on the instance it owns.                  *)
Outcomes(m) ==
    CASE ~Validated(m) -> {"invalid_request"}
      [] Validated(m) /\ m.seq # child.last_seq + 1 -> {"session_sequence_gap"}
      [] OTHER ->
           IF child.active # (IF m.op = "start_instance" THEN NoId ELSE m.instance)
           THEN {"session_instance_conflict"}
           ELSE IF m.op = "close_instance" THEN {"completed", "faulted"}
           ELSE {"completed", "rejected", "faulted"}

ChildServes(status) ==
    /\ child.status = "running" /\ child.in_queue # <<>>
    /\ LET m == Head(child.in_queue)
           admitted == status \notin {"invalid_request", "session_sequence_gap"}
           ran == admitted /\ status # "session_instance_conflict"
           starts == ran /\ m.op = "start_instance"
           serial == IF starts THEN child.serial + 1 ELSE child.serial
       IN /\ m # Stop
          /\ status \in Outcomes(m)
          /\ child' = [Answered(m, status, serial) EXCEPT
               !.serial = serial,
               !.last_seq = IF admitted THEN m.seq ELSE @,
               !.active = IF starts /\ status = "completed" THEN serial
                          ELSE IF ran /\ m.op = "close_instance" THEN NoId ELSE @]
          /\ done' = IF ran THEN [done EXCEPT ![m.seq] = [op |-> m.op, status |-> status]] ELSE done
    /\ UNCHANGED mock

(* The loop ends: close_all of the server.                                 *)
ChildStops ==
    /\ child.status = "running" /\ child.in_queue # <<>> /\ Head(child.in_queue) = Stop
    /\ child' = [child EXCEPT !.status = "exited", !.active = NoId]
    /\ UNCHANGED <<mock, done>>

(* The process dies: no call will be answered any more.                    *)
ChildDies ==
    /\ child.status = "running"
    /\ child' = [child EXCEPT !.status = "died"]
    /\ UNCHANGED <<mock, done>>

RuntimeNext ==
    \/ \E op \in Calls, well_formed \in BOOLEAN : Call(op, well_formed)
    \/ CallTimesOut \/ CallReturns \/ CallRaises
    \/ CloseProcess \/ JoinReturns \/ JoinTimesOut
    \/ \E status \in Statuses : ChildServes(status)
    \/ ChildStops \/ ChildDies

RuntimeSpec == RuntimeInit /\ [][RuntimeNext]_runtimeVars

-----------------------------------------------------------------------------
(***************************************************************************)
(* Whatever timed out before: what a call of the mock client returns as    *)
(* completed is what the server did with that very request, never the late *)
(* answer of another one; and no request in the queue uses a request_seq   *)
(* the ledger has seen, so none can be answered as a retry of another.     *)
(***************************************************************************)
CallsMatchTheRuntime ==
    /\ mock.returned.status = "completed" => done[mock.sent.seq] = mock.returned
    /\ \A i \in DOMAIN child.in_queue :
         LET m == child.in_queue[i] IN
         m.op \notin {"stop", "override"} =>
           /\ m.seq > child.last_seq
           /\ \A j \in 1..(i - 1) :
                child.in_queue[j].op # "override" => child.in_queue[j].seq < m.seq
=============================================================================
