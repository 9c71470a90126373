------------------------- MODULE ApiTransportsProofs -------------------------
(***************************************************************************)
(* Proofs about the two transports of the API server, for any number of    *)
(* sessions, requests, broken streams and server starts, and of calls that *)
(* time out, raise or are answered late.                                   *)
(*                                                                         *)
(* ApiSession.  None of the three safety properties is inductive: what a   *)
(* late frame may do depends on what else of its session is under way.     *)
(* IInv says where the frames, the handler, the ledger and the responses   *)
(* of one session can stand relative to its client.  Everything that is    *)
(* still on its way belongs to the present epoch; what travels on the      *)
(* client's present stream is the one open request or its one response;    *)
(* and every other frame repeats a request the ledger has already seen.    *)
(*                                                                         *)
(* RuntimeProcess.  CallsMatchTheRuntime is not inductive either: it looks *)
(* at what a call has returned, and says nothing of the answer on its way. *)
(* RuntimeInv follows the client's newest request: while it is in the      *)
(* child's queue it is the request the client believes it sent, and once   *)
(* its answer is in the other queue, "done" tells the same story.  What    *)
(* "done" says of a request_seq is final, because a request runs only at   *)
(* the successor of the ledger's last one.                                 *)
(***************************************************************************)
EXTENDS ApiTransports, FiniteSetTheorems, TLAPS

(* The type of one Training client, as TypeOK has it.                      *)
ClientState ==
    [mode : {"new", "ready", "waiting", "invalid"}, seq : 1..(MaxSeq + 1),
     pending : Payload \cup {NoPayload}, epoch : 0..MaxEpoch,
     instance : Nat, stream : Streams]

(* What a client takes its instance to be after response r.                *)
InstanceAfter(s, r) ==
    IF r.op = "start_instance" /\ r.status = "completed" THEN r.instance
    ELSE IF r.op = "close_instance" /\ r.status # "rejected" THEN NoInstance
    ELSE client[s].instance

(* An open request is well-formed, and a session of another epoch is       *)
(* unknown to the server.                                                  *)
ClientInv ==
    \A s \in Sessions :
      /\ client[s].epoch <= epoch
      /\ client[s].mode = "new" =>
           /\ client[s] = NewClient
           /\ \A n \in Seqs : executed[s][n] = 0
      /\ client[s].mode = "waiting" =>
           /\ client[s].pending \in Payload
           /\ client[s].pending.session = s
           /\ client[s].pending.seq = client[s].seq
      /\ client[s].epoch # epoch => ledger[s] = EmptyLedger

(* A frame repeats an old request or is the open one, and only the open    *)
(* one is on the present stream.                                           *)
FrameInv ==
    \A m \in requests :
      LET s == m.payload.session IN
      /\ client[s].epoch = epoch
      /\ m.stream <= client[s].stream
      /\ m.payload.seq <= client[s].seq
      /\ client[s].mode = "ready" => m.payload.seq < client[s].seq
      /\ client[s].mode = "waiting" /\ m.payload.seq = client[s].seq =>
           m.payload = client[s].pending
      /\ m.stream = client[s].stream =>
           /\ client[s].mode = "waiting"
           /\ m.payload = client[s].pending
           /\ handler # Idle /\ handler.payload.session = s =>
                handler.stream # client[s].stream

(* The handler executes the last admitted request of its session, which    *)
(* has not been executed and which its client still waits for, if it has   *)
(* not given up.                                                           *)
HandlerInv ==
    handler # Idle =>
      LET s == handler.payload.session IN
      /\ client[s].epoch = epoch
      /\ client[s].mode \in {"waiting", "invalid"}
      /\ client[s].mode = "waiting" => handler.payload = client[s].pending
      /\ handler.stream <= client[s].stream
      /\ handler.stream = client[s].stream => client[s].mode = "waiting"
      /\ ledger[s].last_seq = handler.payload.seq
      /\ ledger[s].last_payload = handler.payload
      /\ ledger[s].last_response = NoResponse
      /\ executed[s][handler.payload.seq] = 0

(* A response is the only message of its session on the present stream,    *)
(* and one without a fault is the ledger's.                                *)
ResponseInv ==
    \A m \in responses :
      LET s == m.response.session IN
      /\ client[s].epoch = epoch
      /\ client[s].mode = "waiting"
      /\ m.stream = client[s].stream
      /\ \A k \in responses : k.response.session = s => k = m
      /\ \A f \in requests : f.payload.session = s => f.stream # client[s].stream
      /\ handler # Idle /\ handler.payload.session = s =>
           handler.stream # client[s].stream
      /\ m.response.fault = "none" =>
           /\ m.response = ledger[s].last_response
           /\ ledger[s].last_seq = client[s].seq

(* The client is level with the ledger, or one request behind it.          *)
Level(s) ==
    /\ ledger[s].last_seq + 1 = client[s].seq
    /\ ledger[s].active = client[s].instance

Behind(s) ==
    /\ ledger[s].last_seq = client[s].seq
    /\ ledger[s].last_payload = client[s].pending
    /\ ledger[s].last_response = NoResponse =>
         /\ handler # Idle /\ handler.payload.session = s
         /\ ledger[s].active = client[s].instance
    /\ ledger[s].last_response # NoResponse /\ ledger[s].last_response.fault = "none" =>
         ledger[s].active = InstanceAfter(s, ledger[s].last_response)

AgreeInv ==
    \A s \in Sessions :
      /\ ledger[s].last_response # NoResponse => ledger[s].last_response.session = s
      /\ client[s].epoch = epoch /\ client[s].mode = "ready" => Level(s)
      /\ client[s].epoch = epoch /\ client[s].mode = "waiting" => Level(s) \/ Behind(s)

(* Only requests up to the ledger's last one have been executed.           *)
ExecutedInv ==
    \A s \in Sessions, n \in Seqs :
      /\ executed[s][n] <= 1
      /\ client[s].epoch = epoch /\ n > ledger[s].last_seq => executed[s][n] = 0

(* Live instances and sessions that have one are in bijection.             *)
OwnerInv ==
    /\ \A s \in Sessions : ledger[s].active # NoInstance => ledger[s].active \in instances
    /\ \A s, t \in Sessions :
         ledger[s].active = ledger[t].active /\ ledger[s].active # NoInstance => s = t
    /\ \A i \in instances : \E s \in Sessions : ledger[s].active = i

IInv ==
    /\ TypeOK
    /\ ClientInv
    /\ FrameInv
    /\ HandlerInv
    /\ ResponseInv
    /\ AgreeInv
    /\ ExecutedInv
    /\ OwnerInv

-----------------------------------------------------------------------------
(* The None-markers of the code are none of the values they stand in for,  *)
(* and Idle is no admitted frame.                                          *)
LEMMA NoneMarkers ==
    /\ NoPayload \notin Payload
    /\ NoResponse \notin Response
    /\ Idle \notin [stream : Streams, payload : Payload]
<1>1. NoPayload \notin Payload
  BY DEF NoPayload, Payload
<1>2. NoResponse \notin Response
  BY DEF NoResponse, Response
<1>3. Idle \notin [stream : Streams, payload : Payload]
  BY BoundAssumption DEF Idle, Streams
<1> QED
  BY <1>1, <1>2, <1>3

LEMMA InitIInv == Init => IInv
<1> SUFFICES ASSUME Init PROVE IInv
  OBVIOUS
<1> USE BoundAssumption
<1>1. TypeOK
  BY DEF Init, TypeOK, EmptyLedger, NewClient, Seqs, NoInstance, Streams
<1>2. ClientInv
  BY DEF Init, ClientInv, EmptyLedger, NewClient, Seqs
<1>3. FrameInv /\ HandlerInv /\ ResponseInv
  BY DEF Init, FrameInv, HandlerInv, ResponseInv
<1>4. AgreeInv
  BY DEF Init, AgreeInv, EmptyLedger, NewClient
<1>5. ExecutedInv
  BY DEF Init, ExecutedInv, EmptyLedger, Seqs
<1>6. OwnerInv
  BY DEF Init, OwnerInv, EmptyLedger, NoInstance
<1> QED
  BY <1>1, <1>2, <1>3, <1>4, <1>5, <1>6 DEF IInv

(***************************************************************************)
(* Completing the handler's request keeps the invariant, whatever the      *)
(* operation did, provided that it kept live instances and sessions in     *)
(* bijection and, unless it reports a fault, left the session the instance *)
(* that its client will conclude from the response.                        *)
(***************************************************************************)
LEMMA CompleteIInv ==
    ASSUME IInv, handler # Idle,
           NEW status \in {"completed", "rejected", "faulted"},
           NEW fault \in LifecycleFaults \cup {"none"},
           NEW i \in Nat, NEW active \in Nat,
           Complete(status, fault, i, active),
           serial' \in Nat, instances' \subseteq 1..serial', OwnerInv',
           client[handler.payload.session].mode = "waiting" /\ fault = "none" =>
             active = InstanceAfter(handler.payload.session,
                                    Wrap(handler.payload, status, fault, i))
    PROVE  IInv'
<1> DEFINE p == handler.payload
           s == p.session
           r == Wrap(p, status, fault, i)
<1> USE BoundAssumption
<1>1. /\ handler \in [stream : Streams, payload : Payload]
      /\ p \in Payload /\ s \in Sessions /\ p.seq \in Seqs
      /\ p.seq \in Nat
  BY DEF IInv, TypeOK, Payload, Seqs
<1>2. /\ r \in Response /\ r # NoResponse
      /\ r.session = s /\ r.fault = fault
  <2>1. r \in Response
    BY <1>1 DEF IInv, TypeOK, Wrap, Response, Payload
  <2> QED
    BY <2>1, NoneMarkers DEF Wrap
<1>3. /\ ledger' \in [Sessions ->
           [last_seq : 0..MaxSeq, last_payload : Payload \cup {NoPayload},
            last_response : Response \cup {NoResponse}, active : Nat]]
      /\ ledger'[s].last_seq = ledger[s].last_seq
      /\ ledger'[s].last_payload = ledger[s].last_payload
      /\ ledger'[s].last_response = r
      /\ ledger'[s].active = active
      /\ \A u \in Sessions : u # s => ledger'[u] = ledger[u]
  <2> DEFINE Entry == [last_seq : 0..MaxSeq, last_payload : Payload \cup {NoPayload},
                       last_response : Response \cup {NoResponse}, active : Nat]
             entry == [ledger[s] EXCEPT !.last_response = r, !.active = active]
  <2>1. ledger \in [Sessions -> Entry]
    BY DEF IInv, TypeOK
  <2>2. ledger' = [ledger EXCEPT ![s].last_response = r, ![s].active = active]
    BY DEF Complete
  <2> HIDE DEF p, s, r
  <2>3. ledger[s] \in Entry
    BY <1>1, <2>1
  <2>4. /\ entry \in Entry
        /\ entry.last_seq = ledger[s].last_seq
        /\ entry.last_payload = ledger[s].last_payload
        /\ entry.last_response = r /\ entry.active = active
    BY <1>2, <2>3
  <2>5. ledger' = [ledger EXCEPT ![s] = entry]
    BY <1>1, <2>1, <2>2
  <2> HIDE DEF Entry, entry
  <2>6. /\ ledger' \in [Sessions -> Entry] /\ ledger'[s] = entry
        /\ \A u \in Sessions : u # s => ledger'[u] = ledger[u]
    BY <1>1, <2>1, <2>4, <2>5
  <2> QED
    BY <2>4, <2>6 DEF Entry
<1>4. /\ executed' \in [Sessions -> [Seqs -> Nat]]
      /\ executed'[s][p.seq] = executed[s][p.seq] + 1
      /\ \A u \in Sessions, n \in Seqs :
           u # s \/ n # p.seq => executed'[u][n] = executed[u][n]
  BY <1>1 DEF IInv, TypeOK, Complete
<1>5. /\ handler' = Idle
      /\ epoch' = epoch /\ requests' = requests /\ client' = client
      /\ responses' = responses \cup Sent(handler.stream, r)
  BY DEF Complete
<1>6. \A m \in responses' :
        \/ m \in responses
        \/ /\ m = [stream |-> handler.stream, response |-> r]
           /\ client[s].stream = handler.stream
  BY <1>2, <1>5 DEF Sent
<1>7. /\ client[s].epoch = epoch
      /\ client[s].mode \in {"waiting", "invalid"}
      /\ client[s].mode = "waiting" => p = client[s].pending
      /\ handler.stream = client[s].stream => client[s].mode = "waiting"
      /\ ledger[s].last_seq = p.seq
      /\ ledger[s].last_payload = p
      /\ executed[s][p.seq] = 0
  BY DEF IInv, HandlerInv
<1>8. client[s].mode = "waiting" => client[s].seq = p.seq
  BY <1>1, <1>7 DEF IInv, ClientInv
<1>9. TypeOK'
  <2>1. responses' \subseteq [stream : Streams, response : Response]
    BY <1>1, <1>2, <1>6 DEF IInv, TypeOK
  <2> QED
    BY <1>3, <1>4, <1>5, <2>1 DEF IInv, TypeOK
<1>10. ClientInv'
  <2>1. \A u \in Sessions : client[u].mode = "new" => u # s
    BY <1>7
  <2>2. \A u \in Sessions : client[u].epoch # epoch => u # s
    BY <1>7
  <2> QED
    BY <1>3, <1>4, <1>5, <2>1, <2>2 DEF IInv, ClientInv
<1>11. FrameInv'
  BY <1>5 DEF IInv, FrameInv
<1>12. HandlerInv'
  BY <1>5 DEF HandlerInv
<1>13. ResponseInv'
  <2> SUFFICES ASSUME NEW m \in responses' PROVE
        LET u == m.response.session IN
        /\ client[u].epoch = epoch
        /\ client[u].mode = "waiting"
        /\ m.stream = client[u].stream
        /\ \A k \in responses' : k.response.session = u => k = m
        /\ \A f \in requests : f.payload.session = u => f.stream # client[u].stream
        /\ m.response.fault = "none" =>
             /\ m.response = ledger'[u].last_response
             /\ ledger'[u].last_seq = client[u].seq
    BY <1>5 DEF ResponseInv
  <2>1. CASE m \in responses
    <3>1. ~(m.response.session = s /\ handler.stream = client[s].stream)
      BY <2>1 DEF IInv, ResponseInv
    <3>2. m.response \in Response /\ m.response.session \in Sessions
      BY <2>1 DEF IInv, TypeOK, Response
    <3>3. m.response.session = s => m.response.fault # "none"
      BY <2>1, <3>2, NoneMarkers DEF IInv, ResponseInv, HandlerInv
    <3> QED
      BY <2>1, <1>2, <1>3, <1>6, <3>1, <3>2, <3>3 DEF IInv, ResponseInv
  <2>2. CASE m \notin responses
    <3>1. /\ m.response = r /\ m.stream = handler.stream
          /\ client[s].stream = handler.stream
      BY <2>2, <1>6
    <3>2. \A k \in responses : k.response.session # s
      BY <3>1 DEF IInv, ResponseInv
    <3>3. \A f \in requests : f.payload.session = s => f.stream # client[s].stream
      BY <3>1 DEF IInv, FrameInv
    <3> QED
      BY <1>2, <1>3, <1>6, <1>7, <1>8, <2>2, <3>1, <3>2, <3>3
  <2> QED
    BY <2>1, <2>2
<1>14. AgreeInv'
  BY <1>1, <1>2, <1>3, <1>5, <1>7, <1>8 DEF IInv, AgreeInv, Level, Behind, InstanceAfter
<1>15. ExecutedInv'
  BY <1>1, <1>3, <1>4, <1>5, <1>7 DEF IInv, ExecutedInv
<1> QED
  BY <1>9, <1>10, <1>11, <1>12, <1>13, <1>14, <1>15 DEF IInv

(* The operations, from CompleteIInv.                                      *)
LEMMA ExecuteIInv ==
    ASSUME IInv,
           \/ StartConflict \/ StartCompletes \/ StartFails
           \/ Disowned \/ CloseInstance \/ Dispatch
    PROVE  IInv'
<1> DEFINE p == handler.payload
           s == p.session
<1> USE BoundAssumption DEF Active
<1>1. handler # Idle
  BY DEF StartConflict, StartCompletes, StartFails, Disowned, CloseInstance, Dispatch,
         Executing
<1>2. /\ p \in Payload /\ s \in Sessions /\ p.instance \in Nat
      /\ Active \in Nat /\ NoInstance \in Nat
      /\ serial \in Nat /\ instances \subseteq 1..serial
      /\ ledger \in [Sessions ->
           [last_seq : 0..MaxSeq, last_payload : Payload \cup {NoPayload},
            last_response : Response \cup {NoResponse}, active : Nat]]
  BY <1>1 DEF IInv, TypeOK, Payload, NoInstance
<1>3. client[s].mode = "waiting" => Active = client[s].instance
  <2>1. /\ client[s].epoch = epoch /\ ledger[s].last_seq = p.seq
        /\ ledger[s].last_response = NoResponse
        /\ client[s].mode = "waiting" => client[s].pending = p
    BY <1>1 DEF IInv, HandlerInv
  <2>2. client[s].mode = "waiting" => client[s].seq = p.seq
    BY <1>2, <2>1 DEF IInv, ClientInv
  <2>3. p.seq \in Nat
    BY <1>2 DEF Payload, Seqs
  <2> QED
    BY <1>2, <2>1, <2>2, <2>3 DEF IInv, AgreeInv, Level, Behind
<1>4. ASSUME NEW status, NEW fault, NEW i, NEW active \in Nat,
             Complete(status, fault, i, active)
      PROVE  /\ ledger'[s].active = active
             /\ \A u \in Sessions : u # s => ledger'[u] = ledger[u]
  BY <1>2, <1>4 DEF Complete
<1>5. CASE StartConflict
  <2>1. OwnerInv'
    BY <1>2, <1>4, <1>5 DEF StartConflict, IInv, OwnerInv
  <2> QED
    BY <1>1, <1>2, <1>5, <2>1, CompleteIInv
    DEF StartConflict, LifecycleFaults
<1>6. CASE StartCompletes
  <2>1. serial + 1 \notin instances
    BY <1>2
  <2>2. OwnerInv'
    BY <1>2, <1>4, <1>6, <2>1 DEF StartCompletes, IInv, OwnerInv, NoInstance
  <2>3. serial' \in Nat /\ instances' \subseteq 1..serial'
    BY <1>2, <1>6 DEF StartCompletes
  <2>4. InstanceAfter(s, Wrap(p, "completed", "none", serial + 1)) = serial + 1
    BY <1>6 DEF StartCompletes, Executing, InstanceAfter, Wrap
  <2> QED
    BY <1>1, <1>2, <1>6, <2>2, <2>3, <2>4, CompleteIInv DEF StartCompletes
<1>7. CASE StartFails
  <2>1. PICK status \in {"rejected", "faulted"} :
          Complete(status, "none", NoInstance, NoInstance)
    BY <1>7 DEF StartFails
  <2>2. OwnerInv'
    BY <1>2, <1>4, <1>7, <2>1 DEF StartFails, IInv, OwnerInv, NoInstance
  <2>3. serial' \in Nat /\ instances' \subseteq 1..serial'
    BY <1>2, <1>7 DEF StartFails
  <2>4. InstanceAfter(s, Wrap(p, status, "none", NoInstance)) = client[s].instance
    BY <1>7 DEF StartFails, Executing, InstanceAfter, Wrap
  <2>5. Active = NoInstance /\ status \in {"completed", "rejected", "faulted"}
    BY <1>7, <2>1 DEF StartFails
  <2> QED
    BY <1>1, <1>2, <1>3, <2>1, <2>2, <2>3, <2>4, <2>5, CompleteIInv
<1>8. CASE Disowned
  <2>1. OwnershipFault(p) \in LifecycleFaults
    BY <1>8 DEF Disowned, OwnershipFault, LifecycleFaults
  <2>2. OwnerInv'
    BY <1>2, <1>4, <1>8 DEF Disowned, IInv, OwnerInv
  <2> QED
    BY <1>1, <1>2, <1>8, <2>1, <2>2, CompleteIInv DEF Disowned, LifecycleFaults
<1>9. CASE CloseInstance
  <2>1. PICK status \in {"completed", "faulted"} :
          Complete(status, "none", p.instance, NoInstance)
    BY <1>9 DEF CloseInstance
  <2>2. Active = p.instance /\ p.instance \in instances
    BY <1>9 DEF CloseInstance, OwnershipFault
  <2>3. OwnerInv'
    BY <1>2, <1>4, <1>9, <2>1, <2>2 DEF CloseInstance, IInv, OwnerInv, NoInstance
  <2>4. InstanceAfter(s, Wrap(p, status, "none", p.instance)) = NoInstance
    BY <1>9 DEF CloseInstance, Executing, InstanceAfter, Wrap
  <2>5. serial' \in Nat /\ instances' \subseteq 1..serial'
    BY <1>2, <1>9 DEF CloseInstance
  <2>6. status \in {"completed", "rejected", "faulted"}
    BY <2>1
  <2> QED
    BY <1>1, <1>2, <2>1, <2>3, <2>4, <2>5, <2>6, CompleteIInv
<1>10. CASE Dispatch
  <2>1. PICK status \in {"completed", "rejected", "faulted"} :
          Complete(status, "none", p.instance, Active)
    BY <1>10 DEF Dispatch
  <2>2. OwnerInv'
    BY <1>2, <1>4, <1>10, <2>1 DEF Dispatch, IInv, OwnerInv
  <2>3. InstanceAfter(s, Wrap(p, status, "none", p.instance)) = client[s].instance
    BY <1>10 DEF Dispatch, Executing, InstanceAfter, Wrap
  <2> QED
    BY <1>1, <1>2, <1>3, <1>10, <2>1, <2>2, <2>3, CompleteIInv DEF Dispatch
<1> QED
  BY <1>5, <1>6, <1>7, <1>8, <1>9, <1>10

(* What each verdict on a request says about the ledger.                   *)
LEMMA VerdictCases ==
    ASSUME TypeOK, NEW p \in Payload
    PROVE  /\ Verdict(p) \in PreExecutionFaults \cup {"replay", "execute"}
           /\ Verdict(p) = "execute" => p.seq = ledger[p.session].last_seq + 1
           /\ Verdict(p) = "replay" =>
                /\ p.seq = ledger[p.session].last_seq
                /\ ledger[p.session].last_response # NoResponse
<1>1. p.session \in Sessions /\ ledger[p.session].last_seq \in Nat
  BY BoundAssumption DEF TypeOK, Payload
<1>2. p.session \notin Known => ledger[p.session].last_seq = 0
  BY <1>1 DEF Known
<1> QED
  BY <1>1, <1>2 DEF Verdict, PreExecutionFaults

(* Two frames with the same stream and the same request are one.           *)
LEMMA FramesAreRecords ==
    ASSUME NEW m \in [stream : Streams, payload : Payload],
           NEW f \in [stream : Streams, payload : Payload],
           m.stream = f.stream, m.payload = f.payload
    PROVE  m = f
OBVIOUS

(* A frame on the present stream is the only one, and no response is.      *)
LEMMA PresentFrame ==
    ASSUME IInv, NEW m \in requests,
           m.stream = client[m.payload.session].stream
    PROVE  LET s == m.payload.session IN
           /\ client[s].mode = "waiting"
           /\ m.payload = client[s].pending
           /\ m.payload.seq = client[s].seq
           /\ handler # Idle /\ handler.payload.session = s =>
                handler.stream # client[s].stream
           /\ \A f \in requests \ {m} :
                f.payload.session = s => f.stream # client[s].stream
           /\ \A k \in responses : k.response.session # s
<1> DEFINE s == m.payload.session
<1>1. /\ client[s].mode = "waiting"
      /\ m.payload = client[s].pending
      /\ handler # Idle /\ handler.payload.session = s =>
           handler.stream # client[s].stream
  BY DEF IInv, FrameInv
<1>2. \A f \in requests \ {m} :
        f.payload.session = s => f.stream # client[s].stream
  <2> SUFFICES ASSUME NEW f \in requests, f.payload.session = s,
                      f.stream = client[s].stream
               PROVE  f = m
    OBVIOUS
  <2>1. f.payload = client[s].pending
    BY DEF IInv, FrameInv
  <2> QED
    BY <1>1, <2>1, FramesAreRecords DEF IInv, TypeOK
<1>3. \A k \in responses : k.response.session # s
  BY DEF IInv, ResponseInv
<1>4. m.payload.seq = client[s].seq
  BY <1>1 DEF IInv, TypeOK, ClientInv, Payload
<1> QED
  BY <1>1, <1>2, <1>3, <1>4

(***************************************************************************)
(* Reading a frame.  Only the open request of its session can be the next  *)
(* one of the ledger, so a late frame never executes; and an answer goes   *)
(* out only to the frame on the present stream.                            *)
(***************************************************************************)
LEMMA AdmitIInv ==
    ASSUME IInv, NEW m \in requests, Admit(m)
    PROVE  IInv'
<1> DEFINE p == m.payload
           s == p.session
           l == ledger[s]
<1> USE BoundAssumption
<1>1. /\ m \in [stream : Streams, payload : Payload]
      /\ p \in Payload /\ s \in Sessions
      /\ p.seq \in Seqs /\ p.seq \in Nat /\ p.instance \in Nat
      /\ l.last_seq \in Nat /\ client[s].seq \in Nat
  BY DEF IInv, TypeOK, Payload, Seqs
<1>2. /\ client[s].epoch = epoch
      /\ m.stream <= client[s].stream
      /\ client[s].mode = "ready" => p.seq < client[s].seq
      /\ p.seq <= client[s].seq
      /\ client[s].mode = "waiting" /\ p.seq = client[s].seq => p = client[s].pending
      /\ m.stream = client[s].stream => client[s].mode = "waiting"
  BY DEF IInv, FrameInv
<1>3. client[s].mode # "new"
  BY <1>1, <1>2 DEF IInv, TypeOK, ClientInv, NewClient
<1>4. /\ requests' = requests \ {m} /\ handler = Idle
      /\ epoch' = epoch /\ instances' = instances /\ serial' = serial
      /\ client' = client /\ executed' = executed
  BY DEF Admit
<1>5. CASE Verdict(p) = "execute"
  <2>1. /\ handler' = m /\ responses' = responses
        /\ ledger' \in [Sessions ->
             [last_seq : 0..MaxSeq, last_payload : Payload \cup {NoPayload},
              last_response : Response \cup {NoResponse}, active : Nat]]
        /\ ledger'[s].last_seq = p.seq
        /\ ledger'[s].last_payload = p
        /\ ledger'[s].last_response = NoResponse
        /\ ledger'[s].active = l.active
        /\ \A u \in Sessions : u # s => ledger'[u] = ledger[u]
    <3>1. p.seq \in 0..MaxSeq
      BY <1>1 DEF Seqs
    <3>2. ledger' = [ledger EXCEPT ![s] =
                       [last_seq |-> p.seq, last_payload |-> p,
                        last_response |-> NoResponse, active |-> l.active]]
      BY <1>1, <1>5 DEF Admit, IInv, TypeOK
    <3>3. handler' = m /\ responses' = responses
      BY <1>5 DEF Admit
    <3> QED
      BY <1>1, <3>1, <3>2, <3>3 DEF IInv, TypeOK
  <2>2. p.seq = l.last_seq + 1
    BY <1>1, <1>5, VerdictCases DEF IInv
  <2>3. /\ client[s].mode \in {"waiting", "invalid"}
        /\ client[s].mode = "waiting" => Level(s) /\ p = client[s].pending
    <3>1. client[s].mode # "ready"
      BY <1>1, <1>2, <2>2 DEF IInv, AgreeInv, Level
    <3>2. client[s].mode = "waiting" => Level(s)
      BY <1>1, <1>2, <2>2 DEF IInv, AgreeInv, Behind
    <3> QED
      BY <1>1, <1>2, <1>3, <2>2, <3>1, <3>2 DEF IInv, TypeOK, Level
  <2>4. executed[s][p.seq] = 0
    BY <1>1, <1>2, <2>2 DEF IInv, ExecutedInv
  <2>5. TypeOK'
    BY <1>1, <1>4, <2>1 DEF IInv, TypeOK
  <2>6. ClientInv'
    <3>1. \A u \in Sessions : client[u].epoch # epoch => u # s
      BY <1>2
    <3> QED
      BY <1>4, <2>1, <3>1 DEF IInv, ClientInv
  <2>7. FrameInv'
    <3>1. ASSUME NEW f \in requests \ {m}, f.payload.session = s,
                 f.stream = client[s].stream
          PROVE  m.stream # client[s].stream
      BY <3>1, PresentFrame
    <3> QED
      BY <1>4, <2>1, <3>1 DEF IInv, FrameInv
  <2>8. HandlerInv'
    BY <1>2, <1>4, <2>1, <2>3, <2>4 DEF HandlerInv
  <2>9. ResponseInv'
    <3>1. ASSUME NEW k \in responses, k.response.session = s
          PROVE  k.response.fault # "none" /\ m.stream # client[s].stream
      BY <1>1, <2>3, <3>1 DEF IInv, ResponseInv, Level
    <3>2. \A k \in responses : k.response.session \in Sessions
      BY DEF IInv, TypeOK, Response
    <3> QED
      BY <1>4, <2>1, <3>1, <3>2 DEF IInv, ResponseInv
  <2>10. AgreeInv'
    <3>1. handler' # Idle
      BY <1>1, <2>1, NoneMarkers
    <3>2. client[s].mode = "waiting" => Behind(s)'
      BY <1>1, <1>4, <2>1, <2>2, <2>3, <3>1 DEF Level, Behind
    <3>3. ASSUME NEW u \in Sessions, u # s
          PROVE  (Level(u) => Level(u)') /\ (Behind(u) => Behind(u)')
      BY <1>4, <2>1, <3>3 DEF Level, Behind, InstanceAfter
    <3> QED
      BY <1>4, <2>1, <2>3, <3>2, <3>3 DEF IInv, AgreeInv
  <2>11. ExecutedInv'
    <3>1. \A n \in Seqs : n > p.seq => n > l.last_seq
      BY <1>1, <2>2 DEF Seqs
    <3> QED
      BY <1>1, <1>4, <2>1, <3>1 DEF IInv, ExecutedInv
  <2>12. OwnerInv'
    <3>1. \A u \in Sessions : ledger'[u].active = ledger[u].active
      BY <2>1
    <3> QED
      BY <1>4, <3>1 DEF IInv, OwnerInv
  <2> QED
    BY <2>5, <2>6, <2>7, <2>8, <2>9, <2>10, <2>11, <2>12 DEF IInv
<1>6. CASE Verdict(p) # "execute"
  <2> DEFINE r == IF Verdict(p) = "replay" THEN l.last_response
                  ELSE Wrap(p, "rejected", Verdict(p), p.instance)
  <2>1. /\ ledger' = ledger /\ handler' = handler
        /\ responses' = responses \cup Sent(m.stream, r)
    BY <1>6 DEF Admit
  <2>2. /\ r \in Response /\ r.session = s
        /\ r.fault = "none" => r = l.last_response /\ p.seq = l.last_seq
    <3>1. CASE Verdict(p) = "replay"
      BY <1>1, <3>1, VerdictCases DEF IInv, TypeOK, AgreeInv
    <3>2. CASE Verdict(p) # "replay"
      <4>1. Verdict(p) \in PreExecutionFaults
        BY <1>1, <1>6, <3>2, VerdictCases DEF IInv
      <4> QED
        BY <1>1, <3>2, <4>1 DEF Wrap, Response, Payload, PreExecutionFaults, IInv, TypeOK
    <3> QED
      BY <3>1, <3>2
  <2>3. \A k \in responses' :
          \/ k \in responses
          \/ /\ k = [stream |-> m.stream, response |-> r]
             /\ client[s].stream = m.stream
    BY <2>1, <2>2 DEF Sent
  <2>4. TypeOK'
    <3>1. responses' \subseteq [stream : Streams, response : Response]
      BY <1>1, <2>2, <2>3 DEF IInv, TypeOK
    <3> QED
      BY <1>4, <2>1, <3>1 DEF IInv, TypeOK
  <2>5. FrameInv'
    BY <1>4, <2>1 DEF IInv, FrameInv
  <2>6. ResponseInv'
    <3>1. CASE m.stream # client[s].stream
      <4>1. responses' = responses
        BY <2>1, <2>2, <3>1 DEF Sent
      <4> QED
        BY <1>4, <2>1, <4>1 DEF IInv, ResponseInv
    <3>2. CASE m.stream = client[s].stream
      <4>1. /\ client[s].mode = "waiting"
            /\ p.seq = client[s].seq
            /\ \A f \in requests \ {m} :
                 f.payload.session = s => f.stream # client[s].stream
            /\ \A k \in responses : k.response.session # s
        BY <3>2, PresentFrame
      <4>2. ASSUME NEW k \in responses', k \notin responses
            PROVE  k = [stream |-> m.stream, response |-> r]
        BY <2>3, <4>2
      <4> QED
        BY <1>2, <1>4, <2>1, <2>2, <3>2, <4>1, <4>2 DEF IInv, ResponseInv
    <3> QED
      BY <3>1, <3>2
  <2>7. ClientInv' /\ HandlerInv' /\ ExecutedInv' /\ OwnerInv'
    BY <1>4, <2>1 DEF IInv, ClientInv, HandlerInv, ExecutedInv, OwnerInv
  <2>8. AgreeInv'
    BY <1>4, <2>1 DEF IInv, AgreeInv, Level, Behind, InstanceAfter
  <2> QED
    BY <2>4, <2>5, <2>6, <2>7, <2>8 DEF IInv
<1> QED
  BY <1>5, <1>6

(* A new process starts with nothing on the way and no session it knows.   *)
LEMMA RestartIInv ==
    ASSUME IInv, Restart
    PROVE  IInv'
<1> USE BoundAssumption
<1>1. \A s \in Sessions : client[s].epoch <= epoch' /\ client[s].epoch # epoch'
  BY DEF Restart, IInv, TypeOK, ClientInv
<1>2. TypeOK'
  BY DEF Restart, IInv, TypeOK, EmptyLedger, NoInstance
<1>3. ClientInv'
  BY <1>1 DEF Restart, IInv, ClientInv
<1>4. FrameInv' /\ HandlerInv' /\ ResponseInv'
  BY DEF Restart, FrameInv, HandlerInv, ResponseInv
<1>5. AgreeInv'
  BY <1>1 DEF Restart, AgreeInv, EmptyLedger
<1>6. ExecutedInv'
  BY <1>1 DEF Restart, IInv, ExecutedInv
<1>7. OwnerInv'
  BY DEF Restart, OwnerInv, EmptyLedger, NoInstance
<1> QED
  BY <1>2, <1>3, <1>4, <1>5, <1>6, <1>7 DEF IInv

(* Nothing of a session whose client is not of this epoch is on the way.   *)
LEMMA NothingUnderWay ==
    ASSUME IInv, NEW s \in Sessions, client[s].epoch # epoch
    PROVE  /\ \A f \in requests : f.payload.session # s
           /\ \A k \in responses : k.response.session # s
           /\ handler # Idle => handler.payload.session # s
           /\ ledger[s] = EmptyLedger
BY DEF IInv, FrameInv, ResponseInv, HandlerInv, ClientInv

(* A first hello: the server has never heard of the session.               *)
LEMMA HelloIInv ==
    ASSUME IInv, NEW s \in Sessions, Hello(s)
    PROVE  IInv'
<1> USE BoundAssumption
<1>1. /\ client[s] = NewClient
      /\ \A n \in Seqs : executed[s][n] = 0
  BY DEF Hello, IInv, ClientInv
<1>2. client[s].epoch # epoch
  BY <1>1 DEF NewClient, IInv, TypeOK
<1>3. /\ \A f \in requests : f.payload.session # s
      /\ \A k \in responses : k.response.session # s
      /\ handler # Idle => handler.payload.session # s
      /\ ledger[s] = EmptyLedger
  BY <1>2, NothingUnderWay
<1>4. \A u \in Sessions : u # s => client'[u] = client[u]
  BY DEF Hello, IInv, TypeOK
<1>5. /\ epoch' = epoch /\ ledger' = ledger /\ instances' = instances
      /\ serial' = serial /\ handler' = handler /\ requests' = requests
      /\ responses' = responses /\ executed' = executed
  BY DEF Hello
<1>6. /\ client'[s].mode = "ready" /\ client'[s].epoch = epoch
      /\ client'[s].seq = 1 /\ client'[s].instance = NoInstance
  BY <1>1 DEF NewClient, Hello, IInv, TypeOK
<1>7. TypeOK'
  <2>1. client \in [Sessions -> ClientState] /\ epoch \in 0..MaxEpoch
    BY DEF IInv, TypeOK, ClientState
  <2>2. client' \in [Sessions -> ClientState]
    BY <2>1 DEF Hello, ClientState
  <2> QED
    BY <1>5, <2>2 DEF IInv, TypeOK, ClientState
<1>8. ClientInv'
  <2>1. epoch <= epoch
    BY DEF IInv, TypeOK
  <2> QED
    BY <1>4, <1>5, <1>6, <2>1 DEF IInv, ClientInv
<1>9. FrameInv'
  <2>1. \A f \in requests : f.payload.session \in Sessions
    BY DEF IInv, TypeOK, Payload
  <2> QED
    BY <1>3, <1>4, <1>5, <2>1 DEF IInv, FrameInv
<1>10. HandlerInv'
  <2>1. handler # Idle => handler.payload.session \in Sessions
    BY DEF IInv, TypeOK, Payload
  <2> QED
    BY <1>3, <1>4, <1>5, <2>1 DEF IInv, HandlerInv
<1>11. ResponseInv'
  <2>1. \A k \in responses : k.response.session \in Sessions
    BY DEF IInv, TypeOK, Response
  <2> QED
    BY <1>3, <1>4, <1>5, <2>1 DEF IInv, ResponseInv
<1>12. AgreeInv'
  <2>1. Level(s)'
    BY <1>3, <1>5, <1>6 DEF Level, EmptyLedger
  <2>2. ASSUME NEW u \in Sessions, u # s
        PROVE  (Level(u) => Level(u)') /\ (Behind(u) => Behind(u)')
    BY <1>4, <1>5, <2>2 DEF Level, Behind, InstanceAfter
  <2> QED
    BY <1>4, <1>5, <1>6, <2>1, <2>2 DEF IInv, AgreeInv
<1>13. ExecutedInv'
  BY <1>1, <1>4, <1>5 DEF IInv, ExecutedInv
<1>14. OwnerInv'
  BY <1>5 DEF IInv, OwnerInv
<1> QED
  BY <1>7, <1>8, <1>9, <1>10, <1>11, <1>12, <1>13, <1>14 DEF IInv

(* A client that gives up its session of a lost server.                    *)
LEMMA EpochChangedIInv ==
    ASSUME IInv, NEW s \in Sessions, EpochChanged(s)
    PROVE  IInv'
<1> USE BoundAssumption
<1>1. /\ \A f \in requests : f.payload.session # s
      /\ \A k \in responses : k.response.session # s
      /\ handler # Idle => handler.payload.session # s
      /\ ledger[s] = EmptyLedger
  BY NothingUnderWay DEF EpochChanged
<1>2. /\ client'[s].mode = "invalid" /\ client'[s].epoch = client[s].epoch
      /\ client[s].epoch # epoch
      /\ \A u \in Sessions : u # s => client'[u] = client[u]
  BY DEF EpochChanged, IInv, TypeOK
<1>3. /\ epoch' = epoch /\ ledger' = ledger /\ instances' = instances
      /\ serial' = serial /\ handler' = handler /\ requests' = requests
      /\ responses' = responses /\ executed' = executed
  BY DEF EpochChanged
<1>4. TypeOK'
  <2>1. client \in [Sessions -> ClientState]
    BY DEF IInv, TypeOK, ClientState
  <2>2. client' \in [Sessions -> ClientState]
    BY <2>1 DEF EpochChanged, ClientState
  <2> QED
    BY <1>3, <2>2 DEF IInv, TypeOK, ClientState
<1>5. ClientInv'
  BY <1>2, <1>3 DEF IInv, ClientInv
<1>6. FrameInv'
  <2>1. \A f \in requests : f.payload.session \in Sessions
    BY DEF IInv, TypeOK, Payload
  <2> QED
    BY <1>1, <1>2, <1>3, <2>1 DEF IInv, FrameInv
<1>7. HandlerInv'
  <2>1. handler # Idle => handler.payload.session \in Sessions
    BY DEF IInv, TypeOK, Payload
  <2> QED
    BY <1>1, <1>2, <1>3, <2>1 DEF IInv, HandlerInv
<1>8. ResponseInv'
  <2>1. \A k \in responses : k.response.session \in Sessions
    BY DEF IInv, TypeOK, Response
  <2> QED
    BY <1>1, <1>2, <1>3, <2>1 DEF IInv, ResponseInv
<1>9. AgreeInv'
  <2>1. ASSUME NEW u \in Sessions, u # s
        PROVE  (Level(u) => Level(u)') /\ (Behind(u) => Behind(u)')
    BY <1>2, <1>3, <2>1 DEF Level, Behind, InstanceAfter
  <2> QED
    BY <1>2, <1>3, <2>1 DEF IInv, AgreeInv
<1>10. ExecutedInv'
  BY <1>2, <1>3 DEF IInv, ExecutedInv
<1>11. OwnerInv'
  BY <1>3 DEF IInv, OwnerInv
<1> QED
  BY <1>4, <1>5, <1>6, <1>7, <1>8, <1>9, <1>10, <1>11 DEF IInv

(* A new request: the client is level with the ledger and has nothing      *)
(* else of its session on the present stream.                              *)
LEMMA RequestIInv ==
    ASSUME IInv, NEW s \in Sessions, NEW op \in Operations, Request(s, op)
    PROVE  IInv'
<1> USE BoundAssumption
<1>1. PICK i \in IF op = "start_instance" THEN {NoInstance}
                 ELSE instances \cup {client[s].instance} :
        LET p == [session |-> s, seq |-> client[s].seq, op |-> op, instance |-> i] IN
        /\ client' = [client EXCEPT ![s].mode = "waiting", ![s].pending = p]
        /\ requests' = requests \cup {[stream |-> client[s].stream, payload |-> p]}
  BY DEF Request
<1> DEFINE p == [session |-> s, seq |-> client[s].seq, op |-> op, instance |-> i]
           new == [stream |-> client[s].stream, payload |-> p]
<1>2. /\ client \in [Sessions -> ClientState]
      /\ client[s].mode = "ready" /\ client[s].epoch = epoch
      /\ client[s].seq <= MaxSeq
  BY DEF Request, IInv, TypeOK, ClientState
<1>3. p \in Payload
  <2>1. i \in Nat
    BY <1>1, <1>2 DEF ClientState, IInv, TypeOK, NoInstance
  <2>2. client[s].seq \in Seqs
    BY <1>2 DEF ClientState, Seqs
  <2> QED
    BY <2>1, <2>2 DEF Payload
<1>4. /\ client' \in [Sessions -> ClientState]
      /\ client'[s].mode = "waiting" /\ client'[s].pending = p
      /\ client'[s].epoch = epoch /\ client'[s].seq = client[s].seq
      /\ client'[s].instance = client[s].instance
      /\ client'[s].stream = client[s].stream
      /\ \A u \in Sessions : u # s => client'[u] = client[u]
  BY <1>1, <1>2, <1>3 DEF ClientState
<1>5. /\ epoch' = epoch /\ ledger' = ledger /\ instances' = instances
      /\ serial' = serial /\ handler' = handler
      /\ responses' = responses /\ executed' = executed
      /\ requests' = requests \cup {new}
  BY <1>1 DEF Request
<1>6. /\ \A k \in responses : k.response.session # s
      /\ handler # Idle => handler.payload.session # s
      /\ \A f \in requests : f.payload.session = s =>
           f.stream # client[s].stream /\ f.payload.seq < client[s].seq
  BY <1>2 DEF IInv, FrameInv, ResponseInv, HandlerInv
<1>7. TypeOK'
  <2>1. new \in [stream : Streams, payload : Payload]
    BY <1>2, <1>3 DEF ClientState
  <2> QED
    BY <1>4, <1>5, <2>1 DEF IInv, TypeOK, ClientState
<1>8. ClientInv'
  <2>1. epoch <= epoch
    BY DEF IInv, TypeOK
  <2> QED
    BY <1>3, <1>4, <1>5, <2>1 DEF IInv, ClientInv
<1>9. FrameInv'
  <2>1. \A f \in requests : /\ f.payload.session \in Sessions
                            /\ f.payload.seq \in Nat
    BY DEF IInv, TypeOK, Payload, Seqs
  <2>2. client[s].seq \in Nat /\ client[s].stream \in Nat
    BY <1>2 DEF ClientState, Streams
  <2>3. new.payload = p /\ new.stream = client[s].stream /\ p.session = s
        /\ p.seq = client[s].seq
    OBVIOUS
  <2> SUFFICES ASSUME NEW f \in requests'
               PROVE  LET u == f.payload.session IN
                      /\ client'[u].epoch = epoch
                      /\ f.stream <= client'[u].stream
                      /\ f.payload.seq <= client'[u].seq
                      /\ client'[u].mode = "ready" => f.payload.seq < client'[u].seq
                      /\ client'[u].mode = "waiting" /\ f.payload.seq = client'[u].seq =>
                           f.payload = client'[u].pending
                      /\ f.stream = client'[u].stream =>
                           /\ client'[u].mode = "waiting"
                           /\ f.payload = client'[u].pending
                           /\ handler # Idle /\ handler.payload.session = u =>
                                handler.stream # client'[u].stream
    BY <1>5 DEF FrameInv
  <2>4. CASE f = new
    BY <1>4, <1>6, <2>2, <2>3, <2>4
  <2>5. CASE f \in requests /\ f.payload.session = s
    BY <1>4, <1>6, <2>1, <2>2, <2>5 DEF IInv, FrameInv
  <2>6. CASE f \in requests /\ f.payload.session # s
    BY <1>4, <2>1, <2>6 DEF IInv, FrameInv
  <2> QED
    BY <1>5, <2>4, <2>5, <2>6
<1>10. HandlerInv'
  <2>1. handler # Idle => handler.payload.session \in Sessions
    BY DEF IInv, TypeOK, Payload
  <2> QED
    BY <1>4, <1>5, <1>6, <2>1 DEF IInv, HandlerInv
<1>11. ResponseInv'
  <2>1. \A k \in responses : k.response.session \in Sessions
    BY DEF IInv, TypeOK, Response
  <2> QED
    BY <1>4, <1>5, <1>6, <2>1 DEF IInv, ResponseInv
<1>12. AgreeInv'
  <2>1. Level(s)'
    BY <1>2, <1>4, <1>5 DEF IInv, AgreeInv, Level
  <2>2. ASSUME NEW u \in Sessions, u # s
        PROVE  (Level(u) => Level(u)') /\ (Behind(u) => Behind(u)')
    BY <1>4, <1>5, <2>2 DEF Level, Behind, InstanceAfter
  <2> QED
    BY <1>4, <1>5, <2>1, <2>2 DEF IInv, AgreeInv
<1>13. ExecutedInv'
  BY <1>2, <1>4, <1>5 DEF IInv, ExecutedInv
<1>14. OwnerInv'
  BY <1>5 DEF IInv, OwnerInv
<1> QED
  BY <1>7, <1>8, <1>9, <1>10, <1>11, <1>12, <1>13, <1>14 DEF IInv

(* A new stream: what the old one still carries is older than it, and the  *)
(* request is the same.                                                    *)
LEMMA ReconnectIInv ==
    ASSUME IInv, NEW s \in Sessions, Reconnect(s)
    PROVE  IInv'
<1> DEFINE resent == [stream |-> client[s].stream + 1, payload |-> client[s].pending]
<1> USE BoundAssumption
<1>1. /\ client \in [Sessions -> ClientState]
      /\ client[s].mode = "waiting" /\ client[s].epoch = epoch
      /\ client[s].stream \in Nat /\ client[s].stream + 1 \in Streams
      /\ client[s].seq \in Nat
      /\ \A u \in Sessions : client[u].stream \in Nat
  BY DEF Reconnect, IInv, TypeOK, ClientState, Streams
<1>2. /\ client[s].pending \in Payload
      /\ client[s].pending.session = s
      /\ client[s].pending.seq = client[s].seq
  BY <1>1 DEF IInv, ClientInv
<1>3. /\ client' \in [Sessions -> ClientState]
      /\ client'[s].mode = "waiting" /\ client'[s].pending = client[s].pending
      /\ client'[s].epoch = epoch /\ client'[s].seq = client[s].seq
      /\ client'[s].instance = client[s].instance
      /\ client'[s].stream = client[s].stream + 1
      /\ \A u \in Sessions : u # s => client'[u] = client[u]
  <2>1. client' = [client EXCEPT ![s].stream = @ + 1]
    BY DEF Reconnect
  <2> QED
    BY <1>1, <2>1 DEF ClientState
<1>4. /\ epoch' = epoch /\ ledger' = ledger /\ instances' = instances
      /\ serial' = serial /\ handler' = handler /\ executed' = executed
      /\ responses' = {r \in responses : r.response.session # s}
  BY DEF Reconnect
<1>5. requests' \subseteq requests \cup {resent}
  BY DEF Reconnect
<1>6. \A f \in requests : /\ f.payload.session \in Sessions
                          /\ f.stream \in Nat
  BY DEF IInv, TypeOK, Payload, Streams
<1>7. \A f \in requests : f.payload.session = s => f.stream < client'[s].stream
  BY <1>1, <1>3, <1>6 DEF IInv, FrameInv
<1>8. handler # Idle /\ handler.payload.session = s => handler.stream < client'[s].stream
  BY <1>1, <1>3 DEF IInv, TypeOK, HandlerInv, Streams
<1>9. handler # Idle => handler.payload.session \in Sessions /\ handler.stream \in Nat
  BY DEF IInv, TypeOK, Payload, Streams
<1>10. TypeOK'
  <2>1. resent \in [stream : Streams, payload : Payload]
    BY <1>1, <1>2
  <2> QED
    BY <1>3, <1>4, <1>5, <2>1 DEF IInv, TypeOK, ClientState
<1>11. ClientInv'
  BY <1>1, <1>2, <1>3, <1>4 DEF IInv, ClientInv
<1>12. FrameInv'
  <2> SUFFICES ASSUME NEW f \in requests'
               PROVE  LET u == f.payload.session IN
                      /\ client'[u].epoch = epoch
                      /\ f.stream <= client'[u].stream
                      /\ f.payload.seq <= client'[u].seq
                      /\ client'[u].mode = "ready" => f.payload.seq < client'[u].seq
                      /\ client'[u].mode = "waiting" /\ f.payload.seq = client'[u].seq =>
                           f.payload = client'[u].pending
                      /\ f.stream = client'[u].stream =>
                           /\ client'[u].mode = "waiting"
                           /\ f.payload = client'[u].pending
                           /\ handler # Idle /\ handler.payload.session = u =>
                                handler.stream # client'[u].stream
    BY <1>4 DEF FrameInv
  <2>1. CASE f = resent
    BY <1>1, <1>2, <1>3, <1>8, <1>9, <2>1
  <2>2. CASE f \in requests /\ f.payload.session = s
    BY <1>1, <1>3, <1>6, <1>7, <2>2 DEF IInv, FrameInv
  <2>3. CASE f \in requests /\ f.payload.session # s
    BY <1>3, <1>6, <2>3 DEF IInv, FrameInv
  <2> QED
    BY <1>5, <2>1, <2>2, <2>3
<1>13. HandlerInv'
  <2>1. CASE handler.payload.session = s
    BY <1>1, <1>3, <1>4, <1>8, <1>9, <2>1 DEF IInv, HandlerInv
  <2>2. CASE handler.payload.session # s
    BY <1>3, <1>4, <1>9, <2>2 DEF IInv, HandlerInv
  <2> QED
    BY <2>1, <2>2
<1>14. ResponseInv'
  <2>1. \A k \in responses : k.response.session \in Sessions
    BY DEF IInv, TypeOK, Response
  <2>2. ASSUME NEW f \in requests', f.payload.session # s
        PROVE  f \in requests
    BY <1>2, <1>5, <2>2
  <2> QED
    BY <1>3, <1>4, <2>1, <2>2 DEF IInv, ResponseInv
<1>15. AgreeInv'
  <2>1. ASSUME NEW u \in Sessions
        PROVE  (Level(u) => Level(u)') /\ (Behind(u) => Behind(u)')
    BY <1>3, <1>4 DEF Level, Behind, InstanceAfter
  <2> QED
    BY <1>1, <1>3, <1>4, <2>1 DEF IInv, AgreeInv
<1>16. ExecutedInv'
  BY <1>1, <1>3, <1>4 DEF IInv, ExecutedInv
<1>17. OwnerInv'
  BY <1>4 DEF IInv, OwnerInv
<1> QED
  BY <1>10, <1>11, <1>12, <1>13, <1>14, <1>15, <1>16, <1>17 DEF IInv

(* The answer: it is the only message of its session that the client can   *)
(* still see, and a faultless one is the ledger's last response.           *)
LEMMA ReceiveIInv ==
    ASSUME IInv, NEW s \in Sessions, Receive(s)
    PROVE  IInv'
<1> USE BoundAssumption
<1>1. PICK m \in responses :
        LET r == m.response IN
        /\ r.session = s
        /\ client[s].mode = "waiting"
        /\ responses' = responses \ {m}
        /\ IF r.fault # "none"
           THEN client' = [client EXCEPT ![s].mode = "invalid", ![s].pending = NoPayload]
           ELSE client' = [client EXCEPT
                  ![s].mode = "ready", ![s].pending = NoPayload,
                  ![s].seq = @ + 1, ![s].instance = InstanceAfter(s, r)]
        /\ UNCHANGED <<epoch, ledger, instances, serial, handler, requests, executed>>
  BY Zenon DEF Receive, InstanceAfter
<1> DEFINE r == m.response
<1>2. /\ client \in [Sessions -> ClientState]
      /\ r \in Response /\ r # NoResponse
      /\ r.session = s /\ client[s].mode = "waiting"
      /\ client[s].epoch = epoch
      /\ client[s].seq \in Seqs /\ client[s].seq \in Nat
  <2>1. client \in [Sessions -> ClientState] /\ r \in Response
    BY DEF IInv, TypeOK, ClientState
  <2>2. client[s].seq = client[s].pending.seq /\ client[s].pending \in Payload
    BY <1>1 DEF IInv, ClientInv
  <2> QED
    BY <1>1, <2>1, <2>2, NoneMarkers DEF IInv, ResponseInv, Payload, Seqs
<1>3. /\ \A k \in responses \ {m} : k.response.session # s
      /\ \A f \in requests : f.payload.session = s => f.stream # client[s].stream
      /\ handler # Idle /\ handler.payload.session = s =>
           handler.stream # client[s].stream
      /\ r.fault = "none" =>
           r = ledger[s].last_response /\ ledger[s].last_seq = client[s].seq
  BY <1>2 DEF IInv, ResponseInv
<1>4. /\ epoch' = epoch /\ ledger' = ledger /\ instances' = instances
      /\ serial' = serial /\ handler' = handler /\ requests' = requests
      /\ executed' = executed /\ responses' = responses \ {m}
  BY <1>1
<1>5. InstanceAfter(s, r) \in Nat
  BY <1>2 DEF InstanceAfter, Response, ClientState, NoInstance
<1>6. /\ client' \in [Sessions -> ClientState]
      /\ client'[s].epoch = epoch /\ client'[s].stream = client[s].stream
      /\ client'[s].mode \in {"invalid", "ready"}
      /\ client'[s].mode = "invalid" => client'[s].seq = client[s].seq
      /\ client'[s].mode = "ready" =>
           /\ r.fault = "none"
           /\ client'[s].seq = client[s].seq + 1
           /\ client'[s].instance = InstanceAfter(s, r)
      /\ \A u \in Sessions : u # s => client'[u] = client[u]
  <2>1. CASE r.fault # "none"
    BY <1>1, <1>2, <2>1 DEF ClientState
  <2>2. CASE r.fault = "none"
    <3>1. client[s].seq + 1 \in 1..(MaxSeq + 1)
      BY <1>2 DEF Seqs
    <3>2. client' = [client EXCEPT ![s] =
                       [mode |-> "ready", seq |-> client[s].seq + 1, pending |-> NoPayload,
                        epoch |-> epoch, instance |-> InstanceAfter(s, r),
                        stream |-> client[s].stream]]
      BY <1>1, <1>2, <2>2 DEF ClientState
    <3> QED
      BY <1>2, <1>5, <2>2, <3>1, <3>2 DEF ClientState
  <2> QED
    BY <2>1, <2>2
<1>7. r.fault = "none" => ~(handler # Idle /\ handler.payload.session = s)
  BY <1>2, <1>3 DEF IInv, HandlerInv
<1>8. TypeOK'
  BY <1>4, <1>6 DEF IInv, TypeOK, ClientState
<1>9. ClientInv'
  BY <1>2, <1>4, <1>6 DEF IInv, ClientInv
<1>10. FrameInv'
  <2>1. \A f \in requests : /\ f.payload.session \in Sessions
                            /\ f.payload.seq \in Nat
    BY DEF IInv, TypeOK, Payload, Seqs
  <2> SUFFICES ASSUME NEW f \in requests
               PROVE  LET u == f.payload.session IN
                      /\ client'[u].epoch = epoch
                      /\ f.stream <= client'[u].stream
                      /\ f.payload.seq <= client'[u].seq
                      /\ client'[u].mode = "ready" => f.payload.seq < client'[u].seq
                      /\ client'[u].mode = "waiting" /\ f.payload.seq = client'[u].seq =>
                           f.payload = client'[u].pending
                      /\ f.stream = client'[u].stream =>
                           /\ client'[u].mode = "waiting"
                           /\ f.payload = client'[u].pending
                           /\ handler # Idle /\ handler.payload.session = u =>
                                handler.stream # client'[u].stream
    BY <1>4 DEF FrameInv
  <2>2. CASE f.payload.session = s
    BY <1>2, <1>3, <1>6, <2>1, <2>2 DEF IInv, FrameInv
  <2>3. CASE f.payload.session # s
    BY <1>6, <2>1, <2>3 DEF IInv, FrameInv
  <2> QED
    BY <2>2, <2>3
<1>11. HandlerInv'
  <2>1. handler # Idle => handler.payload.session \in Sessions
    BY DEF IInv, TypeOK, Payload
  <2>2. CASE handler.payload.session = s
    BY <1>3, <1>4, <1>6, <1>7, <2>1, <2>2 DEF IInv, HandlerInv
  <2>3. CASE handler.payload.session # s
    BY <1>4, <1>6, <2>1, <2>3 DEF IInv, HandlerInv
  <2> QED
    BY <2>2, <2>3
<1>12. ResponseInv'
  <2>1. \A k \in responses : k.response.session \in Sessions
    BY DEF IInv, TypeOK, Response
  <2> QED
    BY <1>3, <1>4, <1>6, <2>1 DEF IInv, ResponseInv
<1>13. AgreeInv'
  <2>1. ASSUME client'[s].mode = "ready" PROVE Level(s)'
    <3>1. Behind(s)
      BY <1>2, <1>3, <1>6, <2>1 DEF IInv, AgreeInv, Level
    <3>2. ledger[s].active = InstanceAfter(s, r)
      BY <1>2, <1>3, <1>6, <2>1, <3>1 DEF Behind
    <3> QED
      BY <1>3, <1>4, <1>6, <2>1, <3>2 DEF Level
  <2>2. ASSUME NEW u \in Sessions, u # s
        PROVE  (Level(u) => Level(u)') /\ (Behind(u) => Behind(u)')
    BY <1>4, <1>6, <2>2 DEF Level, Behind, InstanceAfter
  <2> QED
    BY <1>4, <1>6, <2>1, <2>2 DEF IInv, AgreeInv
<1>14. ExecutedInv'
  BY <1>2, <1>4, <1>6 DEF IInv, ExecutedInv
<1>15. OwnerInv'
  BY <1>4 DEF IInv, OwnerInv
<1> QED
  BY <1>8, <1>9, <1>10, <1>11, <1>12, <1>13, <1>14, <1>15 DEF IInv

LEMMA NextIInv == IInv /\ [Next]_vars => IInv'
<1> SUFFICES ASSUME IInv, [Next]_vars PROVE IInv'
  OBVIOUS
<1>1. ASSUME NEW m \in requests, Admit(m) PROVE IInv'
  BY <1>1, AdmitIInv
<1>2. CASE \/ StartConflict \/ StartCompletes \/ StartFails
           \/ Disowned \/ CloseInstance \/ Dispatch
  BY <1>2, ExecuteIInv
<1>3. CASE Restart
  BY <1>3, RestartIInv
<1>4. ASSUME NEW s \in Sessions, Hello(s) PROVE IInv'
  BY <1>4, HelloIInv
<1>5. ASSUME NEW s \in Sessions, NEW op \in Operations, Request(s, op) PROVE IInv'
  BY <1>5, RequestIInv
<1>6. ASSUME NEW s \in Sessions, Reconnect(s) PROVE IInv'
  BY <1>6, ReconnectIInv
<1>7. ASSUME NEW s \in Sessions, EpochChanged(s) PROVE IInv'
  BY <1>7, EpochChangedIInv
<1>8. ASSUME NEW s \in Sessions, Receive(s) PROVE IInv'
  BY <1>8, ReceiveIInv
<1>9. CASE UNCHANGED vars
  BY <1>9 DEF vars, IInv, TypeOK, ClientInv, FrameInv, HandlerInv, ResponseInv, AgreeInv,
              Level, Behind, InstanceAfter, ExecutedInv, OwnerInv
<1> QED
  BY <1>1, <1>2, <1>3, <1>4, <1>5, <1>6, <1>7, <1>8, <1>9 DEF Next, ServerStep

(* What IInv says of the properties the runs check.                        *)
LEMMA AtMostOnceFromIInv == IInv => AtMostOnce
BY DEF IInv, ExecutedInv, AtMostOnce

LEMMA AgreementFromIInv == IInv => ClientAgreesWithLedger
BY DEF IInv, AgreeInv, Level, Behind, ClientAgreesWithLedger

LEMMA OwnershipFromIInv == IInv => EveryInstanceIsOwned
<1>1. ASSUME IInv PROVE EveryInstanceIsOwned
  <2>1. ASSUME NEW i \in instances
        PROVE  Cardinality({s \in Sessions : ledger[s].active = i}) = 1
    <3>1. i # NoInstance
      BY <1>1, <2>1 DEF IInv, TypeOK, NoInstance
    <3>2. PICK s \in Sessions : ledger[s].active = i
      BY <1>1, <2>1 DEF IInv, OwnerInv
    <3>3. {u \in Sessions : ledger[u].active = i} = {s}
      BY <1>1, <3>1, <3>2 DEF IInv, OwnerInv
    <3> QED
      BY <3>3, FS_Singleton
  <2>2. \A s \in Sessions : ledger[s].active \in instances \cup {NoInstance}
    BY <1>1 DEF IInv, OwnerInv
  <2> QED
    BY <2>1, <2>2 DEF EveryInstanceIsOwned
<1> QED
  BY <1>1

(* IInv holds throughout every behaviour of the server and its clients.    *)
THEOREM Invariance == Spec => []IInv
BY InitIInv, NextIInv, PTL DEF Spec

(* The state of the server, the streams and the clients keeps its types,   *)
(* for any number of sessions, requests, broken streams and restarts.      *)
THEOREM TypeCorrect == Spec => []TypeOK
<1>1. IInv => TypeOK
  BY DEF IInv
<1> QED
  BY <1>1, Invariance, PTL

(***************************************************************************)
(* RLApiServer.handle_request executes no request twice: the ledger admits *)
(* only the successor of its last request, every execution is at or below  *)
(* it, and after a restart no client of the old epoch is listened to.      *)
(***************************************************************************)
THEOREM ExecutesAtMostOnce == Spec => []AtMostOnce
BY Invariance, AtMostOnceFromIInv, PTL

(***************************************************************************)
(* However streams break, a client without an open request agrees with its *)
(* SessionLedger on the next request_seq and on the active instance, and   *)
(* one with an open request is at most that request behind.                *)
(***************************************************************************)
THEOREM LedgerAgreement == Spec => []ClientAgreesWithLedger
BY Invariance, AgreementFromIInv, PTL

(***************************************************************************)
(* The _instances of the server and the active_instance_ids of its         *)
(* sessions are in bijection, so that a failed start or a faulted close    *)
(* leaks nothing.                                                          *)
(***************************************************************************)
THEOREM InstancesAreOwned == Spec => []EveryInstanceIsOwned
BY Invariance, OwnershipFromIInv, PTL

-----------------------------------------------------------------------------
(* RuntimeProcess: the server in a child process.                          *)

Ops == Calls \cup {"stop", "none"}
Verdicts == Statuses \cup {"task_timeout", "none"}
QueuedRequest == [id : Nat, seq : Nat, op : Ops, instance : Nat, well_formed : BOOLEAN]
QueuedReply == [id : Nat, status : Statuses, instance : Nat]
Story == [op : Ops, status : Verdicts]

ChildState ==
    [status : {"running", "exited", "terminated", "died"}, in_queue : Seq(QueuedRequest),
     out_queue : Seq(QueuedReply), last_seq : Nat, active : Nat, serial : Nat]

MockState ==
    [pc : {"idle", "waiting", "joining", "ended"}, next_internal_id : Nat, request_seq : Nat,
     instance : Nat, sent : QueuedRequest, returned : Story, closed : BOOLEAN]

RuntimeTypes ==
    /\ child \in ChildState
    /\ mock \in MockState
    /\ done \in [1..MaxCalls -> Story]

(* A request waits under the id and the request_seq it was given, the      *)
(* newest one as the client remembers it.                                  *)
QueueInv ==
    /\ mock.request_seq >= 1 /\ mock.request_seq <= mock.next_internal_id + 1
    /\ mock.next_internal_id <= MaxCalls
    /\ child.last_seq < mock.request_seq
    /\ \A i \in DOMAIN child.in_queue :
         LET m == child.in_queue[i] IN
         \/ m = Stop
         \/ /\ m.op \in Calls
            /\ m.id >= 1 /\ m.id <= mock.next_internal_id
            /\ m.op # "override" => m.seq < mock.request_seq
            /\ m.id = mock.next_internal_id => m = mock.sent

(* Requests that use up a request_seq wait in its order, above the ledger. *)
OrderInv ==
    \A i \in DOMAIN child.in_queue :
      LET m == child.in_queue[i] IN
      m.op \notin {"stop", "override"} =>
        /\ m.seq > child.last_seq
        /\ \A j \in 1..(i - 1) :
             child.in_queue[j].op # "override" => child.in_queue[j].seq < m.seq

(* The server has run the newest request, and said what its answer says.   *)
Ran(status) ==
    /\ mock.sent.op # "override" /\ mock.sent.seq >= 1
    /\ mock.sent.seq <= child.last_seq
    /\ done[mock.sent.seq] = [op |-> mock.sent.op, status |-> status]

ReplyInv ==
    /\ \A i \in DOMAIN child.out_queue :
         LET a == child.out_queue[i] IN
         /\ a.id >= 1 /\ a.id <= mock.next_internal_id
         /\ a.id = mock.next_internal_id /\ a.status = "completed" => Ran("completed")
    /\ mock.returned.status = "completed" =>
         /\ mock.returned.op = mock.sent.op
         /\ Ran("completed")

RuntimeInv == RuntimeTypes /\ QueueInv /\ OrderInv /\ ReplyInv

LEMMA RuntimeInitInv == RuntimeInit => RuntimeInv
<1> SUFFICES ASSUME RuntimeInit PROVE RuntimeInv
  OBVIOUS
<1>1. Stop \in QueuedRequest /\ Nothing \in Story
  BY DEF Stop, Nothing, QueuedRequest, Story, Ops, Verdicts, NoId
<1>2. RuntimeTypes
  BY <1>1 DEF RuntimeInit, RuntimeTypes, ChildState, MockState, NoId
<1>3. QueueInv /\ OrderInv /\ ReplyInv
  BY CallsAssumption DEF RuntimeInit, QueueInv, OrderInv, ReplyInv, Nothing
<1> QED
  BY <1>2, <1>3 DEF RuntimeInv

(* A new call appends the newest request, with a request_seq above all     *)
(* that the child's queue or its ledger holds.                             *)
LEMMA CallInv ==
    ASSUME RuntimeInv, NEW op \in Calls, NEW well_formed \in BOOLEAN, Call(op, well_formed)
    PROVE  RuntimeInv'
<1> DEFINE m == [id |-> mock.next_internal_id + 1, seq |-> mock.request_seq, op |-> op,
                 instance |-> mock.instance, well_formed |-> well_formed]
           q == child.in_queue
<1>1. child \in ChildState /\ mock \in MockState /\ done \in [1..MaxCalls -> Story]
  BY DEF RuntimeInv, RuntimeTypes
<1>2. q \in Seq(QueuedRequest) /\ child.last_seq \in Nat /\ child.out_queue \in Seq(QueuedReply)
      /\ mock.next_internal_id \in Nat /\ mock.request_seq \in Nat /\ mock.instance \in Nat
      /\ mock.sent \in QueuedRequest
  BY <1>1 DEF ChildState, MockState
<1>3. m \in QueuedRequest /\ Nothing \in Story /\ NextSeq(op) \in Nat
  BY <1>2 DEF QueuedRequest, Ops, Story, Verdicts, Nothing, NextSeq
<1>4. /\ m.id = mock.next_internal_id + 1 /\ m.seq = mock.request_seq /\ m.op = op
      /\ m # Stop
  BY <1>2 DEF Stop, NoId
<1> HIDE DEF m
<1>5. /\ child' = [child EXCEPT !.in_queue = Append(q, m)]
      /\ mock' = [mock EXCEPT !.pc = "waiting", !.next_internal_id = m.id,
                              !.request_seq = NextSeq(op), !.sent = m, !.returned = Nothing]
      /\ done' = done /\ mock.next_internal_id < MaxCalls
  BY DEF Call, m
<1>6. RuntimeTypes'
  <2>1. Append(q, m) \in Seq(QueuedRequest) /\ m.id \in Nat
    BY <1>2, <1>3, <1>4
  <2> QED
    BY <1>1, <1>3, <1>5, <2>1 DEF RuntimeTypes, ChildState, MockState
<1>7. /\ child'.in_queue = Append(q, m) /\ child'.last_seq = child.last_seq
      /\ child'.out_queue = child.out_queue
      /\ mock'.next_internal_id = mock.next_internal_id + 1 /\ mock'.request_seq = NextSeq(op)
      /\ mock'.sent = m /\ mock'.returned = Nothing
  BY <1>1, <1>4, <1>5 DEF ChildState, MockState
<1>8. DOMAIN Append(q, m) = 1..(Len(q) + 1) /\ DOMAIN q = 1..Len(q) /\ Len(q) \in Nat
      /\ \A i \in 1..(Len(q) + 1) : Append(q, m)[i] = IF i = Len(q) + 1 THEN m ELSE q[i]
  BY <1>2, <1>3
<1>9. \A i \in 1..Len(q) :
        \/ q[i] = Stop
        \/ /\ q[i].op \in Calls
           /\ q[i].id >= 1 /\ q[i].id <= mock.next_internal_id
           /\ q[i].op # "override" => q[i].seq < mock.request_seq
  BY <1>8 DEF RuntimeInv, QueueInv
<1>10. \A i \in 1..Len(q) : q[i] \in QueuedRequest /\ q[i].id \in Nat /\ q[i].seq \in Nat
  <2>1. \A i \in 1..Len(q) : q[i] \in QueuedRequest
    BY <1>2
  <2> QED
    BY <2>1 DEF QueuedRequest
<1>11. \A i \in 1..Len(q) : q[i].op # "override" => q[i].seq < mock.request_seq
  <2>1. Stop.seq = 0 /\ 0 < mock.request_seq
    BY <1>2 DEF Stop, RuntimeInv, QueueInv
  <2> QED
    BY <1>9, <2>1
<1>12. QueueInv'
  <2>1. /\ mock'.request_seq >= 1 /\ mock'.request_seq <= mock'.next_internal_id + 1
        /\ mock'.next_internal_id <= MaxCalls
        /\ child'.last_seq < mock'.request_seq
    BY <1>2, <1>5, <1>7, CallsAssumption DEF RuntimeInv, QueueInv, NextSeq
  <2>2. NextSeq(op) >= mock.request_seq /\ (op # "override" => mock.request_seq < NextSeq(op))
    BY <1>2 DEF NextSeq
  <2>3. ASSUME NEW i \in 1..(Len(q) + 1)
        PROVE  LET n == Append(q, m)[i] IN
               \/ n = Stop
               \/ /\ n.op \in Calls
                  /\ n.id >= 1 /\ n.id <= mock.next_internal_id + 1
                  /\ n.op # "override" => n.seq < NextSeq(op)
                  /\ n.id = mock.next_internal_id + 1 => n = m
    <3>1. CASE i = Len(q) + 1
      BY <1>2, <1>4, <1>8, <2>2, <3>1
    <3>2. CASE i \in 1..Len(q)
      BY <1>2, <1>3, <1>8, <1>9, <1>10, <1>11, <2>2, <3>2
    <3> QED
      BY <1>8, <3>1, <3>2
  <2> QED
    BY <1>7, <1>8, <2>1, <2>3 DEF QueueInv
<1>13. OrderInv'
  <2>1. ASSUME NEW i \in 1..(Len(q) + 1), Append(q, m)[i].op \notin {"stop", "override"}
        PROVE  /\ Append(q, m)[i].seq > child.last_seq
               /\ \A j \in 1..(i - 1) :
                    Append(q, m)[j].op # "override" => Append(q, m)[j].seq < Append(q, m)[i].seq
    <3>1. CASE i = Len(q) + 1
      BY <1>2, <1>4, <1>8, <1>11, <3>1 DEF RuntimeInv, QueueInv
    <3>2. CASE i \in 1..Len(q)
      <4>1. q[i].seq > child.last_seq
            /\ \A j \in 1..(i - 1) : q[j].op # "override" => q[j].seq < q[i].seq
        BY <1>8, <2>1, <3>2 DEF RuntimeInv, OrderInv
      <4> QED
        BY <1>8, <3>2, <4>1
    <3> QED
      BY <1>8, <3>1, <3>2
  <2> QED
    BY <1>7, <1>8, <2>1 DEF OrderInv
<1>14. ReplyInv'
  <2>1. ASSUME NEW i \in DOMAIN child.out_queue
        PROVE  child.out_queue[i].id >= 1 /\ child.out_queue[i].id <= mock.next_internal_id
               /\ child.out_queue[i].id \in Nat
    <3>1. child.out_queue[i] \in QueuedReply
      BY <1>2
    <3> QED
      BY <3>1 DEF RuntimeInv, ReplyInv, QueuedReply
  <2> QED
    BY <1>2, <1>7, <2>1 DEF ReplyInv, Nothing
<1> QED
  BY <1>6, <1>12, <1>13, <1>14 DEF RuntimeInv

(* The ways a call ends: what is returned is the answer to the newest      *)
(* request or no answer at all.                                            *)
LEMMA ReturnInv ==
    ASSUME RuntimeInv, CallTimesOut \/ CallReturns \/ CallRaises
    PROVE  RuntimeInv'
<1> DEFINE q == child.out_queue
<1>1. child \in ChildState /\ mock \in MockState /\ done \in [1..MaxCalls -> Story]
  BY DEF RuntimeInv, RuntimeTypes
<1>2. q \in Seq(QueuedReply) /\ mock.instance \in Nat /\ mock.sent \in QueuedRequest
  BY <1>1 DEF ChildState, MockState
<1>3. q # <<>> => /\ Tail(q) \in Seq(QueuedReply) /\ Head(q) \in QueuedReply /\ Head(q) = q[1] /\ 1 \in DOMAIN q
                  /\ \A i \in DOMAIN Tail(q) : i + 1 \in DOMAIN q /\ Tail(q)[i] = q[i + 1]
  BY <1>2
<1>4. /\ child' = child \/ (q # <<>> /\ child' = [child EXCEPT !.out_queue = Tail(q)])
      /\ done' = done
  BY DEF CallTimesOut, CallReturns, CallRaises
<1>5. PICK p, r, n : mock' = [mock EXCEPT !.pc = p, !.returned = r, !.instance = n]
                     /\ p \in {"idle"} /\ n \in Nat /\ r \in Story
                     /\ (r.status = "completed" =>
                          \/ r = mock.returned
                          \/ q # <<>> /\ Head(q).id = mock.next_internal_id
                             /\ Head(q).status = "completed" /\ r.op = mock.sent.op)
  <2>1. ASSUME NEW status \in Verdicts, NEW instance \in Nat, Returns(status, instance),
               status = "completed" => /\ q # <<>> /\ Head(q).id = mock.next_internal_id
                                       /\ Head(q).status = "completed"
        PROVE  \E r \in Story, n \in Nat :
                 /\ mock' = [mock EXCEPT !.pc = "idle", !.returned = r, !.instance = n]
                 /\ (r.status = "completed" =>
                          q # <<>> /\ Head(q).id = mock.next_internal_id
                             /\ Head(q).status = "completed" /\ r.op = mock.sent.op)
    <3> DEFINE r == [op |-> mock.sent.op, status |-> status]
               n == CASE mock.sent.op = "start_instance" /\ status = "completed" -> instance
                      [] mock.sent.op = "close_instance" -> NoId
                      [] OTHER -> mock.instance
    <3>1. r \in Story /\ n \in Nat
      BY <1>2, <2>1 DEF Story, QueuedRequest, NoId
    <3>2. mock' = [mock EXCEPT !.pc = "idle", !.returned = r, !.instance = n]
      BY <2>1 DEF Returns
    <3>3. r.status = status /\ r.op = mock.sent.op
      OBVIOUS
    <3> HIDE DEF r, n
    <3> QED
      BY <2>1, <3>1, <3>2, <3>3
  <2>2. CASE CallTimesOut
    BY <2>1, <2>2 DEF CallTimesOut, Verdicts, NoId
  <2>3. CASE CallReturns
    <3>1. Head(q).status \in Verdicts /\ Head(q).instance \in Nat
      <4>1. q # <<>>
        BY <2>3 DEF CallReturns
      <4>2. Head(q) \in QueuedReply
        BY <1>3, <4>1
      <4> HIDE DEF q
      <4> QED
        BY <4>2 DEF QueuedReply, Verdicts
    <3>2. /\ q # <<>> /\ Head(q).id = mock.next_internal_id
          /\ Returns(Head(q).status, Head(q).instance)
      BY <2>3 DEF CallReturns, Expected
    <3> HIDE DEF q
    <3> QED
      BY <2>1, <3>1, <3>2
  <2>4. CASE CallRaises
    <3>1. mock.returned \in Story /\ mock.instance \in Nat
      BY <1>1 DEF MockState
    <3>2. mock' = [mock EXCEPT !.pc = "idle", !.returned = mock.returned, !.instance = mock.instance]
      <4>1. mock' = [mock EXCEPT !.pc = "idle"]
        BY <2>4 DEF CallRaises
      <4> QED
        BY <1>1, <4>1 DEF MockState
    <3> QED
      BY <3>1, <3>2
  <2> QED
    BY <2>2, <2>3, <2>4
<1>6. RuntimeTypes'
  <2>1. child' \in ChildState
    BY <1>1, <1>3, <1>4 DEF ChildState
  <2>2. mock' \in MockState
    BY <1>1, <1>5 DEF MockState
  <2> QED
    BY <1>1, <1>4, <2>1, <2>2 DEF RuntimeTypes
<1>7. /\ mock'.next_internal_id = mock.next_internal_id /\ mock'.request_seq = mock.request_seq
      /\ mock'.sent = mock.sent /\ mock'.returned = r
  BY <1>1, <1>5 DEF MockState
<1>8. /\ child'.in_queue = child.in_queue /\ child'.last_seq = child.last_seq
      /\ (child'.out_queue = q \/ (q # <<>> /\ child'.out_queue = Tail(q)))
  BY <1>1, <1>4 DEF ChildState
<1>9. QueueInv' /\ OrderInv'
  BY <1>7, <1>8 DEF RuntimeInv, QueueInv, OrderInv
<1>10. Ran("completed") <=> Ran("completed")'
  BY <1>4, <1>7, <1>8 DEF Ran
<1>11. \A i \in DOMAIN q :
         /\ q[i].id >= 1 /\ q[i].id <= mock.next_internal_id
         /\ q[i].id = mock.next_internal_id /\ q[i].status = "completed" => Ran("completed")
  BY DEF RuntimeInv, ReplyInv
<1>12. ReplyInv'
  <2>1. \A i \in DOMAIN child'.out_queue :
         /\ child'.out_queue[i].id >= 1 /\ child'.out_queue[i].id <= mock.next_internal_id
         /\ child'.out_queue[i].id = mock.next_internal_id /\ child'.out_queue[i].status = "completed"
              => Ran("completed")
    BY <1>3, <1>8, <1>11
  <2>2. r.status = "completed" => r.op = mock.sent.op /\ Ran("completed")
    BY <1>3, <1>5, <1>11 DEF RuntimeInv, ReplyInv
  <2> QED
    BY <1>7, <1>10, <2>1, <2>2 DEF ReplyInv
<1> QED
  BY <1>6, <1>9, <1>12 DEF RuntimeInv

(* close appends the order to stop; the ends of the two processes touch no *)
(* queue and no sequence number.                                           *)
LEMMA EndInv ==
    ASSUME RuntimeInv,
           CloseProcess \/ JoinReturns \/ JoinTimesOut \/ ChildStops \/ ChildDies
    PROVE  RuntimeInv'
<1> DEFINE q == child.in_queue
<1>1. child \in ChildState /\ mock \in MockState /\ done \in [1..MaxCalls -> Story]
  BY DEF RuntimeInv, RuntimeTypes
<1>2. q \in Seq(QueuedRequest) /\ Stop \in QueuedRequest /\ Append(q, Stop) \in Seq(QueuedRequest)
  BY <1>1 DEF ChildState, Stop, QueuedRequest, Ops, NoId
<1>3. /\ done' = done /\ RuntimeTypes'
      /\ child'.last_seq = child.last_seq /\ child'.out_queue = child.out_queue
      /\ mock'.next_internal_id = mock.next_internal_id /\ mock'.request_seq = mock.request_seq
      /\ mock'.sent = mock.sent /\ mock'.returned = mock.returned
      /\ child'.in_queue = q \/ child'.in_queue = Append(q, Stop)
  <2>1. CASE CloseProcess
    BY <1>1, <1>2, <2>1 DEF CloseProcess, RuntimeTypes, ChildState, MockState
  <2>2. CASE JoinReturns
    BY <1>1, <2>2 DEF JoinReturns, RuntimeTypes, ChildState, MockState
  <2>3. CASE JoinTimesOut
    BY <1>1, <2>3 DEF JoinTimesOut, RuntimeTypes, ChildState, MockState
  <2>4. CASE ChildStops
    BY <1>1, <2>4 DEF ChildStops, RuntimeTypes, ChildState, MockState, NoId
  <2>5. CASE ChildDies
    BY <1>1, <2>5 DEF ChildDies, RuntimeTypes, ChildState, MockState
  <2> QED
    BY <2>1, <2>2, <2>3, <2>4, <2>5
<1>4. DOMAIN q = 1..Len(q) /\ Len(q) \in Nat /\ DOMAIN Append(q, Stop) = 1..(Len(q) + 1)
      /\ \A i \in 1..(Len(q) + 1) : Append(q, Stop)[i] = IF i = Len(q) + 1 THEN Stop ELSE q[i]
  BY <1>2
<1>5. \A i \in DOMAIN child'.in_queue :
        \/ child'.in_queue[i] = Stop
        \/ i \in DOMAIN q /\ child'.in_queue[i] = q[i]
           /\ \A j \in 1..(i - 1) : j \in DOMAIN q /\ child'.in_queue[j] = q[j]
  <2>1. CASE child'.in_queue = q
    BY <1>4, <2>1
  <2>2. CASE child'.in_queue = Append(q, Stop)
    BY <1>4, <2>2
  <2> QED
    BY <1>3, <2>1, <2>2
<1>6. QueueInv'
  BY <1>3, <1>5 DEF RuntimeInv, QueueInv
<1>7. OrderInv'
  <2>1. Stop.op = "stop"
    BY DEF Stop
  <2> QED
    BY <1>3, <1>5, <2>1 DEF RuntimeInv, OrderInv
<1>8. ReplyInv'
  BY <1>3 DEF RuntimeInv, ReplyInv, Ran
<1> QED
  BY <1>3, <1>6, <1>7, <1>8 DEF RuntimeInv

(* The child serves the oldest request: it runs it only when its           *)
(* request_seq is the ledger's next, so that what "done" says of an        *)
(* earlier one stays.                                                      *)
LEMMA ServeInv ==
    ASSUME RuntimeInv, NEW status \in Statuses, ChildServes(status)
    PROVE  RuntimeInv'
<1> DEFINE q == child.in_queue
           o == child.out_queue
           m == Head(q)
           admitted == status \notin {"invalid_request", "session_sequence_gap"}
           ran == admitted /\ status # "session_instance_conflict"
           starts == ran /\ m.op = "start_instance"
           number == IF starts THEN child.serial + 1 ELSE child.serial
           last == IF admitted THEN m.seq ELSE child.last_seq
           active == IF starts /\ status = "completed" THEN number
                     ELSE IF ran /\ m.op = "close_instance" THEN NoId ELSE child.active
           a == [id |-> m.id, status |-> status, instance |-> number]
           told == [op |-> m.op, status |-> status]
<1>1. child \in ChildState /\ mock \in MockState /\ done \in [1..MaxCalls -> Story]
  BY DEF RuntimeInv, RuntimeTypes
<1>2. /\ q \in Seq(QueuedRequest) /\ o \in Seq(QueuedReply) /\ q # <<>>
      /\ child.last_seq \in Nat /\ child.serial \in Nat /\ child.active \in Nat
      /\ mock.next_internal_id \in Nat /\ mock.request_seq \in Nat
      /\ mock.sent \in QueuedRequest /\ mock.returned \in Story
  BY <1>1 DEF ChildServes, ChildState, MockState
<1>3. /\ m \in QueuedRequest /\ m = q[1] /\ 1 \in DOMAIN q /\ Tail(q) \in Seq(QueuedRequest)
      /\ Len(q) \in Nat /\ DOMAIN q = 1..Len(q)
      /\ \A i \in DOMAIN Tail(q) : i + 1 \in DOMAIN q /\ Tail(q)[i] = q[i + 1] /\ i \in Nat /\ i >= 1
      /\ DOMAIN Tail(q) = 1..(Len(q) - 1)
  BY <1>2
<1>4. m.id \in Nat /\ m.seq \in Nat /\ m.op \in Ops /\ number \in Nat /\ last \in Nat /\ active \in Nat
  <2> HIDE DEF m, admitted
  <2>1. m.id \in Nat /\ m.seq \in Nat /\ m.op \in Ops
    BY <1>3 DEF QueuedRequest
  <2> QED
    BY <1>2, <2>1 DEF NoId
<1>5. a \in QueuedReply /\ told \in Story /\ a.id = m.id /\ a.status = status
      /\ told.op = m.op /\ told.status = status
  BY <1>4 DEF QueuedReply, Story, Verdicts
<1>6. m # Stop /\ status \in Outcomes(m)
  BY DEF ChildServes
<1>7. /\ m.op \in Calls /\ m.id >= 1 /\ m.id <= mock.next_internal_id
      /\ (m.op # "override" => m.seq < mock.request_seq)
      /\ (m.id = mock.next_internal_id => m = mock.sent)
  BY <1>3, <1>6 DEF RuntimeInv, QueueInv
<1>8. m.op \notin {"stop", "override"} => m.seq > child.last_seq
  BY <1>3 DEF RuntimeInv, OrderInv
<1>9. admitted => m.op \notin {"stop", "override"} /\ m.seq = child.last_seq + 1
  BY <1>6, <1>7 DEF Outcomes, Validated, Calls
<1>10. status = "completed" => ran
  OBVIOUS
<1>11. m.op \notin {"stop", "override"} => m.seq \in 1..MaxCalls
  BY <1>2, <1>4, <1>7, <1>8, CallsAssumption DEF RuntimeInv, QueueInv
<1>12. /\ child' = [child EXCEPT !.in_queue = Tail(q), !.out_queue = Append(o, a),
                                 !.serial = number, !.last_seq = last, !.active = active]
       /\ done' = IF ran THEN [done EXCEPT ![m.seq] = told] ELSE done
       /\ mock' = mock
  BY <1>1 DEF ChildServes, Answered, ChildState
<1>13. ran => admitted
  OBVIOUS
<1>14. /\ (admitted => last = m.seq) /\ (~admitted => last = child.last_seq)
  OBVIOUS
<1>15. admitted \in BOOLEAN /\ ran \in BOOLEAN
  OBVIOUS
<1> HIDE DEF m, admitted, ran, starts, number, last, active, a, told
<1>16. /\ child'.in_queue = Tail(q) /\ child'.out_queue = Append(o, a)
       /\ child'.last_seq = last
  BY <1>1, <1>12 DEF ChildState
<1>17. RuntimeTypes'
  <2>1. child' \in ChildState
    <3>1. Append(o, a) \in Seq(QueuedReply)
      BY <1>2, <1>5
    <3> QED
      BY <1>1, <1>3, <1>4, <1>12, <3>1 DEF ChildState
  <2>2. done' \in [1..MaxCalls -> Story]
    BY <1>1, <1>5, <1>12
  <2> QED
    BY <1>1, <1>12, <2>1, <2>2 DEF RuntimeTypes
<1>18. child.last_seq <= last /\ last < mock.request_seq
  BY <1>2, <1>4, <1>7, <1>9, <1>14 DEF RuntimeInv, QueueInv
<1>19. QueueInv'
  BY <1>3, <1>12, <1>16, <1>18 DEF RuntimeInv, QueueInv
<1>20. OrderInv'
  <2>1. ASSUME NEW i \in DOMAIN Tail(q), Tail(q)[i].op \notin {"stop", "override"}
        PROVE  /\ Tail(q)[i].seq > last
               /\ \A j \in 1..(i - 1) :
                    Tail(q)[j].op # "override" => Tail(q)[j].seq < Tail(q)[i].seq
    <3>1. /\ q[i + 1].seq > child.last_seq
          /\ \A j \in 1..((i + 1) - 1) : q[j].op # "override" => q[j].seq < q[i + 1].seq
      BY <1>3, <2>1 DEF RuntimeInv, OrderInv
    <3>2. m.op # "override" => m.seq < q[i + 1].seq
      BY <1>3, <3>1
    <3>3. \A j \in 1..(i - 1) : j \in DOMAIN Tail(q) /\ j + 1 \in 1..((i + 1) - 1)
      BY <1>2, <1>3, <2>1
    <3>4. q[i + 1].seq \in Nat
      <4>1. q[i + 1] \in QueuedRequest
        BY <1>2, <1>3, <2>1
      <4> QED
        BY <4>1 DEF QueuedRequest
    <3> QED
      BY <1>3, <1>4, <1>9, <1>14, <3>1, <3>2, <3>3, <3>4
  <2> QED
    BY <1>16, <2>1 DEF OrderInv
<1>21. Ran("completed") => Ran("completed")'
  <2> SUFFICES ASSUME Ran("completed") PROVE Ran("completed")'
    OBVIOUS
  <2>1. mock.sent.seq \in Nat
    BY <1>2 DEF QueuedRequest
  <2>2. ran => m.seq # mock.sent.seq
    BY <1>2, <1>4, <1>9, <1>13, <2>1 DEF Ran
  <2>3. done'[mock.sent.seq] = done[mock.sent.seq]
    <3>1. CASE ran
      BY <1>1, <1>12, <2>2, <3>1
    <3>2. CASE ~ran
      BY <1>12, <3>2
    <3> QED
      BY <3>1, <3>2
  <2> QED
    BY <1>2, <1>4, <1>12, <1>16, <1>18, <2>1, <2>3 DEF Ran
<1>22. status = "completed" /\ m.id = mock.next_internal_id => Ran("completed")'
  <2> SUFFICES ASSUME status = "completed", m.id = mock.next_internal_id PROVE Ran("completed")'
    OBVIOUS
  <2>1. m = mock.sent /\ ran /\ admitted
    BY <1>7, <1>10, <1>13
  <2>2. done'[m.seq] = told /\ m.seq \in 1..MaxCalls
    BY <1>1, <1>9, <1>11, <1>12, <2>1
  <2>3. told = [op |-> m.op, status |-> "completed"]
    BY DEF told
  <2> QED
    BY <1>4, <1>9, <1>12, <1>14, <1>16, <2>1, <2>2, <2>3 DEF Ran
<1>23. ReplyInv'
  <2>1. DOMAIN Append(o, a) = 1..(Len(o) + 1) /\ DOMAIN o = 1..Len(o) /\ Len(o) \in Nat
        /\ \A i \in 1..(Len(o) + 1) : Append(o, a)[i] = IF i = Len(o) + 1 THEN a ELSE o[i]
    BY <1>2, <1>5
  <2>2. \A i \in 1..Len(o) :
          /\ o[i].id >= 1 /\ o[i].id <= mock.next_internal_id
          /\ o[i].id = mock.next_internal_id /\ o[i].status = "completed" => Ran("completed")
    BY <2>1 DEF RuntimeInv, ReplyInv
  <2>3. ASSUME NEW i \in 1..(Len(o) + 1)
        PROVE  /\ Append(o, a)[i].id >= 1 /\ Append(o, a)[i].id <= mock.next_internal_id
               /\ (Append(o, a)[i].id = mock.next_internal_id
                   /\ Append(o, a)[i].status = "completed" => Ran("completed")')
    <3>1. CASE i = Len(o) + 1
      BY <1>5, <1>7, <1>22, <2>1, <3>1
    <3>2. CASE i \in 1..Len(o)
      BY <1>21, <2>1, <2>2, <3>2
    <3> QED
      BY <2>1, <3>1, <3>2
  <2>4. mock.returned.status = "completed" => mock.returned.op = mock.sent.op /\ Ran("completed")'
    BY <1>21 DEF RuntimeInv, ReplyInv
  <2> QED
    BY <1>12, <1>16, <2>1, <2>3, <2>4 DEF ReplyInv
<1> QED
  BY <1>17, <1>19, <1>20, <1>23 DEF RuntimeInv

LEMMA RuntimeNextInv == RuntimeInv /\ [RuntimeNext]_runtimeVars => RuntimeInv'
<1> SUFFICES ASSUME RuntimeInv, [RuntimeNext]_runtimeVars PROVE RuntimeInv'
  OBVIOUS
<1>1. ASSUME NEW op \in Calls, NEW well_formed \in BOOLEAN, Call(op, well_formed) PROVE RuntimeInv'
  BY <1>1, CallInv
<1>2. CASE CallTimesOut \/ CallReturns \/ CallRaises
  BY <1>2, ReturnInv
<1>3. CASE CloseProcess \/ JoinReturns \/ JoinTimesOut \/ ChildStops \/ ChildDies
  BY <1>3, EndInv
<1>4. ASSUME NEW status \in Statuses, ChildServes(status) PROVE RuntimeInv'
  BY <1>4, ServeInv
<1>5. CASE UNCHANGED runtimeVars
  BY <1>5 DEF runtimeVars, RuntimeInv, RuntimeTypes, QueueInv, OrderInv, ReplyInv, Ran
<1> QED
  BY <1>1, <1>2, <1>3, <1>4, <1>5 DEF RuntimeNext

LEMMA RuntimeInvSuffices == RuntimeInv => CallsMatchTheRuntime
<1> SUFFICES ASSUME RuntimeInv PROVE CallsMatchTheRuntime
  OBVIOUS
<1>1. mock.returned.status = "completed" => done[mock.sent.seq] = mock.returned
  <2> SUFFICES ASSUME mock.returned.status = "completed" PROVE done[mock.sent.seq] = mock.returned
    OBVIOUS
  <2>1. done[mock.sent.seq] = [op |-> mock.returned.op, status |-> mock.returned.status]
    BY DEF RuntimeInv, ReplyInv, Ran
  <2>2. mock.returned \in Story
    BY DEF RuntimeInv, RuntimeTypes, MockState
  <2> QED
    BY <2>1, <2>2 DEF Story
<1> QED
  BY <1>1 DEF RuntimeInv, OrderInv, CallsMatchTheRuntime

(***************************************************************************)
(* What MockTrainingClient takes for the outcome of a call is what the     *)
(* server in the child made of that very request, and no request in the    *)
(* queue repeats a request_seq, however many calls gave up before it.      *)
(***************************************************************************)
THEOREM CallsMatch == RuntimeSpec => []CallsMatchTheRuntime
BY RuntimeInitInv, RuntimeNextInv, RuntimeInvSuffices, PTL DEF RuntimeSpec

-----------------------------------------------------------------------------
(* The two together.                                                       *)

(***************************************************************************)
(* Whichever transport a Training client uses, every one of the safety     *)
(* properties of the server and its clients holds: the transport in use    *)
(* keeps its invariant, and the other one stays as it started.             *)
(***************************************************************************)
THEOREM BothTransports ==
    TransportSpec => [](AtMostOnce /\ ClientAgreesWithLedger /\ EveryInstanceIsOwned
                        /\ CallsMatchTheRuntime)
<1> DEFINE Inv == IInv /\ RuntimeInv
<1>1. TransportInit => Inv
  BY InitIInv, RuntimeInitInv DEF TransportInit
<1>2. Inv /\ [TransportNext]_transportVars => Inv'
  <2> SUFFICES ASSUME Inv, [TransportNext]_transportVars PROVE Inv'
    OBVIOUS
  <2>1. [Next]_vars /\ [RuntimeNext]_runtimeVars
    BY DEF TransportNext, transportVars
  <2> QED
    BY <2>1, NextIInv, RuntimeNextInv
<1>3. Inv => AtMostOnce /\ ClientAgreesWithLedger /\ EveryInstanceIsOwned /\ CallsMatchTheRuntime
  BY AtMostOnceFromIInv, AgreementFromIInv, OwnershipFromIInv, RuntimeInvSuffices
<1> QED
  BY <1>1, <1>2, <1>3, PTL DEF TransportSpec
=============================================================================
