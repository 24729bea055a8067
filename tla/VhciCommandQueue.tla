-------------------------- MODULE VhciCommandQueue --------------------------
(***************************************************************************)
(* The synchronous command channel of the virtual USB host controller      *)
(* (src/vhci/queue.c, the bce_vhci_command_queue functions).                         *)
(*                                                                         *)
(* Callers run bce_vhci_command_queue_execute: a mutex serialises whole    *)
(* request/response cycles, a spinlock guards the single completion slot   *)
(* (c->result), and a request that times out is followed by one            *)
(* cancellation request (the same cmd with bit 0x4000).  The device side   *)
(* is the message ring the requests are written to and the event queue    *)
(* (module VhciEventQueue) whose completion handler passes each reply to   *)
(* bce_vhci_command_queue_deliver_completion.  The device can only answer  *)
(* into a receive buffer the event queue has posted.  The                  *)
(* device may answer late, so a timeout can race any reply.  Teardown      *)
(* (bce_vhci_command_queue_destroy) forces a pending completion.           *)
(*                                                                         *)
(* The message queue and the event queue are created before the command    *)
(* queue is used and destroyed after it is torn down; either creation may  *)
(* fail part-way, and the callers (vhci.c) then destroy whatever they      *)
(* created.                                                                *)
(*                                                                         *)
(* Messages are records [cmd, status, id]; cmd keeps its 16-bit value and  *)
(* is masked with the Bitwise operators exactly as the code masks it.      *)
(* id is a ghost: the execute call (its number) and whether the message    *)
(* was the cancellation, used only by the properties.                      *)
(***************************************************************************)
EXTENDS Integers, Sequences, FiniteSets, Bitwise

CONSTANTS
    Callers,     \* threads that call bce_vhci_command_queue_execute
    Ops,         \* logical command ids (low 14 bits of cmd)
    MaxExec,     \* bound on the number of execute calls in a behaviour
    RingSlots,   \* free slots of the command message ring
    EvSlots,     \* free slots of the reply event queue's ring
    EvPending,   \* receive buffers the reply event queue keeps posted
    None,        \* model value: an empty completion slot / unlocked mutex
    Uninit       \* model value: a response buffer nobody has written yet

ASSUME Ops \subseteq 1..(\h3FFF)
ASSUME MaxExec \in Nat \ {0} /\ RingSlots \in Nat \ {0}

\* The device's status codes (enum bce_vhci_command_status) and the
\* values execute can return.
DevStatus == {"SUCCESS", "ERROR"}
Status    == DevStatus \cup {"ABORT", "NONE"}
Ret       == {"OK", "EIO", "ETIMEDOUT", "ERESERVE", "ERROR", "ABORT"}

Id  == [exec : 0..MaxExec, cancel : BOOLEAN]
Msg == [cmd : 0..(\h10000 - 1), status : Status, id : Id]

VARIABLES
    pc,        \* caller -> where it is inside execute
    req,       \* caller -> cmd of the request of the current __execute level
    execNo,    \* caller -> number of its current execute call (ghost)
    resBuf,    \* caller -> its response buffer *res
    ret,       \* caller -> value its last execute returned
    forced,    \* caller -> its completion was forced by teardown (ghost)
    mutex,     \* cq->mutex: holder or None
    slot,      \* cq->completion.result: whose buffer, or None
    done,      \* cq->completion.completion has been completed
    sqFree,    \* free submission slots of cq->mq->sq
    toDevice,  \* messages written to the ring, not yet taken by the device
    evAvail,   \* the reply event queue (VhciEventQueue): free reservations,
    evPosted,  \*   posted empty buffers, filled buffers not yet handled,
    evRing,    \*   and the count of the completion pass in progress
    evCnt,
    execs,     \* execute calls started so far
    torn,      \* "live", "aborting" (destroy ran its spinlock part), "destroyed"
    mqLife,    \* cq->mq: "none", "created", "failed", "destroyed"
    evLife,    \* the reply event queue: the same
    qres       \* both queues' resources (VhciEventQueue): [ptr, acq, rel]

vars == <<pc, req, execNo, resBuf, ret, forced, mutex, slot, done,
          sqFree, toDevice, evAvail, evPosted, evRing, evCnt, execs, torn,
          mqLife, evLife, qres>>
evVars == <<evAvail, evPosted, evRing, evCnt>>
lifeVars == <<mqLife, evLife, qres>>

\* The event queue the replies arrive on.
EQ == INSTANCE VhciEventQueue WITH EvMsgs <- Msg

\* The message queue's resources: its completion ring, its submission ring
\* and its message buffers.
MqRes == {"mqCq", "mqSq", "mqData"}

-----------------------------------------------------------------------------
(* The masks of __bce_vhci_command_queue_execute and _cancel.              *)

ReplyIdent(cmd)   == cmd & \h3FFF        \* res->cmd & ~0xC000 (16-bit cmd)
RequestIdent(cmd) == cmd & \hBFFF        \* req->cmd & ~0x4000
IsCancel(cmd)     == (cmd & \h4000) # 0  \* cmd & 0x4000

\* The outcome of the cancel-path checks of bce_vhci_command_queue_cancel
\* after its inner __execute returned s.  When the cancellation could not
\* even be written, *res was never filled and the code reads an
\* uninitialised buffer: either branch may be taken.
CancelResult(c, s) ==
    IF s = "ETIMEDOUT" THEN {"ETIMEDOUT"}
    ELSE IF resBuf[c] = Uninit THEN {s, "ETIMEDOUT"}
    ELSE IF IsCancel(resBuf[c].cmd) THEN {"ETIMEDOUT"}
    ELSE {s}

\* Faulty variant of Finish: a return path that keeps the mutex.
FinishKeepsMutex(c, r) ==
    /\ ret' = [ret EXCEPT ![c] = r]
    /\ pc' = [pc EXCEPT ![c] = "idle"]
    /\ mutex' = mutex

\* The return of bce_vhci_command_queue_execute: record the result and
\* release the mutex.
Finish(c, r) ==
    /\ ret' = [ret EXCEPT ![c] = r]
    /\ pc' = [pc EXCEPT ![c] = "idle"]
    /\ mutex' = None

\* __execute at level phase returns s: to the caller when it ran the
\* original request, to bce_vhci_command_queue_cancel when it ran the
\* cancellation.
ExecReturn(c, s) ==
    IF IsCancel(req[c]) THEN \E r \in CancelResult(c, s) : Finish(c, r)
    ELSE Finish(c, s)

-----------------------------------------------------------------------------
Init ==
    /\ pc = [c \in Callers |-> "idle"]
    /\ req = [c \in Callers |-> CHOOSE o \in Ops : TRUE]
    /\ execNo = [c \in Callers |-> 0]
    /\ resBuf = [c \in Callers |-> Uninit]
    /\ ret = [c \in Callers |-> "OK"]
    /\ forced = [c \in Callers |-> FALSE]
    /\ mutex = None
    /\ slot = None
    /\ done = FALSE
    /\ sqFree = RingSlots
    /\ toDevice = <<>>
    /\ EQ!EvNone
    /\ execs = 0
    /\ torn = "live"
    /\ mqLife = "none"
    /\ qres = [r \in MqRes \cup EQ!EvRes |-> EQ!ResNone]

\* Faulty variant of MqCreate: the fail_cq label destroys the completion
\* ring but leaves ret->cq pointing at it.
MqCreateKeepsCq ==
    /\ torn = "live" /\ mqLife = "none"
    /\ LET S1 == EQ!Alloc(qres, "mqCq")
           S2 == EQ!Alloc(S1, "mqSq")
       IN \/ /\ qres' = EQ!Cleared(qres, "mqCq") /\ mqLife' = "failed"
          \/ /\ qres' = EQ!Free(EQ!Cleared(S1, "mqSq"), "mqCq")
             /\ mqLife' = "failed"
          \/ /\ qres' = EQ!Free(EQ!Cleared(EQ!Free(S2, "mqSq"), "mqSq"), "mqCq")
             /\ mqLife' = "failed"
          \/ /\ qres' = EQ!Alloc(S2, "mqData") /\ mqLife' = "created"
    /\ UNCHANGED <<pc, req, execNo, resBuf, ret, forced, mutex, slot,
                   done, sqFree, toDevice, evVars, execs, torn, evLife>>

\* bce_vhci_message_queue_create: bce_create_cq fails; or bce_create_sq
\* fails and fail_cq destroys the completion ring; or dma_alloc_coherent
\* fails and fail_sq destroys the submission ring, then fail_cq the
\* completion ring, each field set to NULL after it; or all three succeed.
MqCreate ==
    /\ torn = "live" /\ mqLife = "none"
    /\ LET S1 == EQ!Alloc(qres, "mqCq")
           S2 == EQ!Alloc(S1, "mqSq")
       IN \/ /\ qres' = EQ!Cleared(qres, "mqCq") /\ mqLife' = "failed"
          \/ /\ qres' = EQ!Cleared(EQ!Free(EQ!Cleared(S1, "mqSq"), "mqCq"), "mqCq")
             /\ mqLife' = "failed"
          \/ /\ qres' = EQ!Cleared(EQ!Free(EQ!Cleared(EQ!Free(S2, "mqSq"), "mqSq"),
                                           "mqCq"), "mqCq")
             /\ mqLife' = "failed"
          \/ /\ qres' = EQ!Alloc(S2, "mqData") /\ mqLife' = "created"
    /\ UNCHANGED <<pc, req, execNo, resBuf, ret, forced, mutex, slot,
                   done, sqFree, toDevice, evVars, execs, torn, evLife>>

\* bce_vhci_event_queue_create for the reply queue.
EvCreate ==
    /\ torn = "live"
    /\ EQ!EvCreate
    /\ UNCHANGED <<pc, req, execNo, resBuf, ret, forced, mutex, slot,
                   done, sqFree, toDevice, execs, torn, mqLife>>

\* Once the command queue is torn down: bce_vhci_message_queue_destroy
\* returns at once when q->cq is NULL, otherwise frees the buffers, the
\* submission ring and the completion ring; bce_vhci_event_queue_destroy.
MqDestroy ==
    /\ torn = "destroyed"
    /\ mqLife \in {"created", "failed"}
    /\ qres' = IF qres["mqCq"].ptr
               THEN EQ!Free(EQ!Free(EQ!Free(qres, "mqData"), "mqSq"), "mqCq")
               ELSE qres
    /\ mqLife' = "destroyed"
    /\ UNCHANGED <<pc, req, execNo, resBuf, ret, forced, mutex, slot,
                   done, sqFree, toDevice, evVars, execs, torn, evLife>>

EvDestroy ==
    /\ torn = "destroyed"
    /\ EQ!EvDestroy
    /\ UNCHANGED <<pc, req, execNo, resBuf, ret, forced, mutex, slot,
                   done, sqFree, toDevice, execs, torn, mqLife>>

\* A caller enters bce_vhci_command_queue_execute with a fresh, uninitialised
\* response buffer on its stack.
Start(c) ==
    /\ torn = "live"
    /\ mqLife = "created" /\ evLife = "created"
    /\ pc[c] = "idle"
    /\ execs < MaxExec
    /\ \E op \in Ops : req' = [req EXCEPT ![c] = op]
    /\ execs' = execs + 1
    /\ execNo' = [execNo EXCEPT ![c] = execs + 1]
    /\ resBuf' = [resBuf EXCEPT ![c] = Uninit]
    /\ forced' = [forced EXCEPT ![c] = FALSE]
    /\ pc' = [pc EXCEPT ![c] = "lock"]
    /\ UNCHANGED <<ret, mutex, slot, done, sqFree, toDevice, evVars, torn, lifeVars>>

\* mutex_lock(&cq->mutex).
Lock(c) ==
    /\ pc[c] = "lock"
    /\ mutex = None
    /\ mutex' = c
    /\ pc' = [pc EXCEPT ![c] = "reserve"]
    /\ UNCHANGED <<req, execNo, resBuf, ret, forced, slot, done,
                   sqFree, toDevice, evVars, execs, torn, lifeVars>>

\* bce_reserve_submission times out on a full ring: __execute returns its
\* error before touching the completion slot.
ReserveFail(c) ==
    /\ pc[c] = "reserve"
    /\ sqFree = 0
    /\ ExecReturn(c, "ERESERVE")
    /\ UNCHANGED <<req, execNo, resBuf, forced, slot, done, sqFree,
                   toDevice, evVars, execs, torn, lifeVars>>

\* bce_vhci_message_queue_write: the request is copied into the next slot
\* of the message queue's ring and submitted to the device.
MessageQueueWrite(c) ==
    toDevice' = Append(toDevice,
                  [cmd |-> req[c], status |-> "NONE",
                   id |-> [exec |-> execNo[c], cancel |-> IsCancel(req[c])]])

\* Faulty variant of Submit: the result of bce_reserve_submission is not
\* checked.
SubmitUnreserved(c) ==
    /\ pc[c] = "reserve"
    /\ sqFree' = sqFree - 1
    /\ slot' = c
    /\ done' = FALSE
    /\ MessageQueueWrite(c)
    /\ pc' = [pc EXCEPT ![c] = "wait"]
    /\ UNCHANGED <<req, execNo, resBuf, ret, forced, mutex, evVars,
                   execs, torn, lifeVars>>

\* The reservation succeeds; c->result = res and reinit_completion under the
\* spinlock, then bce_vhci_message_queue_write puts req on the ring.
Submit(c) ==
    /\ pc[c] = "reserve"
    /\ sqFree > 0
    /\ sqFree' = sqFree - 1
    /\ slot' = c
    /\ done' = FALSE
    /\ MessageQueueWrite(c)
    /\ pc' = [pc EXCEPT ![c] = "wait"]
    /\ UNCHANGED <<req, execNo, resBuf, ret, forced, mutex, evVars,
                   execs, torn, lifeVars>>

\* wait_for_completion_timeout returns with the completion done; the reply
\* in *res is checked against the request.
Wake(c) ==
    /\ pc[c] = "wait"
    /\ done
    /\ done' = FALSE
    /\ LET res == resBuf[c]
       IN ExecReturn(c,
            IF ReplyIdent(res.cmd) # RequestIdent(req[c]) THEN "EIO"
            ELSE IF res.status = "SUCCESS" THEN "OK"
            ELSE res.status)
    /\ UNCHANGED <<req, execNo, resBuf, forced, slot, sqFree,
                   toDevice, evVars, execs, torn, lifeVars>>

\* wait_for_completion_timeout runs out of time.
Timeout(c) ==
    /\ pc[c] = "wait"
    /\ ~done
    /\ pc' = [pc EXCEPT ![c] = "timedout"]
    /\ UNCHANGED <<req, execNo, resBuf, ret, forced, mutex, slot,
                   done, sqFree, toDevice, evVars, execs, torn, lifeVars>>

\* Faulty variant of ClearSlot: c->result is not reset.
ClearSlotKeepsSlot(c) ==
    /\ pc[c] = "timedout"
    /\ IF ~IsCancel(req[c])
       THEN /\ req' = [req EXCEPT ![c] = req[c] | \h4000]
            /\ pc' = [pc EXCEPT ![c] = "reserve"]
            /\ UNCHANGED <<ret, mutex>>
       ELSE /\ ExecReturn(c, "ETIMEDOUT")
            /\ UNCHANGED req
    /\ UNCHANGED <<slot, execNo, resBuf, forced, done, sqFree, toDevice,
                   evVars, execs, torn, lifeVars>>

\* After the timeout: c->result = NULL under the spinlock; an original
\* request is followed by its cancellation (creq.cmd |= 0x4000, executed by
\* the same caller at the same mutex hold), a cancellation returns
\* -ETIMEDOUT.
ClearSlot(c) ==
    /\ pc[c] = "timedout"
    /\ slot' = None
    /\ IF ~IsCancel(req[c])
       THEN /\ req' = [req EXCEPT ![c] = req[c] | \h4000]
            /\ pc' = [pc EXCEPT ![c] = "reserve"]
            /\ UNCHANGED <<ret, mutex>>
       ELSE /\ ExecReturn(c, "ETIMEDOUT")
            /\ UNCHANGED req
    /\ UNCHANGED <<execNo, resBuf, forced, done, sqFree, toDevice, evVars,
                   execs, torn, lifeVars>>

-----------------------------------------------------------------------------
(* The device and the delivery path.                                        *)

\* The replies the device may send to m.  A cancellation is answered either
\* with the cancel bit (the original was aborted) or without it (the
\* original had already run; its result is in the reply).  0x8000 is the
\* reply tag.
Replies(m) ==
    {[cmd |-> c | \h8000, status |-> s, id |-> m.id] :
        c \in IF IsCancel(m.cmd) THEN {m.cmd, m.cmd & \hBFFF} ELSE {m.cmd},
        s \in DevStatus}

\* The device takes the oldest message off the ring (the ring completion,
\* bce_vhci_message_queue_completion, frees its slot) and writes its reply
\* into a posted buffer of the event queue.
DeviceServe ==
    /\ mqLife = "created"
    /\ toDevice # <<>>
    /\ sqFree' = sqFree + 1
    /\ toDevice' = Tail(toDevice)
    /\ \E r \in Replies(Head(toDevice)) : EQ!DevicePost(r)
    /\ UNCHANGED <<pc, req, execNo, resBuf, ret, forced, mutex, slot,
                   done, execs, torn, mqLife>>

\* One iteration of the event queue's completion loop, whose callback is
\* bce_vhci_command_queue_deliver_completion: copy the reply into the
\* buffer the slot names, complete, clear the slot; a reply that finds the
\* slot empty is dropped.
DeliverCompletion ==
    /\ EQ!Completion
    /\ IF slot # None
       THEN /\ resBuf' = [resBuf EXCEPT ![slot] = Head(evRing)]
            /\ done' = TRUE
            /\ slot' = None
       ELSE UNCHANGED <<resBuf, done, slot>>
    /\ UNCHANGED <<pc, req, execNo, ret, forced, mutex, sqFree,
                   toDevice, execs, torn, mqLife>>

\* The event queue's completion pass ends and re-posts what it consumed.
ReplyPassEnd ==
    /\ EQ!CompletionEnd
    /\ UNCHANGED <<pc, req, execNo, resBuf, ret, forced, mutex, slot,
                   done, sqFree, toDevice, execs, torn, mqLife>>

\* bce_vhci_command_queue_destroy, spinlock part: a pending completion is
\* forced with a zeroed message whose status is BCE_VHCI_ABORT.
DestroyAbort ==
    /\ torn = "live"
    /\ torn' = "aborting"
    /\ IF slot # None
       THEN /\ resBuf' = [resBuf EXCEPT ![slot] =
                   [cmd |-> 0, status |-> "ABORT",
                    id |-> [exec |-> 0, cancel |-> FALSE]]]
            /\ forced' = [forced EXCEPT ![slot] = TRUE]
            /\ done' = TRUE
            /\ slot' = None
       ELSE UNCHANGED <<resBuf, forced, done, slot>>
    /\ UNCHANGED <<pc, req, execNo, ret, mutex, sqFree, toDevice,
                   evVars, execs, lifeVars>>

\* bce_vhci_command_queue_destroy, mutex part: it takes and drops the mutex,
\* so it returns once the cycle in progress has finished.  The driver tears
\* the queue down only after its users stopped issuing commands.
DestroyFinish ==
    /\ torn = "aborting"
    /\ mutex = None
    /\ \A c \in Callers : pc[c] = "idle"
    /\ torn' = "destroyed"
    /\ UNCHANGED <<pc, req, execNo, resBuf, ret, forced, mutex, slot,
                   done, sqFree, toDevice, evVars, execs, lifeVars>>

\* The command queue is torn down and neither queue is still created.
Ended ==
    torn = "destroyed" /\ mqLife # "created" /\ evLife # "created"

\* Every call has returned and the device has drained, or everything is
\* torn down: the run is over.
Quiescent ==
    /\ \A c \in Callers : pc[c] = "idle"
    /\ \/ /\ toDevice = <<>> /\ evRing = <<>> /\ evCnt = 0
          /\ execs = MaxExec
       \/ Ended
    /\ UNCHANGED vars

CallerStep(c) ==
    \/ Lock(c) \/ ReserveFail(c) \/ Submit(c) \/ Wake(c) \/ Timeout(c)
    \/ ClearSlot(c)

Next ==
    \/ \E c \in Callers : Start(c) \/ CallerStep(c)
    \/ DeviceServe \/ DeliverCompletion \/ ReplyPassEnd
    \/ DestroyAbort \/ DestroyFinish
    \/ MqCreate \/ EvCreate \/ MqDestroy \/ EvDestroy
    \/ Quiescent

\* Callers run until they return: the mutex is released at every return and
\* every wait has a timeout (the kernel timer fires), so each caller step is
\* weakly fair.  The device owes nothing: it may never answer.
Spec == Init /\ [][Next]_vars /\ \A c \in Callers : WF_vars(CallerStep(c))

-----------------------------------------------------------------------------
(* Properties                                                               *)

TypeOK ==
    /\ pc \in [Callers -> {"idle", "lock", "reserve", "wait", "timedout"}]
    /\ req \in [Callers -> 0..(\h10000 - 1)]
    /\ execNo \in [Callers -> 0..MaxExec]
    /\ resBuf \in [Callers -> Msg \cup {Uninit}]
    /\ ret \in [Callers -> Ret]
    /\ forced \in [Callers -> BOOLEAN]
    /\ mutex \in Callers \cup {None}
    /\ slot \in Callers \cup {None}
    /\ done \in BOOLEAN
    /\ sqFree \in 0..RingSlots
    /\ toDevice \in Seq(Msg)
    /\ EQ!EvTypeOK
    /\ execs \in 0..MaxExec
    /\ torn \in {"live", "aborting", "destroyed"}
    /\ mqLife \in {"none", "created", "failed", "destroyed"}
    /\ qres \in [MqRes \cup EQ!EvRes -> [ptr : BOOLEAN, acq : Nat, rel : Nat]]

\* deliver_completion writes through c->result into a caller's stack
\* buffer.  That pointer may only name the buffer of the caller that holds
\* the mutex and is still inside its wait: a slot left behind by a caller
\* that returned would let a late reply write into a dead stack frame.
SlotOwnedByWaiter ==
    slot # None => /\ mutex = slot
                   /\ pc[slot] \in {"wait", "timedout"}

\* No execute call blocks forever, even if the device never answers and the
\* ring is full: every caller that entered execute returns.
ExecuteReturns ==
    \A c \in Callers : (pc[c] # "idle") ~> (pc[c] = "idle")

\* The reply an execute call accepts was sent by the device for that call:
\* for its request or for its own cancellation.  A reply arriving after the
\* slot was cleared must be a no-op (spec 4.3), never the answer to a later
\* call.
ReplyBelongsToCall ==
    \A c \in Callers :
        (pc[c] = "idle" /\ execNo[c] > 0 /\ ret[c] = "OK")
            => resBuf[c].id.exec = execNo[c]

\* A caller whose pending command was forced by teardown is told the
\* command was aborted (spec 4.3/7: "Aborted ... delivered as a specific
\* status to any waiter").
AbortReported ==
    \A c \in Callers :
        (pc[c] = "idle" /\ forced[c]) => ret[c] = "ABORT"

\* The reply event queue keeps its depth (VhciEventQueue): replies the
\* completion pass consumed are re-posted, so the device is never left
\* without a buffer to answer a command into.
EventDepthConstant == EQ!EventDepthConstant

\* Every ring and buffer the message queue and the event queue allocate is
\* freed at most once, and once the command queue is torn down and neither
\* queue is left created, nothing they allocated is still held.  A create
\* that fails part-way frees what it took (the fail_sq and fail_cq labels)
\* and sets each field to NULL, which is what makes the destroy that
\* follows (bce_vhci_message_queue_destroy tests q->cq,
\* bce_vhci_event_queue_destroy q->sq) a no-op rather than a second free.
QueueResourcesBalanced ==
    /\ \A r \in DOMAIN qres : qres[r].rel <= qres[r].acq
    /\ Ended => \A r \in DOMAIN qres : qres[r].rel = qres[r].acq
=============================================================================
