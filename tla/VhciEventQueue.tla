--------------------------- MODULE VhciEventQueue ---------------------------
(***************************************************************************)
(* The receive-only event queue of the virtual USB host controller         *)
(* (src/vhci/queue.c, the bce_vhci_event_queue functions).                 *)
(*                                                                         *)
(* The host posts empty message buffers to the device on a submission      *)
(* ring; the device fills the oldest posted buffer with a message and      *)
(* completes it.  The completion handler (run from the DMA interrupt)      *)
(* takes completed buffers in ring order, passes each message to the       *)
(* queue's callback, returns the ring slot, and after the batch re-posts   *)
(* as many buffers as it consumed.                                         *)
(*                                                                         *)
(* The ring primitive (bce_reserve_submission, bce_next_completion,        *)
(* bce_notify_submission_complete, bce_submit_to_device) is outside src/;  *)
(* it is modelled from its contract: a reservation takes one of EvSlots    *)
(* free submission slots or fails, and notifying a consumed completion     *)
(* frees its slot.  A posted buffer is submitted to the device only by     *)
(* bce_submit_to_device, which submit_pending calls after its loop.        *)
(*                                                                         *)
(* The callback is supplied by the module that owns the queue: it          *)
(* conjoins Completion with the callback's effect on Head(evRing).         *)
(*                                                                         *)
(* Creation and destruction allocate and free the ring (q->sq) and the     *)
(* message buffers (q->data).  qres is shared with the owner, which keeps  *)
(* its own queues' resources in it: for each resource whether the field    *)
(* pointing at it is non-NULL, and how often it was allocated and freed.   *)
(***************************************************************************)
EXTENDS Naturals, Sequences

CONSTANTS
    EvSlots,    \* free submission slots of the event queue's ring
    EvPending,  \* VHCI_EVENT_PENDING_COUNT: the depth posted at creation
    EvMsgs      \* the messages the device may write into a buffer

ASSUME EvSlots \in Nat \ {0} /\ EvPending \in 1..EvSlots

VARIABLES
    evAvail,   \* free reservations of q->sq
    evPosted,  \* empty buffers submitted to the device
    evRing,    \* buffers the device has filled and completed, oldest first
    evCnt,     \* cnt of the completion pass in progress
    evLife,    \* "none", "created", "failed" (create returned -EINVAL),
               \* "destroyed"
    qres       \* resource -> [ptr, acq, rel]

evVars == <<evAvail, evPosted, evRing, evCnt>>

EvRes == {"evSq", "evData"}
ResNone == [ptr |-> FALSE, acq |-> 0, rel |-> 0]

\* Allocate resource r and store it in its field; free it (the field keeps
\* its value); set its field to NULL.
Alloc(S, r)  == [S EXCEPT ![r] = [ptr |-> TRUE, acq |-> @.acq + 1, rel |-> @.rel]]
Free(S, r)   == [S EXCEPT ![r].rel = @ + 1]
Cleared(S, r) == [S EXCEPT ![r].ptr = FALSE]

\* bce_vhci_event_queue_submit_pending(q, count): reserve and fill up to
\* count submissions, stopping at the first failed reservation, then
\* submit what was filled to the device.
SubmitPending(count) ==
    LET n == IF count <= evAvail THEN count ELSE evAvail
    IN /\ evAvail' = evAvail - n
       /\ evPosted' = evPosted + n

\* The event queue's struct before creation: zeroed, ring untouched.
EvNone ==
    /\ evAvail = EvSlots /\ evPosted = 0 /\ evRing = <<>> /\ evCnt = 0
    /\ evLife = "none"

\* bce_vhci_event_queue_create and __bce_vhci_event_queue_create:
\* bce_create_sq fails (ret->sq is NULL); or dma_alloc_coherent fails and
\* the ring is destroyed and ret->sq set to NULL; or both succeed and the
\* buffers are posted: bce_vhci_event_queue_submit_pending(ret,
\* VHCI_EVENT_PENDING_COUNT) on the new ring.
EvCreate ==
    /\ evLife = "none"
    /\ \/ /\ qres' = Cleared(qres, "evSq")
          /\ evLife' = "failed"
          /\ UNCHANGED evVars
       \/ /\ qres' = Cleared(Free(Alloc(qres, "evSq"), "evSq"), "evSq")
          /\ evLife' = "failed"
          /\ UNCHANGED evVars
       \/ /\ qres' = Alloc(Alloc(qres, "evSq"), "evData")
          /\ evLife' = "created"
          /\ evAvail' = EvSlots - EvPending /\ evPosted' = EvPending
          /\ UNCHANGED <<evRing, evCnt>>

\* bce_vhci_event_queue_destroy: nothing when q->sq is NULL, otherwise free
\* the buffers and the ring.
EvDestroy ==
    /\ evLife \in {"created", "failed"}
    /\ qres' = IF qres["evSq"].ptr THEN Free(Free(qres, "evData"), "evSq")
               ELSE qres
    /\ evLife' = "destroyed"
    /\ UNCHANGED evVars

\* The device writes message m into the oldest posted buffer and completes
\* it.
DevicePost(m) ==
    /\ evLife = "created"
    /\ evPosted > 0
    /\ evPosted' = evPosted - 1
    /\ evRing' = Append(evRing, m)
    /\ UNCHANGED <<evAvail, evCnt, evLife, qres>>

\* Faulty variant of Completion: the consumed buffer's ring slot is not
\* returned with bce_notify_submission_complete.
CompletionNoNotify ==
    /\ evLife = "created"
    /\ evRing # <<>>
    /\ evRing' = Tail(evRing)
    /\ evCnt' = evCnt + 1
    /\ UNCHANGED <<evAvail, evPosted, evLife, qres>>

\* One iteration of the loop of bce_vhci_event_queue_completion:
\* bce_next_completion found a completed buffer; its message
\* (ev->data[sq->head], Head(evRing)) goes to ev->cb, which the owner
\* conjoins; bce_notify_submission_complete frees the slot; ++cnt.
Completion ==
    /\ evLife = "created"
    /\ evRing # <<>>
    /\ evRing' = Tail(evRing)
    /\ evAvail' = evAvail + 1
    /\ evCnt' = evCnt + 1
    /\ UNCHANGED <<evPosted, evLife, qres>>

\* The loop ends when bce_next_completion finds nothing; the pass ends with
\* bce_vhci_event_queue_submit_pending(ev, cnt).
CompletionEnd ==
    /\ evLife = "created"
    /\ evRing = <<>>
    /\ evCnt > 0
    /\ SubmitPending(evCnt)
    /\ evCnt' = 0
    /\ UNCHANGED <<evRing, evLife, qres>>

\* The queue alone, with a callback that does nothing.
EvNext ==
    \/ EvCreate \/ EvDestroy
    \/ \E m \in EvMsgs : DevicePost(m)
    \/ Completion
    \/ CompletionEnd

EvSpec == EvNone /\ qres = [r \in EvRes |-> ResNone]
          /\ [][EvNext]_<<evVars, evLife, qres>>

-----------------------------------------------------------------------------
EvTypeOK ==
    /\ evAvail \in 0..EvSlots
    /\ evPosted \in 0..EvSlots
    /\ evRing \in Seq(EvMsgs)
    /\ evCnt \in 0..EvSlots
    /\ evLife \in {"none", "created", "failed", "destroyed"}

\* Spec 4.2/3: the queue keeps a constant depth.  Every buffer posted at
\* creation is, at every moment, either posted and empty, filled and
\* waiting for the completion handler, or consumed by the pass in progress
\* and owed a re-post; once the pass ends exactly EvPending are posted
\* again.  A reservation that fails in submit_pending, a slot not returned
\* by bce_notify_submission_complete, or a miscounted cnt loses a buffer
\* for good, and the device can then deliver fewer messages at a time.
EventDepthConstant ==
    evLife = "created" => evPosted + Len(evRing) + evCnt = EvPending
=============================================================================
