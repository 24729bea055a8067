------------------------- MODULE VhciTransferQueue -------------------------
(***************************************************************************)
(* One endpoint's transfer queue and the state machines of its URBs        *)
(* (src/vhci/transfer.c).                                                  *)
(*                                                                         *)
(* Two streams reach the queue from the device: messages from the event    *)
(* queue (bce_vhci_transfer_queue_event: "transfer request" 0x1000 and     *)
(* "control transfer status" 0x1005) and DMA completions of its own rings  *)
(* (bce_vhci_transfer_queue_completion).  Both run in the DMA interrupt     *)
(* thread, which handles one at a time and gives completed URBs back after *)
(* dropping q->urb_lock.  Client threads submit URBs (bce_vhci_urb_create) *)
(* and cancel them (bce_vhci_urb_cancel) concurrently.                      *)
(*                                                                         *)
(* The device is the T2 endpoint: it asks for OUT data with a transfer     *)
(* request and waits for the descriptor, completes the descriptors of its  *)
(* rings in order (an IN completion may be short), and on a control        *)
(* endpoint runs setup, data and status stages.                            *)
(*                                                                         *)
(* Byte counts are small naturals; the setup packet is SetupSize bytes.    *)
(* Ring reservations are taken to succeed (the rings have 0x100 entries).  *)
(***************************************************************************)
EXTENDS Integers, Sequences, SequencesExt, FiniteSets

CONSTANTS
    Urbs,        \* the client's URBs (model values)
    Kind,        \* the endpoint: "control" (endpoint 0), "in" or "out" bulk
    Lens,        \* transfer_buffer_length values a URB may have
    ReqSizes,    \* byte counts the device asks for in a transfer request
    ClientOps,   \* client operations besides submission: "cancel", "pause",
                 \* "pausefail" and "resumefail" (a pause or resume whose
                 \* set_state command fails)
    TrWindow,    \* transfer requests the device has outstanding at most
    MaxPauses,   \* pause/resume cycles the client runs at most
    NoUrb        \* model value

ASSUME Kind \in {"control", "in", "out"}
ASSUME Lens \subseteq Nat /\ ReqSizes \subseteq Nat \ {0}
ASSUME ClientOps \subseteq {"cancel", "pause", "pausefail", "resumefail"}
ASSUME MaxPauses \in Nat
ASSUME TrWindow \in Nat \ {0}

SetupSize == 8
IsControl == Kind = "control"                    \* usb_endpoint_num == 0
HasIn     == Kind \in {"control", "in"}          \* q->sq_in != NULL
HasOut    == Kind \in {"control", "out"}         \* q->sq_out != NULL
Dirs      == CASE Kind = "control" -> {"in", "out"}
               [] Kind = "in"      -> {"in"}
               [] Kind = "out"     -> {"out"}

\* enum bce_vhci_urb_state
States == {"INIT_PAUSED", "WAITING_FOR_TRANSFER_REQUEST",
           "WAITING_FOR_COMPLETION", "DATA_TRANSFER_COMPLETE",
           "CONTROL_WAITING_FOR_SETUP_REQUEST",
           "CONTROL_WAITING_FOR_SETUP_COMPLETION", "CONTROL_COMPLETE"}

VARIABLES
    u,          \* URB -> its struct bce_vhci_urb (and urb->status, actual_length)
    urbs,       \* q->endp->urb_list: linked URBs in submission order
    evq,        \* q->evq: deferred messages
    gb,         \* q->giveback_urb_list
    ringIn,     \* descriptors on q->sq_in the device has not completed
    ringOut,    \* descriptors on q->sq_out the device has not completed
    cqIn,       \* completions of sq_in not yet handled
    cqOut,      \* completions of sq_out not yet handled
    evIn,       \* messages from the device not yet handled
    irq,        \* the DMA interrupt thread: "idle" or in the giveback loop
    dev,        \* the device: [pend, phase, urb, got]
    submitted,  \* URBs in the order the client submitted them (history)
    returned,   \* URBs in the order they were given back, with how (history)
    trSeq,      \* transfer requests the device has sent (history)
    trUsed,     \* sequence numbers of transfer requests consumed, in order
    devBytes,   \* URB -> bytes the device moved for its data descriptors
    credited,   \* pairs <<owner of a completion, URB it was applied to>>
    active,     \* q->active
    ctl,        \* where the thread running pause/resume is
    pauses,     \* pause cycles started
    pauseSeq    \* trSeq when pause's set_state command completed (history)

vars == <<u, urbs, evq, gb, ringIn, ringOut, cqIn, cqOut, evIn, irq, dev,
          submitted, returned, trSeq, trUsed, devBytes, credited,
          active, ctl, pauses, pauseSeq>>
pauseVars == <<active, ctl, pauses, pauseSeq>>

-----------------------------------------------------------------------------
(* The URB state machine.  Each operator returns the effect of one call:   *)
(* the URB's new fields, the descriptors it posted, whether it called      *)
(* bce_vhci_urb_complete, and its return code.                             *)

Eff(v, post, fin, rc) == [v |-> v, post |-> post, fin |-> fin, rc |-> rc]
Desc(ring, h, size, setup) ==
    [ring |-> ring, owner |-> h, size |-> size, setup |-> setup]

\* Run e2 on the URB e1 left, as the code does after e1 returned 0.
AndThen(e1, e2) ==
    Eff(e2.v, e1.post \o e2.post, e1.fin \/ e2.fin, e2.rc)

\* bce_vhci_urb_data_transfer_in: ask the device for the rest of the buffer
\* (message on msg_asynchronous) and post one IN descriptor for it.
DataTransferIn(v, h) ==
    Eff([v EXCEPT !.sendOff = v.recvOff, !.st = "WAITING_FOR_COMPLETION"],
        <<Desc("in", h, v.len - v.recvOff, FALSE)>>, FALSE, "0")

\* bce_vhci_urb_data_start
DataStart(v, h) ==
    IF v.dir = "out"
    THEN Eff([v EXCEPT !.st = IF v.len > 0 THEN "WAITING_FOR_TRANSFER_REQUEST"
                                           ELSE "DATA_TRANSFER_COMPLETE"],
             <<>>, FALSE, "0")
    ELSE DataTransferIn(v, h)

\* bce_vhci_urb_init
UrbInit(v, h) ==
    IF IsControl
    THEN Eff([v EXCEPT !.st = "CONTROL_WAITING_FOR_SETUP_REQUEST"], <<>>, FALSE, "0")
    ELSE DataStart(v, h)

\* Faulty variant of DataUpdate: sends the requested count without
\* clamping it to what is left of the buffer.
DataUpdateNoClamp(v, h, m) ==
    IF v.st = "WAITING_FOR_TRANSFER_REQUEST" /\ m.cmd = "TR"
    THEN Eff([v EXCEPT !.sendOff = @ + m.n, !.st = "WAITING_FOR_COMPLETION"],
             <<Desc("out", h, m.n, FALSE)>>, FALSE, "0")
    ELSE Eff(v, <<>>, FALSE, "EAGAIN")

\* bce_vhci_urb_data_update: a transfer request while waiting for one sends
\* min(remaining, requested) bytes; everything else is -EAGAIN.
DataUpdate(v, h, m) ==
    IF v.st = "WAITING_FOR_TRANSFER_REQUEST" /\ m.cmd = "TR"
    THEN LET tr == IF v.len - v.sendOff < m.n THEN v.len - v.sendOff ELSE m.n
         IN Eff([v EXCEPT !.sendOff = @ + tr, !.st = "WAITING_FOR_COMPLETION"],
                <<Desc("out", h, tr, FALSE)>>, FALSE, "0")
    ELSE Eff(v, <<>>, FALSE, "EAGAIN")

\* bce_vhci_urb_data_transfer_completion: a bulk URB completes with status
\* 0 when the data phase is over.
DataTransferCompletion(v, c) ==
    IF v.st = "WAITING_FOR_COMPLETION"
    THEN LET r == v.recvOff + c.size
         IN IF v.dir = "in" \/ r >= v.len
            THEN Eff([v EXCEPT !.recvOff = r, !.actual = r,
                               !.st = "DATA_TRANSFER_COMPLETE",
                               !.result = IF IsControl THEN @ ELSE "OK"],
                     <<>>, ~IsControl, "0")
            ELSE Eff([v EXCEPT !.recvOff = r], <<>>, FALSE, "0")
    ELSE Eff(v, <<>>, FALSE, "0")

\* bce_vhci_urb_control_check_status
ControlCheckStatus(v) ==
    IF v.rstatus = "NONE" THEN Eff(v, <<>>, FALSE, "0")
    ELSE IF \/ v.st = "DATA_TRANSFER_COMPLETE"
            \/ /\ v.rstatus # "SUCCESS"
               /\ v.st \notin {"CONTROL_WAITING_FOR_SETUP_REQUEST",
                               "CONTROL_WAITING_FOR_SETUP_COMPLETION"}
         THEN Eff([v EXCEPT !.st = "CONTROL_COMPLETE", !.result = "OK"],
                  <<>>, TRUE, "ENOENT")
         ELSE Eff(v, <<>>, FALSE, "0")

\* bce_vhci_urb_control_update
ControlUpdate(v, h, m) ==
    IF m.cmd = "STATUS"
    THEN ControlCheckStatus([v EXCEPT !.rstatus = m.status])
    ELSE IF v.st = "CONTROL_WAITING_FOR_SETUP_REQUEST" /\ m.cmd = "TR"
    THEN Eff([v EXCEPT !.st = "CONTROL_WAITING_FOR_SETUP_COMPLETION"],
             <<Desc("out", h, SetupSize, TRUE)>>, FALSE, "0")
    ELSE IF v.st \in {"WAITING_FOR_TRANSFER_REQUEST", "WAITING_FOR_COMPLETION"}
    THEN LET e1 == DataUpdate(v, h, m)
         IN IF e1.rc # "0" THEN e1 ELSE AndThen(e1, ControlCheckStatus(e1.v))
    ELSE Eff(v, <<>>, FALSE, "EAGAIN")

\* bce_vhci_urb_control_transfer_completion
ControlTransferCompletion(v, h, c) ==
    IF v.st = "CONTROL_WAITING_FOR_SETUP_COMPLETION"
    THEN DataStart(v, h)
    ELSE IF v.st \in {"WAITING_FOR_TRANSFER_REQUEST", "WAITING_FOR_COMPLETION"}
    THEN LET e1 == DataTransferCompletion(v, c)
         IN AndThen(e1, ControlCheckStatus(e1.v))
    ELSE Eff(v, <<>>, FALSE, "0")

\* bce_vhci_urb_update and bce_vhci_urb_transfer_completion
UrbUpdate(v, h, m) ==
    IF IsControl THEN ControlUpdate(v, h, m) ELSE DataUpdate(v, h, m)
UrbTransferCompletion(v, h, c) ==
    IF IsControl THEN ControlTransferCompletion(v, h, c)
    ELSE DataTransferCompletion(v, c)

-----------------------------------------------------------------------------
(* The queue under q->urb_lock, as a record so that the loops of the code  *)
(* can be written as recursive operators over it.                           *)

Q == [u |-> u, urbs |-> urbs, evq |-> evq, gb |-> gb, ringIn |-> ringIn,
      ringOut |-> ringOut, trUsed |-> trUsed, credited |-> credited]

SetQ(S) ==
    /\ u' = S.u /\ urbs' = S.urbs /\ evq' = S.evq /\ gb' = S.gb
    /\ ringIn' = S.ringIn /\ ringOut' = S.ringOut
    /\ trUsed' = S.trUsed /\ credited' = S.credited

\* Apply effect e of URB h: store its fields, put its descriptors on the
\* rings (bce_submit_to_device), and for bce_vhci_urb_complete unlink it
\* and list_add it at the head of the giveback list.
Apply(S, h, e) ==
    LET S1 == [S EXCEPT
                 !.u[h] = e.v,
                 !.ringIn = @ \o SelectSeq(e.post, LAMBDA d : d.ring = "in"),
                 !.ringOut = @ \o SelectSeq(e.post, LAMBDA d : d.ring = "out")]
    IN IF e.fin THEN [S1 EXCEPT !.urbs = Remove(@, h), !.gb = <<h>> \o @]
       ELSE S1

\* Message m is consumed (not deferred): remember the order of transfer
\* requests.
Consumed(S, m) ==
    IF m.cmd = "TR" THEN [S EXCEPT !.trUsed = Append(@, m.seq)] ELSE S

\* Faulty variant of DeliverPending: replays the newest deferred message.
RECURSIVE DeliverPendingNewest(_)
DeliverPendingNewest(S) ==
    IF S.urbs = <<>> \/ S.evq = <<>> THEN S
    ELSE LET h == Head(S.urbs)
             m == Last(S.evq)
             e == UrbUpdate(S.u[h], h, m)
         IN IF e.rc = "EAGAIN" THEN S
            ELSE DeliverPendingNewest(
                   Consumed([Apply(S, h, e) EXCEPT !.evq = Front(@)], m))

\* bce_vhci_transfer_queue_deliver_pending: oldest deferred message to the
\* oldest URB until one answers -EAGAIN.
RECURSIVE DeliverPending(_)
DeliverPending(S) ==
    IF S.urbs = <<>> \/ S.evq = <<>> THEN S
    ELSE LET h == Head(S.urbs)
             m == Head(S.evq)
             e == UrbUpdate(S.u[h], h, m)
         IN IF e.rc = "EAGAIN" THEN S
            ELSE DeliverPending(Consumed([Apply(S, h, e) EXCEPT !.evq = Tail(@)], m))

\* The body of bce_vhci_transfer_queue_event after deliver_pending.
EventBody(S, m) ==
    IF m.cmd = "TR" /\ (S.evq # <<>> \/ S.urbs = <<>>)
    THEN [S EXCEPT !.evq = Append(@, m)]
    ELSE IF S.urbs = <<>> THEN S
    ELSE LET h == Head(S.urbs)
             e == UrbUpdate(S.u[h], h, m)
         IN IF e.rc = "EAGAIN" THEN [Apply(S, h, e) EXCEPT !.evq = Append(@, m)]
            ELSE Consumed(Apply(S, h, e), m)

\* Faulty variant of Completions: credits the newest URB of the list.
RECURSIVE CompletionsToNewest(_, _)
CompletionsToNewest(S, cs) ==
    IF cs = <<>> THEN S
    ELSE LET c == Head(cs)
         IN IF c.aborted \/ S.urbs = <<>> THEN CompletionsToNewest(S, Tail(cs))
            ELSE LET h == Last(S.urbs)
                     S1 == Apply(S, h, UrbTransferCompletion(S.u[h], h, c))
                 IN CompletionsToNewest(
                      [S1 EXCEPT !.credited = @ \cup {<<c.owner, h>>}], Tail(cs))

\* The loop of bce_vhci_transfer_queue_completion over the ring's
\* completions: aborted ones and those with no URB pending are skipped, the
\* others go to the oldest URB.
RECURSIVE Completions(_, _)
Completions(S, cs) ==
    IF cs = <<>> THEN S
    ELSE LET c == Head(cs)
         IN IF c.aborted \/ S.urbs = <<>> THEN Completions(S, Tail(cs))
            ELSE LET h == Head(S.urbs)
                     S1 == Apply(S, h, UrbTransferCompletion(S.u[h], h, c))
                 IN Completions([S1 EXCEPT !.credited = @ \cup {<<c.owner, h>>}],
                                Tail(cs))

-----------------------------------------------------------------------------
NewUrb == [dir |-> "out", len |-> 0, st |-> "INIT_PAUSED", rstatus |-> "NONE",
           sendOff |-> 0, recvOff |-> 0, actual |-> 0, result |-> "NONE"]

Init ==
    /\ u = [h \in Urbs |-> NewUrb]
    /\ urbs = <<>> /\ evq = <<>> /\ gb = <<>>
    /\ ringIn = <<>> /\ ringOut = <<>> /\ cqIn = <<>> /\ cqOut = <<>>
    /\ evIn = <<>>
    /\ irq = "idle"
    /\ dev = [pend |-> 0, phase |-> "idle", urb |-> NoUrb, got |-> 0,
                 paused |-> FALSE]
    /\ submitted = <<>> /\ returned = <<>>
    /\ trSeq = 0 /\ trUsed = <<>>
    /\ devBytes = [h \in Urbs |-> 0]
    /\ credited = {}
    /\ active = TRUE /\ ctl = "running" /\ pauses = 0 /\ pauseSeq = 0

Linked(h) == \E i \in DOMAIN urbs : urbs[i] = h

(* Client threads *)

\* bce_vhci_urb_create: link the URB; on an active queue initialise its
\* state machine, on a paused one park it in INIT_PAUSED; then
\* deliver_pending.  Nothing is given back here.
UrbCreate(h) ==
    /\ h \notin ToSet(submitted)
    /\ \E d \in Dirs, l \in Lens :
         LET v  == [NewUrb EXCEPT !.dir = d, !.len = l]
             S0 == [Q EXCEPT !.u[h] = v, !.urbs = Append(@, h)]
             e  == IF active THEN UrbInit(v, h) ELSE Eff(v, <<>>, FALSE, "0")
         IN SetQ(DeliverPending(Apply(S0, h, e)))
    /\ submitted' = Append(submitted, h)
    /\ UNCHANGED <<pauseVars, cqIn, cqOut, evIn, irq, dev, returned, trSeq, devBytes>>

\* Faulty variant of UrbCancel: no usb_hcd_check_unlink_urb, so a URB
\* already completed can be cancelled.
UrbCancelUnchecked(h) ==
    /\ "cancel" \in ClientOps
    /\ h \in ToSet(submitted)
    /\ LET S0 == [Q EXCEPT !.urbs = Remove(@, h), !.u[h].result = "ECONNRESET"]
       IN SetQ(DeliverPending(S0))
    /\ returned' = Append(returned, [urb |-> h, by |-> "cancel"])
    /\ UNCHANGED <<pauseVars, cqIn, cqOut, evIn, irq, dev, submitted, trSeq, devBytes>>

\* bce_vhci_urb_cancel on a URB still linked (usb_hcd_check_unlink_urb):
\* unlink it, deliver_pending, unlock, give it back with the caller's
\* status.  Descriptors it posted stay on the rings.
UrbCancel(h) ==
    /\ "cancel" \in ClientOps
    /\ Linked(h)
    /\ LET S0 == [Q EXCEPT !.urbs = Remove(@, h), !.u[h].result = "ECONNRESET"]
       IN SetQ(DeliverPending(S0))
    /\ returned' = Append(returned, [urb |-> h, by |-> "cancel"])
    /\ UNCHANGED <<pauseVars, cqIn, cqOut, evIn, irq, dev, submitted, trSeq, devBytes>>

(* The DMA interrupt thread *)

\* bce_vhci_transfer_queue_event (locked part), then the giveback loop.
TransferQueueEvent ==
    /\ irq = "idle"
    /\ evIn # <<>>
    /\ evIn' = Tail(evIn)
    /\ SetQ(EventBody(DeliverPending(Q), Head(evIn)))
    /\ irq' = "giveback"
    /\ UNCHANGED <<pauseVars, cqIn, cqOut, dev, submitted, returned, trSeq, devBytes>>

\* bce_vhci_transfer_queue_completion for sq_in or sq_out (locked part),
\* then the giveback loop.
TransferQueueCompletion(ring) ==
    /\ irq = "idle"
    /\ LET cs == IF ring = "in" THEN cqIn ELSE cqOut
       IN /\ cs # <<>>
          /\ SetQ(DeliverPending(Completions(Q, cs)))
    /\ IF ring = "in" THEN cqIn' = <<>> /\ UNCHANGED cqOut
                      ELSE cqOut' = <<>> /\ UNCHANGED cqIn
    /\ irq' = "giveback"
    /\ UNCHANGED <<pauseVars, evIn, dev, submitted, returned, trSeq, devBytes>>

\* Faulty variant of Giveback: the URB is not taken off the list.
GivebackNoListDel ==
    /\ irq = "giveback"
    /\ gb # <<>>
    /\ returned' = Append(returned, [urb |-> Head(gb), by |-> "complete"])
    /\ UNCHANGED <<pauseVars, u, urbs, evq, gb, ringIn, ringOut, cqIn, cqOut, evIn, irq, dev,
                   submitted, trSeq, trUsed, devBytes, credited>>

\* bce_vhci_transfer_queue_giveback: take the first URB of the list under
\* the lock, give it back with the lock dropped.
Giveback ==
    /\ irq = "giveback"
    /\ gb # <<>>
    /\ gb' = Tail(gb)
    /\ returned' = Append(returned, [urb |-> Head(gb), by |-> "complete"])
    /\ UNCHANGED <<pauseVars, u, urbs, evq, ringIn, ringOut, cqIn, cqOut, evIn, irq, dev,
                   submitted, trSeq, trUsed, devBytes, credited>>

GivebackDone ==
    /\ irq = "giveback"
    /\ gb = <<>>
    /\ irq' = "idle"
    /\ UNCHANGED <<pauseVars, u, urbs, evq, gb, ringIn, ringOut, cqIn, cqOut, evIn, dev,
                   submitted, returned, trSeq, trUsed, devBytes, credited>>

(* The thread running pause and resume (the controller layer). *)

\* bce_vhci_transfer_queue_pause, first locked step: q->active = false.
PauseDeactivate ==
    /\ "pause" \in ClientOps
    /\ ctl = "running" /\ pauses < MaxPauses
    /\ active' = FALSE /\ ctl' = "deactivated" /\ pauses' = pauses + 1
    /\ UNCHANGED <<pauseSeq, u, urbs, evq, gb, ringIn, ringOut, cqIn, cqOut,
                   evIn, irq, dev, submitted, returned, trSeq, trUsed,
                   devBytes, credited>>

\* Second locked step: free every deferred message of q->evq.
PauseClearEvq ==
    /\ ctl = "deactivated"
    /\ evq' = <<>> /\ ctl' = "cleared"
    /\ UNCHANGED <<active, pauses, pauseSeq, u, urbs, gb, ringIn, ringOut,
                   cqIn, cqOut, evIn, irq, dev, submitted, returned, trSeq,
                   trUsed, devBytes, credited>>

\* bce_vhci_cmd_endpoint_set_state(PAUSED): the device pauses the endpoint
\* and drops the transfer requests it had outstanding; or the command
\* fails and pause returns its error with the queue left inactive.
PauseSetState ==
    /\ ctl = "cleared"
    /\ \/ /\ dev' = [dev EXCEPT !.paused = TRUE, !.pend = 0]
          /\ ctl' = "flushing"
       \/ /\ "pausefail" \in ClientOps
          /\ ctl' = "failed"
          /\ UNCHANGED dev
    /\ pauseSeq' = trSeq
    /\ UNCHANGED <<active, pauses, u, urbs, evq, gb, ringIn, ringOut, cqIn,
                   cqOut, evIn, irq, submitted, returned, trSeq, trUsed,
                   devBytes, credited>>

\* An aborted completion for each descriptor still on a ring.
Aborted(ring) ==
    [i \in DOMAIN ring |-> [owner |-> ring[i].owner, size |-> 0, aborted |-> TRUE]]

\* bce_cmd_flush_memory_queue on sq_in, then on sq_out, where they exist:
\* the device returns every descriptor of the ring as aborted.
PauseFlush ==
    /\ ctl = "flushing"
    /\ IF HasIn THEN /\ cqIn' = cqIn \o Aborted(ringIn) /\ ringIn' = <<>>
                ELSE UNCHANGED <<cqIn, ringIn>>
    /\ IF HasOut THEN /\ cqOut' = cqOut \o Aborted(ringOut) /\ ringOut' = <<>>
                 ELSE UNCHANGED <<cqOut, ringOut>>
    /\ ctl' = "paused"
    /\ UNCHANGED <<active, pauses, pauseSeq, u, urbs, evq, gb, evIn, irq, dev,
                   submitted, returned, trSeq, trUsed, devBytes, credited>>

\* bce_vhci_transfer_queue_resume, the set_state(ACTIVE) command.  Its reply
\* is handled by the DMA interrupt thread in a later pass than everything
\* the device posted before it; after a successful pause the device posts
\* nothing more, so those messages and completions have all been handled
\* when the command returns.  After a failed pause the device is still
\* running and may post at any time.  The command may fail (an error
\* status, a timeout, or a state other than ACTIVE): resume returns its
\* error with q->active still false and its URBs not re-driven.
ResumeSetState ==
    /\ ctl \in {"paused", "failed", "resumefailed"}
    /\ ctl = "failed" \/ (evIn = <<>> /\ cqIn = <<>> /\ cqOut = <<>>)
    /\ \/ /\ dev' = [dev EXCEPT !.paused = FALSE]
          /\ ctl' = "resuming"
       \/ /\ "resumefail" \in ClientOps
          /\ ctl' = "resumefailed"
          /\ UNCHANGED dev
    /\ UNCHANGED <<active, pauses, pauseSeq, u, urbs, evq, gb, ringIn, ringOut,
                   cqIn, cqOut, evIn, irq, submitted, returned, trSeq, trUsed,
                   devBytes, credited>>

\* bce_vhci_urb_resume: a parked URB is initialised (its status ignored), a
\* URB waiting for a completion asks again for its data with
\* data_transfer_in, whatever its direction.
UrbResume(v, h) ==
    CASE v.st = "INIT_PAUSED"            -> UrbInit(v, h)
      [] v.st = "WAITING_FOR_COMPLETION" -> DataTransferIn(v, h)
      [] OTHER                           -> Eff(v, <<>>, FALSE, "0")

\* list_for_each_entry_safe over the endpoint's URB list.
RECURSIVE ResumeUrbs(_, _)
ResumeUrbs(S, hs) ==
    IF hs = <<>> THEN S
    ELSE LET h == Head(hs)
         IN ResumeUrbs(Apply(S, h, UrbResume(S.u[h], h)), Tail(hs))

\* Faulty variant of ResumeActivate: sets q->active but does not walk the
\* endpoint's URB list.
ResumeActivateNoUrbResume ==
    /\ ctl = "resuming"
    /\ active' = TRUE /\ ctl' = "running"
    /\ SetQ(DeliverPending(Q))
    /\ UNCHANGED <<pauses, pauseSeq, cqIn, cqOut, evIn, irq, dev, submitted,
                   returned, trSeq, devBytes>>

\* The locked part of resume: q->active = true, resume every URB, then
\* deliver_pending.  Resume does not run the giveback loop.
ResumeActivate ==
    /\ ctl = "resuming"
    /\ active' = TRUE /\ ctl' = "running"
    /\ SetQ(DeliverPending(ResumeUrbs(Q, urbs)))
    /\ UNCHANGED <<pauses, pauseSeq, cqIn, cqOut, evIn, irq, dev, submitted,
                   returned, trSeq, devBytes>>

PauseResumeStep ==
    \/ PauseDeactivate \/ PauseClearEvq \/ PauseSetState \/ PauseFlush
    \/ ResumeSetState \/ ResumeActivate

-----------------------------------------------------------------------------
(* The device *)

\* The device asks for OUT data (or, on a control endpoint with no transfer
\* in progress, for the next setup packet); it keeps at most TrWindow
\* requests outstanding until their descriptors arrive.
DevTransferRequest ==
    /\ HasOut
    /\ ~dev.paused
    /\ dev.pend < TrWindow
    /\ \/ ~IsControl
       \/ dev.phase = "idle"
       \/ /\ dev.phase = "data" /\ u[dev.urb].dir = "out"
          /\ dev.got < u[dev.urb].len
    /\ \E n \in ReqSizes :
         evIn' = Append(evIn, [cmd |-> "TR", n |-> n, status |-> "NONE",
                               seq |-> trSeq + 1])
    /\ trSeq' = trSeq + 1
    /\ dev' = [dev EXCEPT !.pend = @ + 1,
                          !.phase = IF IsControl /\ @ = "idle" THEN "setup" ELSE @]
    /\ UNCHANGED <<pauseVars, u, urbs, evq, gb, ringIn, ringOut, cqIn, cqOut, irq,
                   submitted, returned, trUsed, devBytes, credited>>

\* The device takes the oldest OUT descriptor.  A setup packet starts the
\* data stage of that control transfer.
DevCompleteOut ==
    /\ ~dev.paused
    /\ ringOut # <<>>
    /\ LET d == Head(ringOut)
       IN /\ cqOut' = Append(cqOut, [owner |-> d.owner, size |-> d.size,
                                     aborted |-> FALSE])
          /\ devBytes' = IF d.setup THEN devBytes
                         ELSE [devBytes EXCEPT ![d.owner] = @ + d.size]
          /\ dev' = [dev EXCEPT
                       !.pend = IF @ > 0 THEN @ - 1 ELSE 0,
                       !.phase = IF d.setup THEN "data" ELSE @,
                       !.urb = IF d.setup THEN d.owner ELSE @,
                       !.got = IF d.setup THEN 0 ELSE @ + d.size]
    /\ ringOut' = Tail(ringOut)
    /\ UNCHANGED <<pauseVars, u, urbs, evq, gb, ringIn, cqIn, evIn, irq, submitted,
                   returned, trSeq, trUsed, credited>>

\* The device fills the oldest IN descriptor, possibly short.
DevCompleteIn ==
    /\ ~dev.paused
    /\ ringIn # <<>>
    /\ LET d == Head(ringIn)
       IN \E k \in 0..d.size :
            /\ cqIn' = Append(cqIn, [owner |-> d.owner, size |-> k,
                                     aborted |-> FALSE])
            /\ devBytes' = [devBytes EXCEPT ![d.owner] = @ + k]
            /\ dev' = IF IsControl /\ dev.phase = "data"
                      THEN [dev EXCEPT !.phase = "status"] ELSE dev
    /\ ringIn' = Tail(ringIn)
    /\ UNCHANGED <<pauseVars, u, urbs, evq, gb, ringOut, cqOut, evIn, irq, submitted,
                   returned, trSeq, trUsed, credited>>

\* The OUT data stage of a control transfer has moved all its bytes.
DevOutStageDone ==
    /\ IsControl
    /\ ~dev.paused
    /\ dev.phase = "data" /\ u[dev.urb].dir = "out"
    /\ dev.got >= u[dev.urb].len
    /\ dev' = [dev EXCEPT !.phase = "status"]
    /\ UNCHANGED <<pauseVars, u, urbs, evq, gb, ringIn, ringOut, cqIn, cqOut, evIn, irq,
                   submitted, returned, trSeq, trUsed, devBytes, credited>>

\* The status stage: message 0x1005 with the transfer's result.
DevControlStatus ==
    /\ IsControl
    /\ ~dev.paused
    /\ dev.phase = "status"
    /\ \E s \in {"SUCCESS", "ERROR"} :
         evIn' = Append(evIn, [cmd |-> "STATUS", n |-> 0, status |-> s, seq |-> 0])
    /\ dev' = [dev EXCEPT !.phase = "idle", !.urb = NoUrb]
    /\ UNCHANGED <<pauseVars, u, urbs, evq, gb, ringIn, ringOut, cqIn, cqOut, irq,
                   submitted, returned, trSeq, trUsed, devBytes, credited>>

DeviceStep ==
    \/ DevTransferRequest \/ DevCompleteOut \/ DevCompleteIn
    \/ DevOutStageDone \/ DevControlStatus

\* Every URB has been given back and the device has nothing left to do.
Finished ==
    /\ Len(returned) = Cardinality(Urbs)
    /\ irq = "idle"
    /\ UNCHANGED vars

Next ==
    \/ \E h \in Urbs : UrbCreate(h) \/ UrbCancel(h)
    \/ TransferQueueEvent
    \/ TransferQueueCompletion("in") \/ TransferQueueCompletion("out")
    \/ Giveback \/ GivebackDone
    \/ PauseResumeStep
    \/ DeviceStep
    \/ Finished

\* The interrupt thread runs whenever the device raised something, and the
\* giveback loop runs to its end; a responsive device answers what it was
\* given.  Client threads owe nothing, but a pause once begun runs to its
\* end and is followed by one call of resume; after a failed resume the
\* controller owes no retry.
Fairness ==
    /\ WF_vars(TransferQueueEvent)
    /\ WF_vars(TransferQueueCompletion("in"))
    /\ WF_vars(TransferQueueCompletion("out"))
    /\ WF_vars(Giveback) /\ WF_vars(GivebackDone)
    /\ WF_vars(DevTransferRequest) /\ WF_vars(DevCompleteOut)
    /\ WF_vars(DevCompleteIn) /\ WF_vars(DevOutStageDone)
    /\ WF_vars(DevControlStatus)
    /\ WF_vars(PauseClearEvq) /\ WF_vars(PauseSetState) /\ WF_vars(PauseFlush)
    /\ WF_vars(ctl # "resumefailed" /\ ResumeSetState)
    /\ WF_vars(ResumeActivate)

Spec == Init /\ [][Next]_vars /\ Fairness

-----------------------------------------------------------------------------
(* Properties *)

TypeOK ==
    /\ u \in [Urbs -> [dir : {"in", "out"}, len : Nat, st : States,
                       rstatus : {"NONE", "SUCCESS", "ERROR"},
                       sendOff : Nat, recvOff : Nat, actual : Nat,
                       result : {"NONE", "OK", "ECONNRESET"}]]
    /\ urbs \in Seq(Urbs) /\ gb \in Seq(Urbs)
    /\ irq \in {"idle", "giveback"}
    /\ trUsed \in Seq(Nat) /\ trSeq \in Nat
    /\ dev.phase \in {"idle", "setup", "data", "status"}
    /\ active \in BOOLEAN
    /\ ctl \in {"running", "deactivated", "cleared", "flushing", "paused",
               "failed", "resumefailed", "resuming"}
    /\ \A h \in Urbs : u[h].sendOff <= u[h].len /\ u[h].recvOff <= u[h].len

\* Each URB is given back to the USB core at most once, and a URB given
\* back is no longer linked to the endpoint nor on the giveback list: the
\* completion path (bce_vhci_urb_complete) and bce_vhci_urb_cancel race
\* for the same URB and only one may win.
GivebackOnce ==
    /\ IsInjective([i \in DOMAIN returned |-> returned[i].urb])
    /\ \A i \in DOMAIN returned :
         /\ ~Linked(returned[i].urb)
         /\ \A j \in DOMAIN gb : gb[j] # returned[i].urb

\* Transfer requests from the device are consumed in the order the device
\* sent them: bce_vhci_transfer_queue_event defers a request while older
\* ones wait on q->evq, and deliver_pending replays q->evq from its head.
TransferRequestsInOrder ==
    \A i, j \in DOMAIN trUsed : i < j => trUsed[i] < trUsed[j]

\* Every ring completion the queue applies is applied to the URB that
\* posted the descriptor.
CompletionsToOwner == \A p \in credited : p[1] = p[2]

\* A control URB whose status stage reported an error is not given back as
\* successful (bce_vhci_urb_control_check_status).
ControlErrorReported ==
    \A i \in DOMAIN returned :
        LET h == returned[i].urb
        IN u[h].rstatus = "ERROR" => u[h].result # "OK"

\* URBs completed by the data path are given back in the order they were
\* submitted (the giveback list is filled by bce_vhci_urb_complete).
GivebackInOrder ==
    LET done == SelectSeq(returned, LAMBDA r : r.by = "complete")
        pos(h) == CHOOSE i \in DOMAIN submitted : submitted[i] = h
    IN \A i, j \in DOMAIN done : i < j => pos(done[i].urb) < pos(done[j].urb)

\* Every submitted URB is eventually given back, given a responsive device
\* and a DMA interrupt thread that runs.
EveryUrbGivenBack ==
    \A h \in Urbs :
        (\E i \in DOMAIN submitted : submitted[i] = h)
            ~> (\E i \in DOMAIN returned : returned[i].urb = h)

\* In every behaviour where the queue ends up active for good, every
\* submitted URB is eventually given back: URBs parked in INIT_PAUSED by
\* bce_vhci_urb_create while paused, and URBs whose descriptors pause
\* flushed, are re-driven by bce_vhci_transfer_queue_resume, after a
\* successful or a failed pause and after resumes that failed.  Where the
\* last resume failed the queue stays inactive and nothing is owed.
EveryUrbGivenBackOnceActive == (<>[]active) => EveryUrbGivenBack

\* Resume starts with no deferred message that the device sent before the
\* pause: bce_vhci_transfer_queue_pause cleared q->evq (spec 8, property 8).
NoResidualEvents ==
    ctl = "resuming" => \A i \in DOMAIN evq : evq[i].seq > pauseSeq

\* A descriptor is only ever posted on a ring the endpoint has: a bulk OUT
\* queue has no sq_in, so data_transfer_in would dereference NULL.
NoMissingRing ==
    /\ ~HasIn => ringIn = <<>> /\ cqIn = <<>>
    /\ ~HasOut => ringOut = <<>> /\ cqOut = <<>>

-----------------------------------------------------------------------------
(* Refinement of the abstract endpoint (UsbEndpoint).  A URB is linked for  *)
(* the USB core from bce_vhci_urb_create until it is given back (on the    *)
(* giveback list it is still the controller's); a giveback carries the     *)
(* URB's current actual_length, so a write to a URB after its giveback is  *)
(* a step the abstract endpoint cannot take.                               *)

Endpoint == INSTANCE UsbEndpoint WITH
    linked <- ToSet(submitted) \ {returned[i].urb : i \in DOMAIN returned},
    lens   <- [h \in Urbs |-> IF h \in ToSet(submitted) THEN u[h].len ELSE 0],
    given  <- [i \in DOMAIN returned |->
                 [urb |-> returned[i].urb, by |-> returned[i].by,
                  actual |-> u[returned[i].urb].actual]]

\* The transfer queue implements the endpoint: each URB given back once,
\* after its submission, with actual_length within its buffer and never
\* written after bce_vhci_transfer_queue_giveback or bce_vhci_urb_cancel
\* handed it to the USB core; and, with the interrupt thread and the device
\* fair, every submitted URB is given back.
ImplementsUsbEndpoint == Endpoint!Spec

\* The safety part alone, for endpoints where a URB may hang.
ImplementsUsbEndpointSafety == Endpoint!SafetySpec
=============================================================================
