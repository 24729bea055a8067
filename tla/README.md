# TLA+ models of the apple-bce driver

This directory holds TLA+ models of the apple-bce driver in `src/`. The driver runs the T2
"bridge" of 2018 MacBooks. The models are checked with TLC. `PROJECT.json` is the
machine-readable index, with these entries:

- **components**: each part of the driver and how much of it is modelled;
- **runs**: each TLC run and what it checks;
- **mutants**: one deliberately broken variant per property of a passing run;
- **map**: the source lines each definition stands for;
- **findings**: what each violated property shows about the code;
- **hazards**: what is hard to test in this code, each at the line where it bites.

## The system

| Part | Source | State | Operations | Interacts with |
|---|---|---|---|---|
| BCE DMA queues, mailbox | `apple-bce.h` (the rest is outside `src/`) | submission rings with free-slot counters; completion rings | reserve, submit, next_completion, notify_submission_complete, cancel_reservation | everything below |
| vhci message queue | `vhci/queue.c` 8-64 (model: `VhciCommandQueue`) | a completion ring, a ring of messages to the device, the message buffers | create (with a cleanup ladder), destroy, write, completion (frees slots) | command queue, transfer queues |
| vhci event queue | `vhci/queue.c` 70-138 (model: `VhciEventQueue`) | a ring of buffers posted for device messages (its depth) | create, completion (callback per message, then re-post), submit_pending | device → command queue (replies), → transfer queues (events) |
| vhci command queue | `vhci/queue.c` 141-244 | one completion slot (`result`), spinlock, mutex | execute (with timeout and cancel), deliver_completion, destroy | message queue (requests), event queue (replies) |
| transfer queue (one per endpoint) | `vhci/transfer.c` 15-199 | URB list, deferred events `evq`, giveback list, `active`, `sq_in`/`sq_out` | event, completion, giveback, deliver_pending, pause, resume | event queue, its own DMA rings, USB core |
| URB state machine | `vhci/transfer.c` 205-498 | per URB: state, offsets, received status | create, init, data_start/update/transfer_in, control_update/check_status, completion, complete, cancel, resume | its transfer queue |
| PCI probe, remove, module init | `apple_bce.c` (model: `ProbeLifecycle`) | device resources acquired in order | probe (error ladder), remove, init/exit, DMA interrupt | all queues |
| audio PCM | `audio/pcm.c` (model: `AudioPcm`) | per substream: ALSA state, hardware description; per stream: timestamp, start-IO completion | open, hw_params, prepare, trigger, hw_free, close, pointer, handle_timestamp, create_hw_info | audio protocol |
| audio protocol | `audio/protocol.c` | none (encode/decode) | read_* and write_* of messages | audio PCM |

The DMA interrupt (`bce_handle_dma_irq`, apple_bce.c:170) runs threaded. It walks the completion
queues in index order, so event messages and DMA completions of the same endpoint are handled by one
thread in an order the device does not control. The event queue is created before the transfer queues,
so its messages go first. Client threads of the USB core and of vhci call execute, create, cancel,
pause and resume concurrently with that thread.

The hard parts are:
- the timeout/cancel sub-protocol of the command queue;
- the race between the event stream and the completion stream of an endpoint;
- cancellation racing completion;
- the pause window;
- ring-slot accounting when reservations fail;
- the error ladders of probe and init.

## Modules

### `VhciCommandQueue` (src/vhci/queue.c, command queue)

State:
- **Callers:** `pc` (where each caller is in `execute`), `req` (its 16-bit cmd, with the cancel bit 0x4000), `resBuf` (its stack buffer for the reply, `Uninit` until written) and `ret`.
- **The queue:** `mutex`, `slot` (`completion.result`: whose buffer is installed), `done` (the `struct completion`) and `sqFree` (free slots of the message ring).
- **The device:** messages in flight `toDevice`, and the replies travelling back through the event queue (`evAvail`, `evPosted`, `evRing`, `evCnt`, see `VhciEventQueue`).
- **Teardown:** `torn`.
- **The queues under it:** `mqLife` and `evLife` (none, created, failed, destroyed) for the message queue and the reply event queue, and `qres`, which records for each of their rings and buffers whether the field pointing at it is non-NULL and how often it was allocated and freed.

One action per step of the code:
- **Start, Lock:** `execute` and `mutex_lock`.
- **ReserveFail:** `bce_reserve_submission` fails.
- **Submit:** install, `reinit_completion` and `message_queue_write`.
- **Wake:** the wait returns, then the cmd check `(res->cmd & ~0xC000) != (req->cmd & ~0x4000)` is done with the Bitwise module, then the status check.
- **Timeout:** the wait times out.
- **ClearSlot:** clears the slot. It then either goes on to the cancel (`cmd | 0x4000`) or returns -ETIMEDOUT.
- **DeviceServe:** the device serves a message and writes its reply into a posted event buffer (`EQ!DevicePost`). With no buffer posted it cannot answer.
- **DeliverCompletion:** one iteration of the event queue's completion loop (`EQ!Completion`) whose callback is `deliver_completion`: the reply goes into the installed buffer, or is dropped.
- **ReplyPassEnd:** the completion pass ends and re-posts the buffers it consumed (`EQ!CompletionEnd`).
- **DestroyAbort, DestroyFinish:** `destroy`.
- **MqCreate, EvCreate:** `bce_vhci_message_queue_create` (the completion ring, the submission ring or the buffers may fail to allocate; `fail_sq` and `fail_cq` free what was taken and set each field to NULL) and the event queue's create. Callers start only once both queues are created.
- **MqDestroy, EvDestroy:** once the command queue is torn down, each queue's destroy runs, also on a queue whose create failed: it tests the field its create cleared.

`QueueResourcesBalanced` says every ring and buffer of the two queues is freed at most once, and once everything is torn down none is still held. The mutant `MqCreateKeepsCq` leaves `ret->cq` set after `fail_cq` destroyed the ring, and the destroy that follows frees it again.

The device answers a cancel either with or without the cancel bit. The status is SUCCESS or ERROR.

### `VhciEventQueue` (src/vhci/queue.c, event queue)

The ring primitive of the BCE DMA layer is outside `src/` and is modelled from its contract: a reservation takes one of `EvSlots` free slots or fails, and notifying a consumed completion frees its slot.

State:
- `evAvail`: free reservations of the queue's submission ring;
- `evPosted`: empty buffers the device may fill;
- `evRing`: filled buffers not yet handled, oldest first;
- `evCnt`: the `cnt` of the completion pass in progress.

Actions:
- `EvCreate` is `bce_vhci_event_queue_create`: `bce_create_sq` fails; or `dma_alloc_coherent` fails and the ring is destroyed and `ret->sq` set to NULL; or both succeed and `submit_pending` posts `VHCI_EVENT_PENDING_COUNT` (`EvPending`) buffers. `EvNone` is the zeroed struct before it;
- `EvDestroy` is `bce_vhci_event_queue_destroy`: nothing when `q->sq` is NULL, otherwise the buffers and the ring are freed;
- `DevicePost(m)` is the device filling the oldest posted buffer;
- `Completion` is one iteration of `bce_vhci_event_queue_completion`'s loop: the callback, then `bce_notify_submission_complete`, then `++cnt`. The owner conjoins the callback;
- `CompletionEnd` is the end of the pass, `submit_pending(ev, cnt)`, which stops at the first failed reservation (`SubmitPending`).

The command queue instantiates it as `EQ` with its replies as the messages. `EventDepthConstant` says the depth posted at creation is never lost: every buffer is posted, filled, or consumed and owed a re-post. It holds when `EvPending <= EvSlots`. A slot not returned by the notify (the mutant `CompletionNoNotify`) makes a later `submit_pending` fail, and the depth shrinks for good.

### `VhciTransferQueue` (src/vhci/transfer.c)

The model covers one endpoint. `Kind` picks control (endpoint 0, both rings), bulk IN (`sq_in` only) or
bulk OUT (`sq_out` only).

State:
- **URBs:** `u` holds each URB's `struct bce_vhci_urb` fields and its `urb->status`. `urbs` is the endpoint's URB list. `evq` holds the deferred messages and `gb` is the giveback list.
- **Rings:** `ringIn` and `ringOut` hold the descriptors on the rings. `cqIn` and `cqOut` hold the completions not yet handled. `evIn` holds the device messages not yet handled.
- **The interrupt thread:** `irq` is idle or in its giveback loop.

The state-machine functions of the code are operators that return the call's effect. The effect is the new URB fields, the descriptors posted, whether `bce_vhci_urb_complete` ran, and the return code. `AndThen` chains them as the code does after a 0 return.

The queue's loops are recursive operators over a record of the locked state:
- `deliver_pending` is `DeliverPending`;
- the completion loop is `Completions`.

The actions are:
- **Client threads:** `UrbCreate` and `UrbCancel`.
- **Interrupt thread:** `TransferQueueEvent`, `TransferQueueCompletion(ring)`, and `Giveback`/`GivebackDone`, which is the giveback loop with the lock dropped for each URB.
- **Device:** transfer requests (at most `TrWindow` outstanding), completing ring heads (IN completions may be short), and the control setup/data/status stages.
- **Pause and resume** (the controller thread, `ctl`, at most `MaxPauses` cycles):
  - `PauseDeactivate` and `PauseClearEvq` are the two locked steps of `bce_vhci_transfer_queue_pause`;
  - `PauseSetState` is the set_state(PAUSED) command. The device pauses the endpoint and drops its outstanding transfer requests. With `"pausefail"` in `ClientOps` the command may instead fail, and pause returns with the queue inactive;
  - `PauseFlush` is the two `bce_cmd_flush_memory_queue` calls. Every descriptor still on a ring comes back as an aborted completion;
  - `ResumeSetState` is the set_state(ACTIVE) command. With `"resumefail"` in `ClientOps` it may fail (an error status, a timeout, or a state other than ACTIVE, transfer.c:185-189): resume returns with `q->active` still false and its URBs not re-driven (`ctl = "resumefailed"`). The controller may call resume again, but is not assumed to;
  - `ResumeActivate` is the locked part of resume: `q->active = true`, `bce_vhci_urb_resume` over the URB list (`ResumeUrbs`), then `deliver_pending`;
  - `UrbCreate` on an inactive queue parks the URB in `INIT_PAUSED`.

  A command's reply is handled by the DMA interrupt thread in a later pass than everything the device posted before it. After a successful pause the device posts nothing more, so `ResumeSetState` is then enabled only when the messages and completions posted before it have been handled. After a failed pause the device is still running and may post at any time, so that guard is dropped.

The device model follows the USB protocol:
- it asks for a setup packet;
- it moves the data stage;
- it then sends the status.

All reordering comes from the host handling the two streams in either order.

Ghost state records what the properties compare:
- `submitted` and `returned` hold the order of submission and of giveback;
- `devBytes` holds the bytes the device moved per URB;
- `credited` holds which URB each completion was applied to;
- `trSeq` and `trUsed` hold the order in which transfer requests were sent and consumed.

Each module has `Faulty variant` operators just before the definitions they replace. These are the mutants in `PROJECT.json`.

### `UsbEndpoint` (abstract) and its refinement

`UsbEndpoint` states what an endpoint promises the USB core:
- a URB is submitted once;
- it is given back once, completed or cancelled;
- its actual length is at most its buffer;
- with fairness, every URB is given back.

`VhciTransferQueue` instantiates it as `Endpoint` with a refinement mapping:
- `linked` is the URBs submitted and not yet given back;
- `lens` is each submitted URB's `len`;
- `given` is the `returned` history, each entry carrying the URB's current `actual`.

A write to a URB after its giveback therefore changes `given` without an abstract step, and TLC reports it.

`ImplementsUsbEndpointSafety` holds on bulk OUT (`tq_bulk_out`). It also holds on bulk IN with a pause that succeeds. It fails on the two configurations that reach a known bug:
- **Control with cancel:** a cancelled URB's 8-byte setup completion is credited to the next URB. That URB has a 0-length buffer, so its actual_length becomes 8 (the bug of `tq_cancel_stale`).
- **Bulk IN after a failed pause:** resume re-posts an IN descriptor, and its completion is credited to the next URB (hazard transfer.c:166).

The liveness part, `ImplementsUsbEndpoint`, fails wherever a URB can hang, which is every configuration but bulk IN. On bulk IN it also fails once a resume fails and is not retried: the queue stays inactive. So liveness is checked on bulk IN as `EveryUrbGivenBackOnceActive`: in every behaviour where `q->active` ends up true for good, every submitted URB is given back. That covers URBs parked while paused, URBs whose descriptors pause flushed, a failed pause, and a failed resume followed by one that succeeds. Its mutant `ResumeActivateNoUrbResume` sets `q->active` without walking the URB list.

### `AudioPcm` (src/audio/pcm.c)

**State and actions.**
- `opc` is each playback substream's open/close thread. `aaudio_pcm_open` is three actions: arm the completion, start IO, then wait with a timeout and set `remote_timestamp`.
- `done` and `needs` are the start-IO completion and its flag.
- `io` says whether the subdevice's IO is started.
- `now` is the boot-time clock, advanced by `Tick` up to `MaxTime`.
- `lat` is each stream's `latency + out_latency`, chosen in `Init`.
- `HandleTimestamp` is `aaudio_handle_timestamp`. It always acts on the first substream, as the code does.
- Once open, ALSA drives the substream through `HwParams` (fails, with no step, when the stream has no buffer: `bufs`), `Prepare`, `Trigger` (start and stop) and `HwFree`. `Close` is allowed from the open state only, as ALSA calls hw_free before close.
- `desc` is each stream's device description, chosen in `Init`; `OpenArm` copies `CreateHwInfo(desc[s])` into `rtHw[s]`, the runtime's hardware description.

**Formats.** `AlsaFmtbit` is `aaudio_get_alsa_fmtbit`, as an ordered `IF` chain since the code's order of flag tests decides the result. An ALSA format is a record of sample kind, significant width, container width and byte order. `ReadsRight(f, d)` is written independently from what a description means: the container a sample sits in (its own width when packed, otherwise the next of 8, 16, 32, 64 bits), where it sits in it, its kind and its byte order. `FormatMatchesDescription` checks the two agree for every description over six flags and six widths; TLC found no disagreement. The mutant gives a high-aligned 24-bit sample the low-aligned format.

**Pointer.** `Pointer(s)` is `aaudio_pcm_pointer`, with `NsPerSec` standing for `NSEC_PER_SEC` at a scale TLC can enumerate. `PointerRef(s)` is what it approximates: elapsed frames minus latency, modulo the buffer size.

**Result.** The two agree whenever the latency is 0; TLC found no counterexample with two substreams and `MaxTime = 12`. With any nonzero latency they differ at the first open. The wrap adds nanosecond multiples, so the position lands past the buffer.

**Bounds of `audio`.** One substream (`Subs = {0}`), `MaxTime = 2`, and every description over the flags `FLOAT`, `BIG_ENDIAN`, `SIGNED`, `PACKED`, `ALIGNED_HIGH` and `NON_INTERLEAVED` and the widths 8, 16, 20, 24, 32 and 64: that is every branch of `aaudio_get_alsa_fmtbit`, and widths each branch rejects. The result is 80,640 states.

**Bounds of `audio_pointer`.**
- `NsPerSec = 10`, `BufferSize = 4` and `Rate = 2` give a 20-unit buffer time.
- `MaxTime = 12` covers several frames.

### `ProbeLifecycle` (src/apple_bce.c)

Module init, probe (called by `pci_register_driver`), remove and module exit run on one thread. `pc` is the step this thread is at.

**Resources.** Each resource the code takes or gives back is counted:
- `acq[r]` counts acquisitions, `rel[r]` releases;
- `Held(r)` is `acq[r] > rel[r]`.

The resources are:
- the chrdev region, the class, the vhci module state, the driver registration and the audio module;
- per device: the enable and regions, the IRQ vectors, `bce`, its device, the two `pci_iomap` mappings, both IRQs, the timestamp timer, `cmd_cq`, `cmd_cmdq`, the memcfg and the vhci.

**Other state:**
- `bceSt` is probe's `bce`: NULL, live or freed;
- `qset` is the queues whose pointers sit in `bce->queues[]`;
- `probeRc` and `bound` are what probe returned and whether `local_pci_probe` bound the device (a positive return counts as success).

**Acquisition steps.** Each call that can fail is an action with a success disjunct and a failure disjunct.

**Cleanup.** A failure jumps to a label. The code after each label is a cleanup program, a sequence of release steps:
- `FailOps`, `FailInterrupt0Ops`, `FailInterruptOps`, `FailTsOps` and `CmdqErrOps` for probe;
- `FailDrvOps`, `FailClassOps` and `FailChrdevOps` for module init;
- `RemoveOps` and `ExitOps` for remove and exit.

`Unwind` runs one step of a program per action, so the invariants also see the states between two releases. A step that reads `*bce` while `bce` is NULL moves the thread to `oops`. `pci_unregister_driver` of a bound device splices `RemoveOps` into the exit program.

The handlers may run at any moment while registered:
- `bce_handle_mb_irq` and `bce_handle_dma_irq` read `pci_get_drvdata`, and the DMA handler also walks `bce->queues[]`;
- the timestamp timer reads the mailbox registers.

Their reads are stated as invariants over every state:
- `HandlersSeeLiveBce`;
- `TimerSeesMappedRegisters`;
- `DmaIrqSeesLiveQueues`.

## Runs

| Run | Config | Expect | What it shows |
|---|---|---|---|
| cq | MCVhciCommandQueue.cfg | pass | 2 callers, 2 executions, a 2-slot ring, replies through a 2-buffer event queue, after queue creations that may fail at each allocation. The queues' rings and buffers are freed exactly once (`QueueResourcesBalanced`). The completion slot is only ever held by the mutex holder while it waits. Every execute returns (liveness), including when a cancel itself times out. The event queue keeps its depth (`EventDepthConstant`). |
| cq_stale_reply | MCVhciCommandQueue_ReplyBelongsToCall.cfg | violation | An execute and its cancel both time out. The late reply is then accepted by the next call with the same opcode. |
| tq_bulk_in | MCVhciTransferQueue_BulkIn.cfg | pass | Bulk IN with short transfers and one pause/resume cycle; pause's and resume's set_state commands may each fail. Wherever the queue ends up active, every URB is given back (`EveryUrbGivenBackOnceActive`, liveness). |
| tq_bulk_out | MCVhciTransferQueue_BulkOut.cfg | pass | Bulk OUT with two outstanding transfer requests. Offsets stay inside the buffer, requests are consumed in arrival order. The queue refines `UsbEndpoint` (safety part). |
| tq_control | MCVhciTransferQueue_Control.cfg | pass | Control endpoint with cancellation. No URB is given back twice. |
| tq_cancel_stale | MCVhciTransferQueue_CancelStale.cfg | violation | The DMA completion of a cancelled URB is credited to the next URB. |
| tq_ctrl_zero_out_hang | MCVhciTransferQueue_CtrlZeroOutHang.cfg | violation | A zero-length control OUT hangs if its status is handled before its setup completion. |
| tq_resume_missing_ring | MCVhciTransferQueue_ResumeMissingRing.cfg | violation | On bulk OUT, resume restarts a URB waiting for its completion with `data_transfer_in`, which posts on the missing `sq_in` (a NULL dereference in the code). |
| audio | AudioPcm.cfg | pass | Every stream description gets an ALSA format that reads its samples right, or none (`FormatMatchesDescription`). |
| audio_pointer | AudioPcm_Pointer.cfg | violation | With a latency of 1 frame, `aaudio_pcm_pointer` returns 19 for a 4-frame buffer. The wrap adds `buffer_time_length` (nanoseconds) instead of `buffer_size` (frames). |
| probe | ProbeLifecycle.cfg | pass | Module init, probe with each call failing in turn, and module exit. Neither interrupt handler outlives `bce`. The timestamp timer never outlives `bce` or the mailbox mapping. After a successful probe, exit releases everything. |
| probe_unheld_release | ProbeLifecycle_UnheldRelease.cfg | violation | After a `device_create` failure, probe returns `PTR_ERR(bce_class)`, which may be positive. The PCI core keeps the device bound, and module exit runs `apple_bce_remove` on the freed `bce`, which frees IRQs and command queues that were never acquired and releases the regions and `bce` a second time. |

Ten more disagreements are stated as properties in the modules, or are visible in the model's states, but have no run of their own, to keep the number of runs small:
- **`AbortReported`** (command queue): a command forced by `destroy` returns -EIO, not the abort status.
- **`ControlErrorReported`** (transfer queue): a failed control transfer is given back with status 0.
- **`EveryUrbGivenBack` with `Kind = "out"` and `Lens = {0}`:** a zero-length bulk OUT URB is never given back.
- **`CompletionsToOwner` on the control endpoint without cancel (`Lens = {0, 2}`, `ReqSizes = {1, 2}`, `TrWindow = 1`):** an error status overtakes the data completion. That completion is then taken by the next control URB as its setup completion.
- **`GivebackInOrder` with `Kind = "in"`, `Lens = {0, 2}`, `TrWindow = 1`:** URBs completed in one batch are given back newest first (`list_add`).
- **`EveryUrbGivenBack` with `Kind = "out"`, `Lens = {2}`, `ReqSizes = {1}`:** an OUT URB that needs two transfer requests hangs.
- **`NoResidualEvents` with `Kind = "out"`, `Lens = {1}`, `ClientOps = {"pause"}`, `TrWindow = 2`, `MaxPauses = 1`:** a transfer request handled between pause's clearing of `q->evq` and the device pausing is deferred. It is still there when resume starts (spec property 8).
- **`DmaIrqSeesLiveQueues` with the `ProbeLifecycle.cfg` constants:** a memcfg or registration failure in `bce_create_command_queues` frees the command queues, while `bce->queues[]` still points at them and the DMA interrupt is registered. It had a run of its own in an earlier version of the project; that run gave way to `audio`.
- **`ImplementsUsbEndpointSafety` with the `tq_bulk_in` constants:** after a failed pause, resume re-posts an IN descriptor for a URB whose first one is still outstanding; its completion is credited to the next URB, whose actual_length then exceeds its buffer.
- **`EveryUrbGivenBack` with the `tq_bulk_in` constants:** a resume whose command fails leaves the queue inactive, and the URBs parked or flushed by the pause are never given back unless a later resume succeeds.

In `ProbeLifecycle`, three more defects are reached in the `probe` run's state space. None of them has a property:
- every failure before `kzalloc` ends in `pc = "oops"`, a NULL `bce` read at apple_bce.c:104;
- a registration failure leaks `cfg`;
- a `pci_register_driver` failure leaves the vhci module initialised.

TLC finds each of these with the constants given, or the model shows it directly. They are listed as hazards in `PROJECT.json`.

**Bounds.**
- **Command queue:** two callers are the least that can race, and `MaxExec = 2` executions let one call's late reply meet the next call. A ring of 2 slots lets a reservation fail once both messages are unanswered. The event queue has 2 slots and 2 posted buffers (`EvSlots = EvPending = 2`): both replies of a call and its cancel can wait in it at once, and every slot is in use, so a slot that is not returned makes the next re-post fail. Every failure point of the two creates is tried, and so is each order of the two destroys; the run has 421,117 states.
- **Transfer queue, URBs and lengths:** two URBs are the least for ordering, cancellation and misattribution. Lengths `{0, 2}` (or `{0, 1, 2}`) cover the zero-length edge and transfers that take two chunks.
- **Transfer queue, pause:** one cycle (`MaxPauses = 1`) reaches every step of pause and resume, with URBs before, during and after it.
- **Probe:** the model has no constants. Every call that can fail is tried both ways on one device. `PTR_ERR(bce_class)` is any of negative, zero or positive. This gives 383 states.
- **Transfer queue, device:** request sizes `{1, 2}` cover a request that is smaller than the remaining data and one that is not. `TrWindow = 2` on bulk OUT lets two requests be deferred at once, which is what makes their order observable.

**Deadlock.** The transfer-queue safety runs and its violation runs set `CHECK_DEADLOCK FALSE`. The code really does stop in the states the hang runs show: a URB is stranded and neither the device nor the host has anything left to do. A normal end is the `Finished` stuttering step.

## Fairness

- **Command queue:** each caller's steps are weakly fair, because a thread inside `execute` is scheduled. The device and delivery are not fair: a reply may never come, which is what the timeout is for.
- **Transfer queue, host side:** the interrupt thread's handlers and the giveback loop are weakly fair, since an interrupt is raised for every message and completion.
- **Transfer queue, device side:** the device's actions are weakly fair, so a responsive device completes what was posted and asks for the data it needs.
- **Probe:** `ProbeLifecycle` is checked for safety only and assumes no fairness.
- **Audio:** `AudioPcm` is checked for safety only and assumes no fairness.
- **Event queue:** no fairness. The command queue's liveness does not depend on replies arriving, which is what the timeout is for.
- **Client threads:** submission and cancellation owe nothing. Starting a pause owes nothing. Once started, its steps are weakly fair and one call of resume follows: the controller thread that pauses an endpoint is running, and resumes it when it is done. A retry after a failed resume is not assumed, which is why the bulk IN liveness property is conditional on the queue ending up active.

## Not modelled, and why

- **Ring accounting of the transfer queue's rings** (`sq_in`, `sq_out`, `msg_asynchronous`): the model's rings are sequences of outstanding descriptors without a bound on free slots. Aborted completions and completions with no URB are skipped without `bce_notify_submission_complete` (transfer.c:127), so slots leak, but each ring has 0x100 entries and a reservation fails only after hundreds of pauses. The failure paths it leads to (`data_transfer_in` returning -ENOMEM, and cancelling a reservation on `sq_in` it never took, transfer.c:304; `send_out_data` returning -EPIPE) would multiply every URB state by the fill levels of three rings. They are hazards in `PROJECT.json`.
- **Who creates and destroys the vhci queues:** `bce_vhci_create` and its teardown are in vhci.c, outside `src/`. The model lets each queue be created once, in either order, and destroyed after the command queue is torn down, whether its create succeeded or failed.
- **The audio protocol codec** (`audio/protocol.c`): byte layout of message headers and property payloads. Its only effect on driver state is the status that `aaudio_cmd_start_io` and `aaudio_cmd_stop_io` return, and `pcm.c` ignores it; `AudioPcm` models the start-IO command by its two outcomes. `read_set_property_response` checks for the wrong response type (protocol.c:39), which is a hazard with no caller in `src/` to observe it. A reference to check the codec against is not available either: every reader in `protocol.c` reads a message the device writes and every writer writes one the device reads, so no reader and writer of `src/` describe the same message; the layouts of the header and base structs are in `protocol.h`, which is not in `src/`; and the spec puts the audio protocol out of scope.
- **`AudioPcm` with two substreams:** two things about the start-IO handshake are visible in the model with `Subs = {0, 1}` but have no run: only the first substream is ever completed, and `close` stops IO for every substream.
- **The control endpoint under pause:** what the device does with a control transfer that is half done when it is paused is not known.
- **The interrupt handlers' bodies, the mailbox and the timestamp timer** (`ProbeLifecycle`): outside `src/` or in the queue models. They are invariants over the states between cleanup steps, not actions.
- **`UsbEndpoint` order:** the code gives back newest first (`GivebackInOrder`), so a FIFO abstraction fails on every endpoint; the abstract endpoint has no order.

Left out on purpose:
- **Logging and DMA addresses:** message layout is abstracted to opcode bits, status and length.
- **vhci.c, the USB core and the BCE DMA layer:** these are outside `src/`. They appear only as the calls the modelled code makes.
- **Setup packet contents:** the device reads the direction and length from its URB.
- **The `q->state != PAUSED` and `!= ACTIVE` checks of pause and resume:** a device that answers a set_state command successfully reports the state asked for.
- **Rates, channel counts and period sizes of the ALSA hardware description:** copied fields no property tells apart.
