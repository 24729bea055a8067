--------------------------- MODULE ProbeLifecycle ---------------------------
(***************************************************************************)
(* Module init and exit, PCI probe and remove of the BCE device            *)
(* (src/apple_bce.c), as the resources they acquire and release.           *)
(*                                                                         *)
(* Every call that can fail may fail.  A failure jumps to a label of the   *)
(* function's cleanup ladder; the code after a label is a sequence of      *)
(* release steps (a Cleanup program below), run one step at a time by the  *)
(* Unwind action, so that the states between two releases are visible to  *)
(* the interrupt handlers and the timestamp timer, which may run at any    *)
(* moment while they are registered.                                       *)
(*                                                                         *)
(* probe runs inside pci_register_driver (the device is present).  A       *)
(* positive return of probe is taken by the PCI core as success.           *)
(***************************************************************************)
EXTENDS Integers, Sequences, FiniteSets

\* Resources of the module (init/exit) and of one probed device.
ModRes   == {"chrdev", "class", "vhcimod", "driver", "audiomod"}
ProbeRes == {"enabled", "regions", "vectors", "bce", "cdev", "mb", "dma",
             "irq0", "irq4", "ts", "cq", "cmdq", "cfg", "vhci"}
Res == ModRes \cup ProbeRes

VARIABLES
    pc,       \* the step the init/probe/exit thread is at
    acq,      \* resource -> times acquired
    rel,      \* resource -> times released
    todo,     \* the rest of the cleanup program being run
    status,   \* the local status of the function running
    bceSt,    \* the local bce of probe (and drvdata): "null", "live", "freed"
    qset,     \* queues whose pointers are in bce->queues[]
    probeRc,  \* what probe returned ("none" before it returns)
    bound     \* the PCI core bound the driver to the device

vars == <<pc, acq, rel, todo, status, bceSt, qset, probeRc, bound>>

Held(r) == acq[r] > rel[r]

\* One step of a cleanup program: k is
\*   "rel"       a release the code always makes,
\*   "relIfHeld" a release the callee ignores when nothing is held
\*               (device_destroy, pci_free_irq_vectors, pci_disable_device,
\*               class_destroy of an ERR_PTR, unregister of nothing),
\*   "viaBce"    pci_iounmap of a mapping whose pointer is read from *bce,
\*   "kfree"     kfree(bce),
\*   "clearQ"    clearing a pointer in bce->queues[],
\*   "unregister" pci_unregister_driver, which runs remove if bound.
Op(k, r) == [k |-> k, r |-> r]

(* The cleanup ladders of apple_bce_probe, from each label to the end. *)
FailOps ==
    << Op("relIfHeld", "cdev"), Op("kfree", "bce"),
       Op("viaBce", "mb"), Op("viaBce", "dma"),
       Op("relIfHeld", "vectors"), Op("rel", "regions"),
       Op("relIfHeld", "enabled") >>
\* Mutant: the fail_interrupt_0 label without pci_free_irq(dev, 0).
FailInterrupt0OpsNoIrq0 == FailOps
FailInterrupt0Ops == <<Op("rel", "irq0")>> \o FailOps
FailInterruptOps  == <<Op("rel", "irq4")>> \o FailInterrupt0Ops
FailTsOps         == <<Op("rel", "ts")>> \o FailInterruptOps

\* The err label of bce_create_command_queues (then probe's fail_ts).
CmdqErrOps == <<Op("relIfHeld", "cq"), Op("relIfHeld", "cmdq")>> \o FailTsOps

\* bce_free_command_queues: free the CQ and the command queue, then clear
\* bce->cmd_cq and bce->queues[0].
FreeCommandQueuesOps ==
    <<Op("rel", "cq"), Op("rel", "cmdq"), Op("clearQ", "cq")>>

\* Mutant: remove without bce_free_cmdq.
RemoveOpsNoCmdq ==
    << Op("rel", "vhci"), Op("rel", "ts"), Op("rel", "irq0"), Op("rel", "irq4"),
       Op("rel", "cq"), Op("clearQ", "cq"),
       Op("viaBce", "mb"), Op("viaBce", "dma"), Op("relIfHeld", "cdev"),
       Op("relIfHeld", "vectors"), Op("rel", "regions"),
       Op("relIfHeld", "enabled"), Op("kfree", "bce") >>

\* apple_bce_remove.
RemoveOps ==
    << Op("rel", "vhci"), Op("rel", "ts"), Op("rel", "irq0"), Op("rel", "irq4") >>
    \o FreeCommandQueuesOps \o
    << Op("viaBce", "mb"), Op("viaBce", "dma"), Op("relIfHeld", "cdev"),
       Op("relIfHeld", "vectors"), Op("rel", "regions"),
       Op("relIfHeld", "enabled"), Op("kfree", "bce") >>

(* The cleanup ladders of apple_bce_module_init and apple_bce_module_exit. *)
FailChrdevOps == <<Op("relIfHeld", "chrdev")>>
FailClassOps  == <<Op("relIfHeld", "class")>> \o FailChrdevOps
FailDrvOps    == <<Op("relIfHeld", "driver")>> \o FailClassOps
ExitOps ==
    << Op("rel", "audiomod"), Op("rel", "vhcimod"), Op("unregister", "driver"),
       Op("rel", "class"), Op("rel", "chrdev") >>

\* Acquire the resources in set S.
Take(S) == acq' = [r \in Res |-> IF r \in S THEN acq[r] + 1 ELSE acq[r]]

\* Jump to a cleanup label with status s.
Fail(ops, s) ==
    /\ todo' = ops /\ status' = s
    /\ pc' = IF pc \in {"chrdev", "class", "vhcimod", "register"}
             THEN "initUnwind" ELSE "probeUnwind"

-----------------------------------------------------------------------------
(* Running one step of a cleanup program. *)

\* The effect of step o on rel, given the state.
Released(o) ==
    CASE o.k = "rel"       -> {o.r}
      [] o.k = "relIfHeld" -> IF Held(o.r) THEN {o.r} ELSE {}
      [] o.k = "viaBce"    -> IF acq[o.r] > 0 THEN {o.r} ELSE {}
      [] o.k = "kfree"     -> IF bceSt = "null" THEN {} ELSE {"bce"}
      [] o.k = "unregister" -> {"driver"}
      [] OTHER             -> {}

\* A step that reads *bce while bce is NULL oopses the thread; a read of
\* freed memory returns what was there.
Oops(o) == o.k = "viaBce" /\ bceSt = "null"

Unwind ==
    /\ pc \in {"probeUnwind", "initUnwind", "exiting"}
    /\ todo # <<>>
    /\ LET o == Head(todo)
       IN IF Oops(o)
          THEN /\ pc' = "oops"
               /\ UNCHANGED <<acq, rel, todo, status, bceSt, qset, probeRc, bound>>
          ELSE /\ rel' = [r \in Res |-> IF r \in Released(o) THEN rel[r] + 1
                                                            ELSE rel[r]]
               /\ bceSt' = IF o.k = "kfree" /\ bceSt # "null" THEN "freed" ELSE bceSt
               /\ qset' = IF o.k = "clearQ" THEN qset \ {o.r} ELSE qset
               /\ todo' = IF o.k = "unregister" /\ bound
                          THEN RemoveOps \o Tail(todo) ELSE Tail(todo)
               /\ bound' = IF o.k = "unregister" THEN FALSE ELSE bound
               /\ UNCHANGED <<pc, acq, status, probeRc>>

\* The end of a cleanup program: probe returns (a zero status becomes
\* -EINVAL), module init returns its error, or module exit is over.
UnwindDone ==
    /\ pc \in {"probeUnwind", "initUnwind", "exiting"}
    /\ todo = <<>>
    /\ CASE pc = "probeUnwind" ->
              /\ probeRc' = IF status = "0" THEN "EINVAL" ELSE status
              /\ bound' = (status = "POS")
              /\ pc' = "audio"
         [] pc = "initUnwind" -> pc' = "initFailed" /\ UNCHANGED <<probeRc, bound>>
         [] pc = "exiting"    -> pc' = "unloaded" /\ UNCHANGED <<probeRc, bound>>
    /\ UNCHANGED <<acq, rel, todo, status, bceSt, qset>>
-----------------------------------------------------------------------------
(* apple_bce_module_init *)

Init ==
    /\ pc = "chrdev"
    /\ acq = [r \in Res |-> 0] /\ rel = [r \in Res |-> 0]
    /\ todo = <<>> /\ status = "0" /\ bceSt = "null" /\ qset = {}
    /\ probeRc = "none" /\ bound = FALSE

\* A call that acquires S and goes on at next, or fails and unwinds ops
\* with status s.
Call(S, next, ops, s) ==
    \/ Take(S) /\ pc' = next /\ UNCHANGED <<todo, status>>
    \/ Fail(ops, s) /\ UNCHANGED acq

Unchanged(x) == UNCHANGED <<rel, bceSt, qset, probeRc, bound>> /\ x

AllocChrdev  == pc = "chrdev"  /\ Unchanged(Call({"chrdev"}, "class", FailChrdevOps, "ERR"))
ClassCreate  == pc = "class"   /\ Unchanged(Call({"class"}, "vhcimod", FailClassOps, "ERR"))
VhciModInit  == pc = "vhcimod" /\ Unchanged(Call({"vhcimod"}, "register", FailClassOps, "ERR"))
\* pci_register_driver: the driver core probes the device before it returns.
RegisterDriver ==
    pc = "register" /\ Unchanged(Call({"driver"}, "p_enable", FailDrvOps, "ERR"))

\* aaudio_module_init, its result ignored.
AudioModInit ==
    /\ pc = "audio"
    /\ Take({"audiomod"}) /\ pc' = "loaded"
    /\ UNCHANGED <<rel, todo, status, bceSt, qset, probeRc, bound>>

\* apple_bce_module_exit.
ModuleExit ==
    /\ pc = "loaded"
    /\ pc' = "exiting" /\ todo' = ExitOps
    /\ UNCHANGED <<acq, rel, status, bceSt, qset, probeRc, bound>>

-----------------------------------------------------------------------------
(* apple_bce_probe, one action per call that can fail *)

\* pci_enable_device: on failure probe returns -ENODEV at once.
EnableDevice ==
    /\ pc = "p_enable"
    /\ \/ Take({"enabled"}) /\ pc' = "p_regions" /\ UNCHANGED probeRc
       \/ pc' = "audio" /\ probeRc' = "ENODEV" /\ UNCHANGED acq
    /\ UNCHANGED <<rel, todo, status, bceSt, qset, bound>>

RequestRegions ==
    pc = "p_regions" /\ Unchanged(Call({"regions"}, "p_vectors", FailOps, "ENODEV"))

\* pci_alloc_irq_vectors(1, 8): fewer than 5 vectors, or an error, fails.
AllocIrqVectors ==
    /\ pc = "p_vectors"
    /\ \/ Take({"vectors"}) /\ pc' = "p_alloc" /\ UNCHANGED <<todo, status>>
       \/ Take({"vectors"}) /\ Fail(FailOps, "EINVAL")
       \/ Fail(FailOps, "EINVAL") /\ UNCHANGED acq
    /\ UNCHANGED <<rel, bceSt, qset, probeRc, bound>>

\* kzalloc of bce and pci_set_drvdata.
AllocBce ==
    /\ pc = "p_alloc"
    /\ \/ Take({"bce"}) /\ bceSt' = "live" /\ pc' = "p_cdev" /\ UNCHANGED <<todo, status>>
       \/ Fail(FailOps, "ENOMEM") /\ UNCHANGED <<acq, bceSt>>
    /\ UNCHANGED <<rel, qset, probeRc, bound>>

\* device_create; on failure status = PTR_ERR(bce_class), the low bits of
\* a valid pointer: negative, zero or positive.
DeviceCreate ==
    /\ pc = "p_cdev"
    /\ \/ Take({"cdev"}) /\ pc' = "p_iomap" /\ UNCHANGED <<todo, status>>
       \/ \E s \in {"ERR", "0", "POS"} : Fail(FailOps, s) /\ UNCHANGED acq
    /\ UNCHANGED <<rel, bceSt, qset, probeRc, bound>>

\* pci_iomap of BAR 4 and BAR 2; if either is NULL, goto fail with status
\* 0.  bce_mailbox_init, bce_timestamp_init and ida_init cannot fail.
IoMap ==
    /\ pc = "p_iomap"
    /\ \E S \in SUBSET {"mb", "dma"} :
         /\ Take(S)
         /\ IF S = {"mb", "dma"} THEN pc' = "p_irq0" /\ UNCHANGED <<todo, status>>
                                 ELSE Fail(FailOps, "0")
    /\ UNCHANGED <<rel, bceSt, qset, probeRc, bound>>

RequestMbIrq ==
    pc = "p_irq0" /\ Unchanged(Call({"irq0"}, "p_irq4", FailOps, "ERR"))
\* Mutant: the DMA interrupt requested on vector 0 again.
RequestDmaIrqSameVector ==
    pc = "p_irq4" /\ Unchanged(Call({"irq0"}, "p_mask", FailInterrupt0Ops, "ERR"))
RequestDmaIrq ==
    pc = "p_irq4" /\ Unchanged(Call({"irq4"}, "p_mask", FailInterrupt0Ops, "ERR"))
\* dma_set_mask_and_coherent, then bce_timestamp_start.
SetDmaMask ==
    pc = "p_mask" /\ Unchanged(Call({"ts"}, "p_handshake", FailInterruptOps, "ERR"))
\* bce_fw_version_handshake: the mailbox exchange fails or the reply is wrong.
\* Mutant: a failed handshake jumps to fail_interrupt, skipping the timer stop.
FwVersionHandshakeWrongLabel ==
    pc = "p_handshake" /\ Unchanged(Call({}, "p_cmdq", FailInterruptOps, "ERR"))
FwVersionHandshake ==
    pc = "p_handshake" /\ Unchanged(Call({}, "p_cmdq", FailTsOps, "ERR"))

(* bce_create_command_queues *)

\* bce_alloc_cq and bce_alloc_cmdq are both tried; their queues go into
\* bce->queues[0] and [1] only when both succeeded.
AllocCommandQueues ==
    /\ pc = "p_cmdq"
    /\ \E S \in SUBSET {"cq", "cmdq"} :
         /\ Take(S)
         /\ IF S = {"cq", "cmdq"}
            THEN pc' = "p_cfg" /\ qset' = S /\ UNCHANGED <<todo, status>>
            ELSE Fail(CmdqErrOps, "ENOMEM") /\ UNCHANGED qset
    /\ UNCHANGED <<rel, bceSt, probeRc, bound>>

AllocMemcfg ==
    pc = "p_cfg" /\ Unchanged(Call({"cfg"}, "p_regcq", CmdqErrOps, "ENOMEM"))
\* bce_register_command_queue for the CQ (mailbox exchange).
RegisterCq ==
    pc = "p_regcq" /\ Unchanged(Call({}, "p_regsq", CmdqErrOps, "ERR"))
\* bce_register_command_queue for the SQ; on success kfree(cfg).
RegisterSq ==
    /\ pc = "p_regsq"
    /\ \/ /\ rel' = [rel EXCEPT !["cfg"] = @ + 1]
          /\ pc' = "p_vhci" /\ UNCHANGED <<todo, status>>
       \/ Fail(CmdqErrOps, "ERR") /\ UNCHANGED rel
    /\ UNCHANGED <<acq, bceSt, qset, probeRc, bound>>

\* global_bce = bce; bce_vhci_create (its result ignored); return 0.
VhciCreate ==
    /\ pc = "p_vhci"
    /\ Take({"vhci"})
    /\ pc' = "audio" /\ probeRc' = "0" /\ bound' = TRUE
    /\ UNCHANGED <<rel, todo, status, bceSt, qset>>

\* The module is unloaded, init failed, or the thread oopsed.
Done ==
    /\ pc \in {"unloaded", "initFailed", "oops"}
    /\ UNCHANGED vars

Next ==
    \/ AllocChrdev \/ ClassCreate \/ VhciModInit \/ RegisterDriver
    \/ AudioModInit \/ ModuleExit
    \/ EnableDevice \/ RequestRegions \/ AllocIrqVectors \/ AllocBce
    \/ DeviceCreate \/ IoMap \/ RequestMbIrq \/ RequestDmaIrq \/ SetDmaMask
    \/ FwVersionHandshake
    \/ AllocCommandQueues \/ AllocMemcfg \/ RegisterCq \/ RegisterSq \/ VhciCreate
    \/ Unwind \/ UnwindDone
    \/ Done

Spec == Init /\ [][Next]_vars

-----------------------------------------------------------------------------
(* Properties *)

Pcs == {"chrdev", "class", "vhcimod", "register", "p_enable", "p_regions",
        "p_vectors", "p_alloc", "p_cdev", "p_iomap", "p_irq0", "p_irq4",
        "p_mask", "p_handshake", "p_cmdq", "p_cfg", "p_regcq", "p_regsq",
        "p_vhci", "probeUnwind", "initUnwind", "audio", "loaded", "exiting",
        "unloaded", "initFailed", "oops"}
Kinds == {"rel", "relIfHeld", "viaBce", "kfree", "clearQ", "unregister"}
Codes == {"0", "ERR", "POS", "ENODEV", "EINVAL", "ENOMEM"}

\* Module init and probe run once, so no resource is ever acquired twice.
TypeOK ==
    /\ pc \in Pcs
    /\ acq \in [Res -> 0..1] /\ rel \in [Res -> Nat]
    /\ todo \in Seq([k : Kinds, r : Res])
    /\ status \in Codes /\ probeRc \in Codes \cup {"none"}
    /\ bceSt \in {"null", "live", "freed"} /\ qset \subseteq {"cq", "cmdq"}
    /\ bound \in BOOLEAN

\* While either interrupt handler is registered (bce_handle_mb_irq and
\* bce_handle_dma_irq read pci_get_drvdata), the bce it reads is allocated:
\* every cleanup path frees the IRQs before kfree(bce).
HandlersSeeLiveBce ==
    Held("irq0") \/ Held("irq4") => bceSt = "live"

\* While the timestamp timer runs it reads the mailbox registers through
\* bce: the timer is stopped before they are unmapped and bce is freed.
TimerSeesMappedRegisters ==
    Held("ts") => Held("mb") /\ bceSt = "live"

\* After a successful probe, module exit (through pci_unregister_driver and
\* apple_bce_remove) releases everything module init and probe acquired.
RemoveReleasesAll ==
    pc = "unloaded" /\ probeRc = "0" => \A r \in Res : ~Held(r)

\* The DMA interrupt handler only walks queues that are allocated: while
\* it is registered, every queue in bce->queues[] is held.
DmaIrqSeesLiveQueues ==
    Held("irq4") => \A q \in qset : Held(q)

\* No cleanup path releases what it does not hold (no double free, no
\* release of a resource that was never acquired).
NoReleaseOfUnheld ==
    \A r \in Res : rel[r] <= acq[r]
=============================================================================
