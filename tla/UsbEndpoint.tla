---------------------------- MODULE UsbEndpoint ----------------------------
(***************************************************************************)
(* What a host controller endpoint promises the USB core, independent of   *)
(* how the vhci transfer queue implements it: a URB is submitted once,     *)
(* given back once (completed or cancelled) with an actual length no       *)
(* larger than its buffer, and is not touched after it was given back.     *)
(* With fairness, every URB submitted is eventually given back.            *)
(***************************************************************************)
EXTENDS Naturals, Sequences

CONSTANTS
    Urbs,   \* the client's URBs
    Lens    \* transfer_buffer_length values a URB may have

VARIABLES
    linked, \* URBs submitted and not yet given back
    lens,   \* URB -> its transfer_buffer_length
    given   \* the givebacks so far: [urb, by, actual]

vars == <<linked, lens, given>>

Given(h) == \E i \in DOMAIN given : given[i].urb = h

Init ==
    /\ linked = {}
    /\ lens = [h \in Urbs |-> 0]
    /\ given = <<>>

\* usb_hcd_submit_urb of a URB the endpoint has never seen.
Submit(h) ==
    /\ h \notin linked /\ ~Given(h)
    /\ \E l \in Lens : lens' = [lens EXCEPT ![h] = l]
    /\ linked' = linked \cup {h}
    /\ UNCHANGED given

\* usb_hcd_giveback_urb, after completion or after an unlink.
GiveBack(h) ==
    /\ h \in linked
    /\ \E by \in {"complete", "cancel"}, n \in 0..lens[h] :
         given' = Append(given, [urb |-> h, by |-> by, actual |-> n])
    /\ linked' = linked \ {h}
    /\ UNCHANGED lens

Next == \E h \in Urbs : Submit(h) \/ GiveBack(h)

SafetySpec == Init /\ [][Next]_vars

Spec == SafetySpec /\ \A h \in Urbs : WF_vars(GiveBack(h))
=============================================================================
