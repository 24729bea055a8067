------------------------ MODULE MCVhciTransferQueue ------------------------
EXTENDS VhciTransferQueue

CONSTANTS u1, u2

MCUrbs == {u1, u2}
====
