------------------------------ MODULE MCVirtio ------------------------------
(* Instances of Virtio.                                                    *)
EXTENDS Virtio

CONSTANTS p1, p2, p3

\* Two threads that write to different blocks, and one that reads both.
TwoWriters == {<<p1, 1>>, <<p2, 2>>, <<p3, 1>>, <<p3, 2>>}
=============================================================================
