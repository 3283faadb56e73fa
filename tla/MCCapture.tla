------------------------------ MODULE MCCapture ------------------------------
(* Instances of FingerprintCapture for TLC: two files of /boot are copies  *)
(* of each other, and callers ask for groups of collectors.  Three probes  *)
(* fail with LVM, so that all of its lists can be lost, elsewhere two.     *)
EXTENDS FingerprintCapture

MCOpts == {{"network", "packages"}, {"bootloader", "ssh"}, {"users", "mdadm"}, {"lvm"}, {}}
MCFaults == [O \in MCOpts |-> IF "lvm" \in O THEN 3 ELSE 2]
MCBytes == [k \in Kernel |-> CHOOSE j \in Kernel : TRUE]
===============================================================================
