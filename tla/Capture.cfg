CONSTANTS
    Disk = {sda}
    Kernel = {vmlinuz, old}
    Array = {md0}
    VG = {vg0}
    HostKey = {rsa, ed25519}
    Bytes <- MCBytes
    Opts <- MCOpts
    MaxFaults <- MCFaults
SPECIFICATION Spec
CHECK_DEADLOCK FALSE
INVARIANTS TypeOK Accounted NamesHeldBlobs
