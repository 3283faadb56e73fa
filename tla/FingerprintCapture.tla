-------------------------- MODULE FingerprintCapture --------------------------
(***************************************************************************)
(* The capture of a system fingerprint: capture_system, its eight          *)
(* collectors and the persister they share.                                *)
(*                                                                         *)
(* The collectors run concurrently and none of them ever fails: a file     *)
(* that cannot be read, a tool that is missing, exits with an error, runs  *)
(* into its timeout or prints what the parser refuses leaves a gap in the  *)
(* fingerprint.  Some gaps have a warning that names the component, others *)
(* are passed over with an unwrap_or_default, a flatten or a continue.     *)
(* Every such place is a probe, the silent places of one item together one *)
(* probe, and the environment chooses which probes fail.                   *)
(* What a collector does between two uses of the shared repository touches *)
(* nothing of the others, so it is one action.                             *)
(***************************************************************************)
EXTENDS FiniteSets, Integers

CONSTANTS
    Disk, Kernel, Array, VG, HostKey,  \* what the host has
    Bytes,       \* content of the files of /boot
    Opts,        \* the sets of optional collectors that callers ask for
    MaxFaults    \* bound on failing probes, for each set of collectors

Optional == {"network", "packages", "bootloader", "users", "ssh", "lvm", "mdadm"}

ASSUME CaptureAssumption ==
    /\ IsFiniteSet(Disk \cup Kernel \cup Array \cup VG \cup HostKey)
    /\ Bytes \in [Kernel -> Kernel] /\ MaxFaults \in [Opts -> Nat]
    /\ Opts \subseteq SUBSET Optional

VARIABLES
    table,       \* partition table of each disk
    uefi,        \* the host boots with UEFI
    opts, dry,   \* CaptureOpts; --dry-run
    todo,        \* what the collectors have still to do
    got,         \* items in the fingerprint
    warned,      \* components with a warning in the fingerprint
    stored, referenced,  \* blobs of the repository, and those in ChunkRefs
    failed,      \* history: probes that failed
    pc           \* host, collect, persist, saved, error
host == <<table, uefi, opts, dry>>
vars == <<host, todo, got, warned, stored, referenced, failed, pc>>

(* An item is a tuple that starts with its component. *)
(* "kernel" is the distribution, "release" the rest of KernelInfo.         *)
HostLoud == {"kernel", "cpu", "memory", "filesystems"}
HostPart == HostLoud \cup {"release", "fstab", "crypttab", "services", "firmware", "identity"}
HostItem == {<<c>> : c \in HostPart} \cup {<<"filesystems", "labels">>}
DiskItem(d) == {<<"disk", "layout", d>>}
TableItem(d) ==
    CASE table[d] = "gpt" -> {<<"disk", "raw", d>>, <<"disk", "parts", d>>,
                              <<"disk", "guids", d>>}
      [] table[d] = "mbr" -> {<<"disk", "raw", d>>, <<"disk", "parts", d>>,
                              <<"disk", "boot_code", d>>}
      [] OTHER -> {}
NetItem == {<<"network", i>> : i \in {"interfaces", "addresses", "routes", "files"}}
PackageItem == {<<"packages", i>> : i \in {"list", "origins", "repositories", "keyrings"}}
Grub == {<<"bootloader", "grub">>}
BiosItem == Grub \cup {<<"bootloader", "boot_code">>}
UefiItem == {<<"bootloader", i>> : i \in {"esp", "esp_files", "esp_device", "esp_uuid",
                                          "entries", "secure_boot"}}
KernelItem(K) == {<<"bootloader", "file", k>> : k \in K}
UserItem == {<<"users", i>> : i \in {"passwd", "group", "shadow", "gshadow"}}
ShadowItem == {<<"users", "shadow">>, <<"users", "gshadow">>}
SshItem(K) == {<<"ssh", "key", k>> : k \in K}
LvmList == {"pvs", "vgs", "lvs"}
LvmItem == {<<"lvm", i>> : i \in LvmList}
VgItem(G) == {<<"lvm", "backup", g>> : g \in G}
MdItem == {<<"mdadm", "mdstat">>, <<"mdadm", "conf">>}
ArrayItem(A) == {<<"mdadm", "array", a>> : a \in A}

(* Fields that the fingerprint declares and that every collector leaves    *)
(* empty: uuid and label of a file system, type_guid and partition_guid of *)
(* a GPT partition, the addresses of an interface (a comment says they are *)
(* "populated below"), the origin of a package, the UUID of the ESP.       *)
Unfilled ==
    {<<"filesystems", "labels">>, <<"network", "addresses">>, <<"packages", "origins">>,
     <<"bootloader", "esp_uuid">>} \cup {<<"disk", "guids", d>> : d \in Disk}

(* What the host has for the collectors the caller asked for. *)
Has ==
    LET Of == [network    |-> NetItem,
               packages   |-> PackageItem,
               bootloader |-> KernelItem(Kernel) \cup (IF uefi THEN UefiItem ELSE BiosItem),
               users      |-> UserItem,
               ssh        |-> SshItem(HostKey),
               lvm        |-> LvmItem \cup VgItem(VG),
               mdadm      |-> MdItem \cup ArrayItem(Array)]
    IN HostItem \cup (UNION {DiskItem(d) \cup TableItem(d) : d \in Disk}) \cup (UNION {Of[c] : c \in opts})

(* The blob that an item is stored as: hashes are those of the plaintext. *)
BlobItem == KernelItem(Kernel) \cup SshItem(HostKey)
              \cup ShadowItem \cup {<<"bootloader", "esp">>}
Blob(i) == CASE i \in KernelItem(Kernel) -> <<"boot", Bytes[i[3]]>>
             [] i \in SshItem(HostKey) -> <<"ssh">>
             [] i \in ShadowItem -> <<"users">>
             [] OTHER -> i
Blobs == {Blob(i) : i \in BlobItem} \cup {<<"fingerprint">>}
Persisting(b) == {<<"put", b>>, <<"ref", b>>}

Units(O) ==
    {<<"disks">>} \cup {<<c>> : c \in O \ {"bootloader"}}
      \cup (IF "bootloader" \in O THEN {<<"loader">>} ELSE {})

Init ==
    /\ table \in [Disk -> {"gpt", "mbr", "none"}]
    /\ uefi \in BOOLEAN /\ dry \in BOOLEAN
    /\ opts \in Opts /\ todo = Units(opts)
    /\ got = {} /\ warned = {} /\ failed = {}
    /\ stored = {} /\ referenced = {} /\ pc = "host"

(* F is what fails of the probes P. *)
Failing(P, F) ==
    /\ F \subseteq P /\ Cardinality(F \cup failed) <= MaxFaults[opts]
    /\ failed' = failed \cup F
WarnLast(c, F) == warned' = IF F = {} THEN warned ELSE {c}
Warn(c, F) == warned' = warned \cup (IF F = {} THEN {} ELSE {c})
Collect(I) == got' = got \cup (I \ Unfilled)

(* put_data_key_bytes, put_metadata_key_bytes: the blob is written, then   *)
(* its reference; either may fail.  A dry run only buffers the hash.       *)
PersistRefFirst(B, F) ==
    LET ref == IF dry THEN {} ELSE {b \in B : <<"ref", b>> \notin F}
    IN /\ referenced' = referenced \cup ref
       /\ stored' = stored \cup {b \in ref : <<"put", b>> \notin F}
Persist(B, F) ==
    LET put == IF dry THEN {} ELSE {b \in B : <<"put", b>> \notin F}
    IN /\ stored' = stored \cup put
       /\ referenced' = referenced \cup {b \in put : <<"ref", b>> \notin F}
Fails(b, F) == ~dry /\ Persisting(b) \cap F # {}
NoBlobs == UNCHANGED <<stored, referenced>>
PersistProbes(b) == IF dry THEN {} ELSE Persisting(b)

(* The synchronous collectors and the unit list of systemd come first.     *)
(* "unread": the one file that is missed aloud.  "blank": all the defaults *)
(* taken in silence, a field the file does not have among them.            *)
CollectHost ==
    LET P == ({"unread"} \X HostLoud) \cup ({"blank"} \X HostPart)
    IN /\ pc = "host"
       /\ \E F \in SUBSET P :
            /\ Failing(P, F)
            /\ Collect(HostItem \ {<<p[2]>> : p \in F})
            /\ warned' = warned \cup {p[2] : p \in F \cap ({"unread"} \X HostLoud)}
       /\ pc' = "collect"
       /\ NoBlobs /\ UNCHANGED <<host, todo>>

Unit(u) ==
    /\ pc = "collect" /\ u \in todo
    /\ todo' = todo \ {u}
    /\ UNCHANGED <<host, pc>>

(* discover_disks visits what /sys/block lists.                            *)
ListDisks ==
    /\ pc = "collect" /\ <<"disks">> \in todo
    /\ \E F \in SUBSET {<<"sys", "block">>} :
         /\ Failing(F, F) /\ Warn("disk", F)
         /\ todo' = (todo \ {<<"disks">>})
                      \cup {<<"disk", d>> : d \in IF F = {} THEN Disk ELSE {}}
    /\ NoBlobs /\ UNCHANGED <<host, got, pc>>

(* A disk whose entry cannot be read, or that has no node in /dev, is      *)
(* skipped ("node").  An attribute of /sys that cannot be read has a       *)
(* default.  A first sector that cannot be opened is warned about, one     *)
(* that cannot be read counts as "no partition table"; a row of the table  *)
(* that does not parse is left out.                                        *)
CaptureDisk(d) ==
    LET Tool == [gpt |-> {"backup", "parse", "row"}, mbr |-> {"sfdisk", "parse", "row"}, none |-> {}]
        P == ({"node", "sysfs", "open", "read"} \cup Tool[table[d]]) \X {d}
        Gone(p) == CASE p = "node" -> DiskItem(d) \cup TableItem(d)
                     [] p = "sysfs" -> DiskItem(d)
                     [] p \in {"open", "read"} -> TableItem(d)
                     [] p = "backup" -> {<<"disk", "raw", d>>}
                     [] p = "sfdisk" -> {<<"disk", "raw", d>>, <<"disk", "parts", d>>}
                     [] OTHER -> {<<"disk", "parts", d>>}
    IN /\ Unit(<<"disk", d>>)
       /\ \E F \in SUBSET P :
            /\ <<"node", d>> \in F => F = {<<"node", d>>}
            /\ \A p \in {"open", "read"} : <<p, d>> \in F => F \subseteq {p, "sysfs"} \X {d}
            /\ Failing(P, F)
            /\ Collect((DiskItem(d) \cup TableItem(d)) \ UNION {Gone(p[1]) : p \in F})
            /\ Warn("disk", F \ ({"node", "sysfs", "read", "row"} \X {d}))
       /\ NoBlobs

CaptureNetwork ==
    LET P == {<<"net", i>> : i \in {"dir", "attr", "ip", "json", "file", "size"}}
        Gone(p) == IF p[2] \in {"dir", "attr"} THEN "interfaces"
                   ELSE IF p[2] \in {"ip", "json"} THEN "routes" ELSE "files"
    IN /\ Unit(<<"network">>)
       /\ \E F \in SUBSET P :
            /\ Failing(P, F)
            /\ Collect(NetItem \ {<<"network", Gone(p)>> : p \in F})
            /\ Warn("network", F \ ({"net"} \X {"attr", "json", "file"}))
       /\ NoBlobs

(* Without a known manager there are no directories to look into either;   *)
(* pacman and apk have none for the keyrings, which counts as a probe.     *)
CapturePackages ==
    LET P == {<<"pkg", i>> : i \in {"manager", "tool", "line", "repositories", "keyrings"}}
        Gone(p) == CASE p[2] = "manager" -> PackageItem
                     [] p[2] \in {"tool", "line"} -> {<<"packages", "list">>}
                     [] OTHER -> {<<"packages", p[2]>>}
    IN /\ Unit(<<"packages">>)
       /\ \E F \in SUBSET P :
            /\ Failing(P, F)
            /\ Collect(PackageItem \ UNION {Gone(p) : p \in F})
            /\ Warn("packages", F \cap {<<"pkg", "manager">>, <<"pkg", "tool">>})
       /\ NoBlobs

-----------------------------------------------------------------------------
(* capture_bootloader: the loader, then the files of /boot one by one.     *)
AfterLoader ==
    /\ pc = "collect" /\ <<"loader">> \in todo
    /\ todo' = (todo \ {<<"loader">>})
                 \cup {<<"boot", k>> : k \in IF <<"boot", "dir">> \in failed' THEN {} ELSE Kernel}
    /\ UNCHANGED <<host, pc>>

(* The archive is of the directory /boot/efi, whatever is mounted there    *)
(* ("unmounted"); Secure Boot is read if its variable is listed first.     *)
CaptureUefi ==
    LET esp == Blob(<<"bootloader", "esp">>)
        P == ({"boot"} \X {"tar", "unmounted", "mounts", "efibootmgr", "efivars", "dir"})
               \cup PersistProbes(esp)
        Gone(p) == CASE p = <<"boot", "unmounted">> -> {"esp_files"}
                     [] p = <<"boot", "mounts">> -> {"esp_device"}
                     [] p = <<"boot", "efibootmgr">> -> {"entries"}
                     [] p = <<"boot", "efivars">> -> {"secure_boot"}
                     [] p = <<"boot", "dir">> -> {}
                     [] OTHER -> {"esp", "esp_files"}
    IN /\ uefi
       /\ \E F \in SUBSET P :
            /\ <<"boot", "tar">> \in F => F \cap Persisting(esp) = {}
            /\ Failing(P, F)
            /\ Collect(UefiItem \ ({"bootloader"} \X UNION {Gone(p) : p \in F}))
            /\ Warn("bootloader", F \ ({"boot"} \X {"unmounted", "mounts", "efivars", "dir"}))
            /\ Persist(IF <<"boot", "tar">> \in F THEN {} ELSE {esp}, F)
       /\ AfterLoader

(* Without the root disk the configuration of GRUB is not looked for; a    *)
(* boot code shorter than 446 bytes is taken as it is ("short").           *)
CaptureBiosAlways ==
    /\ Failing({}, {}) /\ Collect(BiosItem) /\ Warn("bootloader", {})
    /\ AfterLoader /\ NoBlobs
CaptureBios ==
    LET P == {<<"boot", i>> : i \in {"root", "mbr", "short", "grub", "dir"}}
        Gone(p) == CASE p[2] = "root" -> BiosItem
                     [] p[2] \in {"mbr", "short"} -> BiosItem \ Grub
                     [] p[2] = "grub" -> Grub
                     [] OTHER -> {}
    IN /\ ~uefi
       /\ \E F \in SUBSET P :
            /\ Failing(P, F)
            /\ Collect(BiosItem \ UNION {Gone(p) : p \in F})
            /\ Warn("bootloader", F \cap {<<"boot", "root">>, <<"boot", "mbr">>})
       /\ AfterLoader
       /\ NoBlobs

CaptureKernelFile(k) ==
    LET b == <<"boot", Bytes[k]>>
        unread == {"entry", "kernel"} \X {k}
        P == unread \cup PersistProbes(b)
    IN /\ Unit(<<"boot", k>>)
       /\ \E F \in SUBSET P :
            /\ \A p \in F \cap unread : F = {p}
            /\ Failing(P, F)
            /\ Collect(IF F = {} THEN KernelItem({k}) ELSE {})
            /\ Warn("bootloader", F \ {<<"entry", k>>})
            /\ Persist(IF F \cap unread # {} THEN {} ELSE {b}, F)

CaptureUsers ==
    LET b == <<"users">>
        P == UserItem \cup PersistProbes(b)
        unread == <<"users", "shadow">>
    IN /\ Unit(<<"users">>)
       /\ \E F \in SUBSET P :
            /\ unread \in F => F \cap (Persisting(b) \cup {<<"users", "gshadow">>}) = {}
            /\ Failing(P, F)
            /\ Collect(UserItem \ (F \cup IF unread \in F \/ Fails(b, F) THEN ShadowItem ELSE {}))
            /\ Warn("users", F \ {<<"users", "gshadow">>})
            /\ Persist(IF unread \in F THEN {} ELSE {b}, F)

(* Only the keys that could be read go into the blob; none, no blob.  A    *)
(* key is skipped when its metadata cannot be read, when it is no regular  *)
(* file and when it is larger than 256 KiB.                                *)
CaptureSshKeys ==
    LET b == <<"ssh">>
        P == {<<"ssh", "dir">>} \cup ({"skip", "key"} \X HostKey)
               \cup PersistProbes(b)
    IN /\ Unit(<<"ssh">>)
       /\ \E F \in SUBSET P :
            LET read == IF <<"ssh", "dir">> \in F THEN {}
                        ELSE {k \in HostKey : <<"skip", k>> \notin F /\ <<"key", k>> \notin F}
            IN /\ read = {} => F \cap Persisting(b) = {}
               /\ Failing(P, F)
               /\ Collect(IF Fails(b, F) THEN {} ELSE SshItem(read))
               /\ Warn("ssh", F \ {<<"skip", k>> : k \in HostKey})
               /\ Persist(IF read = {} THEN {} ELSE {b}, F)

-----------------------------------------------------------------------------
(* vgcfgbackup runs for the groups vgs listed; when all three lists are    *)
(* empty there is no LVM section, whatever the warnings say.  A field that *)
(* a tool does not print, or not as a number, is "" or 0.                  *)
CaptureLvm ==
    LET field == {"field"} \X LvmList
        P == {<<"lvm", "dir">>} \cup LvmItem \cup field \cup {<<"vgcfgbackup", g>> : g \in VG}
    IN /\ Unit(<<"lvm">>)
       /\ \E F \in SUBSET P :
            LET groups == IF <<"lvm", "vgs">> \in F THEN {} ELSE VG
                saved == {g \in groups : <<"vgcfgbackup", g>> \notin F}
            IN /\ <<"lvm", "dir">> \in F => F = {<<"lvm", "dir">>}
               /\ groups = {} => \A g \in VG : <<"vgcfgbackup", g>> \notin F
               /\ Failing(P, F)
               /\ Collect(IF <<"lvm", "dir">> \in F \/ LvmItem \subseteq F THEN {}
                          ELSE (LvmItem \ (F \cup {<<"lvm", p[2]>> : p \in F \cap field}))
                                \cup VgItem(saved))
               /\ Warn("lvm", F \ ({<<"lvm", "dir">>} \cup field))
       /\ NoBlobs

(* An array is passed over when its entry in /dev cannot be read, when its *)
(* name has a "p" in it, and when it has no node there.                    *)
CaptureMdadm ==
    LET P == {<<"md", i>> : i \in {"mdstat", "conf", "dev"}}
               \cup ({"md_node", "mdadm_detail"} \X Array)
        listed(F) == IF <<"md", "dev">> \in F THEN {}
                     ELSE {a \in Array : <<"md_node", a>> \notin F /\ <<"mdadm_detail", a>> \notin F}
    IN /\ Unit(<<"mdadm">>)
       /\ \E F \in SUBSET P :
            /\ <<"md", "mdstat">> \in F => F = {<<"md", "mdstat">>}
            /\ <<"md", "dev">> \in F => \A a \in Array : <<"mdadm_detail", a>> \notin F
            /\ Failing(P, F)
            /\ Collect(IF <<"md", "mdstat">> \in F THEN {}
                       ELSE ArrayItem(listed(F)) \cup {<<"mdadm", "mdstat">>}
                              \cup (IF <<"md", "conf">> \in F THEN {} ELSE {<<"mdadm", "conf">>}))
            /\ Warn("mdadm", F \cap {<<"mdadm_detail", a>> : a \in Array})
       /\ NoBlobs

(* capture_system merges values and warnings; the caller stores the        *)
(* fingerprint, unless this is a dry run, and gives up when that fails.    *)
Join ==
    /\ pc = "collect" /\ todo = {}
    /\ pc' = IF dry THEN "saved" ELSE "persist"
    /\ UNCHANGED <<host, todo, got, warned, stored, referenced, failed>>

PersistFingerprint ==
    LET b == <<"fingerprint">>
    IN /\ pc = "persist"
       /\ \E F \in SUBSET Persisting(b) :
            /\ Failing(Persisting(b), F)
            /\ Persist({b}, F)
            /\ pc' = IF F = {} THEN "saved" ELSE "error"
       /\ UNCHANGED <<host, todo, got, warned>>

Next ==
    \/ CollectHost \/ ListDisks \/ CaptureNetwork \/ CapturePackages
    \/ \E d \in Disk : CaptureDisk(d)
    \/ CaptureUefi \/ CaptureBios \/ \E k \in Kernel : CaptureKernelFile(k)
    \/ CaptureUsers \/ CaptureSshKeys \/ CaptureLvm \/ CaptureMdadm
    \/ Join \/ PersistFingerprint
Spec == Init /\ [][Next]_vars

-----------------------------------------------------------------------------
(* Every variable keeps its type, and the fingerprint holds nothing that   *)
(* the host does not have or the caller did not ask for.                   *)
TypeOK ==
    /\ table \in [Disk -> {"gpt", "mbr", "none"}] /\ uefi \in BOOLEAN
    /\ opts \in Opts /\ dry \in BOOLEAN
    /\ todo \subseteq Units(opts) \cup ({"boot"} \X Kernel) \cup ({"disk"} \X Disk)
    /\ got \subseteq Has
    /\ warned \subseteq HostLoud \cup {"disk"} \cup opts
    /\ stored \subseteq Blobs /\ referenced \subseteq Blobs
    /\ Cardinality(failed) <= MaxFaults[opts]
    /\ pc \in {"host", "collect", "persist", "saved", "error"}

(* The probes whose failure costs the item without a word.  What has none  *)
(* (passwd, group, shadow, the archive of the ESP, the entries of UEFI)    *)
(* is never lost in silence.                                               *)
Quiet(i) ==
    CASE i \in HostItem -> {<<"blank", i[1]>>}
      [] i[1] = "disk" -> {<<"node", i[3]>>, <<IF i[2] = "layout" THEN "sysfs" ELSE "read", i[3]>>}
                            \cup (IF i[2] = "parts" THEN {<<"row", i[3]>>} ELSE {})
      [] i[1] = "network" -> {<<"net", CASE i[2] = "interfaces" -> "attr"
                                         [] i[2] = "routes" -> "json" [] OTHER -> "file">>}
      [] i[1] = "packages" -> {<<"pkg", IF i[2] = "list" THEN "line" ELSE i[2]>>}
      [] i \in KernelItem(Kernel) -> {<<"boot", "dir">>, <<"entry", i[3]>>}
      [] i = <<"bootloader", "esp_files">> -> {<<"boot", "unmounted">>}
      [] i = <<"bootloader", "esp_device">> -> {<<"boot", "mounts">>}
      [] i = <<"bootloader", "secure_boot">> -> {<<"boot", "efivars">>}
      [] i = <<"bootloader", "boot_code">> -> {<<"boot", "short">>}
      [] i = <<"bootloader", "grub">> -> {<<"boot", "grub">>}
      [] i = <<"users", "gshadow">> -> {i}
      [] i[1] = "ssh" -> {<<"skip", i[3]>>}
      [] i[1] = "lvm" -> {<<"lvm", "dir">>} \cup (IF i \in LvmItem THEN {<<"field", i[2]>>} ELSE {})
      [] i = <<"mdadm", "mdstat">> -> {<<"md", "mdstat">>}
      [] i = <<"mdadm", "conf">> -> {<<"md", "mdstat">>, <<"md", "conf">>}
      [] i \in ArrayItem(Array) -> {<<"md", "mdstat">>, <<"md", "dev">>, <<"md_node", i[3]>>}
      [] OTHER -> {}

(* What a saved fingerprint lacks can be accounted for: an item of the     *)
(* host that is missing has a warning of its component next to it, or a    *)
(* probe of its own that its collector passes over in silence failed, or   *)
(* it is a field nobody fills.  Whatever else fails is admitted.  The      *)
(* chains are long: a tool, its parser, the blob, its reference, or a      *)
(* group that is never asked because the list of groups was lost.          *)
Accounted ==
    pc = "saved" =>
        \A i \in Has \ got :
            i[1] \in warned \/ Quiet(i) \cap failed # {} \/ i \in Unfilled

(* Every hash in a saved fingerprint names a blob that is in the store and *)
(* that prune will spare; collectors that store the same bytes, or fail    *)
(* after the write and before the reference, do not change that.  A dry    *)
(* run leaves the repository alone.                                        *)
NamesHeldBlobs ==
    /\ referenced \subseteq stored
    /\ dry => stored = {}
    /\ pc = "saved" /\ ~dry =>
          {Blob(i) : i \in got \cap BlobItem} \cup {<<"fingerprint">>} \subseteq referenced
===============================================================================
