---------------------------- MODULE CaptureProofs ----------------------------
(***************************************************************************)
(* Proofs about FingerprintCapture, for every host, every set of optional  *)
(* collectors and every bound on the probes that fail: what a saved        *)
(* fingerprint lacks is accounted for, and what it names is held by the    *)
(* repository.                                                             *)
(***************************************************************************)
EXTENDS FingerprintCapture, FiniteSetTheorems, TLAPS

-----------------------------------------------------------------------------
(* The inductive invariant.                                                *)

(* An item is covered when it is in the fingerprint, when its component    *)
(* has a warning, when a quiet probe of it failed, or when nobody fills    *)
(* it; its sources are the steps the collectors have yet to take that may  *)
(* still capture it.                                                       *)
Covered(i) == i \in got \/ i[1] \in warned \/ Quiet(i) \cap failed # {} \/ i \in Unfilled
Source(i) ==
    CASE i[1] = "disk" -> {<<"disks">>, <<"disk", i[3]>>}
      [] i[1] = "bootloader" ->
            {<<"loader">>} \cup {<<"boot", k>> : k \in {j \in Kernel : i = <<"bootloader", "file", j>>}}
      [] i[1] \in Optional \ {"bootloader"} -> {<<i[1]>>}
      [] OTHER -> {}

(* Until the end every item is covered or still to come. *)
Owed ==
    /\ \A i \in Has : \/ Covered(i) \/ Source(i) \cap todo # {}
                      \/ i \in HostItem /\ pc = "host"
    /\ pc \notin {"host", "collect"} => todo = {}

(* Files of /boot are asked for only when the caller asked for them.       *)
Asked == \A k \in Kernel : <<"boot", k>> \in todo => "bootloader" \in opts

(* Except in a dry run an item is put into the fingerprint together with   *)
(* the reference to its blob.                                              *)
Named ==
    /\ ~dry => \A i \in got \cap BlobItem : Blob(i) \in referenced
    /\ pc = "saved" /\ ~dry => <<"fingerprint">> \in referenced
    /\ referenced \subseteq stored
    /\ dry => stored = {}

CaptureInvariant == TypeOK /\ Owed /\ Asked /\ Named

-----------------------------------------------------------------------------
(* Which component an item belongs to.                                     *)

LEMMA FirstOfItem ==
    /\ \A i \in HostItem : i[1] \in HostPart
    /\ \A d \in Disk : \A i \in DiskItem(d) \cup TableItem(d) : i[1] = "disk" /\ i[3] = d
    /\ \A i \in NetItem : i[1] = "network"
    /\ \A i \in PackageItem : i[1] = "packages"
    /\ \A i \in KernelItem(Kernel) \cup UefiItem \cup BiosItem : i[1] = "bootloader"
    /\ \A i \in UserItem : i[1] = "users"
    /\ \A i \in SshItem(HostKey) : i[1] = "ssh"
    /\ \A i \in LvmItem \cup VgItem(VG) : i[1] = "lvm"
    /\ \A i \in MdItem \cup ArrayItem(Array) : i[1] = "mdadm"
<1>1. \A i \in HostItem : i[1] \in HostPart
  BY DEF HostItem, HostPart, HostLoud
<1>2. \A d \in Disk : \A i \in DiskItem(d) \cup TableItem(d) : i[1] = "disk" /\ i[3] = d
  <2> SUFFICES ASSUME NEW d \in Disk, NEW i \in DiskItem(d) \cup TableItem(d)
               PROVE  i[1] = "disk" /\ i[3] = d
    OBVIOUS
  <2>1. TableItem(d) \subseteq {<<"disk", "raw", d>>, <<"disk", "parts", d>>,
                          <<"disk", "boot_code", d>>, <<"disk", "guids", d>>}
    BY DEF TableItem
  <2> QED BY <2>1 DEF DiskItem
<1>3. \A i \in NetItem : i[1] = "network"
  BY DEF NetItem
<1>4. \A i \in PackageItem : i[1] = "packages"
  BY DEF PackageItem
<1>5. \A i \in KernelItem(Kernel) \cup UefiItem \cup BiosItem : i[1] = "bootloader"
  <2>1. \A i \in KernelItem(Kernel) : i[1] = "bootloader"
    BY DEF KernelItem
  <2>2. \A i \in UefiItem : i[1] = "bootloader"
    BY DEF UefiItem
  <2>3. \A i \in BiosItem : i[1] = "bootloader"
    BY DEF BiosItem, Grub
  <2> QED BY <2>1, <2>2, <2>3
<1>6. \A i \in UserItem : i[1] = "users"
  BY DEF UserItem
<1>7. \A i \in SshItem(HostKey) : i[1] = "ssh"
  BY DEF SshItem
<1>8. \A i \in LvmItem \cup VgItem(VG) : i[1] = "lvm"
  BY DEF LvmItem, VgItem
<1>9. \A i \in MdItem \cup ArrayItem(Array) : i[1] = "mdadm"
  BY DEF MdItem, ArrayItem
<1> QED BY <1>1, <1>2, <1>3, <1>4, <1>5, <1>6, <1>7, <1>8, <1>9

LoaderItem == KernelItem(Kernel) \cup (IF uefi THEN UefiItem ELSE BiosItem)

(* Has, component by component. *)
LEMMA WhatTheHostHas ==
    ASSUME opts \in Opts
    PROVE  /\ HostItem \subseteq Has
           /\ \A d \in Disk : DiskItem(d) \cup TableItem(d) \subseteq Has
           /\ "network" \in opts => NetItem \subseteq Has
           /\ "packages" \in opts => PackageItem \subseteq Has
           /\ "bootloader" \in opts => LoaderItem \subseteq Has
           /\ "users" \in opts => UserItem \subseteq Has
           /\ "ssh" \in opts => SshItem(HostKey) \subseteq Has
           /\ "lvm" \in opts => LvmItem \cup VgItem(VG) \subseteq Has
           /\ "mdadm" \in opts => MdItem \cup ArrayItem(Array) \subseteq Has
<1> DEFINE Of == [network    |-> NetItem,
                  packages   |-> PackageItem,
                  bootloader |-> LoaderItem,
                  users      |-> UserItem,
                  ssh        |-> SshItem(HostKey),
                  lvm        |-> LvmItem \cup VgItem(VG),
                  mdadm      |-> MdItem \cup ArrayItem(Array)]
<1> DEFINE OfDisks == UNION {DiskItem(d) \cup TableItem(d) : d \in Disk}
           OfOpts == UNION {Of[c] : c \in opts}
<1>1. Has = HostItem \cup OfDisks \cup OfOpts
  BY Zenon DEF Has, LoaderItem
<1>2. /\ Of["network"] = NetItem /\ Of["packages"] = PackageItem
      /\ Of["bootloader"] = LoaderItem /\ Of["users"] = UserItem
      /\ Of["ssh"] = SshItem(HostKey) /\ Of["lvm"] = LvmItem \cup VgItem(VG)
      /\ Of["mdadm"] = MdItem \cup ArrayItem(Array)
  OBVIOUS
<1> HIDE DEF Of
<1>3. \A c \in opts : Of[c] \subseteq OfOpts
  OBVIOUS
<1>4. \A d \in Disk : DiskItem(d) \cup TableItem(d) \subseteq OfDisks
  <2> DEFINE OfDisk(d) == DiskItem(d) \cup TableItem(d)
  <2> HIDE DEF OfDisk
  <2>1. \A d \in Disk : OfDisk(d) \subseteq UNION {OfDisk(e) : e \in Disk}
    OBVIOUS
  <2> QED BY <2>1, Zenon DEF OfDisk
<1> HIDE DEF OfDisks, OfOpts
<1>5. HostItem \subseteq Has /\ OfDisks \subseteq Has /\ OfOpts \subseteq Has
  BY <1>1
<1>6. \A d \in Disk : DiskItem(d) \cup TableItem(d) \subseteq Has
  BY <1>4, <1>5
<1>7. \A c \in opts : Of[c] \subseteq Has
  BY <1>3, <1>5
<1> QED BY <1>2, <1>5, <1>6, <1>7

LEMMA WhereAnItemBelongs ==
    ASSUME opts \in Opts, NEW i \in Has
    PROVE  /\ i \in HostItem \/ i[1] \in {"disk"} \cup opts
           /\ i[1] = "disk" => \E d \in Disk : i \in DiskItem(d) \cup TableItem(d)
           /\ i[1] = "network" => i \in NetItem
           /\ i[1] = "packages" => i \in PackageItem
           /\ i[1] = "bootloader" => i \in LoaderItem
           /\ i[1] = "users" => i \in UserItem
           /\ i[1] = "ssh" => i \in SshItem(HostKey)
           /\ i[1] = "lvm" => i \in LvmItem \cup VgItem(VG)
           /\ i[1] = "mdadm" => i \in MdItem \cup ArrayItem(Array)
<1> DEFINE Of == [network    |-> NetItem,
                  packages   |-> PackageItem,
                  bootloader |-> LoaderItem,
                  users      |-> UserItem,
                  ssh        |-> SshItem(HostKey),
                  lvm        |-> LvmItem \cup VgItem(VG),
                  mdadm      |-> MdItem \cup ArrayItem(Array)]
<1> DEFINE OfDisks == UNION {DiskItem(d) \cup TableItem(d) : d \in Disk}
           OfOpts == UNION {Of[c] : c \in opts}
<1>1. Has = HostItem \cup OfDisks \cup OfOpts
  BY Zenon DEF Has, LoaderItem
<1>2. /\ Of["network"] = NetItem /\ Of["packages"] = PackageItem
      /\ Of["bootloader"] = LoaderItem /\ Of["users"] = UserItem
      /\ Of["ssh"] = SshItem(HostKey) /\ Of["lvm"] = LvmItem \cup VgItem(VG)
      /\ Of["mdadm"] = MdItem \cup ArrayItem(Array)
  OBVIOUS
<1>3. \A j \in LoaderItem : j[1] = "bootloader"
  BY FirstOfItem DEF LoaderItem
<1> HIDE DEF Of
<1>4. opts \subseteq Optional
  BY CaptureAssumption
<1>5. ASSUME NEW c \in opts, NEW j \in Of[c] PROVE j[1] = c
  <2>1. c \in Optional
    BY <1>4
  <2>2. CASE c \in {"network", "packages"}
    BY <2>2, <1>2, FirstOfItem
  <2>3. CASE c = "bootloader"
    BY <2>3, <1>2, <1>3
  <2>4. CASE c \in {"users", "ssh"}
    BY <2>4, <1>2, FirstOfItem
  <2>5. CASE c \in {"lvm", "mdadm"}
    BY <2>5, <1>2, FirstOfItem
  <2> QED BY <2>1, <2>2, <2>3, <2>4, <2>5 DEF Optional
<1>6. CASE i \in HostItem
  BY <1>6, FirstOfItem DEF HostPart, HostLoud
<1>7. CASE \E d \in Disk : i \in DiskItem(d) \cup TableItem(d)
  BY <1>7, FirstOfItem
<1>8. CASE \E c \in opts : i \in Of[c]
  <2>1. PICK c \in opts : i \in Of[c]
    BY <1>8
  <2>2. i[1] = c /\ c # "disk"
    BY <2>1, <1>4, <1>5 DEF Optional
  <2> QED BY <2>1, <2>2, <1>2
<1>9. \/ i \in HostItem \/ \E d \in Disk : i \in DiskItem(d) \cup TableItem(d)
      \/ \E c \in opts : i \in Of[c]
  <2>1. i \in OfDisks => \E d \in Disk : i \in DiskItem(d) \cup TableItem(d)
    OBVIOUS
  <2>2. i \in OfOpts => \E c \in opts : i \in Of[c]
    OBVIOUS
  <2> HIDE DEF OfDisks, OfOpts
  <2> QED BY <1>1, <2>1, <2>2
<1> QED BY <1>6, <1>7, <1>8, <1>9

-----------------------------------------------------------------------------
(* One step of a collector.                                                *)

(* What the host has does not change while it is captured. *)
LEMMA TheHostStays ==
    ASSUME opts \in Opts, UNCHANGED host
    PROVE  Has' = Has
<1>1. \A d \in Disk : TableItem(d)' = TableItem(d)
  BY DEF host, TableItem
<1>2. LoaderItem' = LoaderItem
  BY DEF host, LoaderItem
<1>3. opts' = opts
  BY DEF host
<1> DEFINE Of == [network    |-> NetItem,
                  packages   |-> PackageItem,
                  bootloader |-> LoaderItem,
                  users      |-> UserItem,
                  ssh        |-> SshItem(HostKey),
                  lvm        |-> LvmItem \cup VgItem(VG),
                  mdadm      |-> MdItem \cup ArrayItem(Array)]
           On(d) == DiskItem(d) \cup TableItem(d)
<1>4. Has = HostItem \cup (UNION {On(d) : d \in Disk}) \cup (UNION {Of[c] : c \in opts})
  BY Zenon DEF Has, LoaderItem
<1>5. Has' = HostItem \cup (UNION {On(d)' : d \in Disk}) \cup (UNION {Of'[c] : c \in opts'})
  BY Zenon DEF Has, LoaderItem
<1>6. Of' = Of
  BY <1>2
<1>7. \A d \in Disk : On(d)' = On(d)
  BY <1>1 DEF DiskItem
<1> HIDE DEF Of, On
<1>8. (UNION {On(d)' : d \in Disk}) = UNION {On(d) : d \in Disk}
  BY <1>7
<1> QED BY <1>3, <1>4, <1>5, <1>6, <1>8, Zenon

(* Which failures are passed over in silence, item by item. *)
LEMMA QuietProbes ==
    /\ \A i \in HostItem : Quiet(i) = {<<"blank", i[1]>>}
    /\ \A d \in Disk : \A i \in DiskItem(d) \cup TableItem(d) : <<"node", d>> \in Quiet(i)
    /\ \A d \in Disk : \A i \in DiskItem(d) : <<"sysfs", d>> \in Quiet(i)
    /\ \A d \in Disk : \A i \in TableItem(d) : <<"read", d>> \in Quiet(i)
    /\ \A d \in Disk : <<"row", d>> \in Quiet(<<"disk", "parts", d>>)
    /\ Quiet(<<"network", "interfaces">>) = {<<"net", "attr">>}
    /\ Quiet(<<"network", "routes">>) = {<<"net", "json">>}
    /\ Quiet(<<"network", "files">>) = {<<"net", "file">>}
    /\ Quiet(<<"packages", "list">>) = {<<"pkg", "line">>}
    /\ Quiet(<<"packages", "repositories">>) = {<<"pkg", "repositories">>}
    /\ Quiet(<<"packages", "keyrings">>) = {<<"pkg", "keyrings">>}
    /\ \A k \in Kernel : Quiet(<<"bootloader", "file", k>>) = {<<"boot", "dir">>, <<"entry", k>>}
    /\ Quiet(<<"bootloader", "grub">>) = {<<"boot", "grub">>}
    /\ Quiet(<<"bootloader", "boot_code">>) = {<<"boot", "short">>}
    /\ Quiet(<<"bootloader", "esp_files">>) = {<<"boot", "unmounted">>}
    /\ Quiet(<<"bootloader", "esp_device">>) = {<<"boot", "mounts">>}
    /\ Quiet(<<"bootloader", "secure_boot">>) = {<<"boot", "efivars">>}
    /\ Quiet(<<"users", "gshadow">>) = {<<"users", "gshadow">>}
    /\ \A k \in HostKey : Quiet(<<"ssh", "key", k>>) = {<<"skip", k>>}
    /\ \A i \in LvmItem \cup VgItem(VG) : <<"lvm", "dir">> \in Quiet(i)
    /\ \A l \in LvmList : <<"field", l>> \in Quiet(<<"lvm", l>>)
    /\ Quiet(<<"mdadm", "conf">>) = {<<"md", "mdstat">>, <<"md", "conf">>}
    /\ Quiet(<<"mdadm", "mdstat">>) = {<<"md", "mdstat">>}
    /\ \A a \in Array : Quiet(<<"mdadm", "array", a>>)
                           = {<<"md", "mdstat">>, <<"md", "dev">>, <<"md_node", a>>}
<1>1. ASSUME NEW i \in HostItem PROVE Quiet(i) = {<<"blank", i[1]>>}
  <2>1. i[1] \in HostPart /\ i[1] \notin Optional \cup {"disk"}
    BY FirstOfItem DEF HostPart, HostLoud, Optional
  <2>2. i \notin KernelItem(Kernel) /\ i \notin ArrayItem(Array)
    BY <2>1, FirstOfItem DEF Optional
  <2> QED BY <2>1, <2>2 DEF Quiet, Optional
<1>2. \A i : i[1] \in {"disk", "network", "packages", "bootloader", "users", "ssh", "lvm", "mdadm"}
                => i \notin HostItem
  BY FirstOfItem DEF HostPart, HostLoud
<1>3. /\ \A i \in KernelItem(Kernel) : i[1] = "bootloader" /\ i[2] = "file"
      /\ \A i \in ArrayItem(Array) : i[1] = "mdadm" /\ i[2] = "array"
  BY DEF KernelItem, ArrayItem
<1>4. ASSUME NEW d \in Disk, NEW i \in DiskItem(d) \cup TableItem(d)
      PROVE  /\ <<"node", d>> \in Quiet(i)
             /\ i \in DiskItem(d) => <<"sysfs", d>> \in Quiet(i)
             /\ i \in TableItem(d) => <<"read", d>> \in Quiet(i)
             /\ i[2] = "parts" => <<"row", d>> \in Quiet(i)
  <2>1. i[1] = "disk" /\ i[3] = d
    BY FirstOfItem
  <2>2. i \in DiskItem(d) => i[2] = "layout"
    BY DEF DiskItem
  <2>3. i \in TableItem(d) => i[2] # "layout"
    <3>1. TableItem(d) \subseteq {<<"disk", "raw", d>>, <<"disk", "parts", d>>,
                          <<"disk", "boot_code", d>>, <<"disk", "guids", d>>}
      BY DEF TableItem
    <3> QED BY <3>1
  <2>4. i \notin HostItem
    BY <1>2, <2>1
  <2>5. Quiet(i) = {<<"node", d>>, <<IF i[2] = "layout" THEN "sysfs" ELSE "read", d>>}
                     \cup (IF i[2] = "parts" THEN {<<"row", d>>} ELSE {})
    BY <2>1, <2>4, <1>3 DEF Quiet
  <2> QED BY <2>2, <2>3, <2>5
<1>5. \A d \in Disk : <<"row", d>> \in Quiet(<<"disk", "parts", d>>)
  <2> SUFFICES ASSUME NEW d \in Disk PROVE <<"row", d>> \in Quiet(<<"disk", "parts", d>>)
    OBVIOUS
  <2>1. <<"disk", "parts", d>> \notin HostItem
    BY <1>2
  <2> QED BY <2>1, <1>3 DEF Quiet
<1>6. /\ Quiet(<<"network", "interfaces">>) = {<<"net", "attr">>}
      /\ Quiet(<<"network", "routes">>) = {<<"net", "json">>}
      /\ Quiet(<<"network", "files">>) = {<<"net", "file">>}
  <2>1. \A x \in {"interfaces", "routes", "files"} : <<"network", x>> \notin HostItem
    BY <1>2
  <2> QED BY <2>1, <1>3 DEF Quiet
<1>7. /\ Quiet(<<"packages", "list">>) = {<<"pkg", "line">>}
      /\ Quiet(<<"packages", "repositories">>) = {<<"pkg", "repositories">>}
      /\ Quiet(<<"packages", "keyrings">>) = {<<"pkg", "keyrings">>}
  <2>1. \A x \in {"list", "repositories", "keyrings"} : <<"packages", x>> \notin HostItem
    BY <1>2
  <2> QED BY <2>1, <1>3 DEF Quiet
<1>8. \A k \in Kernel : Quiet(<<"bootloader", "file", k>>) = {<<"boot", "dir">>, <<"entry", k>>}
  <2> SUFFICES ASSUME NEW k \in Kernel
               PROVE  Quiet(<<"bootloader", "file", k>>) = {<<"boot", "dir">>, <<"entry", k>>}
    OBVIOUS
  <2>1. <<"bootloader", "file", k>> \notin HostItem
    BY <1>2
  <2>2. <<"bootloader", "file", k>> \in KernelItem(Kernel) /\ <<"bootloader", "file", k>> \notin ArrayItem(Array)
    BY <1>3 DEF KernelItem
  <2> QED BY <2>1, <2>2 DEF Quiet
<1>9. /\ Quiet(<<"bootloader", "grub">>) = {<<"boot", "grub">>}
      /\ Quiet(<<"bootloader", "boot_code">>) = {<<"boot", "short">>}
      /\ Quiet(<<"bootloader", "esp_files">>) = {<<"boot", "unmounted">>}
      /\ Quiet(<<"bootloader", "esp_device">>) = {<<"boot", "mounts">>}
      /\ Quiet(<<"bootloader", "secure_boot">>) = {<<"boot", "efivars">>}
  <2>1. \A x \in {"grub", "boot_code", "esp_files", "esp_device", "secure_boot"} :
            <<"bootloader", x>> \notin HostItem \cup KernelItem(Kernel) \cup ArrayItem(Array)
    BY <1>2, <1>3
  <2> QED BY <2>1 DEF Quiet
<1>10. Quiet(<<"users", "gshadow">>) = {<<"users", "gshadow">>}
  <2>1. <<"users", "gshadow">> \notin HostItem
    BY <1>2
  <2> QED BY <2>1, <1>3 DEF Quiet
<1>11. \A k \in HostKey : Quiet(<<"ssh", "key", k>>) = {<<"skip", k>>}
  <2> SUFFICES ASSUME NEW k \in HostKey PROVE Quiet(<<"ssh", "key", k>>) = {<<"skip", k>>}
    OBVIOUS
  <2>1. <<"ssh", "key", k>> \notin HostItem
    BY <1>2
  <2> QED BY <2>1, <1>3 DEF Quiet
<1>12. \A i \in LvmItem \cup VgItem(VG) :
          Quiet(i) = {<<"lvm", "dir">>} \cup (IF i \in LvmItem THEN {<<"field", i[2]>>} ELSE {})
  <2> SUFFICES ASSUME NEW i \in LvmItem \cup VgItem(VG)
               PROVE  Quiet(i) = {<<"lvm", "dir">>}
                                   \cup (IF i \in LvmItem THEN {<<"field", i[2]>>} ELSE {})
    OBVIOUS
  <2>1. i[1] = "lvm"
    BY FirstOfItem
  <2>2. i \notin HostItem \cup KernelItem(Kernel) \cup ArrayItem(Array)
    BY <1>2, <1>3, <2>1
  <2> QED BY <2>1, <2>2 DEF Quiet
<1>13. \A l \in LvmList : <<"field", l>> \in Quiet(<<"lvm", l>>)
  BY <1>12 DEF LvmItem
<1>14. /\ Quiet(<<"mdadm", "conf">>) = {<<"md", "mdstat">>, <<"md", "conf">>}
       /\ Quiet(<<"mdadm", "mdstat">>) = {<<"md", "mdstat">>}
  <2>1. <<"mdadm", "conf">> \notin HostItem /\ <<"mdadm", "mdstat">> \notin HostItem
    BY <1>2
  <2>2. /\ <<"mdadm", "conf">> \notin KernelItem(Kernel) \cup ArrayItem(Array)
        /\ <<"mdadm", "mdstat">> \notin KernelItem(Kernel) \cup ArrayItem(Array)
    BY <1>3
  <2>3. Quiet(<<"mdadm", "conf">>) = {<<"md", "mdstat">>, <<"md", "conf">>}
    BY <2>1, <2>2 DEF Quiet
  <2>4. Quiet(<<"mdadm", "mdstat">>) = {<<"md", "mdstat">>}
    BY <2>1, <2>2 DEF Quiet
  <2> QED BY <2>3, <2>4
<1>15. \A a \in Array : Quiet(<<"mdadm", "array", a>>)
                            = {<<"md", "mdstat">>, <<"md", "dev">>, <<"md_node", a>>}
  <2> SUFFICES ASSUME NEW a \in Array
               PROVE  Quiet(<<"mdadm", "array", a>>)
                        = {<<"md", "mdstat">>, <<"md", "dev">>, <<"md_node", a>>}
    OBVIOUS
  <2> DEFINE i == <<"mdadm", "array", a>>
  <2>1. i[1] = "mdadm" /\ i[2] = "array" /\ i[3] = a
    OBVIOUS
  <2>2. i \notin HostItem /\ i \notin KernelItem(Kernel) /\ i \in ArrayItem(Array)
    BY <1>2, <1>3, <2>1 DEF ArrayItem
  <2>4. i # <<"mdadm", "conf">> /\ i # <<"mdadm", "mdstat">>
    BY <2>1
  <2> HIDE DEF i
  <2>3. Quiet(i) = {<<"md", "mdstat">>, <<"md", "dev">>, <<"md_node", a>>}
    BY <2>1, <2>2, <2>4 DEF Quiet
  <2> QED BY <2>3 DEF i
<1>16. \A i \in LvmItem \cup VgItem(VG) : <<"lvm", "dir">> \in Quiet(i)
  BY <1>12
<1>17. /\ \A d \in Disk : \A i \in DiskItem(d) \cup TableItem(d) : <<"node", d>> \in Quiet(i)
       /\ \A d \in Disk : \A i \in DiskItem(d) : <<"sysfs", d>> \in Quiet(i)
       /\ \A d \in Disk : \A i \in TableItem(d) : <<"read", d>> \in Quiet(i)
  BY <1>4
<1> QED BY <1>1, <1>5, <1>6, <1>7, <1>8, <1>9, <1>10, <1>11, <1>13, <1>14, <1>15, <1>16, <1>17, Zenon

(* Which item is stored as which blob. *)
LEMMA BlobOfItem ==
    /\ \A i \in BlobItem : i[1] \in {"bootloader", "ssh", "users"}
    /\ \A i \in BlobItem : i[1] = "bootloader" =>
          i = <<"bootloader", "esp">> \/ \E k \in Kernel : i = <<"bootloader", "file", k>>
    /\ \A i \in BlobItem : i[1] = "users" => i \in ShadowItem
    /\ \A k \in Kernel : Blob(<<"bootloader", "file", k>>) = <<"boot", Bytes[k]>>
    /\ \A k \in HostKey : Blob(<<"ssh", "key", k>>) = <<"ssh">>
    /\ \A i \in ShadowItem : Blob(i) = <<"users">>
    /\ Blob(<<"bootloader", "esp">>) = <<"bootloader", "esp">>
<1>1. \A i \in SshItem(HostKey) : i[1] = "ssh"
  BY FirstOfItem
<1>2. \A i \in ShadowItem : i[1] = "users"
  BY DEF ShadowItem
<1>3. \A i \in KernelItem(Kernel) : i[1] = "bootloader" /\ i[2] = "file" /\ \E k \in Kernel : i = <<"bootloader", "file", k>>
  BY DEF KernelItem
<1>4. /\ \A i \in BlobItem : i[1] \in {"bootloader", "ssh", "users"}
      /\ \A i \in BlobItem : i[1] = "bootloader" =>
          i = <<"bootloader", "esp">> \/ \E k \in Kernel : i = <<"bootloader", "file", k>>
      /\ \A i \in BlobItem : i[1] = "users" => i \in ShadowItem
  BY <1>1, <1>2, <1>3 DEF BlobItem
<1>5. \A k \in Kernel : Blob(<<"bootloader", "file", k>>) = <<"boot", Bytes[k]>>
  <2> SUFFICES ASSUME NEW k \in Kernel PROVE Blob(<<"bootloader", "file", k>>) = <<"boot", Bytes[k]>>
    OBVIOUS
  <2>1. <<"bootloader", "file", k>> \in KernelItem(Kernel)
    BY DEF KernelItem
  <2>2. <<"bootloader", "file", k>> \notin SshItem(HostKey) /\ <<"bootloader", "file", k>> \notin ShadowItem
    BY <1>1, <1>2
  <2> QED BY <2>1, <2>2 DEF Blob
<1>6. \A k \in HostKey : Blob(<<"ssh", "key", k>>) = <<"ssh">>
  <2> SUFFICES ASSUME NEW k \in HostKey PROVE Blob(<<"ssh", "key", k>>) = <<"ssh">>
    OBVIOUS
  <2>1. <<"ssh", "key", k>> \in SshItem(HostKey)
    BY DEF SshItem
  <2>2. <<"ssh", "key", k>> \notin KernelItem(Kernel) /\ <<"ssh", "key", k>> \notin ShadowItem
    BY <1>2, <1>3
  <2> QED BY <2>1, <2>2 DEF Blob
<1>7. \A i \in ShadowItem : Blob(i) = <<"users">>
  <2> SUFFICES ASSUME NEW i \in ShadowItem PROVE Blob(i) = <<"users">>
    OBVIOUS
  <2>1. i \notin KernelItem(Kernel) /\ i \notin SshItem(HostKey)
    BY <1>1, <1>2, <1>3
  <2> QED BY <2>1 DEF Blob
<1>8. Blob(<<"bootloader", "esp">>) = <<"bootloader", "esp">>
  <2>1. <<"bootloader", "esp">> \notin KernelItem(Kernel) /\ <<"bootloader", "esp">> \notin SshItem(HostKey) /\ <<"bootloader", "esp">> \notin ShadowItem
    BY <1>1, <1>2, <1>3
  <2> QED BY <2>1 DEF Blob
<1> QED BY <1>4, <1>5, <1>6, <1>7, <1>8

LEMMA BlobsOf ==
    /\ \A k \in Kernel : <<"boot", Bytes[k]>> \in Blobs
    /\ HostKey # {} => <<"ssh">> \in Blobs
    /\ <<"users">> \in Blobs /\ <<"bootloader", "esp">> \in Blobs /\ <<"fingerprint">> \in Blobs
<1>1. \A i \in BlobItem : Blob(i) \in Blobs
  BY DEF Blobs
<1>2. \A k \in Kernel : <<"bootloader", "file", k>> \in BlobItem
  BY DEF BlobItem, KernelItem
<1>3. \A k \in HostKey : <<"ssh", "key", k>> \in BlobItem
  BY DEF BlobItem, SshItem
<1>4. <<"users", "shadow">> \in BlobItem /\ <<"users", "shadow">> \in ShadowItem /\ <<"bootloader", "esp">> \in BlobItem
  BY DEF BlobItem, ShadowItem
<1>5. <<"fingerprint">> \in Blobs
  BY DEF Blobs
<1> QED BY <1>1, <1>2, <1>3, <1>4, <1>5, BlobOfItem

-----------------------------------------------------------------------------
(* What every step of a collector does: it takes the task u out of todo,   *)
(* collects items I and may warn about the component c.                    *)
Works(u, c, I) ==
    /\ pc = "collect" /\ pc' = "collect" /\ UNCHANGED host
    /\ u \in todo /\ todo \ {u} \subseteq todo'
    /\ got' = got \cup (I \ Unfilled)
    /\ warned \subseteq warned' /\ warned' \subseteq warned \cup {c}
    /\ failed \subseteq failed' /\ Cardinality(failed') <= MaxFaults[opts]

(* What it does to the repository. *)
KeepsBlobs ==
    /\ referenced \subseteq referenced' /\ referenced' \subseteq stored'
    /\ stored' \subseteq Blobs /\ (dry => stored' = {})

(* The task is done: no item it was to bring is left unaccounted for.      *)
Settles(u) == \A i \in Has : u \in Source(i) => Covered(i)' \/ Source(i) \cap todo' # {}

TodoOK == /\ todo \subseteq Units(opts) \cup ({"boot"} \X Kernel) \cup ({"disk"} \X Disk)
          /\ Asked
CanWarn == HostLoud \cup {"disk"} \cup opts

LEMMA CollectorStep ==
    ASSUME CaptureInvariant, NEW u, NEW c \in CanWarn, NEW I \in SUBSET Has,
           Works(u, c, I), KeepsBlobs, Settles(u), TodoOK',
           \A i \in I \cap BlobItem : ~dry => Blob(i) \in referenced'
    PROVE  CaptureInvariant'
<1> USE DEF CaptureInvariant
<1>1. opts \in Opts /\ UNCHANGED <<table, uefi, opts, dry>>
  BY DEF TypeOK, Works, host
<1>2. Has' = Has
  BY <1>1, TheHostStays DEF Works
<1>3. TypeOK'
  <2>1. got' \subseteq Has'
    BY <1>2 DEF TypeOK, Works
  <2>2. warned' \subseteq CanWarn'
    BY <1>1 DEF TypeOK, Works, CanWarn
  <2>3. /\ table' \in [Disk -> {"gpt", "mbr", "none"}] /\ uefi' \in BOOLEAN
        /\ opts' \in Opts /\ dry' \in BOOLEAN
        /\ pc' \in {"host", "collect", "persist", "saved", "error"}
        /\ Cardinality(failed') <= MaxFaults[opts']
    BY <1>1, Zenon DEF TypeOK, Works
  <2>4. stored' \subseteq Blobs /\ referenced' \subseteq Blobs
    BY DEF KeepsBlobs
  <2>5. todo' \subseteq Units(opts') \cup ({"boot"} \X Kernel) \cup ({"disk"} \X Disk)
    BY DEF TodoOK
  <2> QED BY <2>1, <2>2, <2>3, <2>4, <2>5 DEF TypeOK, CanWarn
<1>4. Owed'
  <2>1. ASSUME NEW i \in Has PROVE Covered(i)' \/ Source(i) \cap todo' # {}
    <3>1. Covered(i) \/ Source(i) \cap todo # {}
      BY DEF Owed, Works
    <3>2. CASE u \in Source(i)
      BY <3>2 DEF Settles
    <3>3. CASE Covered(i)
      BY <3>3 DEF Covered, Works
    <3>4. CASE u \notin Source(i) /\ Source(i) \cap todo # {}
      BY <3>4 DEF Works
    <3> QED BY <3>1, <3>2, <3>3, <3>4
  <2> QED BY <1>2, <2>1 DEF Owed, Works
<1>5. Asked'
  BY DEF TodoOK
<1>6. Named'
  <2>1. \A i \in got' \cap BlobItem : ~dry => Blob(i) \in referenced'
    BY DEF Works, KeepsBlobs, Named
  <2> QED BY <1>1, <2>1 DEF Named, Works, KeepsBlobs
<1> QED BY <1>3, <1>4, <1>5, <1>6

(* A task that is simply done leaves no others behind. *)
LEMMA TaskDone ==
    ASSUME CaptureInvariant, NEW u, UNCHANGED host, todo' = todo \ {u}
    PROVE  TodoOK'
BY DEF CaptureInvariant, TodoOK, TypeOK, Asked, host

(* Persist leaves the repository whole, and what it does not fail for is   *)
(* stored and referenced.                                                  *)
LEMMA PersistKeeps ==
    ASSUME Named, stored \subseteq Blobs, NEW B \in SUBSET Blobs, NEW F, Persist(B, F)
    PROVE  /\ KeepsBlobs
           /\ \A b \in B : ~dry /\ ~Fails(b, F) => b \in referenced'
<1> DEFINE put == IF dry THEN {} ELSE {b \in B : <<"put", b>> \notin F}
           ref == {b \in put : <<"ref", b>> \notin F}
<1>1. stored' = stored \cup put /\ referenced' = referenced \cup ref
  BY Zenon DEF Persist
<1>2. put \subseteq B /\ ref \subseteq put /\ (dry => put = {})
  OBVIOUS
<1>3. \A b \in B : ~dry /\ ~Fails(b, F) => b \in ref
  BY DEF Fails, Persisting
<1> HIDE DEF put, ref
<1>4. KeepsBlobs
  BY <1>1, <1>2 DEF KeepsBlobs, Named
<1> QED BY <1>1, <1>3, <1>4

LEMMA NoBlobsKeeps ==
    ASSUME Named, stored \subseteq Blobs, NoBlobs
    PROVE  KeepsBlobs
BY DEF NoBlobs, KeepsBlobs, Named

(* Failing and Warn, as Works needs them. *)
LEMMA FailingGrows ==
    ASSUME NEW P, NEW F, Failing(P, F)
    PROVE  /\ F \subseteq P /\ F \subseteq failed' /\ failed \subseteq failed'
           /\ Cardinality(failed') <= MaxFaults[opts]
<1>1. F \subseteq P /\ failed' = failed \cup F /\ Cardinality(F \cup failed) <= MaxFaults[opts]
  BY DEF Failing
<1>2. failed \cup F = F \cup failed
  OBVIOUS
<1> QED BY <1>1, <1>2

LEMMA WarnGrows ==
    ASSUME NEW c, NEW F, Warn(c, F)
    PROVE  /\ warned \subseteq warned' /\ warned' \subseteq warned \cup {c}
           /\ F # {} => c \in warned'
BY DEF Warn

LEMMA WorksOn ==
    ASSUME NEW u, NEW P, NEW F, NEW c, NEW G, NEW I,
           Unit(u), Failing(P, F), Collect(I), Warn(c, G)
    PROVE  Works(u, c, I)
<1>1. /\ pc = "collect" /\ u \in todo /\ todo' = todo \ {u}
      /\ UNCHANGED host /\ UNCHANGED pc
  BY DEF Unit
<1>2. failed \subseteq failed' /\ Cardinality(failed') <= MaxFaults[opts]
  BY FailingGrows
<1>3. warned \subseteq warned' /\ warned' \subseteq warned \cup {c}
  BY WarnGrows
<1>4. got' = got \cup (I \ Unfilled)
  BY DEF Collect
<1> QED BY <1>1, <1>2, <1>3, <1>4 DEF Works

LEMMA CollectorDone ==
    ASSUME CaptureInvariant, NEW u, NEW P, NEW F, NEW c \in CanWarn, NEW G, NEW I,
           Unit(u), Failing(P, F), Collect(I), Warn(c, G), KeepsBlobs, Settles(u),
           I \subseteq Has, \A i \in I \cap BlobItem : ~dry => Blob(i) \in referenced'
    PROVE  CaptureInvariant'
<1>1. Works(u, c, I)
  BY WorksOn
<1>2. TodoOK'
  BY TaskDone DEF Unit
<1> QED BY <1>1, <1>2, CollectorStep

LEMMA NoBlobsHere ==
    ASSUME CaptureInvariant, NoBlobs
    PROVE  KeepsBlobs
BY NoBlobsKeeps DEF CaptureInvariant, TypeOK

(* Which items a task brings, and who asked for it. *)
LEMMA SourceOf ==
    ASSUME NEW i
    PROVE  /\ \A c \in Optional : <<c>> \in Source(i) => i[1] = c
           /\ <<"disks">> \in Source(i) => i[1] = "disk"
           /\ \A d : <<"disk", d>> \in Source(i) => i[1] = "disk" /\ i[3] = d
           /\ <<"loader">> \in Source(i) => i[1] = "bootloader"
           /\ \A k \in Kernel : <<"boot", k>> \in Source(i) => i = <<"bootloader", "file", k>>
           /\ i[1] = "disk" => <<"disk", i[3]>> \in Source(i)
           /\ \A k \in Kernel : i = <<"bootloader", "file", k>> => <<"boot", k>> \in Source(i)
<1> DEFINE Files == {<<"boot", k>> : k \in {j \in Kernel : i = <<"bootloader", "file", j>>}}
<1>1. CASE i[1] = "disk"
  <2>1. Source(i) = {<<"disks">>, <<"disk", i[3]>>}
    BY <1>1 DEF Source, Optional
  <2>2. \A k : i # <<"bootloader", "file", k>>
    BY <1>1
  <2> QED BY <1>1, <2>1, <2>2 DEF Optional
<1>2. CASE i[1] = "bootloader"
  <2>1. Source(i) = {<<"loader">>} \cup Files
    BY <1>2 DEF Source, Optional
  <2> QED BY <1>2, <2>1 DEF Optional
<1>3. CASE i[1] \in Optional \ {"bootloader"}
  <2>1. Source(i) = {<<i[1]>>}
    BY <1>3 DEF Source, Optional
  <2>2. \A k : i # <<"bootloader", "file", k>>
    BY <1>3
  <2> QED BY <1>3, <2>1, <2>2 DEF Optional
<1>4. CASE i[1] \notin {"disk"} \cup Optional
  <2>1. Source(i) = {}
    BY <1>4 DEF Source, Optional
  <2>2. \A k : i # <<"bootloader", "file", k>>
    BY <1>4 DEF Optional
  <2> QED BY <1>4, <2>1, <2>2
<1> QED BY <1>1, <1>2, <1>3, <1>4 DEF Optional

LEMMA WhoAsked ==
    ASSUME CaptureInvariant
    PROVE  /\ \A c \in Optional : <<c>> \in todo => c \in opts
           /\ <<"loader">> \in todo => "bootloader" \in opts
           /\ \A k \in Kernel : <<"boot", k>> \in todo => "bootloader" \in opts
           /\ opts \in Opts /\ opts \subseteq Optional
<1>1. todo \subseteq Units(opts) \cup ({"boot"} \X Kernel) \cup ({"disk"} \X Disk)
  BY DEF CaptureInvariant, TypeOK
<1>2. opts \in Opts /\ opts \subseteq Optional
  BY CaptureAssumption DEF CaptureInvariant, TypeOK
<1>3. \A c \in Optional : <<c>> \notin {"boot"} \X Kernel /\ <<c>> \notin {"disk"} \X Disk
  OBVIOUS
<1>4. <<"loader">> \notin {"boot"} \X Kernel /\ <<"loader">> \notin {"disk"} \X Disk
  OBVIOUS
<1>5. \A c \in Optional : <<c>> \in Units(opts) => c \in opts
  BY DEF Units, Optional
<1>6. <<"loader">> \in Units(opts) => "bootloader" \in opts
  BY <1>2 DEF Units, Optional
<1> QED BY <1>1, <1>2, <1>3, <1>4, <1>5, <1>6 DEF CaptureInvariant, Asked

-----------------------------------------------------------------------------
(* The collectors that do not touch the repository.                        *)

LEMMA NetworkStep == CaptureInvariant /\ CaptureNetwork => CaptureInvariant'
<1> SUFFICES ASSUME CaptureInvariant, CaptureNetwork PROVE CaptureInvariant'
  OBVIOUS
<1> DEFINE P == {<<"net", i>> : i \in {"dir", "attr", "ip", "json", "file", "size"}}
           Gone(p) == IF p[2] \in {"dir", "attr"} THEN "interfaces"
                      ELSE IF p[2] \in {"ip", "json"} THEN "routes" ELSE "files"
           Lost(F) == {<<"network", Gone(p)>> : p \in F}
<1>1. PICK F \in SUBSET P : /\ Failing(P, F) /\ Collect(NetItem \ Lost(F))
                            /\ Warn("network", F \ ({"net"} \X {"attr", "json", "file"}))
  BY Zenon DEF CaptureNetwork
<1>2. Unit(<<"network">>) /\ NoBlobs
  BY DEF CaptureNetwork
<1>3. "network" \in opts /\ opts \in Opts
  BY <1>2, WhoAsked DEF Unit, Optional
<1>4. NetItem \subseteq Has
  BY <1>3, WhatTheHostHas
<1>7. Settles(<<"network">>)
  <2> SUFFICES ASSUME NEW i \in Has, <<"network">> \in Source(i) PROVE Covered(i)'
    BY DEF Settles
  <2>1. i \in NetItem
    BY <1>3, SourceOf, WhereAnItemBelongs DEF Optional
  <2>2. CASE i \notin Lost(F)
    BY <2>1, <2>2, <1>1 DEF Collect, Covered
  <2>3. CASE i \in Lost(F)
    <3>1. PICK p \in F : i = <<"network", Gone(p)>>
      BY <2>3
    <3>2. CASE p \notin {"net"} \X {"attr", "json", "file"}
      BY <1>1, <3>1, <3>2, WarnGrows DEF Covered
    <3>5. CASE p = <<"net", "attr">>
      BY <1>1, <3>1, <3>5, FailingGrows, QuietProbes DEF Covered
    <3>3. CASE p = <<"net", "json">>
      BY <1>1, <3>1, <3>3, FailingGrows, QuietProbes DEF Covered
    <3>4. CASE p = <<"net", "file">>
      BY <1>1, <3>1, <3>4, FailingGrows, QuietProbes DEF Covered
    <3> QED BY <3>2, <3>3, <3>4, <3>5
  <2> QED BY <2>2, <2>3
<1>8. \A i \in (NetItem \ Lost(F)) \cap BlobItem : ~dry => Blob(i) \in referenced'
  BY FirstOfItem, BlobOfItem
<1>9. "network" \in CanWarn /\ NetItem \ Lost(F) \subseteq Has /\ KeepsBlobs
  BY <1>2, <1>3, <1>4, NoBlobsHere DEF CanWarn
<1> HIDE DEF Lost, P
<1> QED BY <1>1, <1>2, <1>7, <1>8, <1>9, CollectorDone

LEMMA PackagesStep == CaptureInvariant /\ CapturePackages => CaptureInvariant'
<1> SUFFICES ASSUME CaptureInvariant, CapturePackages PROVE CaptureInvariant'
  OBVIOUS
<1> DEFINE P == {<<"pkg", i>> : i \in {"manager", "tool", "line", "repositories", "keyrings"}}
           Gone(p) == CASE p[2] = "manager" -> PackageItem
                        [] p[2] \in {"tool", "line"} -> {<<"packages", "list">>}
                        [] OTHER -> {<<"packages", p[2]>>}
           Lost(F) == UNION {Gone(p) : p \in F}
<1>1. PICK F \in SUBSET P : /\ Failing(P, F) /\ Collect(PackageItem \ Lost(F))
                            /\ Warn("packages", F \cap {<<"pkg", "manager">>, <<"pkg", "tool">>})
  BY Zenon DEF CapturePackages
<1>2. Unit(<<"packages">>) /\ NoBlobs
  BY DEF CapturePackages
<1>3. "packages" \in opts /\ opts \in Opts
  BY <1>2, WhoAsked DEF Unit, Optional
<1>4. PackageItem \subseteq Has
  BY <1>3, WhatTheHostHas
<1>5. Settles(<<"packages">>)
  <2> SUFFICES ASSUME NEW i \in Has, <<"packages">> \in Source(i) PROVE Covered(i)'
    BY DEF Settles
  <2>1. i \in PackageItem /\ i[1] = "packages"
    BY <1>3, SourceOf, WhereAnItemBelongs DEF Optional
  <2>2. CASE i \notin Lost(F)
    BY <2>1, <2>2, <1>1 DEF Collect, Covered
  <2>3. CASE i \in Lost(F)
    <3>1. PICK p \in F : i \in Gone(p)
      BY <2>3
    <3>2. CASE p \in {<<"pkg", "manager">>, <<"pkg", "tool">>}
      BY <1>1, <2>1, <3>2, WarnGrows DEF Covered
    <3>3. CASE p = <<"pkg", "line">>
      BY <1>1, <3>1, <3>3, FailingGrows, QuietProbes DEF Covered
    <3>4. CASE p \in {<<"pkg", "repositories">>, <<"pkg", "keyrings">>}
      BY <1>1, <3>1, <3>4, FailingGrows, QuietProbes DEF Covered
    <3> QED BY <3>2, <3>3, <3>4
  <2> QED BY <2>2, <2>3
<1>6. \A i \in (PackageItem \ Lost(F)) \cap BlobItem : ~dry => Blob(i) \in referenced'
  BY FirstOfItem, BlobOfItem
<1>7. "packages" \in CanWarn /\ PackageItem \ Lost(F) \subseteq Has /\ KeepsBlobs
  BY <1>2, <1>3, <1>4, NoBlobsHere DEF CanWarn
<1> HIDE DEF Lost, P
<1> QED BY <1>1, <1>2, <1>5, <1>6, <1>7, CollectorDone

LEMMA LvmStep == CaptureInvariant /\ CaptureLvm => CaptureInvariant'
<1> SUFFICES ASSUME CaptureInvariant, CaptureLvm PROVE CaptureInvariant'
  OBVIOUS
<1> DEFINE field == {"field"} \X LvmList
           P == {<<"lvm", "dir">>} \cup LvmItem \cup field \cup {<<"vgcfgbackup", g>> : g \in VG}
           groups(F) == IF <<"lvm", "vgs">> \in F THEN {} ELSE VG
           saved(F) == {g \in groups(F) : <<"vgcfgbackup", g>> \notin F}
           Kept(F) == IF <<"lvm", "dir">> \in F \/ LvmItem \subseteq F THEN {}
                      ELSE (LvmItem \ (F \cup {<<"lvm", p[2]>> : p \in F \cap field}))
                             \cup VgItem(saved(F))
<1>1. PICK F \in SUBSET P : /\ Failing(P, F) /\ Collect(Kept(F))
                            /\ Warn("lvm", F \ ({<<"lvm", "dir">>} \cup field))
  BY Zenon DEF CaptureLvm
<1>2. Unit(<<"lvm">>) /\ NoBlobs
  BY DEF CaptureLvm
<1>3. "lvm" \in opts /\ opts \in Opts
  BY <1>2, WhoAsked DEF Unit, Optional
<1>4. Kept(F) \subseteq LvmItem \cup VgItem(VG)
  BY DEF VgItem
<1>5. LvmItem \cup VgItem(VG) \subseteq Has
  BY <1>3, WhatTheHostHas
<1>6. Settles(<<"lvm">>)
  <2> SUFFICES ASSUME NEW i \in Has, <<"lvm">> \in Source(i) PROVE Covered(i)'
    BY DEF Settles
  <2>1. i \in LvmItem \cup VgItem(VG) /\ i[1] = "lvm"
    BY <1>3, SourceOf, WhereAnItemBelongs DEF Optional
  <2>2. CASE <<"lvm", "dir">> \in F
    BY <1>1, <2>1, <2>2, FailingGrows, QuietProbes DEF Covered
  <2>3. CASE \E p \in F : p \notin {<<"lvm", "dir">>} \cup field
    BY <1>1, <2>1, <2>3, WarnGrows DEF Covered
  <2>4. CASE F \subseteq field
    <3>1. CASE i \in Kept(F)
      BY <1>1, <3>1 DEF Collect, Covered
    <3>2. CASE i \notin Kept(F)
      <4>1. /\ <<"lvm", "dir">> \notin F /\ LvmItem \cap F = {} /\ <<"lvm", "vgs">> \in LvmItem
            /\ \A g \in VG : <<"vgcfgbackup", g>> \notin F
        BY <2>4 DEF LvmItem, LvmList
      <4>2. Kept(F) = (LvmItem \ (F \cup {<<"lvm", p[2]>> : p \in F \cap field})) \cup VgItem(VG)
        BY <4>1
      <4>3. PICK p \in F \cap field : i = <<"lvm", p[2]>>
        BY <2>1, <3>2, <4>1, <4>2
      <4>4. p[2] \in LvmList /\ p = <<"field", p[2]>>
        BY <4>3
      <4>5. p \in Quiet(i)
        BY <4>3, <4>4, QuietProbes
      <4>6. p \in failed'
        BY <1>1, <4>3, FailingGrows
      <4> QED BY <4>5, <4>6 DEF Covered
    <3> QED BY <3>1, <3>2
  <2> QED BY <2>2, <2>3, <2>4
<1>7. \A i \in Kept(F) \cap BlobItem : ~dry => Blob(i) \in referenced'
  BY <1>4, FirstOfItem, BlobOfItem
<1> HIDE DEF field
<1>8. "lvm" \in CanWarn /\ Kept(F) \subseteq Has /\ KeepsBlobs
  BY <1>2, <1>3, <1>4, <1>5, NoBlobsHere DEF CanWarn
<1> HIDE DEF Kept, P
<1> QED BY <1>1, <1>2, <1>6, <1>7, <1>8, CollectorDone

LEMMA MdadmStep == CaptureInvariant /\ CaptureMdadm => CaptureInvariant'
<1> SUFFICES ASSUME CaptureInvariant, CaptureMdadm PROVE CaptureInvariant'
  OBVIOUS
<1> DEFINE P == {<<"md", i>> : i \in {"mdstat", "conf", "dev"}}
                  \cup ({"md_node", "mdadm_detail"} \X Array)
           listed(F) == IF <<"md", "dev">> \in F THEN {}
                        ELSE {a \in Array : <<"md_node", a>> \notin F /\ <<"mdadm_detail", a>> \notin F}
           Kept(F) == IF <<"md", "mdstat">> \in F THEN {}
                      ELSE ArrayItem(listed(F)) \cup {<<"mdadm", "mdstat">>}
                             \cup (IF <<"md", "conf">> \in F THEN {} ELSE {<<"mdadm", "conf">>})
<1>1. PICK F \in SUBSET P : /\ Failing(P, F) /\ Collect(Kept(F))
                            /\ Warn("mdadm", F \cap {<<"mdadm_detail", a>> : a \in Array})
  BY Zenon DEF CaptureMdadm
<1>2. Unit(<<"mdadm">>) /\ NoBlobs
  BY DEF CaptureMdadm
<1>3. "mdadm" \in opts /\ opts \in Opts
  BY <1>2, WhoAsked DEF Unit, Optional
<1>4. Kept(F) \subseteq MdItem \cup ArrayItem(Array)
  BY DEF ArrayItem, MdItem
<1>5. MdItem \cup ArrayItem(Array) \subseteq Has
  BY <1>3, WhatTheHostHas
<1>6. Settles(<<"mdadm">>)
  <2> SUFFICES ASSUME NEW i \in Has, <<"mdadm">> \in Source(i) PROVE Covered(i)'
    BY DEF Settles
  <2>1. i \in MdItem \cup ArrayItem(Array) /\ i[1] = "mdadm"
    BY <1>3, SourceOf, WhereAnItemBelongs DEF Optional
  <2>2. CASE <<"md", "mdstat">> \in F
    <3>1. <<"md", "mdstat">> \in Quiet(i)
      BY <2>1, QuietProbes DEF MdItem, ArrayItem
    <3> QED BY <1>1, <2>2, <3>1, FailingGrows DEF Covered
  <2>3. CASE <<"md", "mdstat">> \notin F /\ i \in MdItem
    <3>1. CASE i \in Kept(F)
      BY <1>1, <3>1 DEF Collect, Covered
    <3>2. CASE i \notin Kept(F)
      BY <1>1, <2>3, <3>2, FailingGrows, QuietProbes DEF Covered, MdItem
    <3> QED BY <3>1, <3>2
  <2>4. CASE <<"md", "mdstat">> \notin F /\ i \in ArrayItem(Array)
    <3>1. PICK a \in Array : i = <<"mdadm", "array", a>>
      BY <2>4 DEF ArrayItem
    <3>2. CASE a \in listed(F)
      <4>1. i \in Kept(F)
        BY <2>4, <3>1, <3>2 DEF ArrayItem
      <4> QED BY <1>1, <4>1 DEF Collect, Covered
    <3>3. CASE <<"md", "dev">> \in F
      BY <1>1, <3>1, <3>3, FailingGrows, QuietProbes DEF Covered
    <3>4. CASE <<"mdadm_detail", a>> \in F
      BY <1>1, <2>1, <3>4, WarnGrows DEF Covered
    <3>5. CASE <<"md_node", a>> \in F
      BY <1>1, <3>1, <3>5, FailingGrows, QuietProbes DEF Covered
    <3> QED BY <3>2, <3>3, <3>4, <3>5
  <2> QED BY <2>1, <2>2, <2>3, <2>4
<1>7. \A i \in Kept(F) \cap BlobItem : ~dry => Blob(i) \in referenced'
  BY <1>4, FirstOfItem, BlobOfItem
<1>8. "mdadm" \in CanWarn /\ Kept(F) \subseteq Has /\ KeepsBlobs
  BY <1>2, <1>3, <1>4, <1>5, NoBlobsHere DEF CanWarn
<1> HIDE DEF Kept, P
<1> QED BY <1>1, <1>2, <1>6, <1>7, <1>8, CollectorDone

-----------------------------------------------------------------------------
(* The host, and the disks one by one.                                     *)

LEMMA HostStep == CaptureInvariant /\ CollectHost => CaptureInvariant'
<1> SUFFICES ASSUME CaptureInvariant, CollectHost PROVE CaptureInvariant'
  OBVIOUS
<1> USE DEF CaptureInvariant
<1> DEFINE P == ({"unread"} \X HostLoud) \cup ({"blank"} \X HostPart)
           Lost(F) == {<<p[2]>> : p \in F}
<1>1. PICK F \in SUBSET P :
        /\ Failing(P, F) /\ Collect(HostItem \ Lost(F))
        /\ warned' = warned \cup {p[2] : p \in F \cap ({"unread"} \X HostLoud)}
  BY Zenon DEF CollectHost
<1>2. /\ pc = "host" /\ pc' = "collect" /\ UNCHANGED <<stored, referenced>>
      /\ UNCHANGED todo /\ UNCHANGED host /\ UNCHANGED <<table, uefi, opts, dry>>
  BY DEF CollectHost, NoBlobs, host
<1>3. opts \in Opts
  BY DEF TypeOK
<1>4. Has' = Has /\ HostItem \subseteq Has
  BY <1>2, <1>3, TheHostStays, WhatTheHostHas
<1>5. TypeOK'
  <2>1. got' \subseteq Has'
    BY <1>1, <1>4 DEF TypeOK, Collect
  <2>2. warned' \subseteq CanWarn'
    BY <1>1, <1>2 DEF TypeOK, CanWarn
  <2>3. Cardinality(failed') <= MaxFaults[opts']
    BY <1>1, <1>2, FailingGrows
  <2>4. /\ table' \in [Disk -> {"gpt", "mbr", "none"}] /\ uefi' \in BOOLEAN
        /\ opts' \in Opts /\ dry' \in BOOLEAN
        /\ pc' \in {"host", "collect", "persist", "saved", "error"}
        /\ stored' \subseteq Blobs /\ referenced' \subseteq Blobs
        /\ todo' \subseteq Units(opts') \cup ({"boot"} \X Kernel) \cup ({"disk"} \X Disk)
    BY <1>2 DEF TypeOK
  <2> QED BY <2>1, <2>2, <2>3, <2>4 DEF TypeOK, CanWarn
<1>6. Owed'
  <2>1. ASSUME NEW i \in Has PROVE Covered(i)' \/ Source(i) \cap todo' # {}
    <3>1. CASE i \notin HostItem
      <4>1. Covered(i) \/ Source(i) \cap todo # {}
        BY <3>1 DEF Owed
      <4>2. Covered(i) => Covered(i)'
        BY <1>1, FailingGrows DEF Covered, Collect
      <4> QED BY <1>2, <4>1, <4>2
    <3>2. CASE i \in HostItem \ Lost(F)
      BY <1>1, <3>2 DEF Covered, Collect
    <3>3. CASE i \in HostItem /\ i \in Lost(F)
      <4>1. PICK p \in F : i = <<p[2]>>
        BY <3>3
      <4>2. CASE p \in {"unread"} \X HostLoud
        BY <1>1, <4>1, <4>2 DEF Covered
      <4>3. CASE p \in {"blank"} \X HostPart
        <5>1. p = <<"blank", i[1]>> /\ p \in failed'
          BY <1>1, <4>1, <4>3, FailingGrows
        <5>2. Quiet(i) = {<<"blank", i[1]>>}
          BY <3>3, QuietProbes
        <5> QED BY <5>1, <5>2 DEF Covered
      <4> QED BY <1>1, <4>2, <4>3
    <3> QED BY <3>1, <3>2, <3>3
  <2> QED BY <1>2, <1>4, <2>1 DEF Owed
<1>7. Asked'
  BY <1>2 DEF Asked
<1>8. Named'
  <2>1. \A i \in (HostItem \ Lost(F)) : i \notin BlobItem
    BY FirstOfItem, BlobOfItem DEF HostPart, HostLoud
  <2> QED BY <1>1, <1>2, <2>1 DEF Named, Collect
<1> QED BY <1>5, <1>6, <1>7, <1>8

LEMMA ListDisksStep == CaptureInvariant /\ ListDisks => CaptureInvariant'
<1> SUFFICES ASSUME CaptureInvariant, ListDisks PROVE CaptureInvariant'
  OBVIOUS
<1>1. PICK F \in SUBSET {<<"sys", "block">>} :
        /\ Failing(F, F) /\ Warn("disk", F)
        /\ todo' = (todo \ {<<"disks">>})
                     \cup {<<"disk", d>> : d \in IF F = {} THEN Disk ELSE {}}
  BY DEF ListDisks
<1>2. /\ pc = "collect" /\ <<"disks">> \in todo /\ NoBlobs
      /\ UNCHANGED host /\ UNCHANGED got /\ UNCHANGED pc
  BY DEF ListDisks
<1>3. Works(<<"disks">>, "disk", {})
  <2>1. got' = got \cup ({} \ Unfilled)
    BY <1>2
  <2>2. todo \ {<<"disks">>} \subseteq todo'
    BY <1>1
  <2> QED BY <1>1, <1>2, <2>1, <2>2, FailingGrows, WarnGrows DEF Works
<1>4. Settles(<<"disks">>)
  <2> SUFFICES ASSUME NEW i \in Has, <<"disks">> \in Source(i)
               PROVE  Covered(i)' \/ Source(i) \cap todo' # {}
    BY DEF Settles
  <2>1. i[1] = "disk"
    BY SourceOf
  <2>2. CASE F # {}
    BY <1>1, <2>1, <2>2, WarnGrows DEF Covered
  <2>3. CASE F = {}
    <3>1. i[3] \in Disk
      BY <2>1, WhereAnItemBelongs, FirstOfItem DEF CaptureInvariant, TypeOK
    <3>2. <<"disk", i[3]>> \in todo'
      BY <1>1, <2>3, <3>1
    <3> QED BY <2>1, <3>2, SourceOf
  <2> QED BY <2>2, <2>3
<1>5. TodoOK'
  <2>1. todo' \subseteq todo \cup ({"disk"} \X Disk)
    BY <1>1
  <2>2. \A k \in Kernel : <<"boot", k>> \in todo' => <<"boot", k>> \in todo
    BY <1>1
  <2> QED BY <1>2, <2>1, <2>2 DEF TodoOK, CaptureInvariant, TypeOK, Asked, host
<1> QED BY <1>2, <1>3, <1>4, <1>5, NoBlobsHere, CollectorStep DEF CanWarn

LEMMA DiskStep == ASSUME NEW d \in Disk PROVE CaptureInvariant /\ CaptureDisk(d) => CaptureInvariant'
<1> SUFFICES ASSUME CaptureInvariant, CaptureDisk(d) PROVE CaptureInvariant'
  OBVIOUS
<1> DEFINE Tool == [gpt |-> {"backup", "parse", "row"}, mbr |-> {"sfdisk", "parse", "row"}, none |-> {}]
           P == ({"node", "sysfs", "open", "read"} \cup Tool[table[d]]) \X {d}
           Gone(p) == CASE p = "node" -> DiskItem(d) \cup TableItem(d)
                        [] p = "sysfs" -> DiskItem(d)
                        [] p \in {"open", "read"} -> TableItem(d)
                        [] p = "backup" -> {<<"disk", "raw", d>>}
                        [] p = "sfdisk" -> {<<"disk", "raw", d>>, <<"disk", "parts", d>>}
                        [] OTHER -> {<<"disk", "parts", d>>}
           Kept(F) == (DiskItem(d) \cup TableItem(d)) \ UNION {Gone(p[1]) : p \in F}
           G(F) == F \ ({"node", "sysfs", "read", "row"} \X {d})
<1>1. Unit(<<"disk", d>>) /\ NoBlobs
  BY DEF CaptureDisk
<1>2. PICK F \in SUBSET P : Failing(P, F) /\ Collect(Kept(F)) /\ Warn("disk", G(F))
  BY Zenon DEF CaptureDisk
<1>3. opts \in Opts /\ DiskItem(d) \cup TableItem(d) \subseteq Has
  BY WhatTheHostHas, WhoAsked
<1>4. \A i \in DiskItem(d) \cup TableItem(d) : i[1] = "disk" /\ i \notin BlobItem
  BY FirstOfItem, BlobOfItem
<1>5. \A i \in Has : <<"disk", d>> \in Source(i) => i \in DiskItem(d) \cup TableItem(d)
  <2> SUFFICES ASSUME NEW i \in Has, <<"disk", d>> \in Source(i)
               PROVE  i \in DiskItem(d) \cup TableItem(d)
    OBVIOUS
  <2>1. i[1] = "disk" /\ i[3] = d
    BY SourceOf
  <2>2. PICK e \in Disk : i \in DiskItem(e) \cup TableItem(e)
    BY <1>3, <2>1, WhereAnItemBelongs
  <2>3. e = d
    BY <2>1, <2>2, FirstOfItem
  <2> QED BY <2>2, <2>3
<1>6. "disk" \in CanWarn /\ KeepsBlobs
  BY <1>1, NoBlobsHere DEF CanWarn
<1>7. Kept(F) \subseteq DiskItem(d) \cup TableItem(d)
  OBVIOUS
<1>8. Settles(<<"disk", d>>)
  <2> SUFFICES ASSUME NEW i \in Has, <<"disk", d>> \in Source(i) PROVE Covered(i)'
    BY DEF Settles
  <2>1. i \in DiskItem(d) \cup TableItem(d) /\ i[1] = "disk"
    BY <1>4, <1>5
  <2>2. CASE i \in Kept(F)
    BY <1>2, <2>2 DEF Collect, Covered
  <2>3. CASE i \notin Kept(F)
    <3>1. PICK p \in F : i \in Gone(p[1])
      BY <2>1, <2>3
    <3>2. p = <<p[1], d>>
      BY <1>2
    <3>3. CASE p \in G(F)
      BY <1>2, <2>1, <3>3, WarnGrows DEF Covered
    <3>4. ASSUME p \in Quiet(i) PROVE Covered(i)'
      BY <1>2, <3>1, <3>4, FailingGrows DEF Covered
    <3>5. CASE p[1] = "node"
      BY <2>1, <3>2, <3>4, <3>5, QuietProbes
    <3>6. CASE p[1] = "sysfs"
      BY <3>1, <3>2, <3>4, <3>6, QuietProbes
    <3>7. CASE p[1] = "read"
      BY <3>1, <3>2, <3>4, <3>7, QuietProbes
    <3>8. CASE p[1] = "row"
      BY <3>1, <3>2, <3>4, <3>8, QuietProbes
    <3> QED BY <3>1, <3>2, <3>3, <3>5, <3>6, <3>7, <3>8
  <2> QED BY <2>2, <2>3
<1>9. Kept(F) \subseteq Has /\ \A i \in Kept(F) \cap BlobItem : ~dry => Blob(i) \in referenced'
  BY <1>3, <1>4, <1>7
<1> HIDE DEF P, Kept, G
<1> QED BY <1>1, <1>2, <1>6, <1>8, <1>9, CollectorDone

-----------------------------------------------------------------------------
(* The boot loader and the files of /boot.                                 *)

(* What the two kinds of firmware have in common. *)
LEMMA LoaderDone ==
    ASSUME CaptureInvariant, AfterLoader, NEW P, NEW F, NEW G, NEW I,
           Failing(P, F), Collect(I), Warn("bootloader", G), KeepsBlobs,
           I \subseteq IF uefi THEN UefiItem ELSE BiosItem,
           \A i \in IF uefi THEN UefiItem ELSE BiosItem : Covered(i)',
           \A i \in I \cap BlobItem : ~dry => Blob(i) \in referenced'
    PROVE  CaptureInvariant'
<1>1. /\ pc = "collect" /\ <<"loader">> \in todo /\ UNCHANGED host /\ UNCHANGED pc
      /\ todo' = (todo \ {<<"loader">>})
                   \cup {<<"boot", k>> : k \in IF <<"boot", "dir">> \in failed' THEN {} ELSE Kernel}
  BY DEF AfterLoader
<1>2. "bootloader" \in opts /\ opts \in Opts
  BY <1>1, WhoAsked
<1>3. LoaderItem \subseteq Has
  BY <1>2, WhatTheHostHas
<1>4. Works(<<"loader">>, "bootloader", I)
  BY <1>1, FailingGrows, WarnGrows DEF Works, Collect
<1>5. Settles(<<"loader">>)
  <2> SUFFICES ASSUME NEW i \in Has, <<"loader">> \in Source(i)
               PROVE  Covered(i)' \/ Source(i) \cap todo' # {}
    BY DEF Settles
  <2>1. i \in LoaderItem
    BY <1>2, SourceOf, WhereAnItemBelongs
  <2>2. CASE i \in IF uefi THEN UefiItem ELSE BiosItem
    BY <2>2
  <2>3. ASSUME NEW k \in Kernel, i = <<"bootloader", "file", k>>
        PROVE  Covered(i)' \/ Source(i) \cap todo' # {}
    <3>1. CASE <<"boot", "dir">> \in failed'
      BY <2>3, <3>1, QuietProbes DEF Covered
    <3>2. CASE <<"boot", "dir">> \notin failed'
      <4>1. <<"boot", k>> \in todo'
        BY <1>1, <3>2
      <4> QED BY <2>3, <4>1, SourceOf
    <3> QED BY <3>1, <3>2
  <2> QED BY <2>1, <2>2, <2>3 DEF LoaderItem, KernelItem
<1>6. TodoOK'
  <2>1. todo' \subseteq todo \cup ({"boot"} \X Kernel)
    BY <1>1
  <2> QED BY <1>1, <1>2, <2>1 DEF TodoOK, CaptureInvariant, TypeOK, Asked, host
<1>7. "bootloader" \in CanWarn /\ I \subseteq Has
  BY <1>2, <1>3 DEF CanWarn, LoaderItem
<1> QED BY <1>4, <1>5, <1>6, <1>7, CollectorStep

LEMMA UefiStep == CaptureInvariant /\ CaptureUefi => CaptureInvariant'
<1> SUFFICES ASSUME CaptureInvariant, CaptureUefi PROVE CaptureInvariant'
  OBVIOUS
<1> DEFINE esp == Blob(<<"bootloader", "esp">>)
           P == ({"boot"} \X {"tar", "unmounted", "mounts", "efibootmgr", "efivars", "dir"})
                  \cup PersistProbes(esp)
           Gone(p) == CASE p = <<"boot", "unmounted">> -> {"esp_files"}
                        [] p = <<"boot", "mounts">> -> {"esp_device"}
                        [] p = <<"boot", "efibootmgr">> -> {"entries"}
                        [] p = <<"boot", "efivars">> -> {"secure_boot"}
                        [] p = <<"boot", "dir">> -> {}
                        [] OTHER -> {"esp", "esp_files"}
           Lost(F) == {"bootloader"} \X UNION {Gone(p) : p \in F}
           G(F) == F \ ({"boot"} \X {"unmounted", "mounts", "efivars", "dir"})
           B(F) == IF <<"boot", "tar">> \in F THEN {} ELSE {esp}
<1>1. PICK F \in SUBSET P :
        /\ <<"boot", "tar">> \in F => F \cap Persisting(esp) = {}
        /\ Failing(P, F) /\ Collect(UefiItem \ Lost(F))
        /\ Warn("bootloader", G(F)) /\ Persist(B(F), F)
  BY Zenon DEF CaptureUefi
<1>2. uefi /\ AfterLoader
  BY DEF CaptureUefi
<1>3. esp = <<"bootloader", "esp">> /\ esp \in Blobs
  BY BlobOfItem, BlobsOf
<1>4. KeepsBlobs /\ \A b \in B(F) : ~dry /\ ~Fails(b, F) => b \in referenced'
  <2>1. B(F) \in SUBSET Blobs /\ Persist(B(F), F)
    BY <1>1, <1>3
  <2> HIDE DEF B
  <2> QED BY <2>1, PersistKeeps DEF CaptureInvariant, TypeOK
<1>5. \A i \in UefiItem : Covered(i)'
  <2> SUFFICES ASSUME NEW i \in UefiItem PROVE Covered(i)'
    OBVIOUS
  <2>1. i[1] = "bootloader"
    BY FirstOfItem
  <2>2. CASE i \notin Lost(F)
    BY <1>1, <2>2 DEF Collect, Covered
  <2>3. CASE i \in Lost(F)
    <3>1. PICK p \in F : i[2] \in Gone(p) /\ i = <<"bootloader", i[2]>>
      BY <2>3
    <3>2. CASE p \in G(F)
      <4>1. "bootloader" \in warned'
        BY <1>1, <3>2, WarnGrows
      <4> QED BY <2>1, <4>1 DEF Covered
    <3>3. CASE p = <<"boot", "unmounted">>
      BY <1>1, <3>1, <3>3, FailingGrows, QuietProbes DEF Covered
    <3>4. CASE p = <<"boot", "mounts">>
      BY <1>1, <3>1, <3>4, FailingGrows, QuietProbes DEF Covered
    <3>5. CASE p = <<"boot", "efivars">>
      BY <1>1, <3>1, <3>5, FailingGrows, QuietProbes DEF Covered
    <3>6. CASE p = <<"boot", "dir">>
      BY <3>1, <3>6
    <3> QED BY <3>2, <3>3, <3>4, <3>5, <3>6
  <2> QED BY <2>2, <2>3
<1>6. \A i \in (UefiItem \ Lost(F)) \cap BlobItem : ~dry => Blob(i) \in referenced'
  <2> SUFFICES ASSUME NEW i \in UefiItem, i \notin Lost(F), i \in BlobItem, ~dry
               PROVE  Blob(i) \in referenced'
    OBVIOUS
  <2>1. \A k \in Kernel : i # <<"bootloader", "file", k>>
    BY DEF UefiItem
  <2>2. i = <<"bootloader", "esp">>
    BY <2>1, BlobOfItem, FirstOfItem
  <2>3. <<"boot", "tar">> \notin F /\ F \cap Persisting(esp) = {}
    <3> SUFFICES ASSUME NEW p \in F, p = <<"boot", "tar">> \/ p \in Persisting(esp) PROVE FALSE
      OBVIOUS
    <3>1. p \notin {"boot"} \X {"unmounted", "mounts", "efibootmgr", "efivars", "dir"}
      BY DEF Persisting
    <3>2. "esp" \in Gone(p)
      BY <3>1
    <3>3. <<"bootloader", "esp">> \in Lost(F)
      BY <3>2
    <3> QED BY <2>2, <3>3
  <2>4. esp \in B(F) /\ ~Fails(esp, F)
    BY <2>3 DEF Fails
  <2> QED BY <1>4, <2>2, <2>4
<1>7. UefiItem \ Lost(F) \subseteq UefiItem
  OBVIOUS
<1> HIDE DEF P, Lost, G
<1> QED BY <1>1, <1>2, <1>4, <1>5, <1>6, <1>7, LoaderDone

LEMMA BiosStep == CaptureInvariant /\ CaptureBios => CaptureInvariant'
<1> SUFFICES ASSUME CaptureInvariant, CaptureBios PROVE CaptureInvariant'
  OBVIOUS
<1> DEFINE P == {<<"boot", i>> : i \in {"root", "mbr", "short", "grub", "dir"}}
           Gone(p) == CASE p[2] = "root" -> BiosItem
                        [] p[2] \in {"mbr", "short"} -> BiosItem \ Grub
                        [] p[2] = "grub" -> Grub
                        [] OTHER -> {}
           Lost(F) == UNION {Gone(p) : p \in F}
           G(F) == F \cap {<<"boot", "root">>, <<"boot", "mbr">>}
<1>1. PICK F \in SUBSET P : /\ Failing(P, F) /\ Collect(BiosItem \ Lost(F))
                            /\ Warn("bootloader", G(F))
  BY Zenon DEF CaptureBios
<1>2. ~uefi /\ AfterLoader /\ NoBlobs
  BY DEF CaptureBios
<1>3. \A i \in BiosItem : Covered(i)'
  <2> SUFFICES ASSUME NEW i \in BiosItem PROVE Covered(i)'
    OBVIOUS
  <2>1. i[1] = "bootloader"
    BY FirstOfItem
  <2>2. CASE i \notin Lost(F)
    BY <1>1, <2>2 DEF Collect, Covered
  <2>3. CASE i \in Lost(F)
    <3>1. PICK p \in F : i \in Gone(p)
      BY <2>3
    <3>2. CASE p \in {<<"boot", "root">>, <<"boot", "mbr">>}
      <4>1. "bootloader" \in warned'
        BY <1>1, <3>2, WarnGrows
      <4> QED BY <2>1, <4>1 DEF Covered
    <3>3. CASE p = <<"boot", "grub">>
      BY <1>1, <3>1, <3>3, FailingGrows, QuietProbes DEF Covered, Grub
    <3>4. CASE p = <<"boot", "dir">>
      BY <3>1, <3>4
    <3>5. CASE p = <<"boot", "short">>
      <4>1. i = <<"bootloader", "boot_code">>
        BY <3>1, <3>5 DEF BiosItem
      <4> QED BY <1>1, <3>5, <4>1, FailingGrows, QuietProbes DEF Covered
    <3> QED BY <3>2, <3>3, <3>4, <3>5
  <2> QED BY <2>2, <2>3
<1>4. \A i \in (BiosItem \ Lost(F)) \cap BlobItem : ~dry => Blob(i) \in referenced'
  <2>1. \A i \in BiosItem : i # <<"bootloader", "esp">> /\ \A k : i # <<"bootloader", "file", k>>
    BY DEF BiosItem, Grub
  <2> QED BY <2>1, BlobOfItem, FirstOfItem
<1>5. BiosItem \ Lost(F) \subseteq BiosItem /\ KeepsBlobs
  BY <1>2, NoBlobsHere
<1> HIDE DEF P, Lost, G
<1> QED BY <1>1, <1>2, <1>3, <1>4, <1>5, LoaderDone

LEMMA KernelFileStep ==
    ASSUME NEW k \in Kernel
    PROVE  CaptureInvariant /\ CaptureKernelFile(k) => CaptureInvariant'
<1> SUFFICES ASSUME CaptureInvariant, CaptureKernelFile(k) PROVE CaptureInvariant'
  OBVIOUS
<1> DEFINE b == <<"boot", Bytes[k]>>
           unread == {"entry", "kernel"} \X {k}
           P == unread \cup PersistProbes(b)
           I(F) == IF F = {} THEN KernelItem({k}) ELSE {}
           B(F) == IF F \cap unread # {} THEN {} ELSE {b}
<1>1. PICK F \in SUBSET P : /\ \A p \in F \cap unread : F = {p}
                            /\ Failing(P, F) /\ Collect(I(F))
                            /\ Warn("bootloader", F \ {<<"entry", k>>})
                            /\ Persist(B(F), F)
  BY Zenon DEF CaptureKernelFile
<1>2. Unit(<<"boot", k>>)
  BY DEF CaptureKernelFile
<1>3. "bootloader" \in opts /\ opts \in Opts
  BY <1>2, WhoAsked DEF Unit
<1>4. KeepsBlobs /\ \A x \in B(F) : ~dry /\ ~Fails(x, F) => x \in referenced'
  <2>1. B(F) \in SUBSET Blobs /\ Persist(B(F), F)
    BY <1>1, BlobsOf
  <2> HIDE DEF B
  <2> QED BY <2>1, PersistKeeps DEF CaptureInvariant, TypeOK
<1>5. KernelItem({k}) = {<<"bootloader", "file", k>>}
  BY DEF KernelItem
<1>6. Settles(<<"boot", k>>)
  <2> SUFFICES ASSUME NEW i \in Has, <<"boot", k>> \in Source(i) PROVE Covered(i)'
    BY DEF Settles
  <2>1. i = <<"bootloader", "file", k>>
    BY SourceOf
  <2>2. CASE F = {}
    BY <1>1, <1>5, <2>1, <2>2 DEF Collect, Covered
  <2>3. CASE F \ {<<"entry", k>>} # {}
    BY <1>1, <2>1, <2>3, WarnGrows DEF Covered
  <2>4. CASE <<"entry", k>> \in F
    BY <1>1, <2>1, <2>4, FailingGrows, QuietProbes DEF Covered
  <2> QED BY <2>2, <2>3, <2>4
<1>7. I(F) \subseteq Has
  <2>1. <<"bootloader", "file", k>> \in LoaderItem
    BY DEF LoaderItem, KernelItem
  <2> QED BY <1>3, <1>5, <2>1, WhatTheHostHas
<1>8. \A i \in I(F) \cap BlobItem : ~dry => Blob(i) \in referenced'
  BY <1>4, <1>5, BlobOfItem DEF Fails
<1>9. "bootloader" \in CanWarn
  BY <1>3 DEF CanWarn
<1> HIDE DEF P, I
<1> QED BY <1>1, <1>2, <1>4, <1>6, <1>7, <1>8, <1>9, CollectorDone

-----------------------------------------------------------------------------
(* The secrets: each kind of them is one blob for several items.           *)

LEMMA UsersStep == CaptureInvariant /\ CaptureUsers => CaptureInvariant'
<1> SUFFICES ASSUME CaptureInvariant, CaptureUsers PROVE CaptureInvariant'
  OBVIOUS
<1> DEFINE b == <<"users">>
           P == UserItem \cup PersistProbes(b)
           unread == <<"users", "shadow">>
           Lost(F) == F \cup IF unread \in F \/ Fails(b, F) THEN ShadowItem ELSE {}
           G(F) == F \ {<<"users", "gshadow">>}
           B(F) == IF unread \in F THEN {} ELSE {b}
<1>1. PICK F \in SUBSET P : /\ Failing(P, F) /\ Collect(UserItem \ Lost(F))
                            /\ Warn("users", G(F)) /\ Persist(B(F), F)
  BY Zenon DEF CaptureUsers
<1>2. Unit(<<"users">>)
  BY DEF CaptureUsers
<1>3. "users" \in opts /\ opts \in Opts
  BY <1>2, WhoAsked DEF Unit, Optional
<1>4. KeepsBlobs /\ \A x \in B(F) : ~dry /\ ~Fails(x, F) => x \in referenced'
  <2>1. B(F) \in SUBSET Blobs /\ Persist(B(F), F)
    BY <1>1, BlobsOf
  <2> HIDE DEF B
  <2> QED BY <2>1, PersistKeeps DEF CaptureInvariant, TypeOK
<1>5. Settles(<<"users">>)
  <2> SUFFICES ASSUME NEW i \in Has, <<"users">> \in Source(i) PROVE Covered(i)'
    BY DEF Settles
  <2>1. i \in UserItem /\ i[1] = "users"
    BY <1>3, SourceOf, WhereAnItemBelongs DEF Optional
  <2>2. CASE i \notin Lost(F)
    BY <1>1, <2>1, <2>2 DEF Collect, Covered
  <2>3. ASSUME NEW p \in G(F) PROVE Covered(i)'
    <3>1. "users" \in warned'
      BY <1>1, <2>3, WarnGrows
    <3> QED BY <2>1, <3>1 DEF Covered
  <2>4. CASE i \in F
    <3>1. CASE i = <<"users", "gshadow">>
      BY <1>1, <2>4, <3>1, FailingGrows, QuietProbes DEF Covered
    <3> QED BY <2>3, <2>4, <3>1
  <2>5. CASE unread \in F
    BY <2>3, <2>5
  <2>6. CASE Fails(b, F)
    <3>1. PICK p \in F : p \in {<<"put", b>>, <<"ref", b>>}
      BY <2>6 DEF Fails, Persisting
    <3>2. p # <<"users", "gshadow">>
      BY <3>1
    <3> QED BY <2>3, <3>1, <3>2
  <2> QED BY <2>2, <2>4, <2>5, <2>6
<1>6. UserItem \ Lost(F) \subseteq Has
  BY <1>3, WhatTheHostHas
<1>7. \A i \in (UserItem \ Lost(F)) \cap BlobItem : ~dry => Blob(i) \in referenced'
  <2> SUFFICES ASSUME NEW i \in UserItem, i \notin Lost(F), i \in BlobItem, ~dry
               PROVE  Blob(i) \in referenced'
    OBVIOUS
  <2>1. i \in ShadowItem
    BY BlobOfItem, FirstOfItem
  <2>2. unread \notin F /\ ~Fails(b, F)
    BY <2>1
  <2> QED BY <1>4, <2>1, <2>2, BlobOfItem
<1>8. "users" \in CanWarn
  BY <1>3 DEF CanWarn
<1> HIDE DEF P, Lost, G
<1> QED BY <1>1, <1>2, <1>4, <1>5, <1>6, <1>7, <1>8, CollectorDone

LEMMA SshKeysStep == CaptureInvariant /\ CaptureSshKeys => CaptureInvariant'
<1> SUFFICES ASSUME CaptureInvariant, CaptureSshKeys PROVE CaptureInvariant'
  OBVIOUS
<1> DEFINE b == <<"ssh">>
           P == {<<"ssh", "dir">>} \cup ({"skip", "key"} \X HostKey)
                  \cup PersistProbes(b)
           read(F) == IF <<"ssh", "dir">> \in F THEN {}
                      ELSE {k \in HostKey : <<"skip", k>> \notin F /\ <<"key", k>> \notin F}
           I(F) == IF Fails(b, F) THEN {} ELSE SshItem(read(F))
           G(F) == F \ {<<"skip", k>> : k \in HostKey}
           B(F) == IF read(F) = {} THEN {} ELSE {b}
<1>1. PICK F \in SUBSET P : /\ read(F) = {} => F \cap Persisting(b) = {}
                            /\ Failing(P, F) /\ Collect(I(F)) /\ Warn("ssh", G(F))
                            /\ Persist(B(F), F)
  BY Zenon DEF CaptureSshKeys
<1>2. Unit(<<"ssh">>)
  BY DEF CaptureSshKeys
<1>3. "ssh" \in opts /\ opts \in Opts
  BY <1>2, WhoAsked DEF Unit, Optional
<1>4. KeepsBlobs /\ \A x \in B(F) : ~dry /\ ~Fails(x, F) => x \in referenced'
  <2>1. B(F) \in SUBSET Blobs /\ Persist(B(F), F)
    BY <1>1, BlobsOf
  <2> HIDE DEF B
  <2> QED BY <2>1, PersistKeeps DEF CaptureInvariant, TypeOK
<1>5. Settles(<<"ssh">>)
  <2> SUFFICES ASSUME NEW i \in Has, <<"ssh">> \in Source(i) PROVE Covered(i)'
    BY DEF Settles
  <2>1. i \in SshItem(HostKey) /\ i[1] = "ssh"
    <3> HIDE DEF read, I, P, G, B
    <3> QED BY <1>3, SourceOf, WhereAnItemBelongs DEF Optional
  <2>2. PICK k \in HostKey : i = <<"ssh", "key", k>>
    BY <2>1 DEF SshItem
  <2>3. ASSUME NEW p \in G(F) PROVE Covered(i)'
    <3>1. "ssh" \in warned'
      BY <1>1, <2>3, WarnGrows
    <3> QED BY <2>1, <3>1 DEF Covered
  <2>4. CASE <<"skip", k>> \in F
    BY <1>1, <2>2, <2>4, FailingGrows, QuietProbes DEF Covered
  <2>5. CASE <<"ssh", "dir">> \in F /\ <<"skip", k>> \notin F
    <3>1. \A j \in HostKey : <<"ssh", "dir">> # <<"skip", j>>
      OBVIOUS
    <3> QED BY <2>3, <2>5, <3>1
  <2>6. CASE <<"key", k>> \in F
    <3>1. \A j \in HostKey : <<"key", k>> # <<"skip", j>>
      OBVIOUS
    <3> QED BY <2>3, <2>6, <3>1
  <2>7. CASE Fails(b, F)
    <3>1. PICK p \in F : p \in {<<"put", b>>, <<"ref", b>>}
      BY <2>7 DEF Fails, Persisting
    <3>2. \A j \in HostKey : p # <<"skip", j>>
      BY <3>1
    <3> QED BY <2>3, <3>1, <3>2
  <2>8. CASE k \in read(F) /\ ~Fails(b, F)
    <3>1. i \in I(F)
      BY <2>2, <2>8 DEF SshItem
    <3> QED BY <1>1, <3>1 DEF Collect, Covered
  <2> QED BY <2>4, <2>5, <2>6, <2>7, <2>8
<1>6. I(F) \subseteq SshItem(HostKey)
  <2>1. read(F) \subseteq HostKey
    OBVIOUS
  <2> HIDE DEF read
  <2> QED BY <2>1 DEF SshItem
<1>7. I(F) \subseteq Has
  BY <1>3, <1>6, WhatTheHostHas
<1>8. \A i \in I(F) \cap BlobItem : ~dry => Blob(i) \in referenced'
  <2> SUFFICES ASSUME NEW i \in I(F), ~dry PROVE Blob(i) \in referenced'
    OBVIOUS
  <2>1. ~Fails(b, F) /\ i \in SshItem(read(F))
    OBVIOUS
  <2>2. PICK k \in read(F) : i = <<"ssh", "key", k>>
    BY <2>1 DEF SshItem
  <2>3. b \in B(F) /\ k \in HostKey
    BY <2>2
  <2> QED BY <1>4, <2>1, <2>2, <2>3, BlobOfItem
<1>9. "ssh" \in CanWarn
  BY <1>3 DEF CanWarn
<1> HIDE DEF P, I, G
<1> QED BY <1>1, <1>2, <1>4, <1>5, <1>7, <1>8, <1>9, CollectorDone

-----------------------------------------------------------------------------
(* The end of the capture, and the invariant of the whole.                 *)

(* What the last steps have in common: the fingerprint is complete.        *)
LEMMA EndStep ==
    ASSUME CaptureInvariant, UNCHANGED host, UNCHANGED <<todo, got, warned>>,
           pc # "host", todo = {}, pc' \in {"persist", "saved", "error"},
           failed \subseteq failed', Cardinality(failed') <= MaxFaults[opts], KeepsBlobs,
           pc' = "saved" /\ ~dry => <<"fingerprint">> \in referenced'
    PROVE  CaptureInvariant'
<1> USE DEF CaptureInvariant
<1>1. UNCHANGED <<table, uefi, opts, dry>> /\ Has' = Has
  BY TheHostStays DEF host, TypeOK
<1>2. TypeOK'
  BY <1>1 DEF TypeOK, KeepsBlobs
<1>3. Owed'
  <2>1. \A i \in Has : Covered(i)
    BY DEF Owed
  <2>2. \A i \in Has : Covered(i)'
    BY <2>1 DEF Covered
  <2> QED BY <1>1, <2>2 DEF Owed
<1>4. Asked' /\ Named'
  BY <1>1 DEF Asked, Named, KeepsBlobs
<1> QED BY <1>2, <1>3, <1>4

LEMMA CaptureInit == Init => CaptureInvariant
<1> SUFFICES ASSUME Init PROVE CaptureInvariant
  OBVIOUS
<1> USE DEF Init
<1>1. opts \in Opts /\ opts \subseteq Optional
  BY CaptureAssumption
<1>2. TypeOK
  <2>1. Cardinality(failed) <= MaxFaults[opts]
    BY <1>1, FS_EmptySet, CaptureAssumption
  <2> QED BY <2>1 DEF TypeOK
<1>3. Owed
  <2> SUFFICES ASSUME NEW i \in Has, i \notin HostItem PROVE Source(i) \cap todo # {}
    BY DEF Owed
  <2>1. i[1] \in {"disk"} \cup opts
    BY <1>1, WhereAnItemBelongs
  <2>2. CASE i[1] = "disk"
    BY <2>2 DEF Source, Units, Optional
  <2>3. CASE i[1] = "bootloader"
    BY <2>1, <2>3 DEF Source, Units, Optional
  <2>4. CASE i[1] \in opts \ {"bootloader"}
    <3>1. Source(i) = {<<i[1]>>}
      BY <1>1, <2>4 DEF Source, Optional
    <3>2. <<i[1]>> \in Units(opts)
      BY <2>4 DEF Units
    <3> QED BY <3>1, <3>2
  <2> QED BY <2>1, <2>2, <2>3, <2>4
<1>4. Asked
  BY DEF Asked, Units
<1>5. Named
  BY DEF Named
<1> QED BY <1>2, <1>3, <1>4, <1>5 DEF CaptureInvariant

LEMMA CaptureStep == CaptureInvariant /\ [Next]_vars => CaptureInvariant'
<1> SUFFICES ASSUME CaptureInvariant, [Next]_vars PROVE CaptureInvariant'
  OBVIOUS
<1> USE DEF CaptureInvariant
<1>1. CASE Join
  <2>1. /\ pc = "collect" /\ todo = {} /\ pc' = IF dry THEN "saved" ELSE "persist"
        /\ UNCHANGED host /\ UNCHANGED <<todo, got, warned>> /\ UNCHANGED <<stored, referenced, failed>>
    BY <1>1 DEF Join
  <2>2. KeepsBlobs /\ Cardinality(failed') <= MaxFaults[opts]
    BY <2>1 DEF KeepsBlobs, Named, TypeOK
  <2> QED BY <2>1, <2>2, EndStep
<1>2. CASE PersistFingerprint
  <2> DEFINE b == <<"fingerprint">>
  <2>1. PICK F \in SUBSET Persisting(b) :
          /\ Failing(Persisting(b), F) /\ Persist({b}, F)
          /\ pc' = IF F = {} THEN "saved" ELSE "error"
    BY <1>2 DEF PersistFingerprint
  <2>2. pc = "persist" /\ UNCHANGED host /\ UNCHANGED <<todo, got, warned>>
    BY <1>2 DEF PersistFingerprint
  <2>3. {b} \in SUBSET Blobs
    BY BlobsOf
  <2>4. KeepsBlobs /\ (~dry /\ ~Fails(b, F) => b \in referenced')
    BY <2>1, <2>3, PersistKeeps DEF TypeOK
  <2>5. pc' = "saved" /\ ~dry => b \in referenced'
    BY <2>1, <2>4 DEF Fails
  <2>6. failed \subseteq failed' /\ Cardinality(failed') <= MaxFaults[opts]
    BY <2>1, FailingGrows
  <2>7. todo = {}
    BY <2>2 DEF Owed
  <2> QED BY <2>1, <2>2, <2>4, <2>5, <2>6, <2>7, EndStep
<1>3. CASE UNCHANGED vars
  <2>1. /\ UNCHANGED host /\ UNCHANGED <<todo, got, warned, stored, referenced, failed, pc>>
        /\ UNCHANGED <<table, uefi, opts, dry>>
    BY <1>3 DEF vars, host
  <2>2. Has' = Has
    BY <2>1, TheHostStays DEF TypeOK
  <2> QED BY <2>1, <2>2 DEF TypeOK, Owed, Covered, Asked, Named
<1> QED BY <1>1, <1>2, <1>3, HostStep, ListDisksStep, NetworkStep, PackagesStep, DiskStep, UefiStep,
           BiosStep, KernelFileStep, UsersStep, SshKeysStep, LvmStep, MdadmStep DEF Next

LEMMA CaptureIsInvariant == Spec => []CaptureInvariant
BY CaptureInit, CaptureStep, PTL DEF Spec

(* The fingerprint holds nothing the host does not have or the caller did  *)
(* not ask for, and no more probes fail than the run allows.               *)
THEOREM TypeCorrect == Spec => []TypeOK
<1>1. CaptureInvariant => TypeOK
  BY DEF CaptureInvariant
<1> QED BY <1>1, CaptureIsInvariant, PTL

(* However the collectors interleave and however many probes fail, every   *)
(* item of the host that a saved fingerprint lacks has a warning of its    *)
(* component, or one of its quiet probes failed.                           *)
THEOREM EverythingIsAccountedFor == Spec => []Accounted
<1>1. CaptureInvariant => Accounted
  <2> SUFFICES ASSUME CaptureInvariant, pc = "saved", NEW i \in Has \ got
               PROVE  i[1] \in warned \/ Quiet(i) \cap failed # {} \/ i \in Unfilled
    BY DEF Accounted
  <2> QED BY DEF CaptureInvariant, Owed, Covered
<1> QED BY <1>1, CaptureIsInvariant, PTL

(* What a saved fingerprint names is stored and referenced, whatever the   *)
(* collectors share and wherever persisting failed; a dry run stores       *)
(* nothing.                                                                *)
THEOREM WhatIsNamedIsHeld == Spec => []NamesHeldBlobs
<1>1. CaptureInvariant => NamesHeldBlobs
  BY DEF CaptureInvariant, Named, NamesHeldBlobs
<1> QED BY <1>1, CaptureIsInvariant, PTL

=============================================================================
