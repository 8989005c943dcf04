---------------------------- MODULE MountProofs ----------------------------
(***************************************************************************)
(* Theorems about Mount, for every set of images and every table size.     *)
(* The inductive invariant is the conjunction of the three invariants of   *)
(* Mount: the action properties need MountedIsValid (a disk is open while  *)
(* a file system is mounted, so that a second fs_mount is refused).        *)
(***************************************************************************)
EXTENDS Mount, TLAPS

Inv == TypeOK /\ MountedIsValid /\ DescriptorsAreHanded

(* Nothing is mounted when the process starts.                             *)
LEMMA Starts == Init => Inv
<1>1. 0 \in Fds
  BY CountAssumption DEF Fds
<1> QED
  BY <1>1 DEF Init, Inv, TypeOK, MountedIsValid, DescriptorsAreHanded, Fds

(* What fs_mount checks of a superblock is what makes an image valid.      *)
LEMMA ChecksMeanValid ==
  ASSUME NEW image \in Images,
         image.opens, block_read_superblock(image), GoodLayout(image),
         GoodCounts(image), image.eoc
  PROVE  Valid(image) /\ image # NoDisk
<1>1. image \in ImageType /\ image # NoDisk
  BY ImagesAssumption
<1>2. image.fat_size \in 1..4
  BY <1>1 DEF ImageType
<1>3. image.data_size \in 0..8192
  BY <1>1 DEF ImageType
<1>4. image.root_index \in Nat /\ image.data_index \in Nat /\ image.total_blocks \in Nat
  BY <1>1 DEF ImageType
<1> QED
  BY <1>1, <1>2, <1>3, <1>4 DEF Valid, GoodLayout, GoodCounts, block_read_superblock

(* The image that a call reports is one of the images or none.             *)
LEMMA ReturnsTyped ==
  ASSUME NEW image \in Images \union {NoDisk}, NEW ret \in Fds \union {-1},
         NEW name \in {"none", "fs_mount", "fs_umount", "fs_open", "fs_close", "other"},
         Returns(name, image, ret)
  PROVE  last' \in [call : {"none", "fs_mount", "fs_umount", "fs_open", "fs_close", "other"},
                    image : Images \union {NoDisk}, mounted : BOOLEAN,
                    ret : Fds \union {-1}]
<1>1. (fs = "mounted") \in BOOLEAN
  OBVIOUS
<1> QED
  BY <1>1 DEF Returns

(* Every step of the library keeps the invariant.                          *)
LEMMA Keeps == Inv /\ [Next]_vars => Inv'
<1> SUFFICES ASSUME Inv, [Next]_vars PROVE Inv'
  OBVIOUS
<1> USE DEF Inv
<1>0. 0 \in Fds /\ -1 \in Fds \union {-1}
  BY CountAssumption DEF Fds
<1>1. ASSUME NEW how \in {"exited", "aborted"}, Dies(how) PROVE Inv'
  BY <1>1 DEF Dies, TypeOK, MountedIsValid, DescriptorsAreHanded
<1>2. ASSUME NEW image \in Images, NEW memory \in {"unread", "freed"},
             MountFails(image, memory)
      PROVE  Inv'
  <2>1. TypeOK'
    BY <1>0, <1>2, ReturnsTyped DEF MountFails, TypeOK
  <2> QED
    BY <2>1, <1>2 DEF MountFails, MountedIsValid, DescriptorsAreHanded
<1>3. ASSUME NEW image \in Images, fs_mount(image) PROVE Inv'
  <2>1. CASE ~block_disk_open(image)
    <3>1. Returns("fs_mount", image, -1) /\ UNCHANGED <<fs, disk, open, process, handed>>
      BY <2>1, <1>3 DEF fs_mount
    <3>2. TypeOK'
      BY <3>1, <1>0, ReturnsTyped DEF TypeOK
    <3> QED
      BY <3>1, <3>2 DEF MountedIsValid, DescriptorsAreHanded
  <2>2. CASE MountFails(image, "unread") \/ MountFails(image, "freed")
    BY <2>2, <1>2
  <2>3. CASE Dies("aborted")
    BY <2>3, <1>1
  <2>4. CASE /\ block_disk_open(image) /\ block_read_superblock(image)
             /\ GoodLayout(image) /\ GoodCounts(image) /\ image.eoc
             /\ MountSucceeds(image)
    <3>1. TypeOK'
      BY <2>4, <1>0, ReturnsTyped DEF MountSucceeds, TypeOK
    <3>2. Valid(image) /\ image # NoDisk
      BY <2>4, ChecksMeanValid DEF block_disk_open
    <3> QED
      BY <2>4, <3>1, <3>2
      DEF MountSucceeds, MountedIsValid, DescriptorsAreHanded, Valid, block_read_superblock
  <2> QED
    BY <1>3, <2>1, <2>2, <2>3, <2>4 DEF fs_mount
<1>4. ASSUME NEW image \in Images, fs_mount_io_error(image) PROVE Inv'
  BY <1>4, <1>1, <1>2 DEF fs_mount_io_error
<1>5. ASSUME fs_umount PROVE Inv'
  <2>1. CASE Returns("fs_umount", disk, -1) /\ UNCHANGED <<fs, disk, open, process, handed>>
    <3>1. TypeOK'
      BY <2>1, <1>0, ReturnsTyped DEF TypeOK
    <3> QED
      BY <2>1, <3>1 DEF MountedIsValid, DescriptorsAreHanded
  <2>2. CASE /\ fs' = "freed" /\ disk' = NoDisk /\ Returns("fs_umount", disk, 0)
             /\ UNCHANGED <<open, process, handed>>
    <3>1. TypeOK'
      BY <2>2, <1>0, ReturnsTyped DEF TypeOK
    <3> QED
      BY <2>2, <3>1 DEF MountedIsValid, DescriptorsAreHanded
  <2> QED
    BY <1>5, <2>1, <2>2, <1>1 DEF fs_umount
<1>6. ASSUME fs_open PROVE Inv'
  <2>1. CASE Returns("fs_open", disk, -1) /\ UNCHANGED <<fs, disk, open, process, handed>>
    <3>1. TypeOK'
      BY <2>1, <1>0, ReturnsTyped DEF TypeOK
    <3> QED
      BY <2>1, <3>1 DEF MountedIsValid, DescriptorsAreHanded
  <2>2. CASE \E fd \in -1..FS_OPEN_MAX_COUNT :
               /\ fs # "null"
               /\ open_table_find_empty_entry(fd) /\ fd # -1
               /\ open' = open \union {fd}
               /\ handed' = IF fs = "mounted" THEN handed \union {fd} ELSE handed
               /\ Returns("fs_open", disk, fd)
               /\ UNCHANGED <<fs, disk, process>>
    <3>1. PICK fd \in -1..FS_OPEN_MAX_COUNT :
               /\ fs # "null"
               /\ open_table_find_empty_entry(fd) /\ fd # -1
               /\ open' = open \union {fd}
               /\ handed' = IF fs = "mounted" THEN handed \union {fd} ELSE handed
               /\ Returns("fs_open", disk, fd)
               /\ UNCHANGED <<fs, disk, process>>
      BY <2>2
    <3>2. fd \in Fds
      BY <3>1 DEF open_table_find_empty_entry
    <3>3. TypeOK'
      BY <3>1, <3>2, ReturnsTyped DEF TypeOK
    <3> QED
      BY <3>1, <3>3 DEF MountedIsValid, DescriptorsAreHanded
  <2> QED
    BY <1>6, <2>1, <2>2, <1>1 DEF fs_open
<1>7. ASSUME NEW fd \in Fds, fs_close(fd) PROVE Inv'
  <2>1. CASE Returns("fs_close", disk, -1) /\ UNCHANGED <<fs, disk, open, process, handed>>
    <3>1. TypeOK'
      BY <2>1, <1>0, ReturnsTyped DEF TypeOK
    <3> QED
      BY <2>1, <3>1 DEF MountedIsValid, DescriptorsAreHanded
  <2>2. CASE /\ open' = open \ {fd} /\ handed' = handed \ {fd}
             /\ Returns("fs_close", disk, 0)
             /\ UNCHANGED <<fs, disk, process>>
    <3>1. TypeOK'
      BY <2>2, <1>0, ReturnsTyped DEF TypeOK
    <3> QED
      BY <2>2, <3>1 DEF MountedIsValid, DescriptorsAreHanded
  <2> QED
    BY <1>7, <2>1, <2>2 DEF fs_close
<1>8. ASSUME OtherCall PROVE Inv'
  <2>1. CASE /\ \E ret \in {-1, 0} : Returns("other", disk, ret)
             /\ UNCHANGED <<fs, disk, open, process, handed>>
    <3>1. TypeOK'
      BY <2>1, <1>0, ReturnsTyped DEF TypeOK
    <3> QED
      BY <2>1, <3>1 DEF MountedIsValid, DescriptorsAreHanded
  <2> QED
    BY <1>8, <2>1, <1>1 DEF OtherCall
<1>9. CASE UNCHANGED vars
  BY <1>9 DEF vars, TypeOK, MountedIsValid, DescriptorsAreHanded
<1> QED
  BY <1>3, <1>4, <1>5, <1>6, <1>7, <1>8, <1>9 DEF Next

(* The invariants hold in every behaviour.                                 *)
LEMMA Always == Spec => []Inv
  BY Starts, Keeps, PTL DEF Spec

(* The life cycle never leaves its states: descriptors that fs_open and    *)
(* fs_close store and return are entries of the table of open files.       *)
THEOREM LifeCycleTyped == Spec => []TypeOK
<1>1. Inv => TypeOK
  BY DEF Inv
<1> QED
  BY <1>1, Always, PTL

(* Whatever mounts failed before, a mounted file system is a valid one, on *)
(* the disk that disk.c has open (the checks of fs_mount).                 *)
THEOREM OnlyValidMounted == Spec => []MountedIsValid
<1>1. Inv => MountedIsValid
  BY DEF Inv
<1> QED
  BY <1>1, Always, PTL

(* The descriptors open in a mounted file system were returned by fs_open  *)
(* since it was mounted (fs_mount clears the table).                       *)
THEOREM DescriptorsOfThisMount == Spec => []DescriptorsAreHanded
<1>1. Inv => DescriptorsAreHanded
  BY DEF Inv
<1> QED
  BY <1>1, Always, PTL

(* A mounted file system ends by an fs_umount that finds its files closed. *)
THEOREM UmountEndsMount == Spec => EndsByUmount
<1>1. ASSUME Inv, [Next]_vars
      PROVE  [fs = "mounted" /\ (fs' # "mounted" \/ disk' # disk) =>
               fs' = "freed" /\ disk' = NoDisk /\ open = {} /\ last'.call = "fs_umount"]_vars
  <2> SUFFICES ASSUME Next, fs = "mounted", fs' # "mounted" \/ disk' # disk
               PROVE  fs' = "freed" /\ disk' = NoDisk /\ open = {}
                        /\ last'.call = "fs_umount"
    BY <1>1
  <2>1. disk # NoDisk
    BY <1>1 DEF Inv, MountedIsValid
  <2>2. ASSUME NEW image \in Images PROVE ~fs_mount(image) /\ ~fs_mount_io_error(image)
    BY <2>1 DEF fs_mount, fs_mount_io_error, block_disk_open
  <2>3. ~fs_open /\ ~OtherCall /\ \A fd \in Fds : ~fs_close(fd)
    BY DEF fs_open, fs_close, OtherCall, Dies
  <2>4. fs_umount
    BY <2>2, <2>3 DEF Next
  <2> QED
    BY <2>4 DEF fs_umount, Returns, Dies
<1> QED
  BY <1>1, Always, PTL DEF Spec, EndsByUmount

(* A call that returns -1 leaves a mounted file system as it was.          *)
THEOREM RefusalsAreHarmless == Spec => RefusalsChangeNothing
<1>1. ASSUME Inv, [Next]_vars
      PROVE  [fs = "mounted" /\ last' # last /\ last'.ret = -1
               => UNCHANGED <<fs, disk, open>>]_vars
  <2> SUFFICES ASSUME Next, fs = "mounted", last' # last, last'.ret = -1
               PROVE  UNCHANGED <<fs, disk, open>>
    BY <1>1
  <2>1. disk # NoDisk
    BY <1>1 DEF Inv, MountedIsValid
  <2>2. ASSUME NEW image \in Images, fs_mount(image) \/ fs_mount_io_error(image)
        PROVE  UNCHANGED <<fs, disk, open>>
    BY <2>1, <2>2 DEF fs_mount, fs_mount_io_error, block_disk_open
  <2>3. CASE fs_umount
    BY <2>3 DEF fs_umount, Returns, Dies
  <2>4. CASE fs_open
    BY <2>4 DEF fs_open, Returns, Dies
  <2>5. CASE \E fd \in Fds : fs_close(fd)
    BY <2>5 DEF fs_close, Returns
  <2>6. CASE OtherCall
    BY <2>6 DEF OtherCall, Dies
  <2> QED
    BY <2>2, <2>3, <2>4, <2>5, <2>6 DEF Next
<1> QED
  BY <1>1, Always, PTL DEF Spec, RefusalsChangeNothing
=============================================================================
