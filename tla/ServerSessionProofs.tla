-------------------------- MODULE ServerSessionProofs --------------------------
(***************************************************************************)
(* A run of prlctl or prlsrvctl, for any number of VMs, of events and of   *)
(* disks, with and without --timeout: its two inner actions behave in it   *)
(* as their modules say, every session that login() reported is closed or  *)
(* its logoff failed, the session of a second server outlives the job that *)
(* uses it, and an exit status 0 is earned.                                *)
(***************************************************************************)
EXTENDS ServerSession, TLAPS

-----------------------------------------------------------------------------
(* The backup by itself, for any number of disks and blocks and any        *)
(* content: one that was committed is complete, and one that was begun is  *)
(* closed.                                                                 *)

(* What is known of a disk when its first n blocks were copied: they are   *)
(* in the files, and the others are zeros in the full one.                 *)
CopiedTo(d, n) ==
  \A b \in Block :
    /\ b < n  => Says(full[d])[b] = image[d][b]
    /\ b < n /\ b \in map[d] => Says(delta[d])[b] = image[d][b]
    /\ b >= n => Says(full[d])[b] = 0

(* Why CommittedIsComplete holds: the disks are complete up to the one at  *)
(* hand, whose blocks are there up to the one at hand; nothing is          *)
(* committed before all are, and no file is written after that.  Only the  *)
(* failure of its job leaves a backup that was copied neither committed    *)
(* nor rolled back.                                                        *)
Progress ==
  /\ at \in {"begin", "open"} => disk = 0
  /\ at = "disk" => disk >= 1
  /\ at \in {"disk", "map", "files", "copy"} => \A d \in Disk : d < disk => Complete(d)
  /\ at = "copy" => CopiedTo(disk, block)
  /\ at = "close" /\ ~failed => \A d \in Disk : Complete(d)
  /\ backup = "committed" => at \in {"closed", "done"} /\ \A d \in Disk : Complete(d)
  /\ at = "closed" /\ backup = "open" => closeFailed
  /\ at \in {"closed", "done"} /\ ~failed => backup = "committed" \/ closeFailed

Inv == BackupTypeOK /\ Progress

(* A file is a sequence; Put makes a file that says c of the block and     *)
(* what it said before of the others.                                      *)
LEMMA FileLength ==
  ASSUME BackupParameters, NEW f \in file
  PROVE  Len(f) \in 0..Blocks /\ f \in [1..Len(f) -> Content] /\ f \in Seq(Content)
<1>1. PICK n \in 0..Blocks : f \in [1..n -> Content]
  BY DEF file
<1>2. n \in Nat
  BY DEF BackupParameters
<1>3. f \in Seq(Content) /\ Len(f) = n
  BY <1>1, <1>2
<1> QED
  BY <1>1, <1>2, <1>3

(* Writing a block keeps a file a file and changes this block alone. *)
LEMMA PutIsFile ==
  ASSUME BackupParameters, NEW f \in file, NEW b \in Block, NEW c \in Content
  PROVE  /\ Put(f, b, c) \in file
         /\ Says(Put(f, b, c)) = [Says(f) EXCEPT ![b] = c]
<1> DEFINE m == IF b > Len(f) THEN b ELSE Len(f)
           g == Put(f, b, c)
<1>1. Len(f) \in 0..Blocks /\ f \in [1..Len(f) -> Content]
  BY FileLength
<1>2. m \in 0..Blocks /\ m \in Nat /\ b <= m /\ Len(f) <= m /\ Blocks \in Nat
  BY <1>1 DEF Block, BackupParameters
<1>3. g = [i \in 1..m |-> IF i = b THEN c ELSE IF i <= Len(f) THEN f[i] ELSE 0]
  BY DEF Put
<1>4. \A i \in 1..m : (IF i = b THEN c ELSE IF i <= Len(f) THEN f[i] ELSE 0) \in Content
  BY <1>1, <1>2 DEF BackupParameters
<1>5. g \in [1..m -> Content]
  BY <1>3, <1>4
<1>6. g \in file
  BY <1>2, <1>5 DEF file
<1>7. Len(g) = m
  BY <1>2, <1>5
<1>8. ASSUME NEW i \in Block
      PROVE  (IF i <= Len(g) THEN g[i] ELSE 0) = IF i = b THEN c ELSE IF i <= Len(f) THEN f[i] ELSE 0
  <2>1. i \in Nat /\ i >= 1
    BY DEF Block
  <2>2. CASE i <= m
    <3>1. i \in 1..m
      BY <1>2, <2>1, <2>2
    <3> QED
      BY <1>3, <1>7, <2>2, <3>1
  <2>3. CASE ~(i <= m)
    <3>1. i # b /\ ~(i <= Len(f))
      BY <1>1, <1>2, <2>1, <2>3 DEF Block
    <3> QED
      BY <1>7, <2>3, <3>1
  <2> QED
    BY <2>2, <2>3
<1>9. Says(g) = [Says(f) EXCEPT ![b] = c]
  BY <1>8 DEF Says
<1> QED
  BY <1>6, <1>9

-----------------------------------------------------------------------------
(* The types of do_vm_abackup's state, for any disks, blocks and contents. *)
THEOREM BackupTypes == ASSUME BackupParameters PROVE BackupSpec => []BackupTypeOK
<1>1. BackupInit => BackupTypeOK
  <2> SUFFICES ASSUME BackupInit PROVE BackupTypeOK
    OBVIOUS
  <2>1. image \in [Disk -> [Block -> Content]] /\ map \in [Disk -> SUBSET Block]
    BY DEF BackupInit, BackupParameters
  <2>2. <<>> \in file
    <3>1. 0 \in 0..Blocks
      BY DEF BackupParameters
    <3>2. <<>> \in [1..0 -> Content]
      OBVIOUS
    <3> QED
      BY <3>1, <3>2 DEF file
  <2>3. full \in [Disk -> file] /\ delta \in [Disk -> file]
    BY <2>2 DEF BackupInit
  <2>4. disk \in 0..Disks + 1 /\ block \in 1..Blocks + 1
    BY DEF BackupInit, BackupParameters
  <2> QED
    BY <2>1, <2>3, <2>4 DEF BackupInit, BackupTypeOK
<1>2. BackupTypeOK /\ [BackupNext]_backupvars => BackupTypeOK'
  <2> SUFFICES ASSUME BackupTypeOK, [BackupNext]_backupvars PROVE BackupTypeOK'
    OBVIOUS
  <2> USE DEF BackupTypeOK
  <2>1. CASE Begin
    <3>1. image' \in [Disk -> [Block -> Content]] /\ map' \in [Disk -> SUBSET Block]
      BY <2>1 DEF Begin, frozen, ending
    <3>2. UNCHANGED <<disk, block, full, delta, closeFailed, uuidFile>> /\ backup' \in {"none", "open"} /\ failed' \in BOOLEAN
      BY <2>1 DEF Begin, files, ending
    <3>3. at' \in {"open", "done"} /\ (at' = "open" => backup' = "open" /\ ~failed')
      BY <2>1 DEF Begin
    <3> QED
      BY <3>1, <3>2, <3>3
  <2>2. CASE Open
    <3>1. UNCHANGED <<backup, image, map, block, full, delta, closeFailed, uuidFile>> /\ failed' \in BOOLEAN
      BY <2>2 DEF Open, files, frozen, ending
    <3>2. at' \in {"disk", "done"} /\ disk' \in 0..Disks + 1
      BY <2>2 DEF Open, BackupParameters
    <3>3. at' = "disk" => backup = "open" /\ ~failed'
      BY <2>2 DEF Open
    <3> QED
      BY <3>1, <3>2, <3>3
  <2>3. CASE NextDisk
    <3>1. UNCHANGED <<backup, image, map, disk, block, full, delta, closeFailed, uuidFile>> /\ failed' \in BOOLEAN
      BY <2>3 DEF NextDisk, Stop, files, frozen, ending
    <3>2. at' \in {"map", "close"} /\ (disk \in Disk \/ at' = "close")
      BY <2>3 DEF NextDisk, Stop
    <3>3. at' # "close" => backup = "open" /\ ~failed'
      BY <2>3 DEF NextDisk, Stop
    <3> QED
      BY <3>1, <3>2, <3>3
  <2>4. CASE ReadMap
    <3>1. UNCHANGED <<backup, image, map, disk, block, full, delta, closeFailed, uuidFile>> /\ failed' \in BOOLEAN
      BY <2>4 DEF ReadMap, Stop, files, frozen, ending
    <3>2. at' \in {"files", "close"} /\ (disk \in Disk \/ at' = "close")
      BY <2>4 DEF ReadMap, Stop
    <3>3. at' # "close" => backup = "open" /\ ~failed'
      BY <2>4 DEF ReadMap, Stop
    <3> QED
      BY <3>1, <3>2, <3>3
  <2>5. CASE OpenFiles
    <3>1. Sized \subseteq file
      <4>1. <<>> \in [1..0 -> Content] /\ [b \in Block |-> 0] \in [1..Blocks -> Content]
        BY DEF Block, BackupParameters
      <4>2. 0 \in 0..Blocks /\ Blocks \in 0..Blocks
        BY DEF BackupParameters
      <4>3. <<>> \in file
        BY <4>1, <4>2 DEF file
      <4>4. [b \in Block |-> 0] \in file
        BY <4>1, <4>2 DEF file
      <4> QED
        BY <4>3, <4>4 DEF Sized
    <3>2. full' \in [Disk -> file] /\ delta' \in [Disk -> file]
      BY <2>5, <3>1 DEF OpenFiles, files, ending
    <3>3. UNCHANGED <<backup, image, map, disk, closeFailed, uuidFile>> /\ failed' \in BOOLEAN
      BY <2>5 DEF OpenFiles, Stop, frozen, ending
    <3>4. block' \in 1..Blocks + 1
      BY <2>5 DEF OpenFiles, BackupParameters
    <3>5. at' \in {"copy", "close"} /\ disk \in Disk
      BY <2>5 DEF OpenFiles, Stop
    <3>6. at' # "close" => backup = "open" /\ ~failed'
      BY <2>5 DEF OpenFiles, Stop
    <3> QED
      BY <3>2, <3>3, <3>4, <3>5, <3>6
  <2>6. CASE Copy
    <3>1. image[disk][block] \in Content /\ full[disk] \in file /\ delta[disk] \in file /\ block \in Block
      BY <2>6 DEF Copy
    <3>2. Put(full[disk], block, image[disk][block]) \in file /\ Put(delta[disk], block, image[disk][block]) \in file
      BY <3>1, PutIsFile
    <3>3. full' \in [Disk -> file] /\ delta' \in [Disk -> file]
      BY <2>6, <3>2 DEF Copy
    <3>4. block' \in 1..Blocks + 1
      BY <2>6 DEF Copy, Block, BackupParameters
    <3> QED
      BY <2>6, <3>3, <3>4 DEF Copy, frozen, ending
  <2>7. CASE CopyFails
    <3>1. image[disk][block] \in Content /\ delta[disk] \in file /\ block \in Block
      BY <2>7 DEF CopyFails
    <3>2. Put(delta[disk], block, image[disk][block]) \in file
      BY <3>1, PutIsFile
    <3>3. delta' \in [Disk -> file]
      BY <2>7, <3>2 DEF CopyFails
    <3> QED
      BY <2>7, <3>3 DEF CopyFails, Stop, frozen, ending
  <2>8. CASE Copied
    <3>1. disk' \in 0..Disks + 1
      BY <2>8 DEF Copied, Disk, BackupParameters
    <3> QED
      BY <2>8, <3>1 DEF Copied, files, frozen, ending
  <2>9. CASE Close
    BY <2>9 DEF Close, files, frozen, ending
  <2>10. CASE Announce
    BY <2>10 DEF Announce, files, frozen, ending
  <2>11. CASE UNCHANGED backupvars
    BY <2>11 DEF backupvars
  <2> QED
    BY <2>1, <2>2, <2>3, <2>4, <2>5, <2>6, <2>7, <2>8, <2>9, <2>10, <2>11 DEF BackupNext
<1> QED
  BY <1>1, <1>2, PTL DEF BackupSpec

-----------------------------------------------------------------------------
(* What a disk is said to be does not change with the files of another.    *)
LEMMA StaysComplete ==
  ASSUME NEW d \in Disk, Complete(d),
         full'[d] = full[d], delta'[d] = delta[d], UNCHANGED <<image, map>>
  PROVE  Complete(d)'
BY DEF Complete, Says

(* A new file says zeros of every block. *)
LEMMA NewFilesAreZeros ==
  ASSUME BackupParameters, NEW f \in Sized, NEW b \in Block
  PROVE  Says(f)[b] = 0
<1>1. CASE f = <<>>
  BY <1>1 DEF Says, Block
<1>2. CASE f = [i \in Block |-> 0]
  <2>1. f \in [1..Blocks -> {0}] /\ Blocks \in Nat
    BY <1>2 DEF Block, BackupParameters
  <2>2. f[b] = 0
    BY <1>2
  <2> QED
    BY <2>2 DEF Says
<1> QED
  BY <1>1, <1>2 DEF Sized

(* One turn of the loop copies one block. *)
LEMMA CopyAdvances ==
  ASSUME BackupParameters, BackupTypeOK, at = "copy", CopiedTo(disk, block), Copy
  PROVE  CopiedTo(disk, block)'
<1> DEFINE c == image[disk][block]
<1>1. disk \in Disk /\ block \in Block /\ c \in Content /\ full[disk] \in file /\ delta[disk] \in file
  BY DEF BackupTypeOK, Copy
<1>2. UNCHANGED <<disk, image, map>> /\ block' = block + 1 /\ block \in Nat
  BY <1>1 DEF Copy, frozen, Block
<1>3. Says(full'[disk]) = [Says(full[disk]) EXCEPT ![block] = IF c = 0 THEN @ ELSE c]
  <2>1. CASE c = 0
    <3>1. full' = full
      BY <2>1 DEF Copy, is_zero_block
    <3> QED
      BY <2>1, <3>1 DEF Says
  <2>2. CASE c # 0
    <3>1. full'[disk] = Put(full[disk], block, c)
      BY <1>1, <2>2 DEF Copy, is_zero_block, BackupTypeOK
    <3> QED
      BY <1>1, <2>2, <3>1, PutIsFile
  <2> QED
    BY <2>1, <2>2
<1>4. Says(delta'[disk]) = [Says(delta[disk]) EXCEPT ![block] = IF block \in map[disk] THEN c ELSE @]
  <2>1. CASE block \notin map[disk]
    <3>1. delta' = delta
      BY <2>1 DEF Copy, BMAP_GET
    <3> QED
      BY <2>1, <3>1 DEF Says
  <2>2. CASE block \in map[disk]
    <3>1. delta'[disk] = Put(delta[disk], block, c)
      BY <1>1, <2>2 DEF Copy, BMAP_GET, BackupTypeOK
    <3> QED
      BY <1>1, <2>2, <3>1, PutIsFile
  <2> QED
    BY <2>1, <2>2
<1>5. \A f : Says(f) = [b \in Block |-> Says(f)[b]]
  BY DEF Says
<1>6. ASSUME NEW b \in Block
      PROVE  /\ b < block + 1  => Says(full'[disk])[b] = image[disk][b]
             /\ b < block + 1 /\ b \in map[disk] => Says(delta'[disk])[b] = image[disk][b]
             /\ b >= block + 1 => Says(full'[disk])[b] = 0
  <2>1. b \in Nat
    BY DEF Block
  <2>2. CASE b = block
    <3>1. Says(full[disk])[b] = 0
      BY <1>2, <2>2 DEF CopiedTo
    <3>2. Says(full'[disk])[b] = c
      BY <1>3, <1>5, <2>2, <3>1
    <3>3. b \in map[disk] => Says(delta'[disk])[b] = c
      BY <1>4, <1>5, <2>2
    <3> QED
      BY <1>2, <2>1, <2>2, <3>2, <3>3
  <2>3. CASE b # block
    <3>1. Says(full'[disk])[b] = Says(full[disk])[b] /\ Says(delta'[disk])[b] = Says(delta[disk])[b]
      BY <1>3, <1>4, <1>5, <2>3
    <3>2. (b < block + 1 <=> b < block) /\ (b >= block + 1 => b >= block)
      BY <1>2, <2>1, <2>3
    <3> QED
      BY <3>1, <3>2 DEF CopiedTo
  <2> QED
    BY <2>2, <2>3
<1> QED
  BY <1>2, <1>6 DEF CopiedTo

(* When all its blocks are copied a disk is complete. *)
LEMMA CopiedIsComplete ==
  ASSUME BackupParameters, BackupTypeOK, disk \in Disk, block \notin Block, CopiedTo(disk, block)
  PROVE  Complete(disk)
<1>1. \A b \in Block : b < block
  BY DEF BackupTypeOK, Block, BackupParameters
<1>2. image[disk] \in [Block -> Content] /\ map[disk] \subseteq Block
  BY DEF BackupTypeOK
<1>3. \A b \in Block : Says(full[disk])[b] = image[disk][b]
  BY <1>1 DEF CopiedTo
<1>4. \A b \in map[disk] : Says(delta[disk])[b] = image[disk][b]
  BY <1>1, <1>2 DEF CopiedTo
<1>5. Says(full[disk]) = [b \in Block |-> Says(full[disk])[b]]
  BY DEF Says
<1>6. Says(full[disk]) = image[disk]
  BY <1>2, <1>3, <1>5
<1> QED
  BY <1>4, <1>6 DEF Complete

-----------------------------------------------------------------------------
(* A step keeps what is known of the files. *)
LEMMA StepKeepsProgress ==
  ASSUME BackupParameters, BackupTypeOK, Progress, [BackupNext]_backupvars
  PROVE  Progress'
<1>1. CASE Begin
  <2>1. at' \in {"open", "done"} /\ disk' = disk /\ disk = 0 /\ backup' # "committed" /\ (at' = "done" => failed')
    BY <1>1 DEF Begin, Progress
  <2> QED
    BY <2>1 DEF Progress
<1>2. CASE Open
  <2>1. at' \in {"disk", "done"} /\ (at' = "disk" => disk' = 1) /\ (at' = "done" => failed') /\ backup' = backup /\ backup = "open"
    BY <1>2 DEF Open, BackupTypeOK
  <2>2. \A d \in Disk : ~(d < 1)
    BY DEF Disk
  <2> QED
    BY <2>1, <2>2 DEF Progress
<1>3. CASE NextDisk
  <2>1. UNCHANGED <<backup, disk, image, map, block, full, delta>> /\ backup = "open" /\ at = "disk"
    BY <1>3 DEF NextDisk, BackupTypeOK, frozen, files
  <2>2. at' \in {"map", "close"}
    BY <1>3 DEF NextDisk, Stop
  <2>3. at' = "close" /\ ~failed' => disk \notin Disk
    BY <1>3 DEF NextDisk, Stop
  <2>4. disk \notin Disk => \A d \in Disk : d < disk
    BY <2>1 DEF BackupTypeOK, Progress, Disk, BackupParameters
  <2>5. \A d \in Disk : d < disk => Complete(d)'
    BY <2>1, StaysComplete DEF Progress
  <2> QED
    BY <2>1, <2>2, <2>3, <2>4, <2>5 DEF Progress
<1>4. CASE ReadMap
  <2>1. UNCHANGED <<backup, disk, image, map, block, full, delta>> /\ backup = "open" /\ at = "map"
    BY <1>4 DEF ReadMap, BackupTypeOK, frozen, files
  <2>2. at' \in {"files", "close"} /\ (at' = "close" => failed')
    BY <1>4 DEF ReadMap, Stop
  <2>3. \A d \in Disk : d < disk => Complete(d)'
    BY <2>1, StaysComplete DEF Progress
  <2> QED
    BY <2>1, <2>2, <2>3 DEF Progress
<1>5. CASE OpenFiles
  <2>1. UNCHANGED <<backup, disk, image, map>> /\ backup = "open" /\ at = "files" /\ disk \in Disk
    BY <1>5 DEF OpenFiles, BackupTypeOK, frozen
  <2>2. at' \in {"copy", "close"} /\ (at' = "close" => failed')
    BY <1>5 DEF OpenFiles, Stop
  <2>3. \A d \in Disk : d # disk => full'[d] = full[d] /\ delta'[d] = delta[d]
    BY <1>5 DEF OpenFiles, BackupTypeOK, files
  <2>4. \A d \in Disk : d < disk => d # disk
    BY DEF Disk
  <2>5. \A d \in Disk : d < disk => Complete(d)'
    BY <2>1, <2>3, <2>4, StaysComplete DEF Progress
  <2>6. ASSUME at' = "copy" PROVE CopiedTo(disk, block)'
    <3>1. block' = 1 /\ full'[disk] \in Sized
      BY <1>5, <2>1, <2>6 DEF OpenFiles, Stop, BackupTypeOK
    <3>2. \A b \in Block : Says(full'[disk])[b] = 0 /\ ~(b < 1)
      BY <3>1, NewFilesAreZeros DEF Block
    <3> QED
      BY <2>1, <3>1, <3>2 DEF CopiedTo
  <2> QED
    BY <2>1, <2>2, <2>5, <2>6 DEF Progress
<1>6. CASE Copy
  <2>1. UNCHANGED <<at, backup, disk, image, map, failed>> /\ backup = "open" /\ at = "copy" /\ disk \in Disk
    BY <1>6 DEF Copy, BackupTypeOK, frozen
  <2>2. \A d \in Disk : d # disk => full'[d] = full[d] /\ delta'[d] = delta[d]
    BY <1>6 DEF Copy, BackupTypeOK
  <2>3. \A d \in Disk : d < disk => d # disk
    BY DEF Disk
  <2>4. \A d \in Disk : d < disk => Complete(d)'
    BY <2>1, <2>2, <2>3, StaysComplete DEF Progress
  <2>5. CopiedTo(disk, block)'
    BY <1>6, <2>1, CopyAdvances DEF Progress
  <2> QED
    BY <2>1, <2>4, <2>5 DEF Progress
<1>7. CASE CopyFails
  <2>1. at' = "close" /\ failed' /\ backup' = backup /\ backup = "open"
    BY <1>7 DEF CopyFails, Stop, BackupTypeOK
  <2> QED
    BY <2>1 DEF Progress
<1>8. CASE Copied
  <2>1. UNCHANGED <<backup, image, map, full, delta>> /\ backup = "open" /\ at = "copy" /\ disk \in Disk
    BY <1>8 DEF Copied, BackupTypeOK, frozen, files
  <2>2. at' = "disk" /\ disk' = disk + 1
    BY <1>8 DEF Copied
  <2>3. Complete(disk)
    BY <1>8, <2>1, CopiedIsComplete DEF Copied, Progress
  <2>4. disk' >= 1 /\ \A d \in Disk : d < disk' => d < disk \/ d = disk
    BY <2>1, <2>2 DEF Disk
  <2>5. \A d \in Disk : d < disk' => Complete(d)
    BY <2>1, <2>3, <2>4 DEF Progress
  <2>6. \A d \in Disk : d < disk' => Complete(d)'
    BY <2>1, <2>5, StaysComplete
  <2> QED
    BY <2>1, <2>2, <2>4, <2>6 DEF Progress
<1>9. CASE Close
  <2>1. UNCHANGED <<disk, image, map, full, delta, failed>> /\ at = "close" /\ at' = "closed"
    BY <1>9 DEF Close, frozen, files
  <2>2. backup # "committed"
    BY <2>1 DEF Progress
  <2>3. backup' = "committed" => ~failed
    BY <1>9, <2>2 DEF Close
  <2>4. ~failed => \A d \in Disk : Complete(d)'
    BY <2>1, StaysComplete DEF Progress
  <2>5. backup' = (IF failed THEN "rolledback" ELSE "committed") \/ closeFailed'
    BY <1>9 DEF Close
  <2> QED
    BY <2>1, <2>3, <2>4, <2>5 DEF Progress
<1>10. CASE Announce
  <2>1. UNCHANGED <<backup, disk, image, map, full, delta, closeFailed>> /\ at = "closed" /\ at' = "done" /\ (failed => failed')
    BY <1>10 DEF Announce, frozen, files
  <2>2. backup = "committed" => \A d \in Disk : Complete(d)'
    BY <2>1, StaysComplete DEF Progress
  <2> QED
    BY <2>1, <2>2 DEF Progress
<1>11. CASE UNCHANGED backupvars
  BY <1>11 DEF backupvars, Progress, Complete, CopiedTo
<1> QED
  BY <1>1, <1>2, <1>3, <1>4, <1>5, <1>6, <1>7, <1>8, <1>9, <1>10, <1>11 DEF BackupNext

(* Of how much is copied at every place of do_vm_abackup. *)
THEOREM ProgressHolds == ASSUME BackupParameters PROVE BackupSpec => []Inv
<1>1. BackupInit => Progress
  BY DEF BackupInit, Progress
<1>2. BackupTypeOK /\ BackupTypeOK' /\ Progress /\ [BackupNext]_backupvars => Progress'
  BY StepKeepsProgress
<1> QED
  BY <1>1, <1>2, BackupTypes, PTL DEF BackupSpec, Inv

(* do_vm_abackup commits a backup only when the full files of all disks    *)
(* are the frozen disks and the delta files have every block of the        *)
(* changed block maps, whichever call failed on the way.                   *)
THEOREM CommittedComplete ==
  ASSUME BackupParameters
  PROVE  BackupSpec => []CommittedIsComplete
<1>1. Inv => CommittedIsComplete
  BY DEF Inv, Progress, CommittedIsComplete
<1> QED
  BY <1>1, ProgressHolds, PTL

(* do_vm_abackup leaves a backup open only if it ends before the first     *)
(* disk, or if the job of the commit or of the rollback failed.            *)
THEOREM BackupCloses ==
  ASSUME BackupParameters
  PROVE  BackupSpec => BackupIsClosed
<1>1. Inv /\ [BackupNext]_backupvars => [at' = "done" /\ backup = "open" => closeFailed \/ disk = 0]_backupvars
  <2> SUFFICES ASSUME Inv, BackupNext, at' = "done", backup = "open"
               PROVE  closeFailed \/ disk = 0
    OBVIOUS
  <2>1. CASE Begin \/ Open
    BY <2>1 DEF Inv, Progress, Begin, Open
  <2>2. CASE NextDisk \/ ReadMap \/ OpenFiles \/ Copy \/ CopyFails \/ Copied
    BY <2>2 DEF NextDisk, ReadMap, OpenFiles, Copy, CopyFails, Copied, Stop
  <2>3. CASE Close \/ Announce
    BY <2>3 DEF Close, Announce, Inv, Progress
  <2> QED
    BY <2>1, <2>2, <2>3 DEF BackupNext
<1> QED
  BY <1>1, ProgressHolds, PTL DEF BackupSpec, BackupIsClosed

-----------------------------------------------------------------------------
(* PerfStats: the wait is for a VM, and the events that are pending were   *)
(* sent; a signal of which nobody says that it is stray was made by the    *)
(* callback of the VM at hand, while the main thread was in Wait or had    *)
(* not reset the event yet.  Who has been visited was subscribed, unless   *)
(* print_statistics has returned an error or a subscription has failed.    *)
Handled == printed \cup unprinted

StatsProgress ==
  /\ line \in {"wait", "reset", "remove"} => cur \in Stats!Vm
  /\ \A s \in Stats!Source : pending[s] <= sent
  /\ handling \in Handled \cup {Stats!Nobody}
  /\ ~stray /\ signalled => line \in {"wait", "reset"}
  /\ ~stray /\ (signalled \/ pc["prlctl"] = "woken") => cur \in Handled

StatsDue ==
  /\ line \in {"list", "node"} => cur = 1
  /\ line \in {"vm", "wait", "reset", "remove", "key"} /\ Stats!Has("srv") => Stats!Node \in accepted
  /\ line \in {"vm", "wait", "reset", "remove"} => \A v \in Stats!Visited : v < cur => v \in accepted
  /\ line \in {"wait", "reset", "remove"} => cur \in accepted
  /\ line = "key" => Stats!Visited \subseteq accepted
  /\ line # "done" => returned = "nothing"
  /\ returned = "ok" => Stats!Due \subseteq accepted \/ refused # {}

StatsInv == Stats!TypeOK /\ StatsProgress /\ Stats!WaitsForItsVm

-----------------------------------------------------------------------------
(* The main thread is in the login of a server. *)
InLogin(s) == server = s /\ phase \in {"key", "ask", "attempt", "session"}

(* What a session is to its PrlSrv: a handle that is there and not logged  *)
(* in is still in login(), or login() has failed; only a logoff closes a   *)
(* session, and clears the handle with it.                                 *)
LoginInv ==
  /\ \A s \in Server :
       /\ hSrv[s] /\ ~logged[s] => InLogin(s) \/ entered[s] = "failed"
       /\ session[s] # "none" => hSrv[s] \/ session[s] = "closed" \/ ended[s] = "failed"
       /\ session[s] = "closed" => ~hSrv[s]
       /\ \A a \in Attempt : login[s][a] = "ok" => session[s] # "none"
  /\ phase \in {"key", "ask", "attempt", "session"} => hSrv[server] /\ ~logged[server]
  /\ phase = "session" => login[server][awaited] = "ok"
  /\ phase = "dispatch" => server = "own"
  /\ phase = "create" => ~hSrv[server] /\ session[server] = "none"
  /\ server = "own" => ~hSrv["peer"] /\ session["peer"] = "none"
  /\ phase \in {"join", "logoff", "exit"} => ~logged["peer"]
  /\ phase = "exit" => ~logged["own"]

(* The job of the action is started once, by run, and is waited for unless *)
(* the wait was given up; the session of the second server is closed when  *)
(* that is over.                                                           *)
JobInv ==
  /\ phase \in {"create", "key", "ask", "attempt", "session", "dispatch", "run", "crashed"} => job = "none"
  /\ job = "running" => phase \in {"wait", "cancel"} \/ gaveUp
  /\ phase \in {"wait", "cancel"} => command \notin Inner
  /\ session["peer"] = "closed" => phase \in {"join", "logoff", "exit"}

(* What the action returned is what its job, or its module, came to. *)
ReturnInv ==
  /\ ret \in {"ok", "notstarted"} => phase \in {"leave", "join", "logoff", "exit"}
  /\ ret = "ok" =>
       CASE command = "statistics" -> line = "done" /\ (Stats!Due \subseteq accepted \/ refused # {})
         [] command = "abackup"    -> ~failed /\ (backup = "committed" \/ closeFailed)
         [] OTHER                  -> job = "ok"
  /\ ret = "notstarted" => job = "notstarted"
  /\ status = "zero" => phase = "exit" /\ get_error(command, ret) = "ok"

OuterInv == LoginInv /\ JobInv /\ ReturnInv

-----------------------------------------------------------------------------
(* A step of the session is one of the inner action that is done, or none: *)
(* what happens outside leaves it alone.                                   *)
LEMMA MainLeavesInner ==
  ASSUME Main \/ JobEnds \/ \E s \in Server, a \in Attempt : LoginEnds(s, a)
  PROVE  UNCHANGED inner
BY DEF Main, JobEnds, LoginEnds, Create, KeyAnswered, AskPassword, LoginAnswered, ReadSession,
       Dispatch, Run, Wait, Cancelled, InnerReturns, InnerCrashes, Leave, Join, Exit, LoginReturns, Step

(* So the session does with a backup what BackupSpec allows.               *)
LEMMA SessionRunsBackup == Spec => BackupSpec
<1>1. Init => BackupInit
  BY DEF Init
<1>2. [Next]_vars => [BackupNext]_backupvars
  BY MainLeavesInner DEF Next, InnerStep, vars, inner
<1> QED
  BY <1>1, <1>2, PTL DEF Spec, BackupSpec

(* ... and with statistics what PerfStats allows.                          *)
LEMMA SessionRunsStatistics == Spec => Stats!Spec
<1>1. Init => Stats!Init
  BY DEF Init
<1>2. [Next]_vars => [Stats!Next]_(Stats!vars)
  <2> SUFFICES ASSUME [Next]_vars PROVE [Stats!Next]_(Stats!vars)
    OBVIOUS
  <2>1. UNCHANGED inner => UNCHANGED Stats!vars
    BY DEF inner, statistics, Stats!vars, Stats!main, Stats!sdk, Stats!event
  <2>2. UNCHANGED statistics => UNCHANGED Stats!vars
    BY DEF statistics, Stats!vars, Stats!main, Stats!sdk, Stats!event
  <2> QED
    BY <2>1, <2>2, MainLeavesInner DEF Next, InnerStep, vars
<1> QED
  BY <1>1, <1>2, PTL DEF Spec, Stats!Spec

-----------------------------------------------------------------------------
(* PerfStats: what the main thread does keeps what is known of the event.  *)
LEMMA StatsMainKeepsInv ==
  ASSUME StatsInv, Stats!Main \/ Stats!TimeOut \/ Stats!Key
  PROVE  StatsInv'
<1> USE ServerAssumption DEF Stats!Parameters, StatsInv, Stats!TypeOK, StatsProgress, Stats!Source, Stats!Vm,
      Stats!Node, Stats!Nobody, Stats!Evt!TypeOK, Stats!Evt!Location, Stats!Has, Stats!WaitsForItsVm, Handled
<1>1. CASE Stats!List
  BY <1>1 DEF Stats!List, Stats!Goto, Stats!Return, Stats!Others, Stats!Answers, Stats!sdk, Stats!event
<1>2. CASE Stats!SubscribeNode
  <2>1. UNCHANGED <<options, cur, waited, sent, pending, handling, printed, unprinted, stray, signalled, pc, result>>
    BY <1>2 DEF Stats!SubscribeNode, Stats!Subscribe, Stats!Subscribed, Stats!Refused, Stats!Goto, Stats!Return, Stats!Others,
                Stats!sdk, Stats!event
  <2>2. line = "node" /\ line' \in {"vm", "done"} /\ returned' \in {returned, "ok", "error"}
    BY <1>2 DEF Stats!SubscribeNode, Stats!Subscribe, Stats!Subscribed, Stats!Refused, Stats!Goto, Stats!Return
  <2>3. /\ registered' \in {registered, registered \cup {0}} /\ subscribed' \in {subscribed, subscribed \cup {0}}
        /\ accepted' \in {accepted, accepted \cup {0}} /\ refused' \in {refused, refused \cup {0}}
    BY <1>2 DEF Stats!SubscribeNode, Stats!Subscribe, Stats!Subscribed, Stats!Refused, Stats!Answers
  <2>4. Stats!TypeOK'
    BY <2>1, <2>2, <2>3
  <2> QED
    BY <2>1, <2>2, <2>4
<1>3. CASE Stats!SubscribeVm
  <2>1. /\ cur \in 1..Vms
        /\ UNCHANGED <<options, waited, sent, pending, handling, printed, unprinted, stray, signalled, pc, result>>
    BY <1>3 DEF Stats!SubscribeVm, Stats!Visited, Stats!Subscribe, Stats!Subscribed, Stats!Refused, Stats!Goto, Stats!Return,
                Stats!Others, Stats!sdk, Stats!event
  <2>2. line = "vm" /\ line' \in {"vm", "wait", "done"} /\ cur' \in {cur, cur + 1} /\ (line' = "wait" => cur' = cur)
    BY <1>3 DEF Stats!SubscribeVm, Stats!Subscribe, Stats!Subscribed, Stats!Refused, Stats!Goto, Stats!Return
  <2>3. /\ registered' \in {registered, registered \cup {cur}} /\ subscribed' \in {subscribed, subscribed \cup {cur}}
        /\ accepted' \in {accepted, accepted \cup {cur}} /\ refused' \in {refused, refused \cup {cur}}
    BY <1>3 DEF Stats!SubscribeVm, Stats!Subscribe, Stats!Subscribed, Stats!Refused, Stats!Answers
  <2>4. returned' \in {returned, "ok", "error"}
    BY <1>3 DEF Stats!SubscribeVm, Stats!Subscribe, Stats!Subscribed, Stats!Refused, Stats!Goto, Stats!Return
  <2>5. stray \/ (~signalled /\ pc["prlctl"] # "woken")
    BY <2>2
  <2>6. Stats!TypeOK'
    BY <2>1, <2>2, <2>3, <2>4
  <2>7. StatsProgress'
    BY <2>1, <2>2, <2>5
  <2> QED
    BY <2>1, <2>6, <2>7
<1>4. CASE Stats!Block \/ Stats!TimeOut
  <2>1. /\ line = "wait"
        /\ UNCHANGED <<options, line, cur, registered, accepted, refused, waited, subscribed, returned, sent, pending,
                       handling, printed, unprinted, stray, signalled, result>>
    BY <1>4 DEF Stats!Block, Stats!TimeOut, Stats!InWait, Stats!Answers, Stats!Evt!WaitBlock, Stats!Evt!TimeOut, Stats!sdk
  <2>2. pc' \in {[pc EXCEPT !["prlctl"] = "blocked"], [pc EXCEPT !["prlctl"] = "timedout"]}
    BY <1>4 DEF Stats!Block, Stats!TimeOut, Stats!Evt!WaitBlock, Stats!Evt!TimeOut
  <2>3. Stats!TypeOK'
    BY <2>1, <2>2
  <2>4. StatsProgress' /\ Stats!WaitsForItsVm'
    BY <2>1, <2>2
  <2> QED
    BY <2>3, <2>4
<1>5. CASE Stats!WaitOver
  <2>1. /\ line = "wait" /\ line' = "reset" /\ cur \in 1..Vms
        /\ UNCHANGED <<options, cur, registered, subscribed, accepted, refused, returned, sent, pending, handling,
                       printed, unprinted, stray>>
    BY <1>5 DEF Stats!WaitOver, Stats!InWait, Stats!Answers, Stats!sdk
  <2>2. /\ signalled' = FALSE /\ pc' = [pc EXCEPT !["prlctl"] = "idle"]
        /\ result' \in [{"prlctl", "sdk"} -> {"none", "true", "false"}] /\ UNCHANGED <<result["sdk"]>>
        /\ result'["prlctl"] \in {"true", "false"}
        /\ result'["prlctl"] = "true" => signalled \/ pc["prlctl"] = "woken"
    <3>1. CASE Stats!Evt!WaitFast("prlctl")
      BY <3>1 DEF Stats!Evt!WaitFast
    <3>2. CASE Stats!Evt!WaitReturn("prlctl")
      BY <3>2 DEF Stats!Evt!WaitReturn
    <3> QED
      BY <1>5, <3>1, <3>2 DEF Stats!WaitOver
  <2>3. waited' = [waited EXCEPT ![cur] = result'["prlctl"]]
    BY <1>5 DEF Stats!WaitOver
  <2>4. Stats!TypeOK'
    BY <2>1, <2>2, <2>3
  <2>5. StatsProgress'
    BY <2>1, <2>2
  <2>6. Stats!WaitsForItsVm'
    <3> SUFFICES ASSUME NEW v \in 1..Vms, waited'[v] = "true" PROVE v \in Handled \/ stray
      BY <2>1
    <3> QED
      BY <2>2, <2>3
  <2> QED
    BY <2>4, <2>5, <2>6
<1>6. CASE Stats!Reset
  BY <1>6 DEF Stats!Reset, Stats!Goto, Stats!Evt!Reset, Stats!Answers, Stats!sdk
<1>7. CASE Stats!Remove
  BY <1>7 DEF Stats!Remove, Stats!Goto, Stats!Others, Stats!sdk, Stats!event
<1>8. CASE Stats!LastVm
  BY <1>8 DEF Stats!LastVm, Stats!Goto, Stats!Return, Stats!Others, Stats!Answers, Stats!sdk, Stats!event
<1>9. CASE Stats!Key
  BY <1>9 DEF Stats!Key, Stats!Goto, Stats!Return, Stats!Others, Stats!Answers, Stats!sdk, Stats!event
<1> QED
  BY <1>1, <1>2, <1>3, <1>4, <1>5, <1>6, <1>7, <1>8, <1>9 DEF Stats!Main

(* ... and what the callback and the dispatcher do. *)
LEMMA StatsSdkKeepsInv ==
  ASSUME StatsInv, Stats!Signal \/ \E s \in Stats!Source : Stats!PrintStatistics(s) \/ Stats!Send(s)
  PROVE  StatsInv'
<1> USE ServerAssumption DEF Stats!Parameters, StatsInv, Stats!TypeOK, StatsProgress, Stats!Source, Stats!Vm,
      Stats!Node, Stats!Nobody, Stats!Evt!TypeOK, Stats!Evt!Location, Stats!Has, Stats!WaitsForItsVm, Handled
<1>1. CASE Stats!Signal
  <2>1. /\ handling \in Handled /\ handling' = Vms + 1 /\ stray' = (stray \/ handling # cur \/ line \notin {"wait", "reset"})
        /\ UNCHANGED <<options, line, cur, registered, accepted, refused, waited, returned, subscribed, sent, pending,
                       printed, unprinted>>
    BY <1>1 DEF Stats!Signal, Stats!main
  <2>2. /\ signalled' \in BOOLEAN /\ UNCHANGED result
        /\ pc' \in [{"prlctl", "sdk"} -> {"idle", "blocked", "woken", "timedout"}]
        /\ \A t \in {"prlctl", "sdk"} : pc'[t] = pc[t] \/ (pc[t] = "blocked" /\ pc'[t] = "woken")
        /\ "loop" \in options => signalled' = signalled
    <3>1. CASE "loop" \in options
      BY <1>1, <3>1 DEF Stats!Signal, Stats!event
    <3>2. CASE "loop" \notin options
      BY <1>1, <3>2 DEF Stats!Signal, Stats!Evt!Signal
    <3> QED
      BY <3>1, <3>2
  <2>3. Stats!TypeOK'
    BY <2>1, <2>2
  <2>4. StatsProgress'
    BY <2>1, <2>2
  <2> QED
    BY <2>1, <2>3, <2>4
<1>2. ASSUME NEW s \in Stats!Source, Stats!PrintStatistics(s) PROVE StatsInv'
  <2> HIDE DEF Stats!Source, Stats!Vm, Stats!Node, Stats!Nobody
  <2>1. UNCHANGED <<options, line, cur, registered, accepted, refused, waited, returned, subscribed, sent, stray,
                    signalled, pc, result>>
    BY <1>2 DEF Stats!PrintStatistics, Stats!main, Stats!event
  <2>2. pending' \in [Stats!Source -> 0..MaxEvents] /\ \A r \in Stats!Source : pending'[r] <= sent
    BY <1>2 DEF Stats!PrintStatistics
  <2>3. /\ printed \subseteq printed' /\ printed' \subseteq Stats!Source
        /\ unprinted \subseteq unprinted' /\ unprinted' \subseteq Stats!Source
        /\ handling' \in printed' \cup unprinted' \cup {Stats!Nobody}
    BY <1>2 DEF Stats!PrintStatistics
  <2>4. Stats!TypeOK'
    BY <2>1, <2>2, <2>3
  <2>5. StatsProgress' /\ Stats!WaitsForItsVm'
    BY <2>1, <2>2, <2>3
  <2> QED
    BY <2>4, <2>5
<1>3. ASSUME NEW s \in Stats!Source, Stats!Send(s) PROVE StatsInv'
  <2>1. UNCHANGED <<options, line, cur, registered, accepted, refused, waited, returned, subscribed, handling, printed,
                    unprinted, stray, signalled, pc, result>>
    BY <1>3 DEF Stats!Send, Stats!main, Stats!event
  <2>2. /\ sent' \in 0..MaxEvents /\ pending' \in [Stats!Source -> 0..MaxEvents]
        /\ \A r \in Stats!Source : pending'[r] <= sent'
    BY <1>3 DEF Stats!Send
  <2> QED
    BY <2>1, <2>2
<1> QED
  BY <1>1, <1>2, <1>3

(* The invariant of the statistics in the session. *)
THEOREM StatisticsInvariant == Spec => []StatsInv
<1>1. Stats!Init => StatsInv
  <2> SUFFICES ASSUME Stats!Init PROVE StatsInv
    OBVIOUS
  <2> USE ServerAssumption DEF Stats!Parameters, Stats!Init
  <2>1. Stats!Evt!TypeOK
    BY DEF Stats!Evt!Init, Stats!Evt!TypeOK, Stats!Evt!Location
  <2>2. 0 \in 0..MaxEvents /\ cur \in 1..Vms + 1
    OBVIOUS
  <2>3. Stats!TypeOK
    BY <2>1, <2>2 DEF Stats!TypeOK, Stats!Has, Stats!Evt!Init
  <2>4. StatsProgress /\ Stats!WaitsForItsVm
    BY DEF StatsProgress, Stats!WaitsForItsVm, Stats!Evt!Init, Handled
  <2> QED
    BY <2>3, <2>4 DEF StatsInv
<1>2. StatsInv /\ [Stats!Next]_(Stats!vars) => StatsInv'
  <2>1. CASE UNCHANGED Stats!vars
    BY <2>1 DEF Stats!vars, Stats!main, Stats!sdk, Stats!event, StatsInv, Stats!TypeOK, StatsProgress, Stats!WaitsForItsVm,
       Stats!Evt!TypeOK, Stats!Has, Handled
  <2> QED
    BY <2>1, StatsMainKeepsInv, StatsSdkKeepsInv DEF Stats!Next
<1> QED
  BY <1>1, <1>2, SessionRunsStatistics, PTL DEF Stats!Spec

(* print_statistics waits for the statistics of the VM it has asked, and a *)
(* wait that succeeds before an event of that VM was handled is the fault  *)
(* of one that came late, or of the node: the callback prints, or finds    *)
(* that it cannot, before it signals,                                      *)
(* Wait and Reset take what was signalled, and the event is down whenever  *)
(* the next VM is asked.                                                   *)
THEOREM WaitIsForItsVm == Spec => []WaitsForItsVm
<1>1. StatsInv => WaitsForItsVm
  BY DEF StatsInv, WaitsForItsVm
<1> QED
  BY <1>1, StatisticsInvariant, PTL

-----------------------------------------------------------------------------
(* Whom print_statistics has subscribed, wherever it is. *)
LEMMA StatsMainKeepsDue ==
  ASSUME StatsInv, StatsDue, Stats!Main \/ Stats!TimeOut \/ Stats!Key
  PROVE  StatsDue'
<1> USE DEF StatsDue, Stats!Due, Stats!Visited, Stats!Has
<1>1. cur \in 1..Vms + 1 /\ Vms \in Nat
  BY ServerAssumption DEF StatsInv, Stats!TypeOK, Stats!Parameters
<1>2. cur \notin Stats!Visited => \A v \in Stats!Visited : v < cur
  BY <1>1 DEF Stats!Vm
<1>3. \A v \in Stats!Visited : v \in Nat /\ v > 0
  BY DEF Stats!Vm
<1>4. CASE Stats!List
  BY <1>4 DEF Stats!List, Stats!Goto, Stats!Return, Stats!Answers
<1>5. CASE Stats!SubscribeNode
  <2>1. options' = options /\ line = "node" /\ cur' = cur /\ cur = 1 /\ returned = "nothing"
    BY <1>5 DEF Stats!SubscribeNode, Stats!Subscribe, Stats!Subscribed, Stats!Refused, Stats!Goto, Stats!Return
  <2>2. \A v \in Stats!Visited : ~(v < cur)
    BY <1>3, <2>1
  <2>3. UNCHANGED Stats!Visited
    BY <2>1
  <2>4. \/ line' = "done" /\ (returned' = "error" \/ refused' # {})
        \/ /\ line' = "vm" /\ UNCHANGED <<returned, refused>>
           /\ (Stats!Has("srv") /\ accepted' = accepted \cup {Stats!Node}) \/ (~Stats!Has("srv") /\ UNCHANGED accepted)
    BY <1>5 DEF Stats!SubscribeNode, Stats!Subscribe, Stats!Subscribed, Stats!Refused, Stats!Goto, Stats!Return, Stats!Answers
  <2> HIDE DEF Stats!Visited
  <2> QED
    BY <2>1, <2>2, <2>3, <2>4
<1>6. CASE Stats!SubscribeVm
  <2>1. options' = options /\ line = "vm" /\ returned = "nothing" /\ accepted \subseteq accepted'
    BY <1>6 DEF Stats!SubscribeVm, Stats!Subscribe, Stats!Subscribed, Stats!Refused, Stats!Goto, Stats!Return, Stats!Answers
  <2>2. CASE line' = "done"
    BY <1>6, <2>1, <2>2 DEF Stats!SubscribeVm, Stats!Subscribe, Stats!Subscribed, Stats!Refused, Stats!Goto, Stats!Return
  <2>3. CASE line' # "done"
    <3>1. /\ accepted' = accepted \cup {cur} /\ UNCHANGED <<returned, refused>>
          /\ (line' = "vm" /\ cur' = cur + 1) \/ (line' = "wait" /\ cur' = cur)
      BY <1>6, <2>3 DEF Stats!SubscribeVm, Stats!Subscribe, Stats!Subscribed, Stats!Refused, Stats!Goto, Stats!Return
    <3>2. \A v \in Stats!Visited : v < cur + 1 => v < cur \/ v = cur
      BY <1>1, <1>3
    <3>3. \A v \in Stats!Visited : v < cur' => v \in accepted'
      BY <2>1, <3>1, <3>2
    <3>4. UNCHANGED Stats!Visited
      BY <2>1
    <3> HIDE DEF Stats!Visited
    <3> QED
      BY <2>1, <3>1, <3>3, <3>4
  <2> QED
    BY <2>2, <2>3
<1>7. CASE Stats!Block \/ Stats!TimeOut \/ Stats!WaitOver
  <2>1. line = "wait" /\ line' \in {"wait", "reset"} /\ UNCHANGED <<options, cur, accepted, refused, returned>>
    BY <1>7 DEF Stats!Block, Stats!TimeOut, Stats!WaitOver, Stats!InWait, Stats!Answers
  <2> QED
    BY <2>1
<1>8. CASE Stats!Reset
  BY <1>8 DEF Stats!Reset, Stats!Goto, Stats!Answers
<1>9. CASE Stats!Remove
  <2>1. line = "remove" /\ line' = "vm" /\ cur' = cur + 1 /\ UNCHANGED <<options, accepted, refused, returned>>
    BY <1>9 DEF Stats!Remove, Stats!Goto
  <2>2. \A v \in Stats!Visited : v < cur + 1 => v < cur \/ v = cur
    BY <1>1, <1>3
  <2>3. \A v \in Stats!Visited : v < cur' => v \in accepted'
    BY <2>1, <2>2
  <2>4. UNCHANGED Stats!Visited
    BY <2>1
  <2> HIDE DEF Stats!Visited
  <2> QED
    BY <2>1, <2>3, <2>4
<1>10. CASE Stats!LastVm
  <2>1. Stats!Visited \subseteq accepted /\ returned = "nothing" /\ line = "vm"
    BY <1>2, <1>10 DEF Stats!LastVm, Stats!Goto, Stats!Return
  <2> HIDE DEF Stats!Visited
  <2>2. options' = options /\ UNCHANGED <<accepted, refused>> /\ UNCHANGED Stats!Visited
    BY <1>10 DEF Stats!LastVm, Stats!Goto, Stats!Return, Stats!Answers, Stats!Visited
  <2>3. (line' = "key" /\ returned' = returned) \/ (line' = "done" /\ returned' = "ok")
    BY <1>10 DEF Stats!LastVm, Stats!Goto, Stats!Return
  <2> QED
    BY <2>1, <2>2, <2>3
<1>11. CASE Stats!Key
  BY <1>11 DEF Stats!Key, Stats!Goto, Stats!Return, Stats!Answers
<1> QED
  BY <1>4, <1>5, <1>6, <1>7, <1>8, <1>9, <1>10, <1>11 DEF Stats!Main

(* print_statistics returns success only when it has subscribed the node   *)
(* and every VM it was asked for, or the job of a subscription has failed. *)
THEOREM StatisticsAreDue == Spec => []StatsDue
<1>1. Stats!Init => StatsDue
  BY DEF Stats!Init, StatsDue
<1>2. StatsInv /\ StatsDue /\ [Stats!Next]_(Stats!vars) => StatsDue'
  <2> SUFFICES ASSUME StatsInv, StatsDue, [Stats!Next]_(Stats!vars) PROVE StatsDue'
    OBVIOUS
  <2>1. CASE UNCHANGED <<options, line, cur, accepted, refused, returned>>
    BY <2>1 DEF StatsDue, Stats!Due, Stats!Visited, Stats!Has
  <2>2. CASE Stats!Main \/ Stats!TimeOut \/ Stats!Key
    BY <2>2, StatsMainKeepsDue
  <2>3. CASE Stats!Signal \/ \E s \in Stats!Source : Stats!PrintStatistics(s) \/ Stats!Send(s)
    BY <2>1, <2>3 DEF Stats!Signal, Stats!PrintStatistics, Stats!Send, Stats!main
  <2>4. CASE UNCHANGED Stats!vars
    BY <2>1, <2>4 DEF Stats!vars, Stats!main
  <2> QED
    BY <2>2, <2>3, <2>4 DEF Stats!Next
<1> QED
  BY <1>1, <1>2, StatisticsInvariant, SessionRunsStatistics, PTL DEF Stats!Spec

-----------------------------------------------------------------------------
(* logoff() clears the handle with m_logged, whatever its job says. *)
LEMMA LogoffKeepsTypes ==
  ASSUME SrvTypeOK, NEW s \in Server, Logoff(s)
  PROVE  /\ server' = server /\ awaited' = awaited /\ login' = login /\ entered' = entered
         /\ hSrv' \in [Server -> BOOLEAN] /\ logged' \in [Server -> BOOLEAN]
         /\ ended' \in [Server -> {"none", "ok", "failed"}]
         /\ session' \in [Server -> {"none", "open", "closed"}]
         /\ ~logged'[s] /\ \A t \in Server : logged'[t] => hSrv'[t] /\ session'[t] = "open"
         /\ \A t \in Server \ {s} :
              hSrv'[t] = hSrv[t] /\ logged'[t] = logged[t] /\ session'[t] = session[t] /\ ended'[t] = ended[t]
         /\ logged[s]  => /\ ~hSrv'[s]
                          /\ session'[s] = "closed" \/ (session'[s] = "open" /\ ended'[s] = "failed")
         /\ ~logged[s] => UNCHANGED <<hSrv, session, ended>>
<1> USE DEF SrvTypeOK, logins
<1>1. CASE logged[s]
  <2>1. logged' = [logged EXCEPT ![s] = FALSE] /\ hSrv' = [hSrv EXCEPT ![s] = FALSE]
    BY <1>1 DEF Logoff
  <2>2. \/ session' = [session EXCEPT ![s] = "closed"] /\ ended' = [ended EXCEPT ![s] = "ok"]
        \/ session' = session /\ ended' = [ended EXCEPT ![s] = "failed"]
    BY <1>1 DEF Logoff
  <2>3. UNCHANGED <<server, awaited, login, entered>>
    BY <1>1 DEF Logoff
  <2>4. session[s] = "open" /\ \A t \in Server : logged[t] => hSrv[t] /\ session[t] = "open"
    BY <1>1
  <2>5. ~logged'[s] /\ \A t \in Server \ {s} : hSrv'[t] = hSrv[t] /\ logged'[t] = logged[t] /\ session'[t] = session[t]
    BY <2>1, <2>2
  <2>6. \A t \in Server : logged'[t] => hSrv'[t] /\ session'[t] = "open"
    BY <2>4, <2>5
  <2>7. session'[s] = "closed" \/ (session'[s] = "open" /\ ended'[s] = "failed")
    <3> HIDE DEF SrvTypeOK
    <3>0. session \in [Server -> {"none", "open", "closed"}] /\ ended \in [Server -> {"none", "ok", "failed"}]
      BY DEF SrvTypeOK
    <3>1. CASE session' = [session EXCEPT ![s] = "closed"]
      BY <3>0, <3>1
    <3>2. CASE session' = session /\ ended' = [ended EXCEPT ![s] = "failed"]
      BY <2>4, <3>0, <3>2
    <3> QED
      BY <2>2, <3>1, <3>2
  <2>8. hSrv' \in [Server -> BOOLEAN] /\ logged' \in [Server -> BOOLEAN] /\ ~hSrv'[s]
    BY <2>1
  <2>9. /\ ended' \in [Server -> {"none", "ok", "failed"}] /\ session' \in [Server -> {"none", "open", "closed"}]
        /\ \A t \in Server \ {s} : ended'[t] = ended[t]
    BY <2>2
  <2> QED
    BY <1>1, <2>3, <2>5, <2>6, <2>7, <2>8, <2>9
<1>2. CASE ~logged[s]
  BY <1>2 DEF Logoff
<1> QED
  BY <1>1, <1>2

(* Each step keeps the types. *)
LEMMA StepKeepsTypes ==
  ASSUME SrvTypeOK, LoginInv, Next, Stats!TypeOK', BackupTypeOK'
  PROVE  SrvTypeOK'
<1> USE DEF SrvTypeOK, Server, Attempt, Command, Step, logins, work
<1> HIDE DEF Stats!TypeOK, BackupTypeOK
<1>1. CASE Create
  <2>1. CASE LoginReturns("create", "failed") /\ UNCHANGED <<server, awaited, hSrv, logged, login, session, ended, work>>
    BY <2>1 DEF LoginReturns
  <2>2. CASE /\ hSrv' = [hSrv EXCEPT ![server] = TRUE]
             /\ \/ Step("create", "key") /\ Try("key")
                \/ Step("create", "attempt") /\ Try("other")
                \/ Step("create", "ask") /\ UNCHANGED <<login, awaited>>
             /\ UNCHANGED <<server, logged, entered, session, ended, work, ret>>
    <3>1. awaited' \in Attempt /\ phase' \in {"key", "attempt", "ask"} /\ UNCHANGED <<command, status, inner>>
      BY <2>2 DEF Try
    <3>2. login' \in {login} \cup {[login EXCEPT ![server][a] = "running"] : a \in Attempt}
      BY <2>2 DEF Try
    <3>3. hSrv' \in [Server -> BOOLEAN] /\ \A s \in Server : hSrv[s] => hSrv'[s]
      BY <2>2
    <3> QED
      BY <2>2, <3>1, <3>2, <3>3
  <2> QED
    BY <1>1, <2>1, <2>2 DEF Create
<1>2. CASE KeyAnswered
  BY <1>2 DEF KeyAnswered
<1>3. CASE AskPassword
  BY <1>3 DEF AskPassword, LoginReturns, Try
<1>4. CASE LoginAnswered
  BY <1>4 DEF LoginAnswered, LoginReturns
<1>5. CASE ReadSession
  <2>1. hSrv[server] /\ session[server] = "open"
    BY <1>5 DEF ReadSession, LoginReturns, LoginInv
  <2>2. logged' \in {logged, [logged EXCEPT ![server] = TRUE]}
    BY <1>5 DEF ReadSession
  <2>3. UNCHANGED <<server, awaited, hSrv, login, session, ended, job, gaveUp, command, status, inner>>
    BY <1>5 DEF ReadSession, LoginReturns
  <2>4. entered' \in [Server -> {"none", "ok", "failed"}] /\ ret' \in {ret, "failed"} /\ phase' \in {"dispatch", "run", "leave"}
    BY <1>5 DEF ReadSession, LoginReturns
  <2>5. logged' \in [Server -> BOOLEAN] /\ \A s \in Server : logged'[s] => hSrv[s] /\ session[s] = "open"
    BY <2>1, <2>2
  <2> QED
    BY <2>3, <2>4, <2>5
<1>6. CASE Dispatch
  BY <1>6 DEF Dispatch
<1>7. CASE Run
  BY <1>7 DEF Run
<1>8. CASE Wait
  BY <1>8 DEF Wait
<1>9. CASE Cancelled
  BY <1>9 DEF Cancelled
<1>10. CASE InnerReturns \/ InnerCrashes
  BY <1>10 DEF InnerReturns, InnerCrashes
<1>11. CASE Leave
  <2>1. phase' = "join" /\ UNCHANGED <<command, status, inner, job, gaveUp, ret>>
    BY <1>11 DEF Leave
  <2> QED
    BY <1>11, <2>1, LogoffKeepsTypes DEF Leave
<1>12. CASE Join
  BY <1>12 DEF Join
<1>13. CASE Exit
  <2>1. phase' = "exit" /\ status' \in {"zero", "error"} /\ UNCHANGED <<command, inner, job, gaveUp, ret>>
    BY <1>13 DEF Exit
  <2> QED
    BY <1>13, <2>1, LogoffKeepsTypes DEF Exit
<1>14. CASE InnerStep
  BY <1>14 DEF InnerStep, outer
<1>15. CASE JobEnds
  BY <1>15 DEF JobEnds
<1>16. ASSUME NEW s \in Server, NEW a \in Attempt, LoginEnds(s, a) PROVE SrvTypeOK'
  BY <1>16 DEF LoginEnds
<1> QED
  BY <1>1, <1>2, <1>3, <1>4, <1>5, <1>6, <1>7, <1>8, <1>9, <1>10, <1>11, <1>12, <1>13, <1>14, <1>15, <1>16
     DEF Next, Main

(* Each step keeps what a handle, a login and a session are to each other. *)
LEMMA StepKeepsLogin ==
  ASSUME SrvTypeOK, LoginInv, Next
  PROVE  LoginInv'
<1> USE DEF SrvTypeOK, LoginInv, InLogin, Server, Attempt, Step, logins
<1> HIDE DEF Stats!TypeOK, BackupTypeOK
<1>1. CASE Create
  BY <1>1 DEF Create, LoginReturns, Try
<1>2. CASE KeyAnswered
  BY <1>2 DEF KeyAnswered
<1>3. CASE AskPassword
  BY <1>3 DEF AskPassword, LoginReturns, Try
<1>4. CASE LoginAnswered
  BY <1>4 DEF LoginAnswered, LoginReturns
<1>5. CASE ReadSession
  BY <1>5 DEF ReadSession, LoginReturns
<1>6. CASE Dispatch
  BY <1>6 DEF Dispatch
<1>7. CASE Run \/ Wait \/ Cancelled \/ InnerReturns \/ InnerCrashes \/ Join
  BY <1>7 DEF Run, Wait, Cancelled, InnerReturns, InnerCrashes, Join
<1>8. CASE Leave
  <2>1. phase' = "join" /\ Logoff("peer")
    BY <1>8 DEF Leave
  <2>2. Server \ {"peer"} = {"own"} /\ "peer" \in Server
    OBVIOUS
  <2> HIDE DEF SrvTypeOK
  <2>3. UNCHANGED <<server, login, entered>> /\ ~logged'["peer"] /\ phase = "leave"
    BY <1>8, <2>1, <2>2, LogoffKeepsTypes DEF Leave
  <2>4. UNCHANGED <<hSrv["own"], logged["own"], session["own"], ended["own"]>>
    BY <2>1, <2>2, LogoffKeepsTypes
  <2>5. /\ logged["peer"]  => ~hSrv'["peer"] /\ (session'["peer"] = "closed" \/ ended'["peer"] = "failed")
                              /\ session'["peer"] # "none" /\ hSrv["peer"]
        /\ ~logged["peer"] => UNCHANGED <<hSrv["peer"], session["peer"], ended["peer"]>>
    <3>1. logged["peer"] => hSrv["peer"]
      BY <2>2 DEF SrvTypeOK
    <3> QED
      BY <2>1, <2>2, <3>1, LogoffKeepsTypes
  <2> QED
    BY <2>1, <2>3, <2>4, <2>5
<1>9. CASE Exit
  <2>1. phase' = "exit" /\ phase = "logoff" /\ Logoff("own")
    BY <1>9 DEF Exit
  <2>2. Server \ {"own"} = {"peer"} /\ "own" \in Server
    OBVIOUS
  <2> HIDE DEF SrvTypeOK
  <2>3. UNCHANGED <<server, login, entered>> /\ ~logged'["own"]
    BY <2>1, <2>2, LogoffKeepsTypes
  <2>4. UNCHANGED <<hSrv["peer"], logged["peer"], session["peer"], ended["peer"]>>
    BY <2>1, <2>2, LogoffKeepsTypes
  <2>5. /\ logged["own"]  => ~hSrv'["own"] /\ (session'["own"] = "closed" \/ ended'["own"] = "failed")
                             /\ session'["own"] # "none"
        /\ ~logged["own"] => UNCHANGED <<hSrv["own"], session["own"], ended["own"]>>
    BY <2>1, <2>2, LogoffKeepsTypes
  <2> QED
    BY <2>1, <2>3, <2>4, <2>5
<1>10. CASE InnerStep \/ JobEnds
  BY <1>10 DEF InnerStep, outer, JobEnds
<1>11. ASSUME NEW s \in Server, NEW a \in Attempt, LoginEnds(s, a) PROVE LoginInv'
  BY <1>11 DEF LoginEnds
<1> QED
  BY <1>1, <1>2, <1>3, <1>4, <1>5, <1>6, <1>7, <1>8, <1>9, <1>10, <1>11 DEF Next, Main

(* Each step keeps what the job of the action is to the main thread.       *)
LEMMA StepKeepsJob ==
  ASSUME SrvTypeOK, LoginInv, JobInv, Next
  PROVE  JobInv'
<1> USE DEF JobInv, Step, logins, work
<1>1. CASE Create \/ KeyAnswered \/ AskPassword \/ LoginAnswered \/ ReadSession \/ Dispatch
  <2>1. phase' \in {"create", "key", "ask", "attempt", "session", "dispatch", "run", "crashed", "leave"}
    BY <1>1 DEF Create, KeyAnswered, AskPassword, LoginAnswered, ReadSession, Dispatch, LoginReturns
  <2>2. phase \in {"create", "key", "ask", "attempt", "session", "dispatch"} /\ UNCHANGED <<session, job>>
    BY <1>1 DEF Create, KeyAnswered, AskPassword, LoginAnswered, ReadSession, Dispatch, LoginReturns
  <2> QED
    BY <2>1, <2>2
<1>2. CASE Run \/ Wait \/ Cancelled
  BY <1>2 DEF Run, Wait, Cancelled
<1>3. CASE InnerReturns \/ InnerCrashes \/ Join
  BY <1>3 DEF InnerReturns, InnerCrashes, Join
<1>4. CASE Leave \/ Exit
  BY <1>4 DEF Leave, Exit
<1>5. CASE InnerStep \/ JobEnds
  BY <1>5 DEF InnerStep, outer, JobEnds
<1>6. ASSUME NEW s \in Server, NEW a \in Attempt, LoginEnds(s, a) PROVE JobInv'
  BY <1>6 DEF LoginEnds, SrvTypeOK, Server
<1> QED
  BY <1>1, <1>2, <1>3, <1>4, <1>5, <1>6 DEF Next, Main

(* What the action has returned speaks of what its module came to, which   *)
(* does not change any more.                                               *)
LEMMA ReturnStays ==
  ASSUME ReturnInv, UNCHANGED <<command, inner>>, UNCHANGED ret, job' = job \/ ret = "none"
  PROVE  /\ ret' = "ok" =>
              CASE command' = "statistics" -> line' = "done" /\ (Stats!Due' \subseteq accepted' \/ refused' # {})
                [] command' = "abackup"    -> ~failed' /\ (backup' = "committed" \/ closeFailed')
                [] OTHER                  -> job' = "ok"
         /\ ret' = "notstarted" => job' = "notstarted"
<1>1. UNCHANGED <<line, accepted, refused, failed, backup, closeFailed>> /\ options' = options
  BY DEF inner, statistics, backupvars
<1>2. UNCHANGED Stats!Due
  BY <1>1 DEF Stats!Due, Stats!Visited, Stats!Has
<1> QED
  BY <1>1, <1>2 DEF ReturnInv

(* Each step keeps what the action returned and the exit status are to it. *)
LEMMA StepKeepsReturn ==
  ASSUME SrvTypeOK, JobInv, ReturnInv, StatsDue, Progress, Next
  PROVE  ReturnInv'
<1> USE DEF Step, logins, work
<1>1. CASE Create \/ KeyAnswered \/ AskPassword \/ LoginAnswered \/ ReadSession \/ Dispatch
  <2>1. phase' \in {"create", "key", "ask", "attempt", "session", "dispatch", "run", "crashed", "leave"} /\ ret' \in {ret, "failed"}
    BY <1>1 DEF Create, KeyAnswered, AskPassword, LoginAnswered, ReadSession, Dispatch, LoginReturns
  <2>2. phase \in {"create", "key", "ask", "attempt", "session", "dispatch"} /\ UNCHANGED <<command, status>>
    BY <1>1 DEF Create, KeyAnswered, AskPassword, LoginAnswered, ReadSession, Dispatch, LoginReturns
  <2> QED
    BY <2>1, <2>2 DEF ReturnInv
<1>2. CASE Run \/ Cancelled \/ InnerCrashes
  <2>1. phase \in {"run", "cancel"} /\ UNCHANGED <<ret, status>> /\ phase' # "exit"
    BY <1>2 DEF Run, Cancelled, InnerCrashes
  <2> QED
    BY <2>1 DEF ReturnInv
<1>3. CASE Wait
  BY <1>3 DEF Wait, JobInv, Inner, inner, ReturnInv
<1>4. CASE InnerReturns
  <2>1. phase = "run" /\ phase' = "leave" /\ UNCHANGED <<command, status, inner>>
    BY <1>4 DEF InnerReturns
  <2>2. UNCHANGED <<line, accepted, refused, failed, backup, closeFailed>> /\ UNCHANGED Stats!Due
    BY <2>1 DEF inner, statistics, backupvars, Stats!Due, Stats!Visited, Stats!Has
  <2>3. ret' # "notstarted"
    BY <1>4 DEF InnerReturns
  <2>4. CASE command = "statistics"
    <3>1. line = "done" /\ (ret' = "ok" => returned = "ok")
      BY <1>4, <2>4 DEF InnerReturns
    <3>2. ret' = "ok" => Stats!Due \subseteq accepted \/ refused # {}
      BY <3>1 DEF StatsDue
    <3> QED
      BY <2>1, <2>2, <2>3, <2>4, <3>1, <3>2 DEF ReturnInv
  <2>5. CASE command = "abackup"
    <3>1. at = "done" /\ (ret' = "ok" => ~failed)
      BY <1>4, <2>5 DEF InnerReturns
    <3> QED
      BY <2>1, <2>2, <2>3, <2>5, <3>1 DEF ReturnInv, Progress
  <2> QED
    BY <1>4, <2>4, <2>5 DEF InnerReturns
<1>5. CASE Leave \/ Join
  <2>1. phase' \in {"join", "logoff"} /\ UNCHANGED <<ret, status, command, inner, job>> /\ phase # "exit"
    BY <1>5 DEF Leave, Join
  <2> QED
    BY <2>1, ReturnStays DEF ReturnInv
<1>6. CASE Exit
  <2>1. /\ phase' = "exit" /\ UNCHANGED <<ret, command, inner, job>>
        /\ status' = IF get_error(command, ret) = "ok" THEN "zero" ELSE "error"
    BY <1>6 DEF Exit
  <2> QED
    BY <2>1, ReturnStays DEF ReturnInv, get_error
<1>7. CASE InnerStep
  <2>1. phase = "run" /\ UNCHANGED <<ret, status, phase>>
    BY <1>7 DEF InnerStep, outer
  <2> QED
    BY <2>1 DEF ReturnInv
<1>8. CASE JobEnds \/ \E s \in Server, a \in Attempt : LoginEnds(s, a)
  <2>1. UNCHANGED <<ret, status, phase, command, inner>> /\ (job' = job \/ job = "running")
    BY <1>8 DEF JobEnds, LoginEnds
  <2> QED
    BY <2>1, ReturnStays DEF ReturnInv, SrvTypeOK, inner, statistics, backupvars, Stats!Due, Stats!Visited, Stats!Has
<1> QED
  BY <1>1, <1>2, <1>3, <1>4, <1>5, <1>6, <1>7, <1>8 DEF Next, Main

-----------------------------------------------------------------------------
(* A backup in the session: Inv of the backup by itself. *)
THEOREM BackupInvariant == Spec => []Inv
BY ServerAssumption, ProgressHolds, SessionRunsBackup

(* The invariant of the main thread, of the servers and of the action. *)
THEOREM SessionInvariant == Spec => [](SrvTypeOK /\ LoginInv /\ JobInv /\ ReturnInv)
<1> DEFINE J == SrvTypeOK /\ LoginInv /\ JobInv /\ ReturnInv
           K == StatsInv /\ StatsDue /\ Inv
<1>1. Init /\ K => J
  <2> SUFFICES ASSUME Init, K PROVE J
    OBVIOUS
  <2>1. Stats!TypeOK /\ BackupTypeOK
    BY DEF StatsInv, Inv
  <2>2. SrvTypeOK
    BY <2>1 DEF Init, SrvTypeOK, Server, Attempt, Command
  <2>3. LoginInv /\ JobInv /\ ReturnInv
    BY DEF Init, LoginInv, JobInv, ReturnInv, Server, Attempt
  <2> QED
    BY <2>2, <2>3
<1>2. J /\ K /\ K' /\ [Next]_vars => J'
  <2> SUFFICES ASSUME J, K, K', [Next]_vars PROVE J'
    OBVIOUS
  <2>1. CASE Next
    <3>1. Stats!TypeOK' /\ BackupTypeOK'
      BY DEF StatsInv, Inv
    <3>2. SrvTypeOK'
      BY <2>1, <3>1, StepKeepsTypes
    <3>3. LoginInv' /\ JobInv'
      BY <2>1, StepKeepsLogin, StepKeepsJob
    <3>4. ReturnInv'
      BY <2>1, StepKeepsReturn DEF Inv
    <3> QED
      BY <3>2, <3>3, <3>4
  <2>2. CASE UNCHANGED vars
    <3>1. Stats!TypeOK' /\ BackupTypeOK'
      BY DEF StatsInv, Inv
    <3>2. UNCHANGED <<command, phase, server, awaited, hSrv, logged, login, entered, session, ended, job, gaveUp, ret, status>>
      BY <2>2 DEF vars, outer, logins, work
    <3>3. UNCHANGED inner
      BY <2>2 DEF vars
    <3>4. SrvTypeOK'
      BY <3>1, <3>2 DEF SrvTypeOK
    <3>5. LoginInv' /\ JobInv'
      BY <3>2 DEF LoginInv, InLogin, JobInv
    <3>6. ReturnInv'
      BY <3>2, <3>3, ReturnStays DEF ReturnInv
    <3> QED
      BY <3>4, <3>5, <3>6
  <2> QED
    BY <2>1, <2>2
<1> HIDE DEF J
<1>3. Spec => []J
  BY <1>1, <1>2, StatisticsInvariant, StatisticsAreDue, BackupInvariant, PTL DEF Spec
<1> QED
  BY <1>3 DEF J

(* Types of main(), of both logins and of both inner actions. *)
THEOREM SessionTypes == Spec => []SrvTypeOK
BY SessionInvariant, PTL

(* No session is left behind: at exit a session that is open is that of a  *)
(* login() that returned an error or its logoff failed.  A handle whose    *)
(* login() succeeded is logged in until its logoff, and both logoffs are   *)
(* on every path to the exit.                                              *)
THEOREM NoSessionIsLeft == Spec => []SessionsEnded
<1>1. LoginInv /\ SrvTypeOK => SessionsEnded
  BY DEF LoginInv, InLogin, SrvTypeOK, Server, SessionsEnded
<1> QED
  BY <1>1, SessionInvariant, PTL

(* The session of the second server is closed only after the job that uses *)
(* it ended, or after the main thread gave it up: the wait comes before    *)
(* the logoff.                                                             *)
THEOREM PeerIsThereForItsJob == Spec => []PeerOutlivesJob
<1>1. JobInv => PeerOutlivesJob
  BY DEF JobInv, PeerOutlivesJob
<1> QED
  BY <1>1, SessionInvariant, PTL

(* Exit status 0 is only given to a command whose job succeeded, to a stop *)
(* of a VM that was stopped, to statistics of which every source was       *)
(* subscribed, and to a backup that was committed; or when the job of a    *)
(* subscription, or of the commit, was tried and failed.                   *)
THEOREM SuccessIsEarned == Spec => []SuccessIsReal
<1>1. SrvTypeOK /\ ReturnInv => SuccessIsReal
  BY DEF SrvTypeOK, Command, ReturnInv, get_error, SuccessIsReal, Succeeded
<1> QED
  BY <1>1, SessionInvariant, PTL

(* A committed backup is complete, whatever else prlctl does. *)
THEOREM CommittedInSession == Spec => []CommittedIsComplete
BY ServerAssumption, CommittedComplete, SessionRunsBackup

(* ... and a backup that was begun is closed. *)
THEOREM ClosedInSession == Spec => BackupIsClosed
BY ServerAssumption, BackupCloses, SessionRunsBackup
=============================================================================
