----------------------------- MODULE AgentBackup -----------------------------
(***************************************************************************)
(* prlctl backup --abackup (PrlSrv::do_vm_abackup and store in             *)
(* PrlBackup.cpp): the dispatcher freezes the disks of a VM, prlctl copies *)
(* them block by block into two files for each disk, one with everything   *)
(* and one with what the changed block map names, and commits the backup   *)
(* or rolls it back.  Every call may fail.                                 *)
(***************************************************************************)
EXTENDS Naturals, Sequences

CONSTANTS
  Disks,     \* the number of disks of the VM
  Blocks,    \* the number of blocks of a disk
  Content    \* what a block may hold; 0 is a block of zeros

BackupParameters ==
  /\ Disks \in Nat /\ Blocks \in Nat \ {0} /\ 0 \in Content

VARIABLES
  at,        \* where do_vm_abackup is
  backup,    \* the backup, in the dispatcher
  image,     \* the frozen disks
  map,       \* the blocks of each disk that the changed block map names
  disk, block,    \* what is being copied
  full, delta,    \* the two files of each disk
  failed,    \* ret of do_vm_abackup
  closeFailed,   \* the job of the commit or of the rollback failed
  uuidFile   \* the uuid was written: the backup was announced

backupvars == <<at, backup, image, map, disk, block, full, delta, failed, closeFailed, uuidFile>>

Disk  == 1..Disks
Block == 1..Blocks
file  == UNION {[1..n -> Content] : n \in 0..Blocks}

(* Types; a disk is copied only into an open backup. *)
BackupTypeOK ==
  /\ at \in {"begin", "open", "disk", "map", "files", "copy", "close", "closed", "done"}
  /\ backup \in {"none", "open", "committed", "rolledback"}
  /\ image \in [Disk -> [Block -> Content]]
  /\ map \in [Disk -> SUBSET Block]
  /\ disk \in 0..Disks + 1 /\ block \in 1..Blocks + 1
  /\ full \in [Disk -> file] /\ delta \in [Disk -> file]
  /\ failed \in BOOLEAN /\ closeFailed \in BOOLEAN /\ uuidFile \in BOOLEAN
  /\ at \in {"open", "disk", "map", "files", "copy"} => backup = "open" /\ ~failed
  /\ at = "begin" => ~failed
  /\ at \in {"map", "files", "copy"} => disk \in Disk

BackupInit ==
  /\ at = "begin" /\ backup = "none"
  /\ image = [d \in Disk |-> [b \in Block |-> 0]] /\ map = [d \in Disk |-> {}]
  /\ disk = 0 /\ block = 1
  /\ full = [d \in Disk |-> <<>>] /\ delta = [d \in Disk |-> <<>>]
  /\ failed = FALSE /\ closeFailed = FALSE /\ uuidFile = FALSE

frozen == <<image, map>>
files  == <<full, delta>>
ending == <<closeFailed, uuidFile>>

-----------------------------------------------------------------------------
(* PrlVm_BeginBackup freezes the disks; its failure ends the function, and *)
(* a job that was given up may still begin the backup.  A block that the   *)
(* map does not name is as it was in the earlier backup.                   *)
Begin ==
  /\ at = "begin"
  /\ \/ /\ at' = "open" /\ backup' = "open" /\ UNCHANGED failed
        /\ image' \in [Disk -> [Block -> Content]]
        /\ map' \in [Disk -> SUBSET Block]
     \/ at' = "done" /\ failed' = TRUE /\ backup' \in {"none", "open"} /\ UNCHANGED frozen
  /\ UNCHANGED <<disk, block, files, ending>>

(* The handle and the number of disks; a failure returns at once. *)
Open ==
  /\ at = "open"
  /\ \/ at' = "disk" /\ disk' = 1 /\ UNCHANGED failed
     \/ at' = "done" /\ failed' = TRUE /\ UNCHANGED disk
  /\ UNCHANGED <<backup, frozen, block, files, ending>>

(* A mistake: the error of a disk is returned at once. *)
StopReturns == at' = "done" /\ failed' = TRUE

Stop == at' = "close" /\ failed' = TRUE

NextDisk ==
  /\ at = "disk"
  /\ \/ disk \in Disk /\ at' = "map" /\ UNCHANGED failed
     \/ disk \in Disk /\ Stop
     \/ disk \notin Disk /\ at' = "close" /\ UNCHANGED failed
  /\ UNCHANGED <<backup, frozen, disk, block, files, ending>>

(* The changed block map of the disk: its granularity and its size are     *)
(* asked for, and it is read as a whole and saved.                         *)
ReadMap ==
  /\ at = "map"
  /\ \/ at' = "files" /\ UNCHANGED failed
     \/ Stop
  /\ UNCHANGED <<backup, frozen, disk, block, files, ending>>

(* A file of zeros of the size of the disk, or an empty one: the result of *)
(* the write that sets the size is not looked at.                          *)
Sized == {<<>>, [b \in Block |-> 0]}

OpenFiles ==
  /\ at = "files"
  /\ \/ /\ at' = "copy" /\ block' = 1
        /\ \E f, d \in Sized : full'  = [full EXCEPT ![disk] = f]
                            /\ delta' = [delta EXCEPT ![disk] = d]
        /\ UNCHANGED failed
     \/ Stop /\ UNCHANGED <<block, files>>
  /\ UNCHANGED <<backup, frozen, disk, ending>>

(* pwrite: what lies between the end of the file and the block is zeros. *)
Put(f, b, c) == [i \in 1..(IF b > Len(f) THEN b ELSE Len(f)) |->
                   IF i = b THEN c ELSE IF i <= Len(f) THEN f[i] ELSE 0]

BMAP_GET(bmap, b) == b \in bmap
is_zero_block(c)  == c = 0

(* A mistake: the bit of the next block decides. *)
CopyWrongBit ==
  /\ at = "copy" /\ block \in Block
  /\ LET c == image[disk][block] IN
     /\ full'  = IF is_zero_block(c) THEN full
                 ELSE [full EXCEPT ![disk] = Put(@, block, c)]
     /\ delta' = IF ~BMAP_GET(map[disk], block + 1) THEN delta
                 ELSE [delta EXCEPT ![disk] = Put(@, block, c)]
  /\ block' = block + 1
  /\ UNCHANGED <<at, backup, frozen, disk, failed, ending>>

(* One turn of the loop: read the block, write it to the delta if the map  *)
(* names it, and to the full file unless it is zeros.                      *)
Copy ==
  /\ at = "copy" /\ block \in Block
  /\ LET c == image[disk][block] IN
     /\ full'  = IF is_zero_block(c) THEN full
                 ELSE [full EXCEPT ![disk] = Put(@, block, c)]
     /\ delta' = IF ~BMAP_GET(map[disk], block) THEN delta
                 ELSE [delta EXCEPT ![disk] = Put(@, block, c)]
  /\ block' = block + 1
  /\ UNCHANGED <<at, backup, frozen, disk, failed, ending>>

(* A read or a write fails, before or between the writes of the turn. *)
CopyFails ==
  /\ at = "copy" /\ block \in Block
  /\ Stop
  /\ \/ UNCHANGED delta
     \/ BMAP_GET(map[disk], block) /\ delta' = [delta EXCEPT ![disk] = Put(@, block, image[disk][block])]
  /\ UNCHANGED <<backup, frozen, disk, block, full, ending>>

Copied ==
  /\ at = "copy" /\ block \notin Block
  /\ at' = "disk" /\ disk' = disk + 1
  /\ UNCHANGED <<backup, frozen, block, files, failed, ending>>

-----------------------------------------------------------------------------
(* Commit, or roll back after an error.  The failure of the job itself is  *)
(* printed and not returned; one that was given up may still do it.        *)
Close ==
  /\ at = "close" /\ at' = "closed"
  /\ LET end == IF failed THEN "rolledback" ELSE "committed" IN
     \/ backup' = end /\ UNCHANGED closeFailed
     \/ backup' \in {backup, end} /\ closeFailed' = TRUE
  /\ UNCHANGED <<frozen, disk, block, files, failed, uuidFile>>

(* The uuid of the backup is written, unless something failed before. *)
Announce ==
  /\ at = "closed" /\ at' = "done"
  /\ \/ ~failed /\ uuidFile' = TRUE /\ UNCHANGED failed
     \/ failed' = TRUE /\ UNCHANGED uuidFile
  /\ UNCHANGED <<backup, frozen, disk, block, files, closeFailed>>

BackupNext ==
  \/ Begin \/ Open \/ NextDisk \/ ReadMap \/ OpenFiles \/ Copy \/ CopyFails \/ Copied
  \/ Close \/ Announce

BackupSpec == BackupInit /\ [][BackupNext]_backupvars

-----------------------------------------------------------------------------
(* What a file says of each block; a file that is too short says zeros. *)
Says(f) == [b \in Block |-> IF b <= Len(f) THEN f[b] ELSE 0]

Complete(d) ==
  /\ Says(full[d]) = image[d]
  /\ \A b \in map[d] : Says(delta[d])[b] = image[d][b]

(* A committed backup has every disk: the full files are the frozen disks, *)
(* and the delta files have each block that the map names.                 *)
CommittedIsComplete == backup = "committed" => \A d \in Disk : Complete(d)

(* A backup that was begun is committed or rolled back, unless the job     *)
(* that began it was given up, its handle or the number of its disks could *)
(* not be read (nothing was copied), or the job of the commit or of the    *)
(* rollback failed.                                                        *)
BackupIsClosed ==
  [][at' = "done" /\ backup = "open" => closeFailed \/ disk = 0]_backupvars
=============================================================================
