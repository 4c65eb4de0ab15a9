------------------------------- MODULE MCExt2 -------------------------------
(***************************************************************************)
(* Instances of Ext2 for TLC: two groups, three files on the new disk.       *)
(***************************************************************************)
EXTENDS Ext2

GroupSizes == [block |-> 4, inode |-> 2]
\* With bit 0 for block 0, as on a disk of 2048-byte blocks.
MetaFromZero == {0, 4}
FilesFromZero == <<1, 2, 5>>
\* With bit 0 for block 1, as on a disk of 1024-byte blocks.
MetaFromOne == {0, 1, 5}
FilesFromOne == <<2, 3>>
=============================================================================
