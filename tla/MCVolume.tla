------------------------------ MODULE MCVolume ------------------------------
(* Blocks of two sectors: the partition table, the boot record, the FAT    *)
(* and the directory in a block each as f_mkfs aligns them, then two       *)
(* blocks of two clusters.                                                 *)
EXTENDS Volume
CONSTANTS t1, t2, t3, t4
RunRows == <<t1, t2, t3, t4>>
DataSectors == {8, 9, 10, 11}
AnyContents == Texts \union {Record} \union [Data -> BOOLEAN] \union [Names -> Entries]
=============================================================================
