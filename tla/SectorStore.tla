---------------------------- MODULE SectorStore ----------------------------
(***************************************************************************)
(* What hal/diskio_flash.cpp promises FatFs and the USB host: 512 byte     *)
(* sectors that are written one at a time, where a power cut may take      *)
(* sectors of one erase block with it and of no other.                     *)
(***************************************************************************)
EXTENDS Naturals

CONSTANTS
    Size,       \* kFsSectors
    K,          \* kSectorsPerBlock
    Contents,   \* what a sector may hold
    Blank       \* an erased sector

VARIABLE store

Sectors == 0 .. Size - 1
BlockOf(s) == s \div K
InBlock(b) == {s \in Sectors : BlockOf(s) = b}

Init == store \in [Sectors -> Contents \union {Blank}]

Write(s) == store'[s] \in Contents /\ store' = [store EXCEPT ![s] = store'[s]]

Tear(lost) == store' = [s \in Sectors |-> IF s \in lost THEN Blank ELSE store[s]]

Next ==
    \/ \E s \in Sectors : Write(s)
    \/ \E s \in Sectors : \E lost \in SUBSET InBlock(BlockOf(s)) : Tear(lost)

Spec == Init /\ [][Next]_store
=============================================================================
