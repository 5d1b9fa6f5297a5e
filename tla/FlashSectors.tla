---------------------------- MODULE FlashSectors ----------------------------
(***************************************************************************)
(* hal/diskio_flash.cpp: a sector is written by copying its erase block    *)
(* to RAM, patching it there, erasing the block and programming it again.  *)
(* The volume is written by one core at a time (Prober), so the only thing *)
(* that comes between two steps is a power cut.                            *)
(***************************************************************************)
EXTENDS Integers

CONSTANTS
    Size,       \* kFsSectors
    K,          \* kSectorsPerBlock
    Contents,   \* what a sector may hold
    Blank       \* an erased sector

ASSUME SizeAssumption == K \in Nat \ {0} /\ Size \in Nat /\ Size % K = 0

VARIABLES
    flash,      \* the sectors on flash
    g_rmw,      \* the block in RAM
    stage,      \* "idle", "patched" or "erased"
    lba         \* the sector being written

flashVars == <<flash, g_rmw, stage, lba>>

Sectors == 0 .. Size - 1
BlockOf(s) == s \div K
SameBlock(s, t) == BlockOf(s) = BlockOf(t)
Within(s) == s % K

Cells == Contents \union {Blank}

FlashTypeOK ==
    /\ flash \in [Sectors -> Cells]
    /\ g_rmw \in [0 .. K - 1 -> Cells]
    /\ stage \in {"idle", "patched", "erased"}
    /\ lba \in Nat
    /\ stage # "idle" => lba \in Sectors

FlashInit ==
    /\ flash \in [Sectors -> Cells]
    /\ g_rmw = [i \in 0 .. K - 1 |-> Blank] /\ stage = "idle" /\ lba = 0

-----------------------------------------------------------------------------
(* program_sector *)

Accepts(s) == s < Size

LoadNothing(s) == g_rmw                        \* the rest is what RAM held
LoadBlock(s) ==
    [i \in 0 .. K - 1 |->
        LET t == K * BlockOf(s) + i IN IF t \in Sectors THEN flash[t] ELSE Blank]

Patch(s, v) ==
    /\ stage = "idle" /\ Accepts(s)
    /\ g_rmw' = [LoadBlock(s) EXCEPT ![Within(s)] = v]
    /\ stage' = "patched" /\ lba' = s
    /\ UNCHANGED flash

Erase ==
    /\ stage = "patched"
    /\ flash' = [s \in Sectors |-> IF SameBlock(s, lba) THEN Blank ELSE flash[s]]
    /\ stage' = "erased"
    /\ UNCHANGED <<g_rmw, lba>>

(* The block after its sectors below upto were programmed. *)
Programmed(upto) ==
    [s \in Sectors |->
        IF SameBlock(s, lba) /\ Within(s) < upto THEN g_rmw[Within(s)] ELSE flash[s]]

Program ==
    /\ stage = "erased"
    /\ flash' = Programmed(K)
    /\ stage' = "idle"
    /\ UNCHANGED <<g_rmw, lba>>

(* Power is lost, and RAM with it. *)
Cut ==
    /\ IF stage = "erased"
       THEN \E upto \in 0 .. K - 1 : flash' = Programmed(upto)
       ELSE UNCHANGED flash
    /\ g_rmw' = [i \in 0 .. K - 1 |-> Blank] /\ stage' = "idle" /\ lba' = 0

FlashNext ==
    \/ \E s \in 0 .. Size, v \in Contents : Patch(s, v)
    \/ Erase \/ Program \/ Cut

FlashSpec == FlashInit /\ [][FlashNext]_flashVars

-----------------------------------------------------------------------------
(* While a block is erased, what it is about to hold is in RAM.            *)
Visible ==
    [s \in Sectors |->
        IF stage = "erased" /\ SameBlock(s, lba) THEN g_rmw[Within(s)] ELSE flash[s]]

(* From the patch until the block is programmed, RAM holds all of it: the  *)
(* sectors that are not being written as flash held them                   *)
(* (diskio_flash.cpp:62-69).                                               *)
BlockInRam ==
    /\ stage = "patched" =>
        /\ g_rmw[Within(lba)] \in Contents
        /\ \A s \in Sectors : SameBlock(s, lba) /\ s # lba => g_rmw[Within(s)] = flash[s]
    /\ stage = "erased" => \A s \in Sectors : SameBlock(s, lba) => flash[s] = Blank

(* Rewriting a block changes one sector for whoever reads the volume, and  *)
(* a power cut takes sectors of the block being rewritten at most          *)
(* (diskio_flash.cpp:51-71).                                               *)
Store == INSTANCE SectorStore WITH store <- Visible
IsSectorStore == Store!Spec
=============================================================================
