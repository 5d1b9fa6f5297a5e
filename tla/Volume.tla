------------------------------- MODULE Volume -------------------------------
(***************************************************************************)
(* The FAT volume over hal/diskio_flash.cpp: what main.cpp does with it at *)
(* boot, what a flush writes, what the host changes, and what a power cut  *)
(* at any instant leaves.  FatFs is represented by the order in which it   *)
(* writes sectors; a file takes one cluster, which is one sector, and the  *)
(* directory has room for every name.  The host may write what it changes  *)
(* in any order, and a run may begin, which locks it out, before it is     *)
(* through.  What it has not written by then it does not write later: a    *)
(* flush ends with a media change, and the host reads the volume again.    *)
(***************************************************************************)
EXTENDS FlashSectors, Sequences, FiniteSets

CONSTANTS
    Mbr, Vbr, Fat, Dir, \* the sectors of the partition table, boot record, FAT, root
    Data,               \* the sectors of the clusters
    Config, Version,    \* CONFIG.INI, VERSION.TXT
    LastName,           \* 999: the last number of a result file
    Firmware,           \* the versions that may be flashed
    Default,            \* kDefaultConfigIni
    Edits,              \* what a user writes to CONFIG.INI
    Measured,           \* what each run measures
    Record,             \* what the partition table and the boot record hold
    Absent, Empty,      \* no such file, a file of no bytes
    MaxEvents           \* bound: runs, changes by the host and power cuts together

ASSUME VolumeAssumption ==
    /\ {Mbr, Vbr, Fat, Dir} \union Data \subseteq Sectors
    /\ LastName \in Nat \ {0} /\ MaxEvents \in Nat

Results == 1 .. LastName
Names == Results \union {Config, Version}
Texts == Firmware \union {Default} \union Edits \union {Measured[r] : r \in 1 .. MaxEvents}
Entries == {Absent, Empty} \union Data

(* f_mkfs puts the boot record at sector 63, the FAT behind it and the     *)
(* clusters on a block's boundary (ff.c:6012, 6233-6247), so that nothing  *)
(* shares a block of eight with the partition table or the boot record.    *)
ASSUME LayoutAssumption ==
    /\ \A s \in {Vbr, Fat, Dir} \union Data : ~SameBlock(s, Mbr)
    /\ \A s \in {Fat, Dir} \union Data : ~SameBlock(s, Vbr)
    /\ Fat # Dir /\ {Fat, Dir} \intersect Data = {}
ASSUME NamesAssumption ==
    /\ Config # Version /\ {Config, Version} \intersect Results = {}
    /\ Absent # Empty /\ {Absent, Empty} \intersect Data = {}
ASSUME ContentsAssumption ==
    /\ Texts \union {Record} \union [Data -> BOOLEAN] \union [Names -> Entries] \subseteq Contents
    /\ Blank \notin Contents

VARIABLES
    phase,      \* "off", "mount", "config", "version", "usb" or "serving"
    firmware,   \* build::kVersion
    writes,     \* the sectors still to be written, with their contents
    file,       \* the file they make, and what it will hold
    runs, hostOps, cuts,    \* how many there were
    kept,       \* what each file holds that was completed and not touched since
    host,       \* the host's change under way: "none", "tidy", or "freeing" one
                \* that frees a cluster before it removes the entry
    torn        \* such a change was once cut off

volumeVars == <<phase, firmware, writes, file, runs, hostOps, cuts, kept, host, torn>>
vars == <<flashVars, volumeVars>>

Idle == writes = <<>> /\ stage = "idle"

(* tud_msc_write10_cb returns when a sector is programmed, so a run may    *)
(* begin between two of the host's writes, and the lock rejects the rest.  *)
BetweenWrites == stage = "idle" /\ (writes # <<>> => host # "none")
MoreToCome == runs + hostOps + cuts < MaxEvents

-----------------------------------------------------------------------------
(* What FatFs makes of the sectors.                                        *)

(* A directory block that was torn holds no entry, and FAT entries of      *)
(* 0xFFF are in use.                                                       *)
Root == IF Visible[Dir] = Blank THEN [n \in Names |-> Absent] ELSE Visible[Dir]
Used == IF Visible[Fat] = Blank THEN Data ELSE {c \in Data : Visible[Fat][c]}

fs_mount == flash[Mbr] # Blank /\ flash[Vbr] # Blank
fs_exists(n) == Root[n] # Absent
fs_read(n) == IF Root[n] \in Data THEN Visible[Root[n]] ELSE Root[n]

(* The FAT sector and the directory sector with a change. *)
Table(used) == <<Fat, [c \in Data |-> c \in used]>>
Entry(n, e) == <<Dir, [Root EXCEPT ![n] = e]>>

(* f_mkfs *)
FormatWrites ==
    << <<Vbr, Record>>, Table({}), <<Dir, [n \in Names |-> Absent]>>, <<Mbr, Record>> >>

(* f_open, f_write and f_close of n, that is absent or replaced.           *)
OldCluster(n) == {Root[n]} \ {Absent, Empty}
Chosen(n) == IF OldCluster(n) # {} THEN OldCluster(n) ELSE Data \ Used

Truncate(n) ==
    <<Entry(n, Empty)>> \o
    (IF OldCluster(n) = {} THEN <<>> ELSE <<Table(Used \ OldCluster(n))>>)

(* The directory entry ahead of the FAT. *)
EntryFirst(n, text, c) ==
    << <<c, text>>, Entry(n, c), Table((Used \ OldCluster(n)) \union {c}) >>
StoreText(n, text, c) ==
    << <<c, text>>, Table((Used \ OldCluster(n)) \union {c}), Entry(n, c) >>

(* A full volume leaves an empty file. *)
NewFile(n, text) ==
    IF Chosen(n) = {}
    THEN { [write |-> Truncate(n) \o <<Entry(n, Empty)>>, hold |-> Empty] }
    ELSE { [write |-> Truncate(n) \o StoreText(n, text, c), hold |-> text] : c \in Chosen(n) }

-----------------------------------------------------------------------------

TypeOK ==
    /\ FlashTypeOK
    /\ \A s \in Data : flash[s] \in Texts \union {Blank}
    /\ flash[Fat] # Blank => flash[Fat] \in [Data -> BOOLEAN]
    /\ flash[Dir] # Blank => flash[Dir] \in [Names -> Entries]
    /\ phase \in {"off", "mount", "config", "version", "usb", "serving"}
    /\ firmware \in Firmware
    /\ phase = "off" => Idle
    /\ kept \in [Names -> Texts \union {Empty, Absent}]
    /\ host \in {"none", "tidy", "freeing"} /\ torn \in BOOLEAN
    /\ {runs, hostOps, cuts} \subseteq Nat /\ runs + hostOps + cuts <= MaxEvents

(* A blank chip. *)
Init ==
    /\ flash = [s \in Sectors |-> Blank]
    /\ g_rmw = [i \in 0 .. K - 1 |-> Blank] /\ stage = "idle" /\ lba = 0
    /\ phase = "off" /\ firmware \in Firmware
    /\ writes = <<>> /\ file = [name |-> Config, hold |-> Absent]
    /\ runs = 0 /\ hostOps = 0 /\ cuts = 0
    /\ kept = [n \in Names |-> Absent] /\ host = "none" /\ torn = FALSE

-----------------------------------------------------------------------------
(* disk_write and flash_fs_write_sector, one sector after the other.       *)

NextSector ==
    /\ writes # <<>> /\ Patch(Head(writes)[1], Head(writes)[2])
    /\ writes' = Tail(writes)
    /\ UNCHANGED <<phase, firmware, file, runs, hostOps, cuts, kept, host, torn>>

EraseSector == Erase /\ UNCHANGED volumeVars

ProgramSector ==
    /\ Program
    /\ IF writes = <<>>
       THEN kept' = [kept EXCEPT ![file.name] = file.hold] /\ host' = "none"
       ELSE UNCHANGED <<kept, host>>
    /\ UNCHANGED <<phase, firmware, writes, file, runs, hostOps, cuts, torn>>

Begin(n, job) ==
    /\ writes' = job.write
    /\ file' = [name |-> n, hold |-> job.hold]
    /\ kept' = [kept EXCEPT ![n] = Absent]
    /\ UNCHANGED flashVars

Keep == UNCHANGED <<writes, file, kept, host, torn, flashVars>>

CutOff == host' = "none" /\ torn' = (torn \/ host = "freeing")

-----------------------------------------------------------------------------
(* main, before the USB drive appears.                                     *)

PowerOn ==
    /\ phase = "off" /\ phase' = "mount" /\ firmware' \in Firmware
    /\ Keep /\ UNCHANGED <<runs, hostOps, cuts>>

MountOrFormat ==
    /\ phase = "mount" /\ phase' = "config"
    /\ IF fs_mount
       THEN Keep
       ELSE writes' = FormatWrites /\ UNCHANGED <<file, kept, host, torn, flashVars>>
    /\ UNCHANGED <<firmware, runs, hostOps, cuts>>

EnsureConfig ==
    /\ phase = "config" /\ Idle /\ phase' = "version"
    /\ IF fs_exists(Config)
       THEN Keep
       ELSE \E job \in NewFile(Config, Default) : Begin(Config, job) /\ UNCHANGED <<host, torn>>
    /\ UNCHANGED <<firmware, runs, hostOps, cuts>>

VersionThere == fs_exists(Version)             \* whatever it says
VersionUpToDate == fs_read(Version) = firmware

RefreshVersion ==
    /\ phase = "version" /\ Idle /\ phase' = "usb"
    /\ IF VersionUpToDate
       THEN Keep
       ELSE \E job \in NewFile(Version, firmware) : Begin(Version, job) /\ UNCHANGED <<host, torn>>
    /\ UNCHANGED <<firmware, runs, hostOps, cuts>>

Serve ==
    /\ phase = "usb" /\ Idle /\ phase' = "serving"
    /\ Keep /\ UNCHANGED <<firmware, runs, hostOps, cuts>>

-----------------------------------------------------------------------------
(* fs_next_free_name *)

LowestOf(S) == IF S = {} THEN LastName ELSE CHOOSE k \in S : \A j \in S : k <= j

NameAfterCount == LowestOf({k \in Results : k > Cardinality({j \in Results : fs_exists(j)})})
fs_next_free_name == LowestOf({k \in Results : ~fs_exists(k)})

(* The run before it, from BeginRun's writer lock on, writes nothing. *)
FlushResults ==
    /\ phase = "serving" /\ BetweenWrites /\ MoreToCome
    /\ runs' = runs + 1 /\ CutOff
    /\ LET n == fs_next_free_name IN \E job \in NewFile(n, Measured[runs + 1]) : Begin(n, job)
    /\ UNCHANGED <<phase, firmware, hostOps, cuts>>

(* The host's own file system driver, over tud_msc_write10_cb. *)
HostChanges(n, job, kind) ==
    /\ phase = "serving" /\ Idle /\ MoreToCome
    /\ hostOps' = hostOps + 1 /\ host' = kind
    /\ Begin(n, job)
    /\ UNCHANGED <<phase, firmware, runs, cuts, torn>>

HostEdits ==
    /\ Root[Config] \in Data
    /\ \E text \in Edits :
          HostChanges(Config, [write |-> << <<Root[Config], text>> >>, hold |-> text], "tidy")

Unlink(n) == Entry(n, Absent)
FreeCluster(n) == Table(Used \ OldCluster(n))

HostDeletes ==
    \E n \in Results :
        /\ fs_exists(n)
        /\ \/ HostChanges(n, [write |-> <<Unlink(n), FreeCluster(n)>>, hold |-> Absent], "tidy")
           \/ HostChanges(n, [write |-> <<FreeCluster(n), Unlink(n)>>, hold |-> Absent], "freeing")

-----------------------------------------------------------------------------
Torn(s) == stage = "erased" /\ SameBlock(s, lba)

PowerCut ==
    /\ phase # "off" /\ MoreToCome
    /\ Cut
    /\ phase' = "off" /\ writes' = <<>> /\ cuts' = cuts + 1
    /\ kept' = [n \in Names |->
                    IF Torn(Fat) \/ Torn(Dir) \/ (Root[n] \in Data /\ Torn(Root[n]))
                    THEN Absent ELSE kept[n]]
    /\ CutOff
    /\ UNCHANGED <<firmware, file, runs, hostOps>>

Boots == PowerOn \/ MountOrFormat \/ EnsureConfig \/ RefreshVersion \/ Serve
Changes == FlushResults \/ HostEdits \/ HostDeletes

Next == Boots \/ Changes \/ NextSector \/ EraseSector \/ ProgramSector \/ PowerCut

Spec == Init /\ [][Next]_vars

-----------------------------------------------------------------------------
(* A file that was completed reads back as it was written, across runs,    *)
(* host changes, reboots and power cuts, until someone changes that file   *)
(* or power fails while a block with a part of it, the FAT or the          *)
(* directory is erased (diskio_flash.cpp:51-71, main.cpp:224-267).         *)
FilesKept == ~torn => \A n \in Names : kept[n] # Absent => fs_read(n) = kept[n]

(* No cluster belongs to two files, and none that belongs to a file is     *)
(* free to be taken, whichever sector was the last to be written: by the   *)
(* firmware always, by the host unless it freed the cluster first and is   *)
(* not or was never through (main.cpp:107-129, usb_msc.cpp:168-195).       *)
LinksSound ==
    \A n \in Names : Root[n] \in Data =>
        Root[n] \in Used /\ \A m \in Names : Root[m] = Root[n] => m = n
NoCrossLinks == host # "freeing" /\ ~torn => LinksSound

(* VERSION.TXT never names another firmware than the one that runs         *)
(* (main.cpp:245-248); on a full volume it may be empty.                   *)
VersionNeverStale ==
    phase = "serving" /\ ~torn => fs_read(Version) \in {firmware, Empty}

(* A flush leaves every earlier result alone, also one from before a       *)
(* reboot, as long as there is a name left (main.cpp:107-108).             *)
NameLeft == \E k \in Results : ~fs_exists(k)
Untouched == \A k \in Results : kept[k] # Absent => kept'[k] = kept[k]
NeverOverwritten == [][runs' # runs /\ NameLeft /\ ~torn => Untouched]_vars

-----------------------------------------------------------------------------
(* Two statements of the code's own documents that fail.  LinksSound fails *)
(* as well: nothing repairs what a host left that was cut off.             *)

(* "Files are never overwritten" (docs/architecture.md): not when all the  *)
(* numbers are taken, for fs_next_free_name() then returns the last one.   *)
AlwaysANewName == [][runs' # runs => Untouched]_vars

(* "a fresh device ships an editable config on the mounted USB drive"      *)
(* (main.cpp:229-231): not when power failed while it was being written.   *)
ConfigServed == phase = "serving" => fs_read(Config) \notin {Absent, Empty}
=============================================================================
