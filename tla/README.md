# POPSLoader in TLA+

Models of the parts of POPSLoader whose correctness depends on the order of
events: a background thread against the Lua thread, file replacement against
power loss, drivers staged for one device against launches on another, mount
slots against everybody who wants one, IOP drivers against interrupts and late
answers.  Each module is translated from the source; `PROJECT.json` maps every
definition to its lines.

`system.lua` and `ui.lua` are in `bin/POPSLDR/`, the C and C++ files of the
program in `src/`, its IOP modules in `iop/` and `modules/`.

## 1. The system

POPSLoader is a PlayStation 2 menu that lists PS1 games (VCD files) found on
memory cards, USB, MX4SIO, MMCE, internal drives (APA/PFS or exFAT), SMB shares
and UDPFS servers, shows their cover art, and hands the machine to POPSTARTER.ELF
(or DKWDRV, BOOT.ELF, the Ember core).  A C++ runtime (`main.cpp`,
`luaplayer.cpp`) loads the IOP drivers and runs two Lua programs: `system.lua` (the
model: devices, settings, launches) and `ui.lua` (the screens).  Lua runs on one
EE thread, frame by frame; the only other EE threads are the resident cover
worker (`luagraphics.cpp`) and the ATA bring-up worker (`luasystem.cpp`).  All
device I/O is remote calls to the IOP, which block their caller; on the IOP, the
drivers have threads, interrupts and alarms of their own.

| Component | State it keeps | Operations | What makes it hard | What makes it correct |
|---|---|---|---|---|
| Cover worker and cover cache (`luagraphics.cpp`, `ui.lua` CoverCache) | one C request slot, the worker's locals; texture cache, eviction order, miss memo, pending request, selection | coverLoadBegin/Poll/TextPath/Text, the worker loop; UpdateSelection, Pump, eviction, Quiesce | the worker outranks Lua and runs between any two C calls; answers arrive after the selection moved | strings live while read; textures held once; a row shows its own art; requests settle |
| Atomic file replacement (`system.lua` WriteAtomic, PromoteTmpToDest) | `dest`, `.tmp`, `.bak` | a dozen file calls | each call may fail, the power may go; rename is copy + remove | a version survives; the answer is true |
| Settings store (`system.lua`) | settings in memory, sidecar and memory-card copies, the pinned path | load with probing, encode, save with takeover and fallback | a sidecar that mounts late; two copies of different age | the next boot reads the last save |
| BDMA staging (`system.lua`, Settings commit) | the driver pair and marker on the card, mode and Adaptive switch in memory and file | staging at launch, commit with rollback, boot reconcile, deletion | partial writes; a marker that outlives its files | a launch runs with its pair |
| PFS mounts (`system.lua`, `luaHDD.cpp`, `etc/boot.lua`) | four mount slots, the Lua record of them, the boot slot and its read-write flag | scan, art lookup, hide markers, settings takeover, launch preparation | record and IOP differ; a failed mount unmounts; one partition cannot be mounted twice | the record is true; the boot slot is the boot partition's |
| Storage bring-up (`main.cpp`, `luasystem.cpp`, `luaHDD.cpp`, `system.lua`) | driver latches, HDDLOADSTATE, the exFAT page's sweep | boot chain, ensure*, Load_HDD_IRX, clearATA | slow drives, bounded retries, latches cleared under a live driver, restarted scripts | one copy of a driver stays, nothing counts as up half loaded |
| ATA block driver (`iop/ata_bd_fast`) | one command state, one event flag, one alarm | probe, commands, DMA and PIO, block requests, flush, stop | late interrupts and alarms; no lock, and ps2hdd as a second user | what is reported done was done; calls return |
| Network stacks, UDPFS configuration (`luasystem.cpp`, `system.lua`, `ui.lua`) | module latches, SMB session, ministack's address, `.pldr-pending` journal | EnsureNet, EnsureSMB, connect, refresh, disconnect, PrepareUdpfsConfig | two stacks, one chip; load-once modules; a journal replayed after a crash | one stack; lists served afresh; no torn configuration |
| Game lists and caches (`system.lua`, `ui.lua`) | list, marks, memo, cache files with a signature, filters | open, scan, reveal, hide, Settings | stale caches, and one that is overwritten in place | marks are the device's; no game is lost |
| Retro GEM (`retrogem.cpp`, `ui.lua`) | the id, the frames that show it | read the disc image, draw | every sector may fail | never a guess |
| Launch and ELF handoff (`system.lua`, `elf.c`, `loader.c`) | mounts, keep mask, the child's memory | prepare, check, copy the child, wipe, load, reset | a launch that comes back; no way back from the child | no reset over a mount; only the medium can still fail |
| Fonts, images, screen (`fntsys.cpp`, `atlas.cpp`, `graphics.cpp`) | font slots, glyph caches, atlases; what a load holds; two frame buffers and a semaphore | load, size, draw, release; decode; flip, fade, change mode | one font's load throws away what all others cached; longjmp; interrupts | glyphs keep apart; loads are clean; flips return |
| Controllers (`pad.cpp`, `luacontrols.cpp`, `ds34usb`, `ds34bt`) | pad port state, the binding, USB slot with its semaphore, Bluetooth slots and links | set up, poll, attach, detach, connect, reconnect | late transfers, late alarms, events and data in no order | nothing is pressed that nobody presses; calls return |
| Scenes, modals, input (`ui.lua`) | scene, transition, modal, settings draft, key state | SceneChange, draft edit/apply/discard | requests during a transition | |
| Ember, BDM query, pademu, build tools | | | see section 8 | |

The components meet in four places: the file calls (every one may fail), the
settings (mode, paths), the modules on the IOP (loaded once, by whoever comes
first), and the handoff, where the cover worker, the mounts and the drivers on the
card must all be in the state the next program expects.

## 2. Modules and plan

| Module | Models | Composes or refines |
|---|---|---|
| `CoverSlot` | what the cover worker promises: one slot, one answer per request | abstract specification |
| `CoverWorker` | the worker thread, the shared slot, CoverCache | implements `CoverSlot` (`Slot == INSTANCE ...`) |
| `AtomicFile` | one atomic replacement, file call by file call | |
| `SettingsStore` | the two copies of the settings, load, save, boot after boot | extends `AtomicFile`: the sidecar's calls are its actions |
| `BdmaStaging` | drivers, marker and mode over launches, saves, boots | takes a file write to be what `AtomicFile` shows |
| `PfsMounts` | mount slots, their record, and every handler that mounts | |
| `DeviceBringup` | every storage driver's start and latch, the exFAT sweep | |
| `AtaDriver` | the driver of the internal drive | |
| `NetStack` | the two stacks and the scenes that use them | |
| `UdpfsConfig` | the configuration files a UDPFS launch makes | extends `NetStack`: the launch comes out of its list, with its address |
| `GameList` | lists, memo, cache files, hidden games | |
| `RetroGem` | the game id, from disc image to picture | |
| `ElfHandoff` | from the choice of a program to its entry | |
| `GameLaunch` | a game from its row in the list to its start | composes the three above |
| `GlyphAtlas`, `Fonts` | the packing of glyphs; font slots and their glyph caches | `Fonts` extends `GlyphAtlas` |
| `ImageDecode` | what a load of a PNG or BMP holds and gives back | |
| `Screen` | frame buffers, vertical blank, modes, fades | |
| `Graphics` | all drawing, a call of the main thread at a time | composes the four above |
| `PadPort` | the wired port | |
| `Ds34Usb` | the USB controllers' IOP module | |
| `Controllers` | a frame's reading of the controllers, and the boot's binding | extends `Ds34Usb`, `Pad == INSTANCE PadPort` |
| `Ds34Bt` | the Bluetooth controllers' IOP module | |

`MC*.tla` give instances whose constants a `.cfg` cannot write; the others are
instantiated by their `.cfg` alone.  `*Proofs.tla` hold the proofs.

Definitions whose name ends in `_Something` are the definition of the same name with
a plausible bug, kept next to it to show that the properties notice.  No module has
a RECURSIVE operator, parameters are CONSTANTS with a named ASSUME where one is
needed, and an action is a handler, a C call, or, where another actor can come
between, a step of one.

Every safety property of the runs is a theorem, and under each liveness property the part
that a prover can reach is one (section 5).  What the plan has left is what section 8 lists, and
whatever a later reading of the code adds.

## 3. Modules and code

### CoverSlot, CoverWorker

`CoverSlot` has three steps: Request, Answer, Collect.  `CoverWorker` is the code.

- *C statics* (`coverLoadState`, `-Token`, `-Result`, `-Path`, `-TextPath`,
  `-TextBuf`/`-TextLen`, the semaphore) are `state`, `token`, `result`, `path`,
  `textPath`, `text`, `sema`; `created` says that the thread exists.
- *The worker* is `wpc` and its locals: WaitSema, load_image, ReadSmallTextFile and
  the publication are a step each, since it outranks the Lua thread and blocks inside
  the two reads.
- *The Lua thread* is `uiPc`.  A CoverCache function is one step up to its C calls;
  coverLoadPoll, coverLoadTextPath and coverLoadBegin are steps of their own
  (`DrainOrphan`, `CoverLoadTextPath`, `CoverLoadBegin`), so that the worker can run
  between any two.  Refusals of coverLoadBegin (slot in use, malloc, CreateThread)
  are a disjunct.
- *Textures* are a heap of `MaxTextures` cells, each with the path it was decoded
  from; `entries` and `order` are the cache and its eviction queue, `failed` the memo
  of misses.
- *Users* select rows, leave and enter lists, launch games and tools; a launch runs
  Quiesce frame by frame, and may be refused and come back.

### AtomicFile, SettingsStore

`AtomicFile` has one step per file call of WriteAtomic, WriteBytesAtomicBounded and
PromoteTmpToDest, with System.rename as the copy and the remove it is.  A call fails or
the power goes at any step; both count as a mishap.  A copy that fails leaves the
target torn.

`SettingsStore` puts LoadSettingsNonFatal and SaveSettingsAtomic around it: the sidecar's
three files and the calls on them are `AtomicFile`'s, `card` is the fallback.  Where the
sidecar is (`kind`) is chosen at the start: on a stick that comes back some time after the IOP
reset, on a device that is there, on the boot partition (read-only or not), or nowhere.
`ProbeAgain` is one more pass of the boot's probe; `SaveToCard` and `SaveToSidecar` are a save
up to its first file call, with the takeover of the partition; `SaveEnds` is the fallback and
the answer.

### BdmaStaging

The two driver files, the marker, the mode and the Adaptive switch in memory and in
the settings file.  `Launch` is MaybeApplyAdaptiveBdma and the UDPFS launch;
`Commit`, `SaveSettings`, `StageFile`, `WriteMarker`, `AdaptiveOff`, `Resave`,
`Finalize` are CommitSettingsChanges with ApplyBdmaMode and its rollback; `Boot` is
the load with ReconcileBdmaModeWithEffectiveState.  What a failed write leaves
(`LeftBy`) is the old file, none, or a torn one, according to which writer is used.

### PfsMounts

`hdd` holds both truths: `at` and `rw` are the file server's mounts, `slots` and
`partitions` the record in HDD_MOUNT_STATE.  The operators on it are the functions of
the same job: `Mnt` is mnt() of `luaHDD.cpp`, `MountTracked`, `UMountTracked`,
`Remember`, `Forget`, `Resolve`, `GameMount` those of `system.lua`.  Handlers of the
Lua thread do not overlap, so each is one action that threads `hdd` through its calls
in order; `bad` is the set of mounts that fail while it runs.  The scan is several
actions, since its partitions are visited in a loop with progress drawing between.
`Launch` makes the list's search, the launch's own search, the source context, the
gate, the cold or warm preparation and the loader's mount, in that order, and ends at
any of the early returns.

### DeviceBringup, AtaDriver

In `DeviceBringup`, `todo` is what the current operation still has to load; `Load` is one
LoadIrxCheckedBuffer, which fails, stays, or leaves (returns 1 and is unloaded, which counts
as a success).  A second ata_bd leaves too, but only after it has reset the bus, taken the
interrupts and handed a ready drive to BDM; `taken` says that this happened.  The chains are
those of main() and of the ensure functions, a latched module is passed over.  `Pass` is a
pass of the exFAT page's sweep, the last of which ends in clearATA.  A script error restarts
the script with the C latches as they are.

`AtaDriver` has the drive, its interrupts, the alarm and the threads as actors.
`CommandStep` follows ata_io_start and ata_io_finish, `RequestStep` the block request cut
into commands and retried, `InitStep` the probe of both devices; `flag` is the event flag
with the bits that may still be set from an earlier command.  Its users are _start, BDM's
mount thread and, once `LoadPs2hdd` was taken, ps2hdd.  What two threads do to the one
command state is not modelled: when they meet `clash` is set, and the properties but
`OneConsumer`, which says how they can have met, speak of the time before.

### NetStack, UdpfsConfig

`Loads` is a step of either module chain, `NetUp` the link and the lease, `Connect` the
log-on, the choice of a share and the mount of its folder, and `Scenes` what Settings and
the two lists do.  `latched` are the C statics.  `UdpfsConfig` goes on when a game of the
UDPFS list is picked: one step per file call of PrepareUdpfsConfig, over two files on two
cards, with `journal` beside each, until the launch is refused, cut off or goes on.

### GameList, RetroGem, ElfHandoff, GameLaunch

`GameList` has two pages, which stand for the two kinds of cache.  `rows`, `marks`, `memo`,
`files` are the code's tables and files; `files` carry the signature they were saved under.
The history variables name what the properties have to leave out (`strayed`, `lacking`).
The drive's file is written in place over the old one: `Mixed` is what may be left of both
when a write does not go through, `Wiped` a removal that works or does not.
`RetroGem` reads the volume descriptors, the root directory and SYSTEM.CNF a sector at a
time, each of which may fail.  `ElfHandoff` has the Lua preparation of each kind of launch,
the checks of the parent loader in their order, the mounts, the copy of the child, the wipe
of the user memory (`memory`), the child's own load and the reset; a refusal goes back to
the menu with the mounts as they are by then.  `GameLaunch` runs them one after the other.

### GlyphAtlas, Fonts, ImageDecode, Screen, Graphics

An atlas is its free leaves in search order and the places taken.  `Fonts` has a
glyph cache and atlases per slot, which a change of size, a release, or the load of any font throws
away; a glyph is placed when it is first measured or drawn.  `ImageDecode` follows load_image
through both decoders: `ptr` says of each thing whether it is held, null, or
freed and still pointed to.  `Screen` has `hidden` and `shown`, what the two frame buffers
show, and the vertical blank as an action of its own.

### PadPort, Ds34Usb, Controllers, Ds34Bt

`PadPort` is initializePad step by step.  `Ds34Usb` has the USB thread's callbacks and the
RPC thread as actors over one semaphore, one alarm argument and one buffer, in which a
command, a report and the report of a controller that is gone are told apart; `data` is what
the menu is told, which is kept until something else is read.  `Controllers` adds the boot's
binding and one frame's calls; `stayed` are the controller modules whose load did not fail.
In `Ds34Bt` the dongle's events are a queue, the links' data come in no order with them;
`HciEvent` and `L2capEvent` are the two callbacks, `Drop` is a disconnect that may be lost
on its way to the dongle, and `polled` is the menu between its two calls.

## 4. Runs

All runs pass.  States are distinct states found.

| Run | Question | Instance | States |
|---|---|---|---|
| `cover_safety` | are the shared strings, the textures and the selection safe under every interleaving? | a row of the drive (cover, icon), a row of a mass device (cover, details); 2 cache entries, 3 textures, 1 retry, 2 frames of Quiesce, 2 tokens | 3.2 M |
| `cover_service` | do the statics implement the one-slot service, and does every request settle? | a row with two cover candidates and details, a row without art | 139 k |
| `bdma_staging` | do launches run with their drivers, and are saves kept or undone? | two plain variants, one verified, FAT32; up to 2 mishaps | 691 k |
| `pfs_mounts` | boot slot, record and game mounts, whatever fails | one partition of each kind, every mount may fail | 61 k |
| `net_stack` | one stack on the chip, lists served afresh, every attempt ends, no torn configuration | 2 addresses, 2 waits of 30, 2 share choices of 3, 2 mishaps | 85 k |
| `device_bringup` | does one copy of a driver stay, is none reported up half loaded, is a slow drive found? | 2 passes of 10, 1 failed load, 1 script error | 483 k |
| `ata_driver` | was what is reported done done, how can two threads be in the driver, do calls return? | 2 sectors, 28-bit commands of 1, 48-bit counts that wrap at 3, 2 tries of 3; a DVRP with a slave or without, ps2hdd as another user | 531 k |
| `atomic_file` | are the answers of a save true, and does the next boot read it? | 2 versions, up to 3 mishaps, all four kinds of place | 1.8 M |
| `elf_handoff` | from the list to the program: marks, games, id, mounts, and no dead end but the medium | a drive with 1 game, a card with a game of 2 discs, 2 partitions, 1 KB arguments, every disc of at most 3 descriptors, 2 root sectors and 2 lines | 1.4 M |
| `graphics` | glyphs, loads, buffers, flips | 2 font slots, 2 atlases of 4 by 4, 3 glyphs, 2 sizes, 2 fade frames of 8, 2 modes | 230 k |
| `controllers` | is what the menu is told of a controller its own report, and does the menu answer? | a DualShock 3 or 4, either module, both or none resident, 2 transfers, 2 ticks, 1 rebuild | 197 k |
| `ds34_bluetooth` | do slots follow links, and is a button pressed that nobody holds? | a DualShock 3 and a DualShock 4 for the one enabled slot of 2; 2 events | 732 k |

*What the properties leave out* is stated with each.  In short: `TexturesHeldOnce` is for
one icon candidate per row; the answers of a save are true for at most one mishap since the
files were last clean; `BootReadsTheLastSave` is not for a power loss or more than one
failed call in a save, a stick that came after the third pass, or a fallback beside an older
sidecar; `ListsAreServedAfresh` is about refreshes for SMB; `ConnectEnds` names the driver
that refuses a link mode for ever (`RefusedForEver`), `MenuAnswers` the module that is not
there (`BindsForEver`), `SlowDriveIsFound` the second ata_bd; `OkMeansServed` and
`CallsReturn` of the drive are for the time before two threads have met, and `OneConsumer`
says when they can; `MarksAreTheirs` and `NoGameLost` are not for a cache that missed a
change or was not written whole, nor `NoGameLost` for a list that was short when it was
scanned; `OnlyItsReportsAreTold` begins with a controller's first report;
`PressOnlyFromRunningPad` names the dongle pulled out in the middle of a poll, and
`PlayerKeepsThePad` a slot that was promised to another controller.  Section 7 says what the
code does in these cases.

*Bounds.*  Covers: two rows are enough for every stale answer (the selection is the row asked
or another), two candidates for the search to go on, three textures for a full cache and one
in flight, two tokens because only the last request is compared.  Files: three mishaps reach a
power loss after any pair of failing calls in a save.  Mounts: one partition of each kind is
enough for two of them to compete for a slot (the drive has four slots, and no handler holds
more than one game partition); the theorems hold for any sets of partitions.  Network and
drives: two passes of a wait or sweep are a first and a last one; a count of 30 or 10 adds
more of the same.  Configuration files: what is on the cards is chosen when a game is picked,
the network is dropped then, and nobody else edits the cards.  ATA: two sectors against
commands of one make a request of several commands, one try more than one makes a retry.  The
constraint `Explored` ends a behaviour where two threads have met, since nothing is said of it
from then on, and has BDM only flush beside a slave and ps2hdd come to a drive of 48-bit
addresses and flush it: one call of each is enough to meet.  Launch: the parts follow one
another, so a part's state is dropped when it is over; what the discs and drives hold is
chosen when first looked at; a launch that comes back goes on in the last part; nobody else
edits a device; one game per partition.  Graphics: fonts and images share nothing, so an image
is loaded while there are no fonts; atlases of 4 by 4 hold from one glyph to four, so that
both cuts, full atlases and a full set of them happen.  Bluetooth: two controllers for one
slot are the contest; two events held back make every order of two.

`CHECK_DEADLOCK FALSE` is set for `elf_handoff` only: a program that has started, or a
child loader that has given up, stops the system for good.

*Fairness.*

- `CoverWorker`: `WF(Worker)`, the card answers and the thread, which has the higher
  priority, runs; `WF(CCall)`, a C call that was begun returns; `WF(Pump)` and
  `WF(QuiescePoll)`, the frame loop keeps calling them while their screen is shown.
- `NetStack`: `WF` of the one EE thread.  Nothing is assumed of the driver that is asked
  for a link mode.
- `DeviceBringup`: `WF(Loading)`, the EE thread; `WF(~taken /\ Drive)`, a drive that is there
  comes up, unless its driver has lost its interrupts; `SF` of opening the exFAT page, since
  `SlowDriveIsFound` is about a user who keeps trying.
- `AtaDriver`: `WF` of the IOP's threads, its timer and an enabled interrupt.  The drive owes
  nothing: a call returns although no interrupt ever comes.
- `Graphics`: `WF(Interrupt)`, the television's clock, and `WF` of the main thread.
- `Controllers`: `WF` or `SF` of threads, alarms, semaphore waits, and the registration of the
  modules that stayed.  No transfer ever has to end; the port is never ready if it does not
  like.

Nothing else is assumed of the user, the network, drives or controllers.  `SettingsStore`,
`BdmaStaging`, `PfsMounts`, `GameLaunch` and `Ds34Bt` are about safety.

## 5. Proofs

All by TLAPS, for every value of the constants their ASSUME allows.  Each theorem rests on an
inductive invariant (`IInv` unless another name is given) of which TLC checked the parts first.

- `CoverWorkerProofs`: `TypeOK`, `LatchedPathsAlive`, `SelectionShowsItsOwn`,
  `PendingOwnsSlot`, `QuietHandoff`.  The invariant ties the semaphore, the slot and
  the worker together (`OneJob`: busy means signalled or running), says in which
  states a C call sequence may be, and what the slot holds for a request that was
  accepted.  None of the five is inductive alone: that a row shows its own art needs
  that the answer belongs to the pending request, which needs that nobody else could
  fill the slot.  `TexturesHeldOnce` needs more (`Shelf`: the eviction queue is the cache
  without repetition, what is on screen is cached, the candidates before the one asked for
  are not) and the hypothesis `OneIcon`, at most one icon candidate per row, which is what
  every page but the UDPFS one gives; with two it is false (section 7).
  `WorkerIsOneSlot` is the refinement: every step of the worker and of the Lua thread is a
  step of `CoverSlot` or a stutter.
- `SettingsStoreProofs`: `TypeOK`, `SavesAnswerTruly`, `ACopySurvives`, for one save over
  whatever the files hold (`AtomicFile`'s `Spec`).  The invariant says at each step which of the
  three files holds which version while at most one mishap has happened (`Writing`, `Promoting`,
  `RollingBack`, `Untroubled`).  The last two again, and `BootReadsTheLastSave`, for
  `SettingsSpec`, boot after boot, from `SInv`: that invariant, `WhereItIs` (the version last
  reported as saved is on the card, or was in the sidecar when the running save began) and
  `StillRead` (what the last boot read is that version).
- `BdmaStagingProofs`: `TypeOK`, the three properties of `bdma_staging`, `CommitTakes` and
  `ManualLaunchWritesNothing`.  The
  invariant says how far a staging has come (`Progress`), for whom it is
  (`Staging`), what a card without mishaps holds (`Undamaged`), what memory and file
  agree on during a save (`Saving`) and what the marker names in manual mode
  (`Agreement`).
- `PfsMountsProofs`: `TypeOK`, the three properties of `pfs_mounts`, `BootRWIsTrue` and
  `HandoffMounts`.  A handler makes
  a dozen mounts in a row, so the invariant is a predicate on the mount record that
  every operator preserves (`Sound`: the record true, pfs1 the boot partition's and
  writable if the flag says so), plus `Quiet`: no game
  partition mounted between handlers, and none on record either, since the partition
  that the loader is told to mount is read from the record.
- `UdpfsConfigProofs`: `ConfigTypeOK` and the safety properties of `net_stack`.
  `Network` says how far each chain of modules is and that a step of one excludes what the other has
  loaded (`InChain`, `Chip`), and which sessions a scene may have (`Session`).  `Launching`
  follows the journal: a torn file is under a whole journal, and a file with a journal is one a
  launch made, never the user's (`Vouched`); which journals are left at each step (`Journals`);
  and the file that takes effect has the address of the lease (`Made`).
- `GameLaunchProofs`: `LaunchTypeOK` and the six properties of `elf_handoff`.
  `Handoff`: under which slots and mask a launch is at each of its steps (`Slotted`), which
  partition its path and context name and that the file is there once that was looked
  at (`Routed`), what it will be told (`Told`).  `Gem`: what the sectors
  read so far do not hold (`Without`), so that the first found is the first there is.
  `Lists`: each cache, the memo and the screen agree with the .hide files and
  hold what the filters leave, unless their page is in the history variables.
  `DoomedOnlyByMedia` has the hypothesis that what a launch brings fits the child loader's storage
  (`Sizes` below `ChildRoom`); without it the child dies of its arguments (section 7).
- `GraphicsProofs`: the safety properties of `graphics`.  `FontInv`: the free leaves and the
  used places of an atlas share nothing and lie in it, and what the cache names is a place of
  its own with that very glyph in it (`AllSound`, `CacheHolds`).  `ImageInv`: what is held at
  each step of both decoders.  `ScreenInv`: how many of the two frame buffers a fade has made
  black.
- `DriverProofs`: `BringupTypeOK`, `StackIsSound` (`Once`: a driver that runs has its latch;
  `Ladder`: how far the APA chain is, since ps2fs cannot be up without ps2hdd and ata_bd).
  `AtaTypeOK`, `InRange`; `OneConsumer` and `OkMeansServed`, for any users of the library:
  until ps2hdd is there and without a slave no two threads can meet (`Mounting`: BDM has no
  device before the probe is over), and until two have met, a request is served by one thread
  (`Serving`: what the drive has confirmed is what lies before the command of the moment).
  For Bluetooth `TypeOK`, `PadsFollowTheirLinks`, `PressOnlyFromRunningPad` and the action
  property `PlayerKeepsThePad`: the queue of events tells the start, the end and the next
  request of a link in order (`InOrder`, `LinksAreTold`), a handle is one slot's and that of a
  link the driver still hears of (`HandlesAreLinks`), and a slot that reports runs
  (`SlotsInUse`), whatever disconnects are lost.  On USB `UsbTypeOK` and
  `OnlyItsReportsAreTold`, for either controller: `UsbInv` says what the buffer may hold at
  each step of setting up a controller and of reading it (`InTurn`), and who owns the
  semaphore (`Owned`).

*What is proved of liveness.*  That something happens in the end needs fairness and ENABLED,
which no installed prover handles, but it rests on two kinds of facts that are safety, and
these are theorems.  A thread that waits has somebody who will signal it:

- `UsbWaitersAreSignalled` (`NobodyIsStranded`): the slot's semaphore is free, or the driver's
  thread is on its way to give it back, or an alarm is set that nobody can cancel;
- `AtaSleepersAreWoken` (`SleepersHaveAlarms`): until two threads have met, a thread asleep on
  the event flag has the driver's one alarm, and it is its own (`AlarmInv`);
- `RequestsRunOut` of the covers, first half (`AnswerIsComing`): an accepted request is answered, at
  work, or signalled to a thread that exists;
- `FlipsRunOut`, first half (`FlipInv`): the vertical blank is hooked whenever it is waited for.

And a loop counts down: a measure over the naturals, in lexicographic order, that every step of
the loop lowers and no step of anybody else raises (a user who selects another row starts a
search of its own):

- `RequestsRunOut` of the covers: candidates, retries, C calls and the worker's steps;
- `ConnectionsRunOut`: rounds of the share list, stages, tries of the link and of the lease (a
  refused link mode apart, whose loop has no bound in the code either);
- `OpeningsRunOut`: the modules of a chain, the passes of the sweep.  The boot, which skips
  from a failed iomanX or fileXio to the USB modules, needs `InBootOrder`: those are fewer
  than what was to come;
- `RequestsRunOut` of the drive: sectors, and the tries of a chunk;
- `FlipsRunOut`: the flips of a frame, a fade or the boot, and the steps of one;
- `SetupsRunOut`: the stages of initializePad and the ticks of each wait.

The step from there to `~>` is what the runs check.

*Proved without a run:* `PendingOwnsSlot`, `QuietHandoff`, `WorkerIsOneSlot`, `CommitTakes`,
`ManualLaunchWritesNothing`, `BootRWIsTrue`, `HandoffMounts`, `InRange`, the types, and the facts
listed under liveness.

*Only model-checked:* liveness itself (`RequestsSettle`, `ConnectEnds`, `SlowDriveIsFound`,
`CallsReturn`, `FlipsReturn`, `MenuAnswers`, and the fairness in `OneSlotService`, whose steps are
proved), which is out of the prover's reach.

## 6. Assumptions

- The drivers report a write that fails at the write; doesFileExist is truthful.
- A file that cannot be removed cannot be written (`BdmaStaging`).
- The PFS file server refuses a slot in use and a partition mounted elsewhere; a
  failed mount leaves the slot empty, because mnt() unmounts it.
- POPSLoader is not installed on a partition of games; POPSTARTER Path is Automatic.
- A path of another device may have a POPSTARTER.ELF of its own or not, whatever the
  device is: more than the code can meet.
- Token wrap-around: request ids are reused after `TokenBound` requests, where the
  code counts on; reuse can only confuse more.
- Nothing is said of what two threads that have met in the ATA driver do to each other.
- The child loader gets no more than 1 KB of arguments (`Sizes`): the instance of `elf_handoff`,
  and the hypothesis of one theorem.
- The named ASSUMEs say that bounds are numbers (at least one where the code's constant is:
  passes, tries, frames), that model values for "nothing", "torn" and "none" are no addresses,
  partitions, versions or controllers, that no controller is both a DualShock 3 and 4, that
  a glyph has a width and a height, that later discs are games and that what is tried
  (`Images`, `Faulty`, `Kinds`, `Rooms`) is of the kind it stands for.
- The Bluetooth dongle works off the commands that reach it in order, the controllers do as
  they like.
- gsKit, libpng, FreeType, the pad library and the USB stack end what they are asked to,
  well or not.

## 7. Also observed

What the code does where a comment, a document or the reader would expect otherwise.
The models have each of these behaviours unless it says so, and the properties are stated
so as to leave it out.

*Covers.*  With two icon candidates the search looks at misses only (`ui.lua:872`) and
decodes again what the cache holds: the cell is overwritten and the texture lost.
Looking for an icon that is not there unmounts the slot of the cover that is
(`system.lua:912`, `luaHDD.cpp:87`).  Quiesce waits its full 120 frames when the slot is
idle.

*Settings and files.*  A backup that failed half way passes the test that it exists and
is put back in place of the original (`system.lua:4464`).  Loading never looks at the
.bak or the .tmp (5515); a save that fell back to the card is reported done and the next
boot reads the older sidecar (5400); a drive that mounts after the third pass is missed
(5530).

*BDMA.*  An interrupted staging leaves a mixed pair under the marker of the earlier one,
and the card looks equipped (`system.lua:7264`).  A UDPFS launch in manual mode leaves its
marker, which the next boot takes for the chosen mode (5355).  Saving FAT32 over drivers
somebody deleted keeps the marker.

*Mounts.*  Booted from the drive with POPSTARTER.ELF only on __common, the check that
follows the search unmounts it and the launch is refused (`system.lua:1480`).  A list from
memory is searched with the path of the page shown before (`ui.lua:3725`).  After a launch
that came back the C loader has left the boot partition on pfs0 and a takeover then fails
twice, leaving pfs1 empty (`system.lua:2349` announces it); the record may name another
partition for pfs0, which is why `RecordNeverLies` excludes pfs0.

*Network.*  Save Changes from the SMB list leaves the session open and the next entry logs
on over it (`ui.lua:5766`).  A journal torn by a power loss blocks every UDPFS launch until
it is removed by hand (`system.lua:8474`, by design).  A file the user puts at a
journalled name after a crash is deleted by the next cleanup (not modelled: nobody else
edits the cards).  The loop that waits for the link, sets its mode and waits again has
no bound (`luasystem.cpp:2283`): a driver that refuses the mode every time keeps the menu.

*Drives.*  A sweep of the exFAT page that runs out clears the latch of ata_bd also where it
is resident (`system.lua:6895`, `luasystem.cpp:2465`).  The second copy finds the library
registered and leaves, but by then it has reset the bus, registered its interrupt handlers
and given BDM the devices (`ps2atad.c:330`-380), all of which now point into memory that is
freed.  ps2hdd, which Load_HDD_IRX loads on the same library (`luaHDD.cpp:217`-242), is not
ordered against BDM's mount thread, where the comment at `ps2atad.c:1282` counts on one
consumer after the connect; until it is loaded that comment is right (`OneConsumer`).  On a
DVRP device 1 is probed again after its `exists` was forced to 0 (`ps2atad.c:1293`), and a
28-bit command may cross the capacity; the 48-bit length is a u16 and 0 for 65536 sectors,
which the callers do not reach.

*Lists.*  With Hide on, a game hidden with L3 is saved under the signature of the other
view, shown dimmed at the next entry and refused by L3 (against `ui.lua:4147`).  A reveal on
the drive fills the memo, which has no signature, with hidden games (3550).  A cache that
was off while games were hidden is accepted when it is on again.  The block at `ui.lua:4446`
is dead.  An L3 after Settings saves rows of the old filters under the new signature, and
games are missing until R1.  hdd_gamecache.txt is overwritten in place, without O_TRUNC
(`system.lua:9170`, `luasystem.cpp:2645`): a power loss leaves a short file that begins
right and is accepted, and the end of a longer one stays behind a shorter and brings marks
back.  A short write is removed, if the removal works; the one in WipeCache may fail as
well, and "a leftover stale file is harmless" holds only of one with another signature.  A
partition that fails to mount makes a short list that is kept.

*Retro GEM.*  `-retrogem=` and `-noretrogem` have no effect: the switch is set before the
settings reset it (`system.lua:2447`, 5476, 5655).  A name such as "Doom_II.VCD" passes for
a title id.

*Handoff.*  The child keeps 1 KB of arguments where the parent accepts 2 KB, so a
launch with more dies in the child.  A path over 255 characters is checked whole and loaded
cut.  A refusal with -11 leaves pfs0 mounted.  The additions to the keep mask in
ExecuteHddBackedViaEmbeddedLoader have no effect.

*Graphics.*  Loading any font sets every font to the default size (fntUpdateAspectRatio), so that
the small font loses its own (`boot.lua:176`, `ui.lua:1106`).  `previous` is never
set, so there is no kerning.  The allocation of a glyph page is not checked; readFile
leaks its handle when malloc fails; an 8-bit BMP leaves ClutStorageMode unset; VRAM
taken for a texture whose palette then fails is not given back; a blank between drain
and swap lets the next wait pass at once.  UI.flip's Transition.Update may free a cover
drawn earlier in the frame (`ui.lua:1671`, 2942).

*Controllers.*  What the menu is told of a controller on USB is kept over usb_release
(`ds34usb.c:186`, 553): the buttons the last one held when it was pulled out stay held until
the next one reports.  Before that first report a command may be read as one, of either
controller: the result of the last transfer starts as a success, the LED command of a
DualShock 4 and the first command of a DualShock 3 begin with a byte other than zero, and a
call that asked before the slot was set up parses what the buffer holds (`ds34usb.c:266`).
CancelAlarm is given another argument than the alarm was set with and never matches.  If a
module does not stay resident the boot's bind loop does not end (`libds34usb.c:26`,
`libds34bt.c`), although a failed usbd is meant to be read about on the menu's USB page
(`main.cpp:625`).  With the dongle pulled out between the two calls of a poll,
ds34bt_get_data answers with the request it was sent, whose bytes read as eight buttons
(`ds34bt.c:1524`, `libds34bt.c:126`).  hci_disconnect is sent without a look at its result,
from the buffer that the accept on the next line fills (`ds34bt.c:715`, 743): if it is lost,
the first controller finishes its set-up and plays until the Connect Complete of the other
takes its slot.  Over Bluetooth, a controller being set up is thrown out by a second one; a
late end of an old link clears the slot it no longer has; a failed read gives what was in
the buffer.

## 8. Not modelled

- `PfsMounts`: a custom POPSTARTER path, an HDD-resident DKWDRV.
- `BdmaStaging`: the -bdma switch, the case of the POPSTARTER folder switched off, marker
  names of old versions.
- `SettingsStore`: keys other than the mode and Adaptive BDMA are one version.
- `DeviceBringup`: the classification sweeps of MX4SIO, MMCE and USB units read the same
  list and change no latch.
- `AtaDriver`: the security exports (no caller), the Gamestar workaround, the register set of a
  DVRP beyond its two limits, the power-off callback of dev9, and what two threads that met
  in the driver do from then on.
- `GameList`: games of several partitions, sorting, search; a cache line cut in two is left
  out, since it names no game.
- Scenes, modals, the Settings draft, the keyboard, transitions: what they do to covers,
  lists and the network is in `CoverWorker`, `GameList` and `NetStack`; the rest changes what is
  drawn.
- Graphics: sound, text layout, the transformation of pixels, overscan, setVSync.
- Controllers: the charging driver, the table of imitation controllers, rumble and LED,
  the RPCs nobody calls, the USB and Bluetooth sticks.
- Ember: its settings file.  Its mounts and its handoff are in `PfsMounts` and `ElfHandoff`.
- BDM query module: its list is copied to a cache nobody reads.
- pademu: not built into the program.  Build, packaging and documentation tools: not
  part of it on the console.
