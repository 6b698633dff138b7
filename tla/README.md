# Verification of the boot firmware of Pavona

Pavona is a silicon root of trust: RTL, boot firmware, a cryptography library,
drivers, tests and host tools in one repository.  This project verifies the
part of it that decides what the chip runs and who owns it: the *silicon
creator* firmware in `sw/device/silicon_creator`, and in it the pieces whose
mistakes show only after a particular sequence of resets, requests, flash
errors and power cuts.

## 1. Inventory

### 1.1 The system at a glance

```
  host (SPI bootstrap, strap)
             │
  reset ── ROM ──► ROM_EXT ─────────────────────────────► owner firmware (BL0)
             │       │   boot_data_read / write                │
             │       │   ownership_init                        │ writes a request
             │       │   boot_svc_handler ◄── retention RAM ◄──┘ and resets
             │       │   rescue_protocol  ◄── host (XMODEM, USB/SPI DFU)
             ▼       ▼
     the two slots, boot data pages, owner pages, owner secret page (flash)
```

The ROM verifies and starts one of two ROM_EXT copies, or lets a host that
pulls the bootstrap strap erase and program the flash.  ROM_EXT reads the boot
data record, initialises ownership from the two owner pages, serves at most one
boot services request found in retention RAM, and then boots the owner firmware
or enters the rescue protocol.  Everything runs on one core without interrupts
that matter here, so concurrency comes from three places: **resets and power
cuts between and inside flash operations**, **owner firmware that runs between
two boots** (it writes requests and, in some states, owner page 1), and **a
host** at the other end of a rescue or bootstrap line, which may fall silent,
repeat itself, or be another host than the one that began.

### 1.2 Components

| Component | State it keeps | Operations | Hard behaviour |
|---|---|---|---|
| Boot data log (`lib/boot_data.c`) | two flash info pages of append-only entries | read, write (erase, program digest, program body, check, invalidate) | a power cut at any step; the scan must find the newest entry in whatever the cut left |
| Ownership (`lib/ownership/`) | ownership state, nonce, endorsed owner, transfers in the boot data record; two owner pages; the owner secret page; RAM copies of the pages and their status | init, unlock (any, endorsed, update, abort), activate, new-version update, seal, secret renewal, lockdown | an activation is seven flash operations on four pages; a cut between any two of them; requests that are left in retention RAM and met again |
| Boot services (`rom_ext/rom_ext_boot_services.c`) | the message in retention RAM, the RAM copy of boot data | empty, enter rescue, next BL0 slot, minimum security version, unlock, activate | a request is answered in place, so an interrupted one is served again; durable and one-time effects of the same handler |
| ROM_EXT boot flow (`rom_ext/rom_ext.c`, `rom_ext_boot_policy.c`) | RAM copies, boot log | init, boot services, rescue decision, try next stage | errors that are ignored to keep booting; boot loops |
| Rescue services (`lib/rescue/rescue.c`) | mode, offset in the buffer, offset in flash, staged data | validate a mode, stage what it sends, take a block: firmware, owner block, request | an offset decided by the first block of a transfer and used by all later ones; a bank erased before it is known what comes |
| XMODEM rescue (`rescue_xmodem.c`, `xmodem.c`) | frame number, mode bytes received | receive, acknowledge, end of file, send, mode change, inactivity | damaged, lost and repeated frames and acknowledgements; a host that falls silent |
| DFU rescue (`dfu.c`, `rescue_usb.c`, `rescue_spi.c`) | protocol state and error, interface, expected length | set interface, vendor mode, download, upload, status, state, clear, abort | requests in any order; hosts that stop; two transports that report the end of data differently |
| Retention RAM (`lib/drivers/retention_sram.c`) | request or response, boot log, reset reasons | survives a reset, lost at a power cut | initialised by the ROM |
| ROM boot (`rom/rom.c`, `boot_policy.c`, `boot_rom_ext.c`) | the boot attempt under way | choose the first slot, verify, try the other one, boot | a slot that looks newer and is not whole; words that cannot be read; a minimum version that rules a slot out |
| ROM bootstrap (`rom/bootstrap.c`, `lib/bootstrap.c`) | erase, verify or program state; the SPI status register | chip erase, verify, sector erase, page program, reset | commands out of order; a busy bit that only the handler clears; power cuts in the middle |
| Shutdown (`lib/shutdown.c`) | - | reset, never returns | part of the boot cycle |
| Flash controller driver (`lib/drivers/flash_ctrl.c`) | - | read, write, erase, permissions | reports errors; cuts |
| Boot log (`lib/boot_log.c`) | a report in retention RAM | init, digest | can disagree with what is durable |
| Sigverify, certificates, keymgr, drivers, hardened primitives | hardware state | verify, derive | cryptography: abstracted to who signed what |
| Hardware (`hw/`), cryptolib, DIFs, host tools, manufacturing, tests | - | - | outside this project, see section 7 |

### 1.3 What makes each component correct

* *Boot data*: one record at all times; replaced atomically; never an older one
  after a newer one; a write that returned `kErrorOk` is never undone; the scan
  never traps.
* *Ownership*: the owner changes only by an activation in a state unlocked for
  it; a locked device keeps a sealed page; every change of ownership state uses
  up its nonce, so no signed request is served twice; no sequence of cuts
  leaves a device that cannot boot, or that nobody can bring back.
* *Boot services and boot flow*: a request is served once; a slot override is
  for one boot; the minimum security version never falls but by an owner's
  configuration; no boot loop.
* *Rescue*: what is acknowledged is stored whole and in its place, what is
  uploaded is what the chip holds, the ROM_EXT that runs is never written, a
  bank holds at all times a first part of one file; an operation ends.
* *ROM*: what runs is whole, signed and new enough, whatever updates and
  bootstraps left behind; a chip that was never bootstrapped boots; a bootstrap
  that ends has programmed its file; no host polls for ever.

## 2. Modules

| Module | Models | Extends / uses |
|---|---|---|
| `BootRecord` | what `boot_data.h` promises: one durable record, replaced atomically | |
| `BootData` | `boot_data.c`: the two pages, every flash operation a step | refines `BootRecord` |
| `BootDataProofs` | theorems about `BootData` | `BootData`, `TLAPS`, `WellFoundedInduction` |
| `OwnerBlock` | an owner page as ROM_EXT sees it: validity, signatures, parsing, who may transfer to it (`owner_block.c`, `ownership_key.c`) | |
| `Ownership` | `ownership.c`, `ownership_unlock.c`, `ownership_activate.c` in a boot cycle with power cuts | `OwnerBlock`, `BootRecord` |
| `OwnershipProofs` | theorems about `Ownership`: its type, replay, what remains sealed | `Ownership`, `SequenceTheorems`, `TLAPS` |
| `OwnershipPageProofs` | theorems about what is sealed for whom, and what a locked chip boots with | `OwnershipProofs` |
| `MCOwnership` | owner blocks for the runs of `Ownership` | `Ownership` |
| `RomExtBoot` | the boot flow of `rom_ext.c`, the other boot services, boot policy, boot log, entry to and exit from rescue | `BootRecord` |
| `MCRomExtBoot` | requests and chip configurations for its runs | `RomExtBoot` |
| `RomExtBootProofs` | theorems about `RomExtBoot` | `RomExtBoot`, `TLAPS` |
| `RescueService` | `rescue.c`: what the two rescue protocols share, as operators on session and store | |
| `RescueServiceProofs` | lemmas about those operators | `RescueService`, `SequenceTheorems`, `TLAPS` |
| `FirmwareSlot` | what rescue may do to one bank: begin a file, go on with it, break off | `RescueService` |
| `XmodemRescue` | rescue over a serial line, with the host | `RescueService`; refines `FirmwareSlot` once for each bank |
| `MCXmodemRescue`, `XmodemRescueProofs` | files and chips for its run; theorems about it | `XmodemRescue` |
| `DfuRescue` | rescue over USB and SPI, with the host | `RescueService` |
| `MCDfuRescue`, `DfuRescueProofs` | files and chips for its runs; theorems about it | `DfuRescue` |
| `Rom` | ROM: bootstrap, choice of the slot, boot; what ROM_EXT and its updates do to the slots | |
| `MCRom`, `RomProofs` | images, files and commands for its runs; theorems about it | `Rom` |

`BootData` is the only module that knows about boot data pages.  It is shown to
implement `BootRecord`, and `Ownership` and `RomExtBoot` write the record
through an instance of `BootRecord`: a `boot_data_write()` there is three steps
(`Begin`, then `Commit`, then `Succeed`, or `GiveUp` at any point), so that
power can fail before and after the instant at which the record changes.  `Ownership` and `RomExtBoot` share no other state: they model two groups of
fields of the record and two groups of requests, and each leaves the other's
alone, as the handlers do.  The handlers of `rescue.c` are written once, in
`RescueService`, and called by both protocols as in the code.

### 2.1 Boot data log

State: `flash[page][entry]` are the two info pages (an entry is a digest, the
`is_valid` words and a body); `pc` says at which flash operation
`boot_data_write()` stands, `job` holds its locals, `ram` the caller's copy,
`answer` what the last call returned, `faults` counts interruptions.

| Action | Code |
|---|---|
| `BootDataRead` | `boot_data_read()`: scan, version 1 conversion, default record |
| `BootDataWrite` | `boot_data_write()` up to its first flash operation: scan, new counter, choice of entry (`Replace`, `CreateFirst`) |
| `ErasePage`, `WriteDigest`, `WriteBody`, `CheckWritten`, `Invalidate` | the flash operations of `boot_data_entry_write_impl()` and `boot_data_entry_invalidate()`, each whole, interrupted (power or reported error) or silently wrong |
| `PowerUp`, `PowerCut`, `Trap` | reset, power loss between operations, the hardened check of the scan |

A digest is the record it was computed from, so a digest matches exactly when
the body is that record: no accidental SHA-256 collision is modelled.  A word
that was cut short is `Torn`, and an interrupted erase may leave an entry as it
was, erased, with its `is_valid` words back in the erased state (an old entry
reads as valid again), or as noise.

### 2.2 Ownership

State: `record` is the part of the boot data record that concerns ownership
(state, next owner, minimum security version, number of transfers, nonce,
primary slot); `pages` are the owner pages in flash, each a block, signed and
perhaps sealed to the chip, or `Bad` (erased, torn, signed by nobody);
`secret` is the owner secret page, identified by the key history it was derived
from; `msg` is the boot services message in retention RAM.  `ram`, `copies` and
`config` are ROM_EXT's RAM: the copy of boot data, `owner_page[]` with
`owner_page_valid[]`, and the owner block whose configuration was applied.
`plan` holds the flash operations that the running function has still to do.
`holders` and `backups` are history variables: the owners that ran with the present
secret, and the blocks of the sealed pages that firmware or rescue could read.

| Action | Code |
|---|---|
| `Start` | `ownership_init()`: boot data and both pages are read; a page that cannot be read counts as invalid |
| `BeginUpdate`, `UpdateDone` | `locked_owner_init()`: a newer block of the same owner in page 1 is sealed in place, page 0 taken for invalid |
| `Mirror`, `CopyDone` | `locked_owner_init()`: the one good page is copied over the other, or Recovery |
| `UnlockedInit` | `unlocked_init()`: page 0 applied, then page 1 if it may be transferred to |
| `RecoveryInit` | `recovery_init` of `ownership_init()`: does nothing, the boot goes on |
| `ServeUnlock` | `ownership_unlock_handler()` and `do_unlock()` |
| `ServeActivate`, `ActivateDone` | `ownership_activate_handler()`, `ownership_activate()` |
| `SecretUnreadable` | `ownership_secret_new()` gives up when it cannot read the secret page |
| `SkipService` | a boot that serves no request |
| `FlashOp`, `FlashError`, `PowerCut` | each erase and program of an owner page or of the secret page |
| `SaveCommit`, `SaveDone`, `SaveFails` | `boot_data_write()` |
| `Launch`, `WritePage1`, `StageRequest`, `Reset` | the owner's firmware or rescue: writes page 1 when the lockdown lets it, leaves a signed request, resets |

An activation's `plan` is seal page 1, copy it to page 0, renew the secret: up
to six flash operations, then the boot data write.  A write that lacks only its
last words leaves a page that is signed but not sealed, because the seal is
stored last; any other torn page is `Bad`.  A signature is its signer: a page
carries the signature of the owner it names.

Where the lockdown leaves page 1 writable, `WritePage1` writes any bytes: a block
without a seal, garbage, or a page the chip sealed earlier, put back byte for byte
(`backups`; both pages can be read, and rescue hands them out), whose seal is still
good.  Only the chip can seal anything else.  In Recovery the lockdown leaves page 1
writable too, but no firmware is booted without application keys and rescue takes no
block.  A block that does not parse when it is applied leaves in force what came
before the item at which the parse stops; `config` then is that block, and
`Parses(config)` says whether all of it is in force.  Left out are the path of
`ownership_secret_new()` for FPGAs and the KLOBBER build options.

### 2.3 Boot flow

State: `record` holds the primary slot and the minimum security version;
`images` the security version of the image in each slot, or `NoImage`; `msg`,
`bootLog` and `reasons` are what retention RAM and the reset manager keep
across a reset; `setup` is the owner's rescue configuration and the OTP word
that lets ROM keep the reset reasons.  `pc` says where ROM and ROM_EXT stand.
`ram`, `lowPower`, `wanted` (`rescue_requested`), `attempted`
(`boot_attempted`) and `deadline` are ROM_EXT's variables.  `served` is a
history variable: a request was answered in this boot.

| Action | Code |
|---|---|
| `Rom` | ROM's retention RAM initialisation and reset reason handling, then `rom_ext_start()` up to `boot_svc_handler()` |
| `NothingToServe` | a wakeup, no request, or a request with a wrong digest |
| `EnterRescueRequest` | `rescue_enter_handler()` |
| `NextSlotRequest`, `PrimarySlotRequest` | `boot_svc_next_boot_bl0_slot_handler()`, without and with a write of the record |
| `MinSecRequest`, `MinSecRefused` | `boot_svc_min_sec_ver_handler()` |
| `SaveCommit`, `SaveDone`, `SaveFails` | `boot_data_write()`, and the rest of the handler that called it |
| `SyncLog` | the boot log entries refreshed after the boot services |
| `Detect` | `rescue_detect_entry()`: a request, or the trigger |
| `Launch`, `LaunchFails`, `NothingVerifies` | `rom_ext_try_next_stage()`, `rescue_enter_on_fail()` |
| `Inactivity` | the rescue deadline, `rescue_skip_next_boot()` |
| `HostStages`, `HostFlashes`, `HostLeaves` | what a rescue session does to requests, images and the chip |
| `FirmwareFlashes`, `FirmwareStages`, `FirmwareResets` | the owner's firmware |
| `PowerCut` | at any time |

Only the fields that a handler looks at are kept of a request.  A response keeps
its request for the properties; the code keeps only its type.

### 2.4 Rescue: the services and XMODEM

`RescueService` has the handlers of `rescue.c` as operators: each takes the
chip's configuration, a session (`rescue_state_t`) and the store (both banks,
owner page 1, the message in retention RAM), and returns an error, a session
and a store.  `Broken` and the `Cut` operators are what an erase, a page
program or a message that is interrupted may leave.  Sizes are scaled: a *unit*
is the smallest piece that the protocols tell apart, a bank has a few pages of
one block each, and an image that begins with the ROM_EXT identifier is a file
of `RomExtFiles`.

In `XmodemRescue`, `toChip` and `toHost` are the two directions of the line, as
sequences of frames and bytes; `pc`, `session`, `nextMode` and `send` are the
chip, `host` is the operation of `opentitanlib`.

| Action | Code |
|---|---|
| `FrameAccepted`, `FrameRepeated`, `FrameCancelled`, `FrameFails` | `xmodem_recv_frame()` and what `protocol()` and `handle_recv_modes()` make of its result |
| `EndOfFile` | the `kErrorXModemEndOfFile` case: pad, handle the rest, reset the offsets |
| `ModeByte`, `ModeChange` | the bytes collected in `next_mode`, and the carriage return |
| `Silence`, `Inactivity` | a read that times out; `rescue_inactivity()` |
| `SendStart`, `SendAcked`, `SendRefused`, `SendUnanswered`, `SendFinish` | `xmodem_send()`, answer by answer |
| `HostBegins`, `HostReadsMode`, `HostGivesUp`, `HostStarts`, `HostSends`, `HostFinishes`, `HostReceives` | `rescue/serial.rs` and `rescue/xmodem.rs` |
| `LineNoise` | a frame or byte is lost or damaged: checksum, number, first byte, or cut short |
| `WriteBreaksOff`, `PowerCut`, `Reset` | a block that is not taken whole, power, and the reset after a session |

Behaviours that reading the code alone does not suggest:

* A frame that lost its first byte is taken for a new one that begins with its
  number.  For frame 1 the number is SOH, so the chip sees a short frame with a
  wrong number and cancels; any other one, and any frame cut short, ends the
  session without a word to the host.
* `send_finish()` of the host takes any byte for the end (`xmodem.rs:163-171`):
  a host that returns `Ok` without having read an acknowledgement may have left
  the last part of its file unwritten.  `SuccessIsTrue` is therefore about an
  end of file that was acknowledged.
* When the chip resets in the middle of a transfer, its new invitation makes
  the host send frame 1 again, into the default mode.  `host.reset` marks such
  operations; the guarantee is about the session an operation began with.
* The host has no time limit while it waits for the chip; the chip has one
  while it waits for the host (`TransferEnds`).

### 2.5 Rescue: DFU over USB and SPI

A control transfer is a request and its data, in chunks.  `dfu` has the
protocol state, error, what the interface allows and the length that is
expected; a request is an operator that returns a session, the next protocol
state and a reply (`Handled`, `Fails`).  `OtherRequest` is any request that the
operating system sends by itself.  USB and SPI are one module, because
`dfu_protocol_handler()` is the same for both; they differ in how a mode is set,
in how the end of data is seen (`IsLast`) and in whether a host notices a reset.

| Action | Code |
|---|---|
| `HostSetsMode` | SET_INTERFACE (USB) and `set_interface()`, or the vendor request (SPI), with `validate_mode()` |
| `HostDownloads`, `ChunkArrives`, `ChunkIsSkipped`, `HostFinishes` | DNLOAD, its data, and DNLOAD of length 0; `dfu_control()` on the completed transfer; page programs of 0xFF that the SPI host leaves out |
| `HostPolls`, `HostReadsStatus` | GETSTATUS with the state transitions of `dfu_state_table` |
| `HostUploads` | UPLOAD of what `validate_mode()` staged |
| `HostAsks` | GETSTATUS, GETSTATE, CLRSTATUS, ABORT out of turn |
| `OtherRequest` | standard requests and their zero-length acknowledgement |
| `HostStops`, `HostReboots`, `Inactivity`, `PowerCut`, `WriteBreaksOff` | a host that stops anywhere, a reset, the deadline, faults |

What the run `dfu_rescue` leaves out by `Stops`, and what the model shows there:

* A USB host that stops within the data of a block: the run `dfu_broken_off`
  asks this question (section 6).
* A USB host that stops between an upload and its GETSTATUS.  The next
  SET_INTERFACE stages data, and its own acknowledgement completes a transfer
  in the state that the upload left, so the staged data is gone before it is sent.

Further notes: after an upload over SPI the state stays `UpLoadIdle`, so a
download in the same session stalls and leaves `Error`, and the host never sends
CLRSTATUS.  GETSTATE moves `Idle` to `UpLoadIdle`, as the table has it.  The
comparison with `flash_limit` in `dfu_control()` is always true, since the
handler refuses before it.  A reset over SPI in the middle of a download leaves
the host polling a chip in another state (`host.reset`, excluded from
`OperationEnds`).  In `usb_poll()` IN is handled before OUT in one loop, so
there is no race of the two endpoints to model.

### 2.6 ROM

`Rom` has the flash of both slots word by word.  A word is a word of an image,
all ones, or `Torn`: unreadable, as a flash word fails its ECC as a whole.  The
alignment of an address within a word is left out.  An image has a version and
a security version; a slot `Verifies` when its header does, it is signed, and
every word is that of the image.  `chip.handler` is the OTP setting that lets
an unreadable word be read as ones instead of ending in an exception,
`chip.disabled` the one that disables bootstrap.

| Action | Code |
|---|---|
| `RomStateBootstrapCheck`, `RomStateBootstrap` | the states of `rom.c`; the strap is read twice |
| `HandleErase`, `HandleEraseVerify`, `HandleProgram` | the three states of `lib/bootstrap.c`, with every command in each |
| `RomTryBootFirst`, `RomTryBootSecond` | `rom_try_boot_rom_ext()`: `boot_policy_manifests_get()`, `rom_verify()`, the other slot |
| `RomExtAdvanceSecver` | `rom_ext_advance_secver()` |
| `Updates`, `UpdateBreaksOff` | the slot that does not run is written by rescue or by the owner; `rom_ext_flash_protect_self()` keeps the other one |
| `SleepsAndWakes`, `ChipResets`, `BreaksOff`, `StrapReleased` | wakeups skip bootstrap; resets and power cuts at any time |
| `HostBegins`, `HostReadsSfdp`, `HostEnablesWrite`, `HostSendsCommand`, `HostSeesDone`, `HostResetsChip`, `HostEnds`, `HostStops` | `Bootstrap::do_update()` with the EEPROM protocol |
| `StrayCommand` | a command that no `opentitanlib` host sent |

Notes:

* A modifying command without write enable is dropped and leaves BUSY set: a
  host whose write enable was lost polls for ever, and its wait has no time
  limit.  In `rom_boot` commands are not lost under an operation, so
  `OperationEnds` holds there but for resets and shutdown.
* The chip erase goes on with the second bank after an error of the first, and
  a page program goes on with the words that wrap after an error before them.
* After a reset in the middle of a bootstrap the ROM is back in its erase state,
  ignores the host's page programs and clears their BUSY: the host ends without
  an error (`host.reset`, excluded from `DoneIsProgrammed`).
* Left out: the immutable section of ROM_EXT, control flow counters, key manager,
  ePMP, measurements, the second ROM and ROM patches, and an error of
  `boot_data_read()`, which is `BootData`'s.

## 3. The runs

Every passing run checks for deadlock too: nothing in this firmware may stop.

| Run | What it shows |
|---|---|
| `boot_data_log` | with two pages of two entries, two and a half turns of the log and any two faults: the scan finds the newest entry and never traps, entries are programmed into erased words only, what was answered `kErrorOk` is durable, no step returns to an older record, and the log implements `BootRecord` |
| `ownership_transfer` | up to three unlocks, aborts and activations between two owners, one of whose blocks is malformed, with any two power cuts or flash errors, and firmware that puts back sealed pages: ROM_EXT lets no owner in unasked, an activation that is recorded is complete in flash, no request is served twice, a sealed page always remains, and a chip that stays locked keeps its owner and version |
| `ownership_update` | a chip in the new-version mode whose firmware writes newer, foreign and malformed blocks and puts back sealed pages, with one power cut, flash error or unreadable page: a locked chip always has a whole configuration; it gives way only to a newer one of its owner, or to a sealed page in page 1 when page 0 cannot be read; as long as nothing failed page 0 holds it, and page 1 holds it or a page that was put back; and every boot gets to the firmware or to rescue |
| `boot_flow` | any number of boots, five configurations, images that come and go, every kind of request, a trigger that may be stuck, wakeups, one power cut or flash error: boots launch what they were asked to, responses and the boot log stay true, raising the minimum version never takes the last image away, no request is lost to a rescue timeout, and a bootable chip gets to its firmware |
| `xmodem_rescue` | any two operations of a host with eight kinds of files on three chips, one frame or byte damaged or lost, one operation cut short or one power cut: what was acknowledged is stored whole, what was received is what the chip holds, the running ROM_EXT is never touched, each bank changes as `FirmwareSlot` says, and a transfer ends when its host falls silent |
| `dfu_rescue` | any two operations over USB or SPI, broken off almost anywhere, with other requests in between and one fault: a download that succeeds is stored whole, an upload is what the mode stands for, a busy host is not cut off, the running ROM_EXT is never touched, and no host polls for ever |
| `rom_boot` | any three of bootstrap, update of the other slot and stray command, on three chips, with one fault: a chip that was never bootstrapped boots, what runs is whole, signed and new enough, a bootstrap that ends has programmed its file, a command changes nothing but its page or sector, and no host polls for ever |
| `ownership_recovery_key`, `ownership_parse`, `dfu_broken_off`, `dfu_skipped`, `rom_unreadable_erase` | each finds a short behaviour in which the code does not do what a comment or document of the repository says; see section 6 |

### 3.1 Bounds and why they are enough

* `BootData`: two entries per page make every case of the code happen (first
  entry, last entry, page switch, erase of a page that holds old entries), and
  ten writes turn the log more than twice.  Entries are compared only by
  counter and validity, so more of them add no case; the theorems hold for
  pages of any size.  Two faults are enough for one write that was cut short to
  meet another; the theorems hold for any number.
* `Ownership`: two owners, because a transfer has a giver and a taker, and
  blocks that differ in one respect from the good one (parses or not, newer or
  not, the same owner or not, applies or not).  `MaxNonce` bounds the requests
  served; three or four let a chip be unlocked, activated or aborted and
  unlocked again.  Stale requests are always in the set that the firmware may
  leave.  The slot that an activate request may name is exercised by
  `ownership_update` and `ownership_parse`; `ownership_transfer` leaves it out, since
  it only multiplies records there.  Two faults in `ownership_transfer` let a repair be interrupted as well;
  `ownership_update` takes one because it also checks liveness.
* `RomExtBoot`: two security versions and one fault.  There is no bound on the
  number of boots or requests: the state space is finite without it.
  `MCSetups` are the four combinations of rescue timeout and rescue on failure
  for a chip that keeps its reset reasons, and one that does not; `MCRequests`
  has every type of request with the values that its handler distinguishes.
  The theorems hold for all values of these.
* `XmodemRescue`: blocks of six units and frames of one or three let a file end
  within a frame, within a block, and after one.  Two operations let one meet
  what the other left.  `FrameNumbers = 3` makes numbers wrap within a file, as
  256 does.  The retries are what makes each loop go on once and end once, and
  `MaxLine` bounds only the invitations of an idle chip.
* `DfuRescue`: blocks of two chunks; files of a part of a block, one block, one
  and a half, and one too large, whose blocks do and do not end in 0xFF.  Two
  operations, of any kind.
* `Rom`: pages of two words, sectors and slots of four; four images (an older
  one, two newer ones of which one has a word of all ones, and one nobody
  signed); files for one slot, the other, and both; nine stray commands, at and
  off a boundary and behind the end.  Three steps let an update, a raise of
  the minimum version and a bootstrap follow each other.

### 3.2 Faults

A power cut may happen before, between and inside flash operations, and an
operation may report an error and leave anything that its words can be left as.
Faults in ROM_EXT are counted, up to `MaxFaults`; a power cut while the owner's
firmware runs is not, because nothing of ROM_EXT is under way.  A page read may
fail once (`"read"`).  In the rescue protocols a fault is a frame or byte
that is lost or damaged, a block whose erase or write is cut short or reported
failed, or a power cut; that a host stops is no fault and happens any time.  In
`Rom` it is an erase or a page program that fails or is cut short, an erase that
reports success and left words behind (`WeakErases`: what the verification after
it is for), an update that breaks off, or a reset under a host.  Not modelled: a flash that loses data on its own, glitched
control flow (the `HARDENED_CHECK`s are conditions that hold), digests that
collide, and forged signatures.

### 3.3 Fairness

`FairSpec` of `Ownership` and `RomExtBoot` is `WF_vars(RomExt)`: the processor executes ROM and
ROM_EXT as long as it is powered, and its cycle counter advances, so an
inactivity deadline that is set is reached.  ROM_EXT runs alone, with its loops
bounded by the pages' size, so one weak fairness condition on its next step is
all the code needs.  Nothing is assumed of the environment: the owner's firmware
need never reset, the host need never speak, faults need not happen.  Since
faults are bounded, a boot cannot be cut forever; without that bound no liveness
would hold of any firmware.

`GetsToFirmware` has two escapes that are the code's: a host that keeps sending
commands, and a session whose deadline a host cancelled and then fell silent
(the first good packet cancels it, and nothing sets it again).

`XmodemRescue` assumes `WF_vars(Chip)`: the chip's loop runs and its reads time
out; nothing of the host.  `DfuRescue` assumes `WF_vars(Host)`: in that module a
step of the host is a request and the chip's answer to it, which the chip's loop
gives at once, and a host that has begun an operation goes on with it or stops.
`Rom` assumes `WF_vars(Chip)` and `WF_vars(Host)`: the processor runs, and the
program on the host does.

## 4. What is proved

### 4.1 Boot data (`BootDataProofs`)

For pages of any size, any set of policies and any number of faults:
`TypeCorrect`, `ScanNeverTraps`, `ScanFindsNewest`, `WritesErasedWords`,
`AnswersAreDurable`, `NoRollback`, and `Refinement` (`BootData` implements
`BootRecord`).  Assumed are the constants' assumptions of `BootData` and `NoWrap`: the
counter stays below the width of its word, as flash endurance bounds it.

`NewestIsFound` is not inductive: it says nothing of the entries that a later
power cut may bring back to life (an interrupted erase may clear the words that
invalidated an entry).  The invariant `IInv` is therefore about *complete*
entries, invalidated or not: `Sound` says that counters grow along each page
and that one entry is `InForce`, valid, not hidden behind an empty entry, and
newer than every other complete one.  While a write is under way `WritingInv`
adds that every complete entry is older than the one to be written
(`OthersOlder`), that this one is where the log of its page ends (`AtTheEnd`),
and what each flash operation has left so far.  Pages whose complete entries
only disappear, and which keep the entry in force, stay sound (`StaysSound`);
most steps are instances of that.

### 4.2 Boot flow (`RomExtBootProofs`)

For any versions, requests, configurations and number of faults: `TypeCorrect`,
`AnswersAreTrue`, `BootLogIsTrue`, `LaunchesAsAsked`, `NeverBricks` and
`NothingIsLost`, from the assumption on the constants alone.

The properties speak of the end of a boot, or of responses that wait in
retention RAM; what makes them true is spread over the boot.  `IInv` says at
each point of it what the RAM copy has to do with flash: fresh when the
services begin (`FreshInv`); the record to be written, with the request for it
still in retention RAM, and harmless if it raises the minimum version
(`SaveInv`); afterwards the record, but for the slot of this boot (`AskedInv`).
`LogInv` says the same of the boot log.  `LeftInv` says why a message that rescue
may overwrite is no request to be served: such a request is left only by a
wakeup, which enters no rescue before a boot was attempted.  There is one lemma
per action, with one step per conjunct, and each action property follows from
the one action that can make its antecedent true.

### 4.3 Ownership (`OwnershipProofs`, `OwnershipPageProofs`)

For any owners, owner blocks, number of requests and number of faults, from the
assumption on the constants of `Ownership` alone: `TypeCorrect`, `NoReplay`
(`RequestsAreServedOnce`) and `NoBrick` (`SealedPageRemains`).

*No replay.*  The handlers compare a request with the nonce of the RAM copy, and
the property is about the record in flash.  `RamInv` relates the two: until a
request is accepted the copies have the same state and nonce, except after a
fall into Recovery that could not be recorded; then the RAM copy has a nonce
that was drawn after every request that exists (`Fresh`), and none can match it.
`NonceInv` says that all nonces were drawn before the next one will be, and
`SaveInv` that the record on its way to flash has a new nonce and serves a
request for the one it replaces.

*A sealed page remains.*  A plan is up to six flash operations, and each may be
the last to be executed.  `PlanInv` says that the operations to come are
`Orderly`: when it is a page's turn to be erased or programmed, the other one is
sealed by then, or no page ever was.  This is closed under executing the first
operation, and holds of the plan of every function that makes one.  For the
repairs of a locked chip it needs `RepairInv`, `CopyInv` and `Faithful`: what
`owner_page_valid[]` says of a page that was read is true, a page to be copied
over was not found sealed, and the one it is copied from is. A page that could
not be read is the case that needs care: it may be sealed, so the plan must
leave the other page a seal.

`OwnershipPageProofs` adds `PageInv`, which says which blocks the pages hold
rather than only that they are sealed, and from it `NoForeignOwner`
(`OwnersAreLetIn`) and `CompleteActivation` (`ActivationIsComplete`) without any
further assumption, then three theorems about a locked chip.

*Owners are let in.*  The property compares one step; what has to be known is
where the block in a plan came from, several steps and perhaps boots earlier.
`VouchInv` says of each operation to come that it seals a block whose owner is
let in by the state and endorsement of the record, or whose owner has the page in
force when the operation's turn comes (`ForceEnds`: page 0, or page 1 if page 0 is
erased by then).  Both alternatives are needed: the first is an activation, the
second a repair or an update of the same owner, where the page that vouches is
itself subject to operations earlier in the plan.  That some page is sealed for the
owner would not do, since page 1 may hold any page that was put back; the property
exempts such a write itself, but nothing ROM_EXT makes of it.  `ExactInv` says
that a page that was read as sealed still holds that block until ROM_EXT writes it;
`FieldInv` that the RAM copy and the record agree on who is endorsed.

*An activation is complete.*  `ActivateInv` says of the plan of an activation what
the pages hold once all of it is done (`EndsWith`) and that a secret which no owner
ran with is still to be written (`SecretAhead`), or was.  `UpdateInv` says the same
of updates and repairs, and that they write one page only (`Writes`).  `Ends(content, ops, n, slot, contents)`
is the operator the proofs turn on: a page holds one of `contents` after the first
`n` operations.  The lemmas about it say that it does not change when the first
operation is executed, and what each plan that the code makes ends with.

*A locked chip.*  `LockedSealed` and `LockedKeepsOrBackup` assume nothing more.  Two
theorems have a hypothesis, because TLC refutes the properties without it:

* `LockedConfigured` assumes `NoRepeats`: a block that passes the check-only parse
  parses.  `owner_block_parse()` does not look for repeated items in its check-only
  mode; `ownership_parse` shows what follows if one is signed.
* `LockedKeeps` assumes `PagesAreRead`: no unreadable page.  A locked chip takes a
  page that it cannot read for one that is not there, and copies the other over it.
  The other one may be an older page of the same owner that was put back, or, after
  an activation that was cut after page 1 and then aborted, a page of the other
  owner.  `LockedKeepsOrBackup` says what is left with unreadable pages: the block in
  force gives way only to a newer one of its owner or to the one in page 1, which the
  chip had sealed and handed out before.

`KeepInv` behind the last two says when the block in force passes from page 0 to
page 1 (`HandsOver`): when page 0 is not sealed, when it is given up for a page 1 that
is sealed for the same owner with a version that is no lower, or, unless
`PagesAreRead`, for one that was put back.  For the last case `BackupInv` is needed:
it says how page 1 of a chip that is locked, or about to be, may differ from page 0
(`LockedPair`), and that whatever a running chip has in its pages is among `backups`.
`CleanInv` is the state of the pages at each point of a boot in a chip that was
never interrupted.

### 4.4 Rescue (`RescueServiceProofs`, `XmodemRescueProofs`, `DfuRescueProofs`)

For any files, chips, sizes, hosts and number of faults, and for both protocols:
`ProtectedIsKept`, no step writes the ROM_EXT that runs or what lies behind the
area given to rescue.  A single block does not show that: where it goes was
decided by the first block of the transfer.  The invariant `Safe` is that an open
transfer into the bank of the running ROM_EXT begins behind it.  The handlers
keep it (`RescueServiceProofs`: one lemma for each operator, whole and broken
off), and each action of a protocol either calls a handler, resets the offsets,
or leaves them; DFU has one more way, a block that fails after its offset was
set, and there `Safe` holds of what is left behind.

For the DFU protocol also `BusyIsNotCutOff`.  It is inductive once `Safe` is
there: the lemmas on `deadline` show that no handler, no
end of a transfer and no failed block sets the deadline again, every class request
cancels it, and each way to start over either ends the host's operation or marks
it as reset unseen.

`TypeOK` of the DFU protocol says that the session's buffer is never overrun and
that a transfer stays below the limit, although the lengths of blocks and chunks
are the host's.  `TInv` therefore also says where the host is: within its file
while it sends, and within the block while it sends chunks (`WithinFile`).  The
services keep their types if the buffer is filled as far as the session's offset
says (`Filling`), which every end of a transfer establishes.

`SuccessIsProved` is `SuccessIsTrue` of the DFU protocol, with two hypotheses that
the runs `dfu_broken_off` and `dfu_skipped` show to be needed: no host on USB stops
within data (`StopsOutsideTransfers`), and no host on SPI leaves out a chunk that
the chip needs (`NothingIsSkipped`: a chunk of 0xFF is neither the last of its
block nor of a block with a place in flash).  What an acknowledgement says
of a file is spread over all blocks before it, so the invariant (`Faithful`) follows
the transfer: `TakenBlocks(k)` says that the first `k` blocks are in their place,
or lie beyond it, and that the session's offset is where block `k` belongs.
`TransferInv` says which `k` holds at each `host.pc`, `BufferInv` that the buffer
holds the chunks of the block that were sent, `UploadInv` the same of an upload.
`StateInv` is what other requests, of the operating system or of earlier hosts,
may not break: over USB the chip waits for data only while a host sends some.
`OneBlock` and `BlockTaken` carry a block from the host's file through chunks and
buffer to flash.

`TypeOK` of XMODEM follows from types of the session and of both lines: what the
host sends are frames of its file or noise of the same kind, and the chip's
answers are among those the protocol has (`Signals`).  The session's part
(`Ready`) is again that the buffer is filled as far as the offset, and that a
session in a mode that sends has received nothing.

`AcknowledgedIsStored` is `SuccessIsTrue` of XMODEM, for any number of operations,
damaged and lost frames and bytes, broken writes and power cuts, if each operation
begins on a quiet line (`QuietLine`): the chip is between transfers, at most the
last acknowledgement is on its way to it, and none of its acknowledgements, frames
or answers to the mode that is asked for is left to be read.  A first operation
finds it so, unless the chip is about to reset, and so, as a rule, does one that
follows an operation without faults.  TLC refutes the property without the hypothesis, from two faults on:
after a reset the chip prints its default mode, `firmware`.  A host whose first
operation failed takes that line for the answer to its second one, which is to
write slot A; its carriage return is lost, and the file goes to slot B, where the
first operation left the chip, and is acknowledged.  With `QuietLine` for every
operation two faults change nothing, and both results are reached by the second
operation too.

The invariant (`TInv`, `ChipInv`, `LinkInv`) is an agreement between two parties
that never see each other's state.  `ChipInv` is the chip's side: between transfers
nothing of the last one is left, what it sends is what it holds, and its answers on
the line are its verdicts.  `LinkInv` says, for each point of the host's operation,
what may be on the two lines:

* While the host asks for a mode, only that mode can come into being at the chip
  (`Asked`), and an answer on its way means that they agree (`Answered`, `Agreed`).
* Then the chip either waits for the frame that the host sent last (`Waits`) or has
  taken it (`HasTaken`), and the frames on the line are copies of that one, behind
  copies of the one before (`Copies`).  In the second case no older frame is left,
  and at most one acknowledgement.  The other direction is the same with the roles
  exchanged (`Offered`, `WasReceived`).  Frame numbers are compared modulo
  `FrameNumbers`, so what matters is that two neighbours never have the same one
  (`NumbersDiffer`): two numbers would do.
* What has been taken is in its place (`Holding`): some blocks of the file are in
  flash, as `TakenBlocks` says, and the rest is in the buffer.

Most steps of the protocol are of no use to anyone: they refuse, repeat, lose,
damage or end.  `Dull` is what they have in common, and the invariant is shown for
it once (`DullSend`, `DullReceive`).  What is left are the steps that take or offer
a frame, end a file or change the mode, and the host's.

### 4.5 ROM (`RomProofs`)

For any images, versions, sizes, files, stray commands and number of faults: all
five safety properties.  The verification of a slot is a
statement about words, and what an image is, about images; headers are unique to
an image, so a slot that verifies is `Whole` for exactly one.  `IInv` says that
the slot that runs is whole and new enough, that the one tried last is, if the
other one was tried and found wanting, and that on a chip that no bootstrap ever
erased some slot always is.  The last part is what an update may not break: it
writes only the slot that does not run, and the minimum version is raised only
to that of the one that does.

`CommandsStayInPlace` is arithmetic on pages and sectors, `(n*k + r) \div n = k`,
carried through words that wrap, words that are left out after an error, and the
one that is torn; it needs the type of the command that waits, and with it of all
that may have sent it (`TInv`).

`DoneIsProgrammed` is about what the host cannot see.  All it reads is the status
register, and the chip clears BUSY also after a command that it does not know.
`SessionInv` says, for each point of the host's operation, which state the chip is
in, what the register and the waiting command are, and which pages are programmed:
`Before(n)`, the pages before `n` hold the file and the others are erased.  The
invariant has three parts that the property does not mention.  The pins stay
pulled for as long as the operation lasts, so that a chip that is told to reset
comes back to the erase loop and not to code that writes flash; a chip that shuts
down keeps BUSY set, so that the host never takes a failure for an answer; and
flash was verified as erased before the first page, so that an erase that failed
unseen leaves nothing.  The pages that the host leaves out, because they are all
ones, are right for the same reason.  Words that cannot be read stay possible where
the handler makes ones of them.

### 4.6 Only model-checked

Of `Ownership` no safety property, but `LockedIsConfigured` and `LockedKeepsOwner`
only under the assumptions of 4.3.  Of rescue: XMODEM's
`SlotsGrowInOrder`, which holds only as long as faults are few, like `SuccessIsTrue`
without the hypothesis of 4.4; both `SuccessIsTrue` only under the hypotheses
named there.  Of `Rom` none.  The liveness
properties (`AlwaysLaunches`, `GetsToFirmware`, `TransferEnds`,
`OperationEnds`) are beyond the proof system, and so is every violation.

## 5. Abstractions worth knowing

* A digest is the data it was computed from, a signature its signer, a nonce a
  number never used before.
* `memcpy` into flash pages is by page; a page is torn as described in 2.2.
* The hardened comparisons, the shadow checks and the integrity words of the
  pages are taken to do what they say.
* Owner configuration is `Parses` or not: the items of a block (flash layout,
  application keys, rescue configuration) are not modelled one by one.
* `RomExtBoot` sees of ROM only what it does to retention RAM and the reset
  reasons; the two ROM_EXT slots are in `Rom`, which in turn sees ROM_EXT only as
  what writes the other slot and raises the minimum version.
* The session of a rescue protocol is the boot that entered it: who may enter is
  in `RomExtBoot`, what happens inside in `XmodemRescue` and `DfuRescue`.

## 6. Where code and documents disagree

Findings with a run (see `PROJECT.json` for the quotes):

1. `ownership_recovery_key`: in Recovery the recovery key is not accepted while
   page 0 is neither sealed nor signed, because its algorithm is looked up in the RAM
   copy of that page, which was overwritten.  (If page 0 holds a block that is signed
   but not sealed, the key is accepted.)  In the trace an activation for the same
   owner is cut after it erased page 0; page 1 is sealed and valid.
2. `ownership_parse`: a block that repeats an item passes the check, and at every
   boot the parse stops at the repeated item: the error is printed, and the boot goes
   on with what came before it.
3. `dfu_broken_off`: a download over USB that breaks off within its data leaves
   a state in which the acknowledgement of any other request completes a block
   that was never sent, and it is flashed.
4. `dfu_skipped`: a block over SPI that ends in a program page of 0xFF, which the
   host leaves out, is never handled, and no error tells.
5. `rom_unreadable_erase`: the verification of the chip erase passes words that
   cannot be read, if OTP lets those be read as ones.

Met while modelling, without a run of their own:

* The counter of boot data is 32 bits wide and wraps: with it an interrupted
  invalidation loses the record just written, and a comment says that no check
  is needed.  Flash endurance bounds the counter far below.
* A new-version update sets the minimum security version in RAM only.
* An activation that was cut before the secret's renewal, and then aborted,
  leaves the next owner with the previous owner's secret page.
* After an aborted activation one unreadable page 0 brings in the other owner's
  configuration on a locked chip.
* A reset during a wakeup is taken for a wakeup by ROM_EXT.
* `boot_second_rom.c` walks the ROM patches in a `do ... while (false)` whose
  `continue` leaves the loop, where a comment says that the next one is tried.
  Nothing in it can fail as long as the verification is still to be written.
  `rom_patch_latest()` reads a word of OTP before it checks its bound.
* Two valid boot data entries may exist for as long as an invalidation was cut
  short; comments speak of one.  The scan copes, which `NewestIsFound` states.
* `boot_data_write()` does not update its caller's copy: callers read the record
  back, or go on with a copy whose counter is old.
* The pages of a locked chip may differ for good, after an aborted activation or
  when an older sealed page was put back into page 1: `locked_owner_init()` copies
  only over a page that is not sealed (`ownership.c:91-93`), where a comment
  (`ownership.c:217-220`) says that the pages are made identical.
* With such an older page in page 1, a page 0 that cannot be read once is written
  over with it (`ownership.c:95-105`, `210`): the configuration gets older.
* The unlock and activate handlers write their response before the boot data
  write that it reports.  A write that fails is followed by a reset all the same
  and leaves the response `kErrorOk`.
* A minimum version request whose write reported an error but took effect is
  refused when it is served again (the version is no longer greater).
* The key history hashes the prior owner's key: it names the owner that left.

## 7. What is not modelled

* **Firmware binding** (`ownership/isfb.c`): a check of a verified image against
  strike words and product expressions in an info page, word by word, and the
  owner's policy of when that page is erased.  It keeps no state from one step
  to the next but the page, which only the owner's firmware writes.
* **ROM patches and the second ROM**: what a patch must pass is still to be
  written in the code.
* **ROM initialisation, key manager, ePMP, the immutable section**: hardware
  configuration in a fixed order, without a decision that a model could get wrong.
* **Signature verification, certificates, manifests, boot measurements**:
  cryptography and hardware state; they enter as what verifies.
* **Drivers, alert and shutdown policy**: register-level input and output.  Flash
  operations are modelled by their effects, shutdown as the reset it ends in.
* **Hardware, cryptography library, accelerator programs, device interface
  functions, manufacturing, tests, build files, vendored code**: outside the boot
  firmware.  Of the host tools, those that bootstrap and rescue a chip are
  modelled as the other side of these protocols; the others are not.

## 8. What could follow

1. A composition of ownership and boot flow over one record, to check that a
   boot never launches an image of an owner who was not let in, and one of
   `RomExtBoot` with a rescue protocol, whose session its host actions abstract.
2. `SlotsGrowInOrder` as a theorem under the hypothesis of `AcknowledgedIsStored`:
   its invariant has the blocks in their place, but says nothing of a session whose
   host is gone, which may still write what is left in its buffer.
3. Firmware binding as a part of the launch in `RomExtBoot`.
