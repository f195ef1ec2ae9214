# TLA+ models of the util-linux mount-table monitor, setpriv landlock and zramctl

This directory holds TLA+ models of parts of this repository, TLC
configurations that check them, and TLAPS proofs about them. The main
subject is the libmount monitor, `src/unnamed/part_003` (monitor.c) with
`src/libmount/src/monitor.h`. The spec (`spec.md`) calls it the core of
the repository. The setpriv landlock parser and sandbox set-up
(`src/unnamed/part_001`) are modelled too, and so is zramctl
(`src/sys-utils/zramctl.c`): concurrent zramctl processes over the
kernel's zram devices and udevd, its option handling, and its status
columns.

## 1. Inventory of the system

| Part | Source | State it keeps | Operations |
|---|---|---|---|
| Monitor aggregator | part_003 lines 51-474, monitor.h | The refcount. `mn->fd`, the epoll descriptor. `mn->ents`, the entry list. `mn->last`. | `mnt_new_monitor`, `mnt_ref_monitor`, `mnt_unref_monitor`, `mnt_monitor_close_fd`, `mnt_monitor_get_fd`, `mnt_monitor_wait`, `mnt_monitor_next_change`, `mnt_monitor_event_cleanup`, `mnt_monitor_event_next_fs` |
| Monitor entry | monitor.h, `monitor_new_entry`, `monitor_modify_epoll` | Per entry: `fd`, `enabled`, `active`, `events`, `opers` | Enable or disable through `monitor_modify_epoll` |
| Backends (mountinfo, utab, fanotify) | not under src/ | Each backend's descriptor, and what is pending on it in the kernel | `op_get_fd`, `op_process_event` (accept, ignore or error), `op_close_fd`, `op_next_fs` |
| Test program | part_003 lines 515-680 | The client's position in its loop | create, enable, get_fd or wait, drain with next_change or cleanup |
| setpriv landlock | part_001 | `opts->access_fs`, `opts->rules`, the ruleset fd | `parse_landlock_access`, `parse_landlock_rule`, `do_landlock` |
| zramctl | sys-utils/zramctl.c | Per process: the `struct zram` (device name, lock fd), the find loop's `i`, the reset loop's `optind` and `rc`. In the kernel: the devices, their disksize and algorithm, udevd's queue and its LOCK_SH | option parsing, `find_free_zram`, `zram_wait_initialized`, `zram_lock`/`zram_unlock`, the reset, comp_algorithm and disksize writes, hot_add/hot_remove, the reset loop, the status columns |
| Documentation, completion, shell test | part_000, *.adoc, part_002, the tail of part_003 | none | none |

How the monitor's parts interact:
- A client enables entries.
- The first `get_fd` or `wait` creates the epoll descriptor and registers every enabled entry with `monitor_modify_epoll`.
- `monitor_modify_epoll` calls `op_get_fd` and `EPOLL_CTL_ADD`. It then drains with `while (epoll_wait(mn->fd, ..., 0) > 0);` to discard the initial event of a fresh mountinfo descriptor.
- `wait` and `next_change` read one epoll event at a time in `read_epoll_events`. Each event is classified by `op_process_event`. An ignored record loops back, with the original timeout.
- `wait` marks the entry active. `next_change` first reports the first active entry, and reads epoll with timeout 0 only when no entry is active.

The hard behaviours:
- Kernel changes can land between any two steps of a call, including between two turns of the registration loop.
- Descriptors are edge-triggered (mountinfo) or level-triggered (utab inotify, fanotify), and this changes what the drain loop does.
- Calls fail part-way, for example `op_get_fd` failing after `enabled` is set, or the get_fd loop failing half-way.
- State is carried across calls: the `active` flags and `last`.

The properties that make the monitor correct:
- No change is reported that did not happen.
- No change is lost.
- The epoll set equals the set of enabled entries (spec §3). This does not hold when `op_get_fd` fails after `enabled` is set (`monitor_modify_epoll`, line 198); the proofs establish the half that holds, that the epoll set is a subset of the enabled entries, and that get_fd, when it returns, has registered exactly the enabled entries or left no descriptor (spec §4.1).
- No stale entry is reported.
- Every call returns.
- A consumer loop eventually reports every change.

For landlock, the properties are:
- The right lists parse to the rights they name.
- setpriv never runs the program with a rule silently dropped.

## 2. Modules

| Module | What it is |
|---|---|
| `Monitor.tla` | The monitor, its entries and the kernel side of the descriptors. There is one action per public call. Calls that loop are split at the points where the kernel can act in between, shown by `pc`: `"getfd"` is the registration loop and `"read"` is the epoll_wait loop. The constants are the entries, which of them are edge-triggered, which may ignore records, whether descriptors can fail, and the bounds. |
| `MonitorLoop.tla` | The test program's consumer (`test_wait`, `test_epoll`, `test_epoll_cleanup`) composed with `Monitor`, with fairness. |
| `MonitorFd.tla` | The abstract specification of spec §3/§4.1: the multiplexing descriptor as one all-or-nothing `GetDescriptor` step, with `Enable`, `Disable`, `CloseDescriptor`, and no registration loop. |
| `MonitorProofs.tla` | TLAPS proofs about `Monitor`. |
| `MonitorFdProofs.tla` | TLAPS proof that `Monitor` implements `MonitorFd`. |
| `MonitorLoopProofs.tla` | TLAPS proof that the consumer loop implements `Monitor`, so the monitor's invariants hold in the loop. |
| `LeastElement.tla` | The lemma `LeastNat` (a non-empty set of naturals has a least element) that every "first match" of a scan rests on; shared by the proof modules. |
| `Landlock.tla` | setpriv's landlock parsers as operators, plus a state machine of the option parsing and `do_landlock`. The parsers are written without recursion, by what they compute: `landlock_access_to_mask` is the least matching table index, and `string_to_bitmask` cuts the list at its commas (`Cuts`, `NextCut`, `Tokens`). |
| `LandlockProofs.tla` | TLAPS proofs that `Landlock` is well typed and that `ExecConfined` holds. |
| `LandlockParse.tla` | Applies `ParseFsAccess` to every list of a bounded set and compares it with the reference `RefFsAccess`, a recursive scan of the list written independently of `Tokens`. |
| `Zram.tla` | Concurrent zramctl processes, each a `pc` through main(), over the kernel's zram devices and udevd. |
| `ZramProofs.tla` | TLAPS proof that `Zram` keeps its lock discipline (`TypeOK`). |
| `ZramOpts.tla` | main()'s option handling, from the option letters and device arguments to the action or the error, and the usage text's forms as a reference. |
| `ZramOptsProofs.tla` | TLAPS proof that every command line of a usage form is accepted, for any length. |
| `ZramStatus.tla` | The ALGORITHM and statistics columns of `fill_table_row` and `column_name_to_id`, computed from sysfs files built the way the kernel writes them. |
| `MCMonitor`, `MCMonitorLoop`, `MCLandlock`, `MCLandlockParse`, `MCZram`, `MCZramOpts`, `MCZramStatus` | The instances that TLC checks. |

How the monitor's state maps to the code:

| Variable | Code |
|---|---|
| `refcnt` | `mn->refcount` |
| `epfd` | `mn->fd >= 0` |
| `ents` | the entry list, in order |
| `enabled`, `active` | `me->enabled`, `me->active` |
| `efd` | `me->fd >= 0` |
| `reg` | the epoll interest list |
| `pend` | what the kernel has pending on `me->fd`: `"none"`, `"noise"` (an out-of-scope fanotify record) or `"change"` |
| `last` | `mn->last` |
| `rc` | the result of the last call |

There are also two ghost variables:
- `fresh[e]`: a real change of `e` that `op_process_event` has not consumed yet.
- `due`: changes that `next_change` has not reported yet.

Edge triggering is modelled as follows. `AddedPend` is the initial event that `EPOLL_CTL_ADD` queues for a readable edge-triggered descriptor. `Drained` is the effect of the drain loop: every registered edge-triggered descriptor that was reported loses its event. `Stuck` is the case where the drain loop never ends. The drain condition `me->events & (EPOLLIN | EPOLLET)` is true for every backend, so every registration drains.

Some facts about the backends cannot be read from src/, because the backends are not there:
- mountinfo is registered `EPOLLIN|EPOLLET`.
- utab and fanotify are registered `EPOLLIN`, level-triggered.
- fanotify may answer "ignore".

These are taken from the spec (§4.3) and marked `spec_modelled` in PROJECT.json.

## 3. Runs

| Run | Constants | Result |
|---|---|---|
| `monitor_api` | Entries mountinfo (edge-triggered) and fanotify (level-triggered, may ignore a record); descriptors may fail; 2 references; 2 kernel events | passes, 102,173 states. `TypeOK`, `NoSpuriousNotification` and `ActiveIsWatched` hold for any sequence of calls, and `ImplementsFdContract`: `Monitor` implements `MonitorFd`, so a get_fd that returns has registered exactly the enabled entries, or has closed the half-built descriptor. |
| `monitor_loop` | Three entries (utab, mountinfo, fanotify); descriptors may fail; 3 kernel events; every client mode | passes. The liveness property `ChangeReported`: every change of a registered entry is eventually reported (or discarded by cleanup). |
| `change_lost` | as `monitor_loop` | **violation**. In get_fd, mountinfo is registered and its table changes. The utab registration then drains, and consumes mountinfo's edge event, so the change is never reported. |
| `drain_hang` | as `monitor_loop` | **violation**. utab is registered and has unread data. A later registration's drain loop spins for ever. |
| `landlock` | The 16-right table as built with `REFER`, `TRUNCATE` and `IOCTL_DEV`; a kernel ABI without `ioctl-dev`; 7 access and 7 rule arguments; up to 3 options | passes. `TypeOK`, and `ExecConfined`: the program runs restricted with every rule in force, or setpriv exits. |
| `landlock_parse` | Every list of 1 to 3 tokens over 8 tokens: exact names, prefixes, an unknown name and the empty token | passes. Every list the reference accepts is parsed to exactly its rights. |
| `landlock_abbrev` | as `landlock_parse` | **violation**. `fs:m` is accepted as make-char. |
| `zram` | Four processes: `-f -a -s`, `-s zram1`, `-r zram1 zram0`, status of all; 3 device numbers, zram0 and zram1 exist, zram0 used; with and without zram-control (an initial choice); hot_add may fail | passes, 103,059 states. `TypeOK` (with the lock discipline) and `Terminates`: every process exits, also when a blocking LOCK_EX waits for udevd or another zramctl. |
| `zram_find_race` | two `-f -a -s`, one free device | **violation** of `FoundDistinct`: both succeed on zram0; the later one resets the device the earlier one has just set up. |
| `zram_hotadd` | `-f`, zram0 used, hot_add fails | **violation** of `FoundExists`: zramctl prints zram1, which does not exist. |
| `zram_opts` | Every line of up to 3 options (of 11) and up to 2 devices | passes, 4,392 states. `SynopsisAccepted`. |
| `zram_status` | Statistics values 0/1 and one realistic vector; the algorithms lzo, lzo-rle, lz4, zstd; 8 column names (exact, other case, abbreviated, unknown, empty); with and without mm_stat and --bytes | passes, 8,320 states. `AlgorithmShown`, `MmStatShown`, `ColumnsAsNamed`. |

Why the bounds are enough:
- Two entries, one edge-triggered and one level-triggered that may ignore a record, already reach every branch of `monitor_modify_epoll` and of `read_epoll_events`.
- Two kernel events let a change land between two registrations, or while an entry is active.
- The loop run needs the third entry to mix all three backends.
- The landlock tokens include:
  - a name that is a prefix of two rights (`read`);
  - a one-letter prefix (`m`);
  - the last right of the table (`ioctl-dev`), which this kernel does not know;
  - the empty token, which exercises the comma edge cases of `string_to_bitmask`.

Fairness (`MonitorLoop`):
- Weak fairness of the client: the test program keeps calling.
- Weak fairness of the internal steps of a running call: a call in progress runs on.
- The kernel has no fairness, because it is not obliged to change anything.
- `wait(-1)` blocks for ever when nothing changes. For this reason the runs do not check deadlock, and the cfgs say so.

Mutants: for every property of every passing run, PROJECT.json names a fault variant that TLC must catch. The faults are:
- the drain is left out;
- the refcount is freed only below zero;
- `me->active = 0` is dropped on disable;
- next_change ignores active entries;
- the result of `landlock_add_rule` is not checked;
- the result of `open()` is not checked;
- the table search is off by one.
- `zram_unlock` does not release the lock;
- get_fd's error path does not close `mn->fd`;
- the reset loop's `optind++` is missing;
- `--find` decides the action before `--size` and `--reset`;
- the algorithm copy takes the `]` too;
- the statistic of the next mm_stat field is read;
- `column_name_to_id` accepts an abbreviation.

## 4. zramctl

`Zram` keeps, per process, `pc` (where main() is), `dev` (the number in
`z->devname`), `i` (the find loop's `i` or the reset loop's `optind`), `rc`,
`exit` and `out` (what it printed). The kernel keeps `exists` (sysfs
directory and node), `owner` (who wrote disksize, `NoProc` for 0),
`algOf` (who wrote comp_algorithm), `inited` (udevd has processed the
device), `uevq` (uevents not yet processed), `udevOpen` (udevd holds
LOCK_SH) and `holder` (the zramctl holding LOCK_EX).

Each action is one step of main() or of a function it calls:
- `StartFind`, `StartCreate`, `StartReset`, `Status`: the switch on `act`.
- `FindStep`, `FindUsed`: one turn of `find_free_zram`'s loop: `zram_exist`,
  and `zram_control_add` (hot_add) when it is missing; then `zram_used`,
  a second read, and `i++` or the end of the loop. A failing hot_add read
  keeps `n` at 0 and `zram_control_add` returns 0, as the code does.
- `WaitCheck`, `WaitEvent`, `WaitTimeout`: `zram_wait_initialized` with its
  monitor callback and its 3 second timer.
- `Lock`, `Unlock`: `zram_lock` (blocking LOCK_EX is a disabled step while
  udevd or another zramctl holds the device; the reset loop's LOCK_NB
  fails instead) and `zram_unlock`.
- `WriteReset`, `WriteAlg`, `WriteDisksize`: the sysfs writes, refused
  by the kernel as its attributes do (reset of an open device, algorithm
  and disksize once disksize is set).
- `ResetNext`, `Remove`: the reset loop's head and `zram_control_remove`,
  which runs whatever the reset gave.
- `UdevBegin`, `UdevEnd`: a udevd worker takes LOCK_SH (it requeues while
  LOCK_EX is held), runs its rules, marks the device initialized.

Fairness: weak fairness of each process's step (the scheduler runs every
process; a blocked LOCK_EX is a disabled step, so weak fairness does not
force it) and of udevd for each device (udevd works its queue). The
timer ends the wait at the latest after 3 seconds, which `WaitTimeout`
being enabled in `"waitev"` expresses. Deadlock is not checked because
every process exits and then nothing is left to do.

Bounds: 3 device numbers give one used device, one unused device and one
for hot_add; the process mix puts a create with --find, a create on a
named device, a reset of two devices and a status listing at once. The
presence of zram-control is a kernel state chosen at the start, so one
run covers both the hot_add/hot_remove paths and the break out of
`find_free_zram` without it. `zram_find_race` uses two creators and one
free device, the smallest instance where the race exists; `zram_hotadd`
one `--find` with zram0 used and a failing hot_add.

`ZramOpts` models the getopt loop by its effect: the last of `-s` and
`-r` sets `act`, `-f` sets `find`, and `err_exclusive_options` refuses
two different options of one row of `excl[]`; then the checks after the
loop in code order. `Synopsis` is the reference: the three forms of the
usage text with the options each lists.

What the model reaches but no run claims, because no document of the
repository says what should happen: after `zram_unlock` another zramctl
can reset the device and write its own algorithm before this one writes
disksize; `-r` accepts `-a`, `-p` and `-t` and ignores them although the
error message says they need `--size`; COMP-RATIO of an empty device
prints `-nan` (this column is not modelled).

`ZramStatus` builds the sysfs files from the kernel's values the way the
kernel prints them (`comp_algorithm` with the selected one in brackets,
`mm_stat` as `%8llu` fields) and runs zramctl's parsing on them
(`ul_strv_split`, `strtou64`, the `strrchr` of `[` and `]`), so the
properties compare what zramctl shows with what the kernel holds.

## 5. Proofs

### `MonitorProofs.tla`

All the theorems hold for every value of the constants that satisfies `ConstantsAssumption`.

- **`TypeCorrect`**: `Spec => []TypeOK`.
  - `TypeOK` is split into five groups (control, counters, list, flags, pending). One reason is that the provers handle a group at a time. The other is that the conjunct `pc # "free" => refcnt > 0` is what keeps `mnt_unref_monitor` from taking the count below zero.
  - The proof has one step per action and one leaf per group.
  - The lemmas it uses:
    - `LeastNat`: a non-empty set of naturals has a least element, proved from `WFMin` and `NatLessThanWellFounded`.
    - `FirstActiveType`: get_active returns an entry.
    - `AddedPendType`.
- **`NoSpurious`**: `Spec => []NoSpuriousNotification`.
  - The inductive invariant is `TypeOK /\ NoSpuriousNotification`.
  - The argument: only two steps make a change pending. One is a kernel change, which also sets `fresh`. The other is a registration, and lemma `RegisterNoNewChange` shows that `Drained(AddedPend(e), ...)` makes nothing pending that was not pending before.
- **`ActiveWatched`**: `Spec => []ActiveIsWatched`.
  - `ActiveIsWatched` is not inductive as it stands. It is strengthened with three facts:
    - `RegisteredAreEnabled`: the epoll set is a subset of the enabled entries. This is the half of spec §3 that holds.
    - `NoActiveWithoutFd`: no entry is active while `mn->fd` is missing or the get_fd loop runs. This is needed because a failing get_fd empties the epoll set.
    - `CallHasFd`: the loops of get_fd, read and cleanup run on an existing `mn->fd`.
  - TLC checked the strengthened invariant before it was proved.

### `ZramProofs.tla`

- **`TypeCorrect`**: `Zram!Spec => []TypeOK`, for any processes, command
  lines and number of devices allowed by `ZramAssumption`. `TypeOK`
  includes `LockOK`, which is what makes it inductive and what it says
  about the code: the holder of a device's LOCK_EX is at `"unlock"` and
  names that device; a process at `"unlock"` holds its device's lock and
  the device exists (needed so that `Unlock` only clears its own entry,
  and udevd's `UdevBegin` cannot start under a held lock); only the reset
  loop is at `"rnext"`/`"remove"`, and its `optind` is at least 1. There
  is one lemma per action. Each first states the action's effect, then
  the kernel and process types, then a frame fact `Moves(p)` from which
  `LockFrame` gives `LockOK'` for every action that leaves `holder` alone.
  `FailedTypeOK` covers every failing branch at once; `FirstFreeType`
  shows hot_add's device is a free number, from `LeastNat`.

### `ZramOptsProofs.tla`

- **`UsageAccepted`**: `ZramOpts!Spec => []SynopsisAccepted` for option
  and argument sequences of any length. Lemmas `LastGiven` and
  `LastNotGiven` characterise `Last`; `GivenWithin` shows an option outside
  a form's set is absent; `NotExclusive` shows that no form holds two
  options of a row of `excl[]`; one lemma per form (`ResetForm`,
  `CreateForm`, `FindOnlyForm`, `StatusForm`) walks `MainError`'s chain.

### `LandlockProofs.tla`

Both theorems hold for every access table, argument set, kernel and
bound allowed by `LandlockAssumption` (`MaxArgs \in Nat`).

- **`TypeCorrect`**: `Spec => []TypeOK`. The parser lemmas carry it:
  `AccessToMaskType` (the entry `landlock_access_to_mask` stops at is a
  matching one, so its bit is a right of the table; from `LeastNat`) and
  `ParseFsAccessType` (`string_to_bitmask` either fails or returns a union
  of masks that lookup accepted). Then one lemma per action; the rule
  list grows by `ConcatProperties`.
- **`Confined`**: `Spec => []ExecConfined`. `ExecConfined` is not
  inductive: a step of `AddRule` needs to know the rules before it were
  accepted. The inductive invariant `ConfinedInv` adds that no rule is
  added before the ruleset exists (`phase = "args" => added = 0`, needed
  because `list_add` puts new rules at the head); that in `"rules"`, and in
  `"exec"` with rights requested, the ruleset handles exactly `accessFs`
  and the first `added` rules are allowed by it; and that the program runs
  with rights requested only restricted and after the last rule. TLC
  checked `ConfinedInv` on the `landlock` instance before it was proved.

### `MonitorFdProofs.tla`

- **`FdRefinement`**: `Spec => ImplementsFdContract`, i.e. `Monitor`
  implements `MF!Spec`, the descriptor contract of `MonitorFd`. The
  mapping: the aggregator is live unless `pc = "free"`; the enabled set is
  the entries with `enabled` set; while get_fd's registration loop runs
  (`pc = "getfd"`) the descriptor counts as not yet created and nothing as
  registered, so the whole loop, and its closing `GetFdDone`, is one
  `GetDescriptor` step (or, on a failure, a stutter: the code closes
  `mn->fd` and sets it to -1); `pc = "hung"` is `hung`.
  The inductive invariant `FdInv` is `WInv` (the invariant of
  `ActiveWatched`) and four facts, each needed at one step:
  - `LoopRegistered`, the loop invariant: during get_fd, `reg` holds the
    enabled entries among the first `it - 1` of the list. At `GetFdDone`
    with `it = Len(ents) + 1` this is what makes `reg' = enabledSet`.
  - `EnabledListed`: every enabled entry is in the list, so the loop
    visits it (needed at `GetFdDone`).
  - `NoFdNoReg`: without `mn->fd` nothing is registered (needed at
    `GetFdBegin`, where the loop starts from an empty `reg`).
  - `FreeClean`: a freed aggregator has no entries and no descriptor
    (needed at `NewMonitor`, which maps to `Create`).
  There is one simulation lemma per action (`LifetimeFdStep`,
  `EnableFdStep`, `DisableFdStep`, `GetFdBeginFdStep`, `GetFdStepFdStep`,
  `GetFdDoneFdStep`, `EventFdStep`), and `MappedUnchanged` for the steps
  that leave every mapped variable alone. The `monitor_api` run checks
  the same property. The mutant `GetFdStepKeepFd`, whose failing
  registration keeps the half-built descriptor, breaks it.

### `MonitorLoopProofs.tla`

- **`LoopImplementsMonitor`**: `LoopSpec => Spec`. Every client step
  calls one public function of the monitor, or leaves the monitor alone.
  `ClNext`'s `mnt_monitor_next_change` is either an `ApiCall` or, inside
  event cleanup, `CleanupNext`. Internal and kernel steps are the
  monitor's own steps.
- **`LoopNoSpurious`**: `LoopSpec => []NoSpuriousNotification`, from the
  refinement and `NoSpurious`. This is the invariant the `monitor_loop`
  run checks.

What stays with TLC:
- Liveness (`ChangeReported`, `Terminates`). The provers have no
  support for `ENABLED` and fairness here.
- `ZramStatus` and `LandlockParse`. Both use RECURSIVE operators
  (`Words`, `Num`, `Pad8`, `AlgList`; the reference `Names`), and a module
  that reaches one cannot use the SMT backend. Their properties are also
  about string contents (`Len` of a literal, character comparisons), which
  the provers treat as opaque values.
- The violations.

## 6. Not modelled

- `mnt_monitor_event_next_fs` and the veiled flag.
- `epoll_wait` failing on a valid descriptor. This is only EINTR, and the test program installs no signal handler.
- The time bound of `wait(timeout)`.
- `usage_landlock`, which only prints.
- The documentation, the bash completion and the lsfd test script, which have no state.
- zramctl: the `max_comp_streams` and `algorithm_params` writes (the same
  path and failures as `comp_algorithm`); the DISKSIZE, STREAMS,
  MOUNTPOINT and COMP-RATIO columns; `--output` list splitting (only the name lookup is
  modelled); the /dev scan of the status listing beyond which devices it
  prints; sizes and formatting.

## 7. Plan

1. **`ChangeStream.tla`**: an abstract specification of the monitor's promise, a queue of changed entries with no loss and no duplication. `Monitor` would be shown to refine it on the runs where the drain is harmless, using `INSTANCE ... WITH` and `due` as the mapping.
2. Add `mnt_monitor_event_next_fs` (spec §8: "no prior event" and "unsupported") and the veiled flag.
3. More proofs: `RegisteredAreEnabled` on its own; `FoundExists`-style facts of the parts of `find_free_zram` that hold.
