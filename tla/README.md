# system-server: a TLA+ specification

`system_server` is a daemon of a mobile platform. It starts at boot, runs one
ecore main loop in one thread, and looks after what no application can: the
battery, memory, the memory card and USB storage, the frequency of the CPU, the
kernel's out-of-memory priorities, power-off and restart. Applications ask it
for *predefined actions* over a socket or by setting a vconf key; the kernel
tells it things through udev, a memory notification device and signals.

This directory holds TLA+ modules of that daemon, the TLC configurations that
check them, and theorems about them proved with TLAPS. Paths `src/...` are those
of the repository.

## 1. The system

### 1.1 Parts, their state, and how they interact

    clients --socket--> ss_sysnoti --+                        +--> children (fork/exec)
    vconf keys, heynoti -------------+--> ss_queue + core_pipe --> actions --+
    udev (device change) --+         |         ^                             |
    memnotify --> lowmem --+---------+         |  CLEAR(pid)                 |
    ecore timers --> lowbat, popup, poweroff   +-- SIGCHLD handler <---------+

| Part | Source | State | Operations |
|---|---|---|---|
| Action run queue | `ss_queue.c`, `ss_core.c`, `ss_sig_handler.c` | list of entries (state, `forked_pid`), the self-pipe `core_pipe` | call an action, run the queue, free by pid, handle SIGCHLD |
| Process launching | `ss_launch.c` | none; forks | launch if not running, launch always, launch after killing |
| Process manager | `ss_procmgr.c` | `/proc/<pid>/oom_adj` | foregrd, backgrd, active, inactive, oomadj_set; ageing of the background |
| Low memory handler | `ss_lowmem_handler.c` | known level, `oom_timer`, time of the last cleanup, key | callback of the device, timer |
| Battery monitor | `ss_lowbat_handler.c` | band, capacity, error count, timer and interval, three keys | timer, and polls by display, USB, charger, gauge |
| Low battery popup | `ss_predefine.c` (lowbat) | popup timer, option | the lowbat action, its timer |
| Power off, restart | `ss_predefine.c` (poweroff, reboot) | timer, telephony handle | two actions, the modem's notification, the timer |
| USB storage | `ss_usb_storage_handler.c` | mount table, `tempfs_mounted`, two counters and keys | add and remove acts |
| CPU frequency | `ss_cpu_handler.c` | two lists of requests, two current limits, two sysfs files | four actions, two callbacks of power saving |
| Memory card | `ss_mmc_handler.c` | `mmc_status`, mount table, keys | insertion, removal, mount, unmount, format |
| Device changes | `ss_device_change_handler.c` | keys of the jacks, locks of the display, `bat_full_noti` | one callback for each kind of device |
| Client protocol | `ss_sysnoti.c` | sockets | read a request, call the action, answer |
| Other actions | `ss_predefine.c` | keys, locks of the display | usbcon, earjackcon, lowmem, sleep, leave, entersleep |
| Permanent processes | `ss_pmon_handler.c` | files named by pid | relaunch a process that died |
| Crash reports | `ss_bs.c` | a log file, an inotify watch | read and empty the log, launch the crash worker |
| Time | `ss_timemgr.c` | the localtime link, `/etc/timezone`, the clocks | two actions |
| Detection at start | `ss_usb_handler.c`, `ss_ta_handler.c` | a key, a lock of the display | read the hardware once |
| Notice helper | `sys_device_noti/` | the notice in the tray | show or delete the notice, play a sound |
| heynoti wrapper, start, plug-in, log, other helpers | `ss_noti.c`, `ss_main.c`, `ss_device_plugin.c`, `ss_log.c`, `restarter/`, `sys_event/` | none | straight-line code |

Interaction is narrow. Whatever happens, an action reaches its code only through
the queue: `ss_action_entry_call` (clients) and `ss_action_entry_call_internal`
(the daemon's own callbacks) prepend an entry to a list and write a RUN message
to a pipe that the same thread reads later from its main loop. No action calls
another one. What an action leaves behind is a child process; the SIGCHLD
handler, on top of whatever the thread is doing, reaps it and writes a CLEAR
message with its pid into the same pipe. Everything else is shared with other
programs: vconf keys, the mount table, `/proc` and `/sys`.

### 1.2 What is hard

* The signal handler interrupts the thread anywhere: also between `fork`, the
  look at `/proc/<pid>/status` and the assignment of `forked_pid`
  (`src/ss_core.c:45-53`), and SIGCHLD is not queued.
* The thread is the only reader of a pipe it writes to, one message at a time.
* Calls that wait together run newest first (`src/ss_queue.c:216`).
* Information arrives late: a key, a card or a process may have changed again
  by the time its event is served. What changes between the first look at a jack or
  a setting and the request to be told of it is never reported.
* Many results are not looked at: keys that are not set, scans that fail, writes
  to `/sys` and `/proc` that fail. What the daemon knows, what clients read and
  what the kernel does may come apart.
* Timers are restarted, forgotten and leaked.
* The thread reads a client's request with blocking calls, and does not tell the
  end of the stream from data (`src/ss_sysnoti.c:54`, `:58`).
* Others write what the daemon reads and removes: crash handlers its log
  (`src/ss_bs.c:112`), the kernel the pids that name its files
  (`src/ss_pmon_handler.c:147`).
* Several owners share what can be held once: USB, charger and the acts of the
  time a lock of the display, chargers and the full battery one helper program.

`PROJECT.json` lists each hazard at its line with the properties that cover it.

### 1.3 What makes each part correct

* Queue: every accepted call is started once; an entry is thrown away when, and
  only when, its action is over and its child gone; the daemon blocks on its own
  pipe in a burst of calls that fills it, and in no other way.
* Process manager: the kernel's killer, which takes the highest `oom_adj`, meets
  background processes in the order in which they went there, and the daemon's
  own SIGTERMs spare no older process.
* Low memory: the timer that kills runs while memory is critical and not when it
  is normal; clients know the level; cleanups are neither starved nor repeated.
* Battery: keys, band and polling interval are of one reading; each way down
  calls the act of its band; a level that stays is handled.
* Popup: the act that ran last is the one on the screen.
* Power off: the device ends, in time, in a way that was asked for.
* USB storage: no device is hidden under a tmpfs, announcements are seen.
* CPU: the strictest request counts and reaches the kernel; requests of dead
  processes go; power saving settles to its two settings.
* Memory card: status, key, replies and mount table agree once events are served.
* Clients: whoever sends a whole request with a type is told what holds of it, and is not
  kept waiting but by a client that stalls.
* Jacks: clients are told what is plugged in; the display is kept on for it, and
  not for what is gone.
* Full battery: the notice in the tray is that of the battery.
* Crash reports: every line is reported, once.
* Permanent processes: each has one process at any time, watched and with its
  file, or its death is about to be served.
* Time: a request for a timezone takes effect.

## 2. Modules

| Module | Models | Theorems |
|---|---|---|
| `ActionService` | abstract: what a caller of an action is promised | |
| `RunQueue` | queue, pipe, sweep, signal handler, children; implements `ActionService` | `RunQueueProofs` |
| `RunQueuePipe` | `RunQueue` with a count of the calls that come faster than the pipe is read | `RunQueueProofs` |
| `ProcMgr` | `oom_adj` of all processes | `ProcMgrProofs` |
| `LowMem` | the low memory handler | `LowMemProofs` |
| `LowBat` | the battery monitor | `LowBatProofs` |
| `LowBatPopup` | the lowbat action and its timer, fed newest first | `LowBatProofs` |
| `PowerOff` | power-off and restart | `PowerOffProofs` |
| `UsbStorage` | the two acts on USB devices | `StorageProofs` |
| `CpuFreq` | the CPU frequency handler | `CpuFreqProofs` |
| `Mmc` | the memory card | `StorageProofs` |
| `Sysnoti` | clients and their requests, composed with `ActionService` | `HandlersProofs` |
| `DeviceChange` | the jacks, their keys, and the locks of the display | `HandlersProofs` |
| `ChargeNotice` | the notice of a full battery and the helper that shows it | `HandlersProofs` |
| `BsLog` | the log of crashes | `HandlersProofs` |
| `Pmon` | permanent processes | `HandlersProofs` |
| `TimeMgr` | the link of the timezone | `HandlersProofs` |
| `Handlers` | the sum of these six | `HandlersProofs` |

`MC<module>` gives a module its small sets; a `.cfg` gives the constants. `MCStorage`
is the sum of `UsbStorage` and `Mmc`, made as `Handlers` is.
`PROJECT.json` maps every definition to the lines it stands for. Operators under
a comment that starts with "Mutant" are altered copies of the definition below
them; they are used only to show that a property notices the change.

### 2.1 How the modules correspond to the code

**RunQueue.** An entry is known by the number of its call, since
`ss_run_queue_add` only ever prepends: the list is the set of entries that are
not "free", in descending order. `pc` is where the thread is: in the main loop,
about to write RUN (`Wake`), walking the queue (`sweep`) or inside
`_ss_core_action_run` (`Probe`, `Store`, `Finish`, `ClearSelf`). `hpc` is where
the signal handler is; while it is not "none" the thread stands still. What an
action does is reduced to what the engine sees of it: no process (`RunFast`),
1 for a program that already runs (`RunExisting`, the precedence of `>` and `=`
in `src/ss_launch.c:221`), or a new child (`RunFork`). `Exit` and `Stop` are the
children; `Raise` merges a second SIGCHLD into a pending one. `Call` stands for
clients and for the daemon's own callbacks, at any time the thread is in its
main loop.

**RunQueuePipe.** The same steps with a history, `burst`: a call that finds the pipe
empty starts a new burst, one that does not belongs to the last. `core_pipe_cb`
reads one message each time it is called (`src/ss_core.c:77`), so calls may come
faster than it reads, and a short call alone writes two messages.

**ProcMgr.** Every process has its value; the five actions test it as the code
does. `JoinBackground` is `check_and_set_old_backgrd` followed by the write,
with its result ignored. `older` is a history: who joined the background before
whom. A forked child takes its parent's place, since it inherits the value.

**LowMem.** `LowmemCb` is `lowmem_cb` with the table `lpe[]`; a tick is a
second; `ClockSet` is a user who sets the date, which the cleanup's unsigned
difference of two times is exposed to. No row of the table has the level REBOOT:
on its way in and out timer and key stay what they were, so the daemon may then
know a critical level without a timer, or a normal one with a timer that goes on
killing. `off_table` is a history of that: set when a change from or to REBOOT is
read, reset by the next change that a row applies to.

**LowBat.** `Monitor` is `ss_lowbat_monitor`: read, cap, publish the capacity,
publish the status (and whether the battery charges, which is left out), change
the band, call the act, choose the interval, with the returns in between.
`TimerFires` also looks at what it returns; `Poll` stands for `wakeup_cb`,
`usb_chgdet_cb`, `ta_chgdet_cb` and `charge_cb`, which do not. The gauge and
vconf work or, while `healthy` is false, may fail in any way, which includes
garbage readings.

**LowBatPopup.** `calls` is the queue as `RunQueue` serves it: newest first, all
of it before the main loop does anything else. Two other places launch the same
popup when a plug is pulled while the battery is low, with the content "warning"
whatever was shown before: the act of the USB cable (`RunUsbcon`,
`src/ss_predefine.c:214`), which waits in the same queue, and `ta_chgdet_cb`
(`TaUnplugged`, `src/ss_device_change_handler.c:104`). `warned` remembers that one
of them was the last to launch it.

**PowerOff.** `timers[i]` is the timer that the i-th request started,
`poweroff_timer_id` the one the daemon remembers. Once the device is to end
(`ending`) the thread waits, and serves nothing else, until the time since
`tv_start_poweroff` (`shown`) has reached `DURATION`; every request sets
`tv_start_poweroff` anew. Then it kills and reboots (`End`). The second the
power-off sleeps between its signals is not counted.

**UsbStorage.** `mounted` holds each device with the number of tmpfs layers
below it; the mount point shows the top layer. Acts come in any order and
number, since the key that carries the name of a device holds one value and the
queue runs newest first. A tmpfs the kernel refuses with EBUSY is the third
disjunct of `MountTmpfs`: the act goes on without it and without its flag
(`src/ss_usb_storage_handler.c:157`); `bare` holds the devices that were added so.

**CpuFreq.** Each list is a function from the owner to its frequency.
`RemoveMax` takes what its caller passes for an empty list: the two actions pass
the limit of the hardware, `power_saving_cb` in effect `INT_MAX`
(`src/ss_cpu_handler.c:166` compares an upper limit with `INT_MIN`). A setting that
cannot be read counts as off. `Init` reads the settings, `Register` asks to be told
of their changes, one after the other; what is changed in between is never
reported. `stale` is a history of changes no callback has seen, see 3.2, and
`served` says which list the last step was a request for and who was gone then.

**Sysnoti.** A request is four writes: `sent` and `got` count them, and a client
may stop or close after any of them. `Accept`, `Read` and `Answer` are
`sysnoti_cb`; while `serving` is a client the thread does nothing else, so
`RunQueue` waits. `Outcomes` says what a request of each of the four kinds can
come to, and one of which only some pieces were there; the fields that are missing
are whatever memory held. An empty type is read as NULL (`src/ss_sysnoti.c:94`) and
compared with `strcmp` (`src/ss_queue.c:176`), which stops the daemon. What
becomes of an accepted call is `ActionService`, which `RunQueue` implements:
`Sysnoti` relates the answer of a client to the start of its action without the
pipe and the signal handler.

**DeviceChange.** `noti` are reports of udev on their way, `queue` the acts that
`usb_chgdet_cb` and `earjack_chgdet_cb` have queued; both say only that a jack
changed. `Tell` is the reading of a jack, wherever it is read from: the key and
the lock that depend on it, or a read that fails; setting the key and moving the
lock may each fail too, and nobody looks at it. `Init` is after the earjack, USB and
the charger were read; `Register` is `ss_device_change_init`, which asks for the
reports and reads keyboard and HDMI. A change before it is never reported.
`missed` and `slipped` are histories of the jacks whose key, or lock, the daemon
had no chance to get right: an unreported change, or a read, a key or a lock that
failed. `locks` are the locks the daemon holds at the power manager, one for each
state of the display. `TimeAct` is what `set_datetime_action` and
`set_timezone_action` do to them: they take the lock of the current state and
release it, which may fail; `borrowed` are the locks they have changed.

**ChargeNotice.** `ChargeCb` is `charge_cb` from the health of the battery on
(its poll of the battery is in `LowBat`). The number it compares with 0 and 1 is
that of the last successful read, so a failed read of `charge_full` compares the
health. `helper` is the process of `sys_device_noti`, of which
`ss_launch_if_noexist` lets one run.

**BsLog.** `ReadLine`, `ReadEnd` and `Empty` are the steps of
`launch_crash_worker` between which a handler may append, `partial` and
`pending` a line of which the first half was written. What is left of a line whose
first half was emptied away is `Rest`. Without a blank in it no worker is launched
and `ret` stays what it was (`PassRest`): before the first worker that is -1, so the
loop ends and the log is kept (`src/ss_bs.c:106`, line 111). A `Rest` that starts the
log (`RestFirst`) may so stop every later run at the same place. `Watch` is the end
of `ss_bs_init`.

**Pmon.** `PmonCb` is `pmon_cb` and `pmon_process` up to the file of the new
process, `AdoptNew` the rest. Processes die at any point between; the pid of a
new process is any that is free.

**TimeMgr.** `HandleTimezone` is one step; both calls it makes may fail.

**Handlers.** The six share no state with one another, so checking them together
would only multiply their states. The variable `component` chooses one that
moves, from all its first states; the others stay in one of theirs. A behaviour
of `Handlers` is therefore one of the chosen component with constants beside it
(`SumOfComponents`, section 4), and each property of a component that holds of all
behaviours of `Handlers` holds of the component. Fairness is that of `Sysnoti` and of `BsLog`.

**Mmc.** `events` are the reports of udev, in order; `slot` is what is really in
the slot. Mounting tries for a second within one step. A mount whose card was
pulled is `Dead` and stays so, also when a card comes, until it is detached.
`reply` is the result key, which may fail to be set.

## 3. What is checked

Every action and disjunct of each next-state relation is fired by the passing
runs. Each property of a passing run is violated when one definition is
replaced by the altered copy named for it under "mutants" in `PROJECT.json`.

### 3.1 Runs and bounds

| Run | Bounds | What it shows |
|---|---|---|
| `queue` | 3 calls, 2 pids that are recycled, pipe of 7 messages, children may stop | `NoLostWakeup`, `DeadChildWillBeCleared`: nothing is forgotten wherever SIGCHLD hits; `FreedOnlyWhenOver`; refinement of `ActionService`; `EveryCallStarts` and `EveryEndedCallIsFreed` under fairness |
| `pipe` | 4 calls, 2 pids, pipe of 4 messages | `BlockedOnlyByBurst`: the daemon waits for its own pipe, but only when a burst of calls fills it |
| `procmgr` | 4 processes, limit 4 instead of 15, scans may fail; processes are symmetric | `LruOrder`, `NoTies`, `OldestKilledFirst` |
| `lowmem` | the intervals of the code, 5 s and 15 s; all four levels | `TimerFollowsLevel`, `CleanupNotStarved`, `CriticalKeepsActing`, `CriticalIsPublished` |
| `lowbat` | the upper end of every band, -1 and 101; 1 error instead of 10 | `StatusAgrees`, `SlowOnlyWhenHandled`, `HealthyReadingRepairs`, `DescentCalls`, `LevelIsHandled` |
| `popup` | 3 acts waiting, four contents, plugs pulled at any time | `LatestRunIsShown`, `LastIsShown` |
| `poweroff` | 3 requests of either kind, the 15 s of the code, an animation of 2 s | `DownAsAsked`, `DeadlineKept`, `GoesDown` |
| `storage` | a disk, its partition, another disk; counters wrap at 3; 2 cards, 4 events on their way | `NothingHidden`, `AnnouncementsAreSeen`; `EventsSettle`, `RepliesAreTrue` |
| `cpufreq` | 2 symmetric processes, frequencies on both sides of the one of power saving | `KernelObeysStrictest`, `PowerSavingSettles`, `GoneAreDropped` |
| `handlers` | 2 clients; 2 jacks at a time, 2 acts of a kind queued; 3 crashes; 2 programs, 3 pids, 2 unserved deaths; 2 zones | `OnlyBadRequestsGoWrong`, `OnlyAStalledClientBlocks`; `KeysSettle`, `LockFollowsPlug`; `FullNoticeSettles`; `NothingLostQuietly`, `EveryCrashIsRead`; `PermanentStays`; `RequestTakesEffect` |
| `usb_protected`, `usb_announced` | the disks of `storage` | violations, see 3.3 |

The type invariants are proved for all instances as parts of the inductive
invariants of section 4. In `CpuFreq` the proved part of
the types is in `OwnLimit` (lists and flags); `StrictestCounts`, proved as well,
fixes the limits.

Why these bounds are enough:

* *queue*: the races are between one entry that is starting, one that waits and
  one whose child dies; a third call lets two wait together, and two pids let a
  pid be reused while another child lives. The pipe has room for all the
  messages of three calls, so that this run is about the queue and not about a
  full pipe, which stops the daemon.
* *pipe*: with four messages a burst of two calls can fill the pipe when the children
  that earlier calls have left die meanwhile, and four calls let a burst begin after
  others were served. A pipe of the kernel holds thousands of messages; what
  `BlockedOnlyByBurst` rules out is that messages pile up in another way, over the
  life of the daemon. A daemon that waits for itself stops, so deadlock is not checked.
* *procmgr*: a tie needs two processes, killing an older one before a younger
  one three, and a fourth takes part as a forked child. A limit of 4 leaves two
  values between joining (1) and the limit; ageing treats them all alike.
* *lowbat*: the table only looks at bands. `MAX_BATTERY_ERROR` only tells few
  from too many.
* *poweroff*: an animation of 2 s can begin before, with and after the end is due.
* *storage*: only equality with the end matters to the counters. Four events let a card
  go, another come, and go again while the first removal still waits. As in `handlers`
  one of the two moves in a behaviour, since they share nothing.
* *cpufreq*: two requests and that of power saving make every order of three
  frequencies.
* *handlers*: two clients are enough for one to keep the other waiting. The jacks
  interact only where they share a lock (USB and charger) or a queue of acts, and
  each of the two kinds of act is in one of the pairs; two acts of a kind let one
  wait while another runs. Three lines let one be reported, one be caught by the
  emptying and one come after. Three pids for two programs leave one free, so
  that a pid comes again while its last owner's file or report is still there.
  Two zones are the one the link names and the one asked for.

For the invariants and action properties that are proved (section 4) the bounds
do not matter.

### 3.2 Fairness and assumptions

Fairness is weak and on the daemon only.

* `RunQueue`: the thread is scheduled (`Main`) and so is its signal handler.
  Nobody has to call and no child has to exit. That is what the ecore main loop
  and the kernel provide. A child that is *stopped* and never goes on is
  another matter: the handler's `waitpid` without `WNOHANG` then waits for ever,
  and the daemon with it. The liveness properties except exactly that
  (`BlockedForever`), and deadlock is not checked in `queue`, which also stops
  when all calls have been made.
* `LowMem`, `LowBat`, `LowBatPopup`, `PowerOff`: the main loop serves the memory
  device and the timers, time passes, the run queue is run, booting ends, and a
  popup whose launch is tried again every second comes up in the end; the wait for
  the animation ends (`End`). `CriticalIsPublished` also takes it that the key does not
  fail each time for ever (`KeyRecovers`). The modem owes nothing. A device that is
  down stops, so `poweroff` does not check deadlock.

* `Sysnoti`, in `handlers`: the thread serves the socket (`Daemon`) and the run
  queue, separately, since the main loop gets to both between two requests. A
  client owes nothing: `OnlyAStalledClientBlocks` names the one that stalls.
* `BsLog`, in `handlers`: the main loop delivers the change of the log and the
  callback goes on. Crash handlers owe nothing, and may go on for ever.
  `handlers` does not check deadlock: clients, crashes and processes come to an
  end.

Assumptions about the world:

* Memory can be allocated. A pid is not given out again while a message about
  its last owner is still in the pipe; the kernel goes through all pids first.
* Children no entry waits for (memps, `sys_device_noti`, a relaunched process,
  the crash worker) exist and raise SIGCHLD (`LaunchDetached`).
* A scan of `/proc` is one step. `/sys/block` can be read, and detaching a
  tmpfs (`MNT_DETACH`) is never refused. `reboot()` does not return.
* The clock is not set while the device goes down. The daemon starts with no USB
  storage and no memory card mounted.
* udev reports the memory card in order. When a second callback is registered
  with the telephony library, the first one may or may not remain.
* What a client writes in one call arrives in one piece or not at all; a read
  that is interrupted by a signal is tried again (`src/ss_sysnoti.c:60`), and a
  client that went away does not stop the daemon (`src/ss_sig_handler.c:73`).
* The power manager counts no locks: a process holds a state of the display once.
* One crash handler writes at a time, and nobody else touches its log. A change
  that comes while the daemon is in its callback is reported after it.
* The kernel's process monitor reports every death of a process it watches, once,
  and in order.
* A process whose value the process manager sets by hand, to anything the kernel
  accepts, leaves the order of the background.

Restrictions in properties say what the code does not give:

* `TimerFollowsLevel`, `CriticalKeepsActing` and `CriticalIsPublished` exclude what
  REBOOT has left behind, by the history `off_table`. That the key follows every level
  (`ClientsAreTold`, a part of the invariant of section 4) also excludes a last write
  that failed; what becomes of it while memory is critical is `CriticalIsPublished`.
* `SlowOnlyWhenHandled` lets the monitor wait the long interval although the
  capacity key could not be set: the code does not look at that failure
  (`src/ss_lowbat_handler.c:157`). `HealthyReadingRepairs` says what makes up for it.
* `LatestRunIsShown` and `LastIsShown` let the warning of a pulled plug take the place
  of what the last act of a low battery has shown (`warned`).
* `NothingHidden` excludes devices added when the kernel refused the tmpfs with EBUSY
  (`bare`): a later tmpfs may be mounted over them.
* `RepliesAreTrue` lets a client be told that its card was mounted already when the
  mount is dead, but only while the report of the removal is still on its way.
* `GoneAreDropped` excludes the caller: whoever asks has its own entry.
* `PowerSavingSettles` excludes, by the history `stale`, changes of the two settings
  that no callback could take in: made before the daemon was told of changes; power
  saving turned off and on again before its callback runs, which cannot tell and
  keeps the entry; or a callback that could not read the other setting. The next
  callback that sets or removes the entry ends the exclusion.
* `LatestRunIsShown` speaks of the act that *ran* last. Acts that wait together
  run newest first, so after a fall through several bands between two rounds of
  the main loop that is the oldest of them.

* `OnlyBadRequestsGoWrong` excludes requests that were cut, those with an empty type,
  and those with more arguments than fit (`SYSMAN_MAXARG` is looked at after they
  were stored).
* `KeysSettle` excludes a jack whose last change came before the daemon was told of
  changes, or whose last read or key has failed (`missed`); `LockFollowsPlug` excludes
  the same for locks (`slipped`), USB and charger plugged in together, of which the
  first to go releases the lock of both, and a lock that an act of the time has
  released or left (`src/ss_timemgr.c:148`).
* `FullNoticeSettles` excludes a notice whose helper was not launched, because one
  was running, or failed: `bat_full_noti` says it was given.
* `NothingLostQuietly` and `EveryCrashIsRead` exclude lines of which a part came
  while the log was being emptied or whose end was not there when they were read,
  and, for being read in time, those appended before the log was watched and all
  after a failure. `EveryCrashIsRead` also excludes a log that begins for ever with
  the rest of a line (`RestFirst`): each run stops there, although nothing fails.
* `PermanentStays` excludes programs for which a step has failed, a process that
  died before it was watched, and pids that come again while a file of this name
  is there.
* `RequestTakesEffect` excludes a link to a file that is gone: `stat` does not
  find it and `symlink` does not replace it.

### 3.3 Disagreements of code and comments

* `Protected` (`usb_protected`). `src/ss_usb_storage_handler.c:154` says tmpfs is
  mounted to protect user data. A removal detaches that tmpfs and sets the flag
  to 1 (line 242), so that no further device gets one.
* `AnnouncedIsMounted` (`usb_announced`). Line 186 says it is checked whether the
  device is mounted. The check finds `/dev/sda` in `/dev/sda1` and announces a
  disk of which only the partition is mounted.

## 4. What is proved

All theorems are of the specification with arbitrary constants under the named
assumption of the module (`RunQueueAssumption`, ...): any number of calls, pids
and pipe slots, any set of processes and any limit, any intervals, readings,
devices, cards, requests and timeouts, any clients, jacks, crashes, programs and
zones. The theorem about the pipe also assumes finitely many pids.

The theorems of `HandlersProofs` are about the specifications of the components;
`SumOfComponents` shows that each behaviour of `Handlers` is one of all six, and
`SumKeepsItsPromises` carries the properties over to the specification the run
checks. `RequestsUseTheService` shows that `Sysnoti` makes only the steps of
`ActionService`, the specification `QueueImplementsService` shows `RunQueue` to
implement: the two halves of the way from a client to its action meet there.

Each proof goes the same way: `IInv` is inductive (`InductiveStep`, one step per
action and under it one per conjunct the action can disturb), so `Spec => []IInv`
(`Invariance`; in `HandlersProofs`, where there are several, `JacksInvariance`,
`RequestsInvariance` and so on), and the properties follow from it. The invariants
are:

* **RunQueue**: the three properties plus `EntryShape` (state and pid of an entry
  fit together), `CursorShape` (where the cursor stands at each point of the
  thread), `SignalShape` (a CLEAR names a reaped child) and `OneEntryPerChild`.
  Without the last one a CLEAR for one entry could be claimed by two, and the
  property that a dead child has its CLEAR under way would not survive its being
  read. `EntriesOutliveTheirChild` (`FreedOnlyWhenOver`) and
  `QueueImplementsService` use the invariant on the step that frees: what a CLEAR
  names is -1, the pid of entries that are done, or a child that was reaped.
  In the refinement a call is "queued" while INIT, "started" while RUNNING or
  DONE, "retired" when freed; it is busy while its child exists.
* **RunQueuePipe**: `DaemonWaitsOnlyInABurst` (`BlockedOnlyByBurst`) holds for every
  capacity of the pipe and does not depend on how many calls there were before. Its
  invariant `PipeInv` adds to `IInv` two parts. `BurstShape`: a call found the pipe
  empty only when every call before it was started and nothing of those is being
  run, so the pipe owes older calls nothing but the CLEAR of a child. `PipeShape`
  counts what waits by kind: a RUN message belongs to a call of the burst, and
  before anything of the burst was run one has been read (`Swept`); a CLEAR with -1
  belongs to a call of the burst that is over (`Over`); a CLEAR with a pid is
  there at most once, since a pid is reaped only while its CLEAR is not under way
  (`SignalShape`). Before the first RUN is read nothing of the burst is over, so
  less than `2 * burst + Cardinality(Pids)` wait together. `PipeLength` adds the kinds
  up: the places of the last kind are injected into the pids. The lemmas
  `WriteCounts` and `ReadCounts` say what a write and a read do to the count of a
  message.
* **ProcMgr**: types, `OlderIsBackground`, `LruOrder`, `NoTies`. Ageing adds one
  below the limit, so it keeps weak order always and strict order below the
  limit (`AgedKeepsOrder`); a scan that was made leaves nobody at 1
  (`AgedMakesRoom`), so the process that joins is strictly the youngest.
* **LowMem**: types, timer and key (for all four levels), and `CleanupInReach`: the time since the last
  cleanup plus the time until the timer fires never exceeds the two intervals.
  `CleanupNotStarved` alone is not inductive, as a tick needs it of the timer.
* **LowBat**: types and the three agreements; the ten rows of the table are
  proved complete for every way down (`TableIsComplete`).
  `OneHealthyReadingRepairs` needs `CapacityAgrees`: a reading equal to the capacity the
  monitor knows does not write the key.
* **PowerOff**: the timer of the *first* request runs until the end begins, also when
  it is forgotten: `waited + timers[1] = TIMEOUT`. From then on no request is served, so
  the end is put off by what is left of one animation (`OneAnimation`):
  `EndIsPutOffByOneAnimation` (`DeadlineKept`).
* **UsbStorage**: no tmpfs over a device but a bare one, no tmpfs and only bare devices
  while the flag is not set, never two layers of tmpfs (`TmpfsIsNotStacked`), and
  the key is the counter, so that counting it up changes it.
* **Mmc**: `EventsShape` says what the events on their way still have to tell: the
  last is of the card in the slot, and a dead mount has a removal
  coming. `EventsSettle` is what it says of no events.

* **DeviceChange**: types, `UsersKnown` (whoever is plugged in or still to be
  served has used the common lock) and the two properties, from the first read on,
  before the daemon is told of changes. A release of the lock
  of USB and charger while the other is in happens only when both have used it.
* **ChargeNotice**: `FlagFollows`, `bat_full_noti` is the battery once reports are
  served; `HelperFollows`, the tray or the helper on its way is `bat_full_noti`.
* **Sysnoti**: `InLine`, a client waits in one place, unanswered, and has sent what
  was read.
* **BsLog**: `Writing` (one handler, every line once), `Removable` (what is about
  to be removed has been read or was caught), `Unreported` (nothing behind the
  reader is reported, which is why a line is not reported twice).
* **Pmon**: `FilesAreRight` (the file of a process that is looked after names its
  program and no death of its pid is unserved, or the program is excluded) and
  `ServedIsOver` (the pid just served stands for nothing, so that its file may go).
* **CpuFreq**: `OwnLimit` for `PowerSavingSettles`: the daemon's own limit is gone once
  the one callback that can tell has come, and there once both have. `GoneAreDropped`
  follows from what a pass over a list leaves (`OnlyTheCallerStays`): of the processes
  that are gone, only the caller. `KernelObeysStrictest` follows from two agreements
  that the run does not check by themselves: of kernel and current limits
  (`KernelIsTold`), and of current limits and lists (`StrictestCounts`). `KernelIsTold`
  is inductive.
  `StrictestCounts` is inductive together with the types of the lists, once it is
  known that a set of frequencies that is not empty has a least and a greatest
  element: `LeastOf` and `GreatestOf`, from the well-foundedness of `<` on the
  naturals and the frequencies lying between `INT_MIN` and `INT_MAX`.
* **LowBatPopup**: types, `LatestRunIsShown`, `TimerHasContent`.

The theorems of `LowBatPopup` are in `LowBatProofs`, those of `UsbStorage` and `Mmc`
in `StorageProofs`.

Every invariant and every action property that a passing run checks is proved.
Only model-checked are the liveness properties: `EveryCallStarts`,
`EveryEndedCallIsFreed`, `CriticalKeepsActing`, `CriticalIsPublished`, `LevelIsHandled`,
`LastIsShown`, `GoesDown`, `OnlyAStalledClientBlocks`, `EveryCrashIsRead`. Fairness and ENABLED are
beyond the prover.

## 5. What is not modelled

* Restarts of the daemon: `system_server.sh` starts it once and nothing in the
  repository starts it again. What a new one would find (mounts, links, files) is
  covered as far as the first states of a module include it: `TimeMgr`, `BsLog`,
  `DeviceChange`, `CpuFreq`.
* The callbacks of keyboards, mice, cameras, the TV output and unknown devices, and
  the sleep, leave, entersleep and lowmem acts: each makes one or two calls of a
  library, or launches a program, and keeps no state.
* The registry of actions, which is filled at start and then only read; parsing of
  command lines, languages and the environment of launched programs.
* `LowBat`, the order of the queue and `LowBatPopup` are not composed: what joins
  them is the newest-first order, which `LowBatPopup` takes in, and
  `DescentCalls`, which says what is called.
* A log of crashes that is deleted: whether the monitor of a file survives that is
  a matter of ecore. Several crash handlers that write at the same time.
* The heynoti wrapper, start, plug-in loading, logging and the other helper
  programs are straight-line code without state; packaging and udev rules are not
  code of the daemon. Formatting a card is the work of a plug-in. Texts and the
  popups of USB storage are left out.

## 6. Order of reading

`ActionService`, then `RunQueue` and its proofs: everything else is called from
there. `Sysnoti` shows how a client gets there. The other modules can be read in
any order; `DeviceChange`, `LowBat` and `LowBatPopup` are about the same cables.
