# Specifications of the D1 R32 OpenMRN Wi-Fi node

TLA+ models of the firmware in `main/`, checked with TLC on small instances,
and theorems about them proved with TLAPS. Source paths are relative to the
root of the repository.

At this commit `main/CMakeLists.txt:26` sets `RR_RX123_TEST` to 1, and then
`app_main` only runs the CAN receive check of `main/can_rx_123.c`. `WifiCred`
and `Provision` have images of both kinds; the other modules model the firmware
with the option at 0.

## The system

An ESP32 joins the house Wi-Fi, connects over TCP to a JMRI hub that it finds
with mDNS, runs an OpenMRN node over that socket, and shows on a 4-inch panel
how far it got. It has five threads of control once it is up: the main task
(ends after bring-up), the ESP-IDF event loop, `uplink_task`, `probe_task`, and
OpenMRN's executor. They share plain static variables; the only lock in the
application is the panel's.

| Component | Code | State | Operations | Talks to |
| --- | --- | --- | --- | --- |
| Bring-up | `main.cpp`, `can_rx_123.c` | the SSID and passphrase buffers | `app_main`, `bring_up_wifi`, `rr_rx123_run` | calls all others in order |
| Debug identity screen | `debug_ids.cpp` | `s_panel_ok` | `debug_ids_show`, `debug_ids_show_psk_status` | serial line, panel |
| Credential loader | `wifi_cred.cpp` | NVS `ssid`, `psk_gcm`; the baked wrap | `wifi_cred_load` | NVS, flash id, the panel |
| Wi-Fi station | `wifi_sta.cpp` | `s_state`, `s_ip`, `s_retries`, `s_events` | `wifi_sta_start`, `wifi_sta_wait`, `on_wifi`, `on_ip` | esp_wifi events, Wi-Fi icon |
| Hub uplink | `lcc_uplink.cpp` | `s_attached`, `s_fd`, `s_hub_ip` | `uplink_task`, `s_closed` | station, mDNS, OpenMRN |
| RAM configuration file | `lcc_uplink.cpp` | `s_cfg`, `s_ram_used`, `s_ram_off` | `ram_open` ... `ram_lseek` | OpenMRN through the VFS |
| Reachability probe | `svc_reach.cpp`, `SvcReachPick.h` | none but the icons | `probe_task` | station, uplink, TCP, icons |
| Panel | `ili9486_min.cpp` | the mutex, the controller | `ili9486_fill_rect`, `ili9486_draw_text`, the icons | SPI bus |
| Host tools | `utils/`, `main/CMakeLists.txt` | the id file, the wrap file, the build directory | collect, wrap, configure, build, flash, erase | the serial line and the flash of the board |

What is hard here: handlers and tasks that change several unlocked variables
one after the other while another task reads them; a wait that times out while
its answer is on the way; events that never come because a call failed; a
connection that dies without Wi-Fi noticing, and the reverse; a probe whose
result is seconds old when it is painted; a fixed table of four slots; a reset
between two writes to flash; an id that is read twice with different outcomes;
a build directory that remembers whether the wrap was there; two tasks on one
SPI bus. `PROJECT.json`
("hazards") lists each of them at its line with the property that covers it.

## Modules

| Module | Models | Notes |
| --- | --- | --- |
| `SeekableFile` | what an open file promises: one content, a position per handle | abstract specification |
| `RamCfg` | the RAM file system behind `/ramcfg/openlcb` | implements `SeekableFile` while handles fit |
| `RamCfgProofs` | theorems about `RamCfg` | TLAPS |
| `WifiSta` | the station: main task, event loop, radio and DHCP | handlers cut where another task can see |
| `WifiStaProofs` | theorems about `WifiSta` | TLAPS |
| `HubLink` | what the uplink promises: detached, or attached to one hub | abstract specification |
| `LccUplink` | `uplink_task` and OpenMRN's executor | implements `HubLink` |
| `LccUplinkProofs` | theorems about `LccUplink` | TLAPS |
| `HubIpText` | the bytes of `s_hub_ip`, stored and copied at the same time | |
| `SvcReach` | `probe_task` and both service icons | reads inputs that change beside it |
| `SvcReachProofs` | theorems about `SvcReach` | TLAPS |
| `Node` | station, uplink and probe composed, started by `bring_up_wifi` | EXTENDS `WifiSta`, INSTANCEs the other two |
| `NodeProofs` | that each component runs in the node by its own specification | TLAPS |
| `WifiCred` | the boot of one board, from `app_main` to the configured radio, over its whole life | flashes, erasures, resets, failing writes, a panel or a flash id that fails |
| `Provision` | the host tools, CMake's and Ninja's memory of the wrap, beside the board | EXTENDS `WifiCred`; implements it |
| `ProvisionProofs` | theorems about `WifiCred` and `Provision` | TLAPS |
| `Panel` | tasks painting icons over one bus, with a device or without | lock, frames, the controller's state |
| `PanelProofs` | theorems about `Panel` | TLAPS |
| `Slash` | the loop of `draw_slash` | a pure algorithm |
| `SlashProofs` | theorems about `Slash`, for every line | TLAPS |
| `MC...` | values for TLC that a cfg cannot write | |

A definition named "Mutant of X" beside X is X with a plausible mistake: TLC
finds the property named in `PROJECT.json` ("mutants") violated when it takes
X's place.

How state and actions correspond to the code:

- Variables carry the names of the C variables. Where a local variable or a
  program counter matters it is named for its task (`upc`, `fd`, `cands` in
  `LccUplink`; `ppc`, `hosts`, `up` in `SvcReach`; `phase`, `todo` in
  `WifiSta`).
- A call that no other task can observe in the middle is one action
  (`ram_write`, `wifi_sta_start`). A handler or a loop that others can observe
  is cut at each shared write: `AttachSocket` has the three assignments of a
  successful round as three steps, a closed link is noticed in two
  (`NoticeClosed` clears `s_attached`, `ForgetHubIp` the address), `on_wifi` is
  `OnDisconnected`, `SetState`, `DrawIcon`, `Reconnect` or `SignalBits`, and
  `wifi_sta_wait` takes the bits (`WaitBits`) and reads the status behind them
  (`WaitStatus`).
- External parts are driven by what the code relies on. `WifiSta` has a radio
  that associates, fails, loses the link and renews an address, and posts an
  event for each in that order; a lease may also end, which no handler hears of
  (`LeaseExpires`). `LccUplink` has an executor that closes a port
  whose peer is gone and afterwards notifies `s_closed`. `Panel` has the
  controller, which sees bytes and the DC line and knows nothing of tasks.
- One boot in `WifiCred` is a sequence of steps with `pc`; a reset
  (`PowerLost`) may come before each of them, and takes all of RAM. A wrap is
  a record of SSID, passphrase and the key it opens under, and a key is a node
  number with the flash id, readable or not. The two lengths at which
  `strncpy` drops a byte are the set `Full`; what is left is `Cut`.
- `Provision` adds the host's files to the board. A build directory remembers
  CMake's answer (`configured`) and the wrap compiled into the object
  (`object`); an edit of the sources makes CMake run again, a new wrap file does
  not. Ninja keeps an object of an earlier build unless the definitions changed
  (it was compiled without the wrap) or the wrap file was written since
  (`newer`): that is `Object`, and all that keeps an old wrap out of an image.
- `Panel` has one frame, a window and its pixels, for a primitive.
  `ili9486_draw_text` sends one for each dot of its glyphs, all under one lock
  and inside its icon; the frame over the icon stands for them.
- History variables (`losses`, `refused` in `WifiSta`, `cut` in `WifiCred`,
  `announced`, `provisioned` in `Provision`, `asked` in `Panel`, `ret` in
  `RamCfg`) record what happened for the properties and guard nothing.

## Runs

| Run | Bounds | Shows |
| --- | --- | --- |
| `ramcfg_fits` | 2 handles, 2 slots, 3 bytes, transfers up to 2 | slots match handles (`SlotsMatchHandles`); the file keeps its promise (`PerFdSeeks`) |
| `ramcfg_full` | 3 handles, 2 slots, 2 bytes | offsets stay in the buffer; the damage of a full table stays with slot 0 (`OnlySlotZeroShared`, `OwnSeek`) |
| `wifi` | 2 addresses, `kMaxRetries` 2, 2 queued events at a renewal | what is published is true when events are handled, an expired lease excepted; the retry budget is exact; FAILED is final; the station settles again, unless `esp_wifi_connect` is refused or no address ever comes |
| `uplink` | 2 hubs, a self and an unusable address, 2 descriptors, 2 mDNS answers | no leaked or second socket, no lost close, the address names the peer while a socket is published and is gone before the next round; `HubLink` is implemented; a lost link is noticed and replaced |
| `reach` | 2 hosts, one unusable | both icons converge from every stale round |
| `node` | 1 address, 1 hub, 1 retry, 1 descriptor, no renewals | tasks start only after an address; the node comes back; giving up shows red on all three icons |
| `node_uplink` | as `node` | expected violation, see below |
| `cred` | `Provision` with one node number, a flash id that can be read or not (2 keys), 2 networks, one with a passphrase that fills its field | a boot loads exactly what it can open; the radio gets one pair, and a mixed one needs a cut save; the password line names the cause; good NVS is kept; an erasure lasts; no object with an old wrap is linked |
| `provision_bakes` | as `cred` | expected violation |
| `hub_ip_copy` | 2 addresses in cells of four bytes | expected violation |
| `panel` | 2 tasks, 3 areas, 2 icons, 2 pixels a primitive | icons stay intact; no foreign pixel; every call returns, also without a device |
| `slash` | the two slashes of the code, all lines in a 7 by 7 square | inside the icon, on the line, ends |

Why these bounds are enough: two handles beside each other and one too many are
all the cases a slot table has; a third address, hub or wrap would behave like
one of the two; retries and queued renewals matter by being at, below and above
their limit; a second node number would be a second key, which the unreadable
flash id already gives. Every property of every passing run is also proved
without these bounds (see Proofs). `Node` is checked with one hub and without renewals
because its state is the product of three components; each of them is checked
alone with more, and `NodeProofs` shows that it behaves in the node as it does
alone.

Fairness is what the scheduler gives. Every task takes its next step if it has
one (FreeRTOS, all calls return), and the driver ends an association attempt one way
or the other. Nothing is assumed of DHCP: `wifi_sta.cpp` has no timeout for a
station that is associated and gets no address, so `SettlesAgain` excepts a
station that stays so for ever, which shows SEARCHING without end. Nothing is
assumed of hubs, web servers or the access point either: liveness properties say "if the link
stays up and a hub keeps accepting" in their own text. `Panel` assumes in
addition that a mutex which is free again and again is not always lost to the
same task: painters sleep between icons.

Deadlock is not checked where the system stops: `WifiSta` and `Node` end in
FAILED, `Slash` ends.

## Violations

- `UplinkRuns`: `bring_up_wifi` waits 20 s once. An address that comes later
  makes the station CONNECTED, but nobody starts the uplink or the probe.
- `AnnouncedIsBaked`: CMake asks whether the wrap file exists when it runs
  (`main/CMakeLists.txt:53`), and the file is not among its inputs. A board is
  built and flashed wrap-free, its ids are collected, the wrap is written, and
  the next build in the same directory is announced by `build_idf5.sh:39` as
  one with the wrap, but holds none. It is built in after the next edit of a
  CMake file or a `reconfigure`.
- `CopyIsAHub`: `probe_task` copies `s_hub_ip` without a lock, so a copy taken
  during a store mixes two addresses. It is used for one probe round only.

Other things seen while modelling and not given a run of their own:

- An access point that associates and gives no address keeps the station in
  SEARCHING for ever: only a disconnect counts a retry (`wifi_sta.cpp:89`).
- After a loss the address of the old hub stays readable until the next poll, up
  to five seconds, and for a moment after `s_attached` is cleared
  (`lcc_uplink.cpp:347`). `HubIpNamesPeer` says how long, and no longer.
- Wi-Fi loss does not close the TCP socket. `Attached`, in the properties as in
  `lcc_uplink_is_attached`, is true of such a half-open link until TCP gives up.
- A save that is cut between its two writes (a reset, or the second write
  failing) leaves the SSID of one network with the passphrase of another, and a
  later boot may load that pair: when the key changes back to the one of the old
  blob: another node number, or a flash id that is readable on one boot and
  not on the next.
  `RadioGetsPair` shows that this is the only way to a mixed pair.
- A 64-digit passphrase and a 32-byte SSID, which the wrap accepts, reach the
  radio without their last byte (`wifi_sta.cpp:161`, `Field` in `WifiCred`).
- `wifi_cred.cpp:285` logs "No NVS wrap yet" for an NVS wrap that does not
  open, and the panel then shows NOT SET; README.md:10 lists UNWRAP FAIL, which this build never shows unless no key
  can be derived.
- BUILD.md:72 says the wrap file can be deleted for a password-free rebuild, and
  `erase_all_flash.sh:70` names the build as the next step. In a directory that
  was configured with the wrap that build fails, until CMake runs again.
- A new wrap for the same board is ignored as long as the old one in NVS opens.
- BUILD.md:98 promises the identity screen with `DEBUG=1`; the build of this
  commit, with `RR_RX123_TEST=1` beside it, does not show it.
- `wifi_sta.h:26` says the wait updates the icon, which only the handlers do;
  `Kconfig.projbuild:55` says `NODE_JMRI_MONITOR_PORT` drives the LCC icon, but
  nothing reads it; `wifi_cred.h:13` says the wrap is stored if NVS is empty,
  while it is stored whenever NVS does not open; README.md:91 promises per-fd
  seeks, which a fifth open handle would break.

## Proofs

Each proof module rests on the named assumption of its module's constants
(`RamCfgAssumption`, `WifiStaAssumption`, `LccUplinkAssumption`,
`SvcReachAssumption`, `NodeAssumption`, `WifiCredAssumption`,
`PanelAssumption`, `SlashAssumption`), and a liveness theorem on the fairness
it names; the model values of the runs become arbitrary values, and the bounds
of the runs (retries, addresses, descriptors, transfers, mDNS answers, pixels)
become arbitrary numbers and sets, or those of the code where the statement
says so.

`RamCfgProofs`:

| Theorem | Property | For |
| --- | --- | --- |
| `TypeCorrect` | `TypeOK` | any handles, slots, sizes |
| `OverflowConfined` | `OnlySlotZeroShared` | any handles, slots, sizes |
| `SlotsExclusive` | `SlotsMatchHandles` | no more handles than slots |
| `ImplementsSeekableFile` | `PerFdSeeks` | no more handles than slots |
| `SeeksAreOwn` | `OwnSeek` | any handles, slots, sizes |

`TypeOK` is inductive by itself: a transfer is clipped to what is left
(`TransferType`). `OnlySlotZeroShared` is inductive with it, and makes two
handles of one slot sharers of slot 0 (`SharersMeetAtZero`), from which `OwnSeek`
follows. `SlotsMatchHandles`
is inductive only when handles fit, since then `SomeSlotFree` (an open handle
more than the slots in use would make an injection of too many handles into
slots) excludes the branch that shares slot 0. Two handles therefore never
share a slot, so moving one offset moves one position (`MovesOnePosition`), and
each call is a step of `SeekableFile`, the landing point of a seek included.

`WifiStaProofs`, for any retry budget, address set and queue length:

| Theorem | Property |
| --- | --- |
| `TypeCorrect` | `TypeOK` |
| `TruthfulWhenSettled` | `StatusTruthful` |
| `SearchingIsNotStranded` | `NeverStranded` |
| `RetriesCounted` | `RetryBudget` |
| `BitsTruthful` | `BitsFollowStatus` |
| `VerdictFinal` | `FailedVerdictIsFinal` |
| `GivenUpForGood` | `GiveUpIsFinal` |
| `ComesToAnAnswer` | `SettlesAgain`, for `kMaxRetries` up to the code's 8 (`wifi_sta.cpp:26`) |

None of these is inductive: they speak of the moment when all events are
handled, and say nothing of what is still queued. `IInv` adds that. A loss is
the last event of the queue and the radio then waits for it (`QueueShape`); the
last address in the queue, or in `s_ip` if the queue is empty, is the radio's
(`AddressFollows`); status and icon are those of the running handler as far as
it got (`PublishedByPhase`); the count of losses and the budget spent agree
until the station gives up, and then nothing is queued or under way
(`BudgetSpent`); a bit is set only by the handler that ends with it
(`BitsByHandler`). `ComesToAnAnswer` follows one attempt from `esp_wifi_connect`
to its event and through the handler (`OneAttempt`): it brings CONNECTED, or
spends one retry, or waits for its address for ever; eight losses and one more
bring FAILED.

`LccUplinkProofs`, for any hubs, addresses, descriptors and mDNS answers:

| Theorem | Property |
| --- | --- |
| `TypeCorrect` | `TypeOK` |
| `OneSocketOnly` | `OneSocket` |
| `ClosesReachTheTask` | `CloseIsNoticed` |
| `AddressNamesPeer` | `HubIpNamesPeer` |
| `ImplementsHubLink` | `LinkPromise` |
| `LossIsNoticed` | `LossNoticed` |
| `AttachesAgain` | `Reattaches`, with a descriptor (`Fds # {}`) and a list of addresses no longer than 32-bit memory holds (`Memory`) |

The shared variables are unlocked, and `OneSocket` alone says nothing of them
together. `IInv` does: the link is in one of four phases (`NoLink`, `InHand`,
`Served`, `Closing`), each of which fixes every shared variable, and every
action leads from one phase to one. The refinement follows: publishing the
descriptor is the only step that attaches, the close notification the only one
that detaches. `LossIsNoticed` follows a lost link through the phases. In
`AttachesAgain` each turn of the candidate loop shortens `cands`, whose last
member is `HOST2` (`Candidates`), so a detached task comes to a host that
accepts, or has attached before it.

`SvcReachProofs`, for any hosts and any inputs that change beside the probe:

| Theorem | Property |
| --- | --- |
| `TypeCorrect` | `TypeOK`: the web hosts of a round are usable and at most two |
| `DownEndsRed` | `DownShowsFail` |
| `AttachedEndsGreen` | `AttachedShowsOk` |
| `HubWebEndsGreen` | `HubWebShowsOk` |
| `NothingEndsRed` | `NothingShowsFail` |

A round has finitely many places. Once the inputs are steady, the round under
way ends with what it knew, and for each promise the next one goes from place
to place to the icons it must show; no place of a round with these inputs
paints anything else.
The usable test guards the web hosts only: `HOST` and `HOST2` are
dialled for the LCC icon as they are configured (`svc_reach.cpp:106`).

`NodeProofs`, for the composed node. The three components share variables, so
it is not obvious that what is proved of each alone holds there:

| Theorem | States |
| --- | --- |
| `ImplementsStation` | the station runs in the node by `WifiSta`'s specification |
| `StartsAfterAddress` | `StartedAfterAddress` |
| `ImplementsUplink` | the uplink runs by `LccUplink`'s, with the station as its Wi-Fi |
| `UplinkKeepsPromises` | `OneSocket`, `CloseIsNoticed`, `HubIpNamesPeer` and `LinkPromise` in the node |
| `ImplementsReach` | the probe runs by `SvcReach`'s |
| `WebHostsUsableInNode` | the type invariant of `SvcReach` in the node: the web hosts of a round are usable and at most two |
| `StationAnswers` | `SettlesAgain` in the node, for `kMaxRetries` up to 8 |
| `LossIsNoticedInNode` | `LossNoticed` in the node |
| `ComesBackAgain` | `ComesBack`, with a descriptor and a list that fits in memory |
| `ProbeKeepsPromises` | the four icon promises, once the probe was started |
| `GivenUpEndsRed` | `GivenUpShowsRed` |

The first two theorems rest on `IInv` of the station and on `GrantSeen` (whoever has seen
CONNECTED, or will, follows an address). The uplink sees status and address of
the station change in steps of its `WifiChanges`, so its steps map one to one.
The probe needs the uplink's invariant: only that makes "attached" come with
the address of a hub, which `SvcReach` takes for granted of its inputs. The
liveness theorems are those of the parts, brought over along these refinements;
`ComesBackAgain` adds that a link which stays up is published in the end
(`UpIsPublished`), `GivenUpEndsRed` that the handler which gave up draws its icon.

`ProvisionProofs`, for any wraps, node numbers and outcomes of reading ids:

| Theorem | Property |
| --- | --- |
| `TypeCorrect` | `TypeOK` |
| `RadioPair` | `RadioGetsPair` |
| `LoadsExactly` | `LoadsWhatOpens` |
| `LineTellsCause` | `PanelTellsCause` |
| `GoodNvsIsKept` | `GoodNvsKept` |

The invariant follows a boot: what each stage has and has not yet (`Stages`),
what a result and a line stand for (`Outcome`), where buffers come from
(`Pair`). Between boots only flash is left, and `Store` says what it may hold: a
blob and an SSID of one wrap, unless a save is under way or was cut.

For the host tools beside the board, `ImplementsBoard` shows that host and board together are a
behaviour of `WifiCred`, so `BoardPromises` follows from the theorems above for
every board the tools make. `ProvTypeCorrect`, `NeverStale` (`NoStaleWrap`) and
`ErasedStaysErased` (`ErasedForGood`) are proved beside it; the last needs
`Clean`, by which a complete erasure leaves no wrap on the host, in the image,
in NVS or in a boot. A stale object may be left in the build directory, and
`Clean` needs not exclude it: without a wrap file the object is compiled without
one, or the build fails. `NeverStale` rests on `UpToDate`: an object that Ninja
would keep, because nothing was written since, equals the wrap file if there is
one. A new wrap sets `newer`, a deleted one leaves `object` behind but no file
that differs from it, and only a build clears `newer` again.

`PanelProofs`, for any number of tasks, areas, icons and pixels: `IconsStayIntact`
(`IconsIntact`) and `OwnAreaOnlyHolds` (`OwnAreaOnly`). The argument is mutual
exclusion (`Mutex`) and the place in the frame: `Controller` gives, for each
item the holder of the lock has sent, the DC line, the command, the window, the
cursor and the pixels already painted. Without a device nothing reaches the
screen (`Blank`). `EveryCallReturns` (`PaintEnds`), for primitives up to the 480
by 320 pixels of the panel (`ili9486_min.cpp:22`), shows first that the holder
of the mutex, alone able to move in its frame, gives it back (`HolderLeaves`), so
that it is free again and again (`FreeAgain`), and then takes a call through its
two primitives.

`SlashProofs`, for every line and every icon whose callers leave room at both
ends: `FollowsLine` (`OnTheLine`) and `NeverLeavesIcon` (`StaysInIcon`). After a
steps in x and b in y the error term is a function of a and b (`Walk`), the
distance from the line is at most half a pixel, and from that neither count can
pass its end (`OneStep`). Every step of the loop shortens what is left of the
line, so `LoopLeaves` (`LoopEnds`) holds for every icon the panel has room for:
the end point, the loop's only exit, is not stepped over.

Fairness in the proofs. The provers know nothing of ENABLED, so a liveness
theorem does not start from `FairSpec` but from fairness with the guard written
out, such as `[]<>~guard \/ []<><<Action>>_vars` for weak fairness
(`HandlerRuns`, `StackRuns`, `TaskRuns`, `ProbeRuns`, `LoopRuns`) and
`<>[]~guard \/ []<><<Action>>_vars` for the strong fairness of the mutex
(`MutexComes`). That each guard is ENABLED of its action is read off the action,
which in a reachable state blocks on nothing else and always changes something;
it is the one link between these theorems and `FairSpec` that no prover checks.
Some theorems need less than `FairSpec`: the uplink task alone attaches again,
with no help from the executor, and `GivenUpEndsRed` needs the event loop and the
probe task only.

Induction. No rule of induction can be applied to a temporal formula here. Where
a measure has to come down (the items of a frame, the steps of a slash), a
lemma shows that twice the distance takes two goes (`TwiceCloser`), and
doubling reaches the bound of the code in a few steps. The candidates of a round
are counted the same way (`TwiceFewer`): the code asks mDNS for 8 results
(`lcc_uplink.cpp:296`), but each brings a list of addresses that nothing bounds
but memory, so the bound is 2^32. Retries are few enough to name each count.
That is why these theorems name a limit (8 retries, 2^32 addresses, 480 by 320
pixels) where the safety theorems hold for any number.

With TLC alone: that the guards above are ENABLED, the three violations, which
are behaviours and not theorems, and what happens to bytes in `HubIpText`, which
has no passing run. No module declares a RECURSIVE operator.

## Not modelled

- Time. Delays and timeouts are nondeterministic: a property holds however long
  a call takes.
- Contents: frames on the wire, OpenLCB itself, CDI, glyphs and colours,
  cryptography. AES-GCM is "a blob opens only under the key it was made with".
- `ResetWhy.h`, `GitVersion.h` and `lcc_config.hxx` (tables and declarations
  without state), host tests and quality scripts.
- Errors of NVS reads: `wifi_cred_load` finds in NVS what flash holds. After a
  failed read it goes on to the baked wrap, as after an empty NVS, and may store
  that over credentials that are good; `GoodNvsKept` and `LoadsWhatOpens` are
  about reads that succeed.
- A mutex that could not be created at boot (`ili9486_min.cpp:30`): `Panel`
  assumes that the free heap of a fresh boot has room for it.
- Aborts by `ESP_ERROR_CHECK` are resets (`PowerLost` in `WifiCred`).
- Events out of order: ESP-IDF posts a loss after the address it ends. `on_ip`
  itself does not ask whether the station is still associated.
- `collect_hw_ids.py --from-log` (the log of another board makes a wrap that no
  boot opens, which the unreadable flash id already gives), `wifi_secrets.env`
  (nothing reads it), the self-test of `wifi_wrap.py`.

## Plan

What could be added, most valuable first:

1. A theorem of `HubIpText`: a copy that no store overlaps is the address of a
   hub.
2. `ComesToAnAnswer`, `AttachesAgain` and `LoopLeaves` for every budget, list and
   icon, should a rule of induction for temporal formulas come within reach.
3. The mixed pair after a cut save as a run of its own.
4. Events that overtake each other in `WifiSta`, if a version of ESP-IDF is
   found to post them so.
5. `Node` with two hubs and renewals under TLC, if larger machines allow.
