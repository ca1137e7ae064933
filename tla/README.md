# TLA+ model of the sniffjoke packet engine

This directory holds TLA+ modules for sniffjoke, together with the TLC configurations that check them. sniffjoke is a daemon that sits between a host and the network. It holds the host's outgoing TCP segments and injects decoy packets next to them ("hacks"). The decoys are built to confuse a passive sniffer but never to reach the real destination. To give a decoy a TTL that expires before the destination, sniffjoke first discovers each destination's hop distance by TTL bruteforce.

The parts modelled come from `src/src/TCPTrack.cc`, `src/src/SessionTrack.cc`, `src/src/service/Plugin.cc` (`PluginCache`), the plugin pool's loading in `TCPTrack.cc` 34-184, and the packet queue described in `spec.md` §4.1 (its class is not under `src/`).

## 1. Inventory of the system

| Part | Code | State | Operations (state changing) |
|---|---|---|---|
| Packet queue | spec §4.1 (`PacketQueue`, not in `src/`) | two priority tiers of packets; one shared `get()` cursor | `insert`, `insert_before`, `insert_after`, `remove`, `get(…, false)` restart, `get(…, true)` continue |
| Session table | `TCPTrack.cc` 319-351, `SessionTrack.cc` | `sex_map`: key (daddr, sport, dport) → session {packet_number, shutdown} | `init_sessiontrack` (clears the whole table at `max_sex_track`), `clear_session` (two-phase close), packet counting |
| TTL focus / discovery | `TCPTrack.cc` 353-516, 596-606 | `ttlfocus_map`: daddr → {status, sent_probe, expiring_ttl, min_working_ttl, probe_ready} | `init_ttlfocus`, `enque_ttl_probe`, `analyze_ttl_stats`, `analyze_incoming_icmp`, `analyze_incoming_synack`, `mark_real_syn_packets_SEND` |
| Orchestrator | `TCPTrack.cc` 784-933 | packets' status/source, `youngpacketspresent`, `sj_run` | `writepacket`, `analyze_packets_queue` (five loops), `readpacket` |
| Hack selection / injection | `TCPTrack.cc` 287-317, 622-677 | none of its own: it inserts into the queue | `percentage`, `logarithm`, `inject_hack_in_queue` |
| Final fix-up | `TCPTrack.cc` 694-781 | the emitted packet's TTL, wtf, checksum | `last_pkt_fix` |
| Packet validation | `TCPTrack.cc` 206-280 | none | `check_evil_packet`, `check_uncommon_tcpopt` |
| Plugin pool | `TCPTrack.cc` 34-184, 200-204 | `listOfHacks` (MAXPLUGINS slots of library handle and object), `n_plugin`, `fail`, the pool vector of `HackPacketPoolElem` | constructor (reading the enabler file, `dlopen`, object creation, `verifyPluginIntegirty`, `push_back`), destructor (`DeleteHackObject`, `dlclose`) |
| Plugin cache | `service/Plugin.cc` 25-120, `service/Hack.h` 42-62 | two vectors of `cacheRecord*` (`first` older, `second` fresher), `manage_timeout` | `check`, `add`, `explicitDelete`, `manage` |
| Daemon, CLI | `main.cc`, `srv/core/main.cc`, `cli/main.cc` | process state | start, stop, control socket |

**How the parts interact.** The daemon's poll loop (NetIO, not under `src/`) does three things between cycles:
- it passes each packet read from the tunnel or the network to `writepacket`;
- it runs `analyze_packets_queue`;
- it drains `readpacket`.

`analyze_packets_queue` walks the queue five times with the one shared cursor:
1. incoming ICMP, which feeds TTL discovery;
2. incoming TCP: probe SYN/ACKs feed discovery, and FIN/RST start a session close;
3. outgoing tunnel packets: discovery is started, SYNs are held (KEEP) while the distance is unknown, sessions are counted and hacks are injected;
4. the remaining YOUNG packets are released;
5. KEEP packets are revisited, which may queue the next probe.

`readpacket` passes every SEND packet through `last_pkt_fix`. That function chooses the TTL: for a decoy it is just short of the destination, and for a real packet it is enough to arrive.

**Behaviours that make it hard.**
- The cursor is shared: `mark_real_syn_packets_SEND` restarts and exhausts it in the middle of the incoming-TCP loop.
- Probe answers arrive late, reordered or not at all.
- The host retransmits held SYNs.
- The session table is cleared wholesale at its capacity.
- TTLs are stored in 8 bits.
- Loop control (`continue` without advancing the cursor) decides whether a cycle ends at all.

## 2. Modules

| Module | Models | State ↔ code |
|---|---|---|
| `PacketQueue` | the queue class (from spec §4.1; every entry in the map is `spec_modelled`) | a record `[high, low]` of sequences of packet records; the cursor is the set `passed` of ids at or before it; `Get` returns the next match and the new cursor |
| `TCPTrack` | `TCPTrack.cc` and `SessionTrack.cc` | `p_queue`, `passed`, `youngpacketspresent`, `sex_map`, `ttlfocus_map`, `sj_run` as in the class; `pc` is the loop being run (`idle`, `icmp`, `tcpin`, `tunnel`, `young`, `keep`) and `pkt` the packet the loop holds; `emitted` is the last packet `readpacket` returned |
| `SniffJokeNet` | the environment: the host (tunnel), the peers and routers on the path (network), the poll loop | `net` is the set of packets in flight to sniffjoke; `Replies` is what routers and the destination answer to an emitted packet (time exceeded below the hop distance, SYN/ACK at it); `sentIds` records the host packets already sent |
| `MC_SniffJokeNet` | TLC instantiation | hop distances, port configurations and hack frequency as definitions |
| `TTLDiscovery` | what discovery promises (spec §3, §4.3): the abstract specification `SniffJokeNet` refines | `focus`: destination → [status, dist]; `Track`, `GiveUp`, `Learn` (the distance only decreases, never below the real one) |
| `HackSelection` | `percentage` and `logarithm` (287-317), used by `TCPTrack`'s `inject_hack_in_queue`; `pktRandomDamage` (`srv/core/Hack.h` 61-68, `Plugin.cc` 135-162) | pure operators; `percentage` returns the set of outcomes over the 100 values of `random() % 100`, and the weight is in hundredths |
| `PacketValidation`, `MC_PacketValidation` | `check_evil_packet` (206-242) | a buffer is its length and header fields (`nbyte`, `tot_len`, `ihl`, `doff`, `protocol`) |
| `HackPacketPool`, `MC_HackPacketPool` | the `HackPacketPool` constructor and destructor, `verifyPluginIntegirty`, `HackPacketPoolElem` | the enabler file is a constant sequence of line kinds (comment, short, missing library, invalid object, valid object) and whether the last line ends in a newline; `ReadLine` is one pass of the do-while, `EndOfFile` the `fgets` that returns NULL, `Create` one pass of the creating for loop, `InjectCopy` the copy `inject_hack_in_queue` makes of the pool (627) and the copy's destructor when the call returns (677), `Shutdown` and `Destroy` `~TCPTrack` and one pass of `while(n_plugin--)`; `closed` counts the `dlclose` calls on each library; `copies` counts the calls, up to `MaxCopies`; `pc` is the phase |
| `PluginCache`, `MC_PluginCache` | `PluginCache` | `first`, `second` as sequences of records [addr, key], `manage_timeout`, `sj_clock`; `check`, `add`, `explicitDelete` are actions, and `check` includes `manage()`; `Tick` advances the clock |

**Actions of `TCPTrack`.** Each loop body is one action that handles one packet:
- `IcmpStep` is loop 1 (`analyze_incoming_icmp`).
- `TcpInStep` is loop 2 (`analyze_incoming_synack`, `analyze_incoming_rstfin`).
- `TunnelStep` is loop 3 (`manage_outgoing_packets`, `inject_hack_in_queue`).
- `YoungStep` and `KeepStep` are loops 4 and 5.

`LoopEnd` moves to the next loop when `get` returns NULL, and `CycleEnd` finishes the cycle. A handler's whole body is part of its action, including its nested calls such as `mark_real_syn_packets_SEND` and `enque_ttl_probe`. The cursor is advanced by `Continue`, exactly where the code's `get(…, true)` stands. `writepacket` and `readpacket` (with `last_pkt_fix`) are actions of their own, taken only at `idle`.

**Data abstraction.**
- Addresses and ports are model values.
- A packet is a record {id, src, proto, kind, status, wtf, dst, lport, rport, ttl, n, n2, tag}:
  - `n` is the probe's sequence number, which the SYN/ACK echoes in its ack and the time exceeded echoes in its quoted header;
  - `tag` names the original a decoy was placed against.
- A plugin's `createHack` is a nondeterministic choice: no packet, or one packet with a verdict from `DecoyVerdicts` on either side. Its `SelfIntegrityCheck` is modelled by the same choice.
- `random() % 5` is the set `Jitter == 0..4`. Randomised arbitrary TTLs take two values, since a wrap cannot happen there with the starting TTL used.
- Checksums, IP/TCP options and payloads are left out (see section 5).
- In `HackSelection`, the float weights of `logarithm` are exact hundredths. Single-precision rounding changes `(int)(m * f)` only above 4500 (for example 150.9f × 3000). Every draw succeeds there either way, so the trial outcomes are the same.
- In `PluginCache`, a record's key stands for the cached packet as the plugin's filter sees it, and `check(k)` uses the filter "same key". `access_timestamp` and the cached data are read only by plugins, which are outside `src/`. The history variables `touched` and `rotated` record when each record was last added or returned and the times of the last two rotations.

**Choices the code does not fix.**
- The `TTLFocus` constructor is not under `src/`. `NewFocus` takes BRUTALFORCE, `expiring_ttl` 0, `min_working_ttl` 255 and `probe_ready` TRUE from the spec; these values are consistent with the `>` comparisons at `TCPTrack.cc` 464 and 495.
- `received_probe` and `synack_ttl` are written but never read by `src/`, so they are left out.
- `analyze_incoming_ttl` only logs.

## 3. Fairness

The poll loop runs a classification cycle whenever it has packets, and it drains the output and handles the probe timer on every turn. This gives:
- **`WF_vars(Classify)`**: once started, a cycle keeps running.
- **`SF_vars(Emit)` and `SF_vars(Tick)`**: these are enabled only between cycles (`pc = "idle"`), so they are intermittently enabled. Weak fairness would allow a behaviour that always starts a new cycle instead.

The host's writes, the network's deliveries and losses, and the start/stop command get no fairness: they may stop at any time.

`PluginCache` is checked for safety only, since its calls come from plugins, whose scheduling `src/` does not fix. `HackPacketPool` is sequential code checked for safety; its final state (the process has exited) has no successor, so its run does not check deadlock.

## 3a. Refinement

`SniffJokeNet` defines `Discovery == INSTANCE TTLDiscovery WITH focus <- …`. This maps each entry of `ttlfocus_map` to its status and its `min_working_ttl`. `DiscoveryRefined == Discovery!Spec` is then checked as a PROPERTY in the `progress` run. It shows that every step of the engine, in any order of probe answers, is one of the following:
- a step of the abstract discovery: a destination starts being tracked, gives up, or learns a working TTL at least its real distance, with the distance only decreasing;
- a stutter.

The `synack_from_probe_nomin` mutant lets a later SYN/ACK to a larger probe overwrite the minimum, and this refinement catches it.

## 4. Runs

Every engine cfg (`MC_SniffJokeNet`) uses one destination `d1` and `max_sex_track = 1`, so that the capacity clear happens (`session_gating` uses 2, so that both connections have room). `STARTING_ARB_TTL` is 46 and the host's TTL is 64. `VIEW View` forgets the cursor between cycles, because every traversal and `readpacket` restarts it.

| Run | Bounds | Checks | Result |
|---|---|---|---|
| `discovery` | 2 hops, budget 2 probes, 2 host segments, two remote ports of which one is NONE, one plugin with PRESCRIPTION/GUILTY decoys | `TypeOK`, `KnownDistanceSound`, `HeldOnlyWhileUnknown`, `DecoyOrder` | pass, about 2.2M states in 1 minute |
| `progress` | 2 hops, budget 3, 1 host segment | `DiscoveryTerminates`, `CycleCompletes` (liveness), `DiscoveryRefined` (refinement) | pass, about 25k states |
| `sessions` | 1 hop, budget 1, 2 connections, no plugin, 1 network packet (FIN, RST, ECHO, stray time exceeded), symmetry on the two local ports | `SessionCapacity`, `SessionCloseTwoPhase` (action property) | pass, about 2.8M states in 1 minute |
| `held_syn_stuck` | 3 hops, budget 2 | `HeldSynsReleased` | violation |
| `none_port_spins` | one port configured NONE | `CycleCompletes` | violation |
| `ttl_wraps` | 2 hops, budget 2, PRESCRIPTION decoys, 2 host segments | `TtlChoiceSound` | violation |
| `probe_traffic_leaks` | 1 hop, budget 2 | `ProbeTrafficConfined` | violation |
| `session_gating` | 1 hop, budget 1, GUILTY decoys, two local ports, 3 segments, `max_sex_track = 2` | `SessionGatesHacks` | violation |
| `plugin_pool` | every enabler file of up to 4 lines over the 5 kinds, with and without a final newline; `MAXPLUGINS = 3` | `TypeOK`, `PoolHoldsVerifiedPlugins`, `HandlesReleasedAtExit` | pass, about 35k states |
| `pool_copy_unloads` | enabler files of up to 2 lines, one hacked packet | `PoolPluginsLoaded` | violation |
| `plugin_cache` | 3 addresses, 2 keys, `timeout_len = 2`, clock up to 8 (two rotations), symmetry on addresses and keys | `TypeOK`, `NoAliasing`, `TwoGenerations`, `CacheRetention` | pass, about 45k states |
| `evil_packet_accepted` | every `ihl`, `doff` (4 bits), lengths on both sides of every multiple of 4 up to 124 bytes, TCP and ICMP | `HeadersWithinDatagram` | violation |

**Why these bounds are enough.**
- Two hops with a budget of 2 or 3 allow a probe below the distance and a probe at it, with answers lost, reordered or duplicated.
- Two host segments allow a SYN and its retransmission, or two connections competing for a one-slot session table.
- One plugin is enough for `DecoyOrder`: a decoy placed on the wrong side of its original is caught. It is checked in `discovery`, where segments are hacked both while the distance is being found and after; the network packet is not needed for it, and a plugin together with a network packet goes past five minutes. `sessions` has no plugin, since `inject_hack_in_queue` changes only the queue, never the session table; its network packet is what lets a session see a closing flag from both hosts and be erased. The symmetry on local ports is sound because the engine only compares ports for equality, and the properties of this run are safety properties.
- Every counterexample found needs at most three segments.

**What the passing runs show.**
- The distance recorded as KNOWN is never shorter than the real one, and `expiring_ttl` is one less than `min_working_ttl`.
- Held SYNs are all released when the distance becomes KNOWN.
- Every cycle ends, and every bruteforce ends, on ports that are not NONE.
- Decoys leave on the side of their original that they were placed on.
- The plugin pool: `listOfHacks` is never written past its slots; the pool holds, in order and once each, only plugins whose object passed `verifyPluginIntegirty`, and all the libraries the loop opened whenever `fail` is clear; at exit every opened library has been closed, slot 0 and those opened before a failed `dlopen` included. Four lines with `MAXPLUGINS = 3` reach the limit with lines left, and every mix of failures within the file.
- The session table stays within its capacity.
- A session leaves the table only at its second closing flag (FIN-ACK or RST-ACK, one from each host, `clear_session` 336-351) or in the capacity clear of `init_sessiontrack`; it is never erased at the first flag.
- The TTL focus table implements the abstract discovery specification `TTLDiscovery`.
- `PluginCache`:
  - never holds a pointer twice;
  - frees a record only after it has gone untouched for at least `timeout_len`;
  - keeps only records touched since the rotation before the last.

  With `timeout_len = 2` and a clock up to 8, two rotations happen, so a record can outlive one rotation and be freed at the next.

Each passing property has a mutant in `PROJECT.json`: a plausible bug in the code that the property catches. Each mutant is defined as a "Fault:" operator next to the definition it replaces.

**What the violation runs show (see `findings` in PROJECT.json).**
- `analyze_packets_queue` hangs on a NONE port (`TCPTrack.cc:896`).
- The SYN that started a bruteforce is held forever once the probe budget is spent (927).
- The host's own segments get TTL 0-3 during bruteforce (719). `TtlChoiceSound` also asks that PRESCRIPTION decoys expire; `expiring_ttl - random() % 5` wraps to 252-255 for near destinations (717), which is the same 8-bit wrap.
- Probe traffic outlives discovery (`ProbeTrafficConfined`). Probes already queued are sent after the focus has become UNKNOWN or KNOWN (397). With the same bounds, a second probe SYN/ACK in one cycle is also forwarded to the host, because `mark_real_syn_packets_SEND` exhausts the shared cursor (512).
- `SessionGatesHacks` (`session_gating`) is violated in two ways, each of which TLC finds under that cfg when the other half is checked alone:
  - sessions in shutdown still get hacks, contrary to the comment at 584 (586);
  - a second tunnel SYN that is YOUNG when a probe SYN/ACK is handled is marked SEND early. It leaves without a session, so the connection is never hacked (600).
- `inject_hack_in_queue` destroys the plugins (627, 677). `HackPacketPool applicable_hacks = hack_pool` copies the pool, including `n_plugin` and `listOfHacks`, and no copy constructor is defined under `src/`. When the call returns, the copy's destructor runs `DeleteHackObject` and `dlclose` on every plugin that `hack_pool` still holds. `PoolPluginsLoaded` says these libraries stay loaded while TCPTrack runs; TLC finds a trace of one valid plugin and one hacked packet that violates it. As a result, every library is closed at least twice by the time the process exits.
- `check_evil_packet` accepts `ihl < 5`, `doff < 5`, and a `tot_len` shorter than the IP header (224, 234).

## 5. Not modelled, and why

- `force_send`: nothing under `src/` calls it.
- IP/TCP option injection in `last_pkt_fix` and `check_uncommon_tcpopt`: they are only reached through the evil bit, which nothing under `src/` sets. By reading the code: after a timestamp the scan skips two bytes too many (256).
- Checksums: `last_pkt_fix`'s recomputation and the GUILTY corruption (776-779) change data only. By computation: the GUILTY mask `(random() % 0xFFFF) * 54093 + 1` is zero mod 2^16 for the draw 25211, so one such packet in 65535 keeps a valid checksum (the hazard is listed in PROJECT.json).
- The exact probability of `percentage`. The engine enumerates the draw, so both outcomes are reached. The `<=` at 289 makes the probability threshold+1 percent, so a zero weight still fires 1% of the time (see the hazard).
- In plugin loading, the paths, `dlsym` and `dlerror`, and the plugins' own constructors and destructors: `dlopen` and the created object are reduced to whether they succeed. By the model: a last plugin line without a final newline is dropped, and an empty line stops the reading, with `fail` left clear (`TCPTrack.cc:97`); TLC reaches both, but the file's format is out of the spec's scope, so they are hazards with notes. `~TCPTrack` deletes its own member `hack_pool` (202), which is undefined behaviour at exit; the model runs the pool destructor once there.
- `Plugin::upgradeChainFlag`, `Plugin::reset` and the `Plugin` constructor: only plugins call them, and plugins are not under `src/`. `pktRandomDamage` (in `Plugin.cc` and `srv/core/Hack.h`) is also called only by plugins. It is modelled in `HackSelection` as the set of verdicts it can return, and the engine cfgs take `DecoyVerdicts` from it: `MC_VerdictsTTL` (PRESCRIPTION or GUILTY) or `MC_VerdictsNoScramble` (GUILTY).
- The `PluginCache` destructor only frees memory.
- Nothing under `src/` advances `sj_clock` (declared at `srv/core/main.cc:41`). It is modelled as an environment `Tick`.
- The daemon and CLI mains (`srv/core/main.cc`, `main.cc`, `cli/main.cc`), privilege drop and the control socket: process plumbing that `spec.md` puts out of scope, sequential argv handling with no state the engine shares. By reading the code: an empty `--chroot-dir` indexes `strlen-1` (`srv/core/main.cc:217`); direct commands match by prefix (`main.cc:152`); `sigtrap` writes a plain `bool` through a pointer that may still be unset (`srv/core/main.cc:123`). These are listed as hazards with notes.
- Port reuse: a SYN whose ports match a session in shutdown gets that session back (`TCPTrack.cc:325`), still shutdown and with its old count. TLC reaches this under the `sessions` bounds, but neither the spec nor a comment says what reuse should do, so it is a hazard with a note rather than a finding.

## 6. Plan for the following work

1. Compose `PluginCache` with a plugin's use of `check`/`add`, to follow a record pointer held across a later `check`. The plugins are not under `src/`, so such a plugin would be modelled from the spec.
2. The session close has no liveness property: a session in shutdown is erased only when the other host's closing flag arrives, and nothing in the code makes the peer send it, so "every shut-down session is eventually erased" needs a fairness the code does not give. Its safety half is `SessionCloseTwoPhase`.
3. Larger engine instances (two destinations) for `discovery` and `sessions`, two plugins in `discovery`, with more symmetry where it is sound.
4. `check_uncommon_tcpopt` as an operator checked against the option layout, if a caller that sets the evil bit appears under `src/`.
