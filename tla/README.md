# TLA+ models of keepalived's global_defs parser

This directory holds TLA+ models of `src/keepalived/core/global_parser.c`. That file contains the handlers that keepalived's configuration reader calls for each line of the `global_defs` block, plus the root-level identity directives. `spec.md` describes what the handlers promise. The modules below translate the C code and check it against those promises with TLC.

## The system and how its parts interact

The configuration reader is not in this file. It tokenises a line into a vector (`strvec`), looks up the first word in the keyword table, and calls that keyword's handler. `init_global_keywords()` fills the keyword table.

Each handler runs to completion before the next line is read, and nothing runs concurrently with it. What interacts is therefore:

* **successive lines.** Many fields are first-wins (`lvs_sync_daemon`, `instance`, `net_namespace`, notify fifos). Others are last-wins. Some handlers erase state before they validate the new line.
* **the tokens within one line.** `lvs_timeouts` and `lvs_sync_daemon` scan `keyword value` sub-options with a cursor. The cursor must skip values, survive bad values and stop at the end of the line.
* **the configuration pass and its reloads.** A reload parses a new file into a new `global_data`. The process identity (namespace, instance name) must stay that of the first pass.

The conversions the handlers apply (`strtol`, `strtoul` with a cast, `isdigit`, `inet_stosockaddr`, `check_true_false`) are modelled in `KaToken` by what they compute. A token is the record `[kind, val, len]`:

* `kind` is a keyword, or one of `num`, `numjunk`, `name`, `path` (a word with a `-` or `/`), `ip4`, `ip6`;
* `val` is the value of its leading digits or first address byte;
* `len` is its `strlen`.

## Modules

| Module | Models | State | Actions |
|---|---|---|---|
| `KaToken` | token vectors and the C conversions (lines 232, 305, 323, 380, 640) | none (operators) | none |
| `LvsTimeouts` | `lvs_timeouts()` (215–267) | `timeout[tcp/tcpfin/udp]`; cursor `i`; the line `strvec`; `pc`; ghost `pre` | `LvsTimeoutsStart` (arity check, `i = 1`), `OptionNoValue`, `OptionValue`, `UnknownOption` |
| `LvsTimeoutsLine` | spec.md 4.2: what one `lvs_timeouts` line does, as a whole | `timeout`, the line being applied `strvec` | `Receive` (a line arrives), `Apply` (the RECURSIVE `ScanFrom` gives the new timeouts in one step) |
| `LvsSyncd` | `lvs_syncd_handler()` (271–392) | `ifname`, `vrrp_name`, `opt[id/maxlen/port/ttl]`, `mcast_group`, cursor, line, ghost `accepted` | `LvsSyncdStart` (duplicate, arity and length checks, names, legacy syncid, or `VrrpNameAllocFails`: the `MALLOC` of `vrrp_name` fails after `ifname` is set), `SyncdOptionNoValue`, `SyncdNumericOption`, `SyncdGroupOption`, `SyncdUnknownOption` |
| `LvsSyncdLine` | spec.md 4.1, 4.2 and 3: what one accepted `lvs_sync_daemon` line does, as a whole | the four settings, the accepted line `accepted` | `Handle(line)`: the acceptance test, then either the instance name's allocation fails (only `ifname` is set) or both names, the legacy syncid and the RECURSIVE `ScanFrom` of the options are applied in one step |
| `ProcessIdentity` | `net_namespace_handler`, `instance_handler`, `use_pid_dir_handler`, `namespace_ipsets_handler` (894–961) | the four fields, `reload`, the reload count | one action per handler, and `Reload` |
| `ProcessPriorities` | `get_priority`, `get_realtime_priority`, `get_rt_rlimit` and the vrrp/checker/bfd `*_priority`, `*_rt_priority`, `*_rlimit_rtime`, `*_no_swap` handlers (401–463, 663–816) | per-process functions of the four fields, `crashed`, ghost `last` | one action per handler kind, over the processes; `rt_rlimit_handler` on a line without a value crashes or stores 0 or junk |
| `NotifyFifo` | `notify_fifo()`, `notify_fifo_script()` and their six global/vrrp/lvs wrappers (691–762) | name and script per fifo | `notify_fifo`, `notify_fifo_script` (whose `notify_script_init` may fail: a choice) |
| `NetlinkBufs` | `get_netlink_rcv_bufs_size` and the eight vrrp/lvs monitor/cmd size and force handlers (1000–1161) | size and force flag per socket, ghost `last` | `rcv_bufs_handler`, `rcv_bufs_force_handler`, over the sockets, with `strvec == NULL` as an input |
| `VrrpIpsets` | `vrrp_ipsets_handler()` (589–636) | the three ipset names as character sequences, `using_ipsets`, ghost `last` | `vrrp_ipsets_handler` with 0–3 names; derivation operators `Address6From`, `Iface6From` |
| `VrrpGlobals` | `vrrp_mcast_group4/6`, the eight garp/gna delay, repeat, refresh and interval handlers, the two advert booleans, `vrrp_version`, `vrrp_iptables`, `vrrp_check_unicast_src`/`check_adv_addr`/`strict` (466–567, 569–662) | the fields, `garp[d]`, `advert[d]`, the set `flags`, `crashed`, ghosts `last` (the line just handled) and `fault` | one action per handler kind, over the directives of that kind; the slot-1 handlers run through `ReadSlot1`, which on a line without an argument crashes or goes on with junk |
| `GlobalDefs` | the remaining `global_defs` handlers (59–212, 395, 823–997) composed with `NotifyFifo` over one `global_data`: `router_id`, `notification_email_from`, `dbus_service_name`, `smtp_server`, `smtp_helo_name`, `smtp_connect_timeout`, `notification_email`, `smtp_alert*`, the set-to-true toggles, `dynamic_interfaces`, `default_interface`, `snmp_socket`, `child_wait_time`, `script_user` (963–973) | the fields, `default_script` (the default script uid/gid), `crashed`, ghost `fault` (the undefined behaviour of the step) | one action per handler kind; `Fifo!Next`; `Crash` ends the process |

In both scanners, one iteration of the for-loop is one step. The cursor arithmetic is therefore modelled exactly as the code has it:

* `i += 2` when a keyword has a value (through the `i++; continue`);
* `i += 1` for an unknown word or for a keyword that is the last token.

When the loop ends, the line is dropped, so that states between lines depend only on the fields.

`GlobalDefs` composes `NotifyFifo` by `Fifo == INSTANCE NotifyFifo`: a fifo line is a step of `Fifo!Next` that leaves the SMTP and misc fields alone, so every interleaving of fifo lines with the other handlers is explored.

Undefined behaviour in the code is a choice over what the builds can do, and the ghost `fault` records it:

* reading `strvec_slot(strvec, 1)` of a one-word line (`smtp_connect_timeout`, `child_wait_time`, `smtp_server`; `*_rlimit_rtime` in `ProcessPriorities`; in `VrrpGlobals` the garp, version and multicast handlers) reads past the vector: the process crashes, or a junk pointer is parsed, giving `Garbage` or no number (`Junk` in `VrrpGlobals`);
* `default_interface` of an interface that does not exist, without `dynamic_interfaces` first, logs `ifp->ifname` of NULL: the process crashes, or glibc prints `(null)` and NULL is stored (`NoName`);
* `snmp_socket` writes two bytes past its allocation and carries on.

A crash is terminal: `Next` requires `~crashed`.

The `MALLOC` of `lvs_sync_daemon`'s instance name is followed by a NULL test (301), so its failure is a choice in `LvsSyncdStart`. The handler returns with `ifname` set and no `vrrp_name`, and the duplicate check then refuses every later line.

`(unsigned)(double)` of an out-of-range value (`vrrp_garp_interval`, `vrrp_gna_interval`) is undefined: `ToUnsigned` gives both outcomes the builds produce, the low bits (x86-64) and saturation (aarch64).

`Reload` is code of the main program, not of this file. It is modelled from `spec.md` section 5: a new `global_data` starts from the defaults, except that the identity fields are carried over from the previous snapshot.

`MC_*` modules give the constants small values:

* the token alphabet: in-range, boundary and out-of-range numbers, junk numbers, names, multicast and unicast addresses of both families;
* the length of lines;
* the chain-name and interface-name lengths around the size limits;
* the number of reloads.

## Runs

| Run | Expect | What it shows |
|---|---|---|
| `lvs_timeouts_scan` | pass | Consider a line of up to 4 options taken from `tcp/tcpfin/udp`, an unknown word and numbers in, at and beyond the bounds, after any earlier lines. When the scan ends, the timeouts equal the pair semantics of spec.md 4.2: the last valid value per key, and a bad pair never disturbs the others (`ScanMatchesPairs`). |
| `lvs_syncd_scan` | pass | A pair line gives exactly the names and last valid options, including the legacy positional syncid (`SyncdMatchesPairs`). On every line, not only pair lines, the handler has the effect of the once-only, atomic recursive scan of `LvsSyncdLine` (`ImplementsSyncdLineSpec`). That covers a second line ignored, a line with a too-long name refused without blocking a later one, a failed allocation that leaves `ifname` alone and blocks later lines, unknown words, a keyword as the last token, and a group that is not a multicast literal. |
| `process_identity` | pass | Across a first pass and reloads, every stored namespace and instance name is the argument of a line (`TypeOK`, whose mutant stores the keyword instead). The first-wins and reload-freeze behaviour is explored but not stated: it is the handlers' guards read back. |
| `vrrp_globals` | pass | After any sequence of VRRP tuning lines, an out chain is only ever configured together with an in chain (`OutChainNeedsInChain`), and the version stays 2 or 3 (`TypeOK`). |
| `process_priorities` | pass | Once a process has a real-time priority, no later line takes it away: not a line without a value (the -1 sentinel), nor junk, nor a low value (`RtPriorityKeptOrClamped`). The nice priority stays in -20..19 (`TypeOK`). |
| `priority_errors_not_per_spec` | violation | `vrrp_priority 25` stores 0, where the spec's clamp gives 19 (TLC's trace takes `-25`, which should give -20, by the same path). `vrrp_rlimit_rtime 7x` resets a configured limit to 0, where the spec says a format error leaves the field alone. `vrrp_rlimit_rtime` with no value reads past the vector instead of failing the arity check (`PriorityErrorsPerSpec`). |
| `global_defs` | pass | All the `GlobalDefs` lines, fifo lines included, in any order, with the reads past the vector as crashes or junk. `snmp_socket` never holds a name of `PATH_MAX` or more characters (`TypeOK`). The run's value is mainly that it fires every handler of the composition; the disagreements with the spec are in `global_defs_not_per_spec`. |
| `global_defs_not_per_spec` | violation | A one-word `smtp_connect_timeout` or `child_wait_time` reads past the vector. Every accepted `snmp_socket` overflows its allocation. `default_interface eth1` before `dynamic_interfaces` dereferences NULL. `smtp_server mail` after `smtp_server mail-1` erases the resolved server when `mail` does not resolve: `inet_stosockaddr` has already reset it, and spec.md 4.1 says failure leaves the previous address (`GlobalLinesPerSpec`). |
| `netlink_bufs` | pass | A size line that is missing, junk, 0 or above UINT_MAX, and a force line with a non-boolean word, leave every socket's settings alone. The 0 error value is never stored (`RejectedLineKeepsSetting`). |
| `vrrp_ipsets` | pass | The three names, given or derived by the truncate-and-append code, always fit their buffers with the NUL (`TypeOK`). |
| `ipsets_partial_apply` | violation | `vrrp_ipsets a <too long>` replaces the first name and keeps the old derived names (`RejectedIpsetLineKeepsNames`). |
| `vrrp_lines_not_per_spec` | violation | Each VRRP line against spec.md 4.1 (`VrrpLinesPerSpec`). `vrrp_mcast_group4 10.0.0.1` is stored, though the spec says a unicast group is refused. `vrrp_version 258` becomes version 2 through the `uint8_t` cast. A `vrrp_iptables` line refused for a too-long name erases the chains set before. `vrrp_garp_master_delay 700` (with 16-bit unsigned) wraps to a short delay instead of being refused. `vrrp_garp_master_delay` with no value reads past the token vector instead of failing the arity check. |

`lvs_timeouts_scan` also checks `ImplementsLineSpec`: the cursor loop of `LvsTimeouts` implements the abstract `LvsTimeoutsLine`. The refinement mapping is `ABS == INSTANCE LvsTimeoutsLine WITH timeout <- IF pc = "idle" THEN timeout ELSE pre`: while the loop runs, the abstract timeouts are those before the line. `strvec` maps to itself. The start step of a line of three or more words is `Receive`; the last loop step is `Apply`; the steps in between are stutters. A line that the arity check drops changes no variable, so it is a stutter of the abstract spec as well.

`lvs_syncd_scan` likewise checks `ImplementsSyncdLineSpec`, with a different mapping that needs no ghost. Between lines the abstract settings are the concrete ones. Inside the loop they are what the rest of the scan will make of them: `Pending == Line!ScanFrom([opt |-> opt, group |-> GroupSeen], strvec, i)`, using the abstract module's own `ScanFrom` through `Line == INSTANCE LvsSyncdLine`. The start step of an accepted line is therefore the abstract `Handle`, and every loop iteration must be a stutter: an iteration that changes a setting other than as the recursive scan says, or moves the cursor to a different word boundary, breaks the refinement. An unspecified group's address bytes are meaningless and are mapped to those of `Unspecified` (`GroupSeen`). Two differences between code and spec are shown to be harmless by this check:

* the code recognises the legacy syncid by `isdigit` of the first character, while the abstract spec takes a purely numeric word; a digit-led junk word is skipped either way, so the scan resumes at the same token;
* the abstract spec resets the group whenever the value is not a multicast literal.

The second point follows spec.md 3 and the code, which calls `inet_stosockaddr` straight into `mcast_group` and logs "- ignoring" when it fails (377–378). For a value that is not an address at all, spec.md 4.2b and the address rule of 4.1 say the group is left untouched, and the code resets it. No run claims this as a violation, because the project is at its limit of runs.

Each violation run checks one property. Where it is a conjunction of several per-line claims, each conjunct was also checked alone, and each is violated on its own.

Every property of a passing run has a mutant in `PROJECT.json`. A mutant is a plausible bug in the mapped definition that TLC must detect:

* a dropped upper bound;
* an abort instead of a skip on a bad value;
* a dropped legacy-syncid branch;
* an identity handler that stores the keyword rather than its argument;
* a version check with no lower bound;
* an out chain that is not reset;
* an unknown option that skips a value as well, in `lvs_timeouts` and in `lvs_sync_daemon` (which breaks the refinements);
* `snmp_socket` without its `PATH_MAX` test;
* a netlink size of 0 stored, or check_true_false's -1 stored;
* an ipset suffix truncation one place too far;
* a real-time priority below the minimum stored rather than raised.

## Bounds

The bounds are chosen so that the cases the properties are about are reachable:

* Lines have up to 4 options (3 for `lvs_sync_daemon`; 1 when its interface or instance name is too long, as the line is then refused before its options are read). That is enough for a repeated key, a bad value followed by a good one and the reverse, a keyword as the last token, and an unknown word that shifts the cursor parity. A bad value between two good ones would need 6 tokens and is not reached.
* Numbers include each bound and the value just outside it. `lvs_timeouts` has -1 and 0 (`tcp` accepts 0, `tcpfin` and `udp` need 1), `LVS_MAX_TIMEOUT` and `LVS_MAX_TIMEOUT + 1`, and the junk word `7s`, which also serves as the unknown option.
* `lvs_sync_daemon` interface and instance names have length 4 and 16. `IP_VS_IFNAME_MAXLEN` is 16, so both length tests are exercised on both sides.
* Chain names have lengths 5 and 28, with `CHAIN_SIZE` 29, so `>= sizeof - 1` rejects the 28-character name.
* Priority arguments are -25, 0, 19, 25 and 120, plus junk and a word. They cover both ends of -20..19 and of SCHED_RR 1..99, and atoi's 0. Two processes are symmetric model values. They are enough to show that one process's lines leave the other's fields alone; a third process only adds states.
* Netlink sizes are compared with a scaled UINT_MAX of 1000, because TLC's integers are 32-bit signed. Only the comparison is modelled, so the arguments 0, 512, 1000, 1001, -1 and junk test both sides of it.
* The ipset buffers are scaled to 7 bytes. That keeps the refusal test (`>= sizeof - 1`), the `"6"` suffix and the truncation at `sizeof - 5` biting. The names have lengths 1, 2, 5 (the longest accepted) and 6 (refused), with and without a trailing `6`.
* Three reloads give first-pass, reload and post-reload-set interleavings.
* The unsigned width is scaled to 16 bits and `TIMER_HZ` kept at 100, so a value of 700 seconds wraps (70000 > 65535) exactly as 43 million seconds wraps at 32 bits. `PATH_MAX` is 16, and the socket names have lengths 5 and 16, which are either side of the `PATH_MAX - 1` test.
* Directives that run the same code on different fields are checked over a subset: in `VrrpGlobals`, one delay, both repeat kinds and one interval; in `GlobalDefs`, one string directive, one alert directive and three toggles. The toggles are `linkbeat_use_polling` (a root keyword called with NULL), `enable_snmp_rfc` (two fields) and `enable_snmp_rfcv2`, which shares a field with it.
* `GlobalDefs` has one fifo, two emails with `MAX_EMAILS` 2 (both the append and the full list), and two interface names of which one exists.
* The ghosts `last` and `fault` are left out of the states TLC compares (`VIEW`). No action reads them, and the properties that use them are action properties, which TLC checks on every transition it takes.

Sequences of lines are unbounded: TLC explores them until no new state appears.

## Fairness

No run states liveness, and no specification assumes fairness. The configuration pass is one thread that does not wait (spec.md 5). The next line need not come, because the file may end anywhere. Within a handler, both option loops are `for` loops whose every path ends in `i++`. They return by construction, so a property that they return would only restate the loop header.

A crash (`GlobalDefs`, `VrrpGlobals`, `ProcessPriorities`) ends the behaviour, so their runs set `CHECK_DEADLOCK FALSE`. Every other run checks deadlock. In `VrrpGlobals` the VIEW maps every crashed state to one. A crashed state has no successor, and its fields are those of the state before it, which was checked.

## Not modelled

* **`set_default_script_user`'s lookups.** The function lies outside this file and reads the system's password and group databases. `GlobalDefs` models its result as a choice: it stores the uid/gid (the user's own group when none is given), or it fails and leaves the default as it was.
* **Other allocations** (`set_value`, `alloc_email`, `MALLOC` in `snmp_socket`). Their results are not tested in this file, so a failure there is a crash outside it.
* **The SMTP port, and the leak of the old `smtp_helo_name`.** No property distinguishes them.
* **The keyword table and tokenizer.** `init_global_keywords()` is a static table of distinct names. The reader that calls the handlers, the trie and logging are not in this file. Each module's `Next` is the dispatch of its own lines.

The project has 12 runs: one per module, plus one per question on which the code and spec.md disagree.
