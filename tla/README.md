# Pocket PuTTY: a verification project

TLA+ models of Pocket PuTTY (PuTTY for Windows CE): both SSH protocols from the greeting to the end
of the last channel, the sockets below them with the threads that stand in for `WSAAsyncSelect`,
proxies and Telnet, the terminal, and the data structures and formats they are built on. TLC checks
the models on small instances; TLAPS proves the safety properties of both SSH protocols - their channels, flow control, transport, login and
set-up -, of sockets, proxies and Telnet, of the socket threads, and of the terminal's lines and wide characters for every value of
their constants.

    tlc -config Ssh2ChannelsMC.cfg Ssh2ChannelsMC.tla    # model-check one run
    tlapm Ssh2ChannelsProofs.tla                         # check the proofs of one module

`PROJECT.json` lists components, runs, mutants (plausible bugs, at least one per property, which TLC must
find), the source lines behind every definition, findings, hazards and theorems.

Contents: 1 the system, 2 modules, 3 runs, 4 fairness, 5 proofs, 6 what is left out, 7 plan.

## 1. The system

PuTTY is one thread around a message loop. Winsock events reach `select_result` (winnet.c), which
calls the *plug* of the socket (`plug_receive`, `plug_closing`, `plug_sent`, `plug_accepting`); typed
keys reach `ldisc_send` and the backend's `send`. An SSH backend feeds packets and keys into
coroutines (the `crBegin`/`crReturn` macros), so its program counter is state that survives from one
event to the next. Nothing runs concurrently inside the backend, but everything *interleaves* at
event granularity: packets of one channel with events of any local socket, with keys, timers, agent
answers posted by another thread, and, on Windows CE, with the threads that poll the sockets.

| Component | State | Operations | Talks to | Hard because | What makes it correct |
|---|---|---|---|---|---|
| SSH-2 channels (ssh.c 5714-6172, 3133-3217) | the tree `ssh->channels`, per channel `localid`, `remoteid`, `type`, `closes` | the CHANNEL_* handlers, `sshfwd_close`, `ssh_do_close`, agent answers | portfwd/x11fwd through mutual pointers; the server | both ends close at once, numbers are reused, confirmations come late, the connection ends | messages reach the channel meant; a close is answered once; sockets and channels die together |
| Channel numbers (ssh.c 759-795) | the counted tree | `alloc_channel_id` | the tree | unsigned arithmetic starting at -1 | lowest unused number |
| Receive window (ssh.c 4457, 5743, 3202) | `locwindow`, the socket's `output_data` | CHANNEL_DATA, `sshfwd_unthrottle` | server, local socket | bytes on the wire in two directions | the two ends agree; no starvation |
| Throttling (ssh.c 2231, 4440; portfwd.c 512-569) | `throttled_all`, `throttled`, `throttle_override`, `outbuffer`, `remwindow` | `ssh2_try_send`, `ssh_sent`, `pfd_*throttle` | all forwarded sockets, the SSH socket | two reasons to freeze a socket, released in any order | frozen for a reason, thawed in the end |
| SSH-2 transport (ssh.c 3868-4415) | a coroutine, keys each way | key exchange, again at any time | the layers above, which do not wait | what is sent and what arrives during re-exchange | each packet under the key its reader uses; one session id |
| SSH-2 authentication and set-up (ssh.c 4484-5714) | a coroutine, `s`, `pktin`, `pktout` | methods, prompts, channel requests | agent, user, server, keepalive | takes the next packet for its answer | in only when granted; answers match requests; nothing that comes in between is lost |
| SSH-1 login (ssh.c 2405-3115) | a coroutine, the type of the last packet | keys, TIS, CryptoCard, passwords | agent, user, server | a loop on the last packet's type | done only when granted; lengths of passwords hidden |
| SSH-1 session (ssh.c 3117-3807, 2231) | four close bits per channel, `v1_throttle_count` | channel packets, `ssh1_throttle`, `ssh_size` | as SSH-2 | four closing packets cross; a count shared by all channels | no packet for a freed channel; the count counts |
| SSH packets (ssh.c 640-1480, 1800-2050) | two packet readers, versions, bugs | greeting, unpacking, building, dispatching | socket, coroutines | cut anywhere, keys change in the middle | comes out as it was put in |
| Port forwarding (portfwd.c), X11 (x11fwd.c, ssh.c) | the local socket, the SOCKS parser, the cookie | accept, receive, confirm, close | channels, winnet | requests cut anywhere, data before confirmation | the client gets the place it asked for; no data without the cookie |
| Agent client (pageantc.c) | a file mapping, a thread | `agent_query`, the posted callback | channels, authentication | the answer outlives what asked for it | see the channel and login rows |
| Network (winnet.c) | `sktree`, per socket `output_data`, `writable`, `frozen`, `pending_error` | write, `try_send`, `select_result`, `net_pending_errors` | all plugs | errors found inside a call from the plug; wake-ups while frozen | in order, nothing lost |
| CE sockets and message loop (window.c) | `g_bTerminate`, the thread handle, the one pending event, nested dialogs | the polling thread, `do_select`, `ShutdownWSAEmulationThread`, WM_NETEVENT | winnet, every backend | threads sharing an unsynchronised flag; SendMessage against WaitForSingleObject | no poll of a closed socket; one event at a time; nothing lost |
| Proxy (proxy.c) | a negotiation, buffers in both directions | negotiators, activation | winnet and any backend | calls back into a backend that calls back | bytes in order, none too soon |
| Telnet, rlogin, raw | option states, a parser | `proc_rec_opt`, `do_telnet_read`, freeze | server | crossing requests | the ends agree and come to rest |
| Line discipline (ldisc.c) | the line being edited | `ldisc_send` | terminal, backend | echo and editing change under a half-typed line | what is shown is what is edited |
| Terminal (terminal.c) | two screens, scrollback, selection, parser | `term_out`, scrolling, resizing, the mouse | front end | long legal sequences of escapes | lines counted, wide characters whole, selection kept |
| Byte queues, counted tree, wildcards, zlib, bignums | their data | sequential | all the above | boundaries | each implements its abstract definition |
| Keys and key files (sshrsa.c, sshdss.c, sshpubk.c) | keys, files | load, save, sign, verify | login, puttygen | truncated and damaged files | a key comes back as it was or not at all |
| Ciphers, hashes, random pool | words | transformations | transport | large data | not modelled: opaque to the protocol |
| Settings, registry, command line, logging, dialogs, drawing, character tables, CE glue | copies, layout | sequential | - | - | not modelled: no interaction to get wrong |

## 2. Modules

A module has its constants with named assumptions, Init, an action per operation or handler, Next,
fairness, the properties. Operators marked `Mutant` are broken versions the properties are tried
against; they are not part of Next. A `...Proofs` module extends its module and TLAPS. An `...MC`
module declares the variables of several components, instantiates each and lets one of them be
`live` in a behaviour: the components beside each other in one run do not interact (where they do,
one module has both).

### Connection layer of SSH-2
- **ChannelId**: `alloc_channel_id`, one turn of its binary search per step, in C unsigned arithmetic
  modulo `Word`; `low` starts at -1, that is `Word - 1`, and only the wrap of `high + low` and `high - low`
  makes the loop right. The tree is the function from index to number.
- **Ssh2Window**: one open forwarded channel from the server to the local application: `srvWin`, bytes
  and credit in flight, `locwindow`, the socket's backlog. `ReceiveData` is CHANNEL_DATA with `pfd_send` and
  `ssh2_set_window`; `SocketWritable` is FD_WRITE, `try_send`, `plug_sent`, `sshfwd_unthrottle`. `Preload` bytes
  are in the socket before any channel data: the SOCKS reply PuTTY writes itself.
- **Ssh2Throttle**: the other direction for several channels over one connection. Every packet may
  leave the SSH socket with more than `SSH_MAX_BACKLOG` (`Chokes`) and freezes every open socket in the
  middle of the handler that sent it; the handler's own freezing comes before or after that in the
  order of the code. Sizes are in abstract units.
- **Ssh2Channels** (with `Ssh2ChannelsMC`, which adds symmetry): the life of all channels, without flow
  control: opened from either side, confirmed, refused, closed by either or both, numbers reused at
  both ends, agent channels, the session channel, the set-up phase while listeners already accept,
  the end of the connection with the loop of `ssh_do_close`. The network is a FIFO each way and the server any
  that follows the protocol. A channel structure is named by the connection it serves, so that a freed
  structure that is still pointed to can be told from a live one; using one is the state `crashed`.
  `of` in a message is for the properties only.
- **Ssh2FwdMC** puts Ssh2Throttle beside one life of Ssh2Channels.

The split of one channel is sound because no control handler looks at a byte count (`sshfwd_close`
does not wait for the `outbuffer`): `closes` is the field the modules have in common, and all contain the
close as an action.

### Layers of SSH-2
- **Ssh2Transport**: `do_ssh2_transport` with `ssh2_rdpkt` and a conforming server. A packet carries the
  number of the exchange its sender's key came from; who reads it with another key sees garbage.
  The layers above go on sending while keys are exchanged (`SendAnyway`). The keys, the exchange
  hash and the session id of an exchange are its number.
- **Ssh2Auth**: `do_ssh2_authconn` up to success: every method, prompts, the agent, banners, the keepalive
  that is built over a half-built packet. `s` is the coroutine's structure with the code's field names.
- **Ssh2Setup**: the requests from the main channel to the shell, each waiting for the next packet.
- **Ssh2MC** extends Ssh2Window and puts the three beside it. The list of ciphers, the servers, the methods they accept, the
  configurations and what is to be set up are constants; the `Some...` sets are what the run gives them.

### SSH-1
- **Ssh1Login**: `do_ssh1_login`: server key, cipher, user, then one method after another while the last packet
  is FAILURE; key arithmetic opaque, the camouflage of passwords in full.
- **Ssh1Session**: `ssh1_protocol` after the login: the set-up, the channels with their four closing packets,
  `ssh1_throttle` with all packets of one read handled before the freeze shows (`inHand`).
- **Ssh1MC**: both. `Preferences` are two lists of ciphers; the constant `CipherLists` is any set of them.

### Sockets
- **WsaEmulation**: the CE branch of window.c and winnet.c: per socket a thread (`created`, `check`, `poll`,
  `send`), the shared `g_bTerminate`, the single handle, the window thread as a stack of calls (`frames`) that dialogs
  suspend, the one pending event, `do_select(skt, 0)` with its wait, the timeout with `TerminateThread`, and
  `net_pending_errors`. What a backend does inside a call is any sequence of opening, closing,
  freezing, writing and showing a dialog.
- **Winnet**: one socket over `WSAAsyncSelect`, the other branch of winnet.c: origins, events posted once until
  re-enabled, freeze with its remembered readability, sending, urgent data, errors.
- **Proxy**: choice of a proxy, HTTP, SOCKS 4/5 and Telnet negotiation fed by any pieces, `proxy_activate` with
  what waits in both directions, freeze; above it the raw or rlogin backend, which thaws the socket within every delivery (`Again`
  is `sk_proxy_set_frozen` entered once more), or an SSH one. `CloseArrives` is FD_CLOSE, which reads what is there also from a
  frozen socket before the plug hears of the close.
- **Telnet**: `telnet.c` and a server that negotiates too: options, subnegotiations, escaping, size, freeze.
- **NetMC**: ChannelId, Winnet, Proxy and Telnet.

### Terminal
- **Terminal**: every operation as a function from one terminal to the next, as every function of
  terminal.c takes a `Terminal *`; `TerminalMC` has the scenarios: sizes, glyphs, settings and groups of operations.
  `Checked` are the scenarios in which every line stays in reach, `Stale` the two in which `term_clrsb` and `term_reconfig` leave it.
- **TermParser**: the state machine of `term_out`, from characters to named operations with arguments.
- **Utf8**: its decoder, byte by byte. **Ldisc**: `ldisc_send` with every editing key, and the text
  before the line, so that erasing too much is seen (`margin` columns of other text, at least the four of `Other`).

### Bytes, keys and formats
- **Packets**: greeting, versions, the list of bugs, both packet readers and builders on a stream that is
  cut anywhere; **Marshal**: what packets are made of; **Socks**: one connection of a forwarded port up to its first data;
  **X11Auth**: the authorisation at the beginning of an X11 connection.
- **PublicKeys**: ssh-rsa and ssh-dss over small numbers, in digits of `ByteBits` bits; **KeyFile**: three formats of
  key files as sequences of characters, whole, cut off or with a wrong character.
- **TerminalMC** puts these, Utf8, TermParser and Ldisc beside the terminal, with the inputs they are given.

### Data structures
- **Bufchain** (a chain of granules) refines **ByteQueue** (a queue of bytes); **Tree234** (nodes with counts) refines
  **SortedList** (a list, sorted or not). Both are INSTANCEs with the abstract specification as a property.
- **Wildcard** against a grammar of patterns, **Zlib** compressor against decompressor, **Bignum** against the
  integers, with words of `WordBits` bits. **DataMC** puts the five beside each other.

## 3. Runs

| Run | Bounds | Distinct states | Shows |
|---|---|---|---|
| `ssh2_forwarding` | 2 channels, window 2, backlog limit 2, queue 4; 1 connection with agent and resizes | 36 549 | frozen for a reason, thawed in the end; sockets match channels, closes end |
| `ssh2_channels` | 2 connections, 1 set-up request, agent and resizes, 1 unprompted message in flight | 459 824 | no message reaches the wrong channel |
| `ssh2` | window 6, 3 exchanges, 1 agent key, 2 prompts, 1 banner, 2 remote forwardings | 235 362 | the layers of SSH-2 and the window |
| `ssh1` | 2 connections, 1 packet of each kind in flight, two cipher lists, password lengths 1, 3, 6 | 130 219 | login and session of SSH-1 |
| `wsa_emulation` | 2 sockets, 1 dialog, 1 failing write | 75 214 | threads stop with their sockets, events one at a time, data is read, the wait ends |
| `net` | Word 16, 6 numbers; 4 options; 3 blocks each way, 3 copies of one | 86 394 | numbers, sockets, proxies, Telnet |
| `terminal` | six scenarios, up to 3 lines of 3 columns, 4 to 5 operations; versions, bugs, requests, cookies and files, cut anywhere | 257 973 | lines, wide characters, selection, view; decoders, packets, requests, keys and files; the edited line |
| `data` | 7 bytes, 7 elements, patterns of up to 6 characters, numbers of up to 3 words | 79 511 | structures and conversions are what they promise |

What the combined properties stand for (each is a conjunction of named formulas in its module):
`NothingWaits` = `DataRead`, `WaitEnds` of WsaEmulation. `EndsAgree` = `NoBadClose`, `ServerKnown`, `SizeKnown`,
`ThrottleCounted` of Ssh1Session. `LoginSound` = four of Ssh1Login. `LayersSound` = `ClientReads`, `GarbledOnlyInGap`,
`KeysAgree`, `NegotiatedBest` of Ssh2Transport; `InWhenGranted`, `BackForPassword`, `IdlePromptIsLast`, `AnsweredOnce`,
`AnswerOwed` of Ssh2Auth; five of Ssh2Setup. `ConnectionSound` = order, wake-ups, names and timing of Winnet
and Proxy; `TelnetSound` = agreement and text of Telnet. `ConversionsRight` = `CompressionSound` and `ArithmeticRight`. `StreamSound`,
`EditSound`, `StructuresSound` name theirs. `LinesSound` is
the line counts, the cursors, the margins and the scrollback of Terminal at once, `WideSound` = `NoTwoRights` and `WideWhole` of every
line that can be shown. The liveness conjunctions are `Proceeds`,
`LayersProceed`, `NetProceeds`, `ClosesEnd`.

Why these bounds are enough. Two connections are what reuse and interference of channel numbers
need (one closes while the next opens and takes its number); with two channels one can be throttled by
its window and the other by the connection only; windows of a few units have the empty, partial and full
cases. With two sockets one thread's start can clear the flag another is about to see; one dialog is
one level of re-entrance and `reentering` is a flag. Three exchanges are the first, and a re-exchange
after a re-exchange. Queue bounds hold back only unprompted messages: answers are always sent,
so that no bound blocks progress. Three lines and columns hold a region with something above, below and beside
it. A window of one column is where
the first column is the last. Three blocks of a proxied connection are one that has
arrived, one that waits and one that overtakes it; four columns of other text are as many as the widest character takes. Trees of 7 elements have two levels and every split and merge; three words of a number have a carry
through a middle word. `CHECK_DEADLOCK FALSE` stands where a session may end.

In `MessagesFindOwner` two kinds of messages are excepted: answers of the agent and resizes, which
the code sends whatever has become of their channel.

### Findings
Four runs end in a counterexample; each checks one sentence of a comment or message against the code.

| Run | What happens |
|---|---|
| `ssh2_channels_shut` | `ssh_do_close` (ssh.c:2103) deletes from the tree it indexes: every other forwarding survives the connection with a dangling pointer; unconfirmed ones too |
| `wsa_emulation_select` | `do_select(skt, 0)` (window.c:1018) ends the polling of every socket, not of `skt` |
| `ssh1_stale_challenge` | the login loop tests the last packet's type; an agent that gives no answer leaves it at CHALLENGE, and the next method that fails silently ends the loop as a success (ssh.c:2866) |

| `terminal_places` | `term_clrsb` (terminal.c:374) keeps a selection in lines that are gone, and `term_reconfig` (354) leaves the alternate screen with `disptop` above the lines that are still shown; extending the selection (3964), or painting (3439), asks `lineptr` for a line that is not there, whose assertion "we don't screw up and retrieve something out of range" (166) fails |

### Observed while modelling
Not runs of their own, but in the models as the code has them:
- Channels: `sshfwd_close` during the set-up does nothing and a connection that comes and goes then fails
  the assertion of ssh.c:3139; CHANNEL_CLOSE of the session leaves `ssh->mainchan` dangling while
  forwardings keep the connection up; `sshfwd_unthrottle` (ssh.c:3216) has no guard like ssh.c:5805, so that a SOCKS
  reply still in the socket wraps the window (hence `Preload = 0` in the theorems).
- SSH-2: when decompression fails the packet is used compressed (ssh.c:1088); an unknown packet is answered and
  still passed on; a keepalive overwrites the packet that is being built; what is sent between our NEWKEYS and the server's
  goes out under the old key (ssh.c:4323); `need_pw` is stale at ssh.c:5105; `X11_fwd_enabled` is never set in `ssh_init`.
- Proxy: `sk_proxy_set_frozen(s, 0)` delivers a block before it consumes it (proxy.c:168-174), and raw, rlogin and Telnet call it
  again from within: the block is delivered again without end. FD_CLOSE (winnet.c:1354) reads also from a frozen socket, past the blocks that
  wait in `pending_input_data`, which the backend never sees. `DeliveredInOrder` states both as exceptions: how often which block may come, and
  which blocks may be overtaken.
- Forwarding: SOCKS 5 without a common method is answered 0xFF and goes on (portfwd.c:212); `pfd_confirm` ignores the
  throttle result for its kept data; the screen number is looked for behind the first dot of the whole display
  (x11fwd.c:233); the time of an XDM cookie is not checked on CE.
- Keys: `rsa2_verifysig` counts bytes as bits/8, `rsa2_sign` as (bits-1)/8 (sshrsa.c:724, 763); `dss_sign` never retries;
  `ssh2_load_userkey` frees `encryption` twice for an unknown cipher (sshpubk.c:677) and may return without an error
  text (639); a wrong passphrase is reported as a format error; SSH-1 files carry no MAC.
- Bignum: the invariant of sshbn.c:46 does not hold for results of `bigmod` and `bigdiv`; `bignum_decimal` of zero writes
  before its buffer. zlib: `zlib_disable_compression` rounds the pending bits and the ten that
  follow them down where the stream is filled up to a byte, so that the length it foretells is one byte short, except for the first packet
  and with six bits pending; the comments (sshzlib.c:615, 641) promise a precise length, and two bytes or three, where it adds one or two.
  `AdjustmentShort` says when it is exact and that it is never off by more; block type 3 and NLEN are
  not refused.
- Terminal: `do_osc` leaves `osc_strlen` at -1 (terminal.c:1329); U+2028 and U+2029 become U+FFFD against the comment
  (1531). Line discipline: when editing ends,
  what was edited is erased whether it was echoed or not (ldisc.c:274-279), and takes as many columns of other text away; a line in whose
  middle echo changed is erased as if it had been echoed in full, or not at all. `ScreenShowsLine` excepts these two lines, and nothing else. winnet: an empty send
  clears `pending_error` (1151). Telnet sends CR NUL in binary mode (792).

## 4. Fairness

Liveness is stated only under what the code and its environment give: the program's own thread and
threads run, the network delivers, and a server answers what it is asked. Nothing is assumed of users or local applications,
except where a property is about them.
- ChannelId: the loop goes on. Ssh2Window: both directions deliver and the local application reads;
  without the last the server *is* left without window, as it should be.
- Ssh2Throttle: the server grants window to open channels, and the network takes the SSH
  backlog (`SshWritable(backlog)`, since one FD_WRITE per unit need not come).
- Ssh2Channels: both directions deliver; the server answers opens and closes. Nothing of the agent.
- Ssh2Transport: both ends read; a server that was sent KEXINIT sends its own. Ssh2Auth, Ssh2Setup, Ssh1Login,
  Ssh1Session: packets are taken, the server answers, the agent's thread ends, a local socket takes its backlog.
- WsaEmulation: threads run; messages sent with SendMessage are taken in order (strong fairness of NetEvent,
  as dialogs and calls switch the pump on and off); WM_TIMER comes; dialogs are answered; calls into
  backends return; the wait of four seconds ends.
- Winnet, Proxy, Telnet: events are handled, the peer reads and replies; Proxy's `Unfreeze` needs strong fairness because the
  backend may freeze again at once.

## 5. Proofs

Every proof has the same shape: Init establishes the inductive invariant, one lemma per action (and, under it, one step per
conjunct the action disturbs) preserves it, PTL combines them, and each property follows from the invariant.

| Module | Inductive invariant | Theorems |
|---|---|---|
| Ssh2FwdProofs | TypeOK, ThrottleMatchesBacklog and `ChannelsInv`: an open channel with an override is frozen and `throttled_all` is set; one that is throttled is frozen and has data left; one that is frozen is one of the two; buffer or window is empty; one that is not throttled holds at most one read | TypeOK, ThrottleMatchesBacklog, FrozenForAReason, NothingHeldBack, BufferBounded; SocketsMatch of the composed module |
| Ssh2ChannelsProofs | `Ours` and `Theirs` (what each end knows of every channel), `ToServer` and `FromServer` (which messages can be in flight for a channel in that state, and in which order) | EndsFit, TypeCorrect, MessagesSound, SocketsMatch |
| Ssh1Proofs | `SessionInv` and `LoginInv`, below | TypeCorrect, TheEndsAgree, LoginIsGranted |
| Ssh2LayersProofs, the window | TypeOK, WindowsAgree, BacklogPaidFor, WindowPresented of Ssh2Window: each of the last three needs the others in CHANNEL_DATA and FD_WRITE | TypeOK, WindowsAgree, BacklogPaidFor, WindowPresented |
| Ssh2LayersProofs, the layers | `TransInv`, `AuthInv` and `SetupInv`, below | LayersTypeCorrect, LayersAreSound |
| NetProofs, the numbers | TypeOK, `Spread` (numbers ascend, so channels[i] is at least Offset + i) and `SearchInv` (everything up to `low` is in place, nothing from `high` on is) | TypeOK, ProbeInTree, FirstFit |
| NetProofs, the connections | `SocketInv` and `ProxyInv`, below | ConnectionIsSound |
| TelnetProofs | `TelnetInv`, below | TelnetIsSound |
| TerminalProofs | `TermInv`, below | ScreenIsTyped, LinesAreCounted, WideCharactersAreWhole |
| WsaEmulationProofs | `SocketInv` (sockets open in order, the handle is the latest socket's thread, a wait waits for it) and `CallsOK` (the calls below a dialog) | TypeOK, ClosedIsNotPolled, OneEventAtATime |

They hold for every value of the constants the assumptions admit: any word size, number of channels,
window, backlog limit, length of the queues, number of sockets and dialogs, any list of ciphers, any blocks of a socket and a proxy.

**Ssh2ChannelsProofs.** That no message finds the wrong channel cannot be read off the two ends: a number is free
at one end while messages for its last owner are still under way. The invariant therefore says for each
channel which of the messages about it are in flight in either direction as a function of where the two
ends stand (`closes` and the server's state), that they are in the order open, confirmation, data, close,
and that a number in a message in flight is not given out again before the message has arrived: the client frees its
number only after both closes have crossed, and so does the server. That both ends always have a number to give
out is a pigeonhole argument over the finite set of connections. `SocketsMatch` assumes
`SetupRequests = 0`: during the set-up `sshfwd_close` ignores a close (ssh.c:3139, 4035) and the statement is false.
**Ssh2FwdProofs** carries `SocketsMatch` over to Ssh2FwdMC: the theorems of an INSTANCE of Ssh2ChannelsProofs are about operators of
their own, so each action is first shown to be the same formula (`SameNext`).

**Ssh1Proofs.** `SessionInv` has, per connection, six stands the two ends can take to each other (idle, asked by us, asked by
the server, both up, freed by us first, forgotten by the server first), each with the packets that may be in flight and their order;
`Throttled`: the count is the number of channels throttling and of the shares leaked by freed ones;
`SizeKept`: a size the server does not know yet is either going to be sent with the pty request or remembered. `LoginInv` has the
state of the loop (`Lands`: where a turn of the loop can end), which methods are spent, that RSA is refused for
a choker, and `Division`, an arithmetic lemma: the padded length of a password is that of its class.
Two lists of ciphers are checked; the theorem holds for any set of lists without duplicates, which `gprefs`
(settings.c:112) weeds out.

**Ssh2LayersProofs.** The three layers share no variables: each invariant is kept by its own layer's steps, and by the others' because
they leave its variables alone. `TransInv` lists the fourteen stands the two ends can take to each other in a key exchange
(`Stand`), each with the packets of the exchange in flight both ways; `Keyed` says of a whole queue that what comes
before NEWKEYS has the old key and what follows it the new one, except the packets of the gap, which `InGap` lets go. That the
server cannot lose anything else is read off the head of that queue. `Choice` carries what `NegotiatedBest` needs from the KEXINIT
to the end of the exchange. `AuthInv` says for every place where the coroutine waits which request is outstanding,
that exactly one is (`Turn`), unless a banner came, and which keys are spent (`KeysSpent`, `Waits`): a prompt without an answer is
the last method because the flags that refuse the others are set by then. `SetupInv` counts the window adjustments in flight
(`CreditSafe`, with a cardinality lemma for each end of the queue) and relates the place of the coroutine to
the one answer it waits for (`Conversation`).
The assumptions are those of the code: a list of preference has each cipher once and a warning line (`gprefs`, settings.c:112), and no
server offers the line itself.

**NetProofs.** `SocketInv`: what the plug was given, followed by what Winsock's inbox holds, is all that has arrived
(`Receives`); what Winsock took, followed by what waits in the socket, ascends (`Sends`); FD_READ is enabled only when nothing
is left to read, and otherwise it is posted or a freeze remembers it (`ReadWakes`): this is what the `recv` with MSG_PEEK
of `sk_tcp_set_frozen` (winnet.c:1472) keeps true. FD_WRITE is awaited as long as something waits (`WriteWakes`).
`ProxyInv` says that what has gone to the proxy is its requests followed by the backend's blocks in order (`Asks`), and that what
waits at the proxy socket or is under way to it is the rest of one reply followed by the server's blocks (`Hears`): for each
kind of proxy a negotiation step eats exactly its reply, wherever the network splits it (`Progress`, `Negotiated`). What the backend has
got is in one of three stands (`Passed`): the first blocks in order; these and further copies of the last of them, which is still the head of the input,
once the loop has been entered again (`Again`); or, once FD_CLOSE reads past a frozen input, these and later blocks, with exactly the blocks that
still wait left out between the two (`Overtaking`). The theorem is the property with its two exceptions, and says that there is no third.

**TelnetProofs.** For each option apart `Stands` lists the twelve stands the two ends can take to each other: the client's state,
the server's, and which messages about the option are under way in each direction (an option that is off for good has a weaker
condition, `Refusal`: a server that has it on is about to be told). Messages of several options, text and keys share the two streams, so
`Only(q, M, w)` says that w is what a queue has of the messages M, and one lemma each says how it changes when a message is put in at the
end or taken out at the front; this replaces folds over the streams, about which nothing could be proved. What is on its way to
the client is bytes, not messages, and may have been read up to the middle of one: `Stream` holds the messages they are the bytes of and
how many of the first have been read, and `Parsing` gives the state of `do_telnet_read` there. `TextShown`, `KeysTold` and
`SizeTold` say that what was shown or told, followed by what is under way, is what was written, typed or set last. `Receive` reads many
bytes in one step, through a recursive function: its property is carried from byte to byte to the first that would break it.
`Environs` needs the order in which `activate_option` turns the old environment off before the new one is on.
The theorem assumes of the server that it does not transmit in binary: in the binary mode it would not write NUL after CR.

**TerminalProofs.** `TermInv` is that the scenario is one of the constant's and `Term(term, scene)`: the fields there are (`Shaped`), sizes from the scenario
(`Sized`), two screens that are sequences of `rows` lines and a scrollback of at most `savelines` (`Paged`), and cursors, margins,
tabs and saved positions (`Pointed`). A line (`Lines`) is a text in which a right half stands behind a cell that is not one, and behind
its left half unless the scenario has the operations that cut wide characters (`Halved`). Nothing is said of the *width* of a stored
line: lines keep their old one until they are looked at, and `Refitted` shows that cutting or lengthening one leaves it a line. The work
is in the operations below the actions, each of which is a function of the terminal and has a lemma that it keeps `Term` and, where
the caller goes on with it, the cursor: `CheckBoundary` leaves the two sides of a boundary free to be parted (`Whole`), and every change of
part of a line is an instance of one of four schemes - a cell replaced, a gap opened, a gap closed, places blotted out - with the
condition under which it leaves no right half behind: `insch`, for example, needs only the left boundary to open a gap, but both to close one,
and a character of double width needs the boundaries on both its sides, again after it has wrapped. `Refits` does the arithmetic of
`term_size`: which lines come back from the scrollback, which go there and which are dropped add up to the rows. Scrolling by several
lines is a recursive function; the property holds of each of its values because there is no least count for which it fails.
The assumption on the scenarios excludes what the code has no room for in a window of one column: a wide character, which is written to two
cells (terminal.c:1883), and a tab on a line of double size, which moves the cursor to column -1 (1802).

**The window.** The theorems about Ssh2Window assume `Preload = 0`: with a SOCKS reply in the socket the statements are false, see above.

Only model-checked, and why:
- all liveness: it needs fairness and ENABLED, which the prover does not handle;
- what computes over data (`StructuresSound`, `StructuresRefine`, `ConversionsRight`, `StreamSound`, `EditSound`): these
  compare recursive functions with each other for all inputs, and most of their modules use RECURSIVE operators, which the
  prover does not take. Where a recursive function only has to keep an invariant, as in Telnet and Terminal, a
  smallest counterexample does instead of an induction;
- `SelectionKept` and `ViewKept` of the terminal: where a selection goes when the lines under it move, and whether it still covers the text it
  covered, is said of positions in one scrollback after another, which need not even be in reach (`terminal_places`).

## 6. What the models leave out

Cryptography: ciphers, MACs, hashes and key exchange values are opaque or small sums; a MAC is told only
by which key it was made with. Wording and layout. Urgent data on CE, where it cannot be received. Memory is not
exhausted. Ssh2Channels: exit-status and other requests of the server; a server that breaks the protocol.
Ssh2Window and Ssh2Throttle: agent channels, which are never throttled. Packets: `detect_attack`. Ssh2Auth: the
`ssh_get_line` branches of command-line programs. Proxy: the layout of the requests. Terminal: colours, rendering,
printing (not in this build), `term_key` (not called), VT52 autowrap. X11: reading the real authorisation. WsaEmulation: failing connects,
reads that take part of the data; a killed thread's message is dropped; fatalbox ends the program
at once. Session logging, settings, dialogs, drawing, character tables, random pool and CE glue are not modelled:
sequential code without interaction. `PROJECT.json` lists the hazards and for each the properties
that cover it, or why none does.

## 7. Plan

Every component chosen in section 1 is modelled and every safety invariant of a protocol is proved. What could follow:
1. `term_clrsb` and `term_reconfig` with the view and the selection brought into reach; then `LinesInReach` holds in all scenarios and can
   be proved with `Term`.
2. Bufchain and ByteQueue, Tree234 and SortedList: the refinements, once their recursive operators are functions.
3. Utf8 and TermParser: `Arrives` and `ControlsTransparent`, whose invariants are about one state of the parser and not about all input.
