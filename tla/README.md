# A verification of modemu2k

modemu2k is a Hayes modem in software: a program on a serial line, a pty or
standard input talks AT commands to it, and it places and answers calls over
TCP, with telnet in between.  This directory holds TLA+ models of the library
(`libmodemu2k`, the C files in `src/`), the TLC configurations that check them
on small instances, and proofs that TLAPS checks.  Paths are those of the
repository.

## 1. Inventory

A context (`m2k_t`) is used by one thread.  `m2k_step()` runs one round of
non-blocking I/O; the host (or `m2k_run()`) calls `m2k_get_pollfds()`, `poll()`
and `m2k_step()` in a loop, and may call other functions between two rounds.
What makes the code hard is not threads, but what moves between two rounds: the
peer, callers, the clock, the DTE and the host's own calls, and state that is
set in one round and used several rounds later.

| component | state | operations | what is hard, and what has to hold |
|---|---|---|---|
| step machine, `m2k_step.c`, `m2k_api.c` | `step.state` (CMD, DIAL, ANSWER, ONLINE, DONE), `cmdbuf.eol`, `quit_req`, `escape_req`, `ctrl.dtr` | `m2k_step`, `cmdIter`, `dialIter`, `answerIter`, `onlineIter`, `stepEnter*`, `m2k_hangup`, `m2k_escape`, `m2k_set_dtr`, `m2k_atcmd` | host calls in any state between two rounds; requests that outlive what they were made for. A call is reported as it begins and as it ends, and a live call is never displaced |
| dialing, `sock.c` | `sock.conn` (`fd`, `alive`, `rp`), `dial.result`, `dial.deadline` | `m2k_sockDialStart`, `m2k_sockDialProgress`, `m2k_sockDialAbort`, `sockInit/Close/Shutdown` | refusals, time-outs and late answers on a list of addresses; a `%Q` that closes the socket under the dial. No descriptor leaks, the list is there while it is needed, the dial ends |
| answering, `m2k_step.c` | `answer.fd`, `answer.rings`, `ring_next`, `deadline`, S0, S1, S7 | `cmdRingCheck`, `answerPending`, `answerAccept`, ATA, S0 auto-answer | the caller gives up between `poll()` and `accept()`; dialing while it rings. CONNECT means a carrier; ring counts do not outlive the ring cycle |
| online data path, `m2k_step.c`, `sockbuf.c`, `ttybuf.c` | `tty.bufR/bufW`, `sock.bufR/bufW` with soft limit, hard limit and `stop`, `lineBuf`, `srl` | `ttyReadLoop`, `sockReadLoop`, `sockBufWrite`, `ttyBufWrite`, `m2k_write_from_app`, `m2k_read_to_app` | partial reads and writes, flow control in the middle of a read, telnet commands cut anywhere. Nothing is lost, repeated or reordered; nobody waits for nothing |
| telnet options, `telopt.c` | per option and side `req`, `state`, `pending`; `sentReqs` | `setReqs`, `telOptSendReqs`, `telOptReset`, `telOptHandle`, `telOptSBHandle` | requests that cross offers, settings that change meanwhile, an escape that discards what was not sent. Both ends agree, the negotiation ends |
| escape detection, `m2k_step.c` | `escSeq` (`state`, `plus1T`, `expireT`, `checkSilence`), `prevT`, `newT` | `escSeqHandle`, `escSeqReset`, the timeout of `onlinePollfds` | the times are those of reads, not of keys; bytes wait while the peer takes none; a guard time that another session may inherit. Data never ends a call, a typed escape is heard |
| command reader, `m2k_step.c` | `cmdbuf`, `intr_armed` | `cmdReadLoop`, `cmdDispatchIfReady` | type-ahead, erasures, the length limit, a DTE that does not wait, a call between two keys. A line is run once, as it was typed |
| AT grammar and registers, `cmdlex.l` (`cmdlex.c`), `atcmd.c` | `atcmd`, `atcmdNV`, `cmdstat` | `cmdLex`, `atcmdInit`, `atcmdZ`, `atcmdAW`, `atcmdSSet`, `atcmdP?`, `m2k_atcmdD`, ... | a line takes effect command by command, also one that fails; settings change while a call is up or on hold, `&W` and `Z` swap them whole. Values stay in the range of the tables they index, the number dialled is the one of the line, what was negotiated is what is set |
| synchronous API, `sock.c`, `m2k_api.c` | the same context | `m2k_dial`, `m2k_online`, `m2k_sockDial`, `onlineMode` | a second path to the same states, with its own address list on the stack. It returns, and leaves neither list nor socket behind |
| setup and teardown, `m2k_setup.c`, `m2k_api.c` | `rfd`, `wfd`, `owned`, `listen_fd`, `answer.fd`, address lists | `m2k_new`, `m2k_setup_*`, `m2k_sockListen`, `m2k_listen_accept`, `m2k_free` | a setup that fails half way, a listener that is replaced by its client, `m2k_free()` at any time. Each descriptor is closed once, by who opened it |
| time, `timeval.c` | none | `timevalSet10ms`, `timevalAdd`, `timevalSub`, `timevalCmp`, `timevalRemainingMs` | one carry, one borrow, rounding down. Sums stay normalised; `poll()` never gets 0 before the deadline nor a time after it |
| program, `main.c`, `cmdarg.c`, `comm_program.c` | `mode_flag`, `ttymode`, the child | `cmdargParse`, `main`, `m2k_run`, `forkExec`, `sigchld` | options in any order, early ends that must free the context. What runs is what was asked for |
| `stty.c`, `verbose.c`, `utils.c` | none of interest | tcsetattr, logging, checked allocation | |

How they interact: the step machine calls the reader, which calls the lexer,
which changes registers and may hang up; the status it returns makes the step
machine dial, answer or go online.  Online, the two read loops feed the two
write buffers, the socket loop hands commands to the options, and the options
write into the socket buffer and may end the call.  All of it shares the one
context; there are no callbacks but the log.

## 2. Modules

| module | models | how its state and actions correspond to the code |
|---|---|---|
| `Modem` | step machine, dialing, answering | A variable for each field of the context that control depends on; buffers are "has data", deadlines "passed or not", registers S0, S1, S7 small numbers. `m2k_step` is the disjunction of the handlers; `Hangup`, `Escape`, `SetDtr`, `Atcmd`, `ReadToApp` are the host's calls; the other actions are the world (`PeerResponds`, `CallerLeaves`, `DeadlinePasses`, ...). A handler that calls others in sequence is an operator on a record of all variables (`Now`, `Becomes`), and returns a set of records where `connect()`, `accept()` or `getaddrinfo()` decide |
| `CallCycle` | what a host may rely on | The abstract specification: the phases and the carrier, without sockets, lists or timers. `Modem` implements it under `phase <- state, carrier <- alive` |
| `MCModem` | | Small instances: sets of command lines |
| `MCRings` | | `Modem` with a history of how many RINGs the waiting caller has had |
| `ModemProofs` | | Theorems about `Modem`: its invariants, what one step may do to the call, and that it implements `CallCycle` |
| `Relay` | online data path | The write buffers with `fill`, content and `stop` (a session begins with the CONNECT text in the one for the tty, and the requests in the one for the peer), the read buffer of the tty, the line buffer, the IAC parser. `OnlineRelays` is one `onlineIter()` on whatever `poll()` found ready, in the order of the code. Histories `typed`, `got`, `said`, `shown` for the properties |
| `MCRelay` | | Symmetry of the data bytes |
| `CmdLine` | command line reader | `buf`, `ptr`, `eol`, `armed` as in `m2k_cmdbuf` and `step`; `CmdStepsTty` and `CmdStepsApp` are one `cmdIter()` each. A call is one state, `AWAY`. Histories `typed`, `taken`, `ran`; `overtaken` records that the DTE typed on, or a call was answered, before a line was dispatched; the tape `taken` has the bytes of a call too |
| `TelnetOption` | one side of one option | `req`, `state`, `pending` as in `TelOptState`; commands in the write buffer, on the wire and on their way back; a peer after RFC 1143. The sides of the options do not influence each other, and WILL/WONT mirrors DO/DONT. Histories `hasty`, `lost`, `kept` mark what the properties leave out |
| `TimeVal` | `timeval.c` | The five functions on records `[sec, usec]`; the units are parameters, so that a second of a few microseconds can be checked and every second is proved about |
| `EscSeq` | +++ detection | Extends `TimeVal`. A clock that ticks microseconds, the keys with the times they are typed, `bufR` with `prevT` and `newT`, `esc`, the timeout `wake` that `onlinePollfds()` asked for. Two worlds: *prompt*, where the loop runs when `poll()` returns and keys are read as they come, and one with any delay, any read size and any stall of the peer. S12 changes in command mode and, where the world is not prompt, at any time by `m2k_atcmd()`. Histories `keys` (typed) and `heard` (the last four bytes handled, each with the time of its read, that of the read before and the guard time of then) |
| `MCEscSeq` | | The units of time, when the clock starts, and which worlds are looked at |
| `AtSettings` | AT interpreter, settings, what they are used for | `scan` and `stat` as the scanner's; a step is a command of a line (`by`: whose), `atcmd` and `atcmdNV` the settings, `req` and `sent` the copy that the options go by. Calls are what they do to `alive` and `sent`. Histories `asked`, `dialled`, `ported` |
| `MCAtSettings` | | The arguments that are typed, for each command a refused one too; both sides of `%B` vary |
| `Lifecycle` | contexts from `m2k_new()` to `m2k_free()`, listeners, both dials, the synchronous API | `file` is the kernel's descriptor table (lowest free first), `heap` the address lists that are allocated, `ctx` the fields that name either, `pc` the function the one thread is in. A step of a loop in the code (an address that is tried) is a step. `Modem`'s steps are here what they do to socket and list. Like the code, `m2k_dial()` tests neither the state nor the carrier; the history `lost` has the sockets that it displaces, `left` the lists |
| `Program` | `main()` and its options | Extends `Lifecycle`: `phase` is where `main()` is, and each step calls one function of the library. A host of another kind (`phase = "embedded"`) calls what it likes |
| `RelayProofs`, `CmdLineProofs`, `TelnetOptionProofs`, `AtSettingsProofs` | | Theorems about the module in the name |
| `EscSeqProofs` | | Theorems about `TimeVal` and `EscSeq` |
| `LifecycleProofs` | | Theorems about `Lifecycle` and `Program` |
| `Induction` | | What the proofs about loops and streams need: induction on numbers and sequences, loops that are recursive functions, folds, parts of sequences |

`Modem` knows the data path only as "something is buffered", and `Relay` knows
only one online session and ends with it; the two meet at `stepEnterOnline()`
and at the end of a call.  `Relay` knows the options only as replies of any
kind; `TelnetOption` models them, and `AtSettings` says which requirements they
start from.  `CmdLine` ends where a line is run: what it does to the settings is
`AtSettings`', what it does to the call `Modem`'s, whose line is one that is
complete.  `Modem`'s detector may see a +++ at any time; `EscSeq` says when it
does.  `Modem` ends at the socket and the list it holds; `Lifecycle` has the
descriptors and lists of the whole process, and only the outline of the calls.  Mutants (`x_Name` before definition `x`,
under a comment that starts with "Mutant") are plausible bugs; each property
has one that breaks it.

A step of the code is split only where a split cannot be told apart: a command
step that dispatches a line and then reads on is two steps in `Modem`.

### What is abstracted

* A command line is in `Modem` what it does to the call: the status, whether H or
  Z or %Q hangs up, what it writes to S0, S1, S7, applied in the order hang up,
  registers, verb. `AtSettings` has the commands one by one in any order, and for
  each register only whether it is one that is used.
* Names, numbers and ports are model values; a port that is a service name is told
  from a number, and both from none.
* Bytes: `Relay` names only the bytes the loops tell apart; `"opt"` and `"echo"`
  stand for the bytes of a reply and of the local echo.
* `getaddrinfo()` returns nothing or `MaxAddr` addresses, any of which may be
  refused, succeed or stay in progress; a shorter list is one whose first
  addresses are refused at once.
* `read()`, `recv()`, `send()` and `write()` take or return any number of bytes
  the code asked for; a failure is the end of the call.
* `gettimeofday()` only decides whether a deadline has passed.

## 3. Runs

| run | instance | shows |
|---|---|---|
| `modem_tty` | a tty, a listener, 2 descriptors, 2 addresses, rings up to 2, one queued caller, 9 command lines | no descriptor leaks; a carrier has a socket; nothing is stuck for a line that is gone; ring counts are reset off-hook; a live call is not displaced; CONNECT means a carrier; a failed dial or wait says NO CARRIER |
| `modem_app` | embedded, all host calls between any two steps, 2 addresses, 10 command lines | an escape request never reaches another session, a lost call is reported unless an escape is served first, the last result code tells the DTE where its bytes go, a dial has its list and address, also when `%Q` closes its socket; `CallCycle` is implemented (safety) with all the host's interference |
| `modem_live` | tty, listener, 2 addresses, fair | `CallCycle` with its fairness: dials and waits end. The session ends after the tty has closed |
| `relay_data` | tty and embedded, all three modes, with and without a request to send first; up to 3 typed bytes and units of the peer (data, doubled IAC, options, subnegotiation) together; buffers of 1 + 3 bytes, line buffer of 1 | both directions lose nothing and keep their order, whatever the sizes of the reads, writes and host calls; limits hold; left-over input has a wake-up |
| `relay_live` | tty, fair | every typed byte leaves the tty and its read buffer while the call is up |
| `cmd_line` | tty and embedded, up to 4 typed bytes of 6 kinds, a line buffer of 2, one call | every line is run once and as typed; type-ahead is kept until a call begins; the string the lexer gets ends within the buffer; only AT%Q or two Ctrl-C with nothing or a call between them ends the session |
| `telnet_agree` | all five requirements, 5 escapes and settings, 3 offers or refusals of the peer's own, fair | agreement when nothing is in flight, no pending request without an answer on the way, MUST is met or the call over, the negotiation ends |
| `esc_timing` | a second of 3 microseconds, each of which is 1 ms and 10 ms, S12 of 1 (a guard time of 2 of them) or 0, lowered at any time, a clock that runs for 5, 4 keys of 2 kinds, reads of up to 3, two sessions; prompt and not, tty and embedded | an escape typed as the manual says is heard by the time the timeout is over; the guard only ends a call behind a +++ that had a silence between reads in front of it, by the S12 of the moment, or joined the read of the byte in front of it (section 6); every time that is kept is normalised |
| `at_settings` | lines of any length of the DTE, the host and the environment, also `m2k_dial()`; a host name, a port, a service name, left out or given; one side of %B and %R vary, every command also gets an argument it refuses | values stay in range; what the peer was asked for is what is set, also after a dial with a port, which skips the requests; a call goes to the number and port of its line |
| `lifecycle` | descriptors up to 6, 2 addresses, 2 address lists; the program with any options and a host that calls anything in any state | every descriptor is accounted for at every step, those that `m2k_dial()` displaces by name; address lists are freed but at three known places; the program runs what its options ask for; `m2k_dial()` returns (fair) |

The last two runs find disagreements of the code with its documents; their properties state what the
document says (section 6):

| run | instance | violated |
|---|---|---|
| `modem_stray_escape` | a tty, two addresses, a host that hangs up | `EscapeWasAsked`: a guard time survives the end of its session |
| `at_refuses` | %T0 and %T1 | `RefusesTType`: %T0 before a dial with a port, or before ATO, refuses nothing |

### The bounds, and why they are enough

* `FD`: a context holds one call; the second descriptor is what a leak or a
  displaced call would need.
* `MaxAddr = 2`: first, next and last address are told apart; a third one
  repeats the step from one to the next. The proofs hold for any number.
* `RingMax` is where S1 saturates (255 in the code): 2 gives "below", "at S0"
  and "saturated".
* `MaxCallers = 1`: nothing depends on a second queued caller but that there is
  one after the first was accepted, and callers arrive again at any time.
* `Soft` and `BufR` (2048 and 1024): only the distance between the limits and
  one read matters; `SizeAssumption` says what the code relies on (`LineMax + 2
  <= BufR`). The instances make every limit reachable with three bytes: flow
  control sets in within a read, and the hard limit within a burst.
* `CmdMax = 2` and `MaxTyped = 4` in `CmdLine`: a line can be full, be followed by a
  shorter one, and be typed ahead; `BufR = 3` cuts the input into two reads.
* `Greeting = 1` and `Requests = 1` in `Relay`: with either, the write buffer is at the soft limit
  when the session begins.
* `MaxTyped`, `MaxSaid` in `Relay`: a buffer can fill, drain partly and fill again. `relay_data`
  was also run with `MaxTyped = 3`, `MaxSaid = 2`, `MaxBoth = 4` (3.9 million states,
  no error); the smaller bound keeps it short.
* `MaxCommands`, `MaxOffers`: escape, set, return, escape, set; an offer that
  crosses a request and another one behind it. Larger values were tried and
  show nothing else.
* `PeerQuits = TRUE`: a peer may turn an option off again. What the modem then keeps on is
  marked `kept`; without the marks `kept` and `lost` the properties fail, with them they hold.
* `esc_timing`: a second of 3 microseconds carries most sums of a time and the guard time. `Horizon = 5` has
  a +++ of three keys with its second wait, for either S12, a byte a wait in front of it, and a second session
  under a guard of the first; the NoEscapeMissed of a fourth key and both waits is reached with the S12 of 0, and was
  checked for the S12 of 1 with `Horizon = 7` and no other S12. S12 is only set lower (`LoweringSpec`), which keeps the
  number of states down; `EscSeqProofs` holds for any changes, any clock and the real units.
* `at_settings`: a line is not bounded in length, since a command's effect does not depend
  on how many went before it. Registers are those something reads; one host name is enough since the
  number of the line is told from the one of an earlier line, of `Z` and of the environment by its port. The
  other side of %B, and %L, reach the negotiation by the same code (`Renegotiate`); `AtSettingsProofs` holds for all.
* `MaxFd = 6`: the three standard descriptors, a tty, a listener or an answer line, a call, and
  one that is missing. `Lists = 2`: one in use and one that was left behind; the proofs hold for
  any number.

Deadlock is checked, except in `TelnetOption`, where a settled negotiation with used-up
bounds stops, in `EscSeq`, whose clock stops at the horizon, and in `Program`, which ends with
the process.

### Fairness

`Modem`: a host that follows `m2k_get_pollfds()` steps again when a descriptor
is ready or the timeout is over. So steps that `poll()` would wake for are weakly
fair: the deadline of a dial or a wait (`DialSteps`, `AnswerTimesOut`, with
`DeadlinePasses` for the clock), a caller in the accept queue (`AnswerAccepts`),
the hang-up of the tty in each state, and the guard time after a +++. Nothing is
assumed of the peer, the callers, the DTE or the host's calls; `SessionEnds` is
stated for auto-answer off, since a line that keeps answering need not end.

`Relay`: the peer takes what is sent (`OnlineRelays` that sends), the tty is read
when it is polled for and has bytes, and a host writes what its DTE has typed.
Not assumed: that the DTE reads. In app-I/O mode no fairness is given to a step
without a ready descriptor, since `onlinePollfds()` asks for no timeout.

`TelnetOption`: messages are sent, carried and answered.

`Lifecycle`: the function that was called runs on: `m2k_sockDial()` goes to its next
address, and its `select()` of 200 ms sees the clock pass S7 (`givesUp`). Nothing is
assumed of the peer or of the host.

## 4. What is proved

Every theorem is proved for all values of the constants: any number of descriptors,
addresses, callers and rings, any set of command lines and host calls, any units of
time, any names, ports and terminal types.

| module | theorem | says |
|---|---|---|
| `ModemProofs` | `Invariance` | `Spec => []IInv` |
| | `TypeCorrect`, `NoDescriptorLeaks`, `SocketsAreCalls`, `DialsHaveAddresses`, `NothingIsStale`, `EscapesAreForThisCall`, `RingsEndOffHook` | `TypeOK`, `NoFdLeak`, `SocketIsCall`, `DialHasAddress`, `NothingStuckToLine`, `EscapeIsForThisCall`, `OffHookNotRinging`: the invariants of `modem_tty` and `modem_app` |
| | `CallsAreKept`, `ConnectsWithCarrier`, `FailuresAreReported`, `EscapesKeepCarrier` | the action properties `LiveCallKept`, `ConnectMeansCarrier`, `FailureReported`, `EscapeKeepsCarrier` |
| | `OnlyEscapesHideLosses`, `LastWordsAreTrue` | `OnlyEscapeHidesLoss` and `LastWordIsTrue`, whatever the host calls |
| | `OnlineIsCarrier`, `LossesAreReported` | a modem whose host calls nothing but `m2k_escape()` is in ONLINE only with a carrier; and `LossReported` of it |
| | `ImplementsCallCycle` | `Spec => CycleSafe`: `Modem` implements the safety part of `CallCycle` |
| `EscSeqProofs` | `Set10msIsExact`, `AddIsSum`, `SubIsDifference` | the functions return a normalised timeval that stands for the number of hundredths, the sum, the difference |
| | `CmpIsOrder` | `timevalCmp()` is the order of the times |
| | `RemainingIsWakeup` | `timevalRemainingMs()` is 0 if and only if the deadline has passed, and a sleep of that many milliseconds ends less than one before it, or at most one behind it when less than one is left |
| | `Invariance`, `Types`, `EscapeIsEarnedHolds` | `Spec => []IInv`, and `TypeOK` and `EscapeIsEarned` of `EscSeq`, for all times, delays, read sizes and guard times |
| | `PromptInvariance`, `NoEscapeMissedHolds` | `Spec => []PInv`, and `NoEscapeMissed` |
| `TelnetOptionProofs` | `Types`, `AgreementHolds`, `PendingHasAnswerHolds`, `MustOrHangUpHolds` | `TypeOK`, `Agreement`, `PendingHasAnswer`, `MustOrHangUp`: all the invariants of `telnet_agree`, for queues of any length |
| `RelayProofs` | `Invariance`, `Types`, `LeftoverHasWakeupHolds` | `Spec => []IInv`, `TypeOK`, `LeftoverHasWakeup` |
| | `TypedGoesOutHolds`, `SaidIsShownHolds` | `TypedGoesOut` and `SaidIsShown`, for any streams, while nobody negotiates SGA in the call |
| `CmdLineProofs` | `Invariance`, `Types`, `LinesAreRunHolds`, `TypeAheadKeptHolds`, `QuitIsAskedHolds` | `Spec => []IInv`, and the properties of `cmd_line`: `TypeOK`, `LinesAreRun`, `TypeAheadKept` (until a call begins; over a tty while no line is overtaken), `QuitIsAsked` |
| `AtSettingsProofs` | `SettingsInRange`, `NegotiatesTheSettings`, `DialsTheNumber` | `TypeOK`, `NegotiatedAsSet`, `DialsWhatIsAsked` |
| `LifecycleProofs` | `LifeTypes`, `DescriptorsAccounted`, `ListsFreed` | `TypeOK`, `Accounted`, `ListsAreFreed` |
| | `ProgramIsAHost` | `ProgramSpec => Spec`: `main()` is one of the hosts of `Lifecycle` |
| | `ProgramIsAccounted` | `ProgramSpec => []Accounted` |
| | `RunsWhatIsAsked` | `ProgramSpec => []RunsAsAsked` |

### `Modem`

The assumptions are those of `Modem`: `FdAssumption` (no descriptor is "none"),
`BoundAssumption` (the bounds are positive) and `UseAssumption` (types).

The safety properties are not inductive one by one. That no descriptor leaks
needs that `sockInit()`, which forgets without closing, is only called with no
socket at hand; that in turn needs that outside DIAL a socket is a live call and
that ATD and ATA test for the carrier; and that a dial can go on needs the list.
`IInv` is `Good(Now)`: the record types; `Owned` (the kernel's set of open
descriptors is exactly `fd`, a carrier has a socket, no socket no link); and per
state what it guarantees (DIAL: the list, an address and no carrier; ANSWER: no
carrier; outside ONLINE: nothing for the line, no escape request; DIAL and
ONLINE: no rings). In the middle of a handler `Good` does not hold; the lemmas
use `Owned` there, and `AtCommand` in the handlers of CMD. Each handler has a
lemma on its type and one on what it hands over, and the proof that a step keeps
`IInv` follows the calls of the step: one lemma per group of actions (`CmdStepIInv`,
`DialStepIInv`, `AnswerStepIInv`, `OnlineStepIInv`, `HostCallIInv`, `WorldIInv`),
one step per action under it.

The second half of `ModemProofs` says what a step from such a state may do to the call. `Moves` has six
kinds of it (the state stays and no carrier appears; it goes off-hook without one; it connects with
one; a dial or a wait gives up; the call returns to command mode; the session ends), and
`MoveOfCall` adds that a carrier which is there before and after has the same socket. One lemma
per handler and per group of host calls shows the kinds it can be, `StepMoves` joins them, and the
one exception is named: a line that hangs up and dials in the same step. Each action property
follows from the kinds alone, and so does the refinement: every kind is a step of `CallCycle` or
leaves phase and carrier as they are.

`LossReported` is not true of every host (section 6), so it is proved
under the hypothesis that the host does not hang up, drop DTR or give commands.
What is lost then is lost in a step of ONLINE that leaves it; the invariant `OnlineCarries` says that there
is a carrier up to that step. What holds of every host is `OnlyEscapeHidesLoss`, of each step that
leaves ONLINE, and `LastWordIsTrue`, which each of the six kinds of step keeps.

### `TimeVal`

The proofs are integer arithmetic with a product of two variables (seconds by the
length of a second), which the prover does not do by itself: `Distributes` and
`ProductOfSum` say what is needed of it. Assumed is only that the units are positive.

### `EscSeq`

`EscAssumption` types the constants and says that the clock counts from long ago: more than a
guard time has passed since time 0, which `ttyBufRReset()` and `m2k_new()` write where no read
has been. That is what lets the first + of a session count as one with silence before it.

`EscapeIsEarned` compares the detector with the bytes it was given, and each with the guard time of the
moment at which it was handled, since S12 may change between two. `IInv` says (`Sound`) that in a
session the last three of them explain the detector's state (`Knows`: the first + of the
sequence came after a silence between two reads, its time is `plus1T`, the deadline is a guard time behind the
third), and that a guard which is armed in any other state was armed before the session, which
`stale` records. One byte keeps that (`ByteHandled`), a loop over any number of bytes does by
induction (`Detects`, `ReadLoop`), and a session begins with no bytes and the state NORM.

`NoEscapeMissed` compares the detector with the keys and the times they were typed. `PInv` holds
in the prompt world over a tty: each key is read at the time of its typing, one by one (`InTime`: at
most one waits, and it was typed now; `newT` is the time of the last key that was read), so
what the detector has to be in is a function of the last four keys (`Follows`), and the timeout
that `poll()` was given is over less than a millisecond behind the deadline (`WakesUp`, from
`RemainingIsWakeup`). Three keys that are an escape sequence lead to the guard, and once it is over by a
millisecond the timeout is over too, so that the modem is not idle. The fourth key is the
exception of the property: when it is a +, `Follows` says nothing of the three behind it.

### `TelnetOption`

The queues have no bound, so the invariant cannot list what they hold. `Settling` says
instead, for each state of the two ends, what must still be on its way, and it does so by the
last words of a queue and by whether it holds a command at all: what the peer said last is
what it stands by (`PeersWord`); a pending request is the last thing on its way to the peer, or
the peer's answer is on its way back (`RequestIsLast`, `AnswerIsComing`); and where the two
differ, one of them will hear of it (`DifferenceIsTold`). When both queues are empty, what is left
of it is `Agreement`. `RequirementIsMet` is what `MustOrHangUp` needs: a requirement that was
put to the peer, and of which nothing is pending, is met. The marks `lost` and `kept` (section
6) are hypotheses of `Settling`, as they are of the properties.

### Induction over data

`Relay` and `CmdLine` are about loops over bytes and about histories of any length. The
library's induction theorems take a formula as a parameter, which the provers here do not
support; `Induction` does with sets instead. `NatMin` (a non-empty set of numbers has a least one) gives `Induct`
for a set of numbers, and from it `SeqInduct` and the existence of recursive functions over
numbers (`LoopExists`) and over sequences (`FoldExists`). A loop of the code is written as a
recursive function; `LoopStays` and `FoldType` keep a set of states in it turn by turn, and `FoldAppend`,
`FoldJoin`, `FoldFirst` cut a fold where a read cuts the stream.

### `Relay`

`IInv` is small: an empty buffer starts over (`fill = 0`, flow control off), and one that is
not under flow control is not behind the soft limit (`Buf`). Both read loops stop when it
sets in, or when nothing is left, so what the tty has left unread has data in front of it
(`LeftoverHasWakeup`). `SizeAssumption` (`LineMax + 2 <= BufR`) is what makes one more turn fit:
a turn begins at or below `Soft`, `Hard = Soft + BufR`, and the longest turn writes a
line and its CRLF.

`TypedGoesOut` compares what the peer got with `Sent(mode, typed)`, which is a fold over what was typed.
`SendInv` says it of every moment: the bytes typed are, in this order, those handled, those
in `bufR` and those in the tty; what was got and what is in the buffer, without the replies
in between (`Payload`), is what `Sent` makes of those handled, and `lineBuf` is its unfinished line.
Each turn of the loop moves one byte across (`TtyTurnConveys`), and a reply between two turns
changes no payload. For `SaidIsShown` a fold of the parser says what a stream shows: reading `sockIn`
from the parser's state, behind what was shown and what waits for the DTE, gives what was said (`SaidInv`).

Both have the hypothesis `"SGA" \notin Opts`: the peer does not change SGA *during* the
call; it may be on or off in it. When SGA is agreed in the middle of a line, the unfinished
line stays in `lineBuf` (section 7), and how the rest goes out depends on where
in the stream the change came, so `Sent` of a single mode is not what is sent. `relay_data` has the same
restriction; `relay_live` has the change, and no property about what is sent.

### `CmdLine`

`LinesAreRun` compares the lines that were run with `Lines(taken)`, a fold over everything the reader
has taken. The invariant relates it to the buffer: while nothing was overtaken, editing what
was taken gives the lines that were run, and what is in the buffer: a whole line when `eol` is set,
else the unfinished one (`Told`). That needs that the buffer's last place is the
terminator and that in front of `ptr` there is nothing but what was typed (`Good`). A command-mode step is
a loop of bytes (`cmdReadLoop`) within, embedded, a loop of lines (`cmdIter`), of which any turn may begin a
call. Each turn takes bytes, so it ends, and what it leaves is no whole line: embedded,
no line ever waits for the next step. Over a tty one can, and `Held` says what then cannot be: while nothing is overtaken,
a waiting line has nothing behind it, in `bufR` or in the tty. For `QuitIsAsked` the invariant says
what an armed Ctrl-C means: the last byte that was taken in command mode was one. What a call
took in between is then the named exception (section 6).

### `AtSettings`

`IInv` adds to `NegotiatedAsSet` that it holds of the saved settings or that the
connection is down whenever they differ, and to `DialsWhatIsAsked` what the scanner's
state says of the number: behind D and before a number the status is ERROR, and a status
ATD has a number. One lemma per command, in which the handlers that set one field share a
lemma (`SetsOk`, `FieldOk`).

### `Lifecycle`

`Accounted` relates sets; its inductive form `Holds` says for each descriptor which field
names it, `Distinct` that no two fields name one, `Chosen` that a second tty or listener
never overwrites a first, and that a socket that no field names any more is in `lost`. `sockInit()`
forgets one where `m2k_dial()` is called with a call up or a dial under way, and `Displaces` shows
that what it forgets is what `lost` gains, and so does a caller who is accepted in an answer wait under such
a call; every other step finds no socket to forget, or closes it first. The lemmas `OpensTty`, `OpensCall`, `OpensListener`,
`ClosesCall`, `ClosesListener` say what each change of the table does to `Holds`; the step
lemmas use them. `LifecycleProofs` also shows that each step of `main()` is one library step or
none, and the invariants of `Lifecycle` carry over. For `RunsAsAsked` they are strengthened by
`PInv`: `OptionsRead` relates the mode flag to the options that were read, and `SetSoFar` says for
each phase of `main()` what has been set up by then. That the tty is still of its kind when it runs
needs `Lifecycle`'s `IInv`: what a call closes is its own descriptor.

## 5. What is only model-checked

Liveness (`CycleSpec`, `SessionEnds`, `TypedIsTaken`, `Settles`, `DialEnds`) is out of reach of
the prover, as is anything that needs ENABLED. All other properties of the passing runs are theorems, and so are the conditional
`LossReported` and `EscapeKeepsCarrier`, which no run repeats.
`TypedGoesOut` and `SaidIsShown` are proved, as they are checked, for calls in which
nobody negotiates SGA.

## 6. Where the code and its documents disagree

Two have a run in which TLC finds the behaviour:

* `modem_stray_escape`: `escSeqReset()` leaves `checkSilence` set, so a +++ typed
  just before one call ends makes the next call escape.
* `at_refuses`: the manual says `%T0` refuses the terminal-type option. The requirement is
  only copied by `setReqs()`, when requests are sent: not after a dial with a port, and not
  on ATO, since `atcmdPT()` does not clear `sentReqs` as `%B` and `%L` do.

Eight more have a property that states what the document says, and a configuration with which
`tlc -config <file> <module>` finds it violated in less than a minute. They are kept beside the runs, since
each shows why a passing property has the exception that it names:

| configuration, module | violated | the document, the code, and the property that names the exception |
|---|---|---|
| `modem_untold_loss.cfg`, `MCModem` | `LossReported` | `modemu2k.h:289-290` promises NO CARRIER for an `m2k_hangup()` that tears down a call. With an escape pending, or a guard time over, `onlineIter()` returns "escaped" first and the DTE is told OK for a call that is gone. `OnlyEscapeHidesLoss` |
| `modem_early_answer.cfg`, `MCRings` | `AnsweredOnNthRing` | `modemu2k.h:799` says "Higher S0 values answer on the Nth ring". Going online by ATD resets `answer.rings` and not S1, which auto-answer goes by: the rings of one caller count for the next. `OffHookNotRinging` is about `answer.rings` only |
| `esc_joined.cfg`, `MCEscSeq` | `EscapeHasWait` | `modemu2k.1.in:406-411` asks for a wait before the +++ "without hitting any key". Bytes of one read have one time, and the silence before the first + is taken from the read before it: `x+++` that one `read()` or one `m2k_write_from_app()` brings escapes. `EscapeIsEarned` (the byte in front of the three came in the same read, or a guard time earlier) |
| `cmd_armed.cfg`, `CmdLine` | `QuitNeedsPair` | `modemu2k.1.in:343-351` says any other input byte disarms the Ctrl-C trigger. One that is armed when a call is answered is still armed after the call, whatever was typed in it. `QuitIsAsked` (`ArmedBeforeCall`) |
| `cmd_overtaken.cfg`, `CmdLine` | `CrEndsLine` | `modemu2k.1.in:163-172` says the carriage return ends a line. Over a tty that takes no output for a moment, `cmdIter()` reads on while the line waits for its dispatch, and what is typed behind the CR is run with it; what was read together with the end of a line, behind it, is lost with the next read; and a line whose CR has been read is dropped when a call is answered before its dispatch. `LinesAreRun`, `TypeAheadKept` (`overtaken`) |
| `telnet_kept.cfg`, `TelnetOption` | `BetterGivesIn` | `m2k_private.h:272` says `TOR_BETTER` gives in. A WONT of the peer's own is answered with DO, and when the peer refuses, the modem keeps the option on. `Agreement` (`kept`) |
| `at_sides.cfg`, `MCAtSettings` | `BinarySides` | `modemu2k.1.in:290-293` and `atcmd.c` say that `%B0` is the local side and `%B1` the remote one; `setReqs()` takes `pb[1]` for the local side and `pb[0]` for the remote one. `NegotiatedAsSet` goes by `setReqs()` |
| `lifecycle_displaced.cfg`, `Lifecycle` | `FreeReleasesCalls` | `modemu2k.h:170` says that `m2k_free()` releases all resources, and line 255 that `m2k_dial()` takes a modem "from idle to connected", without a precondition. `m2k_sockDial()` calls `sockInit()` (`sock.c:210`) on whatever socket there is: with a call up, as after an `m2k_online()` that returned for an escape, its descriptor is forgotten. `Accounted` (`lost`) |

The models leave these out by name, in a history variable or in a guard of a property, and
show that nothing else breaks the property:

* *A discarded request* (`lost`). An escape discards option requests that `sentReqs` says were sent.
* *A hasty setting* (`hasty`). Two renegotiations before the first answer share one `pending` and can
  go on for ever; the branch of `telOptHandle()` marked "this may not happen" is reached when a
  setting changes while a request is pending.
* *A swallowed escape* (the exception of `NoEscapeMissed`). After "+ wait +++ wait" the first + makes
  the detector wait for its second one, the + behind the wait sends it back to the start, and
  the two behind that have no silence before them.
* *Three lists* (`left` in `Lifecycle`). `m2k_ctx.h` says the address list is freed when the dial
  resolves, but a `connect()` that succeeds at once keeps it and the next dial overwrites it;
  `m2k_free()` in DIAL does not free it either; and an `m2k_dial()` under a dial leaves that dial
  without its addresses, so that it ends without freeing them, or with an address of a list that is freed.
* *A half setup* (`chosen = "failed"`). `m2k_setup_comm_program()` that fails in `fork()` keeps the pty;
  a second setup would overwrite its descriptor.

Others were met while modelling:

* `modemu2k.h` says that the bytes `m2k_write_from_app()` accepts are processed by the next
  step, but online the timeout that the host is given is -1 (in command mode it is 0). After
  `m2k_hangup()` in ONLINE the poll set names descriptor 0 without a timeout.
* A doubled IAC at the end of the line buffer, or an erasure behind it, leaves half of the pair; `Sent` does
  the same, so `TypedGoesOut` says nothing of it.
* The manual allows service names for a port; `atoi()` makes port 0 of them.
* `ATD<number>Z` dials the number that Z has restored, since it is one of the settings.
* `AT%D1` is read only by the blocking `m2k_sockDial()`, not by `dialIter()`. When S7 is over,
  `m2k_sockDial()` gives up all addresses, and the stepwise dial only the one it tries.
* The synchronous `m2k_dial()` and `onlineMode()` call `select()` with `sock->fd + 1`. After
  `m2k_setup_listen()` (descriptor 3), `m2k_listen_accept()` (4 is the tty, 3 is closed) the call's
  socket is 3: the tty is not looked at. They also need a tty: embedded, `rfd` is -1.
* Descriptor 0 stands for "no socket": a program that starts with it closed would not close a call on it.
* The tty closing in ONLINE leads to CMD and then to DONE; the diagram above `m2k_step()` goes
  straight to DONE.

## 7. Not modelled

Logging, what `ATI` and `&V` print, checked allocation and terminal modes have no state a
property could be about. `cmdlex.c` is generated from `cmdlex.l`: `AtSettings` has the rules and
their actions; flex's tables and input buffers are taken to do what the rules say. The
relay of data in `onlineMode()` is not modelled beside `onlineIter()`, whose functions it calls.
`Relay` does not cover the loss of bytes it names: a reset while the tty buffer is full (POLLHUP
bypasses flow control), line-mode echo that is not held back, and a change of mode in the middle
of a line. `EscSeq` lets the clock run as the code does: it does not jump back.

## 8. Plan

Done, in this order since every other part runs inside the call control: `Modem`, `CallCycle`,
`Relay`, `TelnetOption`, `CmdLine`, `TimeVal`, `EscSeq`, `AtSettings`, `Lifecycle`,
`Program`, and the proofs of section 4. Next:

1. That no burst passes the hard limit, in a `Relay` with the peer's units of any size.
2. A `Relay` whose mode the negotiation changes in the middle of a line.
3. Which steps of `Lifecycle` `Modem`'s handlers are, as a refinement.

To reproduce a run: `tlc -config <run>.cfg <module>` with the module that PROJECT.json
names (`MCModem`, `MCRelay`, `CmdLine`, `TelnetOption`, `MCEscSeq`, `MCAtSettings`, `Program`);
the proofs: `tlapm <module>` for the modules of section 4, and `Induction`.
