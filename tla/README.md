# proc_box in TLA+

proc_box (`src/main.go`, `src/agents/`) runs a command in a process group of its
own, copies its output, ends it when it runs or writes too much, obeys commands
that arrive over AMQP and publishes statistics about it.  Most of its code is the
vendored libraries under `src/Godeps`: the AMQP client, gopsutil, the logger, the
rate limiter.  This directory holds TLA+ modules for proc_box and for what it uses
of them, configurations that check the modules with TLC, and proofs checked with
TLAPS.  In the tables `amqp/` stands for
`Godeps/_workspace/src/github.com/streadway/amqp/`.

## The system

| Part | Code | State | Operations |
| --- | --- | --- | --- |
| Wall-clock timer | `agents/timer.go` | elapsed time, time of the last reading, `tick`, channels `command` (1) and `done` (0) | Reset, Start, Stop, Resume, Done; goroutine `timerTicker` |
| Job control | `agents/job_control.go` | process group, pipes, byte count, `WaitGroup`, channel `done` (0) | NewControlledProcess, Stop, Suspend, Resume, Kill, Done; goroutines that copy and wait |
| main, monitor | `main.go:80-168`, `237-406` | channels `signals` (1), `done`, the current channel of commands | start, one `select` over signals, commands, timeout, end of job and output limit; exit |
| redial | `main.go:170-235` | connection, current `RemoteControl`, `stats` | dial, set up, hand over a channel, wait for the loss |
| Remote control | `agents/remote_control.go` | AMQP channel, queue, deliveries | NewRemoteControl, `handle`, Shutdown |
| Statistics | `agents/process_stats.go`, router in `main.go` | AMQP channel, ticker | Sample with its timeout, NewTicker, ReinitializeConnection, the collect functions |
| Flags | `main.go:20-78` | values of the flags | command line over environment over default |
| AMQP client | `amqp/` | connection, registry, channels with their queues and listeners | Dial, Open, Channel, the calls of a channel, Notify, Close; reader, heartbeater, buffers |
| gopsutil | `shirou/gopsutil/process`, `host` | what a `Process` remembers | figures of a process, description of the host |
| logrus | `Sirupsen/logrus` | level, hooks, formatter, mutex | the levels, Fatal, Panic |
| iocontrol, clock | `aybabtme/iocontrol`, `benbjohnson/clock` | shares of a rate; mock time and timers | throttled reads and writes, pools; Add, timers |

How they interact: main starts the job and the timer and then waits on `done`,
the channel on which the job reports its end.  monitor receives from that same
channel and passes on what it takes.  It also receives timeouts from the timer
and sends it commands, and it signals the process group through the job.  redial
gives monitor a new channel of commands after every connection, and its router
serves monitor's requests for statistics.  The AMQP client has a reader and a
heartbeater for each connection and a buffer goroutine for each consumer; callers,
reader and whoever ends the connection meet in the locks and Go channels of
`Connection` and `Channel`.

What is hard in it: two goroutines competing for one message; a timer and a
monitor that are each other's only partner on two channels, both of which can
block; signals to processes that may be suspended, stubborn, just reaped or
outside the group; a fixed order of copying, waiting and reporting without which
output is lost; a connection that is lost at any call of its set-up; answers that
carry no reference to their requests; a mutex held over a whole call; listeners
registered, sent to and closed by three goroutines; samples collected at once with one
unlocked object; files and processes that change while they are looked at.  The
hazards are listed, each at its line, in `PROJECT.json`.

What makes each part correct:

* timer: it charges only time that really passed while it was counting, reports
  every expiry, never reports early, and serves every command;
* job: its end is reported once, after its leader is reaped and its output
  copied; a killed job is reported;
* main and monitor: the result reaches main exactly once; proc_box ends when
  the job does; limits act when they are exceeded and never before;
* redial, remote control: no command is executed twice or acknowledged in vain;
  every loss of the connection leads to a new one with everything set up on it;
* statistics: a sample returns in time; a replaced rate dies out; one failing
  figure costs no other; no use is counted twice;
* AMQP client: what one end writes the other reads; every call gets its own
  answer or an error; whoever waits hears of the end;
* libraries: lines of the log stay whole, rates are kept, mock time moves forward.

Not all of this holds: the violations and the divergences below show where it does not.

## Modules

proc_box itself:

| Module | Models |
| --- | --- |
| `Stopwatch` | what the interface `Timer` promises: a stopwatch whose display may lag, never lead, and an alarm that rings above the limit and, once acknowledged, leaves the watch paused at the limit |
| `WallclockTimer` | `timer.go`: `tpc` is the place of `timerTicker`; `Range`, `Stamp`, `SelectCommand`, `SelectDefault`, `Check`, `Clamp` are the parts of one round of its loop, cut where another goroutine or the clock can intervene (the two clock readings of `incrementTimer` are two steps); a send on a full channel is a disabled step |
| `JobControl` | `job_control.go` over a small external model of the kernel: processes run, are stopped, die, fork, close streams, write and may leave the group; SIGTERM is pending while a process is stopped, SIGKILL acts always; a pipe ends when it is empty and nobody holds it; a signal to the group fails when it has no member, a zombie leader included |
| `ProcBox` | both composed with main and monitor on shared variables: one action per case of the `select` and of the switches in it; a call of a timer method is two steps because it may block between them; `log.Fatalf` ends everything |
| `Redial` | redial call by call, `NewRemoteControl`, `handle`, Shutdown, the broker (external): queues that die with their consumer, messages kept until acknowledged; `ChannelHangs` is the open that `channel_race` shows, `MonitorSticks` the deadlock of `timer_deadlock` |
| `Statistics` | the router, the tickers' goroutines, samples whose publication stalls |
| `ProcessSample` | `collectSample` and gopsutil's Linux process: several samples at once (`Samplers`), each figure by figure while the processes work and exit, `pgrep`, and the reads and writes of `CPUPercent` on what the leader's `Process` remembers |
| `Settings` | the flags, the map of those not on the command line, the level of the log, the early exits |

The AMQP client:

| Module | Models |
| --- | --- |
| `AmqpMethods` | the methods of `spec091.go`: ids, arguments, whether an answer is waited for; `parseMethodFrame` |
| `AmqpWire` | `read.go`, `write.go`, octet by octet: frames, properties, tables, every type of field |
| `AmqpContent` | `sendOpen` and the state machine recvMethod/recvHeader/recvContent: messages of several frames of several channels on one connection |
| `AmqpRpc` | every call of a channel, `call`, `dispatch`, `dispatchClosed`, the mutex that Confirm keeps while it waits (`Locks`), and the server's side of them |
| `Consumers` | `consumers.go`: the reader's send under the lock and the goroutine `bufferDeliveries` |
| `DeliveryQueues` | what `Consume` promises: an unbounded queue per tag, drained before its end is seen; `Consumers` is shown to implement it |
| `Listeners` | the Notify methods, `dispatch` to their lists, `shutdown` closing them |
| `Confirms` | `confirms.go`, Confirm, Publish: acks and nacks of one and of many |
| `AmqpConnection` | dial to end: handshake, reader, heartbeater, Channel(), Close, NotifyClose, shutdown from every side |
| `Heartbeat` | the two heartbeats in seconds: the ticks and the read deadline |
| `AmqpUri` | `uri.go`, with what String escapes and what it does not, and what `DialConfig` makes of a URI and of a Config that may serve several dials |

The other libraries: `HostInfo` (`host_linux.go`: files looked for, then read,
while a package manager rewrites them), `Logging` (logrus: the checks of the level,
hooks, formatter, mutex, the two halves of a line), `Throttle` (throttled readers
and writers and the pools that share a rate among them), `MockClock` (Add and Set, the
critical sections of `Mock.mu`, timers, tickers and AfterFunc).

`MCJobControl` and `MCProcBox` give the job and the composition to TLC.
The others are parts of four suites: `MCParts`, which holds the timer, `MCClient`,
`MCSafety` and `MCService`.  A suite instantiates several modules on variables of their own; the
variable `part` says which of them moves and never changes, so that TLC explores
the sum of the parts' state spaces and not the product.  Nothing passes between
the parts of a suite: what one module takes from another (that a call on a broken
connection returns an error but for an open, that a consumer's queue is unbounded) is
what was shown of that other module.  A property of a suite names what is asked of its parts and
is a conjunction of properties defined there.  The constants of the parts are
constants of the suite and get their values in its configuration, except in
`MCParts`: its frames are computed by recursive operators, about which nothing can
be proved.  `MCAmqpUri`, `MCAmqpWire`, `MCHostInfo` and `MCAmqpConnection` hold the
addresses, frames, machines and users the suites choose from.

Theorems are in eight modules: `WallclockTimerProofs`, `JobControlProofs` and
`ProcBoxProofs`, which takes those of the two before it as facts of its parts;
`ThrottleProofs` and `ConsumersProofs`, each about one module; and `ServiceProofs`,
`SafetyProofs` and `ClientProofs` about three suites, for all values of their
constants, of which the last two take over what the two before prove.

Definitions with names such as `ApplyKeepingStamp` or `StreamEndsEarly`, each directly
before the definition it varies, are used by no specification.  Each is a
plausible mistake in that code, and `PROJECT.json` says which property notices it.

## Runs

Passing:

| Run | Instance | Checks |
| --- | --- | --- |
| `parts` | the timer with limit 2, clock to 6 and any commands; frames; writers one of which fails; fair | `NeverEarly`, `Covered`, `IsStopwatch` (refinement of `Stopwatch`), `CommandsServed`, `ExpiryReported`; `WrittenIsRead`; `WritesEnd` |
| `job` | leader, a descendant that may escape, one that ignores SIGTERM; one byte | `OutputDrained`, `ReportedJobIsOver`, `StreamsAccounted`, `KilledJobIsReported` |
| `box_kill` | leader and a descendant that may be stubborn and escape, all job commands, three signals, a timer that has expired from the start, fair | `TypeOK`, `ResultDeliveredOnce`, `ExitsAfterJob`, `KillEndsBox` |
| `box_limits` | a stubborn leader that writes up to 3 bytes with a limit of 1; limit of time 0 and a clock to 1; resets from afar; fair | `UnprovokedSignalHasCause`, `EndOfJobEndsBox`, `LimitsAct` |
| `client` | consumers, calls, listeners, connection (below), fair | `IsDeliveryQueues`, `RpcInStep`, `ListenersTold`, `NobodyForgotten`, `NobodyIsStuck`, `OpenEnds`, `EndReachesAll` |
| `safety` | nine parts (below) | `MessagesArrive`, `ConfirmsHold`, `HeartbeatHolds`, `SampleStands`, `CommandLineOverrides`, `RateKept`, `AddressesHold`, `HostDescribed` |
| `service` | redial, statistics, logger, mock clock, fair | `CommandsOnce`, `LoopGoesOn`, `StatisticsGoOn`, `LogHolds`, `NothingOverdue`, `ForwardOnTheWay`, `EveryCallEnds` |

What the properties of the suites are made of:

* `IsDeliveryQueues`: reader, buffer and consumer implement the queues.
* `RpcInStep`: `InStep`, a call gets the answer to its own request; `ReaderRuns`,
  the reader never waits in `closeWith` for an answer only it could read;
  `NobodyWaitsInVain`, what a waiting call waits for is on its way, or shutdown has left
  it an error, but for a Confirm that is `Barred`: in front of its answer stands what the
  reader takes the mutex for that the Confirm holds (see the divergences below).
* `ListenersTold`: `HearsAll`, a listener gets the messages of its kind in order
  and once; `EndIsTold`, the error before the end and only after a failure;
  `ShutdownIsSafe`, nothing is closed twice or sent to after it was closed.
* `NobodyForgotten`: once shutdown is through, the socket is closed and every listener
  has heard of it whenever it registered; after a shutdown with an error the one error
  is there for an Open that waits for it, and each call on a channel it removed has one
  to wake it.  That of Close has none to leave (see the divergences below).
* `NobodyIsStuck`: a slow consumer never keeps the reader; every call returns but a
  Confirm that is barred.
* `OpenEnds`: Open returns whatever the peer does, and a failed one closes its socket.
* `EndReachesAll`: after a loss, calls on the channels that shutdown removed return;
  listeners of connection and channel are closed, whenever they registered.
* `MessagesArrive`: messages arrive whole and in order, none published is missing
  once everything is read, and no frame is larger than agreed.
* `WrittenIsRead`: the reader gets the frames that were written.
* `ConfirmsHold`: a publishing is confirmed once and only when answered; no panic.
* `HeartbeatHolds`: `KeepsTalking`, the client is never silent for two intervals (one,
  as it says of itself, is not so: see the divergences below); `DeadServerFound`;
  `LiveServerKept`.
* `SampleStands`: a process that lives through a sample is in its totals whatever
  fails for others and whatever other samples do; as long as no two samples cross in
  `CPUPercent`, the leader's CPU use is reported once (`sample_race` is about the rest).
* `CommandLineOverrides`: proc_box runs with the command line over the environment
  over the default.
* `AddressesHold`: addresses split by their grammar; the text of a URI parses back to
  it unless its name or password has a slash or its vhost a blank, which String does
  not escape for ParseURI; `amqps` is never opened in the clear, and the handshake is for
  the server the caller named or the host of this URL.
* `HostDescribed`: a derived distribution is reported as itself, and what cannot be
  read of one part takes no other with it, except for a `debian_version` without a
  whole line, which ends proc_box.
* `RateKept`: the shares of a pool fit its rate; nobody whose writer does not fail
  passes more than two periods' worth in one.
* `CommandsOnce`: none executed twice, none acknowledged without being executed.
* `LoopGoesOn`: every loss leads to a new connection unless the channel that redial
  opens hangs or monitor is stuck when redial hands it the commands; a lasting one leads
  to everything set up on it, as long as monitor runs.
* `StatisticsGoOn`: samples return within their timeout, replaced rates die out.
* `LogHolds`: lines whole, the line of Fatal out before the end, levels respected.
* `NothingOverdue`, `ForwardOnTheWay`: between two moves of the mock clock no timer is
  overdue, and on its way to a later time it is never set back (Set to an earlier time
  does that).
* `EveryCallEnds`: calls of the logger and moves of the clock end although hooks fail,
  Panic panics while it holds the mutex and nobody receives.  `WritesEnd`: so do
  throttled writes beside one that fails.
* `LimitsAct` (`box_limits`): as long as redial has handed over no channel of
  commands, a timeout and twice the output limit end the job.

The type invariants of timer and job are part of `TypeOK` of `box_kill`.

Bounds and why they are enough.

* `parts`: the clock of the timer passes the limit twice, so that an expiry after a
  reset or a pause is seen; the channels have their real capacities.  Every method, every
  type of field and strings of 0 to 258 octets appear among the frames, each followed by
  a body or a heartbeat; two writers of which one fails.
* `job`, `box_kill`, `box_limits`: three processes give a leader, a descendant inside
  and one outside the group; three bytes with a limit of one reach both thresholds.  An expired timeout (a negative duration, which the flag
  accepts) gives `box_kill` a timeout at any moment without a moving clock.
* `client`: two consumers and three deliveries fill, drain and close a queue while
  the other's reader waits; two callers go through sequences of calls of every kind
  with and without noWait, and one message of the server's own accord; four
  listeners, one of them for acks and nacks, with a capacity of one and two messages
  are full, late and shared; one user, a closer, a listener and a peer that closes,
  refuses or falls silent at any step.
* `safety`: bodies of 0, 2 and 3 octets in frames with two octets of room make
  messages of no, one and two body frames, three of them from two senders on two
  channels; four publishings acknowledged one by one and together; a server that
  sends as rarely as every 14 seconds at an interval of 5; three samples of a leader
  and a child, sampled by the router and the ticker at once; all combinations of flags
  of each kind; two writers and two readers of a pool, the writers at two rates, on a
  clock of one tick a period, so that periods begin with a tick (the theorem is about
  any number of ticks); addresses of up to five tokens, which hold each of the four
  forms, every mix of the other parts of a URL, and two brokers dialed with one Config;
  machines with every release file, `debian_version` among those that are rewritten
  while they are looked for and read.
* `service`: two connections, one command and a Shutdown: a command delivered on the
  first and again on the second; two changes of the rate, one of them to 0; two
  goroutines that log at three levels, a setting changed meanwhile, a field JSON
  cannot express; two timers of durations 1 and 2 and a clock that goes to 2 and is set
  back, so that timers fall due together, one after another and never.

In `job` and `client` deadlock is not checked: a job whose end was received and a
connection that is closed rightly do nothing more; that nobody is left waiting is
stated as liveness.  The timer in `parts` never stands still.  In `ProcBox` and
`AmqpContent` the end is a stuttering step, and throttled users and the statistics go on for ever, so any other standstill of theirs
would be reported.  The other parts of `safety`, `service` and `parts` come to an end
at their bounds, which `Ends` allows them to do.

Violations.  Each run shows a disagreement between the code and what the
repository says of it:

* `timer_deadlock`: the timer reports a timeout while monitor sends it a second
  command; both block for ever and the job is never stopped.
* `suspended_timeout`: a timeout of a suspended job has no effect.
* `stop_race`: a stop that meets a job just reaped ends proc_box with status 1 by
  `log.Fatalf` although the job ended well.
* `channel_race`: a connection lost while redial opens a channel on it leaves that
  channel registered after shutdown took all others; its call waits for ever, and
  redial with it.
* `sample_race`: two samples cross in `CPUPercent` and report the same use twice.

## Fairness

Goroutines that can run are run by the Go scheduler, package time keeps ticking
and the kernel delivers signals that can be taken: weak fairness of each goroutine,
not of what it may choose.  Cases of monitor's `select` that matter for progress
(`CaseTimer`, `CaseLogSampling`) get strong fairness because Go chooses at random
among ready cases, so a case that is ready again and again is chosen.  `Dial` in
`Redial` gets strong fairness: the broker is not always there, but one that is there
again and again is met in the end; once the channel it opens may hang, redial owes
nothing more, and neither does a monitor that is stuck.  The server answers what it received in
`AmqpRpc`; the read deadline of a connection expires only where nothing arrives to
move it.  Listeners are received from, as the comments of NotifyConfirm ask of
users; consumers, publications, receivers of mock timers and users owe nothing, nor
do the clock of the timer, the processes of the job, the broker and the peer of a
connection.  In `parts` alone the user of the timer is assumed to keep receiving from `Done()`;
the run `timer_deadlock` shows that monitor does not.  In the suites the fairness of
a part is that of its module, for the part that moves.

## Divergences without a run

What modelling showed besides the violations above.  Most are in the models as the
code has them; the properties are stated around them, as their comments say.

proc_box:

* Twice the output limit overflows `int64` (`main.go:399`): a limit above half the
  range kills a job that writes nothing.
* `resume` does not resume the timer, which `README.md:58` says it does;
  `README.md:57` says stop sends SIGQUIT, the code sends SIGTERM; the Kill at
  `main.go:393` follows a `log.Fatalf` and never runs.
* A descendant that left the process group survives Kill, holds the streams and
  keeps proc_box waiting (`job_control.go:80`).
* Remote control binds its queue to an exchange that only the statistics declare,
  later (`remote_control.go:62`): with a fresh exchange the first connection has no
  remote control.  `MCService` starts with the exchange in place.
* A change of the sample rate is offered once to a router that may be in a sample,
  and dropped then (`main.go:348`).
* A sample rate of zero or less panics in `time.NewTicker`, outside any recover
  (`process_stats.go:221`): proc_box dies and the child is left.
* The goroutine of an earlier rate reads the ticker's field anew in each round: it
  samples once more and then competes with its successor.
* A setting in the environment that does not parse leaves the zero value of its
  type, since the error of `Value.Set` is dropped (`main.go:76`).
* A child that exits between `pgrep` and `NewProcess` costs the sample all children;
  memory is read anew and returned from the cache
  (`process_linux.go:192`); OpenFiles writes into a slice of length 0, which makes the
  figure of a process with open files panic and be left out.  A child's CPU use is always 0, because its
  `Process` is made anew for every sample.

AMQP client:

* `Confirm` holds the mutex of the channel over its whole call (`channel.go:1510`).
  When the server closes the channel before it confirms, for this request or an earlier
  one, the reader waits in `shutdown` (`channel.go:98`) for that mutex and Confirm for
  the reader, and with the reader the whole connection, although `channel.go:1505` says
  that "a channel exception could occur if the server does not support this method".  An
  acknowledgement that arrives while a further Confirm waits bars it in the same way
  (`confimOne` takes the mutex too).  `Barred` in `AmqpRpc` is this state.
* Connection.Close ends with a shutdown that has no error (`connection.go:290`): nothing
  is sent to the calls that wait on the channels it takes off and their `rpc` is not
  closed (`channel.go:111`), so that a call of another goroutine is never released.
  `channel.go:187-188` says that whoever was waiting at the shutdown "will have returned
  from the errors chan".
* A heartbeat is sent at a tick when nothing was sent for an interval less one second,
  so that a frame sent shortly after a tick leaves the client silent for nearly two
  intervals.  `connection.go:470-471` says that "at least one frame is being sent at the
  tuned interval with a jitter tolerance of 1s"; `KeepsTalking` says two intervals.
* `Confirm(true)` waits for an answer that does not come, although `channel.go:1505`
  says it will not: `confirmSelect.wait()` is always true.  `MCClient` calls every
  other method with noWait.
* A publishing before Confirm puts client and server numbers apart, and an ack
  empties the heap and panics; `MCSafety` publishes after Confirm.
* A server that sets no limit to frames leaves a frame size of 0, and a body is cut
  at a negative length; `MCSafety` has a server with a limit.
* Without a heartbeat on either side the deadline that the dialer set stays, and ends
  the connection after it; `HeartbeatAssumption` excludes that.  A server that is
  silent for three intervals between two frames is taken for dead.
* The port of a URI is split at the last colon and brackets stay part of the host.
  String escapes neither name nor password, so that a slash in them ends the authority,
  and it escapes the vhost as if it were part of a query: a blank becomes a plus, which
  ParseURI keeps.
* A failed send shuts a channel down beside the reader, which may then send to a
  listener that is closed; `dispatch` reads most lists of listeners without the
  mutex; the same Go channel registered twice with NotifyConfirm after the shutdown
  is closed twice.
* Close waits for the answer of a peer that has fallen silent until the read deadline,
  or for ever where heartbeats are off.

Other libraries:

* A `debian_version` that is empty, or emptied while a package manager writes it, makes
  the sample panic (`host_linux.go:220` takes the first line of none).  `collectSample`
  recovers around the figures of processes only, although `process_stats.go:236-237`
  wants no panic to cost the entire statistic: it costs proc_box.  ReadLines drops a last
  line that has no newline behind it, so that a file without one does the same.  Docker
  guests are reported as lxc.
* Set takes any time and assigns it (`clock.go:92`): an earlier one turns the clock back,
  which `clock.go:54` calls "a mock clock that only moves forward".
* The share of a writer is rounded down twice and may be 0: its calls then never
  return.  A writer that is used after its release keeps its last share.  What a
  failing writer wrote of its last chunk is not counted.  A writer may pass a full share at
  the end of one period and another at the beginning of the next.
* A mock timer created while Add is between "none is due" and "it is now t" is
  overdue afterwards, and the next move sets the clock back to it; AfterFunc sets the
  function of a timer that is already listed, so a move in between loses the call.
* An entry with a field that the formatter cannot express is not logged, a Fatal
  included, which still ends the process; entries made from one another share their
  map of fields.

## Proofs

Each theorem holds for every value of the constants that the named assumption
allows; the runs evaluate these assumptions on their instances.

* `TypeCorrect`, `JobTypeCorrect`: the type invariants of timer and job.
* `TimerNeverEarly`: the timer reports only above the limit.  Not inductive: the
  elapsed time alone says nothing of the interval in progress.  `Covered` adds
  that elapsed time plus the unread interval is at most the time run, except
  between the two clock readings, where the interval is already added.
* `TimerIsStopwatch`: the timer implements `Stopwatch`, from `Covered`: every step
  of the goroutine maps to a step of the stopwatch or to a stutter.
* `OutputAlwaysDrained`, `ReportMeansOver`: from `StreamsAccounted`, which adds to
  them that only live processes hold streams (so a fork hands on only streams that
  are still open), that an ended copy saw its pipe empty and released, and that a
  dead leader never comes back.
* `PartsAsSpecified`: `ProcBox` implements `Timer!Spec` and `Job!Spec`, the two parts
  with a user who calls their methods in any order; one step per action of main and
  monitor.  `PartsAssumption` asks of the constants what the parts ask.  So
  `NeverEarly`, `OutputDrained` and `ReportedJobIsOver` hold in proc_box too, and the
  next four rest on them.
* `ResultReceivedOnce`, `ExitIsThatOfJob`: main and monitor compete for the one
  message of the job and it is received once; the exit code is the job's.  `HandOver`
  adds that before main receives there is no monitor and nothing was received, and
  that the exit code was made of the result; a result that was reported does not
  change because the leader is gone by then.
* `BoxTypeCorrect`: types in the composition, the exit code within a byte.
* `UnprovokedSignal`: without signals to proc_box and without the commands kill and
  stop, SIGTERM and SIGKILL have the timeout or the limit as their cause, if twice the
  limit can be represented: where it cannot, `Twice` is negative and any output is
  above it.
* `HeartbeatsHold`: `HeartbeatHolds` for every interval both sides agree on.  The
  invariant adds for the sending side that what the heartbeater was told of is no
  younger than what was sent and that less than one interval will have passed at the
  next tick, and for the receiving side that the deadline and the silence add up to
  three intervals unless a reset is on its way.
* `NothingIsOverdue`, `ClockForwardOnTheWay`: `NothingOverdue` and `ForwardOnTheWay` for
  every set of timers and all durations, with timers created between moves or by the
  functions a move runs.  The invariant says that no listed timer is behind the
  clock, none at it between two moves and none before the target once none was found
  due; that a first timer exists in a list that is not empty comes from the
  well-foundedness of the naturals.
* `RateIsKept`, `PoolsKeepRate`: `RateKept` for any pool of writers or of readers, all
  rates, lengths and ticks of a period; the first is about `Throttle`, the second
  carries it over to the suite.  `Shared` says that whoever setSharedRates has reached
  has its share of the present rate among the present users, `Kept` that what a user has
  counted, with what it was just allowed, fits the highest share, and that what it passed
  in the last ticks belongs to the period it counts or to the one before, each of which
  fits that share.  The bounds
  are sums over users and over ticks.  What the proof needs of such a sum (one element
  taken out, one changed, a bound on each) is shown by induction on a set of numbers,
  which the well-foundedness of the naturals gives without an operator as parameter.
* `AddressesAlwaysHold`: `AddressesHold` for addresses, names and vhosts of any length
  and any Configs.  An address of the grammar has one of four forms, in each of which the
  last colon is where the form says; the text of a parsed URI leaves a part out only where
  ParseURI puts the same back.  `UriInv` adds that what is dialed is configured by the URL
  and the Config as the caller gave it, whatever was dialed before, and that a connection
  with TLS is open only after the handshake.
* `HostAlwaysDescribed`: `HostDescribed` for any machines and any set of files that are
  replaced meanwhile.  `HostFiles`: each file is whole or just emptied, so that the same
  files exist all along; `ReleaseFound`: the release file found is that of the distribution,
  not of the one it is made from; `PlatformKnown`: so is the platform once it is read, and
  a sample that panicked had found `debian_version` without a whole line.
* `BuffersAreQueues`: the buffers of consumers implement `DeliveryQueues`, for every
  set of tags and any number of deliveries.  What the buffer holds is `queue`
  followed by `hand`; the invariant says that a delivery is in hand only in the
  select and then alone, that the queue is empty outside the loop, and that a tag
  whose channel is closed is not registered.  Every step of reader, buffer and
  consumer is then a step of the queues or a stutter.  `ClientQueues` carries that
  over to the suite.
* `CommandsExecutedOnce`: `CommandsOnce` for any commands and any number of
  connections.  That no command is executed twice is not inductive: `Apart` adds that
  no message is in two of the places it can be in (the queue of the current
  connection, what the client holds of each connection, what was executed), `OneUp`
  that only the current connection is up, so that the queue of a lost one delivers no
  more, `Known` that all of it was published (and so is not published again), and
  `AckedAfter` that an acknowledgement is of a command already executed.
* `LogIsWhole`: `LogHolds` for any goroutines, levels and entries.  `OneWrites`: whoever
  is within a line holds the mutex and wrote the last part; `Allowed`: a call that got
  as far as the hooks was let through by a level, and what was written of it bears its
  number; `LineAtLast`: only an entry that cannot be formatted goes without its line.
* `SamplesStand`: `SampleStands` for every finite set of descendants and any number of
  samples at once.  `Collected` says of each which figures of those who lived through it
  so far it holds, up to where it is; `Uncrossed` that, as long as no two samples were in
  `CPUPercent` at once, the use reported is at most what the leader's `Process` remembers
  or is about to.
* `CommandLineWins`: `CommandLineOverrides`, from what has been decided so far at each
  step of the parsing.
* `PublishingsConfirmed`: `ConfirmsHold` for any number of publishings after Confirm.
  `AnswersKnown` ties the heap to the answers under way: each publishing of which the
  server owes nothing more is answered by one of them, and none makes a later one
  unknown, so the heap is never empty when an answer comes; `NotifiedOnce` says that what
  was confirmed has left the heap.
* `MessagesArriveWhole`: `MessagesArrive` for any senders, channels, bodies and limits.
  What the receiving side has so far says nothing of the frames under way, so the
  invariant looks ahead (`Foreseen`): there is a trace `R` of what it will be after each
  frame on the wire, which `Taken` defines as a function of the frame; all along it only
  what was promised has been delivered, and at its end all of it has, and each channel is
  as far as its sender.  `Promised` is what was published, with a message of which all
  frames are sent though sendOpen has not returned.  `Holding` says that who sends holds
  the lock of the channel.  A frame sent makes the trace longer by one, a frame received
  begins it one later.  The theorem supposes that the negotiated frame size leaves room
  for an octet (`Content!size > 0`): AMQP demands 4096, but the client does not insist.
* `CallsInStep`: `RpcInStep` for any callers and calls. `OneAtATime`: while the channel
  is open, at most one request or answer is under way that somebody waits for, and it is
  of the one who waits; `EndsInOrder`: after the first closing method only closing
  methods follow; `WaitsInv`: a call that waits has asked, which comes from the
  generated `wait()` method by method, and a server that closes a channel has said so or
  has confirmed the close of the caller who waits; `Barred` excepts the Confirm that
  keeps the mutex from whoever would answer it. `RpcAssumption` supposes that at most
  one goroutine calls methods that wait, as in proc_box (the client takes answers as
  they come); `Confirm` with noWait is excluded, as in the run.
* `ListenersAreTold`: `ListenersTold` for any registrations and capacities.  `AllOwed`
  makes what a Go channel is owed what it heard, what it holds and what is on its way, in
  this order; `UnderWay` says that reader and shutdown go through a list as it was when
  they began, `Locks` who holds what while the channel is shut down, `Registered` that a Go
  channel is listed because of one call only.  `ListenersAssumption` supposes that no Go
  channel is registered by two calls (registered twice after the shutdown it is closed
  twice, see above).

* `ShutdownForgetsNobody`: `NobodyForgotten` for any users, listeners and channels, and
  whoever comes to shutdown first.  `OnlyOpenWaits`: before Open has returned nobody has
  the connection to call or close it with, so that the one error is taken by nobody else;
  `ChannelsTold`: the channels shut down so far have their error.  It says nothing of a
  channel that is registered after shutdown took the others: that is `channel_race`.

Assumptions the proofs needed and the code justifies, beside bounds that are numbers: a
system has finitely many processes (`ProcessSampleAssumption`); nobody sets the level of
a log to that of Panic, as proc_box does not (`LoggingAssumption`); "no one" is neither
a sender nor a goroutine; each call registers a listener for one kind or for both
confirmations (`ListenersAssumption`); the instances fix that nobody publishes before
Confirm (`EarlyPublish`), that the environment holds no text that does not parse, which
a flag would silently take as zero (`OnlyValid`), and that no mock timer is made within
a move by others (`Late`), as the divergences above explain. A pool has finitely many
rates to be set to (`ThrottleAssumption`). Hosts and paths of addresses are sequences of
tokens (`AmqpUriAssumption`). The proof about the host says what distributions bring
(`HostInfoAssumption`): Raspbian is a Debian, without the release files of Oracle and
without the name of Linux Mint; what is made from Red Hat has no `debian_version`;
`redhat-release` and the kernel's `/proc/stat` end with a newline, and nobody replaces
the latter. A machine of another kind may be reported as the distribution it is made
from.

Only model-checked, and why:

* All liveness (`CommandsServed`, `ExpiryReported`, `KilledJobIsReported`, `KillEndsBox`,
  `EndOfJobEndsBox`, `LimitsAct`, `LoopGoesOn`, `StatisticsGoOn`, `EveryCallEnds`,
  `WritesEnd`, `NobodyIsStuck`, `OpenEnds`, `EndReachesAll`): fairness and ENABLED are
  outside the prover's reach.
* `WrittenIsRead`: what the recursive operators of `AmqpWire` compute for every frame.
* `Statistics` and `AmqpWire` have no theorem: what is asked of them is of these kinds.

## Not modelled

* `job_control.go`: the copy of stdin, a copy that ends because proc_box's own
  output cannot be written, reuse of a group id after reaping.
* `main.go`: monitor's recover handler; the split of the routing keys at commas.
* `process_stats.go`: the addition of fields by reflection and the JSON of a message;
  the contents of a remote command.
* AMQP client: NotifyBlocked, which passes on a flag; channel numbers are never
  exhausted.
* gopsutil: other operating systems than Linux and figures proc_box does not read.
* logrus: the look of a line, the hooks for syslog and bugsnag; iocontrol: the
  measuring reader and writer and the profiles, which only count.
* The libraries of the tests (goconvey, assertions, oglematchers, oglemock, gls),
  which are no part of the running program.

Kept apart rather than composed: `Redial`, the AMQP client and `ProcBox`.  Their
product is beyond TLC; each takes from the others what is checked there.
