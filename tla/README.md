# Verification of PSDemoProgram

TLA+ models, model-checking runs and machine-checked proofs for the PS laser
sensor demo program (`src/src`). The program talks to a laser scanner over UDP
or a serial line. It has a menu of commands, scan sessions that poll scans, and
two relay modes that sit between a client and a sensor and compute averages the
sensor does not have.

## 1. The system

### Components

| Component | State | Operations | Module(s) |
|---|---|---|---|
| Command exchange (`CommandBase`) and the seven commands | `mCommand`, `mBuffer`, results | `performCommand()`, `sendCommand()`, `checkCRC()`, `checkErrors()` | `Exchange`, `SensorCall`, `ErrorID`, `ExchangeProofs` |
| Menu entries for versions and parameters (`testGVER`, `testGPRM`, `testSPRM`) | `lParameterID`, `lParameterValue`, the list printed | list, choose, set | `Menu`, `MenuProofs` |
| Relay (`testRELAY_NET_NET`, `testRELAY_UART_NET`, `convertRELAY_*` in `PSDemoProgram.cpp`) | globals `g_GSC2_*` | one loop: client to sensor, sensor to client, key | `Relay`, `AverageCall`, `RelayProofs` |
| Averages of the relay, `parseScan()` of GSCN and GSC2 | the frame, averaged in place; the frames collected | `..._ScanAvg`, `..._PointAvg`, `parseScan` | `ScanFrame`, `Averaging`, `AveragingProofs` |
| Scan sessions (`ScanSequence`, `Scan2Sequence`, `ScanPrint`, `Scan2Print`) | period, start time, last scan number | `run()`, `isTerminated()`, `logScan()` | `ScanSession`, `ScanSessionProofs`; the graphs of `logScan()` in `Graph`, `AveragingProofs` |
| UART (`ClientUART`, Linux and Windows) | locals of `read()`: buffer, state, length, loop | `read()`, `config()`, `open()`, `close()` | `Uart`, `UartProofs`, `Streams`, `StreamCalls`, `StreamsProofs` |
| Socket (`ClientSocket`, Linux and Windows) | handle, `mIsOpen`, `mTimeout` | `open()`, `close()`, `setTimeout()`, `read()`, `write()` | `Streams`, `StreamCalls`, `StreamsProofs`; `read()`/`write()` in `Exchange` |
| File stream (`CommandFileStream`) | `mFileHandle` | `open()`, `close()`, `read()` | `Streams`, `StreamCalls`, `StreamsProofs` |
| Checksum (`CRC32`) | `mRemainder`, the table | `add()`, `clear()`, `get()` | `CRC32`, `CRC32Proofs` |
| Main program (`main()`) | the streams, the log file, the status | open, run, clean up, return | `Program`, `StreamsProofs` |
| Sensor (not in the repository) | parameters, scan process | serves a command | `Sensor`, taken from how the commands use it |

Not modelled: `ProgramVersion` (constant strings), `KbhitGetch` (a key is a
nondeterministic choice wherever the code polls one), `Global.hpp` (types and
sizes, which are constants of the modules), the text the program prints and, for
the scan sessions, its rates, error counters and the interval of its lines
(`DEBUG_LOG_INTERVAL`), the log files' contents, host name resolution and command
line parsing. None of these decides what the program does next.

### Interaction

There is one thread. Everything concurrent is outside: the network that loses,
damages, delays or repeats datagrams, the sensor that measures and answers in its
own time, the client of a relay, the words arriving at a serial port, the clock
and the user's keys. Calls go menu or scan session, command object,
`IDataStream`, socket or UART. The relay uses the streams directly and keeps its
state in globals.

### What is hard

* An answer carries nothing that ties it to its request. `sendCommand()` takes
  whatever is next in the socket.
* The relay repeats a GSCN request on its own, over a lossy network, while the
  client may give up and ask something else. Its globals have to follow.
* The relay loop is correct only if neither `read()` waits. What timeout 0 means
  depends on the platform.
* A serial line has no datagrams. `read()` finds the end of a frame from a length
  field that may belong to a fragment.
* Averages are written over the frame they are computed from, with two sentinel
  values among the distances and a last group that may be smaller.
* A scan session counts lost scans although scans repeat, are missed, and
  requests fail. It ends by a wrapping clock.
* `testSPRM()` ends its listing with the first command that fails, for whatever
  reason, and the counter of the listing is the variable the user's choice goes to.
* The host has the relay's averaging loop a second time, to draw it.
* Every open of every connection may fail, in each mode and on both platforms.

`PROJECT.json` lists the hazards with their lines and the properties that cover
them; one without a property says why.

## 2. Modules and how they correspond to the code

`MCx.tla` is the small instance of module `x`, `x.cfg` its constants.
`PROJECT.json` maps each definition to the lines it stands for. Operators
commented "Mutant of ..." are deliberately wrong variants of the operator below
them. No specification uses them: substituted for the original one at a time,
each must break a stated property, which shows that the property depends on the
code.

**ErrorID**: error codes, and `intToError()` with its index into the table.

**Sensor** (external): `Served` is the set of possible results of one command.
The sensor may program another value than the one asked for, refuses what it
does not know, and does not know GSC2 (the relay implements it).

**SensorCall** (abstract): what a caller of `performCommand()` is promised.
Between call and return the sensor serves the command at most once; the call
fails, served or not, or succeeds with the answer to this very command.

**Exchange** (detailed): `SendCommand` is `sendCommand()` up to its `read()`,
`ReadAnswer`, `ReadFails` and `ReadEmpty` are the ways the read ends, with
`checkCRC()`, `checkErrors()` and the extraction of the value in the same action,
as they run without interruption. A timeout (`TimedOut`) of a socket is a negative
result, which is `ERR_READ`. On Windows `read()` compares the negated error with
`WSAETIMEDOUT`, which never holds, so both platforms end there. A timeout of a
UART is the result 0, which is no failure: `checkCRC()` compares the checksum of no
bytes with the word before `mBuffer`, which ends as `ERR_CRC`. The byte order conversion is reduced to the one place
where it decides something: the comparison with `ERR_COMMAND_ID`, which is in
host byte order (constant `BigEndian`). The network loses and damages datagrams;
`LateAnswers` and `Duplicates` say whether it also delays beyond the timeout or
repeats. `Exchange` implements `SensorCall`:

    phase  <- "idle", or "served" when the sensor has served request seq, or "called"
    call   <- cur,   answer <- served.answer,   outcome, param, scanning unchanged

**Relay**: `RelayStep` is one half turn of the loop: `RelayRequest`/`NoRequest`
is the client's half, with `convertRELAY_Client_Sensor()`; `PassReply`,
`RejectReply`, `CollectReply`/`NoReply` the sensor's half, with
`convertRELAY_Sensor_Client()`; `PollKey` the keyboard. `ClientBlocks` and
`SensorBlocks` say whether `read()` of a side waits: on Windows timeout 0 makes
sockets non-blocking and both are FALSE; on Linux `SO_RCVTIMEO` 0 means for ever
(both TRUE for RELAY_N, only `SensorBlocks` for RELAY_U, whose UART polls). A
scan is named by the client request it was asked for; no action of the relay
reads these names. `ScansFit` says that a GSCN answer is not larger than the
relay's buffer of 8 KB; `DamagesRequests` that damage can change the averages in a
request, for which the relay then makes a valid checksum. `lost` is history: a
datagram of this call was lost.

**AverageCall** (abstract): what a client is promised by the relay and the sensor
behind it. A request ends with an answer to this request or with none; an answer
whose checksum is right is a refusal or of the kind asked for, and for GSC2 it is
made of scans requested for this GSC2, as many as asked for within the limits.
`Relay` implements it (`phase <- cpc, number <- cseq, call <- cur`): everything
the relay and the sensor do is a stutter. The limits are stated by what they
require, not by the comparisons of the code.

**ScanFrame**: a frame as a function from word index to word; the fields, the
limits and `parseScan()`; `ScanAverage` and `PointAverage`, with the division that
rounds toward zero and the overflow of `int32_t`. The loops are recursive functions
over their index: `MeanDistance` takes up the scans one by one (`AddScan`),
`GroupMeans` the distances (`NextDistance`: `AddDistance`, and `SendGroup` when the
group is full). The loop of the code writes while it reads, but never in front of
what it has read: `GroupMeans` works on the distances of the frame, and
`PointAverage` puts what it returns at the front.

**Graph**: what `logScan()` of `ScanPrint` and of `Scan2Print` draws of a scan: a
sequence of lines, each a bar with its number of columns, "Low" or "Noise".
`ScanPrint` averages while it prints, in a loop of its own (`GroupLines`, of
`CountDistance` and `PrintGroup`), which decides by the counter whether a line is a
bar; `Scan2Print` decides by the value (`Line`).

**Averaging**: client asks, scans are collected, averaged twice, sent, parsed. It
shares with `Relay` the collecting (`KeepScan`), and has the contents `Relay`
leaves out. It also draws the graphs of both, which composes the relay's averaging
with the client's parsing and drawing, and compares the loop of the relay with
that of `ScanPrint`.

**Uart**: `read()` word by word. `Available` is what one system `read()` delivers,
`ReadWords` one turn of the loop with data, `ReadNothing` one without, `ReadError`
a failing one. A frame is *sent into silence* when nothing was on the line or in
the port and the host was outside `read()`; `disturbed` says that since then a
gap, a read error or another frame came.

**ScanSession**: `run()` of the four classes. They share their loop; `command`,
the period and `PrintsLostScans` differ. The commands are calls of `SensorCall`:
failing, possibly after their effect, or answered.

**Menu**: the menu entries 1 to 3 as steps between the calls of `SensorCall`: the
prompts, the commands, and what each does with the result (`PrintParameter`,
`EndListing`, `SetParameter`). A prompt that reads no number leaves the variables
as they are. Each step of a call is conjoined with the step of the host that goes
with it, so that a refusal of the sensor and a lost datagram are told apart
(`ReturnsRefusal`, `ReadFails`); the code does not tell them apart. `cut` and
`typed` are history.

**Streams**: each stream is a record, each operation the set of its outcomes, for
both platforms. **Program** composes them in the order of `main()`,
**StreamCalls** in any order. `port` is history: whether `config()` has named a port,
and whether it is stuck since one of its settings failed in `open()`; `Reopens` says
whether `open()` is also called of an open UART. Its names differ from those of
`Program`, so that one module, `StreamsProofs`, has the theorems about both.

**CRC32**: on all 32 bits, a word being the set of its one bits. `DivisionStep` is a
turn of the loop that fills the table, `SerialStep` one of the standard's register;
the bytes of a message and the bits of a byte are taken up by recursive functions.

## 3. Runs

| Run | Question and result | Bounds and why they suffice |
|---|---|---|
| `exchange` | Values, scan state and refusals reported as success are true of the sensor; the exchange implements `SensorCall`; every command comes back. With socket and UART. Passes. | One parameter with two values, an unknown parameter, three commands: two suffice for a stale answer to meet a new request, the third for state left behind by both. 66 316 states. |
| `exchange_late` | With answers later than the timeout, "the actual value set is returned" fails: a late answer is the next command's. Violation. | the same |
| `relay` | `IndexInBounds`, `AverageIsTheOneAsked` and the invariant behind them, on a network that loses and damages; with reads that do not wait, what the sensor sends is taken, and every call is answered unless a datagram of it was lost; the relay implements `AverageCall`. Passes. | Three buffers for ten; averages 0, 2, 4 are below, inside and above the limits 1 and 3; three calls, so that an average follows an average and another command follows an average. 101 420 states. |
| `relay_net_linux` | With reads that wait, "if new data is available on the console, send it to the serial port" fails: the answer stays in the queue while the loop waits for the client. Violation. | two calls |
| `uart` | After gaps, errors and pipelined frames a frame sent into silence comes back, whole; every `read()` returns. With and without a timeout. Passes. | Frames of three and four words in a buffer of five; other words that look like length 0, like a length too large and like a negative one; one empty poll before giving up; two frames, so that the first can leave a fragment to the second. 56 430 states. |
| `averaging` | The frame sent is consistent; every group is sent; an average lies among the distances heard and is the mean; a scan too large is refused; the graph `ScanPrint` draws of the sensor's scan is the one `Scan2Print` draws of the scan averaged by the relay. Passes. | One or two scans of up to two points with and without pulse widths; one scan of three and four points in groups of 2, 3 and 6, so that full, partial and oversized groups occur; five points, above the limit. Both sentinels and distances of both signs whose means are not integers. Columns of 2 from -3 on, so that bars are empty, shorter and longer. 48 644 states. |
| `crc32` | The table-driven sum equals the bit-serial one; every burst of 32 bits is detected. Passes. | Up to five bytes, one more than the register. The check is linear, so the patterns cover single bits, pairs and full bytes. 37 449 states. |
| `scan_session` | A session scans its period, accounts for every scan, stops the sensor, and ends. Passes. | Clock of seven ticks, periods 0, 2, 3, three scans: received, missed and received again in one session, and several sessions in a row. 127 869 states. |
| `program` | On Windows: streams usable when used, closed at the end, failures reported, relays poll. Passes. | Nothing to bound; 208 states. |
| `program_uart_open` | On Linux `open()` of a UART takes -1 for success, against "negative error code if open() failed". Violation. | the same |
| `stream_calls` | On Windows, in every order of the calls and with every failure of the operating system, `isOpen()` "returns true if the socket is ready to be used": a socket is connected and waits as the timeout set last says; a UART has the handle of its port. Conversely, a port that is held is one that `isOpen()` knows of, so that `close()` releases it, except one of which a setting has failed. Open ports are not opened again. Passes. | The two timeouts used, 0 and 10; no bound on the number of calls. 966 states. |
| `menu` | The listing of `testSPRM()` is accurate and ends; only the parameter the user has typed the ID of is set, or the one where a lost command has cut the listing off. Passes. | Parameters 1, 2 and 4: a listing of several lines, an end, and an ID behind the gap; the user types 0, known and unknown IDs, or no number. No bound on the number of commands. 144 398 states. |

### Fairness

`Exchange`: weak fairness of reading, of the timeout (`ReadFails \/ ReadEmpty`,
while a timeout is set) and of the sensor: `recv()` returns when a datagram is
queued or `SO_RCVTIMEO` has expired, the UART's `read()` after its own timeout, and
the sensor is a separate device. The caller of the
commands is not fair. `Relay`: the loop runs (weak fairness of `RelayStep`; where
`read()` waits no step is enabled, so no progress is assumed that the code does
not make), sensor and client read what arrives. `Uart`: what was sent arrives,
`read()` is called again (the relay loop and the menu do), its loop runs (an error
is never assumed to end it).
`ScanSession`: commands return, which `ExchangeEnds` shows with a timeout, and the
clock ticks. `Menu`: a command under way comes to
its end, again by `ExchangeEnds`. No run assumes that a command succeeds or the user presses a key.
`PollKey` may end the relay: the liveness properties allow `stopped`, and
`EveryCallAnswered` a lost datagram and damage that never ends, since a damaged
scan is requested again as often as one arrives.

### Deadlock

Deadlock is checked except where the system stops: `Exchange` and `Relay` stop at
their bounds (`MaxRequests`, `MaxCalls`) or with a lost datagram and a blocking
read, and the relay and `main()` end.

### Limits of the passing runs

* `exchange`, `relay`: answers come before the timeout (`LateAnswers = FALSE`) and
  once. Beyond that the statements are false, as `exchange_late` shows for the
  exchange. For the relay with `LateAnswers = TRUE` TLC finds `IndexInBounds`
  violated for averages at the limit: the count is not reset when an average is
  sent, and the answer to a request the client gave up is stored behind the last
  buffer.
* `relay`: scans fit into the buffer; with `ScansFit = FALSE` the truncated scan is
  rejected and requested again for ever, and `EveryCallAnswered` fails. Requests
  arrive as they were sent; with `DamagesRequests = TRUE` `AverageIsTheOneAsked`
  fails, because the relay does not check the checksum of a request.
* `exchange`: little-endian host. With `BigEndian = TRUE` `RefusalsReported` fails.
  The rambutan builds of the repository are for a big-endian processor. `menu` takes
  refusals as reported; where they are not, the listing does not end.
* `exchange`: that a timeout of the UART ends as `ERR_CRC` holds because the word
  before `mBuffer` is a part of a pointer to the virtual methods, which is not 0 in
  the 32-bit builds of the repository. With a word of 0 the empty frame passes and
  the frame received before is parsed again; `ReadEmptyPasses` is this case.
* `menu`: a listing also ends at a lost command and at an ID the sensor does not
  use; parameters behind it are missing from it. `ListAccurate` claims completeness
  for a listing that ended with a refusal, up to the refused ID.
* `averaging`: nine parameters, at most one echo and sums within `int32_t` (with
  distances whose sum does not fit, `AverageAmongHeard` fails). With
  the tenth parameter (SCAN_LINE) the number of points is written over it, with
  two echoes the number of groups counts echoes; `ReplyWellFormed` fails for both.
  All scans of one average have one layout. No statement about pulse widths under
  a point average.
* `scan_session`: the clock neither wraps nor is 0 at the start. With
  `ClockWraps = TRUE` `PeriodScanned` fails. The result of SCAN(1) is overwritten,
  so a session that never started may end with `ERR_SUCCESS`.
* `uart`: two frames in the port at once: the second is read and dropped
  (`disturbed` in the model).
* `stream_calls`: a port is opened only while it is not open. `open()` of an open
  Windows port puts `INVALID_HANDLE_VALUE` in the place of its handle and leaves
  `isOpen()` true: with `Reopens = TRUE` TLC finds `IsOpenAccurate` violated. When a
  setting of the port fails in `open()`, the port stays open while `isOpen()` is
  false, so `close()` does nothing, and the port is held until the process ends;
  `HeldPortKnown` does not speak of a port after that (`port = "stuck"`), and is
  violated otherwise. `setTimeout()` of an open socket closes it for good, and
  `isOpen()` then says so. `close()` of a file stream keeps its handle, and
  `isOpen()` stays true. On Linux the -1 of a failed `open()` of a UART counts as open
  (`program_uart_open`), and `read()` and `write()` do not ask `isOpen()`; what they
  do on a port that is not open is not modelled. `main()` opens each connection
  once, sets timeouts before, uses a UART only after `open()` returned success, and
  uses no file stream.

## 4. Proofs

All constants are arbitrary, within the named assumptions of the modules.

Every safety property of the passing runs is stated by a theorem. The lemmas about
the error numbers and about `Served` are in `ExchangeProofs`; `MenuProofs` repeats
the few it needs, as `AveragingProofs` repeats the three about recursion in
`CRC32Proofs`.

**ExchangeProofs.**
`ExchangeTypeCorrect` holds on every network. `ExchangeInvariant` assumes
`PromptNetwork` (no late and no repeated answers). `TypeOK` and the properties are
not inductive: that a successful GPRM returns the parameter's value follows only
if the datagram read answers the current request, which follows only if an idle
host has an empty socket. `ExchangeInv` says so: at most one datagram is in
flight, only while the host reads; a request in flight is the current one and
not served; an answer in flight is the one the sensor gave last, to this
request, and still true of the sensor's state (`Truthful`). One lemma
(`ServedTruthful`) states that what the sensor answers is true when it answers;
between serving and reading nothing changes the sensor, because a second request
cannot be under way. `ActualValueCorrect`, `ScanStateCorrect` and
`RefusalsAreReported` follow with the conjunction `ResultsTrue`, which carries
the truth of the last outcome from the return of a command to the next one, and
also assume a little-endian host. `ExchangeImplementsCall` is the refinement:
initial states map to initial states, each action to an action of `SensorCall` or
a stutter, under the same assumptions.

**RelayProofs.**
`RelayTypeCorrect` holds for every client and network. `RelayInvariant` assumes
`~LateAnswers` and `~DamagesRequests` and allows losses, damage, and blocking reads. The properties are
not inductive, since the average the client receives depends on every buffer
below the count. `RelayInv` says that an idle client has nothing in flight, that
at most one datagram is, and that while it is between relay and sensor the
averages, the request to repeat and all buffers below the count belong to the
current request (`AveragingFor`), the count being smaller than the average. The
proof has one lemma per action. `IndexCorrect` and `AverageCorrect` follow: no
answer is stored behind the last buffer, whatever the number of buffers and the
average asked for, and the average received is the one asked for.
`RelayImplementsAverageCall` is the refinement. It needs one invariant more,
`AnswersInv`: what is in flight was made for the current request and, if its
checksum is right, is of its kind or a refusal. Without it a client could get the
answer to a request before, which the averages alone do not tell.

**MenuProofs.**
`MenuTypeCorrect`, `ListIsAccurate` and `NothingIsMistyped` hold for every set of
parameters, values and inputs, without further assumptions. A line is accurate
only if the answer it is printed from is the sensor's answer to the ID of the
counter: `MenuInv` says that the call under way is that of the place the host is
at (`CallOfThisPlace`), that an answer to GPIN has the value of the parameter or
is a refusal because there is none (`ListingAnswered`), and that the counter is
the length of the list plus one until the user types another ID
(`StaleIDHarmless`). From the last follows that the ID left over from a complete
listing is of no parameter, so that setting it changes nothing. Lemmas per action
show that `MenuInv` is kept; four lemmas translate the steps of the instance
`Call` into steps of this module.

**ScanSessionProofs.**
`MissedScansAreCounted` is about the numbers between the first and the last scan
of a session; what is inductive is a statement about all of them: `CountInv` says
that the numbers up to `mScanNumber` are split between those received and those
reported as lost, none in both and, in the classes that print lost scans, none
missing, and that the scan just received is not older than the last one. The
lemma `MinIsTheLeast` (from the well-foundedness of the natural numbers)
connects this with the `Min` of the property. `PeriodIsScanned` assumes
`~ClockWraps`; `PeriodInv` says that during a session `elapsed` is the distance
of the clock from `mStartTime`, that the start time is not 0, which
`isTerminated()` would take for the end, and that the end of the period is below
`CLOCK_MAX`, so that the wrapping addition in `isTerminated()` does not wrap.
`ScannerIsStopped` and `ScanSessionTypeCorrect` need no strengthening; all but
`PeriodIsScanned` hold for a wrapping clock, too.

**StreamsProofs.**
*`StreamCalls`, any order of calls.* `StreamCallsTypeCorrect` and
`OpenSocketsAreReady`, the part of `IsOpenAccurate` about sockets, hold on both
platforms; the run is of Windows only. `IsOpenIsAccurate` assumes Windows and
`~Reopens`; `program_uart_open` shows that it is false on Linux, and section 3 what
reopening does. `IsOpenAccurate` is inductive together with the types of the
records (`ReadyInv`, `HeldInv`), by one lemma for each operation of `Streams`. What
has to be shown is that no failure leaves `mIsOpen` true with another handle:
`setTimeout()` opens again only what it has closed before, and `open()` of a port,
whose failures do not touch `mIsOpen`, is called only where it is false; there, as
long as no setting has failed, no port is held that `open()` could lose.

*`Program`, the order of `main()`.* The properties speak of one place of `main()`;
the invariant has to say at every place what is open. `OrderInv` says which streams
have been opened when `main()` is at a place, and that the status tells whether all
were; `StreamsInv` that a stream that was opened works with the timeout of the
mode, or has been closed on the way out, and that one that was not is not open.
`ProgramTypeCorrect`, `EverythingIsClosed` and `FailureIsReported` hold on both
platforms. `ConnectionsAreUsable` assumes `Platform = "Windows"` or modes without a
UART: run `program_uart_open` shows that it is false of a UART on Linux.
`RelayIsPolling` assumes Windows: timeout 0 makes a socket wait for ever on Linux.

**UartProofs.**
`FrameReturnedWhole` says something at the end of `read()` only. Its invariant
`LineInv` holds at every word: while nothing disturbs, either all is silent, or
the words of the last frame are, in this order and without a gap, those in the
buffer of `read()`, those in the port and those on the line (`InFlight`). `ReadInv`
relates the locals of `read()` to the words it has: without a header the length
is the largest one, with a header it is the one in it, fits into the buffer, and
its end has not come. The two depend on each other: that `read()` returns at the
last word and not before follows because the length it has taken from the second
word is that of the frame, and this because the words before it are not a
fragment. `WordsInv` gives the words their types. `FramesAreReturnedWhole` holds for
every size of the buffer below `INT32_MAX`, number of polls, timeout, set of
lengths and data words, among them those that look like a header.

**CRC32Proofs.**
`SumIsStandard` and `EveryBurstIsDetected` hold for messages of every length and
for every damage. Both are about recursive functions, and the induction theorems
of the library, which take the property as a parameter, cannot be used. Instead, a
function that follows the recursion exists because the set of the lengths for which
one does has no least number missing (`Recursion`), and a statement about its
values holds because there is no least counterexample (`LeastElement`, `UpTo`, from
the well-foundedness of the natural numbers).
For the first theorem: a step of the register is linear bit by bit
(`SerialLinear`), so that eight steps can be taken for the byte and the register
apart (`StepsLinear`, `StepsShift`); a table entry is eight steps
(`TableEntryIsSerial`), and so `add()` of a byte is (`AddByteIsSerial`).
For the second, that the sum differs at the end is not inductive: while the damage
goes on, later damage could undo the difference. `DifferenceInv` says why it
cannot: counted from the first damaged bit, the registers differ in a bit at least
32 places on, where no bit of a burst that short reaches. Without damage they do
not differ. `CRCInv` is this, the types and `ConformsToStandard`.

**AveragingProofs.**
`AveragingInv` says that what the relay holds between a request and its answer is
computed from the scans it kept: while it collects, the frames up to the count are
frames of the sensor in the layout asked for (`Collecting`); then the data are, by
phase, the last scan, its scan average, and the point average of that (`Computed`).
The rest is what the loops compute, by the recursion lemmas above. `GroupsAccount`
relates the loop over the distances to the mean of the groups of the properties,
which are stated by positions: after `i` distances, the groups sent and the one
open account for the first `i`, and the open one is not full. `LoopsAgree` says
that the lines `ScanPrint` prints are those of the distances the relay sends: its
group is that of the relay with lines in place of distances (`Printed`), after every
distance. The two decide differently what a line is, by the counter and by the
value; they agree because a mean is never a sentinel, even when the sum has
overflowed (`MeanIsDistance`), and a group without a distance holds one (`Shown`). `MeansSent` and `OpenGroup` add that
what was sent are the means, and that sum and counters are those of the open group.
`SumAmong` and `MeanAmong` say that a mean, rounded toward zero, lies among what it
is the mean of.

| Theorem | Says | Assumes |
|---|---|---|
| `ReplyIsWellFormed` | the fields of the frame sent account for its length, and this for its words | `OneEchoAsked` |
| `EveryGroupIsSent` | it has a point for every group, the last one included; beyond the limits it is refused | `OneEchoAsked` |
| `OneGraphIsDrawn` | `ScanPrint` and `Scan2Print` draw the same lines | `OneEchoAsked` |
| `AnswerIsTheMeans` | the client parses the means of the groups | `OneEchoAsked`, `SumsFit` |
| `AveragesAreAmongHeard` | an average lies among the distances heard | `OneEchoAsked`, `SumsFit` |

`OneEchoAsked` (nine parameters, one echo at most) is needed because the
relay takes word 12 for the number of points and counts echoes as points; section 3
names what fails without it. `SumsFit` says that the distances that are none of the
sentinels have a bound whose product with the size of a group, or with the number
of points where that is smaller, does not exceed `INT32_MAX`; without it a sum
wraps. The other three hold for sums that overflow, too: the two loops overflow alike.
`MCAveraging` satisfies both (bound 7, groups of at most six, 127 for `INT32_MAX`).
One to ten scans, any number of points, limits, layouts and distances are arbitrary
otherwise.

**Only model-checked**: liveness (`ExchangeEnds`, `EveryCallAnswered`,
`SensorDataTaken`, `FrameReceived`, `ReadReturns`, `SessionEnds`, `ListingEnds`),
since fairness and ENABLED are outside what is proved.

## 5. Plan

Done: the exchange over socket and UART and its abstraction, the relay with its
liveness over a lossy network and its abstraction, the contents and graphs of
averages, the menu of parameters, the UART, scan sessions, streams and `main()`,
the checksum; proofs of every safety property of the passing runs and of both
refinements.

*To extend*, where it pays: a bound for impatient clients (the count exceeds the
average by at most the number of requests given up), scans of different layouts
within one average, an average of more than one echo.
