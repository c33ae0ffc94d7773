# TLA+ models and proofs of translation-validator

The repository verifies that a Rust translation of a C++ function refines it, at the level of LLVM IR, with a
vendored snapshot of alive2. It comes as a *standalone* program and as a *full stack*: a Next.js frontend, a relay
server speaking HTTP to it, and a validator server that does the work in forked children. Most of what can go wrong
in it lies between these programs: descriptors and processes that are never given back, a connection that ends in the
middle, threads that wait for each other, files shared by concurrent children, a verdict read off a text.

This directory models that in TLA+, checks it with TLC on small instances, and proves most of it with TLAPS for
instances of any size. Source references are `file:line` in the repository; `PROJECT.json` maps every definition to
the lines it stands for, and lists the hazards, the runs, the mutants and the theorems.

Contents: [1 Inventory](#1-inventory) · [2 Modules](#2-modules-and-the-code-they-model) ·
[3 Runs](#3-runs-what-is-checked) · [4 Fairness](#4-fairness) · [5 Proofs](#5-proofs) ·
[6 Disagreements](#6-where-the-code-disagrees-with-its-documentation) · [7 Not modelled](#7-what-is-not-modelled) ·
[8 Plan](#8-plan) · [9 Running it](#9-running-it)

## 1 Inventory

### 1.1 How the parts interact

    browser: CodeEditorForm ──fetch──> Next.js routes ──fetch──> RelayServer :3001 (cpprest pool)
                                        /api/generate-ir            │  one TCP connection per request,
                                        /api/validate               │  8-digit length + command
                                                                    v
                                                         ValidatorServer :3002 (parent: accept, fork)
                                                                    │ fork
                                                                    v
                                                  child: read ─ dispatch ─ handler ─ send ─ exit
                                                         │             │           │
                                           /tmp/__validator_server__   │   log file (Printer::write_log)
                                             (shared by children)      v
                                                             Comparer ─> alive2
    terminal: standalone main() ─────────────────────────────> Comparer ─> alive2

### 1.2 Components

| component | state it keeps | operations | what makes it correct | status |
|---|---|---|---|---|
| validator server `src/ValidatorServer.cpp` | listening socket, descriptors of parent and children, children, one command and one response per child | accept and fork, read, dispatch, handle, respond, exit; limits set by `setrlimit` | a response is that of the child's own command; descriptors and processes are accounted for; queued connections are served | modelled |
| relay server `relay_server/RelayServer.cpp` | pool threads, one handler per HTTP request, one socket per command | extract, send, read, reply; catch and re-throw | one reply per request; a reply claims no more than the validator answered; the socket is closed | modelled |
| temporary files of the handlers `ValidatorServer.cpp:338-560` | files named by a hash of payload and clock | write, parse, compile, measure, read, unlink, early returns | a handler reads its own files; what it returns is within the limit; what stays behind is known | modelled |
| log file `src/Printer.h` | a mutex per process, a POSIX record lock on the file | `write_log` | one writer at a time, no lock outlives its holder, calls return | modelled |
| function comparison `src/Comparer.h`, `llvm_util/compare.cpp` | counters, output stream | select two functions, ask alive2, print and count | the pair compared is the one meant; a success is a proven one | modelled |
| verdict of the full stack `ValidatorServer.cpp`, `RelayServer.cpp` | the text of the answer | rewrite the comparer's text, search it for phrases | verdict, failure and error each mean what they say | modelled |
| standalone validator `src/standalone.cpp` | verifier counters, exit status | two options, one or two comparisons, summary | summary of the pair meant; agrees with the full stack | partly (choice of the IR files left) |
| frontend form `CodeEditorForm.tsx` | editors, loading flags, IR, result, modal, toast | submit with two awaits; edit, clear, close | one submit at a time; what is shown together belongs together; it is released | modelled |
| message framing (both servers) | a partly read length, a buffer | the loop over the digits, the loop over the message | a message is returned whole or not at all, refused only for its length, and delivered however it is cut | modelled |
| API routes `app/api/*/route.ts` | none | proxy to the relay | an answer, or an error that says why | modelled |
| widgets `Toast`, `CodeEditor`, `LLVMIRModal`, `CopyButton`, `ExampleSelector` | timers, the shared Monaco, a scroll position, the example chosen | effects of each rendering, timers, clicks | they agree with the form; no timer hits what it was not started for; every part of an output is under its heading | partly (tooltips left) |
| `scripts/src2ir.py` | files | walk, skip, compile | | not modelled |
| build scripts; alive2 snapshot | | | | not modelled |

### 1.3 What is hard here

* **Interleaving.** Children, parent, relay threads and the kernel's queues proceed independently; two children may
  share a file name; two threads of a process share a record lock without noticing.
* **Resources.** Nothing the parent opens for a connection is ever closed or waited for, so descriptors (1024) and
  processes run out after a number of *connections ever accepted*, not of concurrent ones. The relay's pool is used
  by handlers that block and by the continuations they block on.
* **Failure.** A child can die by a CPU or memory limit, a crash in alive2 or an uncaught exception; the server can
  die and be run again while its children still hold the listening socket; the relay can be killed inside a send.
* **Blocking.** A long command is sent in a blocking `send` that ends only when somebody reads, or when nobody is left
  who could; the parent holds every connection it accepted, whether or not its child is alive.
* **Endings.** A connection that ends early is, depending on the byte where it ends, an exception, an empty message,
  or an error that skips a `close`.
* **Staleness.** The size of a file is checked by its name, its text is read later off a stream opened earlier, and
  the text need not be as long as the file; a form
  awaits two services while the user changes what they were asked about. Every rendering runs the effects of the
  widgets again: timers are cleared and started, editors come and go on one Monaco that outlives them.
* **Text.** The verdict is a substring of a text that passes three programs, and the modal sorts that text, which
  alive2 prints for a terminal, by how its lines start.

`PROJECT.json` lists 40 such hazards at their lines, each with the properties that watch it or a note why none
does.

## 2 Modules and the code they model

| module | models | role |
|---|---|---|
| `Sockets` | connections as the kernel keeps them | used by both servers |
| `ValidatorServer` | parent, children, arbitrary clients | component, with its own specification `VSSpec` |
| `RelayServer` | handlers on the pool | component |
| `TranslationService` | both servers over the sockets | composition, `Spec` |
| `RequestService` | what the two promise a client | abstract specification, refined by `TranslationService` |
| `RequestFiles` | temporary files of concurrent handlers | component |
| `LogFile` | `write_log` of several processes and threads | component |
| `Framing` | the bytes of a message and the reader of both servers | component, below the two servers |
| `Form` | the form, its user, the ErrorBoundary around it | component |
| `Routes` | what the routes make of the relay's replies | operators, no state |
| `Frontend` | the page: the form through the routes, with its widgets | composition over `Form` and `Routes`, `FESpec` |
| `Comparer` | selection and what alive2's result becomes | operators, no state |
| `Verdict` | what each of the two programs tells of the same input | composition over `Comparer` |
| `Display` | what the modal shows of the text behind the verdict | operators over `Verdict` |
| `MC…` | instances for TLC, where an instance needs definitions of its own | |
| `…Proofs` | theorems | |

Definitions marked "mutant" in a comment are not part of any specification: each is the form a definition would take
with a plausible bug, and for every property of every passing run there is one that TLC finds to violate it. They
show that a property would notice.

### 2.1 `Sockets`

A request opens at most one connection, and the validator forks at most one child for it, so one name (a member of
`Requests`) stands for the request, its connection and its child. `held[p]` is the set of connections process `p`
has a descriptor of: neither program sets close-on-exec or closes what a fork duplicates, so who holds a copy decides
when the other side sees the end (`HungUp`). `backlog` and `listeners` are the listening socket: it lives as long
as any process holds it, and completes connections whether or not anybody accepts them. `toServer` and `toRelay` tell
what has been sent: nothing, part, or the whole command or response. `Long` are the requests whose command may not fit
the buffers of a connection: its `send` blocks with a part on its way (`toServer = "part"`) until a process has taken
of it (`"taken"`). A response is not divided like this:
the relay reads as soon as it has sent, so a child that sends is never blocked by it for good.

Commands are `VALIDATE` and `GENERATE`. A response is represented by what the relay tells apart in it:
`"correct"`, `"no function"` (the three complaints of `compare()`), `"incorrect"` (any other text of a validation),
`"irs"` and `"no irs"`.

### 2.2 `ValidatorServer`

| action | code |
|---|---|
| `AcceptAndFork` | `run` and `handle_connection`: accept, fork, child goes on, parent returns to accept, keeping the descriptor |
| `ForkFails` | a failed fork ends the program |
| `TakePart` | `read_until_length` reads what has come of a long command and makes room for the rest |
| `ReadCommand`, `RejectCommand` | `read_relay_message`, `read_until_length`: a command of more than 7 digits of length, or one that ends early, ends the child without an answer |
| `HandleCommand` | the dispatch and the two handlers, with any result they can return |
| `SendResponse` | the response is sent, the child exits |
| `ChildDies` | limits, crashes and exceptions, at any point, the send included (a malformed command is one of these) |
| `ServerKilled`, `StartServer` | the parent dies; it is run again and can only bind when no child holds the old socket |

A failed `accept` (no descriptor left) is logged and tried again: it changes nothing and has no action. Zombies count
as processes; they pass to init when the parent goes. `Client` is any client that connects, sends parts and closes at
will: the server is checked and proved against it and not only against the relay. `Large` are the requests whose
command takes 8 digits or more.

### 2.3 `RelayServer`

`handler[r]` follows a request through the continuations. A handler in `InHandler` occupies a thread; while its first
continuation connects, sends and reads (`InWork`) it occupies a second one, and every continuation needs a free thread
to start (`ThreadFree`). `Fault` is the catch block: reply with an error, re-throw past the second continuation into
`wait()`. `Finish` is the end of the handler, where the library answers 500 if it threw without a reply. `send`
blocks: `SendPart` fills the buffers with the beginning of a long command, `SendCommand` completes it once somebody
has read, and `SendFails` when the validator's side is closed. If nobody reads (the connection stays in the queue, or
its child gave the command up after 8 digits, or died, and the parent holds the connection) the handler stays in
`"sending"` for good, as others do in `"reading"`. `ReadNothing` and `ReadPart` are the ways a read can end: before or
inside the length the reader returns an empty message *successfully*; inside the message it throws past the `close`. A
read that fails with -1 before the length is complete behaves as `ReadNothing`. `RelayKilled` is a kill followed by a
new start.

The relay's log, the shape of JSON and the wording of errors are left out. pplx does not run a continuation inline on
the thread that waits. `SIGPIPE` is not reached: the peer's end closes only with the last copy.

### 2.4 `TranslationService` and `RequestService`

`TranslationService` is the interleaving of the two servers over the shared sockets. `RequestService` is the promise
to an HTTP client: every request posted gets at most one reply; the reply is an error, or claims a verification or a
pair of IRs that the handler of *that* request produced; a failed verification has an incorrect translation behind it
as long as the server cannot go down (`Reliable`). The refinement maps `posted` to the requests no longer absent,
`outcome` to the handler's `result`, and `reply` to the first of the replies.

### 2.5 `RequestFiles`

Requests run in children that share a directory. `name[c]` is the hash that is all that keeps their files apart; it is
a choice of the initial state, so that two may be equal (same payload in the same clock tick, or a collision).
`file[n][k][l]` says *whose* payload a file holds. Whether an IR is over the limit is said twice, of its file (`big`,
what `file_size` tells, 495) and of its text (`long`, the string that is read off the stream, 530): the two are
independent, as the second check has it. An opened stream stands for the content at the time of opening.
What a failed or timed-out compiler leaves of its output is either. Actions follow the two handlers line by line,
with the early returns that skip the cleanup; `Die` is the death of the child at any step. The directory is assumed
to exist.

### 2.6 `LogFile`

`Enter` (mutex, open), `Lock`/`LockFails` (`fcntl(F_SETLKW)`), `Write`, `Close` (destructor of the file guard),
`Leave` (destructor of the lock guard). A record lock belongs to the process: a second thread would be granted it at
once, and any `close` of the file drops it. The relay is one process of several threads; the validator's parent and
children are processes of one. `Kill` takes a process at any point.

### 2.7 `Form`

One action per event: `Submit`, the arrival of either answer (`Generated`, `Validated`: an error, a body that is too
long, or a result), and what the user can do at any time, also behind the modal, by keyboard: `Edit`, `ClearAll`,
`CloseModal`, `CloseToast` (by button or timer). An exception while rendering takes the form away (`RenderFails`) with
requests under way: their handlers go on (`Orphaned`), send what is left to send and set nothing; "Try again" mounts a
new form (`TryAgain`). The buttons that close modal and toast have no `type`, so each is a submit button too; React
has taken them out of the form by the time the browser would submit, so they submit nothing. React flushes state set
by a discrete event before the next event, so a handler sees the flags as they are. An answer of a route is an error
or a result here; which answers there are is in `Routes`.

### 2.8 `Comparer` and `Verdict`

A module is a sequence of functions, each with what the code looks at: has it a body, which of `_Z` and `_ZN` its
name starts with, which names it contains. `Selection` is `compare()` up to the call of alive2. alive2 is external:
it returns any status, perhaps with the warning that the source is always undefined, or throws; asked the same
question again it finds the same. Its bidirectional mode is never on in this repository.

`Verdict` runs both programs on the same input. The full stack: the form sends `EMPTY` for a name not given, which
the server drops *with the other name*; the handler makes a text; the relay looks for three error phrases and then for
the sentence of success. The standalone program: one name alone is used, the other matches anything; a source that is
always undefined leads to a second comparison with the modules switched, made without the names; a summary is printed
and the counters decide the exit status, with which an unsound translation, or a name not found, is a zero.

### 2.9 `Framing`

One stream of bytes, the digits, a blank and the message, comes in in pieces (`Arrive`), and may be closed or reset
anywhere (`End`). The reader is the code of both servers (`read_relay_message`, `read_validator_message`), which
differ only in the number of digits at which they give up (`Limit`, 8 and 9). `n` is a `size_t`: a `read` that
returns -1 adds 2^64 - 1 to it, so before the first byte of a message the loop ends as if all had been read
(`ReadError`, `% Word`), and later it steps back by one byte. The buffer is then what `resize` made of it: zeros. A
reset there takes a sender that dies with input unread; neither server leaves anything unread at that point, so
between the two this outcome does not arise, and the servers' models do not have it. `Foreign` are streams of
something else on port 3002. Numerals are given as a constant, `std::to_string`.

### 2.10 `Frontend` and `Routes`

`Frontend` adds to each step of `Form` what it makes the widgets do (`Render`): the toast's effect has a new `onClose`
at each rendering, so its timer is cleared and started (`ToastEffect`); the two IR editors are there when the modal is
open with IR, register the language unless it is known, and set the theme all editors share, which a code editor
that mounts takes back (`EditorEffect`; `@monaco-editor/react` is external: an editor is created with its theme, then
`onMount` is called); the modal adds its scroll listener when it is mounted, closed, without a container
(`ScrollEffect`); the copy button goes with the output (`CopyEffect`). Beside that the widgets act by themselves:
`Tick` and `TimerFires` for the toast, `Scroll`, `Copy`, `Copied`, `CopyTimerFires`, `SelectExample`, `TypeName`.
Time passes for the toast only in ticks, and nothing forces a tick before another event.

`Routes` is a table: each route makes an answer of each way its `fetch` can end, and the form a message of each
answer. `validate` answers an exception in the shape of a result, without a field `error`, so the form throws
`new Error(undefined)`: the failure has no word (`reason = "empty"`, `SilentOnlyAfterIR`).

What the model shows of the page as it is: typing in a name field starts the timer of the toast anew, so a toast
stays while somebody types; after "Clear All" the open modal says "Generating IR..." though nothing is generated,
and may show a verdict beside it; "Verification Failed" is also the heading of every error; choosing the example
shown again does nothing; the comments about a saved scroll position (`LLVMIRModal.tsx:628, 641`) are not what
happens, see section 6.

### 2.11 `Display`

`Lines` are the lines alive2 prints for each outcome, each represented by how it starts, the part of the text it is
of and the phrases in it that the modal looks for. `Sorted` is the loop over the lines, `formatVerifierOutput` where
it ends, `ValidationOutput` the sections that are shown, `Line` what is shown of a line. `IsSuccess` is how the page
reads the verdict off the text; the relay has read it before, with a search of its own. What comes out beside the
three properties: a message of an error stands in no section at all, although the toast says to check the results;
the reason of a failure to prove stands under the Rust program; `non-local` is explained as `local` and `undefined`
as `defined`; a global is shown as `Function @name`; the state of a Rust program that does nothing before undefined
behaviour is a blank line.

## 3 Runs: what is checked

All bounds are constants of the `.cfg` files. `CHECK_DEADLOCK FALSE` is set everywhere because each system may stop:
requests, calls and submits are bounded, and hanging is a behaviour of this code that the properties speak about.

| run | instance | shows |
|---|---|---|
| `server_safety` | 3 clients, queue of 2, 3 descriptors, 2 processes, one command that fills the buffers and one that is too long, children and server may die | `LeakAccount`: the parent holds exactly the connections of all children ever forked; `DescriptorsInherited`: a child is born with exactly its own connection and those of all its elders, dead or alive, and keeps exactly these; `ListenersAlive`: the listening socket outlives the parent; `AnswerFitsCommand`; `HangUpOnlyWithServer`: a client never learns of a child's death while the parent runs |
| `service_safety` | 2 requests, queue of 1, 2 descriptors, 1 process, 3 threads, both commands fill the buffers and one is too long, all faults | `OneReply`, `ClaimsOnlyAnswers`, `GivesUpOnlyAfterServer` (a send or a read ends without an answer only when the server is down), the refinement `ImplementsService`, and `RepliedOrHangs`: a request is replied to, dies with the relay, or hangs in one of the listed ways and no other |
| `service_reliable` | 3 requests, 3 descriptors, 6 threads, children may die, two commands fill the buffers, one of them is too long | with a server that stays up, `RelaysResponse`, and `HangsAlone`: with room for all, a dead child or a refused command leaves its own request without a reply and no other |
| `framing` | numerals of base 2, limit of 4 digits, words of 32, messages of length 0 to 9, two foreign streams, any segmentation | `NeverCut`: never the beginning of a message; `RefusesLong`: refused exactly for the digits; `Delivered`: what has come in is returned as it was sent |
| `log_file` | a process with 2 threads, one with 1 that may be killed, 3 calls per thread | `Exclusive`, `WriterHoldsLock`, `CallsReturn` |
| `request_files` | 2 requests, 2 hashes, equal or not | `ReadsOwnFiles`, `LeftBehind`, `IRsFit`: IRs that are returned are within the limit as texts, whatever was measured and whoever replaced the file; `LeftForGood` |
| `form` | `FESpec`: 3 submits, short and long texts, a toast of 2 ticks, 1 example, 2 copies | `SingleFlight`, `BusyShown`, `VerdictFitsIR`, `FormReleased` of the form; `PageAgrees`: modal, button and toast tell the same; `SilentOnlyAfterIR`; `IRReadable`; `CopiedFits`; `ToastStays` |
| `verdict` | all pairs of modules of at most 2 functions of 4 kinds, one name | `VerdictTrue`, `ErrorsExplained`, `VerdictsAgree`, `SecondLook`; of what the modal shows, `PartsUnderHeadings`, `BannerFits` (it takes a text for a success exactly if the relay did) and `LineFaithful` |
| `server_no_fds` | violation | `QueueServed`, see section 6 |
| `relay_starved` | violation | `EveryRequestReplied`, see section 6 |
| `service_socket_leaks` | violation | `SocketsClosed`, see section 6 |
| `service_lost_answer` | violation | `RelaysResponse`, see section 6 |

Why the bounds are enough:

* *Servers.* Every limit (descriptors, processes, queue, threads, sockets) is set at or below the number of requests,
  so each is hit, and by different requests. Two children suffice for an inherited descriptor to outlive its owner,
  three for the order among them and for a restart between. The safety properties are proved for any bounds.
* *`service_reliable`* has two threads for each request, the least number with which the pool cannot starve, and
  descriptors and processes for all: so whoever hangs does so for a fault of its own.
* *`framing`.* The limit is reached with the fourth digit, by lengths 8 and 9; shorter lengths of one to three digits
  are below it. Words of 32 leave the counter room for every length and let -1 wrap. Base, limit and word are
  parameters of the proof.
* *`log_file`.* Two threads of a process and one of another are the two ways to contend. Both orders of locks arise;
  three calls per thread let each meet the others' locks anew.
* *`request_files`.* Two handlers are enough for one to read, replace or remove another's file; hashes equal or not
  are both initial states. Two hashes let an unshared request run beside.
* *`form`.* Three submits: one that leaves a result, one under way, one more that tries to start. A toast of 2 ticks
  has a time before, at and after its middle; two copies can be under way, shown, or one of each.
* *`verdict`.* Two functions make "several"; the four kinds are a declaration, a function with the name, one without
  it, and one of a C++ pattern only. The outputs are all alive2 can print for the outcomes, each part present or not.

Type invariants are not repeated in the runs: they are proved.

Symmetry is used only in `request_files`, whose properties have no liveness; elsewhere the requests differ (`Long`,
`Large`) or the properties do not allow it.

## 4 Fairness

* **Validator** (`VSFairness`, `Fairness`): weak fairness of accepting and of each child's own steps. The kernel
  schedules runnable processes, and a handler ends: `setrlimit` bounds the CPU time of a child and alive2 has an SMT
  timeout, after which there is an answer or, as `ChildDies`, none.
* **Relay**: weak fairness of every step of a handler that can run. The pool runs whatever continuation is ready; a
  blocking `send`, `read` or `connect` is a disabled step. No fairness chooses among requests that compete for a thread
  beyond that.
* **Log file**: weak fairness of a thread that can go on. `fcntl` is not expected to fail. Calls are bounded, so a
  waiter is passed over finitely often; without that bound a POSIX lock would need strong fairness, which the kernel
  does not promise.
* **Form and page** (`FEFairness`): an answer to a fetch arrives, if as an error: the routes forward the request with node's `fetch`, which
  gives up after its default timeout. The routes set none of their own, so this rests on the runtime.
* **None** for a client that posts, a user, a fault, a kill or a restart: nothing in the code makes them happen.

## 5 Proofs

Eight modules hold the proofs, for every value of the constants, under the `ASSUME`s the component modules state of
their constants (finitely many requests, limits that are natural numbers, names that are not reserved, …). TLC
evaluates these in the runs. Those of `Framing` about numerals say what `std::to_string` prints: digits below the base,
the *i*-th of which is that of the number, as many as the number needs, and the powers of the base multiply, which is
arithmetic the prover does not do.

| module | inductive invariant, and why it is needed | theorems |
|---|---|---|
| `ValidatorServerProofs` | `Accounts` and `Answers`. Who holds a descriptor follows from who was forked when; for that the queue must hold only fresh connections (`QueueFresh`) and the dead nothing (`DeadHoldNothing`). What a child inherits follows from `Accounts` in the step of its fork (`Inherits`). An answer is that of its command because the result fits it from the moment it exists (`AnswerReady`). Proved against any step of any client (`AnyStep`), so the relay's proof reuses it. | `ServerTypeCorrect`, `LeakAccountHolds`, `DescriptorsInheritedHolds`, `ListenersAliveHolds`, `AnswerFitsCommandHolds`, `NothingReclaimedHolds`, `HangUpOnlyWithServerHolds`, `AcceptedWithinLimitsHolds`, `FullForGoodHolds` |
| `TranslationServiceProofs` | the above and `Progress` (where a handler stands fixes what it opened and sent), `Replying` (and what it replied, `RepliedRight`), `Claiming` (a response claims what the answer says), `StaysUp` (no fork fails and nobody hangs up if the server is safe) | `TypeCorrect`, `OneReplyHolds`, `ClaimsOnlyAnswersHolds`, `RelaysResponseHolds`, `LeaksOnlyCutAnswersHolds`, `GivesUpOnlyAfterServerHolds`, `StarvedForGoodHolds`, `HangsForGoodHolds`, `RequestsGoOnHolds`, and the refinement `Implements` |
| `LogFileProofs` | a thread inside holds its process's mutex (`InsideHoldsMutex`): without it a second thread could close the file under a writer | `TypeCorrect`, `ExclusiveHolds`, `WriterHoldsLockHolds`, `HoldersAliveHolds`, `NoCircleHolds`, `CallsGoOnHolds` |
| `RequestFilesProofs` | the owner of a file has its hash and was started (`OwnersStarted`), so under an unshared hash only its own request put anything, and files, outcome and streams follow from where its handler stands (`Private`). `IRsFit` is inductive by itself, whoever shares the hash (`ReadFits`): what was read and not refused fits | `TypeCorrect`, `ReadsOwnFilesHolds`, `LeftBehindHolds`, `IRsFitHolds`, `LeftForGoodHolds` |
| `FramingProofs` | `Inv`: what has been taken and the counter fix what is in the buffer; the counter wraps only from zero. `FrameInv`, for a message that was sent: the number read so far is that of the leading digits (`Standing`), so the length is that of the message when the blank is reached, and never enough digits to be refused unless it has them; whatever is lost was lost before the frame had come in (`Lost`) | `TypeCorrect`, `NeverCutHolds`; `WaitsForMoreHolds`, `ReadsEndHolds`; from `AlwaysFrame`, `RefusesLongHolds`, `UndamagedHolds` |
| `FrontendProofs` | first the form by itself: the flags and the toast follow from the one submit under way (`UnderWay`). Then the page: each of its steps is one of the form or leaves it alone (`StepIsForm`), so what was proved of the form carries over; a step of the form is *calm* (`Calm`), and a rendering after a calm step fits the widgets to the form again (`RenderInv`): timers are no older than the text, outputs under copy are those shown, the listener is never there | `TypeCorrect`, `SingleFlightHolds`, `BusyShownHolds`, `VerdictFitsIRHolds`, `ToastFitsHolds`, `BusyForOneHolds`; `PageIsForm`, `FETypeCorrect`, `PageFormSafety`, `PageBusyForOne`, `SilentOnlyAfterIRHolds`, `IRReadableHolds`, `PageAgreesHolds`, `CopiedFitsHolds`, `ToastStaysHolds` |
| `VerdictProofs` | the verifier never contradicts itself (`Consistent`), and what is told or counted follows from the selection and from what was found out (`RequestFits`, `MainFits`). A selection finds a pair exactly if one answers the question (`SelectionFits`), for modules of any length; that a first function exists is the least-number principle (`FirstIn`), from the well-founded inclusion of initial segments. | `TypeCorrect`, `VerdictTrueHolds`, `ErrorsExplainedHolds`, `VerdictsAgreeHolds`, `SecondLookHolds` |
| `DisplayProofs` | the invariant of `VerdictProofs`; the rest is about operators, see 5.1 | `PartsUnderHeadingsHolds`, `BannerFitsHolds`, `LineFaithfulHolds` |

The type theorems are stepping stones and are not among those `PROJECT.json` lists. Each module but the last also has
its `AlwaysInv` (`AlwaysAccounts` for the validator server, `AlwaysPageInv` for the
page, `AlwaysInv` and `AlwaysFrame` for the framing). Every invariant and action property of the passing runs is
proved, and so is the refinement; `RelaysResponse` on the condition `ServerSafe` (no fault takes the server down, and
there are processes enough for every request), without which `service_lost_answer` violates it. Some theorems state
what no run does, because another property of the run implies it or the proof is enough: the types,
`NothingReclaimed`, `HoldersAlive`, `ToastFits`, `LeaksOnlyCutAnswers` (the one case in which `SocketsClosed` fails,
which `service_socket_leaks` shows), and those of 5.2.

### 5.1 Loops

Three theorems are about loops of the code, over the functions of a module (`Comparer`), the digits of a length
(`Framing`) and the lines of a text (`Display`).

* *The search for a function* ends at the first that fits. That there is a first one is the least-number principle
  (`FirstIn` in `VerdictProofs`), which follows from the well-founded inclusion of initial segments.
* *The reader* is a loop whose rounds are steps of the model, so its invariant is one of the specification. A round
  multiplies and adds; that this makes the number of the leading digits out of that of one digit less is
  `NextDigit`, from what a numeral is and the division of a quotient (`Quotient`).
* *The loop of `formatVerifierOutput`* is a recursive function, `Sorted`. It exists for a text of any length
  (`LoopExists`): by `FirstIn` there would otherwise be a least length without one, and one more state makes one for
  it. With that, `Leads(from, lines, to)` says that the lines lead from one state of the loop to another wherever in a
  text they come, and composes with concatenation. A `Place` is what has to be known between two blocks of a text: the
  current section, whether the warning is on, which sections are still empty and in which there is something to see.
  `Takes(p, lines, q)` says that the lines take the loop from place `p` to place `q` and every line to the heading it
  belongs under (`Fits`). Each block alive2 prints — programs, warning, verdict, reason, inputs, state of either
  program with or without steps and memory, values, time-out — has its lemma, and each text is put together from the
  blocks (`LinesFit`), for all of the texts of an outcome at once.

### 5.2 Towards liveness, and why it fails

That something happens under fairness cannot be proved here, but what the argument needs besides fairness can: that
nobody who should go on is stuck, and that every step goes on. And where a promise fails, that it fails for good, with
any constants, is a safety property too.

* *The log* (`CallsReturn`): the two locks are never waited for in a circle, so a call that cannot go on waits for one
  that can, or for one that waits for one that can (`NoCircle`); and each step of a call brings it nearer to its return
  (`CallsGoOn`).
* *The readers* (`Delivered`): a reader blocks only on an open connection from which it took everything, and on none
  that brought a whole message (`WaitsForMore`); a call of `read` takes of a quantity that nothing adds to (`ReadsEnd`);
  and what comes out of a message that has come in is that message (`Undamaged`).
* *The form* (`FormReleased`): while it is busy there is a submit under way (`BusyShown`), it stays the same one until
  the form is free, and each answer leaves one less to wait for (`BusyForOne`).
* *The relay* (`RepliedOrHangs`): whatever happens to a request brings it nearer to its end (`RequestsGoOn`). The ways
  to hang are final: a request that waits for an answer nobody will give waits as long as the relay and the parent that
  has its connection run (`HangsForGood`), and once every thread of the pool waits for a
  continuation, no handler that waits goes on until the relay is killed (`StarvedForGood`, behind `relay_starved`).
* *The validator's queue* (`QueueServed`): a run of the parent accepts no more connections than it has descriptors and
  children (`AcceptedWithinLimits`), and at the limit of descriptors it accepts nobody any more (`FullForGood`, behind
  `server_no_fds`).

TLC found each of these to hold on small instances before the proof; they are in no run's list, since the theorems
say more.

**Only model-checked**, on the bounds of section 3: the liveness properties `RepliedOrHangs`, `HangsAlone`,
`CallsReturn`, `FormReleased`, `Delivered`, and all the violations. Liveness under
fairness and `ENABLED` are out of the prover's reach here. Induction is available only in the form above: the library's
theorems take an operator as a parameter, which none of the provers can instantiate. The one `RECURSIVE`
operator (`Digits` in `MCFraming`) gives the runs their numerals and is used by nothing that is proved.

**Taken as given**, by the models and so by the proofs: the kernel's semantics of descriptors, queues and record
locks as `Sockets` and `LogFile` state it; how cpprest answers a handler that threw; alive2 answering the same
question alike.

## 6 Where the code disagrees with its documentation

Each is a run that must find a violation, with the counterexample as its record.

1. **Queued connections stay queued** (`server_no_fds`). `ValidatorServer.h:19` says the "parent process will return
   to accept new connection". The parent never closes the descriptor it handed to a child
   (`ValidatorServer.cpp:135-143`), so after as many connections as it may have descriptors every accept fails, for
   good, with all children long dead.
2. **Requests block each other** (`relay_starved`). `README.md:68` says requests "do not interfere with/block each
   other". A handler blocks its thread on continuations that need another thread of the pool: as many requests as
   threads, and none is ever replied to, without any fault.
3. **A socket stays open** (`service_socket_leaks`). `RelayServer.cpp:256` says `send_to_validator` will "create a
   temporary TCP socket and then close it". When the connection ends inside the message of an answer,
   `read_until_length` throws (187) past each `close` (276, 281), and the socket stays open until the relay ends.
   `LeaksOnlyCutAnswersHolds` proves that this is the only case.
4. **No answer becomes a verdict** (`service_lost_answer`). `RelayServer.cpp:35` says the relay relays the response of
   the validator. A connection that ends before the length counts as an empty response, and is reported as a
   validation that did not succeed.

Smaller things the models state as they are: handlers return without the cleanup their comments announce
(`LeftBehind`; comments at `ValidatorServer.cpp:404, 548`); the scroll position of the modal is neither saved nor
restored, as the comments at `LLVMIRModal.tsx:628, 641` have it, because the effect that adds the listener runs once,
when the modal is closed: each new result throws the reader back to the top (`ScrollEffect`); a request whose child
died keeps its threads of the pool for good (`HangsForGood`), so `HangsAlone` needs room for all; the label
"Validating Translation..." of the submit button is never shown (`BusyShown`); the message "connection closed by
client" needs a server that is down (`GivesUpOnlyAfterServer`); the standalone program announces a second comparison
and may compare nothing (`SecondLook`); the full stack never looks for the warning that a source is always undefined
(`VerdictsAgree`).

## 7 What is not modelled

* **Separators and formatting** of commands, JSON, logs, console output. A command is one value: that a payload may
  contain the text that separates its parts is a hazard on the list, without a property.
* **alive2, LLVM, the compilers, cpprest, React, Monaco, the kernel**: external. Only what the code here relies on is
  stated. The output of alive2 in `Display` is what its code prints, not what it proves.
* **Tooltips**: a hover with a timer of 100 ms that nothing else sees. `CollapsibleSection` is used by nothing. The
  copy buttons in the IR editors are the component modelled for the output.
* **The build of the page**: `next.config.ts` asks for a static export (`output: 'export'`), which has no place for
  routes that answer POST; the models are of the page and its routes as they run in development.
* **`src2ir.py`, the choice of the IR files, build scripts, slides**: sequential, or no state worth a model.
* **Signals**: the relay's handler for `SIGINT` is never installed; a shutdown is a kill.

## 8 Plan

Done, the most important behaviour first: the validator server, the relay server and their composition with the
abstract service; the log; the files of the handlers; the form; the comparison and the verdicts; the framing of the
messages; the page with its routes and widgets; what the modal shows; proofs for each.

What is left, in this order:

1. The outcomes of a read in `ValidatorServer` and `RelayServer` derived from `Framing` by a refinement, and no longer
   by reading.
2. `Commands`: separators inside payloads, positions found by `find`, and what each side takes out of them.
3. The choice of the IR files with its fallback, into the standalone part of `Verdict`; lengths of the options.
4. The output buffer a fork duplicates; the relay's shutdown.

## 9 Running it

In this directory, with TLC and TLAPS 1.4.5 (backends Z3, Zenon, LS4) and the community modules at hand:

    tlc -workers 2 -config server_safety.cfg ValidatorServer.tla        # any run of PROJECT.json
    tlapm TranslationServiceProofs.tla                                  # any proof module

The largest runs, `request_files` and `server_safety`, have about a million distinct states each, `form` 740 000,
`service_reliable` 320 000; the others stay below 170 000. Each proof module takes minutes at most.
