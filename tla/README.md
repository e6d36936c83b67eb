# A verification of cli-warden

cli-warden (`src/`) is a daemon that runs commands for clients that may not run them
themselves. A client asks, over gRPC with mutual TLS, for a command by its id; the daemon
looks the id up in a registry, asks a policy, possibly asks a human through an external
`allow_hook`, spawns the command, feeds it the client's stdin and streams its output back,
with secrets redacted and with bounded memory.

This directory holds TLA+ models of the parts of that program where order, failure and
waiting matter, model-checked with TLC on small instances, and theorems about them that the
TLA+ proof system (TLAPS) checks for every value of the constants. Line numbers are those
of the files under `src/src/` (`server.rs:669` is `src/src/server.rs`, line 669) and of
`src/README.md` and `src/plan.md`.

## 1. Inventory

| Component | Where | State | Operations | Talks to | Modelled by |
|---|---|---|---|---|---|
| packet queue with byte budget | `stream_queue.rs` | channel of 128 items, semaphore of 128 KiB | `send_metered`, `send_unbounded`, `into_stream`, dropping an item | pumps, handler, transport; the client's stdin | `StreamQueue`, `StreamSenders`, `RoundTrip` |
| `ExecuteStream` handler | `server.rs:345-790` | inbound messages, child, its stdin, pump handles | first message, gate, spawn, the `select!` loop, clean-up, `send_done`, audit | all of the others | `ExecuteStream` |
| output pumps | `server.rs:865-1036` | raw bytes, pending text, hold-back deadline | read, decode UTF-8, redact, hold back, send | child's pipes, queue, handler (JoinHandle) | `ExecuteStream` |
| gate | `server.rs:792-850` | none | `apply_gate` | policy, hook | `Gate` |
| policy engine | `policy.rs`, `config.rs` | the compiled rules, immutable | `from_config`, `evaluate` | gate, policy tools | `Policy` |
| policy tools | `policy_tool.rs` | none | `lint`, `test`, `explain` | policy engine | `Policy` (`explain`) |
| allow hook | `hook.rs` | one child process and a reader task per question | `run_allow_hook` | gate, the hook executable | `AllowHook` |
| unary `Execute` | `server.rs:138-338` | one child per call | `execute` | gate, hook, redactor | `ExecuteUnary` |
| redactor | `redaction.rs` | the secrets, immutable | `redact_text`, `trailing_secret_prefix_len`, and their use by the pumps | pumps, `Execute` | `Redaction` |
| client | `client.rs` | request queue, stdin task | `execute_stream`, `run_exec`, `run_shim`, `install_shims` | daemon | `RoundTrip`, but for `install_shims` |
| setup and certificates | `setup.rs` | files of a PKI directory | `setup`, `emit_client` | file system | `Setup` |
| `ListCommands`, start-up, arguments, protocol | `server.rs:37-136`, `main.rs`, `proto/` | none that changes | | | no: straight-line I/O, or generated |

**How they interact.** A call of `ExecuteStream` is a handler task and, once the command is
spawned, two pump tasks, which share the packet queue and are otherwise connected only by
their JoinHandles. The handler waits in a `select!` for the child, for either pump and for
the client's next message; while it is in `stdin.write_all` (line 669) or in `send_done` it
waits for nothing else. Before that it may be inside `run_allow_hook` for up to half an
hour. The transport takes events from the queue when the client reads, and drops the queue
when the client goes away, which the handler and the pumps notice only by failing sends.
The client has the same queue once more for what it sends; its main task queues the start
message (and, for `client exec`, all of stdin) before it reads the first event, and the shim
has a task of its own that forwards stdin until the outcome arrives.

A call of `Execute` is one task. It asks the gate (and the hook), writes all of stdin, reads
all of the output, and answers with one message.

**What is hard.** Child, two pumps, client and transport act at the same time; the end of
the child, the end of its output and the end of its descendants are three different
moments; a failure in one place has to be cleaned up in the others, asynchronously
(`JoinHandle::abort`); all sends can block on a slow client; all writes can block on a
command or hook that does not read; the policy is evaluated over rules in file order but
must not depend on it; what a read cuts has to be put together again before secrets can be
seen in it. There is nothing persistent in the daemon, so crashes of the daemon itself are
not a subject; `setup` and `emit-client` are the places where a run that breaks off leaves
files half-written. `PROJECT.json` lists every hazard at its line with the property that
watches it.

**What makes each part correct.**

* Queue: no permit is lost or doubled; a sender's items stay in order; no send waits for
  ever while somebody reads.
* Handler and pumps: a command runs only if it was approved; `executed` means that the
  caller gets all of the output, first; text only; no command is left behind; the audit log
  says what the client was told; the call ends once the command has ended.
* Policy: the most specific rules decide, in any order; a deny entry holds unless something
  more specific speaks; what loads does not fail later (see the findings); the tools
  promise what the daemon does.
* Hook: fail closed; no hook process is left behind; the answer comes in time.
* Unary `Execute`: a command runs only if it was approved; `executed` carries everything;
  which answers leave a command behind; the call is answered when nobody is left to wait for.
* Redactor: however the reads cut it, the output is redacted as if it were whole; nothing is
  held back that cannot become a secret, and nothing for long but by a slow client.
* Client: exit code 0 means that all went well and was printed; the client reports what the
  daemon decided; stdin does not end early; the call comes back.
* Setup: a setup that ends well mends what broken ones left; clients get certificates the
  daemon accepts; entered secrets survive.

## 2. Modules

```
StreamQueue <- StreamSenders <- MCStreamSenders        (the queue by itself)
     ^  ^----- StreamSendersProofs, StreamQueueProofs
     |
ExecuteStream ----> Session   (INSTANCE: the abstract specification it implements)
     |  ^  ^----- MCExecuteStream
     |  |
     |  +--- RoundTrip <- MCRoundTrip, RoundTripProofs   (INSTANCE of StreamQueue for the client)
     v
   Gate <---- Policy <- MCPolicy, PolicyProofs
     ^
ExecuteUnary ----> AllowHook (INSTANCE)       ExecuteUnary <- MCExecuteUnary
     ^                 ^
ExecuteUnaryProofs -> AllowHookProofs (INSTANCE)

Redaction <- MCRedaction, RedactionProofs
Setup <- MCSetup, SetupProofs
```

(`A <- B`: B extends A. `A ----> B`: A instantiates B.)

**StreamQueue** has the state of one tokio channel and one semaphore and, as operators
without a next-state relation of their own, the steps of `send_metered` (join the waiters
of the budget; be granted permits; be granted a slot), of `send_unbounded`, of the
receiver, of dropping it, and of aborting a task inside a send. Permits have identities, so
that "lost" and "owned twice" are statements about sets. `StreamSenders` puts them under
the use the callers make of them: tasks that send one item after another, stop at the first
error, and may be aborted.

**ExecuteStream** conjoins these operators with the tasks of one call. `hpc` is the
`.await` the handler is suspended in (`recv`, `hook`, `select`, `write`, `kill`, `join`,
`done`, `end`), `pump[s]` that of the pump of stream `s`; `task` are the handles the handler still
has (`stdout_task`, `stderr_task`), `blame` which pump's failure it is cleaning up after.
Output is counted in packets, a packet being the bytes that will be one event:
`wrote >= taken >= flushed >= sent` say how many were written to the pipe, read by the pump,
let go by the UTF-8 decoder and the redactor, and sent. `bad[s]` is the first packet that
is not valid UTF-8. A pump may hold back any tail of what it has, which covers incomplete
characters and every possible secret; the deadline (`HoldExpires`) lets any part of it go.
The client, the transport, the command and a descendant of it that shares its pipes are
external: they do at any time whatever they can do.

**Session** is what a caller may rely on, without tasks, queues, pipes or timers; a call is
refused or runs, output is told in order, `executed` comes last. `ExecuteStream` implements
it under `phase <- Phase`, `made <- wrote`, `count <- sent`, `told <- accepted`,
`result <- verdict`, where `accepted` is the history of what the queue accepted. `Phase` is
`open` until the command is spawned or an outcome is decided on, then `running`, and
`refused`, `executed` or `failed` once there is a `verdict`.

**Gate** is `apply_gate` as a function of what it looks at. `ExecuteStream` takes the
policy's effect as an input from a table of start messages; `Policy` composes the gate with
the engine.

**Policy** is `from_config` in one step (`FromConfig`; it has no awaits and returns at the
first error) and `evaluate` with one step per turn of its loop (`Consider`). Rules are
records with the fields of `RawRule`, tokens are members of a set; which words a glob or a
regular expression matches is a table, without an entry for a token that does not compile.
Of policy_tool.rs it has the result that `explain` prints.

**AllowHook** is `run_allow_hook` with one step per `.await` (`pc`), its reader task
(`reader`, `buf`), the hook, its pipes and a descendant. The output is a sequence of
pieces: a whole response, one half of one, or junk. Each chunk of the request and each
piece of the output takes a place in a pipe of `PipeCap`. The code does not look at the
results of `kill` and `wait` once it has given up on a hook (hook.rs:54-55, 76-77); a wait
that fails there leaves the hook unreaped, and the call ends at `pc` `lost` instead of `done`
(`lostDrain` on the way), as it does where a failed wait is what ends it. The signal itself is
taken to be sent: it goes to the daemon's own child. `ExecuteStream` has the same in its
`KillReturns` (server.rs:576-577).

**ExecuteUnary** is `execute`, with one step per await and early return (`call` is `start`,
`ask`, `write`, `wait`, `end`, or `dropped` when the client went away), the command, its
descendant and its pipes. While it is in `ask` the steps of an instance `Hook` of
`AllowHook` are its own; `hookPc`, `answer` and the other `hook...` variables are the
variables of that instance. It applies `Gate` to its request, so that this module
is registry, gate, hook and command in one.

**Redaction** is one pump's way with text. `read` is the text the command wrote, as far as
it was read, `pending` what is held back, `shown` what went to the client, with `Mark` for
each secret that was replaced. Reads cut the output anywhere, also inside a character
(`partial`). A flush is a send, which takes as long as the client likes: `sending` is the text
it sends, `pump` is `send` or, behind the end of the output, `last` as long as it waits, and the
send may fail because the client is gone. `clock` is the hold-back deadline, which the code
sets only when the send has returned (server.rs:912-926), so that no deadline runs in `send`;
`since[i]` is how long character `i` of `pending` has been held, not counting sends. The
several events of one flush are one text. `RedactText` is what the matcher of `redact_text` finds: leftmost,
the secret that ends first (`aho_corasick`'s default).

**RoundTrip** extends `ExecuteStream` with the client: `cpc` is where `execute_stream` of
client.rs is, `spc` where its stdin task is, `mode` whether stdin is live (the shim) or
given (`client exec`), `exit` the exit code of the process; `Up` is the client's queue.
`Upload` and `Download` carry messages and events; the daemon's steps are those of
`ExecuteStream`, and `DaemonIsExecuteStream` says that the composed system refines
it, with the client's and the transport's steps falling under what `ExecuteStream` allows
its environment. The command is any command that ends some day, or an echo. Any command reads
its stdin, writes text or not, and keeps its pipes while it lives; the hook gives any answer.
`torn` says that a read of the shim's standard input has failed, behind which the stdin task
sends a StdinEof as behind its end. `AnyFaults` and `EchoFaults` say which failures may come
together in one call: a broken connection (`link`), a failed read (`stdin`).

**Setup** has the files of a state directory by what they hold: a key by the run that drew
it, a certificate by the key that signed it and the key it is for. `setup` and `emit-client`
are lists of writes; `fs::write` is cutting the file to nothing and then filling it. Runs
break off anywhere, repeat, and overlap. A client's name is taken to be a plain file name
(`NameAssumption`): the code puts it into a path as it is (setup.rs:256-260).

Where the code has a variant that can be got wrong, an operator marked `Mutant:` in a
comment just before the definition states the wrong version; `PROJECT.json` lists which
property each of them violates. They are used by no specification.

## 3. What is checked

| Run | Properties | Instance |
|---|---|---|
| `queue` | `PermitsConserved`, `PerSenderFifo`, `SendsReturn` | two senders, two items each of one or two permits, three permits, one slot |
| `session` | `RunsOnlyIfApproved`, `ExecutedIsComplete`, `OnlyTextIsFlushed`, `ImplementsSession` | seven start messages, one for every way through registry and gate; two packets of stdout, two permits, two slots; wait and read may fail |
| `faults` | `IInv`, `NoCommandLeft`, `AuditMatches` | one packet on each stream, one permit, one slot; spawn and writes to stdin may fail, a descendant, a client that leaves |
| `live` | `EndsAfterCommand`, `FailureEnds` | one packet, three messages, a stdin pipe of one chunk, a descendant, a client that leaves |
| `policy` | `IInv`, `MostSpecificWins`, `ConflictOnlyOfPatterns`, `DenyHolds`, `ExplainAgrees` | two families of configurations, eight command lines |
| `hook` | `IInv`, `AnswerIsWhole`, `NoHookLeft`, `AnswersAfterHook`, `TimeoutReturns` | a request of two chunks, two pieces of output, pipes of one; spawn, write, wait and read may fail, a descendant |
| `unary` | `IInv`, `RunsOnlyIfApproved`, `ExecutedIsComplete`, `LeftOnlyByBrokenPipes`, `AnswersAfterAll` | nine requests, one packet on each stream, up to two chunks of stdin, pipes of one; a hook of one chunk and two pieces; failures of the operating system, descendants, a client that leaves |
| `redaction` | `IInv`, `AsIfWhole`, `HeldBriefly` | every set of at most two secrets of at most three letters out of two; text of five letters, two bytes each |
| `roundtrip` | `ZeroMeansAll`, `EndIsTheEnd`, `ErrorsAreTheLinks`, `NoEndWithoutDone`, `ComesBack`, `DaemonIsExecuteStream` | shim and `client exec`, a command of one chunk and one packet per stream, or an echo of one or ten chunks; one permit in each queue; a connection that breaks or a stdin whose reads fail, but under an echo |
| `setup` | `IInv`, `SetupMends`, `IssuedFit`, `SecretsKept` | two admins, two client names, three runs |
| `bad_output`, `hook_heir` | one each | counterexamples, see section 6 |

What the properties say and what each shows:

* `PermitsConserved`: each permit is at every moment free, with one waiting send or with one
  queued item; `PerSenderFifo`: what returned Ok comes out once and in order; `SendsReturn`:
  neither semaphore can make senders wait on each other.
* `RunsOnlyIfApproved` relates the existence of a child to the registry, the effect, the
  intent and the hook's answer, over all orders of messages, resets and answers.
* `ExecutedIsComplete`: at the moment `executed` is decided on, the child was reaped and not
  killed, its own status is reported, both pipes were read to their end, and every packet
  is on the queue and was text. With `ImplementsSession` (order, at most one outcome,
  nothing behind `executed`) that is what the caller relies on.
* `OnlyTextIsFlushed`: no packet that is not UTF-8, and none behind it, is flushed, whatever
  the reads, the timer and the end of the stream cut.
* `NoCommandLeft` and `AuditMatches`: the outcome is decided on only after the child was
  reaped (unless `wait` itself failed), and the audit record is the event the client got.
* `EndsAfterCommand`, `FailureEnds`: full queues, a full stdin pipe, aborted pumps, a
  descendant that ends, a client that vanishes cannot hold the call.
* `MostSpecificWins` compares the one-pass loop with the definition "the most specific
  of the rules that apply", independently of order; `ConflictOnlyOfPatterns` says exactly
  which conflicts the load cannot see; `DenyHolds` is about the shorthand as a
  reader understands it, and so about the parser, the load and the loop together.
* `ExplainAgrees` compares `explain` with the gate of the daemon.
* `AnswerIsWhole`: an answer other than cancel is what the complete output of a
  successful, unkilled hook says. `NoHookLeft`, `AnswersAfterHook`, `TimeoutReturns`: what
  the call leaves behind -- no hook, unless a wait for it has failed -- and that it comes back.
* In `unary`, `RunsOnlyIfApproved` goes through the hook to what it printed: a command that
  was asked about runs only if a hook that ended by itself, with success, said yes in its
  complete output. `ExecutedIsComplete`: all stdin in, all output out, descendants included.
  `LeftOnlyByBrokenPipes`: the only answers that leave a command running are the two errors
  that say so. `AnswersAfterAll`: a command that fills its stdout before it reads its stdin
  holds the call while it lives, and nothing holds it afterwards.
* `AsIfWhole`: the concatenation of what was shown is what `redact_text` makes of the whole
  text, unless the deadline let go of something or one secret ends with the beginning of
  another; the second condition is needed because the hold-back keeps the *longest* beginning
  of a secret and the matcher may already have taken its first letters for the end of one.
* `HeldBriefly`: what is held back begins a secret, and is held for at most one deadline per
  byte which that secret has behind its first character, *not counting the time that the pump
  waits in a send*. Nothing bounds that time: the text before the held part goes to the queue
  first, and the queue waits for the client (section 6). What the property can say, and says,
  is that reads do not put the deadline off for ever, and that it is set when the send returns.
* `ZeroMeansAll` follows a call through both queues, both ends of the connection and all
  tasks: exit code 0 of a shim means that the command ran, ended with 0, and that each stream
  was printed completely and in order. `EndIsTheEnd`: the daemon never takes stdin for
  ended before it has ended, though the request stream ends when the last clone of the
  sender is dropped -- unless a read of it has failed, which the client reports as an end. `ErrorsAreTheLinks`, `NoEndWithoutDone`: the client's own errors mean a
  broken connection, except that `client exec` may fail to send because the daemon has
  answered. `ComesBack` says which calls return.
* `SetupMends`, `IssuedFit`, `SecretsKept` hold a directory to its purpose, after any
  history of runs that broke off or overlapped, and say where overlapping runs void them:
  a setup that met another run, a client that is being emitted twice at once, two setups
  that both look for secrets.txt.

### Bounds, and why they are enough

`MaxOut`, `MaxMsgs`, `MaxItems`, `MaxSaid` and `Payload` bound counters that only grow. The
behaviours the properties are about need few of each: one packet waits for budget while
another owns it, one for a slot while another fills it, one is bad while another is good;
one message is unread when the client leaves, a second one is a repeated start, a third is
the chunk that meets a full pipe. Capacities are 1 (2 in `session`) so that "full" happens
at once; in `live` the third message meets a full stdin pipe. `session` has a stream with
two packets, so that order and a bad packet behind a good one occur.

The configurations of `policy` are all combinations of at most one entry in each of the three
lists from eight shapes (plain, trailing star, star in the middle, two stars, a glob that
does not compile, blank) with two defaults, and all ordered pairs of 40 rules of every kind,
with and without a deny entry: a tie, a better rule before and after a worse one, and an
invalid one all occur.

In `redaction` two secrets of up to three letters can repeat, contain, begin and overlap each
other; five letters hold a secret, a broken one and the beginning of a third, and a read
brings up to three of them. In `unary` every way through registry, gate and hook is a
request, and stdin of two chunks meets a pipe of one. `roundtrip` has an echo of ten chunks
because that is what it takes to fill both queues, both windows, both pipes and every task in
between when each of them holds one; the given stdin then does deadlock, and `ComesBack` is
about what fits. To keep that instance small, only one kind of failure occurs in a call, a
broken connection or a failed read of stdin, and none under an echo (`AnyFaults` and
`EchoFaults` in the cfg; no definition excludes them, and the theorems hold for all their
values). Its commands do not close a pipe before they end and leave no descendants; `faults`, `session`
and `live` have these cases on the daemon's side, and the proofs allow whatever
`ExecuteStream` allows but for the pipes and descendants. Three runs in
`setup` let a broken setup, a good one and an emit-client overlap in all ways, with
two of each name; admins and names are symmetric, no definition singles one out, and all
properties of that run are invariants or step properties, so that symmetry is sound. No other
run uses it. The proofs of section 5 do not depend on any bound.

Two runs switch the deadlock check off. In `roundtrip` the given stdin really can wait for
ever (section 6), and a shim may wait for somebody to type; `ComesBack` says when it does
not. In `setup` runs are used up. All other specifications have a `Terminated` (or `Stopped`)
step for the states in which the system may stop, and a state outside them without a
successor is an error. A hook or a command that never ends is not a deadlock because ending
is always one of its steps.

### Fairness, and why the code justifies it

* The handlers, the pumps, `run_allow_hook` and its reader, the client's tasks: tokio polls a task that has been
  woken, so a step that stays possible is taken (weak fairness). `select!` picks a ready
  branch at random, and there are only finitely many messages that can delay the others.
* `Grant` and slot hand-out: tokio semaphores are fair queues.
* `PumpAborted`: the runtime cancels an aborted task at its next suspension.
* `ChildDies`/`HookDies`: SIGKILL ends a process. `TimerExpires`: time passes.
* `Take` and `DropResponse`: the transport forwards events while the client reads, and
  drops the response when the connection is gone. A client that stays connected and never
  reads keeps a call for ever; that is excluded, because HTTP/2 flow control lets it.

* `RoundTrip` has one condition, weak fairness of `Runs`, the disjunction of all of these:
  each call makes finitely many such steps, so that no part can be starved by the others.
  There, the command is one that ends some day, or an echo that goes on as long as it can.

Failures of the operating system, of reads and of the connection are steps of their own
outside these conditions (`CallFails`, `ReaderFails`, `HandlerFails`, `StdinFails`, `LinkLost`): they
may happen and need not, so that no call comes back only because something fails (a spawn
always returns, with the process or with an error). In the
run `live`, whose specification is `ExecuteStream` by itself, none of them occurs. Nothing else is
assumed of a command, the hook, their descendants, the client's messages, or
whoever types. Liveness properties therefore start from events (`the child has ended`) and
never from hope.

## 4. How to run

`tlc -config MCFaults.cfg MCExecuteStream` (and so on for the runs in `PROJECT.json`), and
`tlapm RoundTripProofs.tla` (and so on for the modules in section 5). With two workers
the longest runs (`live`, `roundtrip`) take two to three minutes, the others at most one or two;
the longest proof, `RoundTripProofs`, takes about seven minutes, the others at most one or two.

## 5. What is proved

All theorems are of the form `Spec => []P`, or say that one specification implements
another, for arbitrary constants that satisfy the assumptions stated in the modules: finite
budget, at least one permit, slot and place in a pipe, natural bounds; for `Policy` also that
a glob without `*`, `?` or `[` matches only itself; for `Redaction` that secrets are not
empty; for `RoundTrip` that the daemon's bounds leave room for what its client may do -- all
of stdin with a start and an end, a call that is dropped, an echo's exit code 0
(`CallerAssumption`; the code has no such bounds); for `Setup` that no client is called `ca`
or `daemon` (`NameAssumption`; a client's files are in a directory of their own).

| Module | Theorems |
|---|---|
| `StreamSendersProofs` | `Typing`, `BudgetConserved` (`PermitsConserved`), `Fifo` (`PerSenderFifo`) |
| `RoundTripProofs`, first part | `Typing`, `Invariant` (`IInv`), `Completeness` (`ExecutedIsComplete`), `Approval` (`RunsOnlyIfApproved`), `Reaping` (`NoCommandLeft`), `FailClosed` (`OnlyTextIsFlushed`), `Auditing` (`AuditMatches`), `Refinement` (`ImplementsSession`): the theorems on `ExecuteStream` |
| `RoundTripProofs`, second part | `CallInvariant` (`CallInv`), `DaemonWithin` (`DaemonIsExecuteStream`), `CallIsSession` (`ImplementsSession`), `Zero` (`ZeroMeansAll`), `StdinEnd` (`EndIsTheEnd`), `Errors` (`ErrorsAreTheLinks`), `DoneComes` (`NoEndWithoutDone`): those on `RoundTrip` |
| `PolicyProofs` | `Invariant` (`IInv`), `Typing`, `MostSpecificRule` (`MostSpecificWins`), `ConflictsArePatterns` (`ConflictOnlyOfPatterns`), `DenyEntries` (`DenyHolds`), `ToolsAgree` (`ExplainAgrees`) |
| `AllowHookProofs` | `Invariant` (`IInv`), `FailClosed` (`AnswerIsWhole`), `Reaping` (`NoHookLeft`) |
| `ExecuteUnaryProofs` | `Invariant` (`IInv`), `Approval` (`RunsOnlyIfApproved`), `Completeness` (`ExecutedIsComplete`), `Leaving` (`LeftOnlyByBrokenPipes`) |
| `RedactionProofs` | `Invariant` (`IInv`), `Bounded` (`HeldBriefly`), `Whole` (`AsIfWhole`) |
| `SetupProofs` | `SetupInvariant` (`IInv`), `Typing`, `Mends` (`SetupMends`), `Issued` (`IssuedFit`), `Secret` (`SecretsKept`) |

`StreamQueueProofs` has the lemmas on the queue's operators (typing, conservation and who is
in a send, one per operator), and on sequences (taking out, appending, taking the head), that
both the queue's and the call's proofs use.

**The order of a sender's items.** `PerSenderFifo` speaks of the stream, what came out and
what is queued. An item gets there from either semaphore's waiters, so `FifoInv` adds
`OneSend` (a task is in at most one send) and `WaitWithLast` (it waits with the last item it
began). Then what is pushed is newer than all its sender has on the stream (`InOrder`), and
`ItemsOf` says that nothing begun before it is missing. Dropping the receiver empties the
queue: because of the order, what is left of each sender's items is a beginning of them.

**The invariant of ExecuteStream.** `ExecutedIsComplete` speaks of the moment when the
handler concludes; what it needs there has to be known before. `IInv` says so part by part:

* `PacketsInPlace(s)`: the four counters in order, and what the place of a pump says of
  them -- a pump in `read` or `ok` has sent all it flushed, one in `last` or `ok` has seen
  the end of its pipe and flushed everything; nothing at or behind a bad packet is flushed.
* `OneSend`, `SendersWait`: a task is in at most one send, it is at the await that called
  it, and the item it waits with is its next one. Without it, the return of a send could not be
  attributed to a pump.
* `HandlerInPlace`: what each `hpc` says of the child, of `killing` and of `verdict`; a
  pump whose handle was dropped ended well.
* `GateInPlace`: behind the gate there is a request that the gate let through, or asked for.
* `EventsInPlace`: the outcome is on the queue only once the handler is at its end, and then
  it is the verdict; the audit record was made with it.
* `EventsInOrder`: a packet that was accepted has the number of accepted packets of its
  stream before it. It is what a client can be sure of, and so what `RoundTrip` needs.

`JoinReturns` then gives `ExecutedIsComplete`: the handler is in `join`, so the child is
reaped and not killed; both pumps are `ok`, by their handles or because the handle was
dropped; so all packets are sent. The steps are proved one action at a time, those of
the queue through the lemmas of `StreamQueueProofs`.

**ExecuteStream implements Session.** With `IInv` for both states of a step, each action is
shown to be an action of `Session` or a stutter. Spawning is `Run`; whatever decides on an
outcome is `Refuse` before there was a command, `Fail` after, and `Execute` where the
handler leaves `join` (`LaunchSimulates`, `RefusalSimulates`, `FailureSimulates`,
`HandlerSimulates`). The push of a packet is `Tell`, of the outcome `Report`
(`PumpSimulates`, `HandlerSimulates`), what the command writes is `Make`
(`EnvironmentSimulates`). Two of the guards need the invariant: `Execute` demands that
everything made was told, which is `ExecutedIsComplete`, and `Report` that the outcome was
not told before, which is `EventsInPlace`.

**The call with its client.** `RoundTrip` has the variables of `ExecuteStream` and the
client's. `DaemonStep` says that a step of the call, given `CallInv`, is a step of
`ExecuteStream` or leaves its variables alone: uploading is `ClientSends`, which needs that
the daemon's bound on messages holds (`UpInPlace` counts what has begun to be sent against
what has arrived), the end of the request stream is `ClientEnds`, whatever drops the call is
a client that leaves, downloading is `Take`. Therefore `IInv` holds within the call
(`DaemonPreserves`), all that was proved of `ExecuteStream` does (`DaemonWithin`), and the call
implements `Session` (`CallIsSession`). The rest of `CallInv` is about the client:

* `UpSendersWait`, `CallerInPlace`: a task is in at most one send, at the await that called it,
  with the item that belongs there; the stdin task runs only after the start was sent; who
  has sent the end has read all there is or has met an error (`InputOver`), and a shim's exit code is that of its outcome.
* `UpInPlace`: an end of stdin anywhere between client and daemon, as a message or as the end
  of the request stream, was sent when everything had been read, or when a read had failed.
* `LinkInPlace`: no half of the call goes away before the call is over or the connection
  broken; an error of the client's own has one of those reasons.
* `DownInPlace`: what was printed, what is on its way and what is queued are, in this order,
  what the queue accepted, as long as nobody has left.

`ZeroMeansAll` then joins both sides: the outcome that was returned is the event behind those
printed, `executed` is accepted last and after all packets (`ExecutedIsComplete`), and
`EventsInOrder` makes what was printed of a stream 1, 2, 3 and so on up to what was made. The client's
queue is an instance of `StreamQueue` like the daemon's; its lemmas are those of
`StreamQueueProofs`, instantiated.

**Policy.** The loop invariant says that after `i - 1` turns `best` are the most specific of
the applicable rules so far and `quality` is theirs; that nothing matches if `best` is
empty. `ConflictsArePatterns` adds `NoTies`, which the load established: two exact rules, or
two prefix rules of one length, that match the same words are equal, and so would have
been found. `DenyEntries` needs that the rules are those of the configuration
(`AlwaysLoaded`), that an entry of `policy.deny` is among them as the rule the parser makes
of it (`DenyEntryIsRule`), and that this rule applies to whatever the entry names
(`NamesApplies`): it is a prefix rule where the entry has no glob but a `*` as its last
word, or none at all, and a glob rule otherwise. Then some most specific rule is at least as specific.

**AllowHook.** `OutputInPlace` says that what was said is what was read and what is in the
pipe (`said = buf \o out`), and that a reader at its end has seen an empty pipe without
writers; `CallInPlace` says where the hook is at each await, that behind a wait which did not
fail it is reaped, and that nothing was killed on the way to `drain`. After an answer other than cancel the pipe has no writer left, so
`said` does not change any more.

**ExecuteUnary.** Every step of the composition is a step of the hook or leaves it alone
(`HookMoves`), so that the invariant of `AllowHook` holds of the instance by the lemmas
proved for `AllowHook` itself. The rest is what each place of the handler knows of command
and request. `Approval` joins the two: a command that was asked about has the answer `yes`,
and a call of the hook with that answer has read all of a successful hook's output.

**Redaction.** `HeldSinceReads` is the reason for `HeldBriefly`: each read brings at least a
byte, and each byte behind a held character makes the held beginning longer, so how long it
was held outside sends is bounded by the bytes behind it and by the deadline that is running,
which `DeadlineIffHeld` says there is whenever the pump waits for a read. What is held
back stays shorter than the secret it begins, which bounds the bytes.

`AsIfWhole` speaks of `RedactText`, whose scan is recursive over the text. That the recursion
defines a function is proved first (`ScanExists`: built from the last place down), so that its
two equations can be used: nothing is left to mask (`ShownFree`), or the first secret to end
decides all up to its end (`ShownFirst`). The inductions go down from the end of the text
(`Downward`; a set of places instead of a predicate, because the library's induction theorems
take an operator). `ShownJoin` says when the redaction of two texts, one behind the other, is
that of each: wherever a secret stands across the boundary, another one ends at it that begins
no earlier (`Severed`). `NoneSevered` says that the pump cuts in such places. If a secret ends the
text, one across the cut has its beginning within that secret's end, which `Separate` excludes,
or covers it; if none does, it would have been held back from its first character, or would end
with the beginning of a secret that is held back, which `Separate` excludes again. The invariant
(`WholeInv`) must look ahead: *whatever* is written next, what was shown and the redaction of
what is held with it are the redaction of all (`Continues`).

**Setup.** The properties speak of a directory at rest, so the invariant says of each run what
its remaining writes will make of it. `WillHold(a, f, x)`: every write a has left to f
writes x, and there is one unless f holds x already; it outlives a's own writes, whether they
cut the file or fill it (`TornHolds`, `TailHolds`). `AloneInPlace` says that a setup which has
met nobody will have written what fits together; then it *is* alone, by `AllMet` (runs that
overlap have met), so nobody else's write is in the way. `SettledInPlace` says that after a
good setup there are only runs of emit-client, whose writes are to their own client's
files (`WritesInPlace`) and are signed by the CA that is there; two of the same client have met,
and `IssuedInPlace` says that such a client does not count as issued. These carry
`SetupMends` and `IssuedFit` over every write (`WriteKeeps`, one lemma for all four kinds of
write), every beginning and every end. `SecretsKept` follows from `SecretsInPlace`: a
secrets.txt that is there is about to be created again only by a setup that looked before it
was, and which therefore has met the one that created it. Each
of the theorems holds for any number of admins, clients and runs.

**Model-checked only.** Liveness (`SendsReturn`, `EndsAfterCommand`, `FailureEnds`,
`AnswersAfterHook`, `TimeoutReturns`, `AnswersAfterAll`, `ComesBack`) and `ENABLED` are out of
the prover's reach. Every invariant and step property that a run checks is stated by a
theorem.

## 6. Where the code and its documents disagree

* **A broken output does not fail fast while stdin is full** (`bad_output`). While the
  handler is in `stdin.write_all` (server.rs:669) it polls no pump. Output that is not UTF-8
  makes a pump fail, but with a command that neither reads its stdin nor ends, the call goes
  on. The test `non_utf8_output_fails_fast_instead_of_hanging`
  (tests/integration_flow.rs:627) and README.md:220 describe the other case only.
  `BadOutputFailsFast` states what they say; the run finds the behaviour.
* **The hook's timeout does not cover all awaits** (`hook_heir`). After the timeout the
  reader is awaited without one (hook.rs:78), so a descendant of the hook that keeps its
  stdout open holds the call. README.md:202 and 205 and plan.md:159 promise `cancel`. With
  hooks that read and leave nothing behind, the timeout is followed by an answer:
  `TimeoutReturns`, in the run `hook`.

Further observations that a property states from the code's side, or that can be read off
the code, and that have no run of their own:

* Ties of patterns pass the load. plan.md:133 rejects every tie at load;
  `validate_conflicting_ties` (policy.rs:401) compares fingerprints, as README.md:172 says.
  The globs `a *` and `* ab` with different effects load, and the question `a ab` fails at
  run time. It fails closed: the gate makes an error of it. `ConflictOnlyOfPatterns` bounds it.
* The hook's request is written before the timeout starts (hook.rs:53), so a hook that does
  not read a request larger than a pipe holds the call as long as it lives.
* A `user-reply` without a reply is accepted as one with an empty reply (hook.rs:106;
  `Parse` in `AllowHook`), where README.md:196 and plan.md:152 demand one and plan.md:159
  makes invalid output a `cancel`. Nothing runs in either case.
* README.md:213 says that a possible secret is held for at most 200 ms. server.rs:923 sets
  the deadline anew with every read that leaves something held, so that slow output which
  goes on spelling a secret is held for several deadlines; `HeldBriefly` bounds how many. The
  deadline is set behind the send of the text before the held part (server.rs:912-921), so
  that a client which reads slowly, or a full queue, adds a wait that nothing bounds.
* `client exec` with more stdin than queue and budget hold and a command that echoes can wait
  for ever: the client reads nothing before it has sent all of it (client.rs:193-211). Its
  stdin is a command line argument, which Linux keeps below 128 KiB, so today it fits;
  `ComesBack` states the condition.
* `client exec` reports an error if a send fails because the daemon has already answered
  (client.rs:195); `ErrorsAreTheLinks` states it.
* A shim that ends with an error returns through main and its runtime waits for the thread
  that reads stdin (client.rs:217, main.rs:129), until somebody types or closes it. With an
  outcome the shim leaves by `process::exit`, and `client exec` reads no stdin.
* An error in reading the shim's stdin is sent to the daemon as an end of stdin
  (client.rs:236-245), so that the command takes what it got for the whole; `EndIsTheEnd` names
  the exception. `client exec` exits with 0 for every
  outcome, and 125 and 126 may as well be the command's own.

## 7. What is not modelled

* Bytes: chunk sizes and the UTF-8 decoder. `ExecuteStream` abstracts secrets to which tails
  may be held back; `Redaction` has them as words over letters. Glob and regex matching are
  tables, because they are libraries.
* A panicking pump (`JoinError` by panic) and a child without the pipes that were
  asked for, which cannot happen with `Stdio::piped`.
* Several calls at once: calls share nothing but immutable configuration.
* `ListCommands`, `connect`, TLS, argument parsing, TOML, daemon start and shutdown, the
  prompts of `setup` and the names in certificates: I/O without behaviour of its own.
* `install_shims`, a loop that stops at the first error. One thing to know of it: `exists()` is false for a dangling link, so that `--force` does not replace it
  (client.rs:99) and creating the link fails.
* What a rerun of `setup` replaces besides secrets.txt: it writes daemon.toml and a new CA
  over what was there, edited or not (setup.rs:128). The code means to; `SetupMends` says
  only that what it leaves belongs together.
* That of several best rules with one effect and different `intent_required` the first in
  file order decides (policy.rs:149): the model does the same, and no document says what
  should happen.

## 8. Plan

Done: queue, both kinds of call with registry, gate, hook and redactor, the client with the
transport, the policy, `setup`; the abstract session with its refinement; the safety of each
of them checked and proved.
What is left, in this order:

1. A composition of `Policy`, `Gate` and `AllowHook` that implements the view `ExecuteStream`
   has of them (effect and answer as inputs), as `ExecuteUnary` has it for the hook.
2. Larger instances: failures under an echo in `roundtrip` (`EchoFaults`), three secrets in
   `redaction`.
