# TLA+ verification of apw

`apw` is a command line client for the passwords of macOS. A command (`apw auth`,
`apw pw`, ...) talks over UDP to a local daemon (`apw start`), and the daemon to
Apple's password helper, directly or through a browser extension or a native host.
This directory holds TLA+ models of the concurrent parts of that chain, the TLC
configurations that check them, and TLAPS proofs of their main properties.

Source paths below are relative to the repository; `daemon.rs` is
`rust/src/daemon.rs`, and so on.

## 1. Inventory

### Components, their state, their operations

| Component | State | Operations |
| --- | --- | --- |
| Bridge (`BrowserBridge`, daemon.rs) | status, browser, transport (an unbounded channel), active connection id, map of pending oneshots; a copy of the status in config.json | `attach`, `complete_response`, `mark_error`, `mark_disconnected`, `enqueue_request`, `persist_snapshot` |
| UDP request loop (daemon.rs) | the datagram in service | receive, check size and JSON, forward and wait up to 30 s, send the envelope |
| Daemon, browser mode | one task per WebSocket | accept, hello within 5 s, `select!` over outbound requests and inbound messages |
| Daemon, native mode | one accept task, one Unix stream at a time; start-up state | wait for the first host, hello, framed reads and writes |
| Daemon, helper modes (direct, launchd, auto, disabled) | the helper process, its two pipes | try launch backends, probe, settle, bind, clear the session, write a frame and read a frame per request, notice that the helper ended |
| Session store (utils.rs, secrets.rs) | `~/.apw/config.json`, keychain items | `read_config`, `write_config`, `clear_config`, from any number of processes, with no lock |
| Client (client.rs, srp.rs, cli.rs) | SRP session, remote address, a UDP socket per message | challenge, verify PIN, queries, logout; each command a process |
| Browser extension (browser-bridge/) | current WebSocket, reconnect timer, helper port, queue, current request | start, save settings, socket events, helper events |
| Native app broker (native-app/, native_app.rs) | socket file, app bundle, credentials file; the connection in service and the backlog | one request per connection, one connection at a time, an alert per login; login, status, launch and install from Rust |
| Native host (native-host/) | helper session, connection to the daemon | forward frames, reconnect |
| Host installation (host.rs) | host bundle, LaunchAgent file, launchd's job | install, uninstall, preflight (doctor) |
| Mode resolution (daemon.rs) | none | reads manifests, picks the mode |
| CLI, wire types, popup, scripts, legacy/deno | none that lasts | parse, print, build |

### How they interact

```
 apw command --UDP--> daemon --+-- pipes (frames) ----------> Apple's helper
     |                 |       +-- WebSocket --> extension -> Apple's helper
     |                 |       +-- Unix stream -> native host -> Apple's helper
     +-- config.json --+
     +-- keychain -----+
     +-- Unix socket --> native app broker
```

* A client and the daemon share nothing but datagrams and config.json. The daemon
  writes bridge and launch status there; the client reads it to decide whether to
  send at all, and keeps its session in the same file.
* The daemon's tasks share the bridge behind a mutex. `persist_snapshot` copies the
  state under the lock and writes the file after releasing it.
* Requests carry an id between the daemon and the extension or the host. Between
  the daemon (helper modes) and the helper, and between the extension and the
  helper, they carry none: answers are paired by counting.

### What is hard

* A connection is replaced, closed or broken while requests are pending on it and
  its task is between two awaits.
* A timeout races the answer; the late answer is still on its way when the next
  request is sent.
* `select!` drops a partially read frame.
* Several processes read, compose and rename config.json, and the keychain item is
  a second, separate write; any step may fail or be the last one of its process.
* A helper is launched in several ways in turn, and each attempt may fail half way.
* Events of a WebSocket that was given up reach handlers that work on another one.
* A socket's path is removed and bound again by whoever starts, while its former owner
  still runs; a probe that finds nobody may have come too early, or met a full backlog.
* An alert waits for the user after the command that asked for it has given up.
* An installation is a sequence of file operations and launchctl calls, any of which
  may fail or be overlapped by another command's.

### What makes each component correct

* Bridge: its four fields agree; nobody waits on a oneshot that no one will
  resolve; no client gets the answer to another request; only the connection that
  owns the bridge can detach it; an attached bridge has a task behind it.
* Request loop: one answer per request, in order, for every request.
* Helper modes: one helper at a time, none left over after a failed start or a dry
  run (unless checking for it is what failed), a lost helper is recorded before its
  client is told, a failed start keeps a session whose key is in config.json.
* Session store: no process holds a user and a key that do not belong together, no
  session outlives its maximal age once it has a date, a metadata write keeps the session.
* Extension: responses in order and single, no waiting for an answer that cannot
  come, always a way back to the daemon, eventually one connection on which both
  ends agree.
* Client: no session is stored that the helper did not accept, none of an earlier
  helper survives a restart of the daemon, the daemon's address stays in config.json
  unless a logout, an authentication begun earlier or an expired file takes it away, a
  command prints the answer to its own question, and every command ends.
* Broker: a password only for a login the user allowed, no login put to the user twice,
  one broker unless a launch met one it could not reach, and every command ends although
  one peer or one alert may hold up the broker for ever.
* Host installation: an install that ran by itself and reported success has left
  everything in place, whatever failed before it; a daemon whose socket nobody else
  removed gets its host back after every crash, broken connection and reinstallation,
  unless the host is left waiting for a helper that never answers.

## 2. Modules

| Module | Models | Extends |
| --- | --- | --- |
| `RequestService` | abstract specification: a queue of requests, answered in order, once, with their own answer or an error | |
| `PipeService` | abstract specification of the helper modes: answered in order, once, with the answer to the oldest question that may still have one, or an error | |
| `BrowserBridge` | `struct BrowserBridge`, the request loop, the peers; shared by the two daemons | |
| `BrowserDaemon` | browser mode: any number of connection tasks | `BrowserBridge` |
| `NativeDaemon` | native mode: start-up wait, one connection at a time, cancelled reads | `BrowserBridge` |
| `HelperDaemon` | direct, launchd, auto and disabled mode: launch, probe, start-up, framed loop; implements `PipeService` | |
| `ConfigStore` | config.json and keychain as every process uses them | |
| `AuthClient` | the commands of the client, a daemon in a helper mode as they see it, and the helper's side of a session | |
| `BridgeExtension` | `BridgeController` of the extension | |
| `ApprovalService` | abstract specification: a login is put to the user at most once and ends with the password only if it was allowed | |
| `NativeBroker` | the app broker's processes, the commands that use it, and their fallback to a one-shot process; implements `ApprovalService` | |
| `HostSetup` | installation of the native host, launchd's job, and the start of native-mode daemons that share a socket's path | |
| `MC*` | instances for TLC, with symmetry sets where no liveness is checked | the module they name |
| `BrowserDaemonProofs` | lemmas on every operation of the bridge, and the theorems on browser mode | `BrowserDaemon`, `TLAPS` |
| `NativeDaemonProofs` | theorems on native mode, from the same lemmas | `NativeDaemon`, `BrowserDaemonProofs` |
| `HelperDaemonProofs`, `ConfigStoreProofs`, `AuthClientProofs`, `BridgeExtensionProofs`, `NativeBrokerProofs`, `HostSetupProofs` | theorems | the module they name |

Definitions whose comment begins with "Mutant:" are deliberate mistakes: each stands
before the definition it distorts, is used by no specification, and names an error
of the code that one of the properties detects.

### BrowserBridge, BrowserDaemon, NativeDaemon

* `bridge` is `BridgeState`; `pc[c]` is the await point of connection `c`'s task.
  Every critical section of the mutex is one action. `persist_snapshot` is two, so
  other tasks may run between the copy and the write. In between the task owns the
  senders it took (`taken`), which are failed after the write, as in `mark_status`.
* A connection id is the connection itself (`fetch_add` never repeats), and a
  request id is the request.
* The datagram in service stays at the head of `queue` until it is answered.
* A message a peer has sent cannot be told from one it has not sent yet, so the
  peer chooses when the daemon reads (`Readable`). A peer may answer each request
  written to it once, in any order, late or never; send any status; send garbage;
  close or break the connection.
* A reply is what the loop sends; it ignores that `send_to` may fail, so any reply may
  instead become `Lost` (`Unreachable`), and its client gets nothing.
* `disk` is the bridge part of config.json (`Metadata`). A native start writes the
  browser `native` there before there is a host. Other processes have the same file: a
  logout or an expired read removes it (`OtherClears`), and an authentication reads it
  and writes back what it read, with its own session (`OtherReads`, `OtherWrites`). The
  history variable `behind` says that such a write overtook the daemon's last one.
* `failed` stands for `ok: false`, for a missing payload and for a payload of the
  wrong shape, which take the same path.
* In browser mode errors in the loop leave through `?` (`ReturnError`); in native
  mode every exit marks the bridge.
* The names of `NativeDaemon` say `Native` or `Host` where browser mode has an action of
  the same kind (`Accept`, `AcceptHost`), as the proofs extend both modules.
* In native mode a select that takes the outbound branch drops the bytes a pending
  read has taken: `frame` goes from `partial` to `lost`. The next read takes four bytes
  from the middle of the frame for a length: if it is out of range, or the stream ends
  first, the bridge is marked disconnected, if it is in range, what is read does not
  parse and the bridge is marked in error. Both end the connection, so a stream that is
  out of step is never read a second time.

### HelperDaemon

* `mode`, `dryRun`, `hadSession`, `keychain` and `badDisk` are chosen at the start: the
  first two are options, the third is what config.json held, the fourth whether the key
  of that session is in the keychain, the last whether writes to the file may fail.
* `write_config` without a key deletes the keychain's item, before it writes the file
  (utils.rs:468-495): `PersistLaunch` loses a session whose key is there, and so does
  `ClearSession` even if the file cannot be written (`WriteFailed`).
* `stdin`, `owed` and `stdout` are the pipe to the helper, the requests it has read,
  and the pipe back. A frame is a payload, an error, an error that says
  `ProcessNotRunning`, something that is not an object or has no length (`garbage`, the
  stream stays in step), or one whose header announces too long a body (`toolong`). After
  that, and after a timeout in the middle of a frame, the stream is `torn`: the daemon
  reads lengths out of frames, which swallows any number of them, and may be in step again
  (`ReadTorn`).
* When `try_wait` fails, `launch` returns the error without terminating the helper
  (phase `unchecked`).
* A reply may be `Lost` in the error path, which ignores a failing `send_to`; a Success
  that cannot be sent leaves through the error path and is answered with an error.
* The helper may end at any time, or close its pipes and stay.
* `launch()` of a backend contains no await, so `LAUNCH_PROBE_TIMEOUT` cannot fire
  before it returns; it has no action.
* `Asked` is the pipe as `PipeService` sees it: the questions in `stdout`, `owed` and
  `stdin`, oldest first.
* What else happens to the session, in the file and in the keychain, is in `ConfigStore`.

### ConfigStore

* `step[p]` and `op[p]` are where process `p` is in `read_config`, `write_config` or
  `clear_config`; a step is one file or keychain access.
* A key is used once, and a random user name is named by its key. A re-authentication
  uses the user name the process loaded.
* A process that reads no session ends its command, so what it holds is empty.
* Time passes only between operations, which take milliseconds against an expiry
  of days.
* A config has one of three formats: this release's, an earlier one's with `createdAt`, or
  without. `normalize_legacy_config` takes the last for made now at each read, so it does
  not age, until a metadata write gives it that date for good (`Normalized`).
* `owner`, `since` and `undated` are history variables: the user and time of each key, and
  the keys of a file that has no date yet.

### AuthClient

* A command is a process: `cmd[p]` is what it does, `pc[p]` where it is, `session[p]`
  its `SRPSession`, `remote[p]` its `remote_port`. Reading config.json, sending,
  receiving and writing config.json are separate actions. A message goes out on a
  socket of its own, so an answer finds its command or nobody (`Waits`); that the
  system gives a new socket a port just closed, to which an answer is still on its
  way, is left out.
* A key is the record of what it is computed from: user name, client key, helper key,
  PIN right or wrong. A proof stands for its key, so `verify_hamk` compares keys.
  `printed` is what `apw auth request` has output, from which the user may start
  `apw auth response` at any time, in any process, more than once.
* One daemon runs at a time, in a helper mode, and is reduced to what a client can
  tell: datagrams in turn, the next answer of the pipe for the request in service, a
  timeout longer than the client's, a helper that ends and is recorded as failed.
  `HelperDaemon` has the rest. `StartDaemon` ends it and starts another, with a new
  helper, on the same or another port. `inStep` becomes false at its first timeout.
* `agreed` is a history variable: the keys whose proof a helper has accepted. `base`
  separates the key exchanges of earlier helpers from those of this one.
* `config` is read and replaced in one step; the steps within are in `ConfigStore`. Each
  read may find it stale and remove it, the daemon's address included (`ReadConfig`): the
  age of a file is not kept here, so this may happen to any that holds something. Keychain
  operations are assumed to succeed here.
* A daemon that records that its helper is gone writes the file anew (`RecordFailure`),
  and on macOS the key of a session may be lost with that write.
* The other modes differ for the client in `launch_error_from_config` (it asks for an
  attached bridge), and in that answers carry ids.
* Every command passes `None` for the options of `send_message`, and `DEFAULT_RETRIES`
  is 0, so its loop makes one attempt. The 5 s rule of `request_challenge` cannot
  apply either: a process asks for one challenge, and starts with the time stamp 10 s
  in the past.

### BridgeExtension

* A handler of `BridgeController` is an action. `sock[s]` is the readyState of each
  WebSocket, current or not; closed sockets are reused as new ones.
* `host` holds the requests Apple's helper has got and not answered. It answers in
  order. `port = "dead"` is a helper that ended before its `onDisconnect` event.
* The daemon sends requests on the connection whose hello it saw last, and closes
  the others (`Closes`): one without hello after `BRIDGE_ATTACH_TIMEOUT_MS`, one
  that was replaced as soon as its channel is dropped.
* `stop()` is not called by `background.js` and left out; so are status messages to
  the daemon, whose only effect, that the daemon closes the connection, may happen
  at any time anyway.

### NativeBroker, ApprovalService

* `broker[b]` is where a broker process is (`phase`), the connection it serves and the
  answer it is about to write; `backlog[b]` holds the connections it has not accepted.
  `name` is the broker whose socket the path names: a broker that starts removes
  whatever is there (`Unlink`), and one that ends leaves its file.
* A connection is the command that opened it; `Probe` is one that `socket_running` opened
  and closed at once. It is in one place (`HeldOnce`), and stays there after its command
  has timed out: `Accept`, `Read` and `Decide` go on with it, `Reply` meets a closed peer.
* `Read` is the end of the peer's request, or of the peer; it waits for a suspended
  command (`frozen`) for ever. `Decide` is the user's.
* `decided[c]` is what the user said, to a broker or to the command's own one-shot
  process. Where APW_NATIVE_APP_AUTO_APPROVE is set there is no alert; as each process
  has its own environment, this may happen to any login.
* The domain and the credentials file of a login decide between an alert and an error,
  which are both possible. The payload and the codes are the members of `Result`.
* `apw app install` removes the old bundle, copies the new one and then asks for the
  status as `apw status` does. What `apw status` reports besides the broker's is left out.
* `raced` records that a launch went on to start a broker while another was starting,
  was about to be started, or had a full backlog.

### HostSetup

* A command is where it is in `native_host_install` or `native_host_uninstall`; each of
  its calls that may fail apart is a step. `alone` is the last command that began while no
  other was under way, as long as that is so.
* `loaded` is launchd's job, `host` its process, `conn` the daemon whose socket the
  process is connected to. `Spawn` is KeepAlive. `bootout` names the job by its file.
* The host has one thread. While it waits for the helper's answer to a request
  (`asking`, `HelperSession.send`, which has no timeout) it does not notice that its
  connection is gone, and does not connect again.
* `phase[d]` is where a daemon is in `start_native_daemon_inner`, `bridge[d]` what it
  knows of its host; what it does with an attached host is `NativeDaemon`. `robbed` are
  the daemons whose socket's name somebody else removed: the start and the giving up of
  another daemon, and an uninstall.
* A bundle of which a part is missing cannot be told from a whole one by preflight.

## 3. Runs

| Run | Instance | Shows |
| --- | --- | --- |
| `browser_bridge` | 2 connections, 2 good requests and a malformed one | the inductive invariant, no lost waiter, own answers, only the owner detaches; `BrowserDaemon` implements `RequestService` |
| `browser_dead_transport` | as above | violation: `TransportIsLive` |
| `native_bridge` | 2 hosts one after the other, the first with failing writes, 2 good requests and an oversized one | the inductive invariant, `RequestService`, live transport, config.json right although other processes rewrite it (`RoutingAgrees`), every request answered or its reply lost |
| `helper_daemon` | 2 requests and an oversized one, pipe of 1, every mode, the key in the file or in the keychain | the inductive invariant (one helper, each request in one place), a failed start undone, loss recorded, own answers while in step, `PipeService`, answered unless stuck |
| `helper_late_answer` | 2 requests | violation: `OwnAnswer` |
| `config_file` | 2 clients, a daemon, 2 keys, crashes and failures, no keychain | the inductive invariant, metadata writes keep the session |
| `config_keychain` | the same on macOS, no faults, on a file of an earlier release with or without a date | whole sessions, ages |
| `config_keychain_metadata` | 1 client, a daemon, macOS | violation: `MetadataKeepsSession` |
| `auth` | 2 commands, 2 ports, 2 key exchanges, 1 restart of the daemon | only agreed keys stored, no old session, what may take the address away, own answers while in step, every command ends |
| `extension` | 3 sockets at a time, 2 requests, 1 lost connection, any number of saves | the inductive invariant, order, no hopeless wait, never stranded, own answers while connected, settles, drains |
| `native_broker` | a login and 2 other commands, 2 brokers, a backlog of 1, 2 attempts to connect, 1 fault | the inductive invariant, one broker, `ApprovalService`, every command ends |
| `host_setup` | 2 installs with 2 daemons on one port, or an install and an uninstall with 2 daemons on different ports; 1 fault | the inductive invariant, an install heals, the host returns unless its helper hangs |

### Why the bounds are enough

* Two connections suffice for every replacement: the bridge refers to one of them,
  and what happens to a third is what happens to the second. The theorems on the
  bridge have no bound. `DiskFailures` names the connections whose task may fail to
  write config.json; in `browser_bridge` none may, as nothing there but the file
  depends on it, and the proofs allow any.
* Two requests show one that is overtaken, timed out or answered late and one that
  could suffer from it. A third adds one that never reaches the peer.
* In the store, two clients and a daemon give a reader between two writers, and
  two keys a second authentication while the first is still stored. `MaxTime = 1`
  with `MaxAge = 0` lets a session expire. The theorems have no bound.
* The pipe of one request is full after one, which is the only thing its size
  decides.
* Two commands give one that gives up and one that suffers from it, or the two halves
  of an authentication with a restart between them; two key exchanges, a session
  that is replaced; two ports, a daemon that is where it was or is not. The theorems
  have no bound. Logouts and re-authentications beyond that are in `ConfigStore`.
* Three sockets are the current one, the one that was given up and the one that is
  about to replace both. `MaxDrops = 1` is one connection lost from outside; saved
  settings, which are not bounded, give up as many more as they like.
* A login and two other commands are one that waits, one that holds up the broker or asks
  through the executable, and one that launches or installs; two brokers are the one that
  serves and the one that takes its name. A backlog of 1 is full after one, two attempts
  are the first and the last. One fault is a process that dies or hangs at each step.
  Two logins and two further commands of one kind are among the instances; two
  installs are not, as `HostSetup` has that case. The theorems have no bound.
* Two installers are one and the one that overlaps it, or follows it on what it left
  behind; two daemons are one and the one that takes its name. Whether they share a
  port decides if the second one fails after it has taken the name.

`CHECK_DEADLOCK FALSE`: each connection, request and key is used once, so every model
runs out of things to do; the native daemon's start and a failed start of the helper
modes also end the program.

### Fairness

* Daemons: weak fairness of the request loop (`ServeRequest` in native mode,
  `RequestLoop` and `StartUp` in the helper modes). The Tokio runtime polls a ready
  task, and a timer that has expired completes its future. Nothing is assumed of the
  peers, the connection tasks or Apple's helper. Browser mode runs the same loop as
  native mode and is checked for safety only.
* Native start: weak fairness of the wait with its timeout.
* Client: the read timeout of its socket fires and the process goes on. Nothing is
  assumed of the daemon, the helper or the user: a command that waits for its PIN, or
  has not sent anything yet, need not end.
* Extension: timers fire; a connection attempt succeeds or fails; the close of a
  socket is reported; the helper answers, or its end is reported. The last is an
  assumption on Apple's helper: the extension has no timeout of its own, and a
  helper that hangs holds back its queue until the connection ends. The address is
  assumed not to be invalid for ever (strong fairness of a successful timer).
* Broker: commands that are not suspended go on and their timers fire, and the broker's
  loop goes round. Nothing is assumed of the user, so an alert may stay up for ever: the
  broker then serves nobody, and `CommandsEnd` rests on the clients' timeout. A command
  whose one-shot process has an alert up may wait for ever (`asking`).
* Host: launchd starts a job's process that is not there, provided that the bundle is
  complete; the process, when it is not in a call to the helper, notices the end of its
  connection and tries to connect again and again; a daemon's accept loop goes round.
  Nothing is assumed of the commands or of the helper. `HostReturns` asks that the daemon
  keeps serving, keeps its socket's name, that the host stays installed, and that it comes
  back from the helper again and again (`[]<>~asking`): with a helper that hangs, it never
  reconnects.
* `AnsweredOrStuck` is conditional: `write_frame` has no timeout, and a helper that
  stops reading blocks the daemon once its pipe is full (`Stuck`).

## 4. What the violations show

1. `browser_dead_transport`. An error in a connection task leaves
   `handle_browser_bridge_connection` before its clean-up. The bridge keeps the
   status `attached`, and the pending request is only ended by its timeout.
2. `helper_late_answer`. After a timeout the daemon keeps the pipe. The late answer
   goes to the next client, and all later answers are one behind. Up to the first
   timeout every client gets its own (`OwnAnswerInStep`), and at all times an answer
   is handed out at most once and in the order of the questions (`PipeService`).
3. `config_keychain_metadata`. On macOS a write that carries no user and no key
   deletes the keychain item and keeps the user in the file. The daemon makes such
   a write at every change of the bridge status, so the session is gone.

Found while modelling, without a run of its own:

* A metadata write that read the file before a logout writes the session back after it.
  On macOS the keychain item is gone by then, unless another authentication wrote one.
* The close of the extension's WebSocket fails the request that is with the helper but
  keeps the port. Its answer is then sent for the next request.
  `OwnAnswerWhileConnected` is what holds.
* A second broker is started when a launch meets a full backlog, or comes before the first
  broker listens. The first then serves the connections it has, under no name.
* A login whose command gave up keeps its place in the broker's backlog: its alert comes
  up afterwards, and the answer is written to a closed connection.
* A daemon in native mode removes the socket of one that runs before it finds the UDP
  port taken, and one that gives up on its host removes whatever the path names by then.
  The daemon that lost its name keeps its host until the connection ends.
* The daemon serialises `request_id` (`rename_all` on an enum renames its variants,
  not their fields, daemon.rs:96) while the extension requires `requestId`
  (bridge-controller.js:226). Each side's tests use its own spelling. The models
  take each side with the messages its tests use.
* `SettlesUnlessSaved` needs its condition. After a single save of the settings the
  late close event of the old socket drops the new one, which is still open; the
  reconnect replaces it at the daemon, whose close event drops the next one, and so
  on: TLC shows the cycle when the condition is removed.
* In browser mode two connection tasks write their snapshots outside the lock, so
  config.json may keep the older one. The model has that race, and no property excludes
  it. `RoutingAgrees` is stated for native mode, where one task writes all of them, for
  the times at which its last write has succeeded (`WritesSucceed`; a write that fails is
  not repeated), and at which no other process has written back what it had read before
  (`behind`). Such a process is an authentication: `verify_challenge` writes the bridge
  fields it read, and they stay until the bridge changes again.
* `apw auth logout` removes config.json, and with it the address of the daemon. A
  daemon on another port than the default is not found again until it is restarted.
* A read of a file older than `SESSION_MAX_AGE_MS` removes it, address included, and
  nothing refreshes `createdAt` but an authentication: a daemon on another port that runs
  for longer than 30 days is lost to its clients at the next read.
* A session of an earlier release without `createdAt` does not age until the first
  metadata write. `NeverExtended` exempts it up to then, and holds it to that date after.
* A failed start, or a dry run, that gets as far as recording its launch deletes the
  keychain's key of the session it means to leave alone. `FailedStartUndone` is stated for
  a key in config.json.
* An error of `try_wait` ends a start, and leaves the helper it launched running.
* The host waits for its helper without a timeout. If the helper hangs, the host neither
  sees its connection end nor connects to the daemon that runs next.
* `verify_challenge` writes back the host and port its process read when it started. If
  the daemon was started on another port while the user typed the PIN, the old address
  is in the file again. `AddressKept` says that a logout, this and a stale read are all
  that loses the address.
* A verification that is over when the daemon is started anew is stored after the
  start has cleared the session; the new helper refuses it. `NoOldSession` says that
  nothing else keeps a session across a restart.
* If `settingsStore.load` fails, `started` stays set, and nothing connects until the
  user saves settings. `NeverStranded` is conditional on the load for that reason.

## 5. Proofs

All theorems are of the form `Spec => []P`, `Spec => [][A]_vars` or `Spec =>
AbstractSpec`, for every value of the constants that satisfies the module's
assumption (a sentinel is none of the values it stands beside, the classes of requests and
connections are subsets, the bounds are numbers, the flags are Booleans; nothing is
assumed finite).

* `BrowserDaemonProofs`, on the bridge: `BridgeInv` is inductive under every operation of
  the bridge and the loop. `Coherent` and `NoLostWaiter` are not inductive by
  themselves: a lost waiter is excluded because the loop waits only for the head of
  the queue (`WaitsForHead`), and own answers because a oneshot only carries its own
  request's result (`OneshotsOwn`). The lemmas are stated per operation, on
  `baseVars`, so that both daemons cite them.
* `BrowserDaemonProofs`, on browser mode: `BridgeInv` for the browser daemon
  (`BrowserBridgeInvariant`), its conjuncts, the action property `OnlyOwnerDetaches`
  (the transport goes only in a step that takes its owner out of its loop with the
  pending senders in hand, or to a connection that just said hello), and the refinement
  `BrowserImplementsService`: each step is `Receive`, `Produce` or `Reply` of
  `RequestService`, or leaves its variables alone. What `RequestService` promises is
  proved of it once (`ServiceAnsweredOnce`, `ServiceInOrder`, from `QueuedOnce`: a
  request is in the queue once, and not after its answer), and carried over to both
  daemons: no second answer, no answer out of turn.
* `NativeDaemonProofs`: `NativeInv` adds that one connection task lives at a time
  (`OneTask`), that a task leaves the bridge before it ends (`LeavesBeforeEnding`) and
  that a copied snapshot is still the bridge's (`SnapshotIsFresh`). From these follow
  `HostTransportIsLive`, whose like is false in browser mode, and, with what another
  process holds in its hands (`HeldAgrees`), `RoutingAgrees`.
* `ConfigStoreProofs`: `StoreInv`. `WholeSession` rests on `WholeStore`: every pair in
  the file, in a copy of the file a process has read, and in the keychain is whole.
  `NeverExtended` rests on `AgeOK`: a config is never younger than the session found
  through it, including the window in which the keychain item is already new and the
  file is still old, and one without a date only belongs to a key in `undated`.
  `StoreMetadataKeepsSession` has the assumption that there is no keychain, without
  which it is false (the run `config_keychain_metadata`);
  `StoreMetadataKeepsFileSession` says that on every platform only a session whose
  secret is in the keychain is lost that way. Both need that only a read or a logout
  clears the store (`ClearingOp`).
* `AuthClientProofs`: `ClientInv`. `KeyAgreed` is not inductive by itself: the accepting
  answer travels from the helper through the daemon's pipe and the client's socket to
  a command that stores the key one step later, so every acceptance on that way must be
  of an agreed key (`RepliesAgreed`, `AnswersAgreed`, `SessionAgreed`), and the session
  that stores it must be the one compared with it. `OwnAnswers` rests on `LockStep`: up
  to the first timeout the pipes hold the request in service or its answer and nothing
  else, even after clients have given up. `OldSessions` and `AddressStays` follow from
  `ClientInv` step by step.
* `BridgeExtensionProofs`: `ExtensionInv`. `ResponsesInOrder` needs that what was
  answered is earlier than the request with the helper, that one than the queue, and the
  queue than what has not come (`Ordered`); failing everything sends the queue's errors
  in that order. `AnswerToCome` holds on by itself, given the types. `NeverStranded`
  rests on `AttachedIsUp`: a socket that opens cancels the timer even if it is not the
  current one; as it is new to the daemon, the daemon does not hold it but will close
  it. `OwnAnswerWhileConnected` rests on `FirstConnection`: until a connection is lost
  or the settings are saved there is one socket, and the helper has the current request
  and no other. The invariant is proved in two halves, of the helper and of the sockets,
  which meet only in `FirstConnection`, so that a handler is looked at once in each.
* `HelperDaemonProofs`: `HelperInv`. `DeliveredOnce` and `OwnAnswerInStep` rest on
  `HeldOnce` (a request is in one place: the pipe to the helper, the helper, or the pipe
  back), `GivenOnce` (an answer that was handed out is in none of them) and `StepInv`
  (up to the first timeout nothing is held between two requests). `HelperImplementsPipe`
  maps each step to `Ask`, `Deliver`, `Fail` or `Lose` of `PipeService`, or to a
  stutter: what moves from one pipe to the next leaves `Asked` as it is (`AskedPassed`,
  from lemmas on concatenated sequences), and what a torn stream swallows are the oldest
  questions (`AskedRest`, from lemmas on suffixes). `HelperAnsweredOnce` and
  `HelperInOrder` carry over what it promises. `FailedStartUndone` rests on `LaunchInv`:
  only the current backend's helper may run, and a session whose key is in config.json
  is cleared last.
* `NativeBrokerProofs`: `BrokerInv`. A connection is in one place (`HeldOnce`), and
  `DecisionsInv` says that the user has not been asked about what waits and that what is
  about to be written is what the user said; for a command that turns to the executable
  this needs that it has no connection at a broker (`CommandsInv`, `Apart`). From these,
  `NativeBrokerApproves` maps each step to `Decide`, `Release`, `Refuse` or `Fail` of
  `ApprovalService`, or to a stutter, and `NativeBrokerConsent` and `NativeBrokerFinal`
  carry its promises over: only an allowed login ends with a password, none is put to
  the user twice, and the end of one is not replaced. `OneBroker` rests on `StartsInv`:
  without a race nothing is alive when a launch goes on to start a broker.
* `HostSetupProofs`: `HostInv`. `InstallInv` says step by step what an install that is
  alone has put in place, and `NameInv` that a daemon with a bound socket has its name or
  was robbed of it, and that only a host that runs waits for the helper. `InstallHeals`
  follows.

Only model-checked: liveness (`AnsweredOrAborted`, `AnsweredOrStuck`, `CommandsEnd`,
`SettlesUnlessSaved`, `RequestsDrain`, `HostReturns`), which is out of the prover's
reach, and the three violations. Every other property of a run is a theorem.

## 6. Not modelled, and why

* SRP arithmetic: number theory, out of TLC's reach.
* What the Swift native host sends: it is the environment of `NativeDaemon`. Its start and
  its reconnection are in `HostSetup`.
* What `apw status` and `apw doctor` print besides the state of the broker.
* A failing `recv_from`, which ends the daemon, and a failing accept, which ends the
  accept loop of the browser mode.
* Config files that are invalid or too large (what `apw` writes is neither), and the
  keychain item of a file an earlier release left.
* Mode resolution, the command line, wire types, the popup, scripts, the archived Deno
  implementation: no lasting state, or not shipped.

## 7. Plan

Done, in this order: `RequestService`, `BrowserBridge` and `BrowserDaemon` with the
refinement; `NativeDaemon`; `ConfigStore`; `HelperDaemon`; `BridgeExtension`;
`AuthClient`; `ApprovalService` and `NativeBroker`; `HostSetup`; and a proof of every
safety property.

What would add most now:

* `ExtensionService`: `BridgeExtension` with `BrowserDaemon` in the place of its free
  environment, including the two spellings of the request id; then `AuthClient` on it.

## 8. Running

```
tlc -workers 2 -config MCBrowserDaemon.cfg MCBrowserDaemon
tlapm BrowserDaemonProofs.tla
```

The longest runs, `helper_daemon`, `native_bridge`, `config_keychain`, `config_file`,
`extension`, `browser_bridge`, `native_broker` and `host_setup`, take one to two minutes on two cores.
