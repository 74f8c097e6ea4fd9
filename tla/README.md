# The vault bridge agent in TLA+

The agent runs next to a customer's secrets vault. It polls a control plane for
requests ("envelopes"), carries each one out on the vault through a driver, and
posts the result back. Around that loop it keeps a client certificate, watches a
revocation list, and replaces its own binary when a newer build is published.

These modules model that program as its source has it (`src/`, Go). TLC checks
them on small instances, and the TLA+ proof system proves all of the safety properties the
runs check, and every refinement, for every value of the constants that satisfies the
assumptions named in section 4. References such as `poll.go:117` name files of
`src/internal`; `main.go` is `src/cmd/vault-bridge-agent/main.go`.

## 1. The system

| component | source | state it keeps | operations |
|---|---|---|---|
| poll loop | `poll/poll.go` | root context, backoff, one goroutine per envelope with a 30 s context | poll, back off, hand an envelope to a goroutine, dispatch, post the result, heartbeat |
| dispatcher | `upstream/upstream.go` | none | Handle: ping, read, write, delete, anything else is an error |
| drivers | `upstream/*.go` | a cached token (gcp, azure, akeyless, conjur, bitwarden) | Read, Write, Delete, Ping as one or more HTTP requests |
| self-updater | `selfupdate/selfupdate.go` | binary, `.previous`, `.pending`; two goroutines | probe, download, back up, swap, mark, re-exec; check at boot, roll back, clean up |
| client certificate | `clientcert/clientcert.go` | `key.pem`, `cert.pem`, `ca.pem`; the bundle in memory; RootCAs of the transport | Provision, Renew |
| revocation list | `crl/crl.go`, the handshake check of `clientcert.go:111-140` | the revoked set; the pool of open connections | refresh at boot and every hour; check a handshake |
| process | `main.go` | configuration, root context | boot order, SIGTERM, exit |
| metrics | `metrics/metrics.go` | counters | serve them |

How they meet:

- `main` runs `Provision`, makes the transport from its bundle, makes the CRL
  watcher, starts `Renew`, the watcher and the updater as goroutines, and calls
  `poll.Run`; when that returns the process exits, whatever its goroutines do.
- The loop starts a goroutine per envelope. The goroutines share the driver, its
  token cache and the vault, nothing else. The answer of one and the call of
  another are ordered by nothing but the control plane.
- The transport reads the client certificate from the bundle `Renew` replaces and
  asks the watcher's set about a peer, but only when a connection is made; the
  watcher fetches its list over that same transport.
- The updater ends the process (`exec`) without telling the loop, and the loop's
  return ends the updater wherever it stands.

What is hard about each, and what makes it correct:

- *Poll loop.* Handlers run concurrently; a call, a post or a poll can fail on its
  way out or on its way back; a request that was given up on may still arrive; one
  deadline covers the call and the answer. Correct means: a call is carried out at
  most once; a positive answer is true; a caller that waits for answers sees its
  requests carried out in order; every goroutine ends; a signal stops the loop and
  nothing else does.
- *Drivers.* A Write is up to two requests, and other calls come in between; the
  SDK of two drivers sends a request again when its reply is lost. Correct means:
  each call takes effect in one instant or, if it is answered with an error, at most
  once, and a positive answer is true; what a repeated request may do beyond that is
  said and no more.
- *Token caches.* Handlers share a token that runs out while it is in use, behind a
  mutex nobody can be called back from. Correct means: no request leaves with a token
  past its life, no token is fetched beside one that will do, a handler is held up for
  a known time, and a token the service refuses is given up.
- *Names.* Every service has its own alphabet. Correct means: two paths a driver can
  tell apart never meet in one secret, and a name is one the service takes.
- *Self-updater.* Three files change one after the other and the process may end
  in between; a clean-up timer of one upgrade runs while the next may begin; the
  new build may be unable to live. Correct means: what the marker says is true, a
  rollback finds a whole build, a broken build leaves, a good one settles.
- *Client certificate.* Three files are written in place, one after the other, and
  only then is it seen whether they fit. Correct means: the certificate presented
  is never out of date; the next boot serves what this one serves; files that do
  not fit do not keep the agent down.
- *Revocation list.* A refresh may fail, and needs a connection the list may
  forbid. Correct means: a listed peer is shut out after a known time, and what is
  listed reaches the set.

## 2. The modules

| module | what it is |
|---|---|
| `Bridge` | what the loop promises the control plane about one envelope |
| `PollLoop` | the loop, its handlers, the queue and the vault |
| `PollLoopProofs` | theorems about `PollLoop`, its refinement of `Bridge` among them |
| `MCPollLoop`, `MCPollLive` | its instances; the second adds a world without faults for liveness |
| `Register` | what a driver owes the dispatcher about one path |
| `Drivers`, `MCDrivers` | the requests of each kind of driver |
| `DriversProofs` | theorems about `Drivers`, and its refinement of `Register` |
| `TokenCache`, `MCTokenCache` | the token and the mutex the handlers of a driver share |
| `TokenCacheProofs` | theorems about `TokenCache` |
| `SecretNames`, `MCSecretNames` | how each driver spells a path |
| `SecretNamesProofs` | theorems about `SecretNames` |
| `SelfUpdate`, `MCSelfUpdate` | the updater and the check at boot |
| `SelfUpdateProofs` | theorems about `SelfUpdate` |
| `ClientCert`, `MCClientCert` | Provision, Renew and the files |
| `ClientCertProofs` | theorems about `ClientCert` |
| `Crl`, `MCCrl` | the watcher, its set and the connections |
| `CrlProofs` | theorems about `Crl` |
| `Agent`, `MCAgent` | one process: `SelfUpdate` and `PollLoop` composed |
| `AgentProofs` | theorems about `Agent`, from those about its parts |

An operator preceded by a comment `Mutant:` is what a plausible slip in the code
would make of the definition after it. It is used by no specification: it is there
to see that a property notices.

### PollLoop

`loop` is the place of `Run` (`top` before the context is looked at, `polling`,
`sleeping`, `returned`, `down` when there is no process); `h[e]` is the place of the
goroutine of envelope `e` (`start`, `calling` the vault, `respond` with a result,
`posting`, `done`, `killed`). `cancelled` is the root context, `lasted[e]` how long the
context of a handler has been running, from the start of the goroutine to its end
(`Ends`); a handler's context is dead when the one is done or the other has reached
`HandleLimit`.

An HTTP request is two steps of two actors. `HandleCall` puts the envelope on
`wire`; `VaultApplies` takes it off whenever it likes, also long after `CallFails`
has given up on it; `CallReturns` needs the reply. `Post`, `CpReceives` and
`PostEnds`/`PostFails` are the same for a result. A poll is `CpPop` (the control
plane parts with the envelope) and then `PollEnvelope`, or `PollFails` with the
envelope lost. `known[e]` notes which envelopes were answered without error when
`e` was queued; it stands for a caller that waits for answers.

The driver here makes one request per call, as the Vault driver does. `Elapse` is time
passing for one handler. A call goes on for as long as its client lets it, `CallLimit`,
and then has to fail; a post goes on for as long as the context does, and has to fail when
the context is dead. What the call took is missing from the post, because `lasted` is one
count for both. A driver that makes several requests, or has no timeout of its own, can
outlive the handler's deadline: that is an instance with `CallLimit >= HandleLimit`, where
a result is refused before it is posted (`PostRefused`). The steps in between take no time.

The code of the loop does not repeat a request. `net/http` may repeat a GET on a
connection it finds closed, which has no effect on the vault. The AWS SDK repeats any
request, so what this module says of a call, "at most once" and the order of answered
calls, is said of the drivers that send plain requests; `Drivers` has the others.

### Drivers and Register

One instance follows calls of one path. `at[c]` is the request the call waits for,
`reply[c]` its status, `items` what the service holds under the path. A request is
on `wire` until the service serves it. Nine kinds of driver are told apart by the
requests they make (the head of the module lists them); within a kind the drivers
differ in encoding only. Any request may be refused, may be answered with an error
although it was carried out (a gateway), may be lost, and may arrive after its call
was given up.

Two kinds, `ssm` and `sm`, are the clients of the AWS SDK, which `awsssm.go:24-31` and
`aws.go:23-30` build with its default retryer. `Resend` is that retryer: while a call
waits, whether no answer came or an error did, its request is sent again, and the copy
before it goes to `stale`, where it may still arrive (`Straggles`), also after the call
was answered and other calls have come and gone. The retryer stops after three attempts;
the model does not count them, since a number of copies has the effects of one that
arrives as often. A repeated read changes nothing and leaves no stale copy. Secrets
Manager tells a repeated put from a new one by its token, which the model does not use:
it lets more happen than the service does.

`Register` is a register with atomic calls: each takes effect once, in one instant
between its call and its answer, or at most once if it is answered with an error. Two
sets of calls are owed less, and `ImplementsRegister` says which:

- `again`, calls that may take effect more than once, each time in one whole instant:
  every call the SDK may repeat, and an Akeyless write whose create was carried out and
  answered with an error (`mistold`), after which the driver updates as well. So a
  delete that was carried out, whose reply was lost and which is sent again may remove
  what a later write put there, although that write was answered. The abstract register
  takes that step too: it is what the code does and no document of the repository denies
  it. What the property holds such a driver to is that nothing else happens: a call that
  was answered "ok" or "not found" has taken effect, a read returns what the path held in
  one instant, no call takes half an effect.
- `vain`, Conjur's deletes, which answer without a request and change nothing.

The refinement holds step by step until two writes race in a driver that looks an item up
before it uses it (Bitwarden, 1Password): `raced` notes that one looked in vain while
another had looked in vain and not yet posted. Then both post, and the path is two items;
`DuplicatesNeedRace` says that nothing else makes two.

### TokenCache

Five drivers fetch a token (gcp, azure, akeyless, conjur, bitwarden). `at[c]` is the
place of handler `c`: waiting in `Lock`, `locked`, `asking` for a token, in `use` of
one. The mutex is Go's: a newcomer may overtake a waiter that has been woken, until a
waiter loses after a millisecond and the mutex turns fair (`starving`). `Lock` does not
look at a context, so a handler may come out of it past its deadline (`age`).

A token is the time it has left at the service. That time starts when the service makes
it (`ServiceMints`), the cache counts from the answer (`AskReturns`); `Margin` is the 60
seconds in between. `Bad` is a token the service refuses although its time is not up: it
was revoked, or its body was cut short, which Conjur's driver does not notice. No refusal
reaches the cache, so such a token stays until `keepFor` is over.

### SecretNames

A path is the sequence of its characters here, because the spelling is what the module
is about. `Small` are the small letters and the digits, `Capital` is what ToUpper makes of each; with the four marks "/", "_", "-" and "." they are the alphabet.
A spelling is a function from characters to what they become (`GcpCode`, `AzureCode`,
`CapsCode`, `PulumiCode`), and a trim of either end; `SsmName` puts the configured
`Prefix` in front, if there is one. `KeptApart` says for each driver which paths it keeps
apart, and `OwnValue` that of those no two disturb each other. Beyond it paths do meet:
"a__b" meets "a/b" in Secret Manager, "a--b" meets "a/b" in Key Vault, and capitals or any
two characters that become "_" meet in Doppler and Infisical. Whether the service takes
the name is another matter, and `KeptApart` does not look at it: a path with "_" or "." is
among those Key Vault's driver keeps apart, and has a name outside the alphabet the
driver's own comment gives (`azure.go:17-18`). That the service takes a name is therefore
stated nowhere.

### Agent

`Agent` takes the steps of `SelfUpdate` and `PollLoop` and says which of them are one:
a start, an exit of main, a kill and an exec happen to both. `FetchStep` holds the two
updater requests that a done context ends; from the copy of the binary to exec nothing
looks at the context (`Swap`). `late` notes a signal that came in those steps, `cut` a
process that ended, killed or left by main, in the one step between the swap and the
marker. `cut` is all that `UntriedBuildIsWatched` excuses.

### SelfUpdate

Time is counted in minutes. A timer that is due fires before the next minute; an
HTTP exchange takes up to the 60 s of its client; work on files takes no time, but
the process may end between any two steps. `bin`, `backup` and `marker` are the
three files, `img` the build that runs, `boot` the place of `CheckPostUpgrade`,
`clean` the goroutine it starts, `upd` the place of `Run`. A build in `Broken` dies
within a minute of each boot, but not before its check.

`world` is the installation: *kind*; *rough*, where writes may fail, some builds
cannot be executed and releases overlap; *busy*, where a running executable cannot
be opened for writing. `applicable` makes that very test (`selfupdate.go:393`), so
on a busy system the updater switches itself off. Most Linux kernels are busy
(`ETXTBSY`), which the package's comment does not name among the reasons to skip. That
comment also speaks of "the cosign signature" (`selfupdate.go:7-8`); the manifest's field
for it (`selfupdate.go:62`) is read by nothing, so a download is checked by its sum alone,
and `DownloadFails` stands for that check.

### ClientCert

The files hold the identity of a certificate, `Absent` or `Torn`. `os.WriteFile`
truncates and then fills, two steps. Provision and Renew share the program counter,
since `main` runs one before it starts the other; `up` tells them apart. `left` is
how long a certificate still lives, `trusts` the RootCAs of the transport. A failure
to sign sends Renew to its 30 minutes of sleep; a failure to write or to mount sends
it straight to the top of its loop, as in the code, where the wait may be a minute.
A certificate in `bad` cannot be mounted, which Renew finds out after it
has written the files: from there on the directory holds that certificate, the process
serves another, and the next start ends with the mount's error.
`DiskFollowsMemory` and `MountDiesOfCut` say that this, one bad certificate whole on disk,
and an installation that was cut short are the only two ways in which disk and memory come
apart or Provision dies of the disk; files of two certificates that no cut has mixed are
neither.

### Crl

A request goes over an open connection or over a new one, whose handshake asks the
set about the certificate the peer presents. So a connection that is kept alive
outlives the revocation of its peer; the module leaves it open for as long as it
likes. `missed` notes listed certificates whose refresh failed. The watcher runs
only when the certificate directory names the workspace (`main.go:119-146`). `main` does
not wait for the first refresh, although two comments say so: `crl_boot` is the poll that
goes out before it. What is left of the promise is in `RevokedPeerShutOut`: while that
first refresh is under way, and that is no longer than the client's timeout, a listed peer
gets a connection.

## 3. The runs

Each passing run has one `.cfg` named after it; each of its properties has a mutant
that breaks it under the same `.cfg`.

| run | states | what it asks |
|---|---|---|
| `poll_calls` | 925 000 | a write, a delete and a read of one path, a driver as slow as the deadline, every fault, two lives of the process: `AtMostOnce`, `AnsweredMeansApplied`, `AnswerOrdersCalls`, `ReadSeesAnsweredWrites`, the invariant of the proofs, and `ImplementsBridge` |
| `poll_live` | 113 000 | time in units of 15 s, a call of one and a deadline of two: `OnlyShutdownSilencesHandler`; backoff of 4, 8 and 12 (`PauseMatchesFailures`); `HandlerEnds`, `KeepsPolling` with every fault, `EveryEnvelopeAnswered` with none |
| `drivers_calls` | 341 000 | two writes, a delete and a read through every kind of driver, with one write where the SDK repeats requests: `ImplementsRegister`, `DuplicatesNeedRace` |
| `tokens_mutex` | 130 000 | three handlers and one cached token: `SentTokenLives`, `FetchesWhenNeeded`, `HeldUpAtMost`, `CallsEnd`, `RefusedTokenLeaves`, and the invariant of the proofs |
| `names_apart` | 636 000 | every pair of paths of up to three characters, through every spelling: `OwnValue` |
| `update_upgrades` | 37 000 | two releases, a broken build, two kills, three kinds of system: the files fit together (the invariant of the proofs, `MarkerTellsTruth`, `UpgradeSwapsWhole`, `MarkerGoesWithCause`), a broken build leaves, a good one settles |
| `agent_exec` | 285 000 | an upgrade, a signal, a kill and a restart around one write: `ImplementsBridge` across exec, `ForgottenOnlyInSwap`, `SignalEndsProcess`, `UntriedBuildIsWatched` |
| `cert_renewals` | 712 000 | installations cut short anywhere, bad certificates, an anchor that rotates: `NeverLapses` with its invariant, `DiskFollowsMemory`, `MountDiesOfCut`, `BootTrustsItsAnchor`, `AgentComesBack` |
| `crl_watch` | 16 000 | the invariant of the proofs, `RevokedPeerShutOut`, `ListedReachesCache` |

Three runs end with a violation on purpose: the code does not do what a line of the
repository says.

| run | the line | what happens |
|---|---|---|
| `update_panic` | `selfupdate.go:160-162` reverts to the previous build | `reportOutcome` uses the `HTTP` of a Config that only `Run` completes, in a copy of its own: the boot that rolls back dies, and the build put back runs at the boot after |
| `cert_trust` | `clientcert.go:63-64` the bundle is what "the HTTP transport reads on every request" | `RootCAs` is read once, so a renewed anchor is not used before a restart |
| `crl_boot` | `main.go:120-122` "a refresh has to happen at least once before the first vault call", and `crl.go:69-70` | the watcher is a goroutine nobody waits for: the first poll may be sent before, to a peer long revoked |

`crl_boot` asks about a step and takes the specification with fairness all the same, so
that what it shows is not an agent that just stopped.

Other lines of the repository that the code does not keep; they have no run:

- `poll.go:93` logs "shutdown — waiting for in-flight envelopes" and `Run` returns at
  once, and main with it: envelopes taken from the queue may get no answer, which `Bridge`
  allows;
- `onepassword.go:15-16` says that each path "is one item": two concurrent writes of a new
  path both look, both find nothing and both post (`onepassword.go:107`, and
  `bitwarden_sm.go:97` in the same way). `DuplicatesNeedRace` is about that race;
- `azure.go:17-18` says that a name takes `^[0-9a-zA-Z-]{1,127}$` and that the rewriting is
  for that: `azureName` keeps the "_" it rewrites and passes "." on;
- `selfupdate.go:139-140` keeps the backup for the next boot to roll back to: the error of
  `copyFile` is ignored (`selfupdate.go:142`), so where a disk fails a rollback may put back
  half a build, and after an exec that failed the backup is of a build that was never
  replaced;
- `selfupdate.go:174-176` leaves the marker for a crash on trial to be found: where releases
  overlap, the clean-up goroutine of one upgrade removes the marker of the next, which came
  within its two minutes;
- `clientcert.go:6-8`: "On every subsequent start the agent reloads them". Renew writes its
  files before it tries to mount them, so one bad certificate replaces a good one on disk
  and the next start dies of it (`MountDiesOfCut` has it as its second case);
- `clientcert.go:143`: "Failures retry every 30 minutes". A failed write or mount goes back
  to the top of the loop, and is tried again in a minute;
- `selfupdate.go:7-8` speaks of a signature, and none is verified.

Seen on the way:

- a delete or a put that the AWS SDK repeats may undo a later call that was answered
  (`again`);
- an upgraded build that is stopped cleanly within its first two minutes and started
  again after more than five is taken for a crash loop and rolled back: the clean-up
  goroutine leaves the marker, and the check asks for its age only;
- a build is declared healthy for having been up for two minutes, whether it polls or
  not;
- main may return between the swap and the marker (`cut`), and then nobody watches the
  new build, as after a kill;
- a path without a letter or a digit gets an empty name from Doppler; the inversion "on
  read" of `gcp.go:25` and `azure.go:19` is never needed and never made;
- a Conjur body that breaks off is taken for the whole, as a token (`AskTorn`) and as a
  value (`conjur.go:69`);
- a handler that is overtaken in the mutex can be held there for `HandleLimit` and one
  client timeout more, and then ends with nothing but an error (`HeldUpAtMost`);
- if an answer names no life for its token, or one of a minute or less, every handler
  fetches its own token, one after the other (`KeepTime`);
- the jitter comes after the cap, so a pause can be a quarter longer than
  `MaxBackoff` (`PauseMatchesFailures` states the real bound);
- a call that uses up the 30 s leaves no time to post its result;
- a young marker does not roll back at the second boot; five minutes must pass, and
  a build that was rolled back is fetched again by the first probe;
- a rollback can put back half a binary, and nothing else can (`UpgradeSwapsWhole`);
- a kill between swap and marker leaves a build nobody watches, and if that build is
  broken it stays. `UntriedBuildIsWatched` of `Agent` excuses that one kill and no other.
  `ReleaseSettles` of `SelfUpdate`, which does not keep `cut`, excuses a broken build
  without a marker after any kill (`crashes > 0`): that no other kill leaves one is for
  `UntriedBuildIsWatched` to say;
- after a kill between two files Provision fails at every boot until the
  certificate has an hour to live (`MountDiesOfCut`, `AgentComesBack`);
- a backup that is cut short, or of a build never replaced, takes a system whose disk
  fails or that refuses to execute a build; on a kind one `MarkerTellsTruth` rules both
  out.

### Bounds, and why they are enough

- *Envelopes*: what can go wrong between envelopes goes wrong between two of one
  path, or between an answered change, a second change and a read. Two suffice for
  the first, three for the second, and the third is queued only in the first life of the
  process and when no time has passed (`MCSpec` of `MCPollLoop`): what depends on a restart
  or on a deadline needs two. An operation no driver knows is in `poll_live`, beside a write.
- *MaxStarts* 2: one restart, with requests of the first life on the wire. Nothing is
  kept on disk, so a third life meets what the second met.
- *MaxFails* 3 with backoff 4, 8, 12 (poll): doubling, the cap inside a doubling, and
  staying at the cap. Where the backoff does not matter it is 1.
- *CallLimit*, *HandleLimit* 1 and 2 units of 15 s where the deadline is looked at: a call
  that takes all its client allows and a post that takes what is left. 1 and 1 in
  `poll_calls`, for a driver as slow as the deadline.
- *Call*: two writes, a delete and a read: every pair of operations, and two writes
  around the delete. One write where the SDK repeats requests: a repeated delete after a
  write, a repeated write after a delete, and a read beside either.
- *Handlers* 3 (tokens): one asks, one waits, one overtakes. A unit is the 15 s of a
  client's timeout, so that the deadline is 2 and the margin 4; lives of 3 and 6 are one
  below and one above the margin. `CacheAssumption` says what the instance keeps of the
  code's numbers.
- *Paths* of up to three characters (names), from two letters, "/", "_", "-" and ".":
  every spelling replaces single characters, so two paths that meet do so in the
  neighbourhood of one replaced character. Pairs, because a collision needs two. The
  instance has a prefix for the Parameter Store; the theorems have any, and none.
- *Agent*: one write, one release and one kill; what an exec does to an envelope does not
  depend on how many there are, and `poll_calls` has the interplay of envelopes. The
  system is kind: the others are in `update_upgrades`.
- *MaxReleases*, *MaxCrashes* 2 (updates): an upgrade after an upgrade, or over one
  that was cut; a kill during an upgrade and one during the rollback that follows. A
  probe every 8 minutes is longer than a trial (2), a stale marker (6) or an upgrade
  (5), as the hour between probes is.
- *Gen* 4: the three files and the process may each hold a certificate of their own.
  One certificate at a time cannot be mounted, and the anchor moves once.
  The times 6, 5, 4, 2, 1 keep the order of 24 h (whatever is issued), 6 h, 60 min,
  30 min, 1 min, with a margin for exactly one failed renewal, as in the code.
- *Cert* 2, period 5, timeout 2: two fetches fit into a period with time to spare, as
  in an hour with 30 s. One certificate of the set is never listed, so that the
  control plane has something to present.
- Cut-off counters (`age`, `since`, `uptime`, `fails`, `boots`) stop one above the last
  value any guard or property tells apart.

Deadlock is checked for `ClientCert` and `Crl`, which never stop. It is off for
`PollLoop` and `Agent` (the last process may be down), `Drivers` (every call returns) and
`SelfUpdate` (a build on disk may not be executable).

### Fairness, and why the code justifies it

- *PollLoop*: goroutines are scheduled, timers fire, and a poll, a call and a post
  end one way or another because the client and the context have deadlines: weak
  fairness of each such step. Nothing is assumed of the services, except in the calm
  world of `poll_live`, whose point is a world that works.
- *SelfUpdate*: a supervisor starts the agent again (systemd, whose restarts
  `selfupdate.go:188-190` counts on), its goroutines run, a broken build dies. Strong fairness for
  `Tick`, because a process that keeps being restarted does not stop the clock, and for
  a manifest and a download that are asked for again and again.
- *ClientCert*: the same supervisor and clock; strong fairness for a certificate that
  works, since the control plane is asked at every boot and at every renewal.
  `AgentComesBack` assumes in its formula that kills and failed writes stop.
- *TokenCache*: goroutines are scheduled, the client's timeout ends a token request, and
  time passes: weak fairness of each handler's steps and of the clock. The service may
  never answer.
- *Agent*: main and the check at boot are scheduled and a poll ends. Nothing is assumed
  of the updater: `SignalEndsProcess` holds whatever it does. A process whose context is
  done does not see another minute, since the done context ends every wait and only
  work that takes no time is left.
- *Crl*: the ticker and the clock; strong fairness for a connection and a refresh that
  work, and a control plane that does not present what it has listed for ever. The
  last is needed: an agent that has listed the peer's certificate cannot fetch a
  newer list until the peer changes it.

## 4. What is proved

The theorems hold for every value of the constants: any number of envelopes, calls,
handlers, certificates, builds, restarts and failures, and any times that satisfy the
assumptions named here. Each module of proofs goes the same way: an invariant that is
inductive, a lemma for each of its parts, and the properties from it. TLC checks the
invariants first; they are in the runs, except for those of `Drivers`, `Agent` and
`SecretNames`, which were checked on the instances of `drivers_calls`,
`agent_exec` and `names_apart` and have theorems only.

### The loop: `PollLoopProofs`

From `EnvAssumption` and `BackoffAssumption` alone:

- `TypeCorrect`, `CoreHolds`, `InductiveHolds`: `Spec => []TypeOK`, `[]Core`, `[]Inductive`.
- `CallsAtMostOnce`: no call is carried out twice.
- `NoAnswerBeforeEffect`: an answer other than an error follows its effect.
- `CallsFollowAnswers`: a call queued after an answer is carried out after the call
  that was answered.
- `OnlyShutdownSilences`: if `CallLimit < HandleLimit`, only a shutdown keeps a handler
  from posting its result. It comes of `DeadlineInv`, which counts: until its call has
  returned a handler has lasted no longer than a call can.
- `ReadsSeeAnsweredWrites`: a read queued after a change of its path was answered sees
  that change or a later one.
- `PausesMatchFailures`: if `FailsTellAll`, the sleep after the n-th failure in a row is
  within a quarter of `MinBackoff * 2^(n-1)` cut at `MaxBackoff`.
- `LoopImplementsBridge`: `Spec => ImplementsBridge`. Initial states map to initial
  states, each step of the loop to a step of `Bridge` or to none.

None of these is inductive alone. "At most once" needs that a request on the wire has
not been carried out (`CallInv`), which needs that no second goroutine sends it
(`PlaceInv`: an envelope is in the queue once, or in one response, or with one
goroutine), which needs that a response dies with its poll and a goroutine with its
process (`PlaceInv`, `LifeInv`). The order of calls needs `KnownInv`: what is known to
be answered has had its effect before the envelope that knows it was queued. `Core` is
the conjunction of these. The refinement needs `AnswerInv` too: a result is on its way
only while nothing was answered. What a read sees needs `SeenInv`, which ties the vault
and every `seen` to the sequence of effects: each holds the last change of the path
before it.

The code doubles a number and cuts it; the property speaks of a power of two.
`BackoffInv` ties `backoff` to the number of failures in each place of the loop, and its
steps need that 2^(n+1) is twice 2^n. The prover knows a power by its notation only, so
`PowerDoubles` finds that out by counting: 2^n is the number of subsets of a set of n
things, and with one thing more each subset is there twice. `FailsTellAll` is about the
bound of the model and not about the code: `fails` stops at `MaxFails`, and where it stops
the backoff must have reached its cap (seven failures, for the code's 1 s and 60 s).
`Inductive` is the conjunction of `Core`, `AnswerInv`, `SeenInv` and `BackoffInv`.

### The updater: `SelfUpdateProofs`

From `UpdateAssumption`:

- `UpdateInductive`: `Spec => []Inductive`.
- `MarkersTellTruth`, `UpgradesSwapWhole`, `MarkersGoWithCause`: what a marker says, that
  an upgrade never leaves half a binary, and why a marker goes.

`UpgradeSwapsWhole` speaks of every kind of system. That a rollback begins only where there
is a marker and the updater is at work (`PlaceInv`) is what it takes on a busy and a rough
one; on a kind one no rollback may leave half a build either, and that is because the
backup is whole then (`FilesInv`). The other two speak of a kind one, and there `FilesInv`
says for each place of the updater and
of the check which of `bin`, `backup`, `marker` and `img` agree. It is not inductive
without the clocks: an upgrade that began while the marker of the last one is there would
overwrite the backup the marker speaks of, and a clean-up left over from the last one
would take the new marker away. `TurnInv` says that neither is left when an installation
begins, `TimerInv` why: the trial begins with the process, so its timer fires before the
second probe, and the first probe, a minute after boot, finds the manifest's own build
running. That is where `PollEvery > 1` comes from, which the proof needed and the instance
had hidden: with a probe every minute the second one would run beside the clean-up. The
code has an hour in it (`main.go:83`, `selfupdate.go:73-75`).

### The process: `AgentProofs`

From `AgentAssumption`, the assumptions of the two parts:

- `AgentImplementsBridge`: the process with its upgrades, rollbacks and signals still
  implements `Bridge`.
- `UntriedBuildsAreWatched`, `SignalsOutliveDownloads` (the property
  `ForgottenOnlyInSwap`).
- `UpgradesKeepCalls`: what `PollLoop` says of calls and answers (`AtMostOnce`,
  `AnsweredMeansApplied`, `AnswerOrdersCalls`) outlives the exec of a new image.
- `SignalsKeepMarkers`, `SignalsDropNoMarker`, `SignalsSwapWhole`: what `SelfUpdate` says
  of files (`MarkerTellsTruth`, `MarkerGoesWithCause`, `UpgradeSwapsWhole`) holds in a
  process that may be signalled in the midst of an upgrade.
- `AgentInductive`: `Spec => []Inductive`, the invariant of the process.

The two parts are instances here, and the lemmas about their steps are those of
`PollLoopProofs` and `SelfUpdateProofs`, instantiated: every step of a part keeps that
part's invariant, and leaves the other's variables alone. What is left to prove are the
steps in which they meet: a start, a signal, main's return, a kill, and exec, which is a
restart to one and the last step of an upgrade to the other. For that reason the lemmas
about the end of a loop take any end of the process. A context that is done stops the
updater's waits and requests but not its work on files, so of `SelfUpdate`'s invariant the
clocks (`TimerInv`) hold in a process that has not been signalled, and `SwapInv` says that
nobody comes to the swap after a signal. `TrialInv` follows the builds that have
lived through a trial: until the process ends between a swap and its marker (`cut`), by a
kill or by main's return, only they install others, are backups, or run without a marker.
Kills at any other step are in the theorem like everything else.

### The certificate: `ClientCertProofs`

From `CertAssumption`:

- `CertInductive`: `Spec => []Inductive`.
- `CertificateNeverLapses`: the certificate presented has not expired.
- `DiskFollows`: unless an installation was cut short, between renewals the three files are
  of one certificate, the one served or one that Renew wrote and could not mount.
- `MountDiesOnlyOfCut`: Provision dies of the files only after an installation that was cut
  short, or when all three are of one certificate that cannot be mounted.
- `BootTrustsAnchor`: a boot trusts the anchor that came with its certificate.

`LifeLeft` says, for each place Renew can be in, that the certificate in use lives at
least as long as the wait it is in, plus what `MaxFails - fails` more failed attempts
take. The assumption `MinWait + MaxFails * (Retry + MinWait) <= Margin` is the code's
60 minutes against its minute and its half hour; with the code's numbers `MaxFails` is
1, so the theorem speaks of renewals that do not fail twice in a row with a
certificate reused at the margin. `FilesInv` relates each file to the place of the
installation: until one is cut short, the files already written are of the fresh
certificate, and outside an installation all three are of one.

### The token cache: `TokenCacheProofs`

From `CacheAssumption`:

- `CacheInductive`: `Spec => []Inductive`; `TokensAlwaysLast` is its part about tokens.
- `SentTokensAlwaysLive`: no request leaves with a token past its life.
- `FetchesOnlyWhenNeeded`: no token is fetched beside one that can be used.
- `HeldUpByOneRequest`: behind the mutex a handler outlives its deadline by one request at
  most (`HeldUpAtMost`).

`SentTokenLives` speaks of tokens in use only. Those come from the cache, whose token
must live for `Margin - ClientTimeout` beyond the time it is kept (`KeepInv`); it got
there by a request, whose grant may have aged by the time the request took (`GrantInv`),
and that is bounded because the request is the only one (`LockInv`) and ends with its
client (`spent`). The assumption `Margin >= ClientTimeout + HandleLimit` is the code's
60 >= 15 + 30; the lives of all tokens are assumed longer than a handler's deadline, and
those of Akeyless and Conjur longer than the time written in the code by the margin.

How long a handler waits is a matter of who came before it. `LineInv` keeps the line in
order of age. `WaitInv` says that a handler in `token()` is older than all that wait, so
that its deadline ends its request before theirs are over, or that it overtook them; then
the mutex is starving, nobody else overtakes, and the one request is all they lose.

### The revocation list: `CrlProofs`

From `CrlAssumption`: `CrlInductive` (`Spec => []Inductive`) and `RevokedPeersShutOut`.
`ClockInv` says how ticker, refresh and process relate in time: the first refresh has no
ticker and is as old as the process, a later one began when the ticker was wound up.
`ListInv` adds up what that leaves of a certificate that was listed and is not in the
set, for each place of the watcher: up to a fetch and a period while it waits, a fetch
more while it asks.

### The drivers: `DriversProofs`

From `DriverAssumption`:

- `DriversImplementRegister`: every kind of driver implements `Register` until two writes
  race for an item neither has made, for any number of calls.
- `DuplicatesComeOfRaces`: two items of one title need such a race.
- `DriversInductive`: `Spec => []Inductive`.

`WireInv` (a call counts on one request at a time, and its answer comes after it) and
`RequestInv` (a request fits its operation, and stale copies are the SDK's) hold whatever
happens. `PostInv` holds until a race. Until then `AnswerInv` says for each answer whether
the call it comes to has taken effect, except for calls that may do so again, which is
what makes the rest of a driver's requests harmless, and `LookupInv` that an item that was
looked up is there to be used, or went by a delete that took the reads and deletes behind
it along: an item's id is never used twice. Every request of a driver then is the
register's one effect of its call or nothing, and a stale copy is one more instant of a
call in `again`.

### The names: `SecretNamesProofs`

From `NamesAssumption` (marks are no letters, ToUpper is one-to-one on small letters and
digits), for any alphabet with that, any prefix and paths of any length:

- `PathsKeepTheirSecrets`: `Spec => []OwnValue`.

`OwnValue` comes to this: two paths that a driver keeps apart have one name only if they
differ in leading slashes alone (`NamesFollowKeys`). A spelling replaces characters from
one end to the other, so that is an induction over the length of a path. The provers
cannot instantiate an induction rule with a predicate, but they can with a set: `Induct`
says that a set of numbers that holds 0 and each successor is all of Nat, from the
well-foundedness of < on the numbers, and each induction names the set of lengths for
which its claim holds. `SpellIsLast` does the same for the flattening of a sequence of
sequences, which recurs, and gives `SpellAppend`: a spelling grows by the code of the
character its path grows by.

Doppler, Infisical and Pulumi replace one character by one, and are one-to-one as their
codes are (`EachApart`), provided the ends hold nothing the trim takes (`EndsKept`).
Secret Manager and Key Vault double a mark: "/" becomes two of a character z that may
stand alone as well, and Key Vault's driver puts a "_" between two of it (`Doubling`).
The names are read from the end. Two names whose paths end in the same character go on
with the same rest (`EndingCuts`). If the characters differ, a name that ends in z z comes
of a slash unless its path holds z beside z or beside a slash, which is what `KeptApart`
excludes (`EndsApart`), and no name of a shorter path ends in a framed character, because
z closes the frame (`FrameCloses`). So the last characters are the same (`LastsDiffer`),
and the rest is by induction (`DoublingApart`). The paths named in section 2 show what
happens without these conditions.

### Only model-checked

- Liveness and whatever needs fairness: `HandlerEnds`, `KeepsPolling`,
  `EveryEnvelopeAnswered`, `CallsEnd`, `RefusedTokenLeaves`, `BrokenBuildLeaves`,
  `ReleaseSettles`, `AgentComesBack`, `ListedReachesCache`, `SignalEndsProcess`. The
  prover reasons about steps, not about fairness.

Every invariant and every action property of the runs is stated by a theorem. The
theorems on liveness would need ENABLED of the actions that are fair, which the prover
does not have.

## 5. What is not modelled

- *Ping* of the drivers, the encoding of values, and bodies of values that break off.
- *Keeper*: a stub in the default build; the tagged build leaves every request to an SDK
  that is not part of the repository (and names a `FolderUID` in a comment that nothing
  uses, `keeper_sm_sdk.go:62-65`).
- *Heartbeat*: a ticker whose failures are ignored and which shares no state.
- *Metrics*, reading of the environment, flags, logging, the tarball's format, X.509.
- The number of handler goroutines, which the code does not bound.

## 6. Plan

Done: the loop with its promise, the drivers as protocols, their tokens and names, the
updater, the certificate, the revocation list, the process that holds the loop and the
updater; the safety properties and the refinements of all of these are proved.

What is left to model is small: `ClientCert` and `Crl` in one process, so that a kept
connection outlives a renewal too; the heartbeat beside them.

What is left to prove: a theorem on the rough system of `SelfUpdate` beyond
`UpgradesSwapWhole`, which needs a statement first: with overlapping releases
`MarkerTellsTruth` is not true there.
