# Vepeen: a verification project

Vepeen is a desktop program that connects an existing L2TP/IPsec profile of the
operating system with split tunnelling: it edits the profile's routes, dials it,
shows its state and its traffic, and keeps settings and credentials in an
encrypted file. This directory holds TLA+ models of it, their TLC runs, and
theorems about them with TLAPS proofs. Paths below are relative to `src/`.

    tlc -workers 2 -config Controller.cfg MCController          # a run
    tlapm ControllerProofs.tla                                  # a proof

`PROJECT.json` lists the components, the runs, the hazards each property is for,
the lines every definition models, and one mutant (a plausible slip in the code,
defined beside the action it changes) per checked property.

## 1. The system

| Component | Where | State | Operations |
|---|---|---|---|
| Connect call | `internal/vpn/manager.go`, `internal/vpn/win`, `internal/route/sync_windows.go` | none of its own; the profile's split flag and routes, the tunnels, the adapter's routes, one registry value | `ConnectFull`: NAT-T check, parse, resolve, hang up the others, set the flag, synchronise routes, dial, enforce; `DisconnectFull`; `Status` |
| Destination lists | `internal/route/parse.go` | none | parse and normalise, resolve domains |
| Session of the window | `internal/ui/main_window.go` | `state`, `busy`, `cancelConnect`, the selected profile, the tickers' stop channels | connect, cancel, disconnect, save, pick a profile; start-up probe; clean-up after a cancel |
| Settings of the window | same file | the form, `c.stored`, goroutines with copies of it | edit, save, auto-save at connect, store credentials at the end of a connect |
| Store file | `internal/config/config.go` | `vepeen.bin`, `vepeen.bin.tmp` | `SaveStored`, `LoadStored` |
| Legacy migration | `config.go`, `internal/secrets` | `config.json` in two places, Credential Manager entries | when a load finds no store: read the sources, save the import, purge them |
| Encryption | `internal/config/dpapi_*.go` | macOS: a key in the keychain | encrypt, decrypt, find or mint the key |
| Traffic tickers | `main_window.go`, `win/traffic_windows.go`, `win/connections_windows.go` | a goroutine per connection with its baseline, `tickBusy`, a poll | start, stop, tick, sample, poll |
| Ping ticker, local address | `main_window.go` | a goroutine each | start, stop, ping; look up the address |
| Quitting | `main_window.go`, `cmd/vepeen/main.go` | `quitting`, a dialog, two goroutines | hang up, look again, retry, wait five seconds, quit |
| Single instance, tray | `internal/ui/single_instance_windows.go`, `cmd/vepeen/main.go` | a named mutex and event; whether the window is hidden | acquire, signal, listen, show, hide |
| macOS engine | `internal/vpn/darwin.go`, `internal/route/sync_darwin.go` | none of its own; the services and their interfaces | the connect call through `scutil` and `networksetup`: start, poll, add routes behind an administrator prompt |

They interact in three ways. **Closures**: every goroutine reports by a function
posted to the window's thread (`fyne.Do`), which runs later, between user
actions, whatever has changed meanwhile. **Shared fields**: goroutines read
`c.stored`, check boxes and the profile name without a lock; `busy` and
`cancelConnect` are under `c.mu`. **The operating system**: tunnels also come
and go by themselves and through other programs, and the window is told of
neither. What is hard is therefore the order of things: late closures, cancels
between steps, handlers that meet queued taps, copies of different ages written
back whole, and external commands of which each may fail.

What makes each component correct: the call leaves the profile as the request
asked or says so, stops when cancelled, and returns; the session never runs two
operations at once and never loses sight of a tunnel it brought up; the settings
never cost a profile its credentials; the store file is replaced whole or not at
all, sealed with the key that is kept; the import of older settings and secrets is
all or nothing wherever it stops; rates are real and end with the connection; an
address is shown only beside a connection, and a connection that stays gets its
ping shown; one instance runs, and shows its window to whoever launches another; quitting
ends, and closes what it can.

## 2. The modules

| Module | What it is |
|---|---|
| `ConnectCall` | abstract: what one connect call promises the window. Used by `Controller` and `Quit`, implemented by `ConnectFull` over either engine |
| `ConnectFull` | the call step by step, with every command and failure, on Windows |
| `DarwinCall` | `ConnectFull` with the choice of the engine: the manager over the macOS one too |
| `OneOperation` | abstract: what the busy lock is for. Implemented by `Controller`; its safety part by `Settings` |
| `Session` | abstract: how the shown state, pending reports and tickers move together. Implemented by `Controller` |
| `Controller` | the session of the window, built on `ConnectCall` |
| `Settings` | the settings side of the same handlers |
| `AtomicStore` | abstract: a store replaced whole. Implemented by `Store` |
| `Store` | `SaveStored` and `LoadStored` on inodes, with the key |
| `Migration` | the import `LoadStored` does when there is no store |
| `Traffic` | the traffic tickers, built on `Session` |
| `Monitor` | the ping ticker and the address lookup, built on `Session` |
| `Quit` | quitting, together with a `ConnectCall` that may be under way |
| `SingleInstance` | launches of the program: mutex, event, listener, window |
| `MC*` | TLC instances: symmetry sets only |
| `ConnectProofs`, `ControllerProofs`, `SettingsProofs`, `StoreProofs`, `MigrationProofs`, `TrafficProofs`, `MonitorProofs`, `ProcessProofs` | theorems; `ProcessProofs` holds those of `Quit` and `SingleInstance`, whose definitions have distinct names for that reason |

`Controller` and `Quit` see the connect call through `ConnectCall`; `Settings` and
`Migration` see a save through what `AtomicStore` promises; `Traffic` and `Monitor`
see the window's handlers through `Session`, of which each of their session
actions is a step. These three seams are where the project is composed: one side
is built on the abstract module, and that the code's side keeps it is a
refinement, checked and proved. `Settings` models the handlers of `Controller`
again, from the side of the data; that both keep the same lock is that both
implement `OneOperation`.

### ConnectFull

`pc` is the step the call is about to take; `want` is `allPrefixes`, `stale` and
`missing` are the two differences `SyncRoutes` computes, `sweep` the tunnels
`DisconnectAllExcept` has listed. The operating system's part is `up`, `split`,
`profileRoutes`, `liveRoutes`, `natOK`. Every command is one action with all
outcomes: `ListOthers` and `HangUpOther` may fail silently, as in the code;
`SetFlag` may warn, or find no profile (`-ErrorAction SilentlyContinue`), which
is no error; `ListRoutes` may read nothing; `SyncError` drops the rest of the
edits. `blind` records that some query of the call came back empty. The context
is looked at by `CheckThen` and in `Enforce`, exactly where the code does:
after resolving, before the dial in split mode, after the dial, after enforcing.
`Drop` and `DialOutside` are the world. `Targets` are the profiles the user
connects to, so that a run can have others that only need hanging up.

### DarwinCall

`mac` is the build. The steps of the manager that do not depend on the engine
are `ConnectFull`'s (`ManagerStep`); the others are replaced. Nothing is edited
before the dial (`MacSkip`). `MacStart` returns while the service is only
`starting`; it comes up, or not, by itself (`MacComesUp`, `MacStaysDown`), also
after the poll has given up on it. The routes are added after the dial to `iface`,
the first tunnel interface with an address, whoever's it is, and only once the
administrator has answered (`MacPrompt`).

`EngineKeepsContract` maps `pc` to the four phases of `ConnectCall` (`EnginePhase`).
A service that comes up by itself is, for the contract, a tunnel dialled outside:
the window may not rely on when it happens. What it may rely on is
`NothingComesLate`, for which `tidy` records that nothing happened the call could
not see: no tunnel missed by the sweep, no other program dialling, no start given
up on while the service was still coming up.

### Controller

A handler or a posted closure is one action, since both run on the window's
thread; what goroutines do between is separate actions. `armed` is
`cancelConnect # nil`. `disc`, `save`, `clean[s]` and `probe` are the goroutines
with the locals they captured (`clean[s].p` is the closure's `name`). `onConnect`
from the ring does not depend on the button's enablement, so `Startable` is the
handler's own guard together with the states the ring calls it in. `ours` is
history: the tunnels this session dialled that are still up.

`world` is what a session meets, chosen at its start. In a `calm` one the user
starts nothing while the start-up probe or a clean-up has not reported, picks
profiles only when all is settled, and status queries answer. A `picking` user
picks at any time. A `rough` world has a user who waits for nothing and queries
that fail. The lock's properties are claimed of all three, those about tunnels of
the calm one, and `KeepsSession` of the first two, whose user is patient.

### Session

What the tickers need of the above: the state, the report that is pending
(`asking`, the start-up's or a clean-up's) and whether tickers run. `Reports` may
show a tunnel that is up; `Remarks` are refused connects and saves; the rest are
the beginnings and ends of operations. `Controller` maps `probe` and `clean` to
`asking` (`Asking`) and the profile whose tickers run to whether they do.

### Settings

`disk` is what the file decrypts to and `file` whether it does: it may be `good`,
`sealed` (it never decrypts) or `garbled` (it decrypts and does not parse, which
`LoadStored` answers with the defaults and no error: `Loaded`). A load may also fail
by itself, at any reading, because the disk or the keychain does not answer just
then; so the window may have started with the defaults while the auto-saves read
the file well, or the reverse. `mem` is `c.stored`, and `copy` the history of it:
`read` from the file, `blank` when the load at start gave the defaults, `written`
once such a copy has replaced the file. `form`, `typed` and `remember` are the
widgets. The settings other than credentials are one value of `Contents`. `auto[i]` are auto-saves
(`persistQuiet`) between their load and their save; the check boxes they read
late are the choice between the request's settings and the form's. `save` is the
save goroutine. A save of the file is whole here; `Store` says when that is so.

### Store

Files are inodes, names are `bin` and `tmp`, so a writer goes on writing to the
inode it opened. `posix` chooses between the two builds: on macOS any file can be
renamed over; on Windows an open file can be neither replaced nor renamed. On
macOS `FindKey` asks the keychain for the key (which may be there, known not to be
there, or unreadable) and `SetKey` stores a new one; `using[w]` is the key the
writer encrypts with, `sealed` the one each file was encrypted with. Elsewhere the
key is the system's and always found. A failed write leaves a part of the file and
its name. `Crash` closes handles and forgets goroutines; files and key stay. It is
a death of the process, not of the machine: nothing is said of power loss,
against which the code (no `fsync`) does nothing.

### Migration

The loaders are the window, at its start, and auto-saves, each with its place
`pc`, its copy `cur`, the connection names it looks secrets up for and the sources
it has yet to purge (`todo`). The steps are `migrateLegacy`'s: `FindStore`,
`ReadFiles`, `ReadSecrets`, `SaveImport` or its failure, `PurgeFile` and
`PurgeEntry`, each of which may fail without a word, and `PurgeDone`. `Restart`
may come between any two. Around it are the writes of the window
(`PersistCredentials`, `OnSave`) and of auto-saves, because they decide whether
the import ever runs again. `chosen` and `owned` are what an import has to find;
`touched` are the credentials the user has changed since. Three history variables
are the excuses the properties name: `unread` (a secret that was there and could
not be read), `unsaved` (the save of an import failed), `overwritten` (a store was
replaced by someone who had looked before it existed).

### Traffic

`ticker[i]` is the goroutine of the i-th connection with its baseline;
`running` is the one whose channel `trafficStop` holds. `posted` is the set of
kinds of closures queued, the closures of old tickers included: they look at
`c.state` only. Counters have width `MaxCount + 1`, and `Grown` subtracts in
that width, as `uint64` does. `carried[i]` is history, what really passed since
`ticker[i]`'s baseline. Every handler is an action that conjoins what it does to
the tickers with the step of `Session` it is (`Seen!Connects`, `Seen!Closes`, ...).

### Monitor

Here the order of closures matters, so `posted` is a queue: a connect that
succeeds resets the tile by a closure behind those already waiting. `pinger[i]`
and `lookup[i]` are the goroutines of the i-th connection; a pinger that finds the
state or the profile list wanting posts "not connected" (`skip`). `ShowConns` is
the closure of a connections poll, which writes the status anew and thereby takes
the address away, as does every other status that is set (`Relabel`). The handlers
conjoin steps of `Session`, as in `Traffic`.

### Quit

`hanging` is the goroutine that hangs up, `waiting` the one in `select`.
`WaitEnds` needs nothing: it is the channel or the clock. `Press` may come in any
phase of a call. The dialog covers the window, so that nothing is started,
cancelled or picked after it; the call or save (`saving`) that is under way goes
on. When it ends, its closure has the window's thread (`held`, from `ConnectDone`
or `SaveDone` to `ClosureEnds`): that of a call that worked runs the profile's
diagnostics, a command without a time limit, and writes the store there. `Press`,
`HideAndQuit` and `ProcessExits` need the thread.

### SingleInstance

A process of `Launches` goes through `main`: `Launch` (the mutex), `CreateEvent` or
`Signal`, `Listen`, `FirstShow`, and then lives until it quits or crashes. `mutex`
and `event` are the sets of processes with a handle, so that a name is there as
long as the set is not empty; an event's signal (`set`) is taken by one wait.
`owed` are the launches by hand that no window has answered.

## 3. The runs

| Run | Checks | Bounds, and why they are enough |
|---|---|---|
| `ConnectRoutes` | `TypeOK`, `QuietSuccess`, `RouteEditsAreNeeded`, `TunnelStartsRouted` | One profile to connect to, two prefixes and a domain: a route can be stale, missing, kept or twice wanted, and an edit can be first or last. A second profile that others dial, to be swept. Starts from every set of stored routes; calls follow one another. |
| `ConnectCalls` | `NothingComesLate`, `CallReturns`, `EngineKeepsContract` | Both builds. One profile to connect to and one that others dial, so that there is something to sweep and it may come back; a domain, so that the resolver may fail or run out of time; one prefix, since which routes are edited is the other run's question. |
| `Controller` | `TypeOK`, `OneJob`, `SpinnerHasJob`, `NoOrphanTunnel`, `OwnedTunnels`, `KeepsOneOperation`, `KeepsSession` | All three worlds; the selected profile and another; two pending clean-ups, so that one can meet another; outside dials. |
| `Settings` | `TypeOK`, `UntouchedCredsSurvive`, `UnreadableNotReplacedQuietly` | Two profiles (one touched, one not), two contents, one pending auto-save, failing loads and writes, each of the three kinds of file. The lock allows one save or connect; older auto-saves differ from one another only in age. |
| `Store` | `TypeOK`, `KeyFits`, `ReplacesAtomically` | Both builds. One writer, two values, two keys, a reader, an old temporary file, crashes anywhere. |
| `Migration` | `TypeOK`, `AllOrNothing`, `SourceOrStore`, `NeverOverNewer` | The default connection and another, so that the secrets an import looks for can be one or two; every combination of the two files; one auto-save beside the window, which imports when the window's import was not saved; restarts anywhere. Auto-saves that import at once are beyond the run's size: the proofs are for any number. |
| `Traffic` | `TypeOK`, `RatesOnlyWhileConnected`, `RateIsReal`, `NoRevival`, `KeepsSampling`, `OldTickersEnd` | Two connections: an old ticker and a new one. Counters of width two: a counter can be zero, grow, and go back. The proofs remove both bounds for the safety part. |
| `Monitor` | `TypeOK`, `AddressShownOnce`, `PingCatchesUp` | Two connections, three waiting closures: an old pinger's answer, an old lookup's and the closure of an operation, in any order. One address: two lookups can find the same. |
| `Quit` | `TypeOK`, `QuitCloses`, `QuitEnds` | Two profiles, the selected and another; a call or a save under way; closures that hold the window's thread; failing status queries; other programs that dial at any time. |
| `SingleInstance` | `InstanceTypeOK`, `AtMostOne`, `LaunchAnswered` | Three launches: an instance, one that finds it, and a successor (or two that share a signal). |
| `ClosedMeansDown`, `NoDataLoss` | one property each, violated | See section 5. |

The bounds in guards are `Slots` (clean-ups pending at once; `OnConnect`),
`AutoSaves` (`Settings!OnConnect`, `Migration!AutoSave`), `MaxTickers`
(`Traffic!OnConnect`), `MaxCount` (`Carry`), `MaxConns` (`Monitor!OnConnect`) and
`MaxPosted` (`Monitor!Post`). `Migration!ReadFiles` assumes that a legacy file that
is there can be opened; one that does not parse is modelled. Each process of
`Launches` is launched once. Deadlock is checked except in `Traffic` and `Monitor`
(no connection left to make, or the user has stopped), `Quit` (the process has
exited) and `SingleInstance` (every process has ended).

What the less obvious properties say:

- `QuietSuccess`. A call that returned without a warning left every resolved
  destination in the profile; without a blind query it left nothing else and the
  right flag. A silently empty listing really does leave stale routes
  (`sync_windows.go:65`), which is why the second half has that condition.
- `OwnedTunnels`. One party answers for each tunnel at every moment: the call
  once it has dialled, a disconnect, or the one clean-up. `NoOrphanTunnel` is what
  the user sees of it; it is not inductive alone, because a clean-up in flight has
  to know that nothing else is running and that its last answer was current.
- `KeepsSession`. However closures and reports meet, the state moves from one
  phase to the next as `Session` has it, no report meets an operation, and the
  tickers start and stop with the connection they measure. It is what makes the
  results about tickers results about the window.
- `NothingComesLate`. On macOS, when nothing escaped the call, a call that is over
  has no service on its way, so that the clean-up's hang-up is final, and the
  routes go to its own tunnel although the interface is picked without its name.
- `UntouchedCredsSurvive`. Three writers put whole copies of different ages in the
  file's place, and each load behind such a copy may have failed or not. Still no
  write costs a profile that was neither saved nor connected its credentials, until
  a window that started with the defaults has written these (`copy`), which the
  code does without a look at the file.
- `KeyFits`. The key in the keychain opens the store at every moment, wherever the
  process dies between minting the key and the first rename.
- `AllOrNothing` and `SourceOrStore`. The first: while saves of imports work, no
  source is touched before the store has everything. The second allows them to
  fail, and says that a secret is then at its source or in the store.
- `RateIsReal` compares the rate a sample taken now would show with what was
  carried since the baseline. It would fail if zeros, which mean "no adapter",
  were taken as a baseline.
- `PingCatchesUp`. Late answers and resets of earlier connections may be shown for
  a while, in a connection that stays they are not the last word.
- `QuitCloses` lists the only reasons for leaving the selected tunnel up.
- `QuitEnds`. Whatever hangs in a goroutine, the program that was asked to quit
  ends, unless a closure holds the window's thread for ever.
- `LaunchAnswered`. A launch by hand that found the event gets a window, also when
  it falls into the start of a process that hides in the tray and when several
  launches share one signal.

What the runs do not claim:

- In a rough world the code has no defence: a clean-up that is still running when
  the next connect is started may hang up the new tunnel and then show "Cancelled"
  over it, the start-up probe may show "Connected" over "Connecting"
  (`main_window.go:472-475`, `1091-1099`), and the clean-up ignores the error of
  its query (line 1090). `NoOrphanTunnel` fails there, and speaks of the calm
  world only.
- `AllOrNothing` is not claimed once the save of an import has failed (`unsaved`),
  nor `SourceOrStore` once a store was `overwritten` by a loader that never saw
  it: `NoDataLoss`, the same without the excuse, is violated.
- `UntouchedCredsSurvive` says nothing of the file once a window whose load at
  start failed has replaced it, nor `UnreadableNotReplacedQuietly` of a file that
  decrypts but does not parse: the code overwrites both (section 5).
- `QuitEnds` says nothing of a program whose window's thread never comes free.
- `Store` has one writer. Two in the code can spoil each other's file and mint two
  keys (section 5).
- A start that macOS was given up on may still come up (`tidy`).
- A launch whose signal finds no event is not owed a window, as the code has lost
  the signal by then.

## 4. Fairness

`ConnectFull` and `DarwinCall`: weak fairness of the call's next step. The
resolver has a limit of ten seconds (`manager.go:126`), the poll on macOS one of
thirty; the other commands end by themselves, and the administrator answers,
which is an assumption: none has a limit in the code. `Controller`: weak fairness
of each goroutine and closure, on the same assumption; none of the user. The call
is used through `ConnectCall`'s fairness, which `EngineKeepsContract` discharges.
`Traffic`: weak fairness of ticks, samples and releases; strong fairness of
`Exit`, because a ticker that finds its stop channel closed and a tick waiting
chooses at random (Go's `select`), and will not choose the tick for ever. Polls
have none: they may hang. `Monitor`: weak fairness of the window's closures and of
ticks, strong fairness of `Exit` for the same reason and of `Pinged`, because the
bound on the queue disables it now and then and the code does not. `Quit`: the
clock, the posted closure and the exit only, the latter two once the window's
thread is free; every command may hang, on that thread too, which is why `QuitEnds`
has its alternative. The other modules assume that closures end.
`SingleInstance`: weak fairness of each process's way through `main`, its window
thread and its waiting goroutine; none of users. `Settings`, `Store` and
`Migration` have safety properties only: nothing in them has to happen.

## 5. Where code and documents disagree

Two runs are violated; `PROJECT.json` quotes the lines.

1. `ClosedMeansDown`: pick another profile while connected and press Disconnect:
   the window says the connection is closed, the tunnel stays up.
2. `NoDataLoss`: the save of the window's import fails, and the window keeps the
   defaults; the auto-save of the next connect imports with success and purges the
   sources; the window's next write puts its defaults over the store, and the
   secrets are nowhere.

Met while modelling, and recorded with the action that shows each:

- The connect call. In route-all mode, and after the sweep in every mode, a
  cancelled call dials all the same (`manager.go:144`). Unresolved domains are
  fatal and resolved before the dial, where README.md:51 says neither. A cancelled
  call may return a validation or dial error.
- The settings. A store that did not decrypt is spared by the auto-save and
  overwritten with the copy in memory when the connect succeeds; so is a good one
  that could not be read when the window started. One that decrypts and does not
  parse is overwritten by the auto-save already, as if it were empty. The end of a
  connect overwrites the settings its own auto-save has just written. The
  credentials stored at the end of a connect are those in the form by then,
  possibly another profile's. Two goroutines saving at once share one temporary
  file, and on macOS may mint two keys, of which the later replaces the one the
  store is sealed with (`dpapi_darwin.go:32` against `:53`).
- The import. A deletion that fails is not repeated (`prd-004:297` says it is). A
  secret that could not be read is deleted unimported. The per-user `config.json`
  overrides the one beside the executable, against `config.go:380`.
- The window. A successful connect runs a command without a time limit on the
  window's thread (`main_window.go:1126`); if it hangs, the quit that is
  "guaranteed to run exactly once" (`main_window.go:48`) does not run. A ping
  answered after the disconnect writes over the reset tile (`main_window.go:726`).
  A second launch between the first one's mutex and its event is lost
  (README.md:155).

Smaller ones: a connection adopted at start has no tickers
(`main_window.go:472-479` against README.md:146); auto-save and credential save
may lose each other's update of the same field; the live enforcement script is
silent about cmdlets that fail, and on macOS every route command ends in
`|| true`; the error text of a failed disconnect is overwritten by the next
connection poll, and with it the address shown; quitting during a connect call may
leave the tunnel up.

## 6. What is proved

Every theorem holds for all values of the constants, from the assumptions the
modules name (switches are Boolean, bounds positive, `NoX` is no `X`); the two of
`StoreProofs` about one writer assume that too (`OneWriter`). Every invariant a run
checks is proved, and every action property and the safety half of every
refinement; the strengthenings and the theorems that state more than a run does
were checked with TLC on the runs' instances before they were proved.

**ConnectProofs.** `SuccessIsAsAsked`, `EditsOnlyWhatDiffers` and `StartsRouted`
come from `RoutesInv`: while `SyncRoutes` edits, what is pending is exactly what
differs between the stored routes and the destinations (`EditsPending`), from
which, once it is through, the routes are the destinations unless it gave up
(`RoutesAsAsked`); likewise the flag. `QuietSuccess` alone says nothing of the
middle of a call. `EnginesKeepContract` is the safety half of
`EngineKeepsContract`: from `EngineInv` (types, and a call never sweeps its own
tunnel), each step over either engine is a step of `ConnectCall` or leaves it
alone. `NothingLate` needs `Alone`: on macOS, after a tidy sweep, the call's own service
is the only one up or coming up.

**ControllerProofs.** `LockHeldByOneJob` and `SpinnerIsHonest`: `OneJob` and
`SpinnerHasJob` are not inductive apart, because that the completion closure finds
the lock and the cancel function in place depends on both; their conjunction with
`TypeOK` is. This holds in every world. `TunnelsAreOwned` and `NoOrphans` are about
the calm world; the invariant is `OwnedTunnels` with the above (what the calm user
buys is that a clean-up never meets a call).
`OperationsTakeTurns` is the safety half of `KeepsOneOperation`: from the same
invariant, each step of `Controller` is a step of `OneOperation` or leaves the
operation alone. `ImplementsSession`, the whole of `KeepsSession`, needs
`PatientInv`: while the user waits for reports, an operation finds none pending and
is the one the state shows (`OneAtATime`), and of the start-up probe and the
clean-ups at most one is pending, beside "Disconnected" (`OneReport`). Without
the first, a clean-up's report would be a step `Session` does not have.

**SettingsProofs.** `UntouchedSurvive` and `UnreadableSpared` come from
`CopiesInv`: when the window has read the store, then on profiles the user has not
touched the file, the copy in memory and every copy an auto-save is about to write
agree (`FileAgrees`, `AutoAgrees`), so that any writer may put its copy back whole;
when it has not and has written nothing, only auto-saves write, and all of them
hold what a load of the file would give (`AutoFresh`). An auto-save about to write
has read a file that decrypts (`AutoHasRead`).
`SettingsTakeTurns`: the connects and saves of `Settings` are those of
`OneOperation`; no run states it.

**StoreProofs.** `StoreInv` says that every file but the temporary one is complete
and sealed with the key (`FilesComplete`), and what the writer knows at each of
its steps (`WriterKnows`): the file it opened is still the temporary one, the key
it encrypts with is the keychain's. From it `KeyAlwaysFits`, and `StoreIsAtomic`,
the whole of `ReplacesAtomically` (`AtomicStore` has no fairness). With two writers
a store may be torn (section 5), but not its key be lost once there is one:
`KeyOnceMadeStays`, for any number of writers, from `KeyHeld` (nobody is about to
set a key, and whoever seals a file seals it with the one there is). The two
writers section 5 speaks of can lose the key at the first save only.

**MigrationProofs.** `ImportIsWhole` and `ImportsOnce` come from `ImportInv`: the
window loads before any auto-save runs; the sources are whole until the store
exists; what the window's import holds is all of it; and an auto-save can be
importing at all only when there was nothing the import answers for (`Moot`).
`NoSecretLost` needs another invariant, since saves may fail: whoever has seen or
written the store has every kept secret in its copy or finds it still at its
source (`CopiesHave`), because nobody purges what it has not saved first.

**TrafficProofs.** `TrafficTypes` needs `Room`: a connection that is being made
has a ticker number left. `RatesEndWithConnection` needs only the state guards
and that a disconnect's closure clears the tiles. `RatesAreReal` goes through
`BaselineIsReal`: a counter exceeds a ticker's baseline by no more than was
carried since (a replaced adapter only lowers it), and a sample that sets a
baseline starts that count again; the rest is that `Rated` gives no rate when a
counter went back, so the subtraction never wraps. `NoLateRevival` is an action
property from the types. `LockIsNotLeaked` is the safety side of `KeepsSampling`:
the shared lock is taken exactly while one ticker samples, whichever tickers exit,
are stopped or poll.

**MonitorProofs.** `MonitorTypes` needs `Room` too. `ReportsMeetTheirState` is
about the queue: behind a transition that is shown there is one report of its
outcome, on its way or waiting, and around it only pings and addresses; hence a
closure never runs in a state it is not for, which `Oldest` alone does not say.
`AddressBesideConnected` (`AddressShownOnce`) holds because every step of `Session`
that leaves "Connected" writes the label anew, and because the label is searched
before an address is appended.

**ProcessProofs.** `QuitInv` is `Quit`'s `TypeOK` with: one dialog and one quit per
press (`OneOfEach`), how far the hang-up has come and how often it was refused
(`Refusals`), no call starts after the press (`NoNewCall`), and what is known once
it is through (`TriedToClose`). `LeavesOnlyWhatItMust` follows. `OneInstance` is
from `GuardInv`: every process past the guard still has its handle of the mutex, so
that a launch finds it, unless the mutex could not be made at all. `SignalsAreKept`
is the safety side of `LaunchAnswered`: at every moment a launch that is owed a
window has its own on the way, or the event is signalled and somebody waits on it
or will, or a Show is queued; for which whoever holds the event must be listening
or about to (`EventIsHeard`).

Only model-checked: all liveness (`CallReturns`, `KeepsSampling`, `OldTickersEnd`,
`PingCatchesUp`, `QuitEnds`, `LaunchAnswered`) and the fairness half of the
refinements, since liveness under fairness and `ENABLED` are beyond the proof
system used.

## 7. Not modelled, and abstractions

- The syntax of destinations, of names and of tool output, and the three shapes
  `config.json` has had (a file parses, or reads as the defaults); the wording of
  errors and logs; the notes about domains and NAT-T. A user's own `0.0.0.0/0` in
  the list is excluded (`DefaultAssumption`), so that the default route in
  `liveRoutes` is always the server's or the mode's.
- Ciphers, DPAPI and the encoding of the key are library code: a store opens with
  its key and with no other.
- Data races on check boxes and on `c.stored` are choices between the old and the
  new value (`AutoWrite`); the map shared by a save goroutine and the window is
  read at the write (`SaveWrite`).
- `Controller`, `Settings`, `Traffic` and `Monitor` are slices of the same
  handlers; no field one of them leaves out occurs in a guard of another, the lock
  excepted, which `Settings` has as `LockFree`. `Traffic` and `Monitor` are about
  a patient user, as `Session` is.
- The time of a ping and its time-out are one reading: both mean that a gateway
  was asked.
- Not modelled: the tray's icon and tool-tip, widgets, theme, window placement,
  the start-up entry, the desktop shortcut, profile listing, the command runner,
  and the stubs of other platforms: wiring or pure I/O without state the
  properties could be about.

## 8. Plan

What is left, in order:

1. `Lists`: the prefix normalisation and the resolver's loop as functions over
   bounded inputs, checked against a reference definition of the set of addresses.
2. Two writers in `Store`: what still holds of their files beyond
   `KeyOnceMadeStays`, and how little of a lock the code needs for the rest.
3. The composition of `Store` and `Migration` with `Settings` in one module, with
   a save in steps, if its size allows a run.
