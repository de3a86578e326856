# A TLA+ model of Vibetop

Vibetop serves a Linux desktop in the browser. A root-owned manager
(`src/server/terminal-manager.py`) answers every request and starts each user's
terminals and X11 apps; a terminal is a session daemon with a shell
(`src/apps/everyday/terminal/vibetop-session`), a ttyd in front of it, and a
page in the browser; Browser Lite is a browser inside the desktop, with a
rewriting proxy or a mirrored Chromium page behind it. This project models the
parts in which several threads, processes, pages or machines share state and can
be interrupted, checks them with TLC on small instances, and proves the most
important properties with TLAPS for every value of the constants.

Status: scheduled messages, the HTTPS terminal transport, incremental scrollback
recovery and the lifecycle of terminals; the terminal's page (connection,
reading, typing, selecting, the size of a shared terminal); windows, service
worker, shared desktop and score tables; Browser Lite's tabs, history, saved
tabs, page messages and workers, egress and pools, and its mirrored page.
Twelve runs, thirty-two theorems. What is left is under *Plan*.

## Inventory

Paths without a directory are under `src/`; line numbers without a file are
those of `server/terminal-manager.py`. `lite/` stands for
`apps/everyday/browser-lite/`.

| Component | State it keeps | Operations | Meets | What is hard |
|---|---|---|---|---|
| **Scheduled messages** (4179-4580, 8389-8573) | one JSON file of entries under `_schedules_lock` | create, cancel, pass (scan, type, record), age | terminals (typing over the session socket), reaper (pending entries keep terminals) | passes type with the lock released, in several threads; failed reads, writes, sockets; restart in the middle |
| **HTTPS transport** (`server/terminal_transport.py`, `terminal-http.js`) | relay: retained frames, cursors, input number; page: cursor, queue, requests under way | open, send, stream, ack, close, reaper sweep | ttyd, page | lost, late, repeated requests; a reader that stops at a full buffer |
| **Session daemon** (`vibetop-session`) | replay ring, clients and their queues, PTY, size, saved state | output, resume handshake, broadcast, flush, resize, save, restart | ttyd/attach, page, manager (systemd units, files) | replay against live output, slow clients, a new shell, a signal in the middle of a write |
| **Incremental resume in the page** (`terminal-resume.js`) | cache, IndexedDB copy, "first frame" flag | ready, receive, save, load | session daemon | a cursor that claims more than the page has; queries answered twice |
| **Terminal lifecycle** (2352-2625, 8309-8387) | units, saved scrollback and meta, names, order | start, stop, restore, forget, reap | systemd, schedules | start takes a lock, stop does not |
| **Connection of a terminal page** (`terminal-connection.js`) | state of the newest socket, attempts across reloads | watchdog tick, reconnect in place, reload, give up; foreground, network, back/forward cache | ttyd's own client | a token fetch or socket that stalls without an error; two parties reconnecting |
| **Reading, typing, selecting** (`terminal-kbd.js`, `lib/kbd-input.js`) | the row a reader is at, the mirror of the typed line, the gesture and selection under way | output, redraw, scroll, composition, timers, fingers and handles | xterm, the program in the terminal | output and redraws under a reader; text held back by an input method; two fingers |
| **Size of a shared terminal** (`terminal-kbd.js`; `vibetop-session` 354-382, 1590-1640) | the shape of the pseudo-terminal; per page whether a claim is due | claim, foreground, reconnect, replay end | session daemon, by files and signals | claims that meet a reconnect; read-then-write between attach processes |
| **Desktop state** (3865-3932, 6543-6735, `shell/deskstate.js`, `shell/usage-strips.js`, `shell/desktop.html`) | instances, close targets, reset epoch, switches | heartbeat, reply, close everywhere, reset, toggle, expiry | every open desktop | heartbeats and replies that are lost or overtake each other |
| **Windows** (`shell/winmgr.js`, `shell/desktop.html`) | rectangles, stacking, layout palette | open, drag, resize, minimise, tidy, stage and apply layouts, reflow | | rounding, gaps and clamps against recognising a layout |
| **Service worker** (`shell/sw.js`) | installed and active version, caches, requests under way | install, activate, fetch, timeouts, sign-in hops | the site, its sign-in proxy | a navigation races network, caches and a deploy |
| **Score tables** (`shared/gamescore.js`) | rows, marker of the import, the older single best | record, undo, reset, migrate | several windows of a game | the old best is still rewritten while it is imported |
| **Browser Lite: gateway and tabs** (`lite/proxy/gateway.cjs`, `control-ledger.cjs`, `navigation.cjs`, `trusted-controller.js`, `wrapper.js`) | lanes of numbered commands, tabs with epochs, captured navigations, tickets; a controller per tab | open, approve, close, enter, follow, submit, recover, retry, heartbeat | frames on other origins | lost answers and repeats, eviction, expiry, restart, sign-out |
| **Browser Lite: history** (`document-history.js`, `client-bridge.js`, `wrapper.js`) | a journal per document, the toolbar's list per tab | push, replace, report, Back, Forward, rollback | tabs | reports that are late; steps refused or timed out |
| **Browser Lite: saved tabs** (`wrapper.js`, `tab-store.cjs`) | a copy on the device, a copy on the server | restore, save, close, hide, discard | tabs | a page that starts without its tabs saves |
| **Browser Lite: page messages, workers** (`message-gate.js`, `message-target.js`, `worker-store.cjs`) | held messages and known origins; uploaded sources, who waits | arrive, look up, send; upload, wait, collect | gateway | lookups end in any order; two connections for one worker |
| **Browser Lite: egress, pools, script workers** (`egress.cjs`, `tunnel-pool-patch.cjs`, `script-workers.cjs`) | places and waiters; sessions and tunnels; jobs and threads | ask, resolve, connect, close; send, fall back; run, exit | sites | limits with lookups under way; bursts on a session that is opening |
| **Browser Lite: mirrored page** (`browser-lite.js`, `browser-lite-renderer.js`, `backend/agent.py`, `collector.js`) | captures, packets, baseline, acknowledgements; queue of actions | capture, poll, apply, ack, type, enter, navigate | Chromium | dropped updates, older documents, coalesced or refused input |
| **Terminal modes of a replay** (`vibetop-session` 20-98, 103-172) | modes of evicted output | evict, replay | ring | same screen from a truncated stream |
| **Sessions** (1659-1723, 4710-4742, 2160-2185) | users registry with token epochs, a 5 s cache | login, logout everywhere, remove user | every request | a cache read that straddles a bump |
| **Login throttle** (4847-4910) | failures per user and source | record, delay, clear | login | bounded books, eviction |
| **Background cache** (109-270) | value, age, in-flight flag per key | read, refresh | system status, usage | a wedged producer that finishes late |
| **Bounded work** (677-716, 1351-1465) | archive slots, per-video locks | enter, exit, prune | shares, video | counters at their limits |
| **Office documents** (8014-8308) | editing sessions' keys | open, notify, force-save | Document Server | notifications in any order |
| **Shares** (4110-4170, 8961-9380) | registry with expiry | create, serve, revoke, prune | files | expiry during a download |
| **File agent** (2628-2860, `files/fileagent.py`) | a daemon and socket per user | spawn, call | files page | a call that meets a dying agent |
| **Update** (5152-5248, 8577-8956, `update-watchdog.py`) | checkout, history, pending activation | update, check, restart, roll back | everything | a crash between any two steps |
| **Browser Lite deployment** (`server/browser_proxy_*.py`) | releases, pending record | stage, activate, finish, roll back, recover | update | the same |
| **Metrics history** (`server/metrics_history.py`) | ring files | note, consolidate | system status | restart in the middle of a slot |
| X11 apps, HTTP front, configuration, status readings, other shell scripts, app pages, games' rules, installers | see `PROJECT.json` | | | not modelled; reasons in `PROJECT.json` |

What makes each part correct:

* *Scheduled messages*: a cancelled entry is never pending again; an outcome is
  final; no pass loses a pending entry; a loop stays on its minute and in its
  window; `sent` means submitted, or lost in a send that raised nothing; a due entry is settled; and, as the docs
  promise, a message arrives once, as reviewed, and not after a cancel.
* *HTTPS transport*: each direction is a channel (in order, nothing twice,
  nothing missing); a page that plays by the protocol is never refused; a clean
  close comes after all output; a page that is gone frees its connection.
* *Session daemon and page*: what is on the screen is a gapless stretch of one
  shell's output; a cursor never claims more than the page holds; an attached
  page is current; a query is not answered twice; a page catches up.
* *Lifecycle*: a closed tab is not restored, a running one not forgotten; a
  name belongs to one life of a terminal.
* *Terminal page*: a terminal somebody looks at comes up or says that it failed,
  without trying for ever; a reader keeps the passage they read; what an Enter
  submits is what the field shows; the handles frame the selection; the device
  that comes to the front gets its shape, unless its connection opens after the cap on
  its replay.
* *Desktop*: once all is quiet every device shows what the server has; a layout
  reads back as itself; every load ends, never with a page older than the worker
  that serves it; a row of a score table is a game that was played, once.
* *Browser Lite*: an open page can be closed; a form is sent once; a tab is
  never left dead and silent; Back starts from where the document is; tabs
  nobody closed are kept; messages pass as without the proxy; nobody waits in
  vain; limits are exact; a mirrored page catches up and Enter acts on what the
  field showed.
* *Sessions*: after a sign-out everywhere, or a removal and re-creation of the
  user, no earlier cookie is accepted for longer than the cache's five seconds.
* *Caches and gates*: at most one producer (slot, encoder) per key; a failure
  never makes an old value look fresh.
* *Update*: whatever step fails, the old or the new release is running in full.

## Modules

| Module | Models | Source |
|---|---|---|
| `Schedules` | the registry file, all passes, cancels and creates, the typing of text and Enter, terminals that stop, faults and restarts | `terminal-manager.py` 4179-4580, 8400-8573 |
| `Channel` | abstract: what one direction of a connection promises | |
| `TerminalTransport` | relay, reaper and `HTTPWebSocket`, ttyd and network external; implements `Channel` twice (`Out`, `In`) | `terminal_transport.py`, `terminal-http.js` |
| `SessionResume` | ring, handshake, broadcast, backpressure and truncated replay in the daemon; cache, store and screen in the page | `vibetop-session`, `terminal-resume.js` |
| `TerminalLifecycle` | starting, healing, closing, resetting and reaping terminals in several threads; the two units, saved state, names; restarts of manager and host | `terminal-manager.py` 1993-2053, 2352-2620, 5893-5911, 6669-6754, 8363-8386 |
| `TerminalConnection` | the wrapped socket, the watchdog, ttyd's client, foreground, network, back/forward cache | `terminal-connection.js` |
| `TerminalReader` | following and reading over output, redraws, erasures, resizes | `terminal-kbd.js` 51-470 |
| `TerminalTyping` | the field, its mirror, composition and its timers | `kbd-input.js`, `terminal-kbd.js` 891-967 |
| `TerminalGestures` | taps, drags, long presses, two fingers, the two handles | `terminal-kbd.js` 985-1270 |
| `TerminalSize` | claims of the shared size by the pages | `terminal-kbd.js` 233-703 |
| `WindowManager` | windows, layouts and the palette, on frames that change | `winmgr.js`, `desktop.html` 1571-3806 |
| `ServiceWorker` | install, activate, caches, navigations against timeouts, sign-in | `sw.js`, `reauth.html`, `desktop.html` |
| `SharedDesk` | heartbeats, replies, close targets, reset, switch | `terminal-manager.py` 3865-3932, 6543-6735, `desktop.html`, `deskstate.js`, `usage-strips.js` |
| `GameScore` | the table of best runs over several windows | `gamescore.js`, `game2048.html` |
| `BrowserGateway` | the runtime of Browser Lite as a value, each request an operator | `control-ledger.cjs`, `navigation.cjs`, `gateway.cjs` |
| `BrowserTabs` | controllers, commands on the network, frames; extends `BrowserGateway` | `trusted-controller.js`, `wrapper.js`, `runtime.cjs` |
| `TabHistory` | journals of documents, the toolbar's list | `document-history.js`, `client-bridge.js` 467-523, `wrapper.js` |
| `BrowserSaves` | the device's and the server's copy of the tabs | `wrapper.js`, `tab-store.cjs` |
| `PageMessages` | held messages, lookups of origins, choice of a target | `message-gate.js`, `message-target.js`, `client-bridge.js` 17-141 |
| `PageWorkers` | uploads of worker sources and the requests that wait | `worker-store.cjs`, `gateway.cjs` 282-310, `client-bridge.js` 145-210 |
| `BrowserEgress` | places, lookups, the queue of waiters, the relay | `egress.cjs`, `egress-relay.cjs` |
| `TunnelPool` | shared HTTP/2 sessions and the tunnels beside them | `tunnel-pool-patch.cjs` |
| `ScriptWorkers` | the pool of rewriting threads | `script-workers.cjs` |
| `MirrorPage` | captures, packets, baselines, drafts, actions | `browser-lite.js`, `browser-lite-renderer.js`, `agent.py`, `collector.js` |
| `MCSchedules`, `MCDesktop`, `MCBrowserLite` | instances for TLC | |
| `SchedulesProofs`, `TerminalTransportProofs`, `SessionResumeProofs`, `TerminalLifecycleProofs`, `DesktopPartsProofs`, `BrowserPartsProofs`, `TabHistoryProofs`, `MirrorPageProofs` | theorems | |

`PROJECT.json` maps every definition to its lines. Definitions marked `(mutant:
...)` or `a bug` are not part of the model: each is a plausible mistake in the
code which, put in place of the definition that follows it, breaks a property.

`MCDesktop` and `MCBrowserLite` gather parts that share no state. Their variable
`focus` is chosen at the start and picks one part; the others stay as they
start. A behaviour of the composite is a behaviour of one part, so the number of
states is the sum of the parts' and not their product, and every property is
about one part only. The parts really are independent in the code, up to the
events of the environment, which each part generates for itself.

### Schedules

One action is one step under `_schedules_lock`, or one write to a terminal's
socket. A thread's place in `_run_due_schedules` is `pc`: `idle`, `scan` (about
to read the file), `age` (nothing was due), `fire` (a snapshot entry is next),
`text` and `enter` (inside `_inject_terminal`). The sweeper is one thread; each
request thread that posts an entry due at once runs a pass of its own (8513).
`schedules` is the file, `due` and `results` the two local variables of a pass,
`passNow` its `now`, read once.

* The file: reads may fail (an unreadable file reads as no entries, 4223) and
  writes may fail (`_atomic_write` renames, so the old content stays). Every
  failure is counted against `MaxFaults`.
* Typing: the text and the Enter are separate writes; each is retried up to
  `Attempts` times; a write that raised may or may not have arrived. `line` is
  what the terminal's program holds in its input line.
* `Create` covers all validated requests; refused ones change nothing and are
  left out. `Cancel` deletes, or keeps a loop that has run as `stopped`.
* Pruning (`Prunes`) is a relation: which of two equally old entries goes
  depends on the order in the list, so both outcomes are allowed.
* `Crash` loses every pass and keeps the file. `StopTerminal` stands for a
  close, the reaper and a dying daemon.
* Times are ticks of one clock and 0 is Python's unset value. Labels, error
  texts and the memoised list are left out.

### TerminalTransport

The browser's side is `state`, `opening`, `sending`, `acking`, `stream`, the
cursor `after`, the `queue` and the last input number `seq`; the relay's is
`relay`, `sequence`, `acked`, `frames`, `inputSequence`. A request is a record
in `net`; one under way remembers how many of its frames have been handled, so
two copies of one request interleave frame by frame as they do in two handler
threads. Requests may be lost before or after they are handled, answered too
late, or handled after the browser gave up on them; the stream may break at any
point (`OpenLost`, `SendLost`, `AckLost`, `StreamLost`, bounded by `MaxLost`).
`relay = "gone"` is a relay the reaper has removed.

Assumed: the reaper removes a relay only when nothing has touched it for 90 s,
which a live stream (touched at least every 8 s) and an opening browser (which
gives up after 31 s) rule out; an id is not opened again after it was reaped
(ids are fresh per connection); a reply reaches the browser in the step in
which the server finishes, unless it is lost; one turn of the page sends one
message or one claim nudge. Sizes are counted in frames and messages, not
bytes. The `poll` operation of older pages is left out: it does what one turn
of the stream does. The registry's limits need several connections and are left
to a module of their own.

### SessionResume

A unit of output is a number; a unit in `Probes` is a query to which xterm
types an answer, and `Gone` is the hole a filtered one leaves, so that positions
count raw output as the offsets do. The daemon is one thread: one action is one
turn of its loop. `log` is the history of each epoch's whole output; the ring
holds its newest `Cap` units. `link` is the state of attach and ttyd between the
two, `wire` what is on its way to the page. A replay goes out in chunks of which
only the last names an offset; a frame may be sent half (`part`).

Left out: terminal modes of evicted output, the listener without a handshake,
paced replay (off by default), keystrokes queued behind the handshake, the size.
A restart of the daemon restores nothing or what it last held, filtered and with
the banner; saving to disk is not modelled step by step. One page with one
connection at a time. A query split over two frames is not recognised as one by
the code either, and is not modelled.

### TerminalLifecycle

Each subprocess call of a handler is one step, and everything else may happen
between two of them. `sess` and `ttyd` are the two systemd units of a terminal
(`off`, `booting`, `up`, `stopping`), `sock` its socket file, `saved` its state
directory, `names` its entry in the tab names, `lock` the start lock, `cache` the
memoised list of running terminals, and `job` what each manager thread is doing,
with the readings it has taken. A *life* is one terminal as its user knows it: a
daemon that restores saved state continues that life, any other daemon begins a
new one, and a name belongs to the life it was given to. So "a name survives a
reboot" and "a reused number has no name" are statements about lives.

`told`, `kept`, `gone`, and the fields `back`, `quiet`, `clean` of a job are
history: they are read by properties only, except that a new life is numbered
differently from the life a name belongs to and from the last one kept. `want`
is the browser's side: a page has the tab open and asks for it again whenever it
is not whole.

* A stop is asynchronous in the units and awaited by the caller, or times out; a
  daemon saves on SIGTERM once it has loaded, and dies silently on SIGKILL.
* `Reap` stands for a user without any open page for hours: no request is under
  way and every daemon has saved its state. That a pending schedule spares the
  user is the reaper's guard in another file, and left to a composition.
* `Reset` stops what its listing found. What it can promise is tracked apart for
  terminals that were listed and killed (`gone = "listed"`) and for the others
  (`gone = "reset"`).

Left out: reading and storing the cache in two steps (the list is taken and
stored at once), the two-second memo of the session check (it only delays), the
order of tabs, `open-at`, the exchange of tab sets between pages, several users,
failing `rm`. Terminals share only the cache and the names file, and
each has its own lock and directory, so that one number is enough for what one
terminal promises.

### TerminalConnection

`sock` is the readyState of the newest socket (a superseded one is deaf), `due`
its close event if that is still to come, `page` the script's variables, `ttyd`
the listeners of ttyd's own client, `stored` the attempts kept in session storage
(`storage` says whether it works), `attempts` what the property counts. A tick of
the watchdog has two inputs, whether the long delay and the pause after an
attempt have passed; token fetches and connecting sockets may stall for ever.
ttyd's client is external, modelled from what the script wraps.

### TerminalReader, TerminalTyping, TerminalGestures, TerminalSize

Four views of `terminal-kbd.js`, which share only the page's events. The reader
has one row of the terminal; the passage read is that row and what it says, so
that output which evicts, repaints, inserts or erases lines moves or destroys it
as in xterm, whose buffer is external. The typist has a field and the forwarder's
mirror; `line` is what the shell has received. The gestures are fingers on the
overlay and on the handles, with cells in one line. The size has several devices
and one shape; claiming is one atomic step, which leaves out the attach processes
and their files. A socket is first connecting, since the cap of 8 s on the loading bar runs
from its construction: one that opens later (`late`) replays, but claims nothing after it.

### WindowManager, ServiceWorker, SharedDesk, GameScore

`WindowManager` uses the code's pixel arithmetic (gap, edge, minimum, rounding)
on two frames, since recognising a layout depends on it. In `ServiceWorker` a
page's content is the number of its deploy, and every request on the network is a
record, also those a navigation no longer waits for. `SharedDesk` sends requests
and replies one by one, in any order, some lost; one app stands for all.
`GameScore` is the table as 2048 uses it: a move scores a point, and the rows are a set,
since the properties do not tell two rows of one run apart by their place.

### BrowserGateway and BrowserTabs

Node handles a request without interleaving up to its next await, so the
runtime is a value `server` and each request an operator on it; `BrowserTabs` adds
the controllers (a queue of tasks, of which the first runs; a command number; the
operation it recovers), the network (`calls`, `replies`; an answer may be lost and
its call come late), the frames, and the user. `faults` bounds lost answers,
restarts, lapses of lanes, deadlines and new sign-ins. An id is a client ID and a
tab ID, which change together.

### TabHistory, BrowserSaves

`TabHistory` has one tab: the journal of each document, the messages both ways
between document and toolbar, the pending command with its outcome, and the list.
A list that lost count (`hist.astray`) is remembered, because `ListIsTrue` does not
hold for it: an open that begins before the list has a position, or after its slot was
taken by another document. Nor does it hold while a placeholder stands for the page that
is being left (`KeptForIt`, `keepUnreported` in `wrapper.js` 328). `BrowserSaves` has two devices with one user's server copy; any page
may be discarded at any time.

### PageMessages, PageWorkers, BrowserEgress, TunnelPool, ScriptWorkers

Small protocols with one queue or one book each. A lookup, an upload, a name
resolution, a connect is a start and a later answer, which may be a failure, in
any order. In `PageMessages` a host is a record of the site, the tab's site and whether it is
tainted, computed as `realm-policy.cjs` 19-24 does: a frame that goes elsewhere by itself
gets a child of its own host, one that its parent sends gets a child of the parent's, and
the server answers as for the latter. A site has one origin there; windows that are no
frame, sibling, popup, opener or parent of the page are left out. `got.arrived` and `got.delivered` in `PageMessages`, `post` there and
`refused` in `BrowserEgress` are bookkeeping for the properties. In `BrowserEgress`
a tunnel that is connecting counts twice, as in the code (`sockets.size +
pending`), so that a waiter may be refused before the limit is reached by sockets
alone; `LimitIsExact` says that nobody is refused while the code's own count has
room, and that sockets and pending lookups together never exceed the limit.

### MirrorPage

The page has a text its script changes and one field. A capture is a start, a
snapshot and a commit, with awaits between; an update is a packet with an epoch and
a number; the toolbar polls, applies, acknowledges; an action waits in a queue,
is sent at most twice and is answered. `spent.missed` records a capture that took
longer than its 3 s, after which the renderer may stay behind (see below).

The session's `meta` is the number of the last input at its newest update, which a
baseline carries; a packet carries the number read when it is made. Both may belong to an
input newer than the snapshot beside them: `spent.overtaken` records that, and
`EnterSeesTyping` is about histories without it. With it the property does not hold
from three acts on (see the known behaviours).

An Enter carries whether its field is in a form (`submits`), and only then is it held back
after a refused or lost text. `pressed.unsure` marks one that went on outside a form, which
`EnterSeesTyping` excepts.

## Runs

Bounds are small in every dimension in which the code treats all values alike,
and reach each limit at least once in the dimensions that have one.

| Run | Instance | Shows |
|---|---|---|
| `sched_concurrent` (2.2 M states) | two entries, the sweeper and one request thread, clock to 4, `MaxPerUser` = 1 so that the cap bites, every 2 ticks | Two passes overlap freely with cancels and creates: `TypeOK`, `CancelIsFinal`, `FinishedForGood`, `LoopInWindow`, `LoopsKeepCount` |
| `sched_serial` (0.5 M) | two entries, all in the future, one terminal stop | The sweeper alone types no slot twice or out of order: `SlotsOnce` |
| `sched_faults` (1.2 M) | one entry, two faults of file or socket, one send lost without an error, one restart, past loop starts, fair sweeper | `SentMeansSubmitted`, `EntriesAccountedFor` |
| `sched_send_now` | one entry due at once | *violated*: `SlotsOnce` |
| `transport_safety` (2.0 M) | two frames out, two messages in with nudges, two losses, buffer of two, one frame per batch | `HoldsUndelivered`, `FinishedHasAll`, `OutputIsChannel`, `InputIsExact` |
| `transport_liveness` (0.2 M) | as above with a buffer of one frame, so that the reader stops; one loss | `DirectionsArrive`, `RelayReleased` |
| `session_resume` (1.9 M) | three units of output of which one is a query, a ring of two, chunks of one, a queue limit of four, a cache of three; one exit, crash, drop and reload each | `ResumesExactly`, `PageCatchesUp` |
| `lifecycle` (0.7 M) | one terminal, two manager threads, one failure anywhere (a unit dies, a wait times out, the manager or the host restarts), three acts of the user or the reaper | `ClosedStaysClosed`, `StartsBuild`, `NamesFollow` |
| `lifecycle_comes_back` | as above | *violated*: `ComesBack` |
| `lifecycle_reset` | as above | *violated*: `NothingComesBack` |
| `desktop` (0.4 M) | the nine parts of the terminal's page and the desktop, each with its own bounds in `MCDesktop` | `PageComesUp`, `ReaderKeepsPlace`, `LineIsField`, `HandlesFrameSelection`, `FrontGetsShape`, `LayoutReadsBack`, `LoadsAnswered`, `DesksConverge`, `RowsAreRuns` |
| `browser_lite` (1.6 M) | the nine parts of Browser Lite, the tabs twice: one tab with a form and a fault, two tabs that are shown in turn with room for one lane; the history twice: two documents at one address with a fault, one document and two addresses | `PagesHaveLanes`, `SentOnce`, `AloneNeverDead`, `ListIsTrue`, `EnterSeesTyping`, `MirrorShowsPage`, `KeptUnlessClosed`, `GateIsTransparent`, `WaitersHaveNothing`, `LimitIsExact`, `ConnectionsBounded`, `ScriptsSettle` |

Some names join what belongs together, and each half has its own definition:
`LoopsKeepCount` is `PendingCap`, `RunsAccount` and `LoopKeepsItsMinute`;
`EntriesAccountedFor` is `PendingSurvives` and `DueGetsSettled`; `InputIsExact` is
`InputIsChannel` and `NeverOutOfStep`; `DirectionsArrive` is `OutputArrives` and
`InputArrives`; `ResumesExactly` is `CursorsAreHonest`, `ScreenIsOutput`,
`AttachedIsCurrent` and `ProbesAskedOnce`; `StartsBuild` is `HealthyLeftAlone` and
`StuckOnlyAsOrphan`; `NamesFollow` is `NamesSurvive` and `ReusedStartsNameless`.

Why the bounds suffice: two passes are what the races need, since passes only
meet through the file and the terminal; two entries let one be typed between the
halves of another; the clock of four ticks (three with faults) lets a loop run, be late, be skipped
and end. In the transport two losses let a request be lost, repeated and lost
again while a second one follows; a buffer of one or two is full at once. In the
session a ring of two with three units has a cursor that is too old, a replay of
two chunks that can be cut, and a queue limit of four that a replay and one live
frame pass. A terminal's races need two threads, one of which is slow; three acts
open, close and open again, and a single failure already reaches every state in
which one unit is without the other.

In `desktop`: two attempts and three disturbances use up the connection's budget
across a reload and then some; a scrollback of four lines with four writes evicts
the passage being read, and a repaint reaches three rows up; six events type, hold
back, time out and submit; three touches put two fingers down and one again; two
devices claim in turn; three steps place, move and rearrange three windows on two
frames of which one is narrower than a layout needs; two deploys and two loads let
one overtake the other; three acts on two devices with one lost message close, reset
and reopen; two windows, three runs of which each may be recorded, and room for two rows drop one.

In `browser_lite`: one lane with two tabs evicts at every turn; two requests of the
user with a fault between them include each repeat of a command and of a page; two
documents and a journal of two entries go back across a document, and with a second
address a page is left for another before it has reported (with one address the toolbar
keeps no placeholder, so that only the second instance reaches `KeptForIt`); two actions and a
fault coalesce, refuse and repeat an input; a frame, a sibling, a popup and the
parent, on two sites, in a tainted tab and in one that is not, let a host be known, unknown
and failing, and a frame come back tainted; two places for three tunnels, four
jobs for two workers of which both exit.

Deadlock is not checked where a run may really come to rest (a connection that is
closed for good, all bounds used up).

### Findings

The three violated runs each contradict a sentence of the repository, quoted in
`PROJECT.json`:

1. *A message may arrive twice.* "Send now" runs a pass beside the sweeper's;
   both find the entry pending and both type it (4499, 8513).
2. *A session daemon without a ttyd blocks its terminal.* A start looks at the
   session unit only under a live ttyd (2525). If ttyd died, or the manager
   restarted between the two launches, launching the session unit fails because
   it exists, and so does every later start. `StuckOnlyAsOrphan` shows that this
   is the only way in which an open terminal stays down.
3. *A logout overlooks a session daemon without a ttyd* (6681): its listing asks
   about ttyd units only. The shell goes on, and its state is saved again after
   it was forgotten.

Noticed while modelling and not given a run:

* Schedules: a cancel does not always prevent delivery, since a pass types from a
  snapshot taken before it (4518, `CancelPreventsDelivery`); nothing serialises two
  passes on one terminal between a text and its Enter, so two messages may be
  submitted as one line (4468, `SubmittedAsReviewed`); a cancelled loop's age is
  counted from its last run, so that it may leave the history at once (8560, 4246); an
  unreadable registry reads as empty and the next write replaces it (4223), which
  `PendingSurvives` has to except.
* Schedules, too: a send that raises nothing may not have been delivered, as
  `terminal-manager.py` 4404-4412 says (the daemon drops the client, or gives up on a PTY
  after a second, `vibetop-session` 1430-1434), and the entry is `sent` all the same. The
  model has such sends (`Vanishes`), and `SentMeansSubmitted` excepts their entries.
* Transport: a claim nudge queued behind fifteen resizes is split over two requests
  (`terminal-http.js` 187).
* Lifecycle: the socket file a killed daemon leaves behind satisfies the next start's
  wait (2585); a first start that fails half way leaves a saved state, so that the
  next one inherits the number's name (2608).
* Terminal page: key handlers and Enter listeners of superseded sockets accumulate in
  ttyd's client; the follow loop of ten seconds can run against a reader
  (`terminal-kbd.js` 308, 458-462), and a pending frame that reveals the newest line can
  undo the first turn of a wheel; a hardware Tab does not reset the mirror though
  `terminal-kbd.js` 891-895 lists it; Enter on the key bar while composing drops the
  text held back; `touchcancel` is not handled;
  a connection that opens more than 8 s after its socket was made claims no size after its
  replay (`terminal-kbd.js` 421, 461).
* Windows: the gaps make a tile of the minimal width narrower, and it is widened again,
  so that Tidy may leave overlaps (`winmgr.js` 95, `TidyApart`); on narrow frames an
  applied layout does not read back as itself (`desktop.html` 1663, 1763).
* Service worker: the refresh behind a navigation that timed out is not covered by
  `waitUntil` (`sw.js` 175-177).
* Shared desk: a window reopened before the next heartbeat is closed again by a standing
  target; a heartbeat while the desktop still starts overwrites the saved windows; a
  corrupt registry begins `reset_epoch` at 0 again; a device taken for gone loses its
  close target.
* Score table: after a game is over, Undo and a worse end replace the better row.
* Gateway and tabs: after two lost answers Retry recovers the older address; a reset
  during an earlier open drops the later one; an approval that fails with a reset is not
  reported.
* History: a document that never reported can lose its entry, against `wrapper.js`
  312-314 and 324-327 (`EveryPageHasItsSlot`). The placeholder of `keepUnreported`
  (328-335) is put after the current slot even when that slot is of the document being
  left, whose later entries go with the tail, while the document still reports them
  until the next one replaces it.
* Saved tabs: closing a blank tab on a fresh start counts as closing, so that empty saves
  replace the server's tabs (`wrapper.js` 65-66, 225); a tab opened before the server's
  answer makes the restore be ignored (470); saves that overtake each other leave the
  older list; the answer of a start overwrites a newer edit of shortcuts (422-426);
  a save whose tabs all have addresses of more than 4096 characters is
  not empty and is stored as an empty one (`tab-store.cjs` 7, `wrapper.js` 63-67), which
  `KeptUnlessClosed` excepts.
* Messages of pages: in a tab of an untainted site, a frame that left for another site and
  came back by itself has a tainted host, and the server answers with the untainted one
  (`gateway.cjs` 277, `realm-policy.cjs` 20-24): messages to it go nowhere until it has
  written. `AnswersArrive` excepts such a frame.
* Workers and pools: a failure that no longer fits the book makes a later wait idle its 30
  seconds; a failed lookup wakes no waiter; requests and upgrades do not look for a client
  that left (`egress.cjs` 141-166, 189-207); a session that connects after its timeout is
  kept by nobody (`tunnel-pool-patch.cjs` 96, 116-119); requests wait for ever when all
  opening tunnels fail; a GOAWAY with an error resends what may have been processed
  (155-161).
* Mirrored page: an Enter in a field without a form goes on after a refused or lost text
  (`browser-lite.js` 133, `browser-lite-renderer.js` 258) and acts on the older one; an answer to a navigation while the last packet is still being applied
  leaves the old number under the new epoch (`browser-lite.js` 101-104, 147), and the
  renderer may call every update stale if the capture was missed as well; a capture that
  still awaits when an input is performed confirms that input with the text before it
  (`agent.py` 306): the field shows the older text until the next packet, and a baseline
  sends it to the page again (`browser-lite-renderer.js` 129, 179); taking over one's own
  session stops the page.

### Fairness

* `Schedules!FairSpec`: weak fairness of the sweeper's pass. `_schedule_loop` is
  an endless loop in a daemon thread that survives every exception (4575). There
  is none for request threads, the clock, users, terminals, faults or restarts;
  faults and restarts are bounded, as a file that can never be written keeps
  entries due for ever.
* `TerminalTransport!FairSpec`: the relay's reader thread, the handler threads
  serving a request the browser still waits for, the stream handler with its ten
  second deadline, the browser's callbacks and timers, and the reaper's fifteen
  second sweep once the browser is gone. None for ttyd, the user, the network's
  losses (bounded), closing, late requests.
* `SessionResume!FairSpec`: the daemon's loop (accepting, serving the handshake,
  flushing whole frames), and the page's reconnecting and callbacks. None for
  output, exits, crashes, drops and reloads (all bounded), the replay budget,
  half sends and saving.
* `TerminalLifecycle!FairSpec`: each step of a handler (subprocess calls return),
  systemd carrying out its jobs, the expiry of the cache. Strong fairness of taking
  the start lock, which waiters get in turn although others take it between, and of
  an open page asking again: ttyd's client reconnects every few seconds, while the
  terminal may be seen whole in between. None for opening, closing, reset, reaping,
  failures, restarts (all bounded), the periodic save, polls and renaming.
* `TerminalConnection`: the watchdog's interval timer (at a tick on which both its delays
  have passed, or right after a close), and what went away comes back: the page to the
  foreground, the network, the page out of the back/forward cache. Nothing is asked of a
  token fetch, a socket or the user. Disturbances are bounded.
* `TerminalSize`: the claim's timer, the reconnection of a lost socket (by the watchdog
  above), sooner or later than the cap on its replay, the cap itself, and the end of a
  replay.
* `ServiceWorker`: the two timers of a navigation (stalled, given up), the arrival of
  answers, and the browser following a redirect. None for the user, deploys, expiry.
* `SharedDesk`: the server handles what reaches it, replies reach the page, and the
  heartbeat, the guard after a close and the expiry of a silent device are timers. None
  for users; losses are bounded.
* `BrowserTabs`: the controller's tasks, the delivery of a command somebody waits for, its
  answer, the frame's entry and the page behind it, the slow-load timer, what the page
  reports by itself, the reading of an upload that has arrived, and the heartbeat every 30
  seconds with its answer. None for late commands, the user and faults.
* `MirrorPage`: the session's capture loop and commits, the toolbar's poll, its steps, and
  the queue of actions. Strong fairness of the two captures a request asks for: they take
  the session's lock, which the loop takes in between.
* `ScriptWorkers`: some running worker ends its script. None for exits, which are bounded.

## Theorems

All are `Spec => ...` for every value of the constants allowed by the modules'
assumptions. These only say that limits, cells, units and runs are natural numbers
(positive where the code divides by them or needs room for one), that frames are
measured in pixels and windows are told apart, that something can be saved and fits,
and that a null value (of a lock, a row, a text, a run, a window, a journal) is none of
the values it stands beside. What one theorem asks beyond that is said with it.

`SchedulesProofs`:

* `TypeCorrect`: `TypeOK` is inductive as it stands. Its part about `cur` (an id
  is current exactly while its thread is typing it) is what makes the updates of
  `due` and `results` typed.
* `CancelledForGood` and `OutcomesFinal`: what a step may do to one entry of the
  file is established once (`StepEffect`: kept, dropped, created under an unused
  id, stopped, or updated while pending). The strengthening `IdsGivenOut` says
  that an entry, a snapshot, a result and a cancel only exist for ids given out,
  so no create revives a cancelled id.
* `LoopsStayInWindow`: a pass re-arms from an old snapshot, so the file alone
  does not carry the argument. `SnapshotsAgree` says that every snapshot has the
  interval and the window of the entry in the file, and that each result re-arms
  inside that window.

* `BooksBalance`: `LoopsKeepCount`, for finitely many request threads. For the cap,
  only a create adds a pending entry, and it counts under the lock before it writes
  (`CreateCapped`; without a create what is pending
  was pending before, `PendingBefore`). For the runs, `PassBooks` says that a pass which has
  not begun holds no results and that an entry is not both still to be handled and already
  recorded; then an attempt enters `Unrecorded` once (`FireBooks`), and the write that ends
  the pass takes it out as it adds one to `runs` (`CountApply`). For the grid, `SlotsOnGrid`
  says that snapshots and results are a whole number of intervals from the slot in the file,
  which `NextSlot` preserves; a step then moves a slot along its grid (`SlotMoves`).
* `SentWasSubmitted`: `SentMeansSubmitted`. `SentInv` follows a text from the line it was
  typed into: while no terminal has stopped, the text of a pass that waits for its Enter is
  in its terminal's line or was submitted by another Enter (`Reached`), and a result or an
  entry that says `sent` is about a text submitted, or one of whose sends vanished.
* `SlotsOnceWhenAlone`: `SlotsOnce` under the hypothesis `[]SweeperAlone` (no operation on
  the file fails, no restart, and no request thread runs a pass), which is what the run of
  `SlotsOnce` has too: after a lost result, or when a second pass holds the same snapshot,
  the code attempts a slot again. The invariant says that all attempts were made for slots
  before the one in the file, in the sweeper's snapshot or in its result (`FileAhead`,
  `SnapshotAhead`, `ResultAhead`).

`TerminalTransportProofs`, with the invariant `Inv` of five parts: `Retained`
(the relay holds exactly the frames past the acknowledged one, as ttyd wrote
them), `Received` (the page has the first `after` of them), `Chained` (batches on
the way continue one another, from the page's cursor to the stream's), `Ended`
(nothing is read after the relay closed), `Acks` (no acknowledgement anywhere, in
any late or repeated request, is ahead of the page). Each part is preserved by a
lemma of its own, which needs the others:

* `UndeliveredIsHeld`: `HoldsUndelivered`, from `Retained` and `Received`.
* `CleanCloseIsComplete`: `FinishedHasAll`, from `Ended`.
* `OutputImplementsChannel`: every step is a send, a receive or a stutter of
  `Channel`; a delivery receives because the batch begins where the page stands.

* `InputArrivesExactly`: `InputIsExact`, where `None` is no send request. The invariant
  `InputInv` has one witness, the function `E` that says how many of the page's items the first n input frames hold; a
  frame is the items between two of its values. Every copy of a request on the wire holds
  the frames of its numbers (`Copy`) and starts no later than the next number the relay
  expects, because the page sends a request only when the one before was counted; so no
  copy finds a gap. ttyd has read the items of the frames counted, and after a failed write
  perhaps those of the next, when the relay takes no more (`Written`). A new request extends `E`
  (`ResizesFit` for a frame per resize, `KeysFit` for a joined run, `FlushTo`); requests
  repeated, lost or late leave it alone.

`SessionResumeProofs`, for any sizes of ring, backlog, frame, screen and cache:

* `TypesHold`: the shapes, the ring within its capacity and at the end of what its shell
  wrote, page and store within theirs.
* `ResumeIsExact`: `ResumesExactly`. The invariant describes what is on its way as a path
  (`Path`, `Line`): each frame on the wire and in the queue leads from one position in the
  output (epoch and offset) to the next, the first from where the page stands (`PageAt`),
  the last to where the daemon believes the client to be (`DaemonAt`). A frame without a
  reset continues at the position before it; its text is the stretch of the output it
  covers, with holes where queries were taken out, and holds a query only if that is newer
  than any before (`Follows`). The page moves along the first frame, the daemon
  lengthens the path at its end, and a broken connection cuts it. Beside the path: a usable
  cursor, in the page or its store, is where its text ends (`Honest`), the screen is such a
  stretch (`Shown`), and nothing is under way in the states of the handshake where nothing
  can be (`Handshake`, `Told`).

`TerminalLifecycleProofs`, for any tabs, threads, faults and restarts:

* `ClosedForGood`: `ClosedStaysClosed`. One idea carries it: only a start launches units,
  and every other step keeps off what is off, forgotten what is forgotten and unlisted what
  is unlisted (`Calm`). A close or a reset that no start interrupted (`quiet`) walks the
  terminal down: its place in the program says how much of it is gone already (`Closes`,
  `Resets`), so when it ends nothing is left (`Gone`). `Jobs` says that each thread is
  inside the program of its job.
* `NamesLiveWithTerminals`: `NamesFollow`. For a number reused, `Cleans`: a start after a
  finished close or reset finds nothing saved or running, so it drops the name. For a
  terminal that came back, `Kept` and `Backs`: what a start found saved stays so until it
  ends, because no other start works on that terminal (`Locks`) and nothing is closing it.
* `HealthyPairsStay`: `HealthyLeftAlone`, a part of the run's `StartsBuild`. A start tears
  down a pair only when it found the session off or has launched it itself; what it has
  launched nobody has reported yet (`Tolds`).
* `LifecycleTypes`, with the part of `TypeOK` about the lock's holder.

`DesktopPartsProofs`, for parts of the terminal's page, the desktop and the games:

* `PassageStaysInView`, for any output, scrollback and gestures: `ReaderKeepsPlace`.
  `ReaderInv` says that the page is hidden, shows the alternate screen, still has a
  restore to do (`Waits`), or shows the passage if some line says it (`Sees`). A restore
  finds the nearest such line (`RestoredIs`), every write asks for one, and nothing else
  moves the view of a reader.
* `WhatIsShownIsSent`, for any texts: `LineIsField`. While the mirror is right the shell's
  line is what was sent (`InStep`), and a field that differs from it is being composed or
  waits for its timer (`UpToDate`). A change erases down to the common prefix and types
  the rest, which is the field again.
* `SelectionFramed`, for any cells: `HandlesFrameSelection`. In `GesturesInv` a selection
  has its ends in order, and a handle being dragged has the other end as its anchor.
* `RunsListedOnce`, for any windows and table size: `RowsAreRuns`. `ScoreInv` has one row
  for each run (`OneRowEach`), only the old best in a row without a date
  (`UndatedIsLegacy`), and no rows in a table not yet migrated (`Untouched`).
* `LayoutsReadBack`, for any windows and any sizes of frame: `LayoutReadsBack`. Two zones
  of a layout are apart in sixtieths (`LayoutsWellLaid`), rounding keeps their order
  (`SidesInOrder`), and a gap begins after its zone does and ends before (`GapSide`), so in
  a roomy layout the zones lie inside the frame and apart; clamping leaves them
  (`SettledStays`) and a window matches its own zone alone (`SettledMatches`). What is read
  off the screen is then what was staged (`ReadOffBack`). `WindowsInv` says that the board
  deals each window that is shown to one zone (`BoardDeals`); it is applied as it is,
  because whatever shows or hides a window closes the palette.
* `AttemptsStayBounded`: `AttemptsBounded`, the safety half of `PageComesUp`. The page has
  counted each attempt before it makes it, and a reload starts with that count
  (`BudgetInv`).
* `PagesAreRecent`, for any positive number of deploys: `ServesItsOwn`, the safety half of
  `LoadsAnswered`. What is in the cache of a version (`KeepsNone`) and what its requests
  bring (`GetsNone`) is no older than the version, and a navigation's answer is to a
  request of the worker that answers it.

`BrowserPartsProofs`, for six parts of Browser Lite:

* `MessagesUnfelt`, for frames, siblings, popups and sites of any number, tainted or not:
  `GateIsTransparent`. Arrivals are numbered; the invariant `InOrder` says
  that those delivered are the first, in order, and those held the next, so that
  draining delivers a prefix of what is held. Each host a window has, wrote as or was heard as
  is the one the server gives for its kind (`rights`), so that the ways to find a target
  agree: going to another site by itself taints as the child of either, and only coming
  back to the tab's own site can leave a taint the server does not know of (`Steady`).
  It assumes that the parent is no frame, sibling or popup, and that the model's null value
  is no host.
* `NobodyWaitsInVain`: `WaitersHaveNothing`, inductive once it is known that waiters are
  requests and that a script is asked for only after its upload has begun (`Started`).
* `LimitHolds`, for any finite set of tunnels and any natural limit: `LimitIsExact`. An
  open holds its place from before its lookup, so the
  tunnels that are busy never outnumber what `Taken` counts; where the code finds room,
  `OneMore` adds one, and every other step adds none (`NoMore`).
* `OneConnectionEach`, for any requests, sessions, tunnels, limit and faults:
  `ConnectionsBounded`. `TunnelPlaces` says that what holds a place is
  finite and within the limit: only a request that found fewer than the limit takes a new
  one, and a place handed on stays one place. `OneSession` says that the session in the
  pool's map is the only open one, and that a second one opens only while the map has none.
  It assumes that the model's null value is no session.
* `ForgottenOnlyIfClosed`, for any finite set of addresses and any room: `KeptUnlessClosed`.
  `SavesInv` says that no copy that is empty and may become the user's, on a page, on the
  network or in local storage, is of a page on which nothing was closed (`MayEmpty`); a list of addresses
  too long for the server, which it stores as an empty one, is excepted (`OnlyLong`).
* `PagesCanBeClosed`: `PagesHaveLanes`. The invariant `Good` is about the runtime as a
  value: its shape, that of its lanes, and that every page has an open lane of its own
  sign-in. A request runs in three parts, each with its lemma: `PerformEffect` (a command
  opens the page of its tab, closes it, or changes neither), `InLaneKeeps` (the outcome is
  written into the lane the command came by), `RunKeeps` (making room in the ledger closes
  the page whose lane goes, `ClosedKeeps`). The other requests leave lanes and pages alone.
* `FormsSentOnce`: `SentOnce`. `Books` says that what an entry to a page carries is a
  navigation that was captured on the page before (`Carried`). Every request moves each
  navigation onward (`Onward`: it keeps its page and does not become unsent again), and
  `Record` relates the history to it: what is still to be sent was not sent. Only the
  page's own request sends, and the navigation is not unsent afterwards (`FollowSends`).

`TabHistoryProofs`, for any addresses, size of a journal, steps, documents and losses:

* `BackAndForwardStartRight`: `ListIsTrue`. `HistoryInv` has a part about the toolbar and
  one about what is under way. The toolbar (`Core`): its position is in the list or before
  it; a step that waits for its page leads to a slot next to where it started (`Led`) and
  that page has not reported (`Taken`); the entries of the shown document are together,
  have its address, and no later document has any (`Whole`); and the list shows the
  document's journal at the place where the toolbar is, or goes back to if the step fails
  (`Faithful`, `Place`). Under way (`Talk`): what the toolbar knows of documents is no newer
  than they are (`ListKnown`, `PageKnown`), reports are of the page that is shown and queue
  in their order (`Said`, `Line`), so that journals reported only get newer, and a page is
  asked for its history with nonces that rise (`Bid`, `Rising`): a page that loads again
  answers no request whose nonce is spent (`Busy`). A new document has a number above all
  in the list, so that its first report takes a slot of its own.

`MirrorPageProofs`, for any number of actions and faults:

* `EnterIsExact`: `EnterSeesTyping`, which excepts an Enter outside a form after a refused text. Enter carries what its user saw, and acts on a page
  that may have had inputs, answers, captures and a navigation in between, so the invariant
  follows the field all the way round. `Epochs`: nothing that waits is for a newer document
  than the one shown, so an action for an older one is refused. `Numbers`: inputs are
  performed in the order of their numbers, and what waits is newer than the last performed. `Calls`: a repeated call is performed once and its result kept. Until a capture
  is overtaken, also: `Shown`, what the user sees, and what each waiting Enter saw, is the
  last text typed before it that still waits, or else the page's own field (`Expects`,
  `Behind`); `Confirms`, a packet or a baseline that confirms the last input carries the
  field as it is; `DraftShown`, a draft is what is shown, and the page has it once it was performed; `Quiet`,
  without a draft nothing is on its way to the field and all who know it agree; and
  `Untouched`, nobody has typed into a document not shown yet. The parts need each other:
  a packet may replace a draft only because of `Confirms`, which holds because
  an input in flight is numbered after those confirmed. It assumes that the model's null
  value is neither a document nor a draft.

Every safety invariant and action property that a passing run checks is proved, except
`PendingSurvives` of `Schedules`, which does not hold for every value of the constants:
with `KeepDone` 0, or in a list longer than twice the cap, the write that finishes an
entry may drop it. Only model-checked besides: all liveness (fairness and `ENABLED` are
out of the prover's reach), alone or as a part of `EntriesAccountedFor`, `StartsBuild`,
`PageComesUp` and `LoadsAnswered`.

## Plan

*Done*: the modules above, in the order in which much of the system rests on them.
What is left, by the same order:

1. `SizeOwnership`: attach processes that write their view, choose the newest and
   publish it, each file operation and the signal a step of its own (`vibetop-session`
   1605), composed with `TerminalSize`.
2. `ReplayModes`: the modes remembered at eviction against those of the whole output; the
   save from a signal handler between two assignments of a ring write (1086).
3. `TerminalLifecycle` composed with the pending set of `Schedules` (a user with a
   pending message is not reaped, 2048); the choice of a free number by `open-at`.
4. `Sessions` (epochs, their cache 1703, tombstones, login throttle), with an abstract
   specification in which a revocation takes effect within the cache's lifetime.
5. `WorkGates` and `BgCache`: slots, per-key locks, one producer per key (225).
6. `Update`: the steps of an update and its watchdog with a crash between any two,
   and the pending activation of Browser Lite.
7. `OfficeSession` (8224), the file agent's lifecycle, shares, the transport's registry
   of relays (`terminal_transport.py` 227).

Theorems next: that the revocations of `Sessions` and the ownership in `SizeOwnership`
implement abstract specifications, once those modules are written.

## Not modelled

The components that `PROJECT.json` lists as not modelled: those planned above, and
those whose behaviour is pure I/O, formatting or layout (X11 apps, the HTTP front,
status readings, installers, the app pages, the games' rules). Within modelled parts:
the attach
processes' part of the size; rewriting of content, cookies, downloads and permissions
in Browser Lite; key bar, tray, coach and split panes of the shell.
