# A verification development for DecoyIM

DecoyIM (`src/`, Go, package path `github.com/chadsec1/decoyim`) is an XMPP
instant-messaging client, a fork of CoyIM.  This directory holds TLA+
specifications of its protocol core, the TLC configurations that model-check
them and TLAPS proofs about them.  `PROJECT.json` is the index: components,
runs, the source lines behind every definition, mutants, findings, hazards and
theorems.

## The system and its parts

| Component | Where | State | What it does | What is hard | Here |
|---|---|---|---|---|---|
| connection | `xmpp/connection.go`, `iq.go`, `ping.go`, `cookie.go`, `keepalive.go` | `inflights` table, reply channels, `closed`, `out`, `streamCloseReceived` | sends requests, dispatches replies, watches the peer with pings and keepalives, closes the stream | caller, reader, pinger, keepalive and closers share the table and the flags; replies late, duplicated or stray; four goroutines may close | `Conn` |
| stream set-up | `config/connection_policy.go`, `xmpp/dialer.go`, `dns.go`, `tcp.go`, `tls.go`, `sasl.go`, `streams.go`, `net/dns.go` | dial attempt | SRV lookups, TCP or proxy, TLS, features, SASL, bind | order of fall-backs, timers beside goroutines, a new stream after each layer | `Dial` |
| session | `session/session.go`, `reconnect.go`, `gui/connection.go` | `connStatus`, `conn`, `wantToBeOnline` | Connect, Close, connectionLost, SendPing, stanza handlers | status and connection are two fields, one without a lock; dialing and closing take seconds | `Session` |
| session events | `session/events.go`, `session_observer.go` | subscribers, pending events | one goroutine per subscriber and event | no order of delivery; a slow observer clears a newer roster | the observer, in `Roster` |
| multi-user chat | `session/muc*.go`, `session/muc/`, `gui/muc_*` | room manager, rooms, rosters, occupants | join, leave, destroy, roles and affiliations, room configuration | presences of a room that is being left, destroyed or opened again | `Rooms` |
| file transfer | `session/filetransfer/`, `session/data/filetransfer.go`, `gui/file_transfer*.go` | transfers by id, receivers, the control's channels | negotiation, in-band and SOCKS5 byte streams, encryption, directories | cancelling against ending, reports of several goroutines, a handler that waits for data only it can hand over | `SendFile`, `Receive` |
| roster | `roster/` | peers, resources | merge of roster answers, presence, subscription | objects used outside the list's lock | `Roster` |
| OTR | `otrclient/` | conversation per peer and resource | OTR state per resource, delayed messages, SMP events | several resources, restarts of a peer | not modelled |
| SASL mechanisms | `sasl/` | mechanism state | PLAIN, DIGEST-MD5, SCRAM | the order and checks of the exchange | one step of `Dial` |
| cache | `cache/` | map, expiry goroutines | map with lifetimes | expiry against override | `Cache` |
| configuration | `config/`, `gui/master_password.go`, `gui/options_menu.go` | accounts, encrypted file, backups | load, save, encrypt, import | interrupted save, change of format, wrong password | `ConfigFile` |
| TLS and certificates | `tls/`, `digests/` | pins | verify and pin certificates | policy of pins | one step of `Dial` |
| network | `net/`, `servers/` | Tor state, known servers | detect Tor, proxies | state cached at first use | not modelled |
| user interface | `gui/`, `ui/`, `text/`, `i18n/` | widgets | shows and commands everything above | its goroutines call the session concurrently | the calls it makes |

The session owns one connection at a time.  `session.Connect` dials
(`config.ConnectionPolicy` builds an `xmpp` dialer), stores the connection in
`s.conn` and starts `watchStanzas`, which runs `conn.ReadStanzas` in another
goroutine and receives from it over an unbuffered channel.  Replies to requests
never reach the session: the reader puts them on the channel `SendIQ` returned.
The one goroutine of `watchStanzas` runs every handler of a stanza: presences of
contacts and of rooms, roster pushes, the blocks of a file.  A handler that waits
holds up all of them.  Roster answers, file transfers and rooms that are opened
or left run in goroutines of their own, beside the user interface's.
When the channel of stanzas is closed `watchStanzas` calls `connectionLost`,
which closes the session and publishes `ConnectionLost`; on that event the user
interface reconnects after a delay, and `checkReconnect` reconnects on its own.

## Modules

| Module | Models | Extends or instantiates |
|---|---|---|
| `Conn` | one connection | |
| `Session` | the life of a session over its connections | |
| `ExpiringMap`, `Cache` | what the cache promises, and the cache | `Cache` refines `ExpiringMap` |
| `Roster` | the contact list and the goroutines that use it | |
| `ConfigFile` | the configuration file and its formats | |
| `SendFile` | sending a file, and its reports to the interface | |
| `Delivery`, `Receive` | what receiving a file promises, and receiving it | `Receive` refines `Delivery` |
| `Rooms` | a chat room, its manager and the visits to it | |
| `Dial` | from an account's settings to a connection | |
| `MC...` | the instance of each for TLC | the module |
| `...Proofs` | the proofs about each; those about `Dial` are in `ConnProofs` | the module |

### Conn

State: the fields of `conn` that matter to closing and dispatch (`closed`, `out`,
`streamCloseReceived`, `inflights`), the reply channel of every cookie (capacity
one: `none`, `empty`, `full`, `closed`), the control state `pc` of every
goroutine, what the caller of `SendIQ` is doing (`req`), and the wire.  One
action is one critical section or one channel operation, so `SendIQ` is two
steps (write, then register), `asyncReturnIQResponse` three (look up, delete,
send) and `Close` nine.  `Close` runs in any goroutine of `Threads`; the reader
runs it from `closeImmediately`, the pinger from `sendStreamError`.

* The accesses to `c.out` and `c.closed` that the code makes without a lock are
  data races; a word-sized read returns the old or the new value, which is what
  atomic steps give.
* A panic ends the process (`panicked`, `Running`): sending a reply on a channel
  that a concurrent `Cancel` has closed is one, and it can happen.  The model
  shows it is confined to the time after `Close` wrote the closing tag
  (`PanicOnlyWhileClosing`).
* The timeouts of the session (`session.watchTimeout`) are not modelled: nothing
  calls `session.Timeout`, so the map it walks is always empty.
* Server: it may answer a request up to `MaxReplies` times, send a reply from
  another address, a message, a stream error, a closing tag or an IQ with an
  unparsable id.  The network may be lost at any moment.

### Session

State: `connStatus`, `conn` and `wantToBeOnline`, each connection's `link`, the
control state and the local connection variable of every goroutine.  Every
access to `s.conn` is a step of its own, as it has no lock.  The two ways to
reconnect (the user interface's delayed `connectWithRandomDelay` and
`checkReconnect`) both go through `account.Connect`.

Two things outlive the call that began them.  Connect leaves a goroutine behind
that asks the server for a feature through `s.conn`, whatever that is when it runs
(`curious`, `AskFeatures`).  And "Check Connection" is enabled by the status the
account's menu was last made to fit (`shown`, `RefreshMenu`), which is not the
status of now; `SendPing` itself looks at none.

Nothing in the code keeps Connect, Close, SendPing and the readers of
`connection()` apart.  The history variable `calm` stays TRUE as long as no call
has begun while another was under way, and becomes FALSE for good when one has
(or when SendPing has set DISCONNECTED over an open connection).
`ConnectingHasDialer`, `ConnectingEnds` and `DeadIsNoticed` hold of every
interleaving.  So does `NilOnlyAfterClose`: a nil connection is used only after a
Close has set the field to nil (`cleared`), or by a user of `connection()` that
read the field before there was a connection and the status after; in calm
histories it is used only after a Close and when the session is not connected,
that is by what Connect left behind or by a ping from an old menu.
`ConnectedHasConn` and `ClosedMeansClosed` are stated for calm histories, and
without that premise TLC refutes each of them (see Observations).

### Cache

The lock makes every operation one step, unless it must cancel an expiry: then
it holds the lock (`holder`) while `e.cancelExpiryCheck <- true` waits for the
goroutine on the other end.  `ExpiringMap` is the promise: atomic operations on
a map from which only timed entries disappear.  Both carry a history variable
`by`, which says whether a caller or an expiry took the last step: without it an
expiry would be allowed wherever a caller's Remove is, and the refinement would
say nothing about which entries expire.

### Roster

`list` maps an address to a `Peer` object and `peer` holds the fields of the
objects.  Objects have identities because `List.Get` hands them out and the
handlers use them after the list's lock is released, while `AddOrMerge` puts a
new object in their place.  A handler of `watchStanzas` is therefore two steps,
the `Get` with the reads that follow it and the change of the fields; a merge is
one, under the lock.  `requestRoster` merges its answer entry by entry, the
observer clears the list for each `Disconnected` and `ConnectionLost` event
whenever that event arrives, and the user answers a subscription request in two
steps.  The server keeps its own roster (`srv`) and pushes each change over every
open connection (`owed`).

Each connection has a watcher of its own (`watch`, `stream`).  A session publishes
Disconnected before it closes its connection, which may take 30 seconds, and a
ping that times out publishes it and closes nothing: so `Disconnect` leaves the
watchers as they are, a former connection's stanzas are handled after the list
was cleared, and its watcher may work beside the next one's.  What ends a watcher
is `WatcherEnds`; then `connectionLost` closes the session if it is not closed,
and publishes ConnectionLost when that is done.

What the list should hold is said by histories, each emptied when the list is
cleared: `avail`, the resources that are there by the presences handled since;
`told`, the contacts whose present entry in the server's roster was the last
thing the list was told of their subscription; `open`, the requests it is to
remember.  Two more name what goes wrong: `crossed`, the contacts whose listed
object two watchers held at once, and `torn`, those whose object was replaced
while a watcher held it.  The properties hold of every interleaving and of any
number of overlapping connections, with these limits:

* `PresenceKept` and `OnlineChangeIsPublished` leave out `crossed` contacts, and
  `PresenceKept` the `torn` ones: a presence is lost there.
* `PresenceKept` speaks of the presences that were handled, not of who is online:
  a presence of the former connection that is handled after the list was cleared
  stays in the list, and nothing says that it is right.
* A request leaves `open` by the user's answer, a Clear or the removal of the
  contact, and by the contact's own `subscribed` or `unsubscribe`: the code drops
  a request nobody has answered then (`list.go:163`, `:184`), and `RequestsKept`
  does not claim otherwise.
* `SubscriptionAgrees` says nothing of a contact that an outdated answer or a
  presence of subscription was applied to until it is told of again.

Names, groups, status texts, the resource `LastSeen` locks, and a presence of
type error are left out, and so is `AddOrReplace`, which only tests call.

### ConfigFile

The disk has, for each of the two names (`accounts.json` and the encrypted
`accounts.json.enc`), a file, its backup and its temporary file; a content is
absent, torn, or a whole document of some version in some format.  Every call
`safeWrite` makes on the disk is an action, so `Crash` may come between any two:
`SaveConfig` runs in a goroutine that quitting does not wait for.  In memory are
the version, `shouldEncrypt`, `filename` and the queue of files to be removed
after the next save, which turning encryption on and off fills.  The password
suppliers decide whether an encrypted save goes through: `onetime`, `cached` and
the dialogs that ask.  `expected` is the set of versions a start may rightly
find: what was saved last, and what a save that was cut short was writing.

### SendFile

The `FileTransferControl` is three unbuffered channels and a lock that is held
across a send; a send is one step with its receive.  Reporting an error, a
success or a refusal is three steps in its own goroutine or the sender's: close
the other channel, take the lock, send and close.  Beside them run the sender
itself (negotiation, then in-band or SOCKS5 stream), the goroutine that reads the
file into the pipe, `listenForCancellation`, `Cancel` on the interface's thread,
and the listeners of the interface, whose `Tell` changes what the user sees.  A
dereference of nil ends the program (`panicked`).  `Waiting` are the sender's
waits for the peer, the user or the network; none has a timer.

### Receive and Delivery

Four goroutines share a receiver: the feeder (the handler of the session's
stanzas for in-band streams), `processReceive`, `readAndRun`, and the one that
waits for the user to cancel.  The stream is counted in units: one of IV and two
of MAC around `Size` of data when it is encrypted.  The peer may damage it, end
it early or break it, send a block out of order, and cut it into any chunks; the
file may fail to be written or moved.  Damage is to the IV, the text or the MAC,
and the MAC covers the text alone: `createEncryptedReader` reads the IV before it
begins to feed the verifier, so a stream whose IV was damaged is garbled at the
beginning and delivered as whole.  `DestinationIsWhole` says what does hold: the
length is right, and what the MAC covers arrived as it was sent.  `Delivery` is
the promise: the destination is written once, a success is told only of a whole
file, after a failure nothing appears, and one outcome is told.

### Rooms

One room address.  The manager has a room or none; a room has its roster, the
user's own occupant, and whether that is the one of the roster (`listed`).
Opening a room is two steps of a goroutine of the interface (look up, make),
`handlePresence` two (look up, act) with steps between for the own occupant,
leaving and destroying two each.  The server handles requests in order and sends
presences in order; `online` separates connections.  A visit is what one request
to join begins, and presences carry its number for the sake of the properties:
`mixed` has the rooms that a presence of an earlier visit has reached.
`SelfAgrees` counts the join events of a visit and finds exactly one, which is
what the code does and not what a comment says of it (see Observations).

### Dial

Six settings of an account decide what is dialed; then come the two SRV
lookups and the dials, each in a goroutine with a timer beside it, and, on a
connection, TLS (at once or by STARTTLS), stream headers, features, one step of
authentication or registration, binding and the session.  A timeout may return
the values of the goroutine it gives up (`DialRaces`), so these are choices.
`tried`, `verified` and `trusted` are histories for the properties.  Of two
lookups that fail the first one's error counts, so an answer that `xmpp-client` is
not offered is hidden behind a lookup of `xmpps-client` that failed:
`FallbackUnlessRefused` makes an exception of exactly that.  What other
modules call `Init`, `Next` and so on is `DialInit`, `DialNext` here, as the proofs
about package `xmpp` extend `Conn` and `Dial` together.

## Runs

| Run | Question | Instance |
|---|---|---|
| `conn_dispatch` | do table, channels and callers stay consistent, whoever closes, and does each caller get its own answer? | 1 request, 1 ping that may be abandoned, 1 closer besides the reader, one stanza on the wire |
| `conn_live` | do Close, the reader and the pinger come to an end, is a dead peer noticed, and does a duplicated reply never stop the reader? | 1 ping, 2 replies to it, the reader and the pinger closing |
| `conn_lost_reply` | is every answered request answered for its caller? (no) | 1 request |
| `session_races` | what holds of every interleaving: who ends CONNECTING, and when may nil be used? | 1 connection, 2 dialers, 1 closer, 1 SendPing, 1 user of `connection()` |
| `session_live` | is CONNECTING left, is a dead connection noticed, do status and connection agree while calls do not overlap? | 2 connections, 1 dialer, 1 closer |
| `cache_map` | is the cache the map it promises to be? | 2 keys, 2 values, 3 entries, 3 goroutines |
| `roster_list` | does the list hold what presences and the server said, is every change shown and every request kept, with watchers that overlap? | 1 address, 1 resource, 2 connections, 1 fetcher, 3 objects, 1 late event, two goroutines at a time |
| `config_save` | does a start find what it should, whatever was interrupted? | 3 versions, 2 changes of format, 2 mishaps (crashes, failing calls, refused passwords) |
| `send` | is one outcome told, a success only of a whole file, and does a cancelled transfer end unless the sender waits for ever? | a file of 2 pieces |
| `receive` | is what is delivered of the right length and verified, is the promise kept, does the handler come back? | a file of 2 units, a channel of 1, chunks of up to 2 |
| `rooms` | does the room agree with the server, when may a handler fail, when is the room dropped? | 2 nicknames, 2 ranks, 2 openers, 2 rooms, 2 visits, 1 request and 1 presence under way |
| `dial` | are addresses tried best first, is the fall-back right, does the password go only to a verified server, does the search end? | all 64 settings, 4 SRV records of two services |

Why the bounds are enough.  One stanza on the wire already lets the reader be
behind every other goroutine; two replies to one request are needed for a
duplicate; two connections for a stale watcher and a reconnect; two dialers for
two Connects that both saw DISCONNECTED; two connections for watchers that
overlap, and three objects for one that is listed, one that a handler still holds
and one for the next merge.  What is lost in the list is lost between two
goroutines, one that holds an object and one that replaces or changes it, so two
that have business with the list at a time are enough (`TwoAtOnce`); addresses
and resources do not interact in what the run asks, so one of each is enough.
The theorems have none of these bounds.  A configuration needs two changes after
the first version to have something old that could come back, two changes of
format to return to the first one, and two mishaps for a retry that goes wrong
too.  Two pieces of a file have a first and a last with a point between them, and
a channel of one fills up.  Two visits to a room are one that has ended and one
that meets what it left behind; two openers race.  The SRV records are as good
as, lighter than and of a worse priority than one another across both services.

Symmetry is used only in runs without liveness.  The views (`MCRoster`,
`MCRooms`, `MCSession`) leave out only what nothing in the run tells apart:
objects that are no longer listed, the last resource, the presences of a contact
the properties except, rooms that nothing refers to, the last presence of an idle
handler, the menu where nobody pings, which goroutines are still to ask for
features, and whether a dead connection was lost or closed.  `CHECK_DEADLOCK
FALSE` is used throughout because every goroutine of an instance may rightly end:
a closed connection, a delivered file, a dial with a result, a program that has
panicked.  In the cache, the deadlock that `OverrideReturns` describes is
reachable too.

The types of all modules are proved, so only the run of `Dial` repeats them;
`LastIsOnline` and `NoDoubleClose` are proved and not run either.

### Fairness

Weak fairness of each goroutine's own steps: the Go scheduler runs every
goroutine that can proceed, and timers fire.  Nothing makes a user act, a server
answer, or a live connection break.  In particular:

* `Conn`: a read from a socket whose peer has silently gone need not return.
* `Session`: a dial need not end, because the negotiation of a stream has no
  timer; `ConnectingEnds` is therefore stated for when no dial is pending.
* `Dial`: only the dialer's own steps and timers are fair, which is enough for
  the search of an address to end whatever the network does.
* `SendFile`: the sender goes on unless it is `Waiting`: `nonblockIQ` waits for the
  peer's answer, which a human gives, without a timer, and a write to a SOCKS5
  stream has no deadline.  `CancelledEnds` is therefore stated for senders that do
  not wait for ever.  The peer's and the user's cancelling are not fair, nor is a
  failure to read the file.
* `Receive`: the goroutines go on; the peer need not send, end or break anything,
  and so `HandlerReturns` starts when everything has arrived.

## The finding

`conn_lost_reply`: `SendIQ` registers its cookie after the request is on the
wire; a reply read in between is dropped and the caller waits forever, although
the comment of `SendIQ` promises a channel on which the reply can be read.

## Observations

What modelling showed of the code beside the finding, comments that it contradicts
included.  Where a definition states the expectation, it is in the module, marked
as not holding, and no run checks it.

Session:
* `Close` sets `s.conn = nil` after `conn.Close()`, which may take 30 seconds; a
  connection made in the meantime is overwritten and the session is CONNECTED
  without one.  A `Close` while `Connect` dials leaves the new connection open,
  because the else branch of `Connect` closes `s.conn` and not `conn`.  These
  are why two properties need `calm`.
* The goroutine that asks for features (`session.go:894`) dereferences `s.conn`
  without a test: a Close that comes after Connect has returned and before this
  goroutine runs ends the process.  So does a ping from a menu that still shows
  CONNECTED when a Close has cleared the field (`session.go:997`).
* `wantToBeOnline` is set without a lock; a reconnect that was scheduled before
  the user disconnected sets it again.  `autoApproves` and `presenceToIgnore` are
  maps used by two goroutines without a common lock.
* Events are published by one goroutine per event and subscriber, in no order.

Cache: an override at the moment an entry expires blocks forever with the lock
held (`OverrideReturns`).

Roster: a merge while a presence handler holds the contact's object makes the
presence go to an object that is no longer listed, although the comment at
`list.go:107` says that `PeerPresenceUpdate` then updated the contact
(`PresenceIsUpdated`); two watchers that hold one object may publish nothing when
the contact comes online; a presence of the former connection handled after the
list was cleared is shown in the next connection; the observer may clear the list
of the next connection; an answer that was read before a push is merged after it;
`Subscribed` and `Unsubscribed` forget a request of the contact's that still waits
for the user; a push that removes a contact publishes no event; an incoming
`unsubscribe` is applied to our subscription until the push that follows corrects
it.

Configuration: the temporary file of an interrupted encrypted save is found
before a plain file saved later (`OldFileIsRemoved`); a save that follows a
failed one removes the only backup (`BackupEveryWrite`); what is queued for after
a save runs after one that failed, too; when a password is refused, the one-time
password is used up and the user is asked.

Sending: a cancel before `listenForCancellation` has started leaves the
interface's thread waiting with the lock held (`CancelReturns`); a failing `Stat`
of the offered file is dropped and an error answer to the offer is dereferenced
as if it were a stanza; a transfer the peer cancels in-band tells the user
nothing; the reading goroutine stays at the pipe after a cancel; a file that
cannot be read on may be reported as sent (the exception in `SuccessIsWhole`);
a failing question for the server's proxies caches a nil result that is then
used (`bytestreams_send.go:90`).

Receiving: a block out of order, or a cancel between the end of the data and the
closing, leaves the temporary file; a cancel before the receiver exists is missed
in-band and is a nil dereference for SOCKS5; a stream that breaks tells nobody,
and one the peer closes early leaves the session's handler waiting
(`TransferConcludes`); without a usable stream host a later cancel waits forever;
the MAC is read with a single `Read`, which may be short, and does not cover the
IV (`encryption.go:101`, `:122`), so damage to that goes unnoticed.

Rooms: two goroutines that open a room at once may get one that is not the
manager's (`NewRoomIsAdded`); a presence of an earlier visit dereferences an own
occupant that is not there (`muc_room_occupant.go:231`, `:316`, `:342`);
`LeaveRoom` drops whichever room has the address by then; a change of nickname
leaves the old one in the roster, as `UpdateNickname` has no caller; a room that
another occupant destroys, or a service that shuts down, leaves the room in the
manager; a privilege item without a reason is dereferenced.  The comment at
`muc.go:126` says that every update of the user's own role or affiliation
generates, for now, an event about joining (`EachOwnUpdateJoins`); the code
publishes one only of an occupant the roster did not have (`muc.go:160`).

Dialing: a dial that is answered as its timer fires may return neither a
connection nor an error, and a late connection is closed by nobody; a negotiation
that fails leaves its connection open, and one that is not answered never ends;
whether one service's "not available" ends the search depends on which of the two
it is, and the domain's port is dialed although `xmpp-client` was answered not to
be offered when the lookup of `xmpps-client` failed, which the comment at
`tcp.go:56` takes for a query without a response (`FallbackWithoutResponse`); a
comment in `connection_policy.go:135` says the lookup is made with a configured
server too, while `tcp.go:25` skips it; features accumulate over the headers of a
stream; an error answer to binding is ignored; every failure while authenticating
is told as a wrong password; `RegisterAccount` ignores the account's direct TLS
and returns a connection it has closed.

OTR (read, not modelled): the comment that a conversation's peer is never changed
once set is contradicted by the branch that follows instance tags; the delays of
an event handler are a map without a lock; `TerminateAll` sends under the lock.

## Proofs

All proofs hold for arbitrary values of the constants, under the named
assumptions on them (identities of goroutines are distinct; bounds are natural
numbers; the SRV records an answer may hold are finitely many).  In each module
types come first, as a theorem of their own.

* `ConnProofs`: the inductive invariant `ConnInv`.  Its idea: a channel in the
  table is open and empty (`InTableIsEmpty`), a request that left the table never
  comes back (`NoComeback`), the reader holds at most one that left it
  (`DispatchHasCookie`), every closer has discarded the output before it cancels
  (`DiscardFirst`), and its snapshot covers the table but for the requests
  registered since (`CancelCoversTable`).  The safety properties of the runs are
  conjuncts or consequences.  The same module extends `Dial` and proves it too,
  under `DialAssumption`, which TLC evaluates in the run of `Dial`.  `DialInv`
  adds three facts to the properties of the run: before the addresses are known
  nothing is tried, and a configured server leaves the lookups out
  (`LookupsFirst`); every record found was tried in vain, is in use, or is still
  in the queue, and the queue is in order (`NoneForgotten`, without which "better
  ones were tried before" is lost at the next step); and from the moment TLS is
  up the address is a verified one (`Secured`), whichever of the two ways TLS
  began.  That the sorted queue has all records rests on their finite number.
* `CacheProofs`: types and `CacheInv` together, then the refinement: every step
  maps to a step of `ExpiringMap` or to a stutter, through the pointwise lemmas
  `PutMaps`, `RemoveMaps` and `StutterMaps`.
* `SessionProofs`: `ConnectingHasDialer` is inductive with the types, because
  every other writer of the status sets it to something else.  That nil is used
  only after a Close rests on `NilInv`: until one has cleared the field there is a
  connection in it, or the session is not connected, no menu shows that it is and
  nobody is where a connection is used (`Stored`), and a Connect that stores a
  connection has one (`Carried`).  Two invariants are about calm histories, each a
  statement `calm => ...`; besides the two properties they give the calm part of
  `NilOnlyAfterClose`.  `CalmInv`: at most one call is under way (`OneAtATime`), and
  each goroutine's position tells what status and connection are (`Sound`,
  `Coherent`).  `RestInv`: the open connections are `s.conn` and the one a
  Connect has just been given (`Known`, `Tidy`), and only a Close that is not
  done leaves a disconnected session with a connection (`Left`).  Their
  argument goes by kinds of step: one that leaves `pc` of every busy goroutine
  alone keeps both (`QuietKeeps...`), one that begins a call begins the only one,
  or calm is over (`EnterKeeps...`), and a step of the busy goroutine need only
  be looked at for that goroutine (`BusyStepKeeps...`).
* `RosterProofs`: first, of every object, listed or orphaned, the last resource is
  online if any is (`LastOnline`), from which `LastIsOnline`.  The other properties
  follow from one invariant, `ContactsInv`: two addresses never share an object, the
  object the user is about to answer belongs to the address that was asked for, and
  of each contact (`Contact`): one watcher at most holds its object unless it is
  crossed (`OneHolder`), and what that one read is still so when it acts
  (`Current`), because merges make new objects and nobody else changes resources;
  what the contact's own answer settles is neither open nor told (`Settled`); an
  open request is pending (`Asked`); the resources listed, after the handler that
  holds the object has done its part, are those of `avail` (`Present`); and who is
  told has the server's subscription (`Said`).  Every step either leaves a contact
  alone (`SameKeeps`) or is one of four kinds, each with a lemma of its own: a
  merge, a handler that takes hold of an object, one that finishes, and an entry
  that is taken off the list.  With `Current` the action property follows: the
  handler compares with an old reading, but that reading cannot have become wrong.
* `ConfigFileProofs`: `CleanInv`: as long as nothing has gone wrong, at every
  step of a save the disk is what that step should find, and every file of
  another name is queued for removal (`Clean`).  For any number of versions,
  changes of format and saves `SavedIsFound` and `OneFormatRemains` follow.
  What survives mishaps is another invariant, `FormatInv`, which holds as long as
  every save was of one format: the file and its temporary file are never both
  there and the whole ones are expected versions (`OnlyOf`); and until the first
  mishap a copy is whole, which of the files it is depending on the step of the
  save (`CopyOf`).  From it `NothingOldComesBack`, for any number of crashes and
  failures, and `ACopySurvives`, for one.
* `SendFileProofs`: `OneOutcome` from `ReportInv` (who sends has the lock, and
  has closed the other channel), then `SuccessIsWhole` from what a report of
  success stands on: all of it was sent, the file could not be read on, or the
  user cancelled, and in the last case the state the user sees no longer changes
  to a success.
* `ReceiveProofs`: `DestinationIsWhole` and the refinement of `Delivery`, from
  `DeliveryInv`: `done` is set only by a reader that wrote everything and verified
  what the MAC covers, and what a feeder has still to do once a failure was told.
* `RoomsProofs`: `DroppedOnlyWhenOut`, from `RemovalInv`: presences under way are
  of no later visit than the server's, and one that removes the user is about a
  visit that is over.  `RosterAgrees`, `SelfAgrees` and `CrashNeedsMixedRoom` come
  from `RosterInv`, about the rooms that no presence of an earlier visit reached.
  The presence in the handler's hands and those under way, in order, lead from the
  manager's roster to the occupants the server has (`ManagerInv`: for each
  nickname departures follow arrivals, `Sound`, and the last presence that tells
  of it settles its rank, `Agrees`); the user's own occupant is set and listed
  together, and every dereference of the handler finds what it needs (`HandInv`).
  When nothing is under way the agreement is what remains.

Every invariant and every action property of the runs that pass is the statement
of a theorem, and so are both refinements.  Only model-checked are the liveness
properties: `CloseCompletes`, `ReaderEnds`, `DeadPeerIsNoticed`,
`ConnectingEnds`, `DeadIsNoticed`, `AddressPhaseEnds`, `HandlerReturns`,
`OutcomeIsTold` and `CancelledEnds`.  They rest on fairness and ENABLED, which
are beyond the prover.

## Plan

1. (done) `Conn`, `Session`, `Cache`, `Roster`, `ConfigFile`, `SendFile`,
   `Receive`, `Rooms`, `Dial`, with proofs of all their safety properties.
2. (done) Proofs: agreement of the room with the server in rooms that no earlier
   visit reached; what the contact list keeps in every interleaving of overlapping
   connections; what survives a crash of a save; the order of addresses and the
   certificate before a password.
3. `Events`: publishing and subscription, the order of events against the
   changes of status they tell; abstract specification: each subscriber sees every
   event once.
4. OTR: conversation manager (a conversation is never bound to two resources)
   and the delayed messages of the event handler.
5. SASL SCRAM and DIGEST-MD5 exchanges, and the policy of certificate pins, in
   place of one step of `Dial` each.
6. Compositions: `SendFile` with `Receive` over one wire, the session with the
   connection whose reader blocks on it.

## Not modelled

The user interface beyond the calls it makes (widgets), translations, generated
definitions, logging, XML encoding, cryptography (AES, scrypt, OTR's own
protocol, which is a library), proxies and SOCKS5 below a dial, the import of
other programs' configurations, the detection of Tor, and, of the roster, names,
groups and sorting.  Most of the repository's lines are of these kinds: the
translations, interface definitions, icons and notification texts alone are half
of them, and have no state that could go wrong.  The protocol core, where the
state is, is what the modules follow.

The privilege tables of rooms (`session/muc/*_privileges.go`) are constants that
no step changes.  The queries of session stanzas (version, service discovery)
answer from constants.
