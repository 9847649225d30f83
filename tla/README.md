# PocketLink: TLA+ models and proofs

PocketLink is a small messaging system: a relay server in Go (`services/relay`) with a SQLite store, battery devices
with ESP32 firmware in C (`firmware`), and a browser console (`apps/console`). Users own devices and rooms; a text sent to
a room reaches every device that is in the room at that moment, and each device confirms that it received and that its
user read it. Rooms also carry live push-to-talk voice. This directory holds the TLA+ modules about that code, the TLC
configurations that check them and the TLAPS proofs. Paths below are relative to the repository.

## Inventory

| Part | State it keeps | Operations | What is hard | Correct when |
| --- | --- | --- | --- | --- |
| Store: rooms, messages, receipts (`store/messages.go`) | rooms, members, messages, one receipt per message and recipient | create, archive, add and remove member, send, list pending, acknowledge | retries of sends and receipts, membership that changes between sending and delivery | no receipt stays open without membership, none is stranded, requests are idempotent, withdrawal is final |
| Store: devices, pairing (`store/devices.go`) | devices, credentials, pairing codes | create code, pair, pair again, revoke, authenticate | a row that comes back with a new credential | limits hold, a new credential starts clean |
| Store: sharing (`store/accounts.go`, `invitation_codes.go`) | users, room users, invitations | register, invite, join, leave, remove | history windows, codes used twice | history never opens backwards, leaving takes devices along |
| Store: accounts (`store/user_management.go`) | disabled_at, auth_version | disable, enable, log out, new password | actions in flight | a disabled account and its devices can do nothing |
| Sessions (`httpapi/auth.go`, `accounts.go`, `user_management.go`) | session map in memory, login attempts | log in, log out, check principal, manage user | two stores (SQLite and memory) changed one after the other | no request is admitted with an old password or an ended session, however a login is interrupted; what slips through stays bounded |
| Device stream (`httpapi/stream.go`) | one stream per device, shutdown flag | upgrade, deliver, resend, acknowledge, stop | checks before and after the upgrade, shutdown | one stream per key, none outlives the shutdown or its session, shutdown ends |
| Voice hub (`voice/hub.go`, `httpapi/voice.go`) | peers, one floor per room with lease | join, request, release, audio, tick, leave | leases, full queues, late requests | one speaker per room, the floor always gets free |
| Update channel (`store/firmware.go`, `httpapi/firmware.go`) | releases, channel, highest sequence | upload, publish, withdraw, delete | order of releases | an accepted sequence names one image for good, a device never counts back |
| Firmware worker (`apps/pocketlink/main/main.c`) | one NVS blob and its RAM copy, the command queue, the view | poll, acknowledge, configure, keys, start-up | power loss, failed writes, lost and late requests, stale keys | nothing lost, repeated or read unseen |
| Push-to-talk (`pocketlink_ptt.c`, `pocketlink_voice.c`) | held, armed, pending, stream; the stream and frame it plays | hold, request, grant, deny, expire, play | grants that come late, a queue that overflows, one task for talking and listening | a floor nobody uses is released, a device that is told of a stream plays it in order |
| OTA boot (`pocketlink_ota/ota_boot.c`) | pending record, sequence, boot partition | activate, confirm, roll back | power loss between NVS and boot data, an intent left over from an update that never ran | always an image to boot, the sequence matches what runs |
| Portal, DNS, pages, envelope, manifest | none or one page | parse and validate | byte formats | covered by the repository's host tests |

The console, the devices and the device stream call the store through HTTP handlers; every store method is one SQLite
transaction or statement on the one connection (`store.go:49`), so the store is where all actors meet. The hub and the
sessions live in the relay's memory under one mutex each. On the device the button driver, the HTTP server of the portal and the
LVGL timer run in their own tasks and talk to the worker through a queue of four and the `activity` lock.

## Modules

| Module | Stands for |
| --- | --- |
| `RelayStore` | every state-changing method of the message store, one action each |
| `MCRelayStore` | symmetry for the runs of `RelayStore` |
| `RelayStoreProofs` | the proofs about `RelayStore` |
| `Mailbox` | abstract: what the text service promises one device |
| `DeviceLink` | composition: one device's worker loop, its flash and RAM, the lossy network, and `RelayStore` |
| `MCDeviceLink` | symmetry for the runs of `DeviceLink` |
| `DeviceLinkProofs` | the proofs about `DeviceLink`: invariant, refinement of `Mailbox`, and that the composition implements `RelayStore` |
| `VoiceHub` | the relay's hub and the steps of a voice session, used by the next ones |
| `VoiceHubProofs` | facts about each call of the hub, shared by the proofs about the two compositions |
| `VoiceRoom` | the hub with clients that send anything at any time |
| `MCVoiceRoom` | symmetry for the runs of `VoiceRoom` |
| `VoiceRoomProofs` | the proofs about `VoiceRoom`: who knows of the floor, and where audio stands in a queue |
| `PushToTalk` | composition: devices that run the push-to-talk firmware, their websockets, the hub, and other clients |
| `PushToTalkProofs` | the proofs about `PushToTalk`: what a device and the hub know of each other |
| `Listening` | `PushToTalk` with the other half of the voice task: what a device plays of what it is sent |
| `ListeningProofs` | the relay with these devices implements `VoiceRoom`, and what a device plays follows from that |
| `Sessions` | abstract: sessions that end in the same step in which their account is managed |
| `Auth` | logins, sessions, requests and streams of the relay, the accounts they read, and the drain of the server |
| `MCAuth` | symmetry for the runs of `Auth` |
| `AuthProofs` | the proofs about `Auth`, and that it implements `Sessions` |
| `OtaUpdate` | composition: the relay's channel of firmware releases, a device that follows it, and the bootloader |
| `MCOtaUpdate` | the packages of the run of `OtaUpdate` |
| `OtaUpdateProofs` | the proofs about `OtaUpdate` |

### RelayStore

Tables are sets and functions: `members` and `roomUsers` are the two join tables, `receipts` the receipt rows with
`delivered`, `read` and `withdrawn` as the sets of rows whose timestamp is set. Message ids are positions in the sequence
`messages` (AUTOINCREMENT, nothing is deleted). A credential is the number of the pairing that issued it; the code keeps the
hash of a random secret. Time appears as the actions `ExpirePairing` and `ExpireInvitation`. Who acts is a parameter; the
handler's session check comes before the transaction, so no action asks whether its actor is enabled. A method that returns
an error changes nothing and is a stuttering step; `SendReply` keeps the error of `SendText` because retries depend on it.
Abstracted: names, texts (model values), timestamps, the encrypted copy of invitation codes, the page of 20.

### DeviceLink

The worker of `main.c` is one task that waits for each HTTPS exchange, so there is at most one `request`, with a `reply` once the
relay served it. `GiveUp` is every way `relay_request` returns NULL. An unserved request that is given up may stay in `late` and be
served at any later time. `flash` is the NVS blob, `saved` its RAM copy; `Persist(next, FALSE)` is a failed write or commit that leaves
either blob in flash. `Restart` loses everything but flash. `busy` is the input lock, `command` the queued command;
`Render` makes a queued key stale when the view changes (`view_generation`). `Others` is any step of `RelayStore` that is not this
device's own acknowledgement or pairing. `Execute` gives the handlers' answers: a refused receipt is 401, never 404. A status of 200 stands
for every 2xx.
Abstracted: Wi-Fi (an exchange without link is one that fails), the portal's screens and modes during which the device does not
poll (the model may poll there too), the few milliseconds in which the view has its new generation and LVGL has not drawn it yet
(`main.c:186`; `Render` does both in one step), paging, metadata, another server (a new server needs a new code and is a new binding).

### VoiceHub and VoiceRoom

Each method of `hub.go` holds the mutex throughout and is one action: `Join`, `Request` (refused or given), `Release`, `SendAudio`, `Leave`,
`Tick`. `room` stands for `peers`; `floors[r]` is the floor record, `Free` when there is none; `out` is the channel of each peer.
`Push(queue, state, ms)` is `send` for every peer at once: `ms[p]` is what one call sends to `p`, in the order of the calls; a message that finds
the channel full is lost and cancels the session. A call that starts with `expire` works on `Swept` and sends `Notices` first. `over` says that
the lease of 30 seconds has passed; the hub acts on it only when some call of any room sweeps. `frames` counts the frames of the running second;
`WindowElapses` is the end of that second, at any time. The hub refuses the frame beyond `MaxRate`, as it does one of another stream or out of order
(`InTurn`), and a frame it refuses ends the session.
A session (`voice.go`) is a reader (`Handle`, `Hangup`), a writer (`Deliver`, `Discard`, `Fail`) and a ticker (`Tick`, `Recheck`). `life` says how far
its end has come: a cancelled session (`stopped`) may finish its write and its reader may handle what it holds, `closing` no longer reads, and
`Leave` comes last. `allowed` is what `VoiceIdentity` answers. `told` in `VoiceRoom` is a history variable: the stream of the floor message
each peer was written last, and the last frame after it. `AnySpec` is the room without the bounds on what clients send, for the proofs.
Abstracted: names, capacities of a batch, the rate of control messages and malformed messages (ways to end the session: `Hangup`), frame contents. Stream
numbers skip zero when they wrap at 2^32; the model does not get that far.

### PushToTalk

`ptt[p]` is `pl_ptt` with the frame counter, `held` the button as callbacks leave it, `pc` the place of the voice task in its lap: `top` (button,
request, time-outs), `receive` (a batch of at most four messages, ended nondeterministically), `send` (one frame). `fault` is the flag the callbacks
set; the task sees it at its next look. `up` holds what the device sent and the relay has not read, `incoming` what the relay wrote and the task
has not handled: the network and the device's queue in one, so that a full one is the overflow of `ws_event`. `Enter`, `Quit` and `Cut` are
starting, stopping and losing the websocket, `HubNotices` and `DeviceNotices` are each side finding out about the other.
Any device of `Flaky` may lose its connection or codec at any time. Other peers are arbitrary clients.
Abstracted: samples and codec, the display's text, what is played (it is in `Listening`), choosing a room; time-outs (3 s without answer, 29 s of talk) happen at any time.

### Listening

The same task also listens. `rx[p]` is the stream it plays with the last frame played (`rx`, `rxseq`): `Play` is what it does with a message besides
`Receive`, and `Retune` is the start of a new task. A floor message sets both whatever the device does with its own request; a frame is played if it `Fits`
(this stream, a later frame), the device does not talk, and it waited no more than 160 ms. Every step is one of `PushToTalk`; `told` is the history
variable of `VoiceRoom` (`Room`). The hub discards frames that are late on their own (`Discard`), so numbers may be missing, never repeated.

### Auth

`RelayStore` takes each handler as one transaction; `Auth` looks inside the handlers, where `httpapi` reads the database, changes its maps
under `a.mu` and writes the database again. `req[r]` is the place of one request: `proved` after `UserCredentials` and the hash,
`checked` after `startSession` has asked the account again, `found` after the cookie was looked up, `admitted` after `principal` has asked
the account, `managed` or `reset` after the transaction of `ManageUser` and before its sessions are deleted, `upgrading` between the two
looks at the table of streams, `open`, `closing` once its context is cancelled. A `Proof` is what a request remembers of its account; the
generation of the password is there only to state properties. `a.verifying`, the semaphore of one password hash at a time, is `MayVerify`: whoever is
in `Hashing` holds it. `codes` are pairing codes and invitations with the version at which their request was admitted and the one they were created
at. `streams` is `a.streams` for the device's messages (`stream.go`) and voice (`voice.go`); a browser's stream has its token as key.
`server` goes from `up` by `Drain` (new requests get 503) and `StopStreams` (every stream cancelled, none let in) to `drained`; `Restart` at any time
empties what is in memory.
`Sessions` is what the handlers promise together. There an account is managed in one step that ends its sessions, its logins and every request that is
not admitted yet; whatever else ends does so by `End`. In the mapping a session is there if its proof is `Current`: the account still has the version the
proof was read at and is enabled. A stale entry of `a.sessions` is no session, a request with a stale proof is none either, and one that is admitted stays
admitted with whatever it does then. So the step that matters is the transaction of `ManageUser`, not the later deletion under `a.mu`.
Abstracted: rate limits and malformed input (such a request never came), the expiry times (`Expire` at any time), the administrator's own session and
registration, the work of an admitted request other than issuing a code, logging out and opening a stream (`Finish`).

### OtaUpdate

`stored`, `highest` and `channel` are the tables `firmware_releases` and `firmware_channel`. `content`, `selected` and `mark` are the two application slots and
`otadata`: the newest entry and the state of each slot's image. `intent` and `seq` are `ota_pending` and `ota_seq` in NVS. `pc` is the place of the
main task: `starting` until `pl_ota_confirm` is through (`marked` after the image is valid, `counted` after the sequence is saved),
`idle`, `prompt`, `loading`, `loaded`, `intended` (between the intent and the boot slot), `restart`, `off`, and `dead` when `app_main` has returned.
`Reset` happens between any two writes. A write that reports an error may have reached the flash (`SaveIntent` with `GiveUp`, `ForgetIntent`, `EraseIntent`,
`SelectFails`). `Boot` and the effect of the `esp_ota` calls on `mark` are external: an image on its first start is `trying`, and one that is still
`trying` at the next reset is `refused`.
Abstracted: signature, board and JSON of a manifest (it is offered or not), the bytes of an image (a slot being written holds
nothing), a read of NVS that fails (`ota_boot.c:16` then takes the sequence to be 0), Wi-Fi, the two transfers at a time, the confirmation on the display (`prompt`).

## Runs

| Run | Instance | Distinct states | Question |
| --- | --- | --- | --- |
| `store_delivery` | 2 users, 1 room, 2 devices, 2 keys, 2 texts, 2 messages, 2 credentials | 1,056,558 | delivery, withdrawal |
| `store_people` | 3 users, 2 rooms, 2 serial numbers with a limit of 1 active, 1 message in 2 texts, 1 invitation code | 923,012 | history, leaving, retries, limits, new credentials, disabled accounts |
| `link_delivery` | 1 device, 2 messages, 2 credentials, 1 late request | 432,618 | loss, duplication, order, power loss, refinement of `Mailbox` |
| `link_progress` | as above, 1 credential, nothing late, fairness | 31,002 | each pending message arrives |
| `link_withdrawal` | 1 message, fairness | | finding: expected to fail |
| `link_display` | 1 message, display may stall | | finding: expected to fail |
| `voice_room` | 2 peers, 1 room, queues of 2, 2 streams of 1 frame, one peer whose permission changes, fairness | 246,528 | who has the floor, who knows, audio under its floor message; floors and forbidden sessions end |
| `voice_talk` | 1 flaky device and 1 other client, queues of 3, 2 and 1, 2 requests, 2 frames of a stream, 1 in a second | 4,296,622 | device and hub agree on the floor and on the frames |
| `voice_progress` | 1 device and 1 other client, 1 request, 2 frames of a stream, 1 in a second, queues of 2, 2 and 1, fairness | 494,070 | a device plays what comes; unused floors return, requests are answered |
| `auth_sessions` | 1 user, 3 requests, 3 tokens, 1 device, 2 sessions per user, 1 stream, 3 versions, 1 code | 710,470 | useless sessions, late codes, the table of streams |
| `auth_streams` | as above with 2 requests and 2 tokens, fairness | 201,628 | streams and the drain end; refinement of `Sessions` |
| `ota_update` | 6 packages of 3 images, one of them broken, 2 stored releases, fairness | 50,717 | always bootable, counts what runs, never back; updates settle |

The bounds are small because the operations touch one room, at most two messages and at most two devices at once: two
messages show order and cursors, two devices show a membership that changes for one of them, a second credential shows everything
about pairing again, and limits are set so low that they are reached. A key that is used twice needs two texts to be a conflict. Retries
are in `store_people`, where their sender may have left the room or joined it again since. There a user may leave or join one room while the other keeps its history; message ids are shared by all rooms and windows are compared with
ids only. One late request is enough to meet every other state of the device; two would only repeat it.

In the voice runs the queues are so short that they overflow in the middle of a broadcast. Two streams show a frame, a release or a grant of the stream
before; two requests show the answer to an earlier one. Frames of one stream that follow each other are in `voice_talk` and
`voice_progress`, where the second one of a second is beyond the rate (`MaxRate`, 60 in the code) and ends the session; `voice_room`, in which clients send anything, has one frame of each stream, and the proofs have any number. That a call in one room ends the lease in another is left to the proofs, which
hold for any number of rooms. In `PushToTalk` the queues of the other clients are emptied before anything else
happens (`Behind`), since slow clients are checked in `VoiceRoom`, and permissions are constant, since `Recheck` is one more way
to cancel a session. `MaxStream` bounds the requests of other clients only; a device's requests are bounded by `MaxAsks`.

In the runs of `Auth` one user suffices, for sessions of different users meet only at the limit of the whole table, which the proofs cover. Three
requests are two logins and the administrator between them, or two upgrades and a shutdown; with three versions an account is managed twice, which is
disabling and enabling again. `VersionLimit` bounds the administrator, `CodeLimit` the codes that are live. In `ota_update` the packages contain the same sequence
for two images, the same image signed twice, and an image that fails to start, so the upload rules are reached; sequences beyond four would
repeat the same comparisons.

Symmetry is used in runs without liveness only. In all specifications the system may stay where it is; TLC finds no deadlock, since restarts,
uploads or new requests are always possible.

### Fairness

`DeviceLink!Fairness`: the worker loop polls every five seconds without end, also after a reset, so `Poll` is strongly
fair (it is disabled while a command is handled). Requests may be lost any number of times; a kind of request that is retried for ever
is served at last and its reply saved at last (strong fairness of `Serve` and `HandleReply` per kind). Commands are
taken from the queue (weak). The user presses OK on a shown message at last. Nothing is assumed of other actors.

`VoiceRoom!FairSpec`: a lease elapses, the ticker of an open session runs, and a session that was cancelled is taken down. Nothing is assumed
of clients, writers or networks. `PushToTalk!Fairness`: the voice task, the relay's reader and writer, the take-down of a session, and
that each end notices a closed connection (the websocket's ping, its close event). Neither leases, time-outs nor the user are
fair there: `UnusedFloorReturns` and `AskIsAnswered` must not depend on them. `UnusedFloorReturns` exempts a device whose task has ended
while its websocket is open (`pc = "end"`): then nobody gives the floor back and it is the lease that frees it, which `FloorReturns` covers.

`Auth!FairSpec`: the ticker of a stream asks again (`Recheck`), a handler whose context is cancelled returns (`Close`; each of its reads and writes takes
the context), and the drain goes from step to step. Requests, users and restarts are not fair; `StreamsEnd` lets the drain end in a restart.

`OtaUpdate!FairSpec`: a device that is off is switched on again (`Boot`), a start comes to an end (`Start`: confirmed, failed or refused) and a device that is
about to restart does. Resets are not bounded: power may fail at every start, and the update is then refused by the bootloader.

Behaviours that are no errors but surprise: a button that is released and pressed again within one lap of the task gives a grant back and
leaves the request waiting for its 3 seconds, because the callback's flag is already down when the grant is judged; `busy` is also the answer to a
peer that itself holds the floor, for instance because its release is still on its way; and a device whose trial was cut by a
power failure after the image was marked valid counts the update at its next start, because the intent is still there.

## Findings

* `link_withdrawal`: after a message is withdrawn the relay answers its receipt with 401, while the firmware removes the message only on
  404, as `docs/development/device-provisioning.en.md:79` says. The device keeps the message and asks for no other.
  With 404 as the answer of an authenticated device the property holds on the same instance.
* `link_display`: `render` gives up when the display lock is not free within a second. The message is saved and undrawn, the view
  generation is unchanged, and OK on the old screen marks the message read.
* No run, but a property that had to be weakened: `docs/development/accounts.en.md:74` says that disabling an account revokes its codes. A request that was
  admitted before may create one after it (`accounts.go:206` does not ask again). `OnlyLateCodes` states what holds: such codes come from
  requests admitted before the account was disabled, and all others are gone.

## Proofs

`RelayStoreProofs` proves for all users, rooms, devices, messages and limits that `StoreInv` is inductive: `TypeOK`, live receipts belong to
members, members can receive (active device, open room), messages are of existing rooms, request keys are unique.
`LiveReceiptsAreOfMembers` alone is not inductive: that archiving, revoking and leaving remove memberships and withdraw
receipts together is what keeps the other conjuncts, and `NothingStranded` follows only from all of them. The action properties
follow from the invariant action by action. `RetrySafe` rests on the unique request keys and on the fact that whoever sees a message may use its
room; it speaks of what a user sees now, so a user who left, or left and joined again, is told that there is no such message. `ActiveDevicesAreBounded` counts: the active devices are a finite set that grows by at most one element, and
only where `ConsumePairing` has compared it with the limit. Assumption: `StoreAssumption` (the administrator is a user, limits are naturals).

`DeviceLinkProofs` proves for any number of messages, credentials and late requests that `LinkInv` is inductive, with `StoreInv` and the
steps of all other users in it. What the property `ReceivedIsInFlash` needs beyond itself are facts about things that are not in flash yet:
`RequestFollowsSaved` (the request that is out is the one RAM asks for), `ReplyFits` (an offered message is still undelivered and
the next in turn, a message acknowledged as read is settled, after a pairing everything older is settled), `CopiesAgree` (flash and RAM differ
only in ways a failed write explains), `HeldIsKept` (also a receipt still on its way is of the message held in both copies), and `CredentialsIssued`
(nobody knows a credential that was not issued, so everything sent before a pairing is refused after it). A step of the device leaves the
relay's tables alone; a step of the relay is `Harmless`: it confirms a receipt only for the message that both copies hold. From
`LinkInv` follow the types, `ReceivedIsInFlash`, `NoMessageComesBack`, that every step maps to a step of `Mailbox` or a stutter
(`DeliveryInOrder`), and that the composition implements `RelayStore!Spec` (`LinkImplementsStore`), which carries all theorems
about the store over. Assumption: `LinkAssumption` (this device is one of the
devices, command names are not pairing codes). These
proofs allow `DisplayStalls`; `ReadOnlyIfDisplayed` assumes that it is false and proves `ReadWasDisplayed` with `ShownInv`: the view is the message in RAM, a key that is not
stale was pressed on it, and every receipt that says read, in a copy or under way, is of a message a key has confirmed.

`VoiceRoomProofs` proves for any number of peers, rooms, streams and frames and any queue limit that `RoomInv` (types and queue limits,
`FloorHasPeer`, `PeersKnowFloor`) is inductive under `AnySpec`, that is with clients that send any request, release or frame at all; `Spec` implies
`AnySpec`. The argument is about sequences of messages: `Hears(ms, t, s)` says that a reader who knew of stream `t` knows of `s` after `ms`. It composes (`HearsBoth`) and survives reading (`HearsTail`), so each call only has to show that what it sends to
a peer leads from the old floor to the new one; `PushTells` and `CallKeeps` do the rest, queues that overflow included, because
they cancel the session. `FloorHasPeer` is needed by `Leave`: the peer that goes holds no floor of another room. Assumption: `VoiceAssumption`
(the model values are distinct, limits are naturals, queues hold something).

Its second part adds the order of audio. `AudioInv` says of every queue of an open session that each frame in it is `InPlace`: reading what precedes it, a
peer knows of its stream, and the frames of its stream before it have smaller numbers. A new frame satisfies this by `PeersKnowFloor`, since whoever may
send audio of stream `s` holds the floor `s`, and because frames that are queued are `Past`: they are not ahead of the floor of their stream, of
which there is at most one (`Distinct`). A call that sends no audio disturbs no frame (`SilentCall`), and reading a message keeps the rest in place
(`SoundTail`, which needs `HearsTail` for every prefix). A frame is also later than the last one its peer was written (`Newer`). From this follow
`AudioInOrder` and, for the device, `NextFrameFits`: the next frame is of the stream in `told` and later than the frame there.

`AuthProofs` proves for any users, requests, tokens, devices and limits that types and the following facts are inductive together. `Sizes`: the tables are finite and
within their limits. `ProofsInv`: a proof that a session or request holds is never of a later version than its account, and of the same version only with the
same password, because every reset counts the version up; so `Admit`, which compares versions, refuses every old password. `CodesInv`: who is admitted and
disabled now was disabled after it. `StreamsInv`: the table and the requests agree. `HashingInv` and `UselessInv`: one password is hashed at a time, so
one login can be overtaken before the administrator's request deletes the sessions, and while that login is under way its user has no useless session.
`AuthImplementsSessions` proves the refinement of `Sessions` from the same invariant. Most steps are stutters or `End`, for the map forgets stale entries
(`EndIsSeen`). Three facts carry it. A proof never gets `Current` again, for the version only grows (`Dated`), so nothing that ended comes back when the account
is enabled. `ManageUser` counts the version up, so everything that rests on the account goes out of sight at once and nothing of another user does
(`ManageIsSeen`). And a proof that is current is `Good`: of the same version only with the same password (`CurrentIsGood`), which makes `Login`, `Open` and `Admit`
steps of `Sessions`.
Assumptions: `AuthAssumption` (the model values are distinct, limits are naturals) and `SessionAssumption` (nor is `NoOne` a session of `Sessions`).

`OtaUpdateProofs` proves for any packages and any limit that `OtaInv` is inductive. `Home` is the slot a failed trial returns to. `BootInv`: home holds a whole image
that is not on trial; an image on trial is whole, its intent is saved, and the trial ends with the start. `CountInv`: the sequence is behind what is at home only
while an intent for home says by how much, which is the case between `MarkValid` and `SaveSequence`, also after a reset there. `OfferInv`: what is
downloaded and offered is newer than what is installed. `KnownInv`: no sequence names two packages, because `highest` outlives deleted releases.
`NeverDowngrades` needs all four. Assumption: `OtaAssumption` (sequences are positive, model values are distinct).

`PushToTalkProofs` proves for any number of peers, devices and rooms, any requests and frames and any length of the three queues that `TalkInv` is
inductive. While both ends count on a session (`Sound`), the device and the hub are `Agreed`: a relation between what is coming down to the device, its
push-to-talk, what is going up, the floor of its room and the last stream given, in three parts. `InOrder`: streams are given once and a grant that is on
its way is of a stream nobody uses yet. `Told`: a stream the device has or is being given is its floor, or a floor message behind it says otherwise.
`Kept`: a floor the device holds is used, being granted or being given back, and the frames on their way are just those between the last one the hub carried and
the last one sent. None of the three is inductive alone: a grant that is refused needs `InOrder`, for it must not be the stream in use, and the frames need
`Told`, for the hub has to refuse those of a lost floor. That they are just those gives `InTurn`, so the rate of the second is the only other reason to refuse one. `Agreed` is a relation on values, so its lemmas (`AgreedHears`, `ThinGranted`, `AgreedSpoke`, ...) are
about one queue that grows or shrinks and do not mention the system. `VoiceHubProofs` reduces every call of the hub to `Follows`, what a peer can tell from its
own queue: a `Turn` of the floor together with the messages about it. A step of the system then changes one or two of the five things.
From `TalkInv` follow `TalkTypeOK`, `SpeakerWillKnow`, `FloorIsAccountedFor` and `FramesAreCarried`. Assumptions: `VoiceAssumption`, `TalkAssumption` (devices
are peers, limits are naturals, and the hub accepts the next frame: `MaxGap > 0`).

`ListeningProofs` takes the two together. `ListeningIsInARoom` proves that the relay with any number of such devices is a `VoiceRoom` (`AnySpec`): the hub's
calls are the same, each message a device sends is one a client may send, and everything else on a device leaves the hub alone. So `RoomInv` and `AudioInv`
hold of it, without a second proof, as `TalkInv` does because listening is push-to-talk (`ListeningIsTalking`). What is left is between the relay's
writer and the task. `ListenInv` says of each device whose session goes on that there is a `Way` from what it plays to what it was told last: a sequence of
states of knowledge, one before each message that waits and one after the last, in which each message leads from one to the next and each frame
fits. `Arrive` makes it longer at its end, where `NextFrameFits` says that the frame fits (`WayMore`); `Receive` takes its first message, after which the
device may be behind in the frame but not in the stream (`WayLess`); `Enter` starts a new one, for which a peer without a session must have been
told nothing (`NobodyIsTold`). All other steps touch neither end, and no step but `Enter` makes a session go on that did not before (`RestOpens`,
`SendingOpens`). From the way's first message follows `ComingIsPlayed`. Assumptions: `VoiceAssumption` and `TalkAssumption`.

Only model-checked: everything about liveness (`PendingArrives`, `FloorReturns`, `DeniedLeaves`, `UnusedFloorReturns`,
`AskIsAnswered`, `StreamsEnd`, `UpdateSettles`), which is out of the prover's reach.

## Not modelled

* Registration, the rate limits of logins and mutations, and the sealed copy of invitation codes (`invitation_codes.go`): each is one transaction or one map
  without a second step to interleave with.
* The delivery loop inside a device stream (one message in flight, sent again after five seconds). The firmware in this repository polls over
  HTTPS; the stream's place in the server is in `Auth`.
* Schema migrations: one immediate transaction over a fixed list of files.
* Portal, DNS, configuration checks, protocol envelope, manifest syntax: parsers of bytes without state of their own, covered by the repository's host tests.
* The console: a browser client; towards the relay it is a user that may retry (`RelayStore`), a peer that sends anything (`VoiceRoom`).
* Board support, board check, fonts, tools and deployment: drivers, demonstrations, generated data (`pocketlink_font_14.c` alone is 106,935 lines)
  and scripts of one run each.

## Plan

1. `RelayStore`, `DeviceLink` and `Mailbox` with their proofs: done.
2. `VoiceHub`, `VoiceRoom`, `PushToTalk` and `Listening` with their proofs: done.
3. `Auth`, `Sessions` and `OtaUpdate` with their proofs: done.
4. Left: the delivery loop of `stream.go` as a second implementation of `Mailbox`; the portal's modes and commands in `DeviceLink`; migrations.
