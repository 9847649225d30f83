----------------------------- MODULE RelayStore -----------------------------
(***************************************************************************)
(* The relay's message store (services/relay/internal/store): rooms, the   *)
(* devices and users in them, text messages and the per-device receipts.   *)
(*                                                                         *)
(* The store opens SQLite with one connection, and every exported method   *)
(* is one transaction or one statement, so each method is one action.  A   *)
(* method that returns an error changes nothing and is a stuttering step.  *)
(*                                                                         *)
(* The acting user is an argument of the HTTP handler.  A handler checks   *)
(* the session before it opens the transaction, so a user disabled in      *)
(* between still acts once: no action asks whether its actor is enabled.   *)
(* Registration, sessions and auth_version are outside this module.        *)
(***************************************************************************)
EXTENDS Naturals, FiniteSets, Sequences

CONSTANTS Users, Admin,       \* registered accounts and the built-in one
          Rooms, Devices,     \* room ids, and device identities (one per SN)
          Keys, Texts,        \* request ids and message bodies
          PairingCodes, InviteCodes,
          Nobody,             \* the owner of a row that does not exist
          RoomLimit, MessageLimit, PairingLimit, ActiveLimit, RetainedLimit,
          InvitationLimit,
          MaxCredentials      \* bound: credentials issued to one device

ASSUME StoreAssumption ==
  /\ Admin \in Users
  /\ Nobody \notin Users
  /\ {RoomLimit, MessageLimit, PairingLimit, ActiveLimit, RetainedLimit,
      InvitationLimit, MaxCredentials} \subseteq Nat

VARIABLES
  roomOwner,    \* rooms.owner_id, Nobody when the room does not exist
  archived,     \* rooms with archived_at set
  devOwner,     \* devices.owner_id, Nobody when the device does not exist
  revoked,      \* devices with revoked_at set
  credential,   \* the device's current credential: how many were issued so far
  pairings,     \* outstanding pairing codes: <<code, owner>>
  invites,      \* open room invitations: <<code, room, created_by>>
  spent,        \* invitation codes used or revoked whose row is still there
  disabled,     \* users with disabled_at set
  members,      \* room_members: <<room, device>>
  roomUsers,    \* room_users: <<room, user>>
  since,        \* room_users.since_message_id
  messages,     \* the messages table; the index is the AUTOINCREMENT id
  receipts,     \* receipts rows: <<message id, device>>
  delivered, read, withdrawn  \* receipts whose ..._at column is set

roomVars    == <<roomOwner, archived, roomUsers, since>>
deviceVars  == <<devOwner, revoked, credential>>
codeVars    == <<pairings, invites, spent>>
receiptVars == <<receipts, delivered, read, withdrawn>>
vars == <<roomVars, deviceVars, codeVars, disabled, members, messages,
          receiptVars>>

Message == [room : Rooms, key : Keys, text : Texts]

Init ==
  /\ roomOwner = [r \in Rooms |-> Nobody]
  /\ archived = {}
  /\ devOwner = [d \in Devices |-> Nobody]
  /\ revoked = {}
  /\ credential = [d \in Devices |-> 0]
  /\ pairings = {} /\ invites = {} /\ spent = {}
  /\ disabled = {}
  /\ members = {} /\ roomUsers = {}
  /\ since = [p \in Rooms \X Users |-> 0]
  /\ messages = <<>>
  /\ receipts = {} /\ delivered = {} /\ read = {} /\ withdrawn = {}

-----------------------------------------------------------------------------
(* Authorization                                                           *)

RoomExists(r) == roomOwner[r] # Nobody

\* The room's owner and the users who joined it.
Participates(u, r) == roomOwner[r] = u \/ <<r, u>> \in roomUsers

\* Managing a room (archive, invite, remove others) is for its owner and the
\* administrator, using it is for its participants too.
RoomAllowed(u, r, manage) ==
  /\ RoomExists(r)
  /\ u = Admin \/ roomOwner[r] = u \/ (~manage /\ <<r, u>> \in roomUsers)

Active(d) == devOwner[d] # Nobody /\ d \notin revoked

\* Mutant of Authenticated: forgets that the owner may be disabled.
AuthenticatedByDevice(d, c) == Active(d) /\ c = credential[d]

\* DeviceByCredential: the current credential of an active device whose owner
\* is enabled.  Every device operation repeats it inside its own statement.
Authenticated(d, c) ==
  /\ Active(d)
  /\ c = credential[d]
  /\ devOwner[d] \notin disabled

\* What a user sees of the history: everything for the owner and the
\* administrator, what came after the join for the others.
Visible(u, i) ==
  LET r == messages[i].room IN
  \/ u = Admin
  \/ roomOwner[r] = u
  \/ <<r, u>> \in roomUsers /\ i > since[<<r, u>>]

\* Mutant of ReceiptsOf: withdraws only what was not delivered yet.
UndeliveredOf(D, r) ==
  {p \in receipts \ delivered : p[2] \in D /\ messages[p[1]].room = r}

\* The receipts of the devices in D for the messages of room r.
ReceiptsOf(D, r) ==
  {p \in receipts : p[2] \in D /\ messages[p[1]].room = r}

\* Mutant of DevicesOf: skips the devices of a disabled account.
EnabledDevicesOf(u) == {d \in Devices : devOwner[d] = u /\ u \notin disabled}

DevicesOf(u) == {d \in Devices : devOwner[d] = u}

-----------------------------------------------------------------------------
(* Rooms and membership                                                    *)

CreateRoom(u, r) ==
  /\ ~RoomExists(r)
  /\ Cardinality({x \in Rooms : RoomExists(x)}) < RoomLimit
  /\ roomOwner' = [roomOwner EXCEPT ![r] = u]
  /\ UNCHANGED <<archived, roomUsers, since, deviceVars, codeVars, disabled,
                 members, messages, receiptVars>>

ArchiveRoom(u, r) ==
  /\ RoomAllowed(u, r, TRUE)
  /\ archived' = archived \cup {r}
  /\ withdrawn' = withdrawn \cup ReceiptsOf(Devices, r)
  /\ members' = {p \in members : p[1] # r}
  /\ UNCHANGED <<roomOwner, roomUsers, since, deviceVars, codeVars, disabled,
                 messages, receipts, delivered, read>>

AddMember(u, r, d) ==
  /\ RoomAllowed(u, r, FALSE)
  /\ devOwner[d] = u \/ (u = Admin /\ devOwner[d] # Nobody)
  /\ r \notin archived
  /\ d \notin revoked
  /\ members' = members \cup {<<r, d>>}
  /\ UNCHANGED <<roomVars, deviceVars, codeVars, disabled, messages,
                 receiptVars>>

\* The owner of the device, the owner of the room or the administrator.
RemoveMember(u, r, d) ==
  /\ RoomAllowed(u, r, FALSE)
  /\ devOwner[d] # Nobody
  /\ devOwner[d] = u \/ u = Admin \/ roomOwner[r] = u
  /\ r \notin archived
  /\ members' = members \ {<<r, d>>}
  /\ withdrawn' = withdrawn \cup ReceiptsOf({d}, r)
  /\ UNCHANGED <<roomVars, deviceVars, codeVars, disabled, messages, receipts,
                 delivered, read>>

\* a removes user u from the room, or u leaves it.
RemoveRoomUser(a, r, u) ==
  /\ RoomAllowed(a, r, u # a)
  /\ u # roomOwner[r]
  /\ withdrawn' = withdrawn \cup ReceiptsOf(DevicesOf(u), r)
  /\ members' = members \ ({r} \X DevicesOf(u))
  /\ roomUsers' = roomUsers \ {<<r, u>>}
  /\ since' = [since EXCEPT ![<<r, u>>] = 0]
  /\ UNCHANGED <<roomOwner, archived, deviceVars, codeVars, disabled, messages,
                 receipts, delivered, read>>

-----------------------------------------------------------------------------
(* Messages and receipts                                                   *)

Recipients(r) == {d \in Devices : <<r, d>> \in members /\ d \notin revoked}

\* Mutant of SameRequest: a lookup joined with the active rooms.
SameRequestInActiveRoom(r, k) ==
  {i \in DOMAIN messages :
     r \notin archived /\ messages[i].room = r /\ messages[i].key = k}

\* Rows of messages with this room and request key: at most one, by its
\* UNIQUE(room_id, request_id).
SameRequest(r, k) ==
  {i \in DOMAIN messages : messages[i].room = r /\ messages[i].key = k}

\* What SendText answers, in the order of its checks.
SendReply(u, r, k, t) ==
  LET old == SameRequest(r, k) IN
  IF ~RoomAllowed(u, r, FALSE) THEN "not_found"
  ELSE IF old # {} THEN
         IF \E i \in old : ~Visible(u, i) THEN "not_found"
         ELSE IF \E i \in old : messages[i].text # t THEN "conflict"
         ELSE "original"
  ELSE IF r \in archived THEN "not_found"
  ELSE IF Len(messages) >= MessageLimit THEN "limit"
  ELSE IF Recipients(r) = {} THEN "empty_room"
  ELSE "sent"

\* The receipts written with the next message of the room.
Snapshot(r) == {Len(messages) + 1} \X Recipients(r)

\* The message and the snapshot of its recipients commit together.  Any other
\* answer, a retried request's among them, leaves the store as it is.
SendText(u, r, k, t) ==
  /\ SendReply(u, r, k, t) = "sent"
  /\ messages' = Append(messages, [room |-> r, key |-> k, text |-> t])
  /\ receipts' = receipts \cup Snapshot(r)
  /\ UNCHANGED <<roomVars, deviceVars, codeVars, disabled, members, delivered,
                 read, withdrawn>>

\* Mutants of Open: the membership alone decides, or withdrawal is forgotten.
OpenByMembership(d, c, i) ==
  /\ Authenticated(d, c)
  /\ <<messages[i].room, d>> \in members
  /\ messages[i].room \notin archived
OpenThoughWithdrawn(d, c, i) == <<i, d>> \in receipts /\ OpenByMembership(d, c, i)

\* The receipts a device may still act on: joined with the membership and the
\* room's state, as both Pending and Acknowledge join them.
Open(d, c, i) ==
  /\ <<i, d>> \in receipts \ withdrawn
  /\ Authenticated(d, c)
  /\ <<messages[i].room, d>> \in members
  /\ messages[i].room \notin archived

\* Mutants of Pending: everything the device may still act on, and a cursor at
\* the last acknowledged message.
PendingAndDelivered(d, c) == {i \in DOMAIN messages : Open(d, c, i)}
PendingAfterCursor(d, c) ==
  {i \in DOMAIN messages : Open(d, c, i) /\ \A j \in DOMAIN messages :
                             <<j, d>> \in delivered => j < i}

\* The device's inbox, in id order; the page of 20 is not a limit here.
Pending(d, c) == {i \in DOMAIN messages : Open(d, c, i) /\ <<i, d>> \notin delivered}

Acknowledge(d, c, i, state) ==
  /\ Open(d, c, i)
  /\ delivered' = delivered \cup {<<i, d>>}
  /\ read' = IF state = "read" THEN read \cup {<<i, d>>} ELSE read
  /\ UNCHANGED <<roomVars, deviceVars, codeVars, disabled, members, messages,
                 receipts, withdrawn>>

-----------------------------------------------------------------------------
(* Devices                                                                 *)

CreatePairing(u, p) ==
  /\ \A q \in pairings : q[1] # p
  /\ Cardinality(pairings) < PairingLimit
  /\ pairings' = pairings \cup {<<p, u>>}
  /\ UNCHANGED <<roomVars, deviceVars, invites, spent, disabled, members,
                 messages, receiptVars>>

\* Mutant of MayPair: whoever has a code may pair a revoked device.
MayPairRevoked(u, d) == devOwner[d] = Nobody \/ d \in revoked

\* A serial number that is active, or that was another user's, is refused.
MayPair(u, d) == devOwner[d] = Nobody \/ (d \in revoked /\ devOwner[d] = u)

\* Mutant of RoomForDevice: only a new row is counted.
RoomForNewDevice(d) ==
  \/ devOwner[d] # Nobody
  \/ Cardinality({x \in Devices : Active(x)}) < ActiveLimit

\* Limits of active devices and of retained rows.
RoomForDevice(d) ==
  /\ Cardinality({x \in Devices : Active(x)}) < ActiveLimit
  /\ Cardinality({x \in Devices \ {d} : devOwner[x] # Nobody}) < RetainedLimit

\* Pairing a revoked device again keeps its row and gives it a new credential.
ConsumePairing(p, u, d) ==
  /\ <<p, u>> \in pairings
  /\ u \notin disabled
  /\ MayPair(u, d)
  /\ RoomForDevice(d)
  /\ credential[d] < MaxCredentials
  /\ devOwner' = [devOwner EXCEPT ![d] = u]
  /\ revoked' = revoked \ {d}
  /\ credential' = [credential EXCEPT ![d] = @ + 1]
  /\ pairings' = pairings \ {<<p, u>>}
  /\ UNCHANGED <<roomVars, invites, spent, disabled, members, messages,
                 receiptVars>>

RevokeDevice(u, d) ==
  /\ devOwner[d] # Nobody
  /\ devOwner[d] = u \/ u = Admin
  /\ revoked' = revoked \cup {d}
  /\ members' = {p \in members : p[2] # d}
  /\ withdrawn' = withdrawn \cup {p \in receipts : p[2] = d}
  /\ UNCHANGED <<roomVars, devOwner, credential, codeVars, disabled, messages,
                 receipts, delivered, read>>

\* Ten minutes pass: the code no longer counts and no longer pairs.
ExpirePairing(p, u) ==
  /\ <<p, u>> \in pairings
  /\ pairings' = pairings \ {<<p, u>>}
  /\ UNCHANGED <<roomVars, deviceVars, invites, spent, disabled, members,
                 messages, receiptVars>>

-----------------------------------------------------------------------------
(* Room invitations                                                        *)

CreateInvitation(u, c, r) ==
  /\ RoomAllowed(u, r, TRUE)
  /\ r \notin archived
  /\ c \notin spent /\ \A i \in invites : i[1] # c
  /\ Cardinality(invites) + Cardinality(spent) < InvitationLimit
  /\ invites' = invites \cup {<<c, r, u>>}
  /\ UNCHANGED <<roomVars, deviceVars, pairings, spent, disabled, members,
                 messages, receiptVars>>

\* Mutant of JoinPoint: starts at the newest message instead of after it.
JoinPointInclusive(r, u) ==
  IF <<r, u>> \in roomUsers THEN since[<<r, u>>]
  ELSE IF messages = <<>> THEN 0 ELSE Len(messages) - 1

\* Where a joining user's history starts.  The row of a user already in the
\* room is kept (INSERT OR IGNORE), so its older starting point is too.
JoinPoint(r, u) ==
  IF <<r, u>> \in roomUsers THEN since[<<r, u>>] ELSE Len(messages)

\* Whoever holds the code joins and spends it, also if already in the room.
JoinRoom(u, i) ==
  LET r == i[2] IN
  /\ i \in invites
  /\ r \notin archived
  /\ u # roomOwner[r]
  /\ roomUsers' = roomUsers \cup {<<r, u>>}
  /\ since' = [since EXCEPT ![<<r, u>>] = JoinPoint(r, u)]
  /\ invites' = invites \ {i}
  /\ spent' = spent \cup {i[1]}
  /\ UNCHANGED <<roomOwner, archived, deviceVars, pairings, disabled, members,
                 messages, receiptVars>>

RevokeInvitation(u, i) ==
  /\ i \in invites
  /\ i[3] = u
  /\ invites' = invites \ {i}
  /\ spent' = spent \cup {i[1]}
  /\ UNCHANGED <<roomVars, deviceVars, pairings, disabled, members, messages,
                 receiptVars>>

\* Seven days pass: the row is deleted before the next one is inserted.
ExpireInvitation(c) ==
  /\ c \in spent \/ \E i \in invites : i[1] = c
  /\ invites' = {i \in invites : i[1] # c}
  /\ spent' = spent \ {c}
  /\ UNCHANGED <<roomVars, deviceVars, pairings, disabled, members, messages,
                 receiptVars>>

-----------------------------------------------------------------------------
(* Managed accounts                                                        *)

DisableUser(u) ==
  LET theirs == {i \in invites : i[3] = u} IN
  /\ u # Admin
  /\ disabled' = disabled \cup {u}
  /\ pairings' = {p \in pairings : p[2] # u}
  /\ invites' = invites \ theirs
  /\ spent' = spent \cup {i[1] : i \in theirs}
  /\ UNCHANGED <<roomVars, deviceVars, members, messages, receiptVars>>

EnableUser(u) ==
  /\ u # Admin
  /\ disabled' = disabled \ {u}
  /\ UNCHANGED <<roomVars, deviceVars, codeVars, members, messages,
                 receiptVars>>

-----------------------------------------------------------------------------

RoomStep ==
  \E u \in Users, r \in Rooms :
    \/ CreateRoom(u, r)
    \/ ArchiveRoom(u, r)
    \/ \E d \in Devices : AddMember(u, r, d)
    \/ \E d \in Devices : RemoveMember(u, r, d)
    \/ \E v \in Users : RemoveRoomUser(u, r, v)

MessageStep ==
  \/ \E u \in Users, r \in Rooms, k \in Keys, t \in Texts : SendText(u, r, k, t)
  \/ \E d \in Devices, c \in 1..MaxCredentials, i \in DOMAIN messages,
        state \in {"received", "read"} : Acknowledge(d, c, i, state)

DeviceStep ==
  \/ \E u \in Users, p \in PairingCodes : CreatePairing(u, p)
  \/ \E q \in pairings, d \in Devices : ConsumePairing(q[1], q[2], d)
  \/ \E u \in Users, d \in Devices : RevokeDevice(u, d)
  \/ \E q \in pairings : ExpirePairing(q[1], q[2])

InvitationStep ==
  \/ \E u \in Users, c \in InviteCodes, r \in Rooms : CreateInvitation(u, c, r)
  \/ \E u \in Users, i \in invites : JoinRoom(u, i)
  \/ \E u \in Users, i \in invites : RevokeInvitation(u, i)
  \/ \E c \in InviteCodes : ExpireInvitation(c)

AccountStep == \E u \in Users : DisableUser(u) \/ EnableUser(u)

Next == RoomStep \/ MessageStep \/ DeviceStep \/ InvitationStep \/ AccountStep

Spec == Init /\ [][Next]_vars
-----------------------------------------------------------------------------
(* Properties                                                              *)

\* The store's variables keep their types and refer to existing rows.
TypeOK ==
  /\ roomOwner \in [Rooms -> Users \cup {Nobody}]
  /\ archived \subseteq Rooms
  /\ devOwner \in [Devices -> Users \cup {Nobody}]
  /\ revoked \subseteq Devices
  /\ credential \in [Devices -> 0..MaxCredentials]
  /\ pairings \subseteq PairingCodes \X Users
  /\ invites \subseteq InviteCodes \X Rooms \X Users
  /\ spent \subseteq InviteCodes
  /\ disabled \subseteq Users
  /\ members \subseteq Rooms \X Devices
  /\ roomUsers \subseteq Rooms \X Users
  /\ since \in [Rooms \X Users -> Nat]
  /\ messages \in Seq(Message)
  /\ receipts \subseteq (DOMAIN messages) \X Devices
  /\ delivered \subseteq receipts /\ read \subseteq delivered
  /\ withdrawn \subseteq receipts

\* Removing a member, archiving, revoking and removing a user all take the
\* right to a message with the membership: a receipt that is not withdrawn
\* belongs to a device that is in the message's room now.
LiveReceiptsAreOfMembers ==
  \A p \in receipts \ withdrawn : <<messages[p[1]].room, p[2]>> \in members

\* A device cannot lose a message: every receipt neither delivered nor
\* withdrawn is in the device's inbox as long as its owner is enabled, however
\* rooms, members, credentials and accounts changed since the message was sent.
NothingStranded ==
  \A p \in receipts \ (withdrawn \cup delivered) :
    devOwner[p[2]] \notin disabled => p[1] \in Pending(p[2], credential[p[2]])

\* A member can receive: its device is active and the room is open.
MembersCanReceive ==
  \A p \in members : /\ RoomExists(p[1]) /\ p[1] \notin archived
                     /\ Active(p[2])

MessagesAreOfRooms == \A i \in DOMAIN messages : RoomExists(messages[i].room)

\* A request key names one message of its room for good.
OneMessagePerRequest ==
  \A i, j \in DOMAIN messages :
    messages[i].room = messages[j].room /\ messages[i].key = messages[j].key
      => i = j

\* The inductive invariant: membership, room and device state and the receipts
\* are changed together by every operation, so no operation alone keeps
\* LiveReceiptsAreOfMembers without the other parts.
StoreInv ==
  /\ TypeOK
  /\ LiveReceiptsAreOfMembers
  /\ MembersCanReceive
  /\ MessagesAreOfRooms
  /\ OneMessagePerRequest

\* "Retrying the same key/body returns the original message, even after
\* membership changes or room archival" (messages.go:170), for whoever sees the
\* message now, and another body is a conflict: also when the message table is
\* full or the room is empty.  The point where a user joined holds for retries
\* too (docs/development/accounts.en.md:48): who left, or left and joined again,
\* is told that there is no such message, and no retry ever sends twice.
RetryReturnsOriginal ==
  \A u \in Users, i \in DOMAIN messages, t \in Texts :
    SendReply(u, messages[i].room, messages[i].key, t)
      = IF ~Visible(u, i) THEN "not_found"
        ELSE IF t = messages[i].text THEN "original" ELSE "conflict"

\* The limit of active devices holds although pairing again brings a revoked
\* row back without inserting one.
ActiveDevicesBounded ==
  Cardinality({d \in Devices : Active(d)}) <= ActiveLimit

\* Leaving and joining again, or a second invitation, never shows a user an
\* older message than the ones already shown.
HistoryNeverOpensBackwards ==
  [][\A u \in Users, i \in DOMAIN messages : Visible(u, i)' => Visible(u, i)]_vars

\* What was withdrawn stays withdrawn, with the state it had: neither adding
\* the device again nor pairing it again restores an old message, and a late
\* acknowledgement changes nothing.
WithdrawnIsFinal ==
  [][\A p \in withdrawn : /\ p \in withdrawn'
                          /\ p \in delivered' <=> p \in delivered
                          /\ p \in read' <=> p \in read]_vars

\* New members do not receive history: receipts are written with their message
\* and never added to one that is already there.
RecipientsAreFixed ==
  [][\A p \in receipts' \ receipts : p[1] \notin DOMAIN messages]_vars

\* "Re-pairing retains the device ID but requires new room authorization": when
\* a device gets its next credential it is in no room, has nothing pending
\* from before and belongs to the user it belonged to.
NewCredentialStartsClean ==
  [][\A d \in Devices : credential'[d] # credential[d] =>
       /\ \A p \in members' : p[2] # d
       /\ \A p \in receipts' : p[2] = d => p \in withdrawn'
       /\ devOwner[d] \in {Nobody, devOwner'[d]}]_vars

\* A user who stops taking part in a room leaves no device and no open message
\* behind, whoever placed the device there.
LeavingTakesDevicesAlong ==
  [][\A u \in Users, r \in Rooms :
       Participates(u, r) /\ ~Participates(u, r)' =>
         \A d \in Devices : devOwner[d] = u =>
           /\ <<r, d>> \notin members'
           /\ \A p \in receipts : p[2] = d /\ messages[p[1]].room = r
                                    => p \in withdrawn']_vars

\* While an account is disabled its devices neither confirm a message nor get
\* a new credential from a code issued before.
DisabledDevicesAreSilent ==
  [][\A d \in Devices : devOwner[d] \in disabled =>
       /\ credential'[d] = credential[d]
       /\ \A p \in delivered' \ delivered : p[2] # d
       /\ \A p \in read' \ read : p[2] # d]_vars
=============================================================================
