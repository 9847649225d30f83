-------------------------- MODULE RelayStoreProofs --------------------------
(***************************************************************************)
(* Theorems about RelayStore for every set of users, rooms, devices, keys  *)
(* and texts and every limit.  StoreInv is inductive; the safety           *)
(* properties follow from it and from the step they talk about.            *)
(***************************************************************************)
EXTENDS RelayStore, FiniteSetTheorems, TLAPS

LEMMA InitStoreInv == Init => StoreInv
  BY StoreAssumption
     DEF Init, StoreInv, TypeOK, LiveReceiptsAreOfMembers, MembersCanReceive,
         MessagesAreOfRooms, OneMessagePerRequest, Message

\* What a new message changes: the table grows by one row at its end.
LEMMA SendAppends ==
  ASSUME TypeOK, NEW u \in Users, NEW r \in Rooms, NEW k \in Keys,
         NEW t \in Texts, SendText(u, r, k, t)
  PROVE  /\ messages' \in Seq(Message)
         /\ Len(messages') = Len(messages) + 1
         /\ DOMAIN messages = 1..Len(messages)
         /\ DOMAIN messages' = 1..(Len(messages) + 1)
         /\ \A i \in DOMAIN messages : messages'[i] = messages[i]
         /\ messages'[Len(messages) + 1] = [room |-> r, key |-> k, text |-> t]
         /\ receipts' = receipts \cup ({Len(messages) + 1} \X Recipients(r))
  BY DEF TypeOK, SendText, Message, Snapshot

LEMMA SendIsAllowed ==
  ASSUME NEW u \in Users, NEW r \in Rooms, NEW k \in Keys, NEW t \in Texts,
         SendText(u, r, k, t)
  PROVE  /\ RoomAllowed(u, r, FALSE)
         /\ SameRequest(r, k) = {}
         /\ r \notin archived
  <1>1. SendReply(u, r, k, t) = "sent"
    BY DEF SendText
  <1>2. QED
    BY <1>1, Zenon DEF SendReply
-----------------------------------------------------------------------------
(* Types                                                                   *)

LEMMA RoomStepType == TypeOK /\ RoomStep => TypeOK'
  <1> SUFFICES ASSUME TypeOK, NEW u \in Users, NEW r \in Rooms,
                      \/ CreateRoom(u, r)
                      \/ ArchiveRoom(u, r)
                      \/ \E d \in Devices : AddMember(u, r, d)
                      \/ \E d \in Devices : RemoveMember(u, r, d)
                      \/ \E v \in Users : RemoveRoomUser(u, r, v)
               PROVE  TypeOK'
    BY DEF RoomStep
  <1> USE DEF TypeOK, roomVars, deviceVars, codeVars, receiptVars, ReceiptsOf,
              DevicesOf
  <1>1. CASE CreateRoom(u, r)
    BY <1>1 DEF CreateRoom
  <1>2. CASE ArchiveRoom(u, r)
    BY <1>2 DEF ArchiveRoom
  <1>3. ASSUME NEW d \in Devices, AddMember(u, r, d) PROVE TypeOK'
    BY <1>3 DEF AddMember
  <1>4. ASSUME NEW d \in Devices, RemoveMember(u, r, d) PROVE TypeOK'
    BY <1>4 DEF RemoveMember
  <1>5. ASSUME NEW v \in Users, RemoveRoomUser(u, r, v) PROVE TypeOK'
    BY <1>5 DEF RemoveRoomUser
  <1>6. QED
    BY <1>1, <1>2, <1>3, <1>4, <1>5

LEMMA MessageStepType == TypeOK /\ MessageStep => TypeOK'
  <1>1. ASSUME TypeOK, NEW u \in Users, NEW r \in Rooms, NEW k \in Keys,
               NEW t \in Texts, SendText(u, r, k, t)
        PROVE  TypeOK'
    <2>1. /\ messages' \in Seq(Message)
          /\ DOMAIN messages = 1..Len(messages)
          /\ DOMAIN messages' = 1..(Len(messages) + 1)
          /\ receipts' = receipts \cup ({Len(messages) + 1} \X Recipients(r))
      BY <1>1, SendAppends
    <2> Len(messages) \in Nat
      BY <1>1 DEF TypeOK
    <2>2. {Len(messages) + 1} \X Recipients(r) \subseteq (DOMAIN messages') \X Devices
      BY <2>1 DEF Recipients
    <2>3. receipts' \subseteq (DOMAIN messages') \X Devices
      BY <1>1, <2>1, <2>2 DEF TypeOK
    <2>4. QED
      BY <1>1, <2>1, <2>3 DEF TypeOK, SendText, roomVars, deviceVars, codeVars
  <1>2. ASSUME TypeOK, NEW d \in Devices, NEW c \in 1..MaxCredentials,
               NEW i \in DOMAIN messages, NEW state \in {"received", "read"},
               Acknowledge(d, c, i, state)
        PROVE  TypeOK'
    BY <1>2 DEF TypeOK, Acknowledge, Open, roomVars, deviceVars, codeVars
  <1>3. QED
    BY <1>1, <1>2 DEF MessageStep

LEMMA DeviceStepType == TypeOK /\ DeviceStep => TypeOK'
  <1> USE DEF TypeOK, roomVars, deviceVars, codeVars, receiptVars
  <1>1. ASSUME TypeOK, NEW u \in Users, NEW p \in PairingCodes,
               CreatePairing(u, p)
        PROVE  TypeOK'
    BY <1>1 DEF CreatePairing
  <1>2. ASSUME TypeOK, NEW q \in pairings, NEW d \in Devices,
               ConsumePairing(q[1], q[2], d)
        PROVE  TypeOK'
    <2>1. credential[d] + 1 \in 0..MaxCredentials
      BY <1>2, StoreAssumption DEF ConsumePairing
    <2>2. QED
      BY <1>2, <2>1 DEF ConsumePairing
  <1>3. ASSUME TypeOK, NEW u \in Users, NEW d \in Devices, RevokeDevice(u, d)
        PROVE  TypeOK'
    BY <1>3 DEF RevokeDevice
  <1>4. ASSUME TypeOK, NEW q \in pairings, ExpirePairing(q[1], q[2])
        PROVE  TypeOK'
    BY <1>4 DEF ExpirePairing
  <1>5. QED
    BY <1>1, <1>2, <1>3, <1>4 DEF DeviceStep

LEMMA InvitationStepType == TypeOK /\ InvitationStep => TypeOK'
  <1> USE DEF TypeOK, roomVars, deviceVars, codeVars, receiptVars
  <1>1. ASSUME TypeOK, NEW u \in Users, NEW c \in InviteCodes, NEW r \in Rooms,
               CreateInvitation(u, c, r)
        PROVE  TypeOK'
    BY <1>1 DEF CreateInvitation
  <1>2. ASSUME TypeOK, NEW u \in Users, NEW i \in invites, JoinRoom(u, i)
        PROVE  TypeOK'
    <2>1. /\ i[1] \in InviteCodes /\ i[2] \in Rooms
          /\ JoinPoint(i[2], u) \in Nat
      BY <1>2 DEF JoinPoint
    <2>2. QED
      BY <1>2, <2>1 DEF JoinRoom
  <1>3. ASSUME TypeOK, NEW u \in Users, NEW i \in invites,
               RevokeInvitation(u, i)
        PROVE  TypeOK'
    BY <1>3 DEF RevokeInvitation
  <1>4. ASSUME TypeOK, NEW c \in InviteCodes, ExpireInvitation(c)
        PROVE  TypeOK'
    BY <1>4 DEF ExpireInvitation
  <1>5. QED
    BY <1>1, <1>2, <1>3, <1>4 DEF InvitationStep

LEMMA AccountStepType == TypeOK /\ AccountStep => TypeOK'
  <1> USE DEF TypeOK, roomVars, deviceVars, codeVars, receiptVars
  <1>1. ASSUME TypeOK, NEW u \in Users, DisableUser(u) PROVE TypeOK'
    BY <1>1 DEF DisableUser
  <1>2. ASSUME TypeOK, NEW u \in Users, EnableUser(u) PROVE TypeOK'
    BY <1>2 DEF EnableUser
  <1>3. QED
    BY <1>1, <1>2 DEF AccountStep

LEMMA StepType == TypeOK /\ [Next]_vars => TypeOK'
  <1>1. TypeOK /\ Next => TypeOK'
    BY RoomStepType, MessageStepType, DeviceStepType, InvitationStepType,
       AccountStepType DEF Next
  <1>2. TypeOK /\ UNCHANGED vars => TypeOK'
    BY DEF TypeOK, vars, roomVars, deviceVars, codeVars, receiptVars
  <1>3. QED
    BY <1>1, <1>2

-----------------------------------------------------------------------------
(* The rest of StoreInv                                                    *)

\* Invitations and accounts leave rooms, members, messages and receipts alone.
LEMMA QuietSteps ==
  InvitationStep \/ AccountStep =>
    UNCHANGED <<roomOwner, archived, deviceVars, members, messages, receiptVars>>
  <1> USE DEF roomVars, deviceVars, codeVars, receiptVars
  <1>1. InvitationStep =>
          UNCHANGED <<roomOwner, archived, deviceVars, members, messages, receiptVars>>
    BY DEF InvitationStep, CreateInvitation, JoinRoom, RevokeInvitation,
           ExpireInvitation
  <1>2. AccountStep =>
          UNCHANGED <<roomOwner, archived, deviceVars, members, messages, receiptVars>>
    BY DEF AccountStep, DisableUser, EnableUser
  <1>3. QED
    BY <1>1, <1>2

\* Messages do not concern who is in a room.
LEMMA MessageFrame ==
  MessageStep => UNCHANGED <<roomVars, deviceVars, codeVars, disabled, members>>
  BY DEF MessageStep, SendText, Acknowledge

\* Rooms and devices do not concern what was sent.
LEMMA RoomDeviceFrame ==
  RoomStep \/ DeviceStep => UNCHANGED <<messages, receipts, delivered, read>>
  <1>1. RoomStep => UNCHANGED <<messages, receipts, delivered, read>>
    BY ZenonT(60) DEF RoomStep, CreateRoom, ArchiveRoom, AddMember, RemoveMember,
           RemoveRoomUser, receiptVars
  <1>2. DeviceStep => UNCHANGED <<messages, receipts, delivered, read>>
    BY DEF DeviceStep, CreatePairing, ConsumePairing, RevokeDevice,
           ExpirePairing, receiptVars
  <1>3. QED
    BY <1>1, <1>2

LEMMA StepMembers == StoreInv /\ [Next]_vars => MembersCanReceive'
  <1> SUFFICES ASSUME TypeOK, MembersCanReceive, [Next]_vars
               PROVE  MembersCanReceive'
    BY DEF StoreInv
  <1> USE StoreAssumption DEF TypeOK, MembersCanReceive, RoomExists, Active
  <1>1. ASSUME RoomStep PROVE MembersCanReceive'
    <2> SUFFICES ASSUME NEW u \in Users, NEW r \in Rooms,
                        \/ CreateRoom(u, r)
                        \/ ArchiveRoom(u, r)
                        \/ \E d \in Devices : AddMember(u, r, d)
                        \/ \E d \in Devices : RemoveMember(u, r, d)
                        \/ \E v \in Users : RemoveRoomUser(u, r, v)
                 PROVE  MembersCanReceive'
      BY <1>1 DEF RoomStep
    <2> USE DEF roomVars, deviceVars
    <2>1. CASE CreateRoom(u, r)
      BY <2>1 DEF CreateRoom
    <2>2. CASE ArchiveRoom(u, r)
      BY <2>2 DEF ArchiveRoom
    <2>3. ASSUME NEW d \in Devices, AddMember(u, r, d)
          PROVE  MembersCanReceive'
      BY <2>3 DEF AddMember, RoomAllowed
    <2>4. ASSUME NEW d \in Devices, RemoveMember(u, r, d)
          PROVE  MembersCanReceive'
      BY <2>4 DEF RemoveMember
    <2>5. ASSUME NEW v \in Users, RemoveRoomUser(u, r, v)
          PROVE  MembersCanReceive'
      BY <2>5 DEF RemoveRoomUser
    <2>6. QED
      BY <2>1, <2>2, <2>3, <2>4, <2>5
  <1>2. ASSUME DeviceStep PROVE MembersCanReceive'
    <2> USE DEF roomVars, deviceVars
    <2>1. ASSUME NEW q \in pairings, NEW d \in Devices,
                 ConsumePairing(q[1], q[2], d)
          PROVE  MembersCanReceive'
      BY <2>1 DEF ConsumePairing
    <2>2. ASSUME NEW u \in Users, NEW d \in Devices, RevokeDevice(u, d)
          PROVE  MembersCanReceive'
      BY <2>2 DEF RevokeDevice
    <2>3. QED
      BY <1>2, <2>1, <2>2 DEF DeviceStep, CreatePairing, ExpirePairing
  <1>3. CASE MessageStep
    BY <1>3, MessageFrame DEF roomVars, deviceVars
  <1>4. CASE InvitationStep \/ AccountStep
    BY <1>4, QuietSteps DEF deviceVars
  <1>5. CASE UNCHANGED vars
    BY <1>5 DEF vars, roomVars, deviceVars
  <1>6. QED
    BY <1>1, <1>2, <1>3, <1>4, <1>5 DEF Next

LEMMA StepLiveReceipts == StoreInv /\ [Next]_vars => LiveReceiptsAreOfMembers'
  <1> SUFFICES ASSUME TypeOK, LiveReceiptsAreOfMembers, [Next]_vars,
                      NEW p \in (receipts \ withdrawn)'
               PROVE  (<<messages[p[1]].room, p[2]>> \in members)'
    BY DEF StoreInv, LiveReceiptsAreOfMembers
  <1> DEFINE Goal == (<<messages[p[1]].room, p[2]>> \in members)'
  <1>1. ASSUME RoomStep PROVE Goal
    <2> SUFFICES ASSUME NEW u \in Users, NEW r \in Rooms,
                        \/ CreateRoom(u, r)
                        \/ ArchiveRoom(u, r)
                        \/ \E d \in Devices : AddMember(u, r, d)
                        \/ \E d \in Devices : RemoveMember(u, r, d)
                        \/ \E v \in Users : RemoveRoomUser(u, r, v)
                 PROVE  Goal
      BY <1>1 DEF RoomStep
    <2>0. /\ p \in receipts /\ p[1] \in DOMAIN messages /\ p[2] \in Devices
          /\ messages[p[1]].room \in Rooms
          /\ messages' = messages
      <3>1. /\ p \in receipts /\ messages' = messages
            /\ messages \in Seq(Message) /\ receipts \subseteq (DOMAIN messages) \X Devices
        BY <1>1, RoomDeviceFrame DEF TypeOK
      <3>2. messages[p[1]] \in Message
        BY <3>1
      <3>3. QED
        BY <3>1, <3>2 DEF Message
    <2> USE DEF LiveReceiptsAreOfMembers, ReceiptsOf, receiptVars
    <2>1. CASE CreateRoom(u, r)
      BY <2>0, <2>1 DEF CreateRoom
    <2>2. CASE ArchiveRoom(u, r)
      BY <2>0, <2>2 DEF ArchiveRoom
    <2>3. ASSUME NEW d \in Devices, AddMember(u, r, d) PROVE Goal
      BY <2>0, <2>3 DEF AddMember
    <2>4. ASSUME NEW d \in Devices, RemoveMember(u, r, d) PROVE Goal
      BY <2>0, <2>4 DEF RemoveMember
    <2>5. ASSUME NEW v \in Users, RemoveRoomUser(u, r, v) PROVE Goal
      BY <2>0, <2>5 DEF RemoveRoomUser, DevicesOf
    <2>6. QED
      BY <2>1, <2>2, <2>3, <2>4, <2>5
  <1>2. ASSUME DeviceStep PROVE Goal
    <2>0. p \in receipts /\ messages' = messages /\ receipts' = receipts
      BY <1>2, RoomDeviceFrame
    <2>1. ASSUME NEW u \in Users, NEW d \in Devices, RevokeDevice(u, d)
          PROVE  Goal
      BY <2>0, <2>1 DEF RevokeDevice, LiveReceiptsAreOfMembers
    <2>2. QED
      BY <1>2, <2>0, <2>1
         DEF DeviceStep, CreatePairing, ConsumePairing, ExpirePairing,
             receiptVars, LiveReceiptsAreOfMembers
  <1>3. ASSUME MessageStep PROVE Goal
    <2>1. ASSUME NEW u \in Users, NEW r \in Rooms, NEW k \in Keys,
                 NEW t \in Texts, SendText(u, r, k, t)
          PROVE  Goal
      <3>0. /\ members' = members /\ withdrawn' = withdrawn
            /\ \A i \in DOMAIN messages : messages'[i] = messages[i]
            /\ messages'[Len(messages) + 1] = [room |-> r, key |-> k, text |-> t]
            /\ receipts' = receipts \cup ({Len(messages) + 1} \X Recipients(r))
        BY <2>1, SendAppends DEF SendText
      <3>1. CASE p \in receipts
        BY <3>0, <3>1 DEF LiveReceiptsAreOfMembers, TypeOK
      <3>2. CASE p \in {Len(messages) + 1} \X Recipients(r)
        BY <3>0, <3>2 DEF Recipients
      <3>3. QED
        BY <3>0, <3>1, <3>2
    <2>2. QED
      BY <1>3, <2>1 DEF MessageStep, Acknowledge, LiveReceiptsAreOfMembers
  <1>4. CASE InvitationStep \/ AccountStep
    BY <1>4, QuietSteps DEF LiveReceiptsAreOfMembers, receiptVars
  <1>5. CASE UNCHANGED vars
    BY <1>5 DEF vars, receiptVars, LiveReceiptsAreOfMembers
  <1>6. QED
    BY <1>1, <1>2, <1>3, <1>4, <1>5 DEF Next

LEMMA StepMessages ==
  StoreInv /\ [Next]_vars => MessagesAreOfRooms' /\ OneMessagePerRequest'
  <1> SUFFICES ASSUME StoreInv, [Next]_vars
               PROVE  MessagesAreOfRooms' /\ OneMessagePerRequest'
    OBVIOUS
  <1> USE DEF MessagesAreOfRooms, OneMessagePerRequest, RoomExists
  <1>0. /\ TypeOK /\ MessagesAreOfRooms /\ OneMessagePerRequest
        /\ \A i \in DOMAIN messages : messages[i] \in Message
    BY DEF StoreInv, TypeOK
  <1>1. ASSUME NEW u \in Users, NEW r \in Rooms, NEW k \in Keys,
               NEW t \in Texts, SendText(u, r, k, t)
        PROVE  MessagesAreOfRooms' /\ OneMessagePerRequest'
    <2>1. /\ roomOwner' = roomOwner /\ RoomExists(r)
          /\ \A i \in DOMAIN messages : ~(messages[i].room = r /\ messages[i].key = k)
      BY <1>1, SendIsAllowed DEF SendText, roomVars, RoomAllowed, SameRequest
    <2>2. /\ DOMAIN messages = 1..Len(messages)
          /\ DOMAIN messages' = 1..(Len(messages) + 1)
          /\ \A i \in DOMAIN messages : messages'[i] = messages[i]
          /\ messages'[Len(messages) + 1] = [room |-> r, key |-> k, text |-> t]
      BY <1>0, <1>1, SendAppends
    <2>3. Len(messages) \in Nat
      BY <1>0 DEF TypeOK
    <2>4. \A i \in DOMAIN messages' : i \in DOMAIN messages \/ i = Len(messages) + 1
      BY <2>2, <2>3
    <2>5. QED
      BY <1>0, <2>1, <2>2, <2>4
  <1>2. CASE \/ RoomStep \/ DeviceStep
    <2>1. messages' = messages
      BY <1>2, RoomDeviceFrame
    <2>2. \A r \in Rooms : RoomExists(r) => RoomExists(r)'
      <3>1. CASE RoomStep
        BY <3>1, <1>0, StoreAssumption, ZenonT(60)
           DEF RoomStep, CreateRoom, ArchiveRoom, AddMember, RemoveMember,
               RemoveRoomUser, roomVars, TypeOK
      <3>2. CASE DeviceStep
        BY <3>2 DEF DeviceStep, CreatePairing, ConsumePairing, RevokeDevice,
                    ExpirePairing, roomVars
      <3>3. QED
        BY <1>2, <3>1, <3>2
    <2>3. QED
      BY <1>0, <2>1, <2>2 DEF Message
  <1>3. CASE \/ InvitationStep \/ AccountStep \/ UNCHANGED vars
    BY <1>0, <1>3, QuietSteps DEF vars, roomVars
  <1>4. ASSUME NEW d \in Devices, NEW c \in 1..MaxCredentials,
               NEW i \in DOMAIN messages, NEW state \in {"received", "read"},
               Acknowledge(d, c, i, state)
        PROVE  MessagesAreOfRooms' /\ OneMessagePerRequest'
    BY <1>0, <1>4 DEF Acknowledge, roomVars
  <1>5. QED
    BY <1>1, <1>2, <1>3, <1>4 DEF Next, MessageStep

THEOREM StoreInvariant == Spec => []StoreInv
  <1>1. StoreInv /\ [Next]_vars => StoreInv'
    BY StepType, StepMembers, StepLiveReceipts, StepMessages DEF StoreInv
  <1>2. QED
    BY InitStoreInv, <1>1, PTL DEF Spec

-----------------------------------------------------------------------------
(* Safety                                                                  *)

\* Types, for every size of the tables: the code's foreign keys never dangle.
THEOREM TypeCorrect == Spec => []TypeOK
  BY StoreInvariant, PTL DEF StoreInv

\* Every operation that takes a membership away withdraws its receipts too.
THEOREM LiveReceipts == Spec => []LiveReceiptsAreOfMembers
  BY StoreInvariant, PTL DEF StoreInv

\* One row per room and request key.
THEOREM OneMessage == Spec => []OneMessagePerRequest
  BY StoreInvariant, PTL DEF StoreInv

LEMMA InboxesAreComplete == StoreInv => NothingStranded
  <1> SUFFICES ASSUME StoreInv, NEW p \in receipts \ (withdrawn \cup delivered),
                      devOwner[p[2]] \notin disabled
               PROVE  p[1] \in Pending(p[2], credential[p[2]])
    BY DEF NothingStranded
  <1>1. /\ p[1] \in DOMAIN messages /\ p[2] \in Devices /\ p = <<p[1], p[2]>>
        /\ <<messages[p[1]].room, p[2]>> \in members
    BY DEF StoreInv, TypeOK, LiveReceiptsAreOfMembers
  <1>2. messages[p[1]].room \notin archived /\ Active(p[2])
    BY <1>1 DEF StoreInv, MembersCanReceive
  <1>3. QED
    BY <1>1, <1>2 DEF Pending, Open, Authenticated

\* The joins of Pending lose no receipt: they repeat what StoreInv says of it.
THEOREM NoMessageStranded == Spec => []NothingStranded
  BY InboxesAreComplete, StoreInvariant, PTL

\* The answer to a retry depends on the stored message and on what the user
\* sees now, not on the members, the archive or the limits of the moment: whoever
\* sees the message may use its room.
THEOREM RetrySafe == Spec => []RetryReturnsOriginal
  <1>1. StoreInv => RetryReturnsOriginal
    <2> SUFFICES ASSUME StoreInv, NEW u \in Users, NEW i \in DOMAIN messages,
                        NEW t \in Texts
                 PROVE  SendReply(u, messages[i].room, messages[i].key, t)
                          = IF ~Visible(u, i) THEN "not_found"
                            ELSE IF t = messages[i].text THEN "original"
                            ELSE "conflict"
      BY DEF RetryReturnsOriginal
    <2>1. SameRequest(messages[i].room, messages[i].key) = {i}
      BY DEF StoreInv, OneMessagePerRequest, SameRequest
    <2>2. ASSUME Visible(u, i) PROVE RoomAllowed(u, messages[i].room, FALSE)
      BY <2>2 DEF StoreInv, MessagesAreOfRooms, RoomAllowed, Visible
    <2>3. QED
      BY <2>1, <2>2 DEF SendReply
  <1>2. QED
    BY <1>1, StoreInvariant, PTL

\* A step under the invariant keeps every withdrawn receipt as it is.
THEOREM WithdrawalIsFinal == Spec => WithdrawnIsFinal
  <1>1. StoreInv /\ [Next]_vars =>
          [\A p \in withdrawn : /\ p \in withdrawn'
                                /\ p \in delivered' <=> p \in delivered
                                /\ p \in read' <=> p \in read]_vars
    <2> SUFFICES ASSUME StoreInv, Next, NEW p \in withdrawn
                 PROVE  /\ p \in withdrawn'
                        /\ p \in delivered' <=> p \in delivered
                        /\ p \in read' <=> p \in read
      OBVIOUS
    <2>1. CASE RoomStep \/ DeviceStep
      <3>1. delivered' = delivered /\ read' = read
        BY <2>1, RoomDeviceFrame
      <3>2. CASE RoomStep
        BY <3>2, ZenonT(60) DEF RoomStep, CreateRoom, ArchiveRoom, AddMember, RemoveMember,
                    RemoveRoomUser, receiptVars
      <3>3. CASE DeviceStep
        BY <3>3 DEF DeviceStep, CreatePairing, ConsumePairing, RevokeDevice,
                    ExpirePairing, receiptVars
      <3>4. QED
        BY <2>1, <3>1, <3>2, <3>3
    <2>2. CASE InvitationStep \/ AccountStep
      BY <2>2, QuietSteps DEF receiptVars
    <2>3. CASE MessageStep
      BY <2>3 DEF MessageStep, SendText, Acknowledge, Open
    <2>4. QED
      BY <2>1, <2>2, <2>3 DEF Next
  <1>2. QED
    BY <1>1, StoreInvariant, PTL DEF Spec, WithdrawnIsFinal

\* The recipients of a message are those of the moment it was stored.
THEOREM RecipientsFixed == Spec => RecipientsAreFixed
  <1>1. StoreInv /\ [Next]_vars =>
          [\A p \in receipts' \ receipts : p[1] \notin DOMAIN messages]_vars
    <2> SUFFICES ASSUME StoreInv, Next, NEW p \in receipts' \ receipts
                 PROVE  p[1] \notin DOMAIN messages
      OBVIOUS
    <2>1. ~(RoomStep \/ DeviceStep \/ InvitationStep \/ AccountStep)
      BY RoomDeviceFrame, QuietSteps DEF receiptVars
    <2>2. ASSUME NEW u \in Users, NEW r \in Rooms, NEW k \in Keys,
                 NEW t \in Texts, SendText(u, r, k, t)
          PROVE  p[1] \notin DOMAIN messages
      <3>1. p \in {Len(messages) + 1} \X Recipients(r)
        BY <2>2 DEF SendText, Snapshot
      <3>2. DOMAIN messages = 1..Len(messages) /\ Len(messages) \in Nat
        BY DEF StoreInv, TypeOK
      <3>3. QED
        BY <3>1, <3>2
    <2>3. QED
      BY <2>1, <2>2 DEF Next, MessageStep, Acknowledge
  <1>2. QED
    BY <1>1, StoreInvariant, PTL DEF Spec, RecipientsAreFixed

\* A new credential never inherits a membership or an open message.
THEOREM FreshCredential == Spec => NewCredentialStartsClean
  <1>1. StoreInv /\ [Next]_vars =>
          [\A d \in Devices : credential'[d] # credential[d] =>
             /\ \A p \in members' : p[2] # d
             /\ \A p \in receipts' : p[2] = d => p \in withdrawn'
             /\ devOwner[d] \in {Nobody, devOwner'[d]}]_vars
    <2> SUFFICES ASSUME StoreInv, Next, NEW d \in Devices,
                        credential'[d] # credential[d]
                 PROVE  /\ \A p \in members' : p[2] # d
                        /\ \A p \in receipts' : p[2] = d => p \in withdrawn'
                        /\ devOwner[d] \in {Nobody, devOwner'[d]}
      OBVIOUS
    <2>1. DeviceStep
      <3>1. ~MessageStep /\ ~InvitationStep /\ ~AccountStep
        BY MessageFrame, QuietSteps DEF deviceVars
      <3>2. ~RoomStep
        BY ZenonT(60) DEF RoomStep, CreateRoom, ArchiveRoom, AddMember, RemoveMember,
               RemoveRoomUser, deviceVars
      <3>3. QED
        BY <3>1, <3>2 DEF Next
    <2>2. PICK q \in pairings, e \in Devices : ConsumePairing(q[1], q[2], e)
      BY <2>1 DEF DeviceStep, CreatePairing, RevokeDevice, ExpirePairing,
                  deviceVars
    <2>3. /\ e = d /\ MayPair(q[2], d) /\ q[2] \in Users
          /\ devOwner'[d] = q[2]
          /\ UNCHANGED <<members, receipts, withdrawn, messages>>
      BY <2>2 DEF StoreInv, TypeOK, ConsumePairing, receiptVars
    <2>4. ~Active(d) /\ devOwner[d] \in {Nobody, q[2]}
      BY <2>3 DEF MayPair, Active
    <2>5. \A p \in members : p[2] # d
      BY <2>4 DEF StoreInv, MembersCanReceive
    <2>6. \A p \in receipts : p[2] = d => p \in withdrawn
      <3> SUFFICES ASSUME NEW p \in receipts, p[2] = d, p \notin withdrawn
                   PROVE  FALSE
        OBVIOUS
      <3>1. <<messages[p[1]].room, d>> \in members
        BY DEF StoreInv, LiveReceiptsAreOfMembers
      <3>2. QED
        BY <3>1, <2>5
    <2>7. QED
      BY <2>3, <2>4, <2>5, <2>6
  <1>2. QED
    BY <1>1, StoreInvariant, PTL DEF Spec, NewCredentialStartsClean

\* Joining starts after the newest message and no other step gives a user
\* anything, so the visible part of what is already stored never grows.
THEOREM HistoryStaysClosed == Spec => HistoryNeverOpensBackwards
  <1>1. StoreInv /\ [Next]_vars =>
          [\A u \in Users, i \in DOMAIN messages : Visible(u, i)' => Visible(u, i)]_vars
    <2> SUFFICES ASSUME StoreInv, Next, NEW v \in Users, NEW i \in DOMAIN messages,
                        Visible(v, i)'
                 PROVE  Visible(v, i)
      OBVIOUS
    <2>0. /\ messages[i].room \in Rooms /\ RoomExists(messages[i].room)
          /\ DOMAIN messages = 1..Len(messages) /\ Len(messages) \in Nat
          /\ i \in Nat /\ i <= Len(messages)
      <3>1. messages[i] \in Message
        BY DEF StoreInv, TypeOK
      <3>2. DOMAIN messages = 1..Len(messages) /\ Len(messages) \in Nat
        BY DEF StoreInv, TypeOK
      <3>3. QED
        BY <3>1, <3>2 DEF StoreInv, MessagesAreOfRooms, Message
    <2>1. messages'[i] = messages[i]
      <3>1. ASSUME NEW u \in Users, NEW r \in Rooms, NEW k \in Keys,
                   NEW t \in Texts, SendText(u, r, k, t)
            PROVE  messages'[i] = messages[i]
        BY <3>1, SendAppends DEF StoreInv
      <3>2. QED
        BY <3>1, RoomDeviceFrame, QuietSteps DEF Next, MessageStep, Acknowledge
    <2> USE DEF Visible
    <2>2. CASE MessageStep
      BY <2>1, <2>2, MessageFrame DEF roomVars
    <2>3. CASE DeviceStep \/ AccountStep
      <3>1. UNCHANGED roomVars
        BY <2>3 DEF DeviceStep, CreatePairing, ConsumePairing, RevokeDevice,
                    ExpirePairing, AccountStep, DisableUser, EnableUser
      <3>2. QED
        BY <2>1, <3>1 DEF roomVars
    <2>4. ASSUME NEW u \in Users, NEW j \in invites, JoinRoom(u, j)
          PROVE  Visible(v, i)
      <3>1. j[2] \in Rooms /\ since \in [Rooms \X Users -> Nat]
        BY DEF StoreInv, TypeOK
      <3>2. /\ roomOwner' = roomOwner
            /\ roomUsers' = roomUsers \cup {<<j[2], u>>}
            /\ since' = [since EXCEPT ![<<j[2], u>>] = JoinPoint(j[2], u)]
        BY <2>4 DEF JoinRoom
      <3>3. CASE messages[i].room = j[2] /\ v = u
        BY <2>0, <2>1, <3>1, <3>2, <3>3 DEF JoinPoint
      <3>4. CASE ~(messages[i].room = j[2] /\ v = u)
        BY <2>0, <2>1, <3>1, <3>2, <3>4
      <3>5. QED
        BY <3>3, <3>4
    <2>5. CASE InvitationStep
      <3>1. CASE \E u \in Users, j \in invites : JoinRoom(u, j)
        BY <2>4, <3>1
      <3>2. CASE ~ \E u \in Users, j \in invites : JoinRoom(u, j)
        <4>1. UNCHANGED roomVars
          BY <2>5, <3>2 DEF InvitationStep, CreateInvitation, RevokeInvitation,
                            ExpireInvitation
        <4>2. QED
          BY <2>1, <4>1 DEF roomVars
      <3>3. QED
        BY <3>1, <3>2
    <2>6. ASSUME NEW u \in Users, NEW r \in Rooms, CreateRoom(u, r)
          PROVE  Visible(v, i)
      BY <2>0, <2>1, <2>6, StoreAssumption DEF CreateRoom, StoreInv, TypeOK
    <2>7. ASSUME NEW a \in Users, NEW r \in Rooms, NEW u \in Users,
                 RemoveRoomUser(a, r, u)
          PROVE  Visible(v, i)
      <3>1. /\ since \in [Rooms \X Users -> Nat]
            /\ roomOwner' = roomOwner /\ roomUsers' = roomUsers \ {<<r, u>>}
            /\ since' = [since EXCEPT ![<<r, u>>] = 0]
        BY <2>7 DEF RemoveRoomUser, StoreInv, TypeOK
      <3>2. QED
        BY <2>0, <2>1, <3>1
    <2>8. CASE RoomStep
      BY <2>1, <2>6, <2>7, <2>8
         DEF RoomStep, ArchiveRoom, AddMember, RemoveMember, roomVars
    <2>9. QED
      BY <2>2, <2>3, <2>5, <2>8 DEF Next
  <1>2. QED
    BY <1>1, StoreInvariant, PTL DEF Spec, HistoryNeverOpensBackwards

\* Only RemoveRoomUser ends a participation, and it clears the user's devices.
THEOREM LeavingIsComplete == Spec => LeavingTakesDevicesAlong
  <1>1. StoreInv /\ [Next]_vars =>
          [\A u \in Users, r \in Rooms :
             Participates(u, r) /\ ~Participates(u, r)' =>
               \A d \in Devices : devOwner[d] = u =>
                 /\ <<r, d>> \notin members'
                 /\ \A p \in receipts : p[2] = d /\ messages[p[1]].room = r
                                          => p \in withdrawn']_vars
    <2> SUFFICES ASSUME StoreInv, Next, NEW u \in Users, NEW r \in Rooms,
                        Participates(u, r), ~Participates(u, r)',
                        NEW d \in Devices, devOwner[d] = u
                 PROVE  /\ <<r, d>> \notin members'
                        /\ \A p \in receipts : p[2] = d /\ messages[p[1]].room = r
                                                 => p \in withdrawn'
      OBVIOUS
    <2> USE DEF Participates
    <2>1. RoomStep
      <3>1. ~MessageStep
        BY MessageFrame DEF roomVars
      <3>2. ~DeviceStep /\ ~AccountStep
        BY DEF DeviceStep, CreatePairing, ConsumePairing, RevokeDevice,
               ExpirePairing, AccountStep, DisableUser, EnableUser, roomVars
      <3>3. ~InvitationStep
        BY DEF InvitationStep, CreateInvitation, JoinRoom, RevokeInvitation,
               ExpireInvitation, roomVars
      <3>4. QED
        BY <3>1, <3>2, <3>3 DEF Next
    <2>2. ~ \E a \in Users, x \in Rooms : CreateRoom(a, x)
      BY StoreAssumption DEF CreateRoom, RoomExists, StoreInv, TypeOK
    <2>3. PICK a \in Users, x \in Rooms, v \in Users : RemoveRoomUser(a, x, v)
      BY <2>1, <2>2 DEF RoomStep, ArchiveRoom, AddMember, RemoveMember, roomVars
    <2>4. x = r /\ v = u
      BY <2>3 DEF RemoveRoomUser
    <2>5. QED
      BY <2>3, <2>4 DEF RemoveRoomUser, ReceiptsOf, DevicesOf
  <1>2. QED
    BY <1>1, StoreInvariant, PTL DEF Spec, LeavingTakesDevicesAlong

\* A disabled owner's devices cannot authenticate and their codes are refused.
THEOREM DisabledIsSilent == Spec => DisabledDevicesAreSilent
  <1>1. StoreInv /\ [Next]_vars =>
          [\A d \in Devices : devOwner[d] \in disabled =>
             /\ credential'[d] = credential[d]
             /\ \A p \in delivered' \ delivered : p[2] # d
             /\ \A p \in read' \ read : p[2] # d]_vars
    <2> SUFFICES ASSUME StoreInv, Next, NEW d \in Devices, devOwner[d] \in disabled
                 PROVE  /\ credential'[d] = credential[d]
                        /\ \A p \in delivered' \ delivered : p[2] # d
                        /\ \A p \in read' \ read : p[2] # d
      OBVIOUS
    <2>1. CASE MessageStep
      <3>1. credential' = credential
        BY <2>1, MessageFrame DEF deviceVars
      <3>2. ASSUME NEW e \in Devices, NEW c \in 1..MaxCredentials,
                   NEW i \in DOMAIN messages, NEW state \in {"received", "read"},
                   Acknowledge(e, c, i, state)
            PROVE  /\ \A p \in delivered' \ delivered : p[2] # d
                   /\ \A p \in read' \ read : p[2] # d
        <4>1. e # d
          BY <3>2 DEF Acknowledge, Open, Authenticated
        <4>2. QED
          BY <3>2, <4>1 DEF Acknowledge
      <3>3. QED
        BY <2>1, <3>1, <3>2 DEF MessageStep, SendText
    <2>2. CASE RoomStep
      BY <2>2, RoomDeviceFrame, ZenonT(60)
         DEF RoomStep, CreateRoom, ArchiveRoom, AddMember, RemoveMember,
             RemoveRoomUser, deviceVars
    <2>3. ASSUME NEW q \in pairings, NEW e \in Devices,
                 ConsumePairing(q[1], q[2], e)
          PROVE  credential'[d] = credential[d]
      <3>1. e # d
        BY <2>3, StoreAssumption DEF ConsumePairing, MayPair, StoreInv, TypeOK
      <3>2. QED
        BY <2>3, <3>1 DEF ConsumePairing, StoreInv, TypeOK
    <2>4. CASE DeviceStep
      BY <2>3, <2>4, RoomDeviceFrame
         DEF DeviceStep, CreatePairing, RevokeDevice, ExpirePairing, deviceVars
    <2>5. CASE InvitationStep \/ AccountStep
      BY <2>5, QuietSteps DEF deviceVars, receiptVars
    <2>6. QED
      BY <2>1, <2>2, <2>4, <2>5 DEF Next
  <1>2. QED
    BY <1>1, StoreInvariant, PTL DEF Spec, DisabledDevicesAreSilent


\* The limit of active devices is never passed, for any limit and any number of
\* serial numbers, though most of them may have been paired and revoked before.
THEOREM ActiveDevicesAreBounded == Spec => []ActiveDevicesBounded
  <1> DEFINE Paired == {d \in Devices : Active(d)}
             Few == IsFiniteSet(Paired) /\ Cardinality(Paired) <= ActiveLimit
  <1>1. Init => Few
    <2>1. Init => Paired = {}
      BY DEF Init, Active
    <2>2. QED
      BY <2>1, FS_EmptySet, StoreAssumption
  <1>2. ASSUME TypeOK, Few, [Next]_vars PROVE Few'
    <2>1. ASSUME Paired' \subseteq Paired PROVE Few'
      BY <1>2, <2>1, FS_Subset, FS_CardinalityType, StoreAssumption
    <2>2. ASSUME NEW q \in pairings, NEW d \in Devices, ConsumePairing(q[1], q[2], d)
          PROVE  Few'
      <3>1. Cardinality(Paired) < ActiveLimit
        BY <2>2 DEF ConsumePairing, RoomForDevice
      <3>2. Paired' \subseteq Paired \cup {d}
        BY <1>2, <2>2 DEF ConsumePairing, TypeOK, Active
      <3>3. /\ IsFiniteSet(Paired \cup {d})
            /\ Cardinality(Paired \cup {d}) \in {Cardinality(Paired), Cardinality(Paired) + 1}
        BY <1>2, FS_AddElement
      <3>4. /\ IsFiniteSet(Paired')
            /\ Cardinality(Paired') <= Cardinality(Paired \cup {d})
        BY <3>2, <3>3, FS_Subset
      <3>5. /\ Cardinality(Paired) \in Nat /\ Cardinality(Paired') \in Nat
            /\ Cardinality(Paired \cup {d}) \in Nat
        BY <1>2, <3>3, <3>4, FS_CardinalityType
      <3>6. QED
        BY <3>1, <3>3, <3>4, <3>5, StoreAssumption
    <2>3. ASSUME NEW u \in Users, NEW d \in Devices, RevokeDevice(u, d)
          PROVE  Paired' \subseteq Paired
      BY <2>3 DEF RevokeDevice, Active
    <2>4. ASSUME UNCHANGED <<devOwner, revoked>> PROVE Paired' \subseteq Paired
      BY <2>4 DEF Active
    <2>5. RoomStep \/ MessageStep \/ InvitationStep \/ AccountStep \/ UNCHANGED vars
            => UNCHANGED <<devOwner, revoked>>
      BY MessageFrame, QuietSteps, ZenonT(60)
         DEF RoomStep, CreateRoom, ArchiveRoom, AddMember, RemoveMember,
             RemoveRoomUser, deviceVars, vars
    <2>6. (\E u \in Users, p \in PairingCodes : CreatePairing(u, p))
            \/ (\E q \in pairings : ExpirePairing(q[1], q[2]))
            => UNCHANGED <<devOwner, revoked>>
      BY DEF CreatePairing, ExpirePairing, deviceVars
    <2>7. QED
      BY <1>2, <2>1, <2>2, <2>3, <2>4, <2>5, <2>6 DEF Next, DeviceStep
  <1>3. Few => ActiveDevicesBounded
    BY DEF ActiveDevicesBounded
  <1>4. QED
    BY <1>1, <1>2, <1>3, TypeCorrect, PTL DEF Spec
=============================================================================
