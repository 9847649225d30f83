-------------------------- MODULE DeviceLinkProofs --------------------------
(***************************************************************************)
(* Theorems about DeviceLink for every number of messages, credentials and *)
(* late requests, and everything other users do to the relay meanwhile.    *)
(* LinkInv is inductive: a step of the device leaves the relay alone and a *)
(* step of the relay leaves the device's memory alone, so each part is     *)
(* proved once for either side.                                            *)
(***************************************************************************)
EXTENDS DeviceLink, RelayStoreProofs, FiniteSetTheorems, WellFoundedInduction

-----------------------------------------------------------------------------
(* The inbox blob                                                          *)

Valid(s) == /\ s \in State
            /\ s.id = 0 <=> s.receipt = "empty"

LEMMA AcceptedBlob ==
  ASSUME NEW s, Valid(s), NEW i \in 1..MessageLimit
  PROVE  /\ Valid(Accepted(s, i))
         /\ Accepted(s, i).cred = s.cred /\ Accepted(s, i).id = i
         /\ Accepted(s, i).receipt = "received_pending"
  BY StoreAssumption DEF Valid, State, Accepted

LEMMA ReadBlob ==
  ASSUME NEW s, Valid(s), s.id # 0
  PROVE  /\ Valid(Read(s))
         /\ Read(s).cred = s.cred /\ Read(s).id = s.id
         /\ Read(s).receipt = "read_pending"
  BY StoreAssumption DEF Valid, State, Read

LEMMA AcknowledgedBlob ==
  ASSUME NEW s, Valid(s), s.id # 0
  PROVE  /\ Valid(Acknowledged(s))
         /\ Acknowledged(s).cred = s.cred
         /\ Acknowledged(s).id = IF s.receipt = "read_pending" THEN 0 ELSE s.id
         /\ Acknowledged(s).receipt # "read_pending"
  BY StoreAssumption DEF Valid, State, Acknowledged, Cleared

LEMMA PairedBlob ==
  ASSUME NEW c \in 0..MaxCredentials
  PROVE  /\ Valid([Unpaired EXCEPT !.cred = c])
         /\ [Unpaired EXCEPT !.cred = c].cred = c
         /\ [Unpaired EXCEPT !.cred = c].id = 0
  BY StoreAssumption DEF Valid, State, Unpaired

LEMMA ReceiptIs ==
  ASSUME NEW s, Valid(s), s.id # 0, s.cred # 0
  PROVE  /\ Receipt(s) \in Request
         /\ Receipt(s).kind = "ack" /\ Receipt(s).cred = s.cred
         /\ Receipt(s).id = s.id
         /\ Receipt(s).state \in {"received", "read"}
         /\ Receipt(s).state = "read" <=> s.receipt = "read_pending"
  BY StoreAssumption DEF Valid, State, Receipt, Request

-----------------------------------------------------------------------------
(* What the invariant says in the forms the steps use                      *)

LEMMA Types ==
  ASSUME LinkInv
  PROVE  /\ StoreInv /\ TypeOK
         /\ Valid(flash) /\ Valid(saved)
         /\ messages \in Seq(Message) /\ Len(messages) \in Nat
         /\ DOMAIN messages = 1..Len(messages) /\ Len(messages) <= MessageLimit
         /\ credential[Me] \in 0..MaxCredentials
         /\ MessageLimit \in Nat /\ MaxCredentials \in Nat /\ Me \in Devices
  <1>1. MessageLimit \in Nat /\ MaxCredentials \in Nat /\ Me \in Devices
    BY StoreAssumption, LinkAssumption
  <1>2. Valid(flash) /\ Valid(saved)
    BY DEF LinkInv, LinkTypeOK, Valid
  <1>3. QED
    BY <1>1, <1>2, SMTT(30) DEF LinkInv, StoreInv, TypeOK

LEMMA RepliesAre ==
  ASSUME LinkInv
  PROVE  /\ reply.status \in {0, 200, 401} /\ reply.value \in Nat
         /\ reply = NoReply <=> reply.status = 0
  BY StoreAssumption
     DEF LinkInv, LinkTypeOK, Answers, Answer, Denied, NoReply

\* The kinds of exchange the worker may be in.
LEMMA RequestsAre ==
  ASSUME LinkInv
  PROVE  /\ request.kind \in {"idle", "me", "inbox", "ack", "pair"}
         /\ request.kind = "idle" <=> request = Idle
         /\ request.kind = "inbox" =>
              saved.id = 0 /\ request = [kind |-> "inbox", cred |-> saved.cred]
         /\ request.kind = "ack" =>
              saved.id # 0 /\ saved.cred # 0 /\ request = Receipt(saved)
         /\ request.kind = "pair" => request.code \in PairingCodes
         /\ request.kind \in {"me", "inbox", "ack"} => request.cred = saved.cred
  BY ReceiptIs, Types
     DEF LinkInv, RequestFollowsSaved, Idle, CopiesAgree

-----------------------------------------------------------------------------
(* A step of the composition is a step of the store or leaves it alone     *)

\* A served request is one of the store's operations.
LEMMA ExecuteIsStoreStep ==
  ASSUME StoreInv, NEW q \in Request, NEW a, Execute(q, a)
  PROVE  [Next]_vars
  <1>1. Me \in Devices /\ TypeOK
    BY LinkAssumption DEF StoreInv
  <1>2. ASSUME q.kind = "ack", Acknowledge(Me, q.cred, q.id, q.state)
        PROVE  Next
    <2>1. q.cred \in 1..MaxCredentials /\ q.state \in {"received", "read"}
      BY <1>2 DEF Request
    <2>2. q.id \in DOMAIN messages
      BY <1>1, <1>2 DEF Acknowledge, Open, TypeOK
    <2>3. QED
      BY <1>1, <1>2, <2>1, <2>2 DEF Next, MessageStep
  <1>3. ASSUME NEW u \in Users, ConsumePairing(q.code, u, Me)
        PROVE  Next
    <2>1. <<q.code, u>> \in pairings
      BY <1>3 DEF ConsumePairing
    <2>2. QED
      BY <1>1, <1>3, <2>1 DEF Next, DeviceStep
  <1>4. QED
    BY <1>2, <1>3 DEF Execute

LEMMA ServedRequests ==
  ASSUME LinkInv
  PROVE  late \cup ({request} \ {Idle}) \subseteq Request
  BY DEF LinkInv, LinkTypeOK

LEMMA DeviceFrame == Device => UNCHANGED vars
  BY DEF Device, Poll, GiveUp, Restart, PressOk, DropOk, Configure, HandleReply,
         HandleOk, Submit

LEMMA LinkStepIsStoreStep == LinkInv /\ [LinkNext]_allVars => [Next]_vars
  <1> SUFFICES ASSUME LinkInv, [LinkNext]_allVars PROVE [Next]_vars
    OBVIOUS
  <1>1. StoreInv
    BY DEF LinkInv
  <1>2. CASE Serve
    BY <1>1, <1>2, ServedRequests, ExecuteIsStoreStep DEF Serve
  <1>3. CASE ServeLate
    BY <1>1, <1>3, ServedRequests, ExecuteIsStoreStep DEF ServeLate
  <1>4. CASE Others
    BY <1>4 DEF Others
  <1>5. CASE Device
    BY <1>5, DeviceFrame
  <1>6. CASE UNCHANGED allVars
    BY <1>6 DEF allVars
  <1>7. QED
    BY <1>2, <1>3, <1>4, <1>5, <1>6 DEF LinkNext

\* The store's tables only grow, and a new receipt is of a new message.
LEMMA StoreGrows ==
  ASSUME StoreInv, [Next]_vars, Len(messages) <= MessageLimit
  PROVE  /\ receipts \subseteq receipts' /\ delivered \subseteq delivered'
         /\ read \subseteq read' /\ withdrawn \subseteq withdrawn'
         /\ Len(messages) <= Len(messages')
         /\ Len(messages') <= MessageLimit
         /\ \A p \in receipts' \ receipts : p[1] > Len(messages)
  <1> USE DEF receiptVars
  <1>0. TypeOK /\ Len(messages) \in Nat
    BY DEF StoreInv, TypeOK
  <1>1. ASSUME NEW u \in Users, NEW r \in Rooms, NEW k \in Keys,
               NEW t \in Texts, SendText(u, r, k, t)
        PROVE  /\ receipts \subseteq receipts'
               /\ UNCHANGED <<delivered, read, withdrawn>>
               /\ Len(messages) <= Len(messages')
               /\ Len(messages') <= MessageLimit
               /\ \A p \in receipts' \ receipts : p[1] > Len(messages)
    <2>1. /\ Len(messages') = Len(messages) + 1
          /\ receipts' = receipts \cup ({Len(messages) + 1} \X Recipients(r))
      BY <1>0, <1>1, SendAppends
    <2>2. ~(Len(messages) >= MessageLimit)
      <3>1. SendReply(u, r, k, t) = "sent"
        BY <1>1 DEF SendText
      <3>2. QED
        BY <3>1, Zenon DEF SendReply
    <2>3. MessageLimit \in Nat
      BY StoreAssumption
    <2>4. QED
      BY <1>0, <1>1, <2>1, <2>2, <2>3 DEF SendText
  <1>2. CASE MessageStep
    BY <1>0, <1>1, <1>2 DEF MessageStep, Acknowledge
  <1>3. CASE RoomStep
    <2>1. UNCHANGED <<messages, receipts, delivered, read>>
      BY <1>3, RoomDeviceFrame
    <2>2. withdrawn \subseteq withdrawn'
      BY <1>3, ZenonT(60) DEF RoomStep, CreateRoom, ArchiveRoom, AddMember, RemoveMember,
                  RemoveRoomUser
    <2>3. QED
      BY <1>0, <2>1, <2>2
  <1>4. CASE DeviceStep
    <2>1. UNCHANGED <<messages, receipts, delivered, read>>
      BY <1>4, RoomDeviceFrame
    <2>2. withdrawn \subseteq withdrawn'
      BY <1>4 DEF DeviceStep, CreatePairing, ConsumePairing, RevokeDevice,
                  ExpirePairing
    <2>3. QED
      BY <1>0, <2>1, <2>2
  <1>5. CASE InvitationStep \/ AccountStep
    BY <1>0, <1>5, QuietSteps
  <1>6. CASE UNCHANGED vars
    BY <1>0, <1>6 DEF vars
  <1>7. QED
    BY <1>2, <1>3, <1>4, <1>5, <1>6 DEF Next

-----------------------------------------------------------------------------
(* Steps of the device                                                     *)

LinkRest ==
  /\ LinkTypeOK /\ RequestFollowsSaved /\ CredentialsIssued /\ ReplyFits
  /\ CopiesAgree /\ HeldIsKept

LEMMA StoreStill ==
  ASSUME UNCHANGED vars
  PROVE  UNCHANGED <<messages, receipts, delivered, read, withdrawn, credential,
                     devOwner, revoked, disabled, members, archived, pairings>>
  BY DEF vars, roomVars, deviceVars, codeVars, receiptVars

\* The steps that leave flash, RAM and the network alone.
LEMMA CommandsKeep ==
  ASSUME LinkInv, PressOk \/ DropOk \/ \E c \in PairingCodes \cup {"wifi"} : Submit(c)
  PROVE  LinkRest'
  <1>1. UNCHANGED <<vars, memory, net>>
    BY DEF PressOk, DropOk, Submit
  <1>2. UNCHANGED <<messages, receipts, delivered, read, withdrawn, credential,
                    flash, saved, request, reply, late>>
    BY <1>1, StoreStill DEF memory, net
  <1>3. LinkTypeOK /\ MessageLimit \in Nat
    BY StoreAssumption DEF LinkInv
  <1> USE DEF LinkTypeOK
  <1> DEFINE Goal == LinkTypeOK' /\ (command = "wifi" => saved.cred # 0)'
  <1>4. ASSUME PressOk PROVE Goal
    <2>1. view' = view /\ confirmed' \subseteq 1..MessageLimit
      BY <1>3, <1>4 DEF PressOk
    <2>2. LinkTypeOK'
      BY <1>2, <1>3, <1>4, <2>1 DEF PressOk
    <2>3. (command = "wifi" => saved.cred # 0)'
      BY <1>4 DEF PressOk
    <2>4. QED
      BY <2>2, <2>3
  <1>5. ASSUME DropOk PROVE Goal
    <2>1. LinkTypeOK'
      BY <1>2, <1>3, <1>5 DEF DropOk
    <2>2. (command = "wifi" => saved.cred # 0)'
      BY <1>5 DEF DropOk
    <2>3. QED
      BY <2>1, <2>2
  <1>6. ASSUME NEW c \in PairingCodes \cup {"wifi"}, Submit(c)
        PROVE  Goal
    <2>1. LinkTypeOK'
      BY <1>2, <1>3, <1>6 DEF Submit
    <2>2. QED
      BY <1>2, <1>6, <2>1, LinkAssumption DEF Submit
  <1>7. QED
    BY <1>2, <1>4, <1>5, <1>6
       DEF LinkInv, LinkRest, RequestFollowsSaved, CredentialsIssued, ReplyFits,
           CopiesAgree, HeldIsKept, Settled, NoneBefore

LEMMA PollKeeps == ASSUME LinkInv, Poll PROVE LinkRest'
  <1>1. /\ UNCHANGED <<messages, receipts, delivered, read, withdrawn, credential,
                       flash, saved, reply, late, view, busy, command, confirmed>>
        /\ request = Idle /\ saved.cred # 0
        /\ request' = NextRequest(saved) /\ request' # Idle
    BY StoreStill DEF Poll, memory, ui
  <1>2. \/ saved.id = 0 /\ request' = [kind |-> "inbox", cred |-> saved.cred]
        \/ saved.id # 0 /\ request' = Receipt(saved)
    BY <1>1 DEF NextRequest
  <1>3. request' \in Request
    <2>1. saved.cred \in 1..MaxCredentials
      BY <1>1, Types DEF Valid, State
    <2>2. QED
      BY <1>1, <1>2, <2>1, Types, ReceiptIs DEF Request
  <1>4. reply.status = 0
    BY <1>1, RepliesAre DEF LinkInv, ReplyFits
  <1>5. LinkTypeOK'
    BY <1>1, <1>3 DEF LinkInv, LinkTypeOK
  <1>6. RequestFollowsSaved'
    BY <1>1, <1>2 DEF LinkInv, RequestFollowsSaved
  <1>7. CredentialsIssued' /\ ReplyFits'
    BY <1>1, <1>4, RepliesAre DEF LinkInv, CredentialsIssued, ReplyFits
  <1>8. CopiesAgree' /\ HeldIsKept'
    BY <1>1 DEF LinkInv, CopiesAgree, HeldIsKept, Settled, NoneBefore
  <1>9. QED
    BY <1>5, <1>6, <1>7, <1>8 DEF LinkRest

LEMMA ConfigureKeeps == ASSUME LinkInv, Configure PROVE LinkRest'
  <1>1. /\ UNCHANGED <<messages, receipts, delivered, read, withdrawn, credential,
                       flash, saved, reply, late, view, busy, confirmed>>
        /\ request = Idle /\ command' = "none"
        /\ \/ saved.cred # 0 /\ request' = [kind |-> "me", cred |-> saved.cred]
           \/ \E c \in PairingCodes : request' = [kind |-> "pair", code |-> c]
    BY StoreStill DEF Configure, memory, LinkInv, RequestFollowsSaved
  <1>2. request' \in Request
    <2>1. saved.cred \in 0..MaxCredentials
      BY Types DEF Valid, State
    <2>2. QED
      BY <1>1, <2>1, StoreAssumption DEF Request
  <1>3. reply.status = 0
    BY <1>1, RepliesAre DEF LinkInv, ReplyFits
  <1>4. LinkTypeOK'
    BY <1>1, <1>2 DEF LinkInv, LinkTypeOK
  <1>5. RequestFollowsSaved'
    BY <1>1 DEF RequestFollowsSaved
  <1>6. CredentialsIssued' /\ ReplyFits'
    BY <1>1, <1>3, RepliesAre DEF LinkInv, CredentialsIssued, ReplyFits
  <1>7. CopiesAgree' /\ HeldIsKept'
    BY <1>1 DEF LinkInv, CopiesAgree, HeldIsKept, Settled, NoneBefore
  <1>8. QED
    BY <1>4, <1>5, <1>6, <1>7 DEF LinkRest

LEMMA AbandonedAre ==
  ASSUME NEW L \in Abandoned, NEW q \in L
  PROVE  q \in late \/ (q = request /\ request # Idle /\ reply = NoReply)
  BY DEF Abandoned

\* What an exchange that is given up leaves behind, for a worker that goes on
\* with the memory it has or boots from flash.
LEMMA GiveUpKeeps ==
  ASSUME LinkInv, UNCHANGED <<vars, flash>>, saved' \in {saved, flash},
         late' \in Abandoned, request' = Idle, reply' = NoReply,
         view' \in 0..MessageLimit, busy' \in BOOLEAN, confirmed' = confirmed,
         \/ command' = "none"
         \/ command' = command /\ saved' = saved
  PROVE  LinkRest'
  <1>1. UNCHANGED <<messages, receipts, delivered, read, withdrawn, credential>>
    BY StoreStill
  <1>2. LinkTypeOK'
    <2>1. late' \subseteq Request
      BY AbandonedAre, ServedRequests DEF LinkInv, LinkTypeOK
    <2>2. QED
      BY <2>1 DEF LinkInv, LinkTypeOK
  <1>3. RequestFollowsSaved'
    BY DEF LinkInv, RequestFollowsSaved
  <1>4. reply' = NoReply /\ NoReply.status = 0
    BY DEF NoReply
  <1>5. credential[Me] \in Nat /\ flash.cred \in Nat /\ saved.cred \in Nat
    BY Types DEF Valid, State
  <1>6. \A q \in late' : q.kind # "pair" => q.cred <= credential[Me]
    <2> SUFFICES ASSUME NEW q \in late', q.kind # "pair"
                 PROVE  q.cred <= credential[Me]
      OBVIOUS
    <2>1. CASE q \in late
      <3>1. q.cred \in Nat
        BY <2>1, StoreAssumption DEF LinkInv, LinkTypeOK, Request
      <3>2. QED
        BY <1>5, <2>1, <3>1 DEF LinkInv, CredentialsIssued
    <2>2. CASE q = request /\ request # Idle
      <3>1. request.cred = saved.cred
        BY <2>2, RequestsAre
      <3>2. QED
        BY <1>5, <2>2, <3>1 DEF LinkInv, CredentialsIssued
    <2>3. QED
      BY <2>1, <2>2, AbandonedAre
  <1>7. CredentialsIssued'
    BY <1>1, <1>4, <1>5, <1>6 DEF LinkInv, CredentialsIssued
  <1>8. ReplyFits'
    BY <1>4 DEF ReplyFits
  <1>9. CopiesAgree'
    BY <1>1 DEF LinkInv, CopiesAgree, Settled, NoneBefore
  <1>10. HeldIsKept'
    <2>1. ASSUME NEW q \in late', q.kind = "ack", q.cred = credential[Me],
                 ~Settled(q.id)
          PROVE  flash.id = q.id /\ saved.id = q.id
      <3>1. CASE q \in late
        BY <2>1, <3>1 DEF LinkInv, HeldIsKept
      <3>2. CASE q = request /\ request # Idle
        <4>1. saved.id # 0 /\ q.cred = saved.cred /\ q.id = saved.id
          BY <2>1, <3>2, RequestsAre, ReceiptIs, Types
        <4>2. QED
          BY <2>1, <4>1 DEF LinkInv, CopiesAgree
      <3>3. QED
        BY <3>1, <3>2, AbandonedAre
    <2>2. QED
      BY <1>1, <2>1 DEF LinkInv, HeldIsKept, Settled
  <1>11. QED
    BY <1>2, <1>3, <1>7, <1>8, <1>9, <1>10 DEF LinkRest

\* OK on a message: the blob gets another receipt and keeps its message.
LEMMA HandleOkKeeps ==
  ASSUME LinkInv, NEW ok \in BOOLEAN, NEW linkUp \in BOOLEAN, HandleOk(ok, linkUp)
  PROVE  LinkRest'
  <1> DEFINE next == Read(saved)
  <1>1. /\ UNCHANGED <<messages, receipts, delivered, read, withdrawn, credential,
                       reply, late, view, confirmed>>
        /\ request = Idle /\ command' = "none" /\ busy' = (ok /\ linkUp)
        /\ saved.id # 0
        /\ flash' \in {flash, next} /\ saved' \in {saved, next}
        /\ ok => saved' = next
    BY StoreStill DEF HandleOk, Persist
  <1>2. /\ Valid(next) /\ next.cred = saved.cred /\ next.id = saved.id
    BY <1>1, Types, ReadBlob
  <1>3. \/ request' = Idle
        \/ request' = Receipt(saved') /\ saved' = next
    BY <1>1 DEF HandleOk
  <1>4. saved.cred # 0
    BY <1>1 DEF LinkInv, CopiesAgree
  <1>5. LinkTypeOK'
    <2>1. request' \in Request \cup {Idle}
      BY <1>1, <1>2, <1>3, <1>4, ReceiptIs
    <2>2. QED
      BY <1>1, <1>2, <2>1 DEF LinkInv, LinkTypeOK, Valid
  <1>6. RequestFollowsSaved'
    BY <1>1, <1>2, <1>3 DEF RequestFollowsSaved
  <1>7. reply.status = 0
    BY <1>1, RepliesAre DEF LinkInv, ReplyFits
  <1>8. CredentialsIssued' /\ ReplyFits'
    BY <1>1, <1>2, <1>7, RepliesAre DEF LinkInv, CredentialsIssued, ReplyFits
  <1>9. CopiesAgree' /\ HeldIsKept'
    BY <1>1, <1>2 DEF LinkInv, CopiesAgree, HeldIsKept, Settled, NoneBefore
  <1>10. QED
    BY <1>5, <1>6, <1>8, <1>9 DEF LinkRest

\* A reply may move to the next blob in these ways only.
Accepts(next) ==
  /\ saved.id = 0 /\ saved.cred # 0
  /\ next.cred = saved.cred /\ next.id # 0
  /\ NoneBefore(next.id) /\ <<next.id, Me>> \notin delivered

Confirms(next) ==
  /\ saved.id # 0
  /\ next.cred = saved.cred
  /\ next.id = saved.id \/ (next.id = 0 /\ Settled(saved.id))

Rebinds(next) ==
  /\ next.id = 0 /\ next.cred \in 1..credential[Me]
  /\ saved.cred < credential[Me] /\ flash.cred < credential[Me]
  /\ \A q \in late : q.kind # "pair" => q.cred < credential[Me]
  /\ \A i \in DOMAIN messages : <<i, Me>> \in delivered => Settled(i)

LEMMA NextBlob ==
  ASSUME LinkInv, reply # NoReply, Writes(request, reply)
  PROVE  LET next == AfterReply(saved, request, reply) IN
         /\ Valid(next)
         /\ Accepts(next) \/ Confirms(next) \/ Rebinds(next) \/ next = saved
  <1> DEFINE next == AfterReply(saved, request, reply)
  <1>1. /\ request # Idle /\ reply.status = 200 /\ reply.value \in Nat
        /\ request.kind \in {"me", "inbox", "ack", "pair"}
        /\ request.kind = "inbox" => reply.value # 0
    BY RepliesAre, RequestsAre DEF Writes, LinkInv, ReplyFits
  <1>2. CASE request.kind = "inbox"
    <2>1. next = Accepted(saved, reply.value)
      BY <1>1, <1>2 DEF AfterReply
    <2>2. /\ reply.value # 0 /\ NoneBefore(reply.value)
          /\ <<reply.value, Me>> \notin delivered
      BY <1>1, <1>2 DEF LinkInv, ReplyFits
    <2>3. reply.value \in 1..MessageLimit
      BY <1>1, <2>2, Types DEF NoneBefore
    <2>4. saved.id = 0 /\ saved.cred # 0
      <3>1. /\ saved.id = 0 /\ request = [kind |-> "inbox", cred |-> saved.cred]
            /\ request \in Request
        BY <1>1, <1>2, RequestsAre, ServedRequests
      <3>2. QED
        BY <3>1 DEF Request
    <2>5. Valid(next) /\ Accepts(next)
      <3>1. /\ Valid(Accepted(saved, reply.value))
            /\ Accepted(saved, reply.value).cred = saved.cred
            /\ Accepted(saved, reply.value).id = reply.value
        BY <2>3, Types, AcceptedBlob
      <3>2. Valid(next) /\ next.cred = saved.cred /\ next.id = reply.value
        BY <2>1, <3>1
      <3>3. QED
        BY <2>2, <2>4, <3>2 DEF Accepts
    <2>6. QED
      BY <2>5
  <1>3. CASE request.kind = "ack"
    <2>1. next = Acknowledged(saved)
      BY <1>1, <1>3 DEF AfterReply
    <2>2. saved.id # 0 /\ request = Receipt(saved)
      BY <1>3, RequestsAre
    <2>3. saved.receipt = "read_pending" => Settled(saved.id)
      BY <1>1, <2>2 DEF LinkInv, ReplyFits
    <2>4. Valid(next) /\ Confirms(next)
      BY <2>1, <2>2, <2>3, Types, AcknowledgedBlob DEF Confirms
    <2>5. QED
      BY <2>4
  <1>4. CASE request.kind = "pair"
    <2>1. next = [Unpaired EXCEPT !.cred = reply.value]
      BY <1>1, <1>4 DEF AfterReply
    <2>2. /\ reply.value \in 1..credential[Me]
          /\ saved.cred < credential[Me] /\ flash.cred < credential[Me]
          /\ \A q \in late : q.kind # "pair" => q.cred < credential[Me]
          /\ \A i \in DOMAIN messages : <<i, Me>> \in delivered => Settled(i)
      BY <1>1, <1>4 DEF LinkInv, CredentialsIssued, ReplyFits
    <2>3. reply.value \in 0..MaxCredentials
      BY <2>2, Types
    <2>4. Valid(next) /\ Rebinds(next)
      BY <2>1, <2>2, <2>3, PairedBlob DEF Rebinds
    <2>5. QED
      BY <2>4
  <1>5. CASE request.kind = "me"
    BY <1>1, <1>5, Types DEF AfterReply
  <1>6. QED
    BY <1>1, <1>2, <1>3, <1>4, <1>5

LEMMA PersistKeeps ==
  ASSUME LinkInv, NEW next, Valid(next),
         Accepts(next) \/ Confirms(next) \/ Rebinds(next) \/ next = saved,
         flash' \in {flash, next},
         saved' = saved \/ (saved' = next /\ flash' = next),
         UNCHANGED <<messages, receipts, delivered, read, withdrawn, credential>>,
         late' = late, reply' = NoReply
  PROVE  /\ {flash', saved'} \subseteq State
         /\ \A s \in {flash', saved'} : s.id = 0 <=> s.receipt = "empty"
         /\ saved.cred # 0 => saved'.cred # 0
         /\ CredentialsIssued' /\ ReplyFits' /\ CopiesAgree' /\ HeldIsKept'
  <1>1. Valid(flash') /\ Valid(saved')
    BY Types
  <1>2. /\ credential[Me] \in Nat /\ next.cred \in Nat /\ next.id \in Nat
        /\ flash.cred \in Nat /\ saved.cred \in Nat
        /\ flash.id \in Nat /\ saved.id \in Nat
    BY Types DEF Valid, State
  <1>3. NoReply.status = 0 /\ NoReply.status # 200
    BY DEF NoReply
  <1>4. \A q \in late : q.kind # "pair" => q.cred \in Nat /\ q.cred <= credential[Me]
    <2> SUFFICES ASSUME NEW q \in late, q.kind # "pair"
                 PROVE  q.cred \in Nat /\ q.cred <= credential[Me]
      OBVIOUS
    <2>1. q.cred \in Nat
      BY StoreAssumption DEF LinkInv, LinkTypeOK, Request
    <2>2. QED
      BY <1>2, <2>1 DEF LinkInv, CredentialsIssued
  <1>5. saved.cred <= credential[Me] /\ flash.cred <= credential[Me]
    BY <1>2 DEF LinkInv, CredentialsIssued
  <1>6. next.cred <= credential[Me] /\ (saved.cred # 0 => next.cred # 0)
    BY <1>2, <1>5 DEF Accepts, Confirms, Rebinds
  <1>7. CredentialsIssued' /\ ReplyFits'
    BY <1>3, <1>4, <1>5, <1>6 DEF CredentialsIssued, ReplyFits
  <1>8. \A s \in {flash', saved'} : s.id # 0 => s.cred # 0 /\ NoneBefore(s.id)'
    BY DEF LinkInv, CopiesAgree, NoneBefore, Accepts, Confirms, Rebinds
  <1> USE DEF Settled
  <1>9. CASE Accepts(next)
    <2>1. CopiesAgree'
      BY <1>8, <1>9 DEF LinkInv, CopiesAgree, Accepts
    <2>2. HeldIsKept'
      <3>1. \A i \in DOMAIN messages : i # 0
        BY Types
      <3>2. \A q \in late : q.kind = "ack" => q.id # 0
        BY DEF LinkInv, LinkTypeOK, Request
      <3>3. QED
        BY <1>9, <3>1, <3>2 DEF LinkInv, HeldIsKept, Accepts
    <2>3. QED
      BY <1>1, <1>6, <1>7, <2>1, <2>2 DEF Valid
  <1>10. CASE Confirms(next)
    <2>1. CopiesAgree'
      BY <1>8, <1>10 DEF LinkInv, CopiesAgree, Confirms
    <2>2. HeldIsKept'
      BY <1>10 DEF LinkInv, HeldIsKept, Confirms
    <2>3. QED
      BY <1>1, <1>6, <1>7, <2>1, <2>2 DEF Valid
  <1>11. CASE Rebinds(next)
    <2>1. CopiesAgree'
      BY <1>2, <1>8, <1>11 DEF LinkInv, CopiesAgree, Rebinds
    <2>2. HeldIsKept'
      BY <1>2, <1>4, <1>11 DEF LinkInv, HeldIsKept, Rebinds
    <2>3. QED
      BY <1>1, <1>6, <1>7, <2>1, <2>2 DEF Valid
  <1>12. CASE next = saved
    <2>1. CopiesAgree' /\ HeldIsKept'
      BY <1>8, <1>12 DEF LinkInv, CopiesAgree, HeldIsKept
    <2>2. QED
      BY <1>1, <1>6, <1>7, <2>1 DEF Valid
  <1>13. QED
    BY <1>9, <1>10, <1>11, <1>12

LEMMA HandleReplyKeeps ==
  ASSUME LinkInv, NEW ok \in BOOLEAN, HandleReply(ok)
  PROVE  LinkRest'
  <1> DEFINE next == IF Writes(request, reply)
                       THEN AfterReply(saved, request, reply) ELSE saved
  <1>1. /\ UNCHANGED <<messages, receipts, delivered, read, withdrawn, credential,
                       late, confirmed>>
        /\ reply # NoReply /\ request' = Idle /\ reply' = NoReply
        /\ busy' = (command # "none")
    BY StoreStill DEF HandleReply, Finish
  <1>2. /\ Valid(next)
        /\ Accepts(next) \/ Confirms(next) \/ Rebinds(next) \/ next = saved
    <2>1. CASE Writes(request, reply)
      BY <1>1, <2>1, NextBlob
    <2>2. CASE ~Writes(request, reply)
      BY <2>2, Types
    <2>3. QED
      BY <2>1, <2>2
  <1>3. /\ flash' \in {flash, next}
        /\ saved' = saved \/ (saved' = next /\ flash' = next)
    BY DEF HandleReply, Persist, memory
  <1>4. /\ {flash', saved'} \subseteq State
        /\ \A s \in {flash', saved'} : s.id = 0 <=> s.receipt = "empty"
        /\ saved.cred # 0 => saved'.cred # 0
        /\ CredentialsIssued' /\ ReplyFits' /\ CopiesAgree' /\ HeldIsKept'
    BY <1>1, <1>2, <1>3, PersistKeeps
  <1>5. /\ view' \in 0..MessageLimit
        /\ command' = command \/ command' = "stale"
    <2>1. next.id \in 0..MessageLimit /\ view \in 0..MessageLimit
      BY <1>2 DEF Valid, State, LinkInv, LinkTypeOK
    <2>2. \/ UNCHANGED <<view, command>>
          \/ Writes(request, reply) /\ Render(AfterReply(saved, request, reply).id)
      BY DEF HandleReply
    <2>3. UNCHANGED <<view, command>> \/ Render(next.id)
      BY <2>2
    <2>4. QED
      BY <2>1, <2>3 DEF Render
  <1>6. LinkTypeOK'
    <2>1. /\ command \in {"none", "ok", "stale", "wifi"} \cup PairingCodes
          /\ late \subseteq Request /\ confirmed \subseteq 1..MessageLimit
      BY DEF LinkInv, LinkTypeOK
    <2>2. QED
      BY <1>1, <1>4, <1>5, <2>1 DEF LinkTypeOK
  <1>7. RequestFollowsSaved'
    BY <1>1, <1>4, <1>5 DEF LinkInv, RequestFollowsSaved
  <1>8. QED
    BY <1>4, <1>6, <1>7 DEF LinkRest

LEMMA DeviceKeeps == ASSUME LinkInv, Device PROVE LinkRest'
  <1>1. CASE GiveUp
    <2>1. view \in 0..MessageLimit
      BY DEF LinkInv, LinkTypeOK
    <2>2. QED
      BY <1>1, <2>1, GiveUpKeeps DEF GiveUp, Finish, memory
  <1>2. CASE Restart
    <2>1. view' \in {0, flash.id}
      BY <1>2 DEF Restart
    <2>2. view' \in 0..MessageLimit
      BY <2>1, Types DEF Valid, State
    <2>3. QED
      BY <1>2, <2>2, GiveUpKeeps DEF Restart
  <1>3. QED
    BY <1>1, <1>2, CommandsKeep, PollKeeps, ConfigureKeeps, HandleReplyKeeps,
       HandleOkKeeps DEF Device

-----------------------------------------------------------------------------
(* Steps of the relay                                                      *)

Paired == reply.status = 200 /\ request.kind = "pair"

\* What a step of the relay can mean for the device: a receipt is confirmed
\* only for the message it holds twice, and never between a pairing and its
\* reply; a new credential closes everything from before.
Harmless ==
  /\ \A i \in DOMAIN messages : <<i, Me>> \in delivered' \ delivered =>
       flash.id = i /\ saved.id = i /\ i # 0 /\ ~Paired
  /\ \A i \in DOMAIN messages' : <<i, Me>> \in delivered' => i \in DOMAIN messages
  /\ \/ credential'[Me] = credential[Me]
     \/ /\ credential'[Me] = credential[Me] + 1
        /\ \A p \in receipts' : p[2] = Me => p \in withdrawn'

\* What holds of old and offered messages survives whatever the relay does.
LEMMA StoreKeepsOrder ==
  ASSUME LinkInv, [Next]_vars
  PROVE  /\ \A i \in Nat : NoneBefore(i) => NoneBefore(i)'
         /\ \A i \in Nat : Settled(i) => Settled(i)'
         /\ StoreInv' /\ Len(messages') <= MessageLimit
         /\ Len(messages) \in Nat /\ Len(messages') \in Nat
         /\ DOMAIN messages = 1..Len(messages)
         /\ DOMAIN messages' = 1..Len(messages')
  <1>1. StoreInv' /\ TypeOK'
    BY StepType, StepMembers, StepLiveReceipts, StepMessages DEF LinkInv, StoreInv
  <1>2. /\ DOMAIN messages = 1..Len(messages) /\ Len(messages) \in Nat
        /\ DOMAIN messages' = 1..Len(messages') /\ Len(messages') \in Nat
    BY <1>1, Types DEF TypeOK
  <1>3. /\ receipts \subseteq receipts' /\ delivered \subseteq delivered'
        /\ read \subseteq read' /\ withdrawn \subseteq withdrawn'
        /\ Len(messages) <= Len(messages')
        /\ Len(messages') <= MessageLimit
        /\ \A p \in receipts' \ receipts : p[1] > Len(messages)
    BY StoreGrows DEF LinkInv
  <1>4. ASSUME NEW i \in Nat, NoneBefore(i) PROVE NoneBefore(i)'
    <2>1. i <= Len(messages)
      BY <1>4 DEF NoneBefore
    <2>2. i <= Len(messages')
      BY <1>2, <1>3, <2>1
    <2>3. ASSUME NEW j \in DOMAIN messages', j < i,
                 <<j, Me>> \in receipts' \ (delivered' \cup withdrawn')
          PROVE  FALSE
      <3>1. j \in DOMAIN messages
        BY <1>2, <2>1, <2>3
      <3>2. <<j, Me>> \in receipts
        BY <1>2, <1>3, <2>1, <2>3
      <3>3. QED
        BY <1>3, <1>4, <2>3, <3>1, <3>2 DEF NoneBefore
    <2>4. QED
      BY <2>2, <2>3 DEF NoneBefore
  <1>5. QED
    BY <1>1, <1>2, <1>3, <1>4 DEF Settled

\* An acknowledgement that the relay accepts is of the message on the device.
LEMMA AcceptedReceipt ==
  ASSUME LinkInv, NEW q \in Request, q.kind = "ack",
         q \in late \/ (q = request /\ reply = NoReply),
         Acknowledge(Me, q.cred, q.id, q.state)
  PROVE  /\ q.id \in DOMAIN messages /\ q.id # 0 /\ ~Paired
         /\ <<q.id, Me>> \notin read => flash.id = q.id /\ saved.id = q.id
  <1>1. /\ q.cred = credential[Me]
        /\ <<q.id, Me>> \in receipts \ withdrawn
    BY DEF Acknowledge, Open, Authenticated
  <1>2. q.id \in DOMAIN messages /\ q.id # 0 /\ credential[Me] \in Nat
    BY <1>1, Types DEF TypeOK
  <1>3. CASE q \in late
    <2>1. ~(q.cred < credential[Me])
      BY <1>1, <1>2
    <2>2. ~Paired
      BY <1>3, <2>1 DEF LinkInv, CredentialsIssued, Paired
    <2>3. QED
      BY <1>1, <1>2, <1>3, <2>2 DEF LinkInv, HeldIsKept, Settled
  <1>4. CASE q = request /\ reply = NoReply
    <2>1. /\ saved.id # 0 /\ q.id = saved.id /\ q.cred = saved.cred
      BY <1>4, RequestsAre, ReceiptIs, Types
    <2>2. <<q.id, Me>> \notin read => flash.id = saved.id
      BY <1>1, <2>1 DEF LinkInv, CopiesAgree, Settled
    <2>3. QED
      BY <1>2, <1>4, <2>1, <2>2 DEF Paired
  <1>5. QED
    BY <1>3, <1>4

LEMMA ServedIsHarmless ==
  ASSUME LinkInv, NEW q \in Request, NEW a, Execute(q, a),
         q \in late \/ (q = request /\ reply = NoReply)
  PROVE  Harmless
  <1>0. TypeOK /\ Me \in Devices /\ StoreInv
    BY Types
  <1>1. CASE UNCHANGED vars
    BY <1>0, <1>1, StoreStill DEF Harmless, TypeOK
  <1>2. CASE q.kind = "ack" /\ Acknowledge(Me, q.cred, q.id, q.state)
    <2>1. /\ q.id \in DOMAIN messages /\ q.id # 0 /\ ~Paired
          /\ <<q.id, Me>> \notin read => flash.id = q.id /\ saved.id = q.id
      BY <1>2, AcceptedReceipt
    <2>2. /\ delivered' = delivered \cup {<<q.id, Me>>}
          /\ messages' = messages /\ credential' = credential
      BY <1>2 DEF Acknowledge, deviceVars
    <2>3. QED
      BY <1>0, <2>1, <2>2 DEF Harmless, TypeOK
  <1>3. ASSUME NEW u \in Users, ConsumePairing(q.code, u, Me) PROVE Harmless
    <2>1. /\ UNCHANGED <<messages, receipts, delivered, withdrawn>>
          /\ credential'[Me] = credential[Me] + 1
      BY <1>0, <1>3 DEF ConsumePairing, receiptVars, TypeOK
    <2>2. ~Active(Me)
      BY <1>3 DEF ConsumePairing, MayPair, Active
    <2>3. \A p \in members : p[2] # Me
      BY <1>0, <2>2 DEF StoreInv, MembersCanReceive
    <2>4. ASSUME NEW p \in receipts, p[2] = Me, p \notin withdrawn PROVE FALSE
      <3>1. <<messages[p[1]].room, Me>> \in members
        BY <1>0, <2>4 DEF StoreInv, LiveReceiptsAreOfMembers
      <3>2. QED
        BY <2>3, <3>1
    <2>5. QED
      BY <2>1, <2>4 DEF Harmless
  <1>4. QED
    BY <1>1, <1>2, <1>3 DEF Execute

LEMMA OthersAreHarmless == ASSUME LinkInv, Others PROVE Harmless
  <1>1. /\ [Next]_vars /\ credential'[Me] = credential[Me]
        /\ \A p \in delivered' \ delivered : p[2] # Me
    BY DEF Others
  <1>2. TypeOK
    BY Types
  <1>3. \A i \in DOMAIN messages' : <<i, Me>> \in delivered' => i \in DOMAIN messages
    BY <1>1, <1>2 DEF TypeOK
  <1>4. QED
    BY <1>1, <1>3 DEF Harmless

\* What the relay does keeps what the device knows.
LEMMA HarmlessKeeps ==
  ASSUME LinkInv, [Next]_vars, Harmless, late' \subseteq late,
         UNCHANGED <<memory, ui, request, confirmed>>
  PROVE  /\ RequestFollowsSaved' /\ CopiesAgree' /\ HeldIsKept'
         /\ reply' = reply => LinkTypeOK' /\ CredentialsIssued' /\ ReplyFits'
  <1>1. UNCHANGED <<flash, saved, view, busy, command, request, confirmed>>
    BY DEF memory, ui
  <1>2. /\ \A i \in Nat : NoneBefore(i) => NoneBefore(i)'
        /\ \A i \in Nat : Settled(i) => Settled(i)'
        /\ DOMAIN messages = 1..Len(messages) /\ DOMAIN messages' = 1..Len(messages')
    BY StoreKeepsOrder
  <1>3. /\ flash.id \in Nat /\ saved.id \in Nat
        /\ flash.cred \in Nat /\ saved.cred \in Nat /\ credential[Me] \in Nat
        /\ \A q \in late : /\ q.kind # "pair" => q.cred \in Nat
                           /\ q.kind = "ack" => q.id \in Nat
    <2>1. late \subseteq Request
      BY DEF LinkInv, LinkTypeOK
    <2>2. QED
      BY <2>1, Types, StoreAssumption, SMTT(30) DEF Valid, State, Request
  <1>4. \A s \in {flash, saved} \cup {q \in late : q.kind # "pair"} :
          /\ s.cred <= credential[Me]
          /\ s.cred = credential'[Me] => credential'[Me] = credential[Me]
    <2> SUFFICES ASSUME NEW s \in {flash, saved} \cup {q \in late : q.kind # "pair"}
                 PROVE  /\ s.cred <= credential[Me]
                        /\ s.cred = credential'[Me] => credential'[Me] = credential[Me]
      OBVIOUS
    <2>1. s.cred \in Nat
      BY <1>3
    <2>2. s.cred <= credential[Me]
      BY <1>3, <2>1 DEF LinkInv, CredentialsIssued
    <2>3. QED
      BY <1>3, <2>1, <2>2 DEF Harmless
  <1>5. RequestFollowsSaved'
    BY <1>1 DEF LinkInv, RequestFollowsSaved
  <1>6. CopiesAgree'
    <2>1. \A s \in {flash, saved} : s.id # 0 => s.cred # 0 /\ NoneBefore(s.id)'
      BY <1>2, <1>3 DEF LinkInv, CopiesAgree
    <2>2. saved.id = 0 /\ flash.id # 0 => <<flash.id, Me>> \notin delivered'
      <3>1. flash.id # 0 => flash.id \in DOMAIN messages
        BY <1>2, <1>3, Types DEF LinkInv, CopiesAgree, NoneBefore
      <3>2. QED
        BY <3>1 DEF LinkInv, CopiesAgree, Harmless
    <2>3. saved.id # 0 /\ flash.id # saved.id =>
            flash.id = 0 /\ (saved.cred = credential'[Me] => Settled(saved.id)')
      BY <1>1, <1>2, <1>3, <1>4 DEF LinkInv, CopiesAgree, Settled
    <2>4. QED
      BY <1>1, <2>1, <2>2, <2>3 DEF CopiesAgree
  <1>7. HeldIsKept'
    <2>1. ASSUME NEW i \in DOMAIN messages', <<i, Me>> \in delivered', ~Settled(i)'
          PROVE  flash.id = i /\ saved.id = i
      BY <1>2, <2>1 DEF LinkInv, HeldIsKept, Harmless
    <2>2. ASSUME NEW q \in late, q.kind = "ack", q.cred = credential'[Me],
                 ~Settled(q.id)'
          PROVE  flash.id = q.id /\ saved.id = q.id
      BY <1>2, <1>3, <1>4, <2>2 DEF LinkInv, HeldIsKept
    <2>3. QED
      BY <1>1, <2>1, <2>2 DEF HeldIsKept
  <1>8. ASSUME reply' = reply
        PROVE  LinkTypeOK' /\ CredentialsIssued' /\ ReplyFits'
    <2>1. LinkTypeOK'
      BY <1>1, <1>8 DEF LinkInv, LinkTypeOK
    <2>2. CredentialsIssued'
      <3>1. credential'[Me] \in {credential[Me], credential[Me] + 1}
        BY DEF Harmless
      <3>2. QED
        BY <1>1, <1>3, <1>4, <1>8, <3>1 DEF LinkInv, CredentialsIssued
    <2>3. ASSUME reply.status = 200, request.kind = "inbox", reply.value # 0
          PROVE  NoneBefore(reply.value)' /\ <<reply.value, Me>> \notin delivered'
      <3>1. /\ NoneBefore(reply.value) /\ <<reply.value, Me>> \notin delivered
            /\ reply.value \in Nat /\ saved.id = 0
        BY <2>3, RepliesAre, RequestsAre DEF LinkInv, ReplyFits
      <3>2. reply.value \in DOMAIN messages
        BY <1>2, <2>3, <3>1, Types DEF NoneBefore
      <3>3. QED
        BY <1>2, <1>8, <2>3, <3>1, <3>2 DEF Harmless, NoneBefore
    <2>4. reply.status = 200 /\ request = Receipt(saved)
            /\ saved.receipt = "read_pending" => Settled(saved.id)'
      BY <1>1, <1>2, <1>3 DEF LinkInv, ReplyFits, Settled
    <2>5. ASSUME reply.status = 200, request.kind = "pair",
                 NEW i \in DOMAIN messages', <<i, Me>> \in delivered'
          PROVE  Settled(i)'
      <3>1. i \in DOMAIN messages /\ <<i, Me>> \in delivered
        BY <2>5 DEF Harmless, Paired
      <3>2. QED
        BY <1>2, <2>5, <3>1 DEF LinkInv, ReplyFits
    <2>6. ReplyFits'
      BY <1>1, <1>8, <2>3, <2>4, <2>5 DEF LinkInv, ReplyFits
    <2>7. QED
      BY <2>1, <2>2, <2>6
  <1>9. QED
    BY <1>5, <1>6, <1>7, <1>8

\* Of the intervals that end in S, one holds no other.
LEMMA SmallestOf ==
  ASSUME NEW n \in Nat, NEW S \in SUBSET (1..n), S # {}
  PROVE  Min(S) \in S /\ \A y \in S : Min(S) <= y
  <1> DEFINE T == {0..x : x \in S}
  <1>1. IsWellFoundedOn(StrictSubsetOrdering(0..n), SUBSET (0..n))
    <2>1. IsFiniteSet(0..n)
      BY FS_Interval
    <2>2. FiniteSubsetsOf(0..n) = SUBSET (0..n)
      BY <2>1, FS_FiniteSubsetsOfFinite
    <2>3. QED
      BY <2>2, FS_StrictSubsetOrderingWellFounded
  <1>2. T \subseteq SUBSET (0..n) /\ T # {}
    <2>1. ASSUME NEW x \in S PROVE 0..x \subseteq 0..n
      OBVIOUS
    <2>2. QED
      BY <2>1
  <1>3. PICK t \in T : \A u \in T : <<u, t>> \notin StrictSubsetOrdering(0..n)
    BY <1>1, <1>2, WFMin
  <1>4. PICK x \in S : t = 0..x
    BY <1>3
  <1>5. ASSUME NEW y \in S, y < x PROVE FALSE
    <2>1. 0..y \subseteq 0..x /\ 0..y # 0..x
      <3>1. x \in 0..x /\ x \notin 0..y
        BY <1>5
      <3>2. QED
        BY <1>5, <3>1
    <2>2. <<0..y, t>> \in StrictSubsetOrdering(0..n)
      BY <1>2, <1>4, <2>1 DEF StrictSubsetOrdering
    <2>3. QED
      BY <1>3, <2>2
  <1>6. \A y \in S : x <= y
    BY <1>5
  <1>7. QED
    BY <1>6 DEF Min

\* The inbox offers the oldest message that waits, because nothing that waits
\* is missing from it.
LEMMA OfferIsNext ==
  ASSUME LinkInv, NEW c, Authenticated(Me, c), Oldest(c) # 0
  PROVE  /\ Oldest(c) \in DOMAIN messages
         /\ NoneBefore(Oldest(c)) /\ <<Oldest(c), Me>> \notin delivered
  <1>0. /\ DOMAIN messages = 1..Len(messages) /\ Len(messages) \in Nat
        /\ Me \in Devices /\ StoreInv
    BY Types
  <1>1. Pending(Me, c) \in SUBSET (1..Len(messages))
    BY <1>0 DEF Pending
  <1>2. Pending(Me, c) # {} /\ Oldest(c) = Min(Pending(Me, c))
    BY DEF Oldest
  <1>3. /\ Oldest(c) \in Pending(Me, c)
        /\ \A y \in Pending(Me, c) : Oldest(c) <= y
    BY <1>0, <1>1, <1>2, SmallestOf, Zenon
  <1>4. c = credential[Me] /\ devOwner[Me] \notin disabled
    BY DEF Authenticated
  <1>5. ASSUME NEW j \in DOMAIN messages, j < Oldest(c),
               <<j, Me>> \in receipts \ (delivered \cup withdrawn)
        PROVE  FALSE
    <2>1. j \in Pending(Me, c)
      BY <1>0, <1>4, <1>5, InboxesAreComplete DEF NothingStranded
    <2>2. QED
      BY <1>0, <1>1, <1>3, <1>5, <2>1
  <1>6. QED
    BY <1>0, <1>1, <1>3, <1>5 DEF NoneBefore, Pending

LEMMA ServeKeeps == ASSUME LinkInv, Serve PROVE LinkRest'
  <1>1. /\ request # Idle /\ request \in Request /\ reply = NoReply
        /\ UNCHANGED <<memory, ui, request, late, confirmed>>
    BY ServedRequests DEF Serve
  <1>2. PICK a \in Answers : Execute(request, a) /\ reply' = a
    BY DEF Serve
  <1>3. [Next]_vars /\ Harmless
    BY <1>1, <1>2, ExecuteIsStoreStep, ServedIsHarmless DEF LinkInv
  <1>4. RequestFollowsSaved' /\ CopiesAgree' /\ HeldIsKept'
    BY <1>1, <1>3, HarmlessKeeps
  <1>5. UNCHANGED <<flash, saved, view, busy, command, request, late, confirmed>>
    BY <1>1 DEF memory, ui
  <1>6. LinkTypeOK'
    BY <1>2, <1>5 DEF LinkInv, LinkTypeOK
  <1>7. /\ credential[Me] \in Nat /\ flash.cred \in Nat /\ saved.cred \in Nat
        /\ \A q \in late : q.kind # "pair" => q.cred \in Nat
        /\ Me \in Devices /\ TypeOK /\ StoreInv
    <2>1. late \subseteq Request
      BY DEF LinkInv, LinkTypeOK
    <2>2. QED
      BY <2>1, Types, StoreAssumption DEF Valid, State, Request
  <1>8. reply.status # 200 /\ NoReply.status = 0
    BY <1>1 DEF NoReply
  <1>9. \A s \in {flash, saved} \cup {q \in late : q.kind # "pair"} :
          s.cred \in Nat /\ s.cred <= credential[Me]
    BY <1>7, <1>8 DEF LinkInv, CredentialsIssued
  <1>10. credential'[Me] \in {credential[Me], credential[Me] + 1}
    BY <1>3 DEF Harmless
  <1>11. CASE a = Denied
    <2>1. reply'.status # 200
      BY <1>2, <1>11 DEF Denied
    <2>2. CredentialsIssued'
      BY <1>5, <1>7, <1>9, <1>10, <2>1 DEF CredentialsIssued
    <2>3. ReplyFits'
      BY <1>1, <1>5, <2>1 DEF ReplyFits
    <2>4. QED
      BY <1>4, <1>6, <2>2, <2>3 DEF LinkRest
  <1>12. CASE request.kind = "pair" /\ a # Denied
    <2>1. PICK u \in Users : ConsumePairing(request.code, u, Me)
      BY <1>2, <1>12 DEF Execute
    <2>2. a = Answer(credential[Me] + 1)
      BY <1>2, <1>12 DEF Execute
    <2>3. /\ credential'[Me] = credential[Me] + 1
          /\ messages' = messages /\ receipts' = receipts /\ delivered' = delivered
      BY <1>7, <2>1 DEF ConsumePairing, receiptVars, TypeOK
    <2>4. reply'.status = 200 /\ reply'.value = credential'[Me]
      BY <1>2, <2>2, <2>3 DEF Answer
    <2>5. CredentialsIssued'
      BY <1>5, <1>7, <1>9, <2>3, <2>4 DEF CredentialsIssued
    <2>6. \A i \in DOMAIN messages' : <<i, Me>> \in delivered' => Settled(i)'
      <3>1. \A p \in receipts' : p[2] = Me => p \in withdrawn'
        BY <1>3, <1>7, <2>3 DEF Harmless
      <3>2. delivered' \subseteq receipts'
        BY <1>7, <2>3 DEF TypeOK
      <3>3. QED
        BY <3>1, <3>2 DEF Settled
    <2>7. ReplyFits'
      <3>1. request' # Receipt(saved')
        BY <1>5, <1>12 DEF Receipt
      <3>2. QED
        BY <1>1, <1>5, <1>12, <2>6, <3>1 DEF ReplyFits
    <2>8. QED
      BY <1>4, <1>6, <2>5, <2>7 DEF LinkRest
  <1>13. CASE request.kind = "ack" /\ a # Denied
    <2>1. /\ a = Answer(0)
          /\ Acknowledge(Me, request.cred, request.id, request.state)
      BY <1>2, <1>13 DEF Execute
    <2>2. credential' = credential
      BY <2>1 DEF Acknowledge, deviceVars
    <2>3. CredentialsIssued'
      BY <1>5, <1>7, <1>9, <1>13, <2>2 DEF CredentialsIssued
    <2>4. saved.receipt = "read_pending" => Settled(saved.id)'
      <3>1. /\ request.id = saved.id
            /\ saved.receipt = "read_pending" => request.state = "read"
        BY <1>13, RequestsAre, ReceiptIs, Types
      <3>2. QED
        BY <1>5, <2>1, <3>1 DEF Acknowledge, Settled
    <2>5. ReplyFits'
      BY <1>1, <1>5, <1>13, <2>4 DEF ReplyFits
    <2>6. QED
      BY <1>4, <1>6, <2>3, <2>5 DEF LinkRest
  <1>14. CASE request.kind \in {"inbox", "me"} /\ a # Denied
    <2>1. UNCHANGED vars
      BY <1>2, <1>14 DEF Execute
    <2>2. UNCHANGED <<messages, receipts, delivered, withdrawn, credential>>
      BY <2>1, StoreStill
    <2>3. CredentialsIssued'
      BY <1>5, <1>7, <1>9, <1>14, <2>2 DEF CredentialsIssued
    <2>4. ASSUME request.kind = "inbox", NEW n, n = a.value, n # 0
          PROVE  NoneBefore(n)' /\ <<n, Me>> \notin delivered'
      <3>1. a = Answer(Oldest(request.cred)) /\ Authenticated(Me, request.cred)
        BY <1>2, <1>14, <2>4 DEF Execute
      <3>2. n = Oldest(request.cred)
        BY <2>4, <3>1 DEF Answer
      <3>3. NoneBefore(n) /\ <<n, Me>> \notin delivered
        BY <2>4, <3>1, <3>2, OfferIsNext
      <3>4. QED
        BY <2>2, <3>3 DEF NoneBefore
    <2>5. ReplyFits'
      <3>1. request' # Receipt(saved')
        BY <1>5, <1>14 DEF Receipt
      <3>2. QED
        BY <1>1, <1>2, <1>5, <1>14, <2>4, <3>1 DEF ReplyFits, NoneBefore
    <2>6. QED
      BY <1>4, <1>6, <2>3, <2>5 DEF LinkRest
  <1>15. QED
    BY <1>1, <1>2, <1>11, <1>12, <1>13, <1>14 DEF Execute

LEMMA ServeLateKeeps == ASSUME LinkInv, ServeLate PROVE LinkRest'
  <1>1. PICK q \in late : /\ \E a \in Answers : Execute(q, a)
                          /\ late' = late \ {q}
                          /\ UNCHANGED <<memory, ui, request, reply, confirmed>>
    BY DEF ServeLate
  <1>2. q \in Request
    BY ServedRequests
  <1>3. [Next]_vars /\ Harmless
    BY <1>1, <1>2, ExecuteIsStoreStep, ServedIsHarmless DEF LinkInv
  <1>4. QED
    BY <1>1, <1>3, HarmlessKeeps DEF LinkRest

LEMMA OthersKeep == ASSUME LinkInv, Others PROVE LinkRest'
  BY OthersAreHarmless, HarmlessKeeps
     DEF Others, linkVars, net, LinkRest

LEMMA InitLinkInv == LinkInit => LinkInv
  <1> SUFFICES ASSUME LinkInit PROVE LinkInv
    OBVIOUS
  <1>1. /\ StoreInv /\ messages = <<>> /\ delivered = {}
        /\ credential = [d \in Devices |-> 0]
    BY InitStoreInv DEF LinkInit, Init
  <1>2. /\ flash = Unpaired /\ saved = Unpaired /\ Valid(Unpaired)
        /\ Unpaired.id = 0 /\ Unpaired.cred = 0
    BY StoreAssumption DEF LinkInit, Valid, State, Unpaired
  <1>3. /\ view = 0 /\ busy = FALSE /\ command = "none" /\ request = Idle
        /\ reply = NoReply /\ late = {} /\ confirmed = {} /\ reply.status = 0
    BY DEF LinkInit, NoReply
  <1>4. LinkTypeOK
    <2>1. view \in 0..MessageLimit
      BY <1>3, StoreAssumption
    <2>2. /\ {flash, saved} \subseteq State
          /\ \A s \in {flash, saved} : s.id = 0 <=> s.receipt = "empty"
      BY <1>2 DEF Valid
    <2>3. QED
      BY <1>3, <2>1, <2>2 DEF LinkTypeOK
  <1>5. credential[Me] = 0 /\ Len(messages) <= MessageLimit
    BY <1>1, LinkAssumption, StoreAssumption
  <1>6. CredentialsIssued /\ ReplyFits
    BY <1>2, <1>3, <1>5 DEF CredentialsIssued, ReplyFits
  <1>7. CopiesAgree /\ HeldIsKept /\ RequestFollowsSaved
    BY <1>1, <1>2, <1>3 DEF CopiesAgree, HeldIsKept, RequestFollowsSaved
  <1>8. QED
    BY <1>1, <1>4, <1>5, <1>6, <1>7 DEF LinkInv

LEMMA LinkInvStep == LinkInv /\ [LinkNext]_allVars => LinkInv'
  <1> SUFFICES ASSUME LinkInv, [LinkNext]_allVars PROVE LinkInv'
    OBVIOUS
  <1>1. StoreInv' /\ Len(messages') <= MessageLimit
    BY LinkStepIsStoreStep, StoreKeepsOrder
  <1>2. CASE UNCHANGED allVars
    <2>1. /\ UNCHANGED vars
          /\ UNCHANGED <<flash, saved, view, busy, command, request, reply, late,
                         confirmed>>
      BY <1>2 DEF allVars, linkVars, memory, ui, net
    <2>2. LinkRest'
      BY <2>1, StoreStill
         DEF LinkInv, LinkRest, LinkTypeOK, RequestFollowsSaved, CredentialsIssued,
             ReplyFits, CopiesAgree, HeldIsKept, Settled, NoneBefore
    <2>3. QED
      BY <1>1, <2>2 DEF LinkInv, LinkRest
  <1>3. CASE LinkNext
    <2>1. LinkRest'
      BY <1>3, DeviceKeeps, ServeKeeps, ServeLateKeeps, OthersKeep DEF LinkNext
    <2>2. QED
      BY <1>1, <2>1 DEF LinkInv, LinkRest
  <1>4. QED
    BY <1>2, <1>3

-----------------------------------------------------------------------------
(* Theorems                                                                *)

\* The device, the network and the relay together keep LinkInv.
THEOREM LinkInvariant == LinkSafety => []LinkInv
  BY InitLinkInv, LinkInvStep, PTL DEF LinkSafety

\* The firmware never has a blob it would not boot with, nor sends or gets
\* anything outside the protocol.
THEOREM LinkTypeCorrect == LinkSafety => []LinkTypeOK
  BY LinkInvariant, PTL DEF LinkInv

\* With the device the store does nothing it could not do by itself, so every
\* theorem about Spec holds of the composition.
THEOREM LinkImplementsStore == LinkSafety => Spec
  <1>1. LinkInit => Init
    BY DEF LinkInit
  <1>2. QED
    BY <1>1, LinkInvariant, LinkStepIsStoreStep, PTL DEF LinkSafety, Spec

\* No message is counted as received while only RAM or nothing has it.
THEOREM ReceivedStaysInFlash == LinkSafety => []ReceivedIsInFlash
  <1>1. LinkInv => ReceivedIsInFlash
    BY DEF LinkInv, HeldIsKept, ReceivedIsInFlash, Settled
  <1>2. QED
    BY <1>1, LinkInvariant, PTL

\* What comes to the device is offered by the relay or in flash since an offer.
THEOREM NothingComesBack == LinkSafety => NoMessageComesBack
  <1>1. LinkInv /\ [LinkNext]_allVars =>
          [\A i \in DOMAIN messages :
             saved.id # i /\ saved'.id = i => <<i, Me>> \notin delivered]_allVars
    <2> SUFFICES ASSUME LinkInv, LinkNext, NEW i \in DOMAIN messages,
                        saved.id # i, saved'.id = i
                 PROVE  <<i, Me>> \notin delivered
      OBVIOUS
    <2>0. i # 0
      BY Types
    <2>1. ASSUME NEW ok \in BOOLEAN, HandleReply(ok)
          PROVE  <<i, Me>> \notin delivered
      <3> DEFINE next == AfterReply(saved, request, reply)
      <3>1. Writes(request, reply) /\ reply # NoReply /\ saved' = next
        BY <2>1 DEF HandleReply, Persist, memory
      <3>2. Accepts(next) \/ Confirms(next) \/ Rebinds(next) \/ next = saved
        BY <3>1, NextBlob
      <3>3. QED
        BY <2>0, <3>1, <3>2 DEF Accepts, Confirms, Rebinds
    <2>2. ASSUME NEW ok \in BOOLEAN, NEW linkUp \in BOOLEAN, HandleOk(ok, linkUp)
          PROVE  FALSE
      <3>1. saved' \in {saved, Read(saved)} /\ saved.id # 0
        BY <2>2 DEF HandleOk, Persist
      <3>2. QED
        BY <3>1, Types, ReadBlob
    <2>3. CASE Restart
      <3>1. saved' = flash
        BY <2>3 DEF Restart
      <3>2. QED
        BY <2>0, <3>1 DEF LinkInv, CopiesAgree
    <2>4. CASE UNCHANGED saved
      BY <2>4
    <2>5. QED
      BY <2>1, <2>2, <2>3, <2>4
         DEF LinkNext, Device, Poll, GiveUp, PressOk, DropOk, Configure, Submit,
             Serve, ServeLate, Others, memory, linkVars
  <1>2. QED
    BY <1>1, LinkInvariant, PTL DEF LinkSafety, NoMessageComesBack

-----------------------------------------------------------------------------
(* The device's inbox implements Mailbox                                   *)

Ids == 1..MessageLimit

\* A step that confirms nothing of this device's and sends it nothing is, for
\* the mailbox, a withdrawal of some of its messages.
LEMMA OnlyWithdraws ==
  ASSUME TypeOK, TypeOK', withdrawn \subseteq withdrawn',
         \A i \in Ids : /\ <<i, Me>> \in receipts' <=> <<i, Me>> \in receipts
                        /\ <<i, Me>> \in delivered' <=> <<i, Me>> \in delivered
                        /\ <<i, Me>> \in read' <=> <<i, Me>> \in read
  PROVE  Journey!Next
  <1> DEFINE I == {i \in Ids : /\ Stage(i) \in {"waiting", "held"}
                               /\ Stage(i)' = "withdrawn"}
  <1>1. \A i \in Ids : Stage(i)' = IF i \in I THEN "withdrawn" ELSE Stage(i)
    BY DEF Stage
  <1>2. Journey!Withdraw(I)
    BY <1>1, Zenon DEF Journey!Withdraw, Ids
  <1>3. I \in SUBSET Ids
    OBVIOUS
  <1>4. QED
    BY <1>2, <1>3 DEF Journey!Next, Ids

LEMMA SendsOnce ==
  ASSUME LinkInv, NEW u \in Users, NEW r \in Rooms, NEW k \in Keys,
         NEW t \in Texts, SendText(u, r, k, t), TypeOK', Len(messages') <= MessageLimit
  PROVE  Journey!Next
  <1>1. /\ TypeOK /\ Me \in Devices /\ Len(messages) \in Nat /\ MessageLimit \in Nat
        /\ DOMAIN messages = 1..Len(messages)
    BY Types
  <1>2. PICK n \in Nat : n = Len(messages) + 1
    BY <1>1
  <1>3. /\ UNCHANGED <<delivered, read, withdrawn>>
        /\ receipts' = receipts \cup ({n} \X Recipients(r))
        /\ n \in Ids
    BY <1>1, <1>2, SendAppends DEF SendText, Ids
  <1>4. CASE Me \notin Recipients(r)
    BY <1>1, <1>2, <1>3, <1>4, OnlyWithdraws
  <1>5. CASE Me \in Recipients(r)
    <2>1. \A j \in Ids : j >= n => Stage(j) = "absent"
      BY <1>1, <1>2 DEF TypeOK, Stage, Ids
    <2>2. Stage(n)' = "waiting"
      <3>1. <<n, Me>> \notin receipts
        BY <1>1, <1>2 DEF TypeOK
      <3>2. <<n, Me>> \in receipts' /\ <<n, Me>> \notin delivered \cup read \cup withdrawn
        BY <1>1, <1>2, <1>3, <1>5, <3>1 DEF TypeOK
      <3>3. QED
        BY <1>3, <3>2 DEF Stage
    <2>3. \A j \in Ids : j # n => Stage(j)' = Stage(j)
      BY <1>3 DEF Stage
    <2>4. Journey!Send(n)
      <3>1. [i \in Ids |-> Stage(i)]'
              = [[i \in Ids |-> Stage(i)] EXCEPT ![n] = "waiting"]
        BY <2>2, <2>3
      <3>2. QED
        BY <1>3, <2>1, <3>1 DEF Journey!Send, Ids
    <2>5. QED
      BY <1>3, <2>4 DEF Journey!Next, Ids
  <1>6. QED
    BY <1>4, <1>5

LEMMA ConfirmsInTurn ==
  ASSUME LinkInv, NEW q \in Request, q.kind = "ack",
         q \in late \/ (q = request /\ reply = NoReply),
         Acknowledge(Me, q.cred, q.id, q.state), TypeOK'
  PROVE  [Journey!Next]_[i \in Ids |-> Stage(i)]
  <1>0. /\ TypeOK /\ Me \in Devices /\ MessageLimit \in Nat
        /\ DOMAIN messages = 1..Len(messages) /\ Len(messages) \in Nat
        /\ Len(messages) <= MessageLimit
    BY Types
  <1>1. /\ q.id \in DOMAIN messages /\ q.id # 0
        /\ <<q.id, Me>> \notin read => flash.id = q.id /\ saved.id = q.id
    BY AcceptedReceipt
  <1>2. /\ UNCHANGED <<receipts, withdrawn>>
        /\ delivered' = delivered \cup {<<q.id, Me>>}
        /\ read' = IF q.state = "read" THEN read \cup {<<q.id, Me>>} ELSE read
        /\ <<q.id, Me>> \in receipts \ withdrawn
        /\ q.id \in Ids
    BY <1>0, <1>1 DEF Acknowledge, Open, Ids
  <1>3. \A j \in Ids : j # q.id => Stage(j)' = Stage(j)
    BY <1>2 DEF Stage
  <1>4. CASE Stage(q.id)' = Stage(q.id)
    BY <1>3, <1>4
  <1>5. CASE Stage(q.id)' # Stage(q.id)
    <2> DEFINE to == Stage(q.id)'
    <2>1. /\ <<q.id, Me>> \notin read
          /\ to \in {"held", "read"}
          /\ Stage(q.id) = "waiting" \/ (Stage(q.id) = "held" /\ to = "read")
      BY <1>2, <1>5 DEF Stage
    <2>2. flash.id = q.id /\ NoneBefore(q.id)
      BY <1>1, <2>1 DEF LinkInv, CopiesAgree
    <2>3. ASSUME NEW j \in Ids, j # q.id
          PROVE  Stage(j) # "held" /\ (j < q.id => Stage(j) # "waiting")
      <3>1. Stage(j) # "absent" => j \in DOMAIN messages
        BY <1>0 DEF Stage, TypeOK
      <3>2. Stage(j) # "held"
        BY <2>2, <2>3, <3>1 DEF LinkInv, HeldIsKept, Settled, Stage
      <3>3. j < q.id => Stage(j) # "waiting"
        BY <2>2, <3>1 DEF NoneBefore, Stage
      <3>4. QED
        BY <3>2, <3>3
    <2>4. Journey!Advance(q.id, to)
      BY <1>2, <1>3, <2>1, <2>3 DEF Journey!Advance, Journey!Turn, Ids
    <2>5. QED
      BY <1>2, <2>1, <2>4 DEF Journey!Next, Ids
  <1>6. QED
    BY <1>4, <1>5

\* Every step of the device, the network and the relay is a step of Mailbox or
\* leaves it alone.
LEMMA MailboxStep ==
  LinkInv /\ [LinkNext]_allVars => [Journey!Next]_[i \in Ids |-> Stage(i)]
  <1> SUFFICES ASSUME LinkInv, [LinkNext]_allVars
               PROVE  [Journey!Next]_[i \in Ids |-> Stage(i)]
    OBVIOUS
  <1>1. /\ [Next]_vars /\ StoreInv' /\ TypeOK' /\ TypeOK
        /\ Len(messages') <= MessageLimit
        /\ delivered \subseteq delivered' /\ read \subseteq read'
        /\ withdrawn \subseteq withdrawn'
    BY LinkStepIsStoreStep, StoreKeepsOrder, StoreGrows, Types
       DEF StoreInv, LinkInv
  <1>2. CASE UNCHANGED vars
    BY <1>1, <1>2, OnlyWithdraws, StoreStill
  <1>3. ASSUME NEW q \in Request, NEW a, Execute(q, a),
               q \in late \/ (q = request /\ reply = NoReply)
        PROVE  [Journey!Next]_[i \in Ids |-> Stage(i)]
    <2>1. CASE q.kind = "ack" /\ Acknowledge(Me, q.cred, q.id, q.state)
      BY <1>1, <1>3, <2>1, ConfirmsInTurn
    <2>2. ASSUME NEW u \in Users, ConsumePairing(q.code, u, Me)
          PROVE  Journey!Next
      BY <1>1, <2>2, OnlyWithdraws DEF ConsumePairing, receiptVars
    <2>3. QED
      BY <1>2, <1>3, <2>1, <2>2 DEF Execute
  <1>4. CASE Serve
    BY <1>3, <1>4, ServedRequests DEF Serve
  <1>5. CASE ServeLate
    BY <1>3, <1>5, ServedRequests DEF ServeLate
  <1>6. CASE Others
    <2>1. CASE \E u \in Users, r \in Rooms, k \in Keys, t \in Texts :
                 SendText(u, r, k, t)
      BY <1>1, <2>1, SendsOnce
    <2>2. CASE receipts' = receipts
      <3>1. \A p \in (delivered' \ delivered) \cup (read' \ read) : p[2] # Me
        BY <1>6 DEF Others
      <3>2. \A i \in Ids : /\ <<i, Me>> \in delivered' <=> <<i, Me>> \in delivered
                           /\ <<i, Me>> \in read' <=> <<i, Me>> \in read
        BY <1>1, <3>1
      <3>3. QED
        BY <1>1, <2>2, <3>2, OnlyWithdraws
    <2>3. Next
      BY <1>6 DEF Others
    <2>4. QED
      BY <2>1, <2>2, <2>3, RoomDeviceFrame, QuietSteps
         DEF Next, MessageStep, Acknowledge, receiptVars
  <1>7. QED
    BY <1>2, <1>4, <1>5, <1>6, DeviceFrame DEF LinkNext, allVars

\* The device and the relay together keep the promise of Mailbox.
THEOREM DeliveryInOrder == LinkSafety => DeliversInOrder
  <1>1. LinkInit => Journey!Init
    BY DEF LinkInit, Init, Journey!Init, Stage
  <1>2. QED
    BY <1>1, LinkInvariant, MailboxStep, PTL
       DEF LinkSafety, DeliversInOrder, Journey!Spec, Ids

-----------------------------------------------------------------------------
(* What was read was displayed                                             *)

\* The view is the message in RAM, a key that is not stale was pressed on it,
\* and every receipt that says read is of a message confirmed by a key.
ShownInv ==
  /\ view = saved.id
  /\ command = "ok" => view \in confirmed \cup {0}
  /\ \A s \in {flash, saved} : s.receipt = "read_pending" => s.id \in confirmed
  /\ \A q \in late \cup {request} :
       q.kind = "ack" => (q.state = "read" => q.id \in confirmed)
  /\ ReadWasDisplayed

LEMMA ShownInit == LinkInit => ShownInv
  BY DEF LinkInit, Init, ShownInv, ReadWasDisplayed, Unpaired, Idle

LEMMA RelayKeepsShown ==
  ASSUME LinkInv, ShownInv, [Next]_vars, late' \subseteq late,
         UNCHANGED <<memory, ui, request, confirmed>>,
         \A i \in Nat : <<i, Me>> \in read' \ read => i \in confirmed
  PROVE  ShownInv'
  <1>1. UNCHANGED <<flash, saved, view, busy, command, request, confirmed>>
    BY DEF memory, ui
  <1>2. \A i \in DOMAIN messages' : i \in Nat
    BY StoreKeepsOrder
  <1>3. TypeOK
    BY Types
  <1>4. ASSUME NEW i \in DOMAIN messages', <<i, Me>> \in read' PROVE i \in confirmed
    <2>1. <<i, Me>> \in read => i \in DOMAIN messages
      BY <1>3 DEF TypeOK
    <2>2. QED
      BY <1>2, <1>4, <2>1 DEF ShownInv, ReadWasDisplayed
  <1>5. QED
    BY <1>1, <1>4 DEF ShownInv, ReadWasDisplayed

\* Without a stalled display what a reply puts into RAM is on the screen.
LEMMA ReplyKeepsShown ==
  ASSUME ~DisplayStalls, LinkInv, ShownInv, NEW ok \in BOOLEAN, HandleReply(ok)
  PROVE  ShownInv'
  <1> DEFINE next == AfterReply(saved, request, reply)
  <1>1. /\ UNCHANGED <<vars, late, confirmed>> /\ request' = Idle
        /\ reply # NoReply /\ ReadWasDisplayed'
    BY DEF HandleReply, Finish, ShownInv, ReadWasDisplayed, vars, receiptVars
  <1>2. CASE Writes(request, reply)
    <2>1. next.receipt = "read_pending" => saved.receipt = "read_pending" /\ next.id = saved.id
      BY Types DEF AfterReply, Accepted, Acknowledged, Cleared, Unpaired, Valid, State
    <2>2. /\ flash' \in {flash, next} /\ saved' \in {saved, next}
          /\ ok => saved' = next
          /\ ~ok => saved' = saved /\ view' = view /\ command' = command
      BY <1>2 DEF HandleReply, Persist
    <2>3. ok => /\ view' = next.id
                /\ command' = IF view # next.id /\ command = "ok" THEN "stale" ELSE command
      BY <1>2 DEF HandleReply, Render
    <2>4. QED
      BY <1>1, <2>1, <2>2, <2>3 DEF ShownInv, Idle
  <1>3. CASE ~Writes(request, reply)
    <2>1. UNCHANGED <<flash, saved, view, command>>
      BY <1>3 DEF HandleReply, memory
    <2>2. QED
      BY <1>1, <2>1 DEF ShownInv, Idle
  <1>4. QED
    BY <1>2, <1>3

LEMMA OkKeepsShown ==
  ASSUME LinkInv, ShownInv, NEW ok \in BOOLEAN, NEW linkUp \in BOOLEAN, HandleOk(ok, linkUp)
  PROVE  ShownInv'
  <1>1. command = "ok" /\ saved.id # 0 /\ saved.id \in confirmed
    BY DEF HandleOk, Obsolete, ShownInv
  <1>2. Valid(saved) /\ Read(saved).id = saved.id
    BY <1>1, Types, ReadBlob
  <1>3. Receipt(Read(saved)).id = saved.id
    BY <1>2 DEF Receipt
  <1>4. /\ flash' \in {flash, Read(saved)} /\ saved' \in {saved, Read(saved)}
        /\ command' = "none" /\ request' \in {Receipt(Read(saved)), Idle}
        /\ UNCHANGED <<view, late, confirmed, messages, read>>
    BY DEF HandleOk, Persist, vars, receiptVars
  <1>5. QED
    BY <1>1, <1>2, <1>3, <1>4 DEF ShownInv, ReadWasDisplayed, Idle

LEMMA DeviceKeepsShown == ASSUME ~DisplayStalls, LinkInv, ShownInv, Device PROVE ShownInv'
  <1>0. UNCHANGED <<messages, read>>
    BY DeviceFrame DEF vars, receiptVars
  <1> USE DEF ShownInv, ReadWasDisplayed, memory, ui, net
  <1>1. CASE Poll
    <2>1. request' \in {[kind |-> "inbox", cred |-> saved.cred], Receipt(saved), Idle}
      BY <1>1 DEF Poll, NextRequest
    <2>2. Receipt(saved).id = saved.id
          /\ (Receipt(saved).state = "read" => saved.receipt = "read_pending")
      BY DEF Receipt
    <2>3. QED
      BY <1>0, <1>1, <2>1, <2>2 DEF Poll, Idle
  <1>2. late' \in Abandoned => late' \subseteq late \cup {request}
    BY DEF Abandoned
  <1>3. CASE GiveUp
    BY <1>0, <1>2, <1>3 DEF GiveUp, Finish, Idle
  <1>4. CASE Restart
    BY <1>0, <1>2, <1>4 DEF Restart, Idle
  <1>5. CASE PressOk
    BY <1>0, <1>5 DEF PressOk
  <1>6. CASE DropOk
    BY <1>0, <1>6 DEF DropOk
  <1>7. CASE Configure
    BY <1>0, <1>7 DEF Configure
  <1>8. ASSUME NEW c \in PairingCodes \cup {"wifi"}, Submit(c) PROVE ShownInv'
    <2>1. command' # "ok"
      BY <1>8, LinkAssumption DEF Submit
    <2>2. QED
      BY <1>0, <1>8, <2>1 DEF Submit
  <1>9. QED
    BY <1>1, <1>3, <1>4, <1>5, <1>6, <1>7, <1>8, ReplyKeepsShown, OkKeepsShown DEF Device

LEMMA ServedWasShown ==
  ASSUME LinkInv, ShownInv, NEW q \in late \cup {request}, NEW a, Execute(q, a)
  PROVE  \A i \in Nat : <<i, Me>> \in read' \ read => i \in confirmed
  <1>1. CASE q.kind = "ack" /\ Acknowledge(Me, q.cred, q.id, q.state)
    BY <1>1 DEF Acknowledge, ShownInv
  <1>2. ASSUME NEW u \in Users, ConsumePairing(q.code, u, Me) PROVE read' = read
    BY <1>2 DEF ConsumePairing, receiptVars
  <1>3. CASE UNCHANGED vars
    BY <1>3 DEF vars, receiptVars
  <1>4. QED
    BY <1>1, <1>2, <1>3 DEF Execute

LEMMA ShownStep ==
  ASSUME ~DisplayStalls, LinkInv, ShownInv, [LinkNext]_allVars PROVE ShownInv'
  <1>1. [Next]_vars
    BY LinkStepIsStoreStep
  <1>2. CASE Serve
    <2>1. PICK a \in Answers : Execute(request, a)
      BY <1>2 DEF Serve
    <2>2. \A i \in Nat : <<i, Me>> \in read' \ read => i \in confirmed
      BY <2>1, ServedWasShown
    <2>3. QED
      BY <1>1, <1>2, <2>2, RelayKeepsShown DEF Serve
  <1>3. CASE ServeLate
    <2>1. PICK q \in late, a \in Answers : Execute(q, a) /\ late' = late \ {q}
      BY <1>3 DEF ServeLate
    <2>2. \A i \in Nat : <<i, Me>> \in read' \ read => i \in confirmed
      BY <2>1, ServedWasShown
    <2>3. QED
      BY <1>1, <1>3, <2>1, <2>2, RelayKeepsShown DEF ServeLate
  <1>4. CASE Others
    BY <1>1, <1>4, RelayKeepsShown DEF Others, linkVars, net
  <1>5. CASE UNCHANGED allVars
    BY <1>1, <1>5, RelayKeepsShown DEF allVars, linkVars, net, vars, receiptVars
  <1>6. QED
    BY <1>2, <1>3, <1>4, <1>5, DeviceKeepsShown DEF LinkNext

\* If the display never stalls, the relay shows a message as read only if its
\* user pressed OK on it: failed writes, resets, keys that are overtaken by a
\* new message and late receipts included.
THEOREM ReadOnlyIfDisplayed ==
  ASSUME ~DisplayStalls PROVE LinkSafety => []ReadWasDisplayed
  <1>1. LinkInv /\ ShownInv /\ [LinkNext]_allVars => ShownInv'
    BY ShownStep
  <1>2. ShownInv => ReadWasDisplayed
    BY DEF ShownInv
  <1>3. QED
    BY <1>1, <1>2, ShownInit, LinkInvariant, PTL DEF LinkSafety
=============================================================================
