----------------------------- MODULE DeviceLink -----------------------------
(***************************************************************************)
(* One PocketLink device and the relay: the worker loop of the firmware    *)
(* (firmware/apps/pocketlink/main/main.c) polls the inbox, keeps one       *)
(* message in flash, acknowledges it, and is paired by the portal, over a  *)
(* network that loses requests and replies or serves a request after the   *)
(* device gave it up; the power may fail between any two steps.            *)
(*                                                                         *)
(* The worker is one task and waits for each HTTPS exchange, so it has at  *)
(* most one request out; the buttons and the portal run in other tasks and *)
(* hand it one command at a time (activity.busy).  Everything the relay    *)
(* does for others is a step of RelayStore.                                *)
(***************************************************************************)
EXTENDS RelayStore, FiniteSetsExt

CONSTANTS Me,            \* this device
          MaxLate,       \* bound: requests still on their way after a timeout
          DisplayStalls  \* may the display stay locked for a whole second

ASSUME LinkAssumption ==
  /\ Me \in Devices /\ MaxLate \in Nat /\ DisplayStalls \in BOOLEAN
  /\ {"none", "ok", "stale", "wifi"} \cap PairingCodes = {}

VARIABLES
  flash,      \* the saved_state blob in NVS: credential, message, its receipt
  saved,      \* its copy in RAM, which the worker acts on
  view,       \* view_message_id: the message on the screen, 0 for none
  busy,       \* activity.busy: a command is queued or being handled
  command,    \* the queued command; a key turns stale with a new view
  request,    \* the exchange the worker waits for
  reply,      \* what the relay answered to it
  late,       \* requests the worker gave up that are still on their way
  confirmed   \* history: messages on the screen when the user pressed OK

memory == <<flash, saved>>
ui == <<view, busy, command>>
net == <<request, reply, late>>
linkVars == <<memory, ui, net, confirmed>>
allVars == <<vars, linkVars>>

State == [cred : 0..MaxCredentials, id : 0..MessageLimit,
          receipt : {"empty", "received_pending", "received", "read_pending"}]
Request ==
  [kind : {"inbox", "me"}, cred : 1..MaxCredentials]
    \cup [kind : {"ack"}, cred : 1..MaxCredentials, id : 1..MessageLimit,
          state : {"received", "read"}]
    \cup [kind : {"pair"}, code : PairingCodes]

Unpaired == [cred |-> 0, id |-> 0, receipt |-> "empty"]
Idle     == [kind |-> "idle"]
NoReply  == [status |-> 0, value |-> 0]

LinkInit ==
  /\ Init
  /\ flash = Unpaired /\ saved = Unpaired
  /\ view = 0 /\ busy = FALSE /\ command = "none"
  /\ request = Idle /\ reply = NoReply /\ late = {}
  /\ confirmed = {}

-----------------------------------------------------------------------------
(* pocketlink_inbox: the one message and its receipt                       *)

Accepted(s, i) == [cred |-> s.cred, id |-> i, receipt |-> "received_pending"]
Read(s)        == [s EXCEPT !.receipt = "read_pending"]

\* Mutant of Cleared: forgets the receipt of the message it removes.
ClearedOfText(s) == [s EXCEPT !.id = 0]

Cleared(s) == [cred |-> s.cred, id |-> 0, receipt |-> "empty"]

Acknowledged(s) ==
  IF s.receipt = "read_pending" THEN Cleared(s) ELSE [s EXCEPT !.receipt = "received"]

\* Mutant of Persist: takes the new state over before it is known to be saved.
PersistRamFirst(next, ok) ==
  /\ saved' = next
  /\ IF ok THEN flash' = next ELSE flash' \in {flash, next}

\* Writing the blob and only then the RAM copy.  A write or commit that fails
\* leaves RAM as it was, and in flash either blob.
Persist(next, ok) ==
  IF ok THEN flash' = next /\ saved' = next
        ELSE flash' \in {flash, next} /\ saved' = saved

\* A new message on the screen makes the key of an older view stale.
Render(i) ==
  \/ /\ view' = i
     /\ command' = IF view # i /\ command = "ok" THEN "stale" ELSE command
  \/ DisplayStalls /\ UNCHANGED <<view, command>>

-----------------------------------------------------------------------------
(* What the worker asks for and what it does with the answer               *)

Receipt(s) ==
  [kind |-> "ack", cred |-> s.cred, id |-> s.id,
   state |-> IF s.receipt = "read_pending" THEN "read" ELSE "received"]

\* receive_text, up to its request: first the receipt of the message it has,
\* and nothing at all while the message waits to be read.
NextRequest(s) ==
  IF s.id = 0 THEN [kind |-> "inbox", cred |-> s.cred]
  ELSE IF s.receipt = "received" THEN Idle
  ELSE Receipt(s)

\* The state the worker persists for a reply; the state it has if it persists
\* nothing or only the Wi-Fi settings.
AfterReply(s, q, a) ==
  IF q.kind = "inbox" /\ a.status = 200 /\ a.value # 0 THEN Accepted(s, a.value)
  ELSE IF q.kind = "ack" /\ a.status = 200 THEN Acknowledged(s)
  ELSE IF q.kind = "ack" /\ a.status = 404 THEN Cleared(s)
  ELSE IF q.kind = "pair" /\ a.status = 200 THEN [Unpaired EXCEPT !.cred = a.value]
  ELSE s

Writes(q, a) ==
  \/ a.status = 200 /\ (q.kind = "inbox" => a.value # 0)
  \/ a.status = 404 /\ q.kind = "ack"

Poll ==
  /\ request = Idle /\ ~busy
  /\ saved.cred # 0
  /\ NextRequest(saved) # Idle
  /\ request' = NextRequest(saved)
  /\ UNCHANGED <<vars, memory, ui, reply, late, confirmed>>

\* Mutant of Finish: a path that forgets activity_end.
FinishStillBusy == request' = Idle /\ reply' = NoReply /\ busy' = busy

\* The worker's request is over, and with it the command it was for.
Finish ==
  /\ request' = Idle /\ reply' = NoReply
  /\ busy' = (command # "none")

HandleReply(ok) ==
  /\ reply # NoReply
  /\ IF Writes(request, reply)
       THEN LET next == AfterReply(saved, request, reply) IN
            /\ Persist(next, ok)
            /\ IF ok THEN Render(next.id) ELSE UNCHANGED <<view, command>>
       ELSE ok /\ UNCHANGED <<memory, view, command>>
  /\ Finish
  /\ UNCHANGED <<vars, late, confirmed>>

\* An unserved request that is given up is lost, or reaches the relay late.
Abandoned ==
  IF request # Idle /\ reply = NoReply /\ Cardinality(late \cup {request}) <= MaxLate
    THEN {late, late \cup {request}} ELSE {late}

\* Timeout, connection error or an unusable reply: nothing changes.
GiveUp ==
  /\ request # Idle
  /\ late' \in Abandoned
  /\ Finish
  /\ UNCHANGED <<vars, memory, view, command, confirmed>>

\* Power loss or reset; the relay may still get the request that was out.
Restart ==
  /\ saved' = flash
  /\ view' \in (IF DisplayStalls THEN {0} ELSE {}) \cup {flash.id}
  /\ busy' = FALSE /\ command' = "none"
  /\ late' \in Abandoned
  /\ request' = Idle /\ reply' = NoReply
  /\ UNCHANGED <<vars, flash, confirmed>>

-----------------------------------------------------------------------------
(* Commands                                                                *)

\* The user presses OK; the key carries the view it was pressed on.
PressOk ==
  /\ ~busy
  /\ busy' = TRUE /\ command' = "ok"
  /\ confirmed' = confirmed \cup ({view} \ {0})
  /\ UNCHANGED <<vars, memory, view, net>>

\* The portal submits a pairing code, or new Wi-Fi settings for the binding.
Submit(c) ==
  /\ ~busy
  /\ c \in PairingCodes \/ (c = "wifi" /\ saved.cred # 0)
  /\ busy' = TRUE /\ command' = c
  /\ UNCHANGED <<vars, memory, view, net, confirmed>>

\* Mutant of Obsolete: any key on a screen with a message is for that message.
NeverObsolete(key) == FALSE

Obsolete(key) == key = "stale"

\* A key that nothing is done for: pressed on an older view, or no message.
DropOk ==
  /\ request = Idle /\ command \in {"ok", "stale"}
  /\ Obsolete(command) \/ saved.id = 0
  /\ command' = "none" /\ busy' = FALSE
  /\ UNCHANGED <<vars, memory, view, net, confirmed>>

\* OK on a message: saved as read first, then its receipt is sent if the link
\* is up.
HandleOk(ok, linkUp) ==
  /\ request = Idle /\ command \in {"ok", "stale"}
  /\ ~Obsolete(command) /\ saved.id # 0
  /\ Persist(Read(saved), ok)
  /\ command' = "none"
  /\ busy' = (ok /\ linkUp)
  /\ request' = IF ok /\ linkUp THEN Receipt(Read(saved)) ELSE Idle
  /\ UNCHANGED <<vars, view, reply, late, confirmed>>

\* configure: exchanges the code for a credential, or proves the one it has.
Configure ==
  /\ request = Idle
  /\ command \in PairingCodes \cup {"wifi"}
  /\ command' = "none"
  /\ request' = IF command = "wifi" THEN [kind |-> "me", cred |-> saved.cred]
                ELSE [kind |-> "pair", code |-> command]
  /\ UNCHANGED <<vars, memory, view, busy, reply, late, confirmed>>

-----------------------------------------------------------------------------
(* The relay's handlers                                                    *)

Answer(value) == [status |-> 200, value |-> value]
Denied == [status |-> 401, value |-> 0]

\* Mutant of Oldest: the newest message first.
Newest(c) == IF Pending(Me, c) = {} THEN 0 ELSE Max(Pending(Me, c))

\* The first message of the page, 0 for an empty one.
Oldest(c) == IF Pending(Me, c) = {} THEN 0 ELSE Min(Pending(Me, c))

MayConsume(p, u) ==
  /\ <<p, u>> \in pairings /\ u \notin disabled
  /\ MayPair(u, Me) /\ RoomForDevice(Me)
  /\ credential[Me] < MaxCredentials

\* Each handler and its answer a.  ErrDenied is 401 for a receipt too, whatever
\* the reason it can no longer be changed (messageError, dbError).
Execute(q, a) ==
  \/ /\ q.kind = "inbox"
     /\ a = IF Authenticated(Me, q.cred) THEN Answer(Oldest(q.cred)) ELSE Denied
     /\ UNCHANGED vars
  \/ /\ q.kind = "me"
     /\ a = IF Authenticated(Me, q.cred) THEN Answer(0) ELSE Denied
     /\ UNCHANGED vars
  \/ /\ q.kind = "ack"
     /\ a = Answer(0)
     /\ Acknowledge(Me, q.cred, q.id, q.state)
  \/ /\ q.kind = "ack" /\ ~Open(Me, q.cred, q.id)
     /\ a = Denied
     /\ UNCHANGED vars
  \/ /\ q.kind = "pair"
     /\ a = Answer(credential[Me] + 1)
     /\ \E u \in Users : ConsumePairing(q.code, u, Me)
  \/ /\ q.kind = "pair" /\ \A u \in Users : ~MayConsume(q.code, u)
     /\ a = Denied
     /\ UNCHANGED vars

Answers == {Denied} \cup {Answer(n) : n \in 0..(MessageLimit + MaxCredentials)}

Serve ==
  /\ request # Idle /\ reply = NoReply
  /\ \E a \in Answers : Execute(request, a) /\ reply' = a
  /\ UNCHANGED <<memory, ui, request, late, confirmed>>

ServeLate ==
  \E q \in late :
    /\ \E a \in Answers : Execute(q, a)
    /\ late' = late \ {q}
    /\ UNCHANGED <<memory, ui, request, reply, confirmed>>

\* What the relay does for everybody else: this device's credential and its
\* receipts change by its own requests only.
Others ==
  /\ Next
  /\ credential'[Me] = credential[Me]
  /\ \A p \in (delivered' \ delivered) \cup (read' \ read) : p[2] # Me
  /\ UNCHANGED linkVars

Device ==
  \/ Poll \/ GiveUp \/ Restart \/ PressOk \/ DropOk \/ Configure
  \/ \E ok \in BOOLEAN : HandleReply(ok)
  \/ \E ok, linkUp \in BOOLEAN : HandleOk(ok, linkUp)
  \/ \E c \in PairingCodes \cup {"wifi"} : Submit(c)

LinkNext == Device \/ Serve \/ ServeLate \/ Others

LinkSafety == LinkInit /\ [][LinkNext]_allVars

\* The worker loop goes on (also after each restart), a kind of request that is
\* retried forever is served and its reply handled at last, writes do not all
\* fail, and the user reads what is on the screen.
Fairness ==
  /\ SF_allVars(Poll) /\ WF_allVars(GiveUp)
  /\ \A kind \in {"inbox", "ack"} :
       /\ SF_allVars(Serve /\ request.kind = kind)
       /\ SF_allVars(HandleReply(TRUE) /\ request.kind = kind)
  /\ WF_allVars(DropOk) /\ WF_allVars(Configure)
  /\ SF_allVars(HandleOk(TRUE, TRUE)) /\ SF_allVars(PressOk /\ view # 0)

LinkSpec == LinkSafety /\ Fairness
-----------------------------------------------------------------------------
(* Properties                                                              *)

\* Both copies of the blob are ones the firmware boots from (pl_inbox_valid).
LinkTypeOK ==
  /\ {flash, saved} \subseteq State
  /\ \A s \in {flash, saved} : s.id = 0 <=> s.receipt = "empty"
  /\ view \in 0..MessageLimit
  /\ busy \in BOOLEAN
  /\ command \in {"none", "ok", "stale", "wifi"} \cup PairingCodes
  /\ request \in Request \cup {Idle}
  /\ reply \in Answers \cup {NoReply}
  /\ late \subseteq Request
  /\ confirmed \subseteq 1..MessageLimit

\* The relay no longer waits for this device to read message i.
Settled(i) == <<i, Me>> \in read \cup withdrawn

\* Every older message of this device was delivered or withdrawn.
NoneBefore(i) ==
  /\ i <= Len(messages)
  /\ \A j \in DOMAIN messages :
       j < i => <<j, Me>> \notin receipts \ (delivered \cup withdrawn)

\* What the worker asks follows from the blob it has in RAM, which only the
\* reply or a reset changes.
RequestFollowsSaved ==
  /\ command = "wifi" => saved.cred # 0
  /\ \/ request \in {Idle, [kind |-> "me", cred |-> saved.cred]}
     \/ request \in [kind : {"pair"}, code : PairingCodes]
     \/ request = [kind |-> "inbox", cred |-> saved.cred] /\ saved.id = 0
     \/ request = Receipt(saved) /\ saved.id # 0

\* No credential is known before it was issued, and a pairing whose reply is
\* on its way made every known one useless.
CredentialsIssued ==
  LET known == {flash, saved} \cup {q \in late : q.kind # "pair"}
      paired == reply.status = 200 /\ request.kind = "pair"
  IN /\ \A s \in known : IF paired THEN s.cred < credential[Me]
                                   ELSE s.cred <= credential[Me]
     /\ paired => reply.value \in 1..credential[Me]

\* A reply is to the request that is out.  An offered message is still the
\* next one, one acknowledged as read is settled, and after a pairing every
\* older one is.
ReplyFits ==
  /\ reply # NoReply => request # Idle
  /\ reply.status = 200 /\ request.kind = "inbox" /\ reply.value # 0 =>
       /\ NoneBefore(reply.value)
       /\ <<reply.value, Me>> \notin delivered
  /\ reply.status = 200 /\ request = Receipt(saved) /\ saved.receipt = "read_pending"
       => Settled(saved.id)
  /\ reply.status = 200 /\ request.kind = "pair" =>
       \A i \in DOMAIN messages : <<i, Me>> \in delivered => Settled(i)

\* Flash and RAM hold the same message, or a write failed: then RAM has none
\* and flash a new one, or the message is settled, or paired away.
CopiesAgree ==
  /\ \A s \in {flash, saved} : s.id # 0 => s.cred # 0 /\ NoneBefore(s.id)
  /\ saved.id = 0 /\ flash.id # 0 => <<flash.id, Me>> \notin delivered
  /\ saved.id # 0 /\ flash.id # saved.id =>
       /\ flash.id = 0
       /\ saved.cred = credential[Me] => Settled(saved.id)

\* What the relay holds for this device, or may still learn from a request
\* that is under way, is in flash and in RAM.
HeldIsKept ==
  /\ \A i \in DOMAIN messages :
       <<i, Me>> \in delivered /\ ~Settled(i) => flash.id = i /\ saved.id = i
  /\ \A q \in late : q.kind = "ack" /\ q.cred = credential[Me] /\ ~Settled(q.id)
                       => flash.id = q.id /\ saved.id = q.id

\* The inductive invariant of the device and the relay together.
LinkInv ==
  /\ StoreInv /\ Len(messages) <= MessageLimit
  /\ LinkTypeOK
  /\ RequestFollowsSaved
  /\ CredentialsIssued
  /\ ReplyFits
  /\ CopiesAgree
  /\ HeldIsKept

\* "Never acknowledge while the only copy is in volatile memory": a message the
\* relay counts as received, and not as read, is in this device's flash, after
\* any failed write, power loss and late request.
ReceivedIsInFlash ==
  \A i \in DOMAIN messages :
    <<i, Me>> \in delivered \ (read \cup withdrawn) => flash.id = i

\* The relay shows a message as read only if its user pressed OK while that
\* message was on the screen ("send read only after displaying it").
ReadWasDisplayed == \A i \in DOMAIN messages : <<i, Me>> \in read => i \in confirmed

\* "Devices deduplicate by message id": a message that comes (back) to the
\* device, from the relay or from flash, was never acknowledged before.
NoMessageComesBack ==
  [][\A i \in DOMAIN messages :
       saved.id # i /\ saved'.id = i => <<i, Me>> \notin delivered]_allVars

\* What the relay's rows say of each message for this device.
Stage(i) ==
  IF <<i, Me>> \notin receipts THEN "absent"
  ELSE IF <<i, Me>> \in read THEN "read"
  ELSE IF <<i, Me>> \in withdrawn THEN "withdrawn"
  ELSE IF <<i, Me>> \in delivered THEN "held"
  ELSE "waiting"

Journey == INSTANCE Mailbox WITH Ids <- 1..MessageLimit,
                                 stage <- [i \in 1..MessageLimit |-> Stage(i)]

\* One message at a time, oldest first, each read once or withdrawn.
DeliversInOrder == Journey!Spec

\* The device keeps a message whose receipt the relay will refuse for good.
HoldsWithdrawn == <<saved.id, Me>> \in withdrawn

\* A message in the device's inbox gets into its flash, or its right to it
\* ends; unless a withdrawn message stands in its way.
PendingArrives ==
  \A i \in 1..MessageLimit :
    (i \in Pending(Me, saved.cred)) ~>
      (flash.id = i \/ i \notin Pending(Me, saved.cred) \/ HoldsWithdrawn)

\* "A 404 receipt response after room permission withdrawal removes the current
\* local message" (device-provisioning.en.md:79): a device that retries a
\* receipt with a credential the relay accepts gets rid of a withdrawn message.
WithdrawnIsRemoved ==
  \A i \in 1..MessageLimit :
    (saved.id = i /\ saved.receipt # "received" /\ <<i, Me>> \in withdrawn) ~>
      (saved.id # i \/ ~Authenticated(Me, saved.cred))
=============================================================================
