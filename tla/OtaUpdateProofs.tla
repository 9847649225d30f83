-------------------------- MODULE OtaUpdateProofs --------------------------
(***************************************************************************)
(* Proofs about firmware updates, for any set of signed packages, any      *)
(* limit of stored releases, and any releases that fail to start.          *)
(***************************************************************************)
EXTENDS OtaUpdate, TLAPS

\* The slot the device comes back to when a trial fails: the one it runs, but
\* during a trial.
Home == IF mark[selected] \in {"unset", "valid"} THEN selected ELSE Other(selected)

\* At home there is always a whole image that is not on trial; an image on
\* trial is whole, its intent is saved, and the trial ends with the start.
BootInv ==
  /\ mark[Home] \in {"unset", "valid"}
  /\ content[Home] # NoRelease
  /\ OnTrial =>
       /\ content[selected] # NoRelease
       /\ intent = [slot |-> selected, sequence |-> content[selected].sequence]
       /\ seq <= content[selected].sequence
  /\ mark[selected] = "new" => pc \in {"off", "restart"}
  /\ mark[selected] = "trying" => pc \in {"off", "starting"}
  /\ pc # "off" => running = IF mark[selected] = "trying" THEN selected ELSE Home

\* The count is behind what is at home only while an intent says by how much.
IntentAtHome == intent # NoIntent /\ intent.slot = Home
CountInv ==
  /\ seq <= content[Home].sequence
  /\ IntentAtHome => intent.sequence = content[Home].sequence
  /\ ~IntentAtHome => seq = content[Home].sequence
  /\ pc \in {"marked", "counted"} => IntentAtHome
  /\ pc = "counted" => seq = content[Home].sequence
  /\ pc \in Confirmed => ~IntentAtHome

\* What is offered is newer than what is installed until it is switched to.
OfferInv ==
  /\ pc \in {"prompt", "loading", "loaded", "intended"} =>
       offer # NoRelease /\ seq < offer.sequence
  /\ pc \in {"loaded", "intended"} => content[Other(Home)] = offer
  /\ pc = "intended" =>
       intent = [slot |-> Other(Home), sequence |-> offer.sequence]

\* A sequence that the relay has accepted names one release for good.
Known == {p \in Releases : \/ p \in stored \cup {channel, offer}
                           \/ \E s \in Slots : content[s] = p}
KnownInv ==
  /\ \A p \in Known : p.sequence <= highest
  /\ \A p, q \in Known : p.sequence = q.sequence => p = q

OtaInv == OtaTypeOK /\ BootInv /\ CountInv /\ OfferInv /\ KnownInv

-----------------------------------------------------------------------------
(* Facts about slots and packages                                          *)

LEMMA SlotFacts ==
  /\ \A s \in Slots : Other(s) \in Slots /\ Other(s) # s /\ Other(Other(s)) = s
  /\ \A s, t \in Slots : s # t => t = Other(s)
BY DEF Slots, Other

LEMMA PackageFacts ==
  /\ \A p \in Releases : p.sequence \in Nat /\ p.sequence # 0 /\ p # Factory
  /\ Factory.sequence = 0 /\ Factory # NoRelease
  /\ NoRelease \notin Installed /\ NoRelease \notin Releases
  /\ \A p \in Installed : p.sequence \in Nat
BY OtaAssumption DEF Factory, Installed

LEMMA OtaInit == Init => OtaInv
BY SlotFacts, PackageFacts, OtaAssumption
   DEF Init, OtaInv, OtaTypeOK, BootInv, CountInv, OfferInv, KnownInv, Known, Home,
       IntentAtHome, OnTrial, Slots, Installed, Places, Confirmed, Other, Factory

-----------------------------------------------------------------------------

LEMMA KeepsAddFirmware ==
  ASSUME OtaInv, NEW p \in Releases, AddFirmware(p) PROVE OtaInv'
<1> USE DEF OtaInv
<1>1. OtaTypeOK'
  BY PackageFacts DEF AddFirmware, OtaTypeOK, bootVars, nvsVars
<1>2. BootInv' /\ CountInv' /\ OfferInv'
  BY DEF AddFirmware, BootInv, CountInv, OfferInv, OnTrial, Home, IntentAtHome,
         bootVars, nvsVars
<1>3. KnownInv'
  BY PackageFacts DEF AddFirmware, OtaTypeOK, KnownInv, Known, Newer, bootVars
<1> QED BY <1>1, <1>2, <1>3

LEMMA KeepsPublishFirmware ==
  ASSUME OtaInv, NEW p \in Releases, PublishFirmware(p) PROVE OtaInv'
<1> USE DEF OtaInv
<1>1. OtaTypeOK'
  BY PackageFacts DEF PublishFirmware, OtaTypeOK, bootVars, nvsVars
<1>2. BootInv' /\ CountInv' /\ OfferInv'
  BY DEF PublishFirmware, BootInv, CountInv, OfferInv, OnTrial, Home, IntentAtHome,
         bootVars, nvsVars
<1>3. KnownInv'
  BY PackageFacts DEF PublishFirmware, OtaTypeOK, KnownInv, Known, Newer, bootVars
<1> QED BY <1>1, <1>2, <1>3

LEMMA KeepsWithdraw ==
  ASSUME OtaInv, Withdraw PROVE OtaInv'
<1> USE DEF OtaInv
<1>1. OtaTypeOK'
  BY PackageFacts DEF Withdraw, OtaTypeOK, bootVars, nvsVars
<1>2. BootInv' /\ CountInv' /\ OfferInv'
  BY DEF Withdraw, BootInv, CountInv, OfferInv, OnTrial, Home, IntentAtHome,
         bootVars, nvsVars
<1>3. KnownInv'
  BY PackageFacts DEF Withdraw, OtaTypeOK, KnownInv, Known, Newer, bootVars
<1> QED BY <1>1, <1>2, <1>3

LEMMA KeepsDeleteFirmware ==
  ASSUME OtaInv, NEW p \in Releases, DeleteFirmware(p) PROVE OtaInv'
<1> USE DEF OtaInv
<1>1. OtaTypeOK'
  BY PackageFacts DEF DeleteFirmware, OtaTypeOK, bootVars, nvsVars
<1>2. BootInv' /\ CountInv' /\ OfferInv'
  BY DEF DeleteFirmware, BootInv, CountInv, OfferInv, OnTrial, Home, IntentAtHome,
         bootVars, nvsVars
<1>3. KnownInv'
  BY PackageFacts DEF DeleteFirmware, OtaTypeOK, KnownInv, Known, Newer, bootVars
<1> QED BY <1>1, <1>2, <1>3

LEMMA KeepsBoot == ASSUME OtaInv, Boot PROVE OtaInv'
<1> USE SlotFacts DEF OtaInv
<1>0. /\ pc = "off" /\ pc' = "starting" /\ running \in Slots /\ selected \in Slots
      /\ mark \in [Slots -> {"unset", "new", "trying", "valid", "refused"}]
      /\ mark[Home] \in {"unset", "valid"}
      /\ UNCHANGED <<relayVars, content, selected, intent, seq, offer>>
  BY DEF Boot, OtaTypeOK, BootInv, nvsVars
<1>1. /\ running' = IF mark'[selected] = "trying" THEN selected ELSE Home
      /\ mark' = [mark EXCEPT ![selected] = IF @ = "new" THEN "trying"
                                            ELSE IF @ = "trying" THEN "refused" ELSE @]
  <2>1. CASE mark[selected] \in {"unset", "valid"}
    BY <1>0, <2>1 DEF Boot, Judged, Bootable, Home
  <2>2. CASE mark[selected] = "new"
    BY <1>0, <2>2 DEF Boot, Judged, Bootable, Home
  <2>3. CASE mark[selected] = "refused"
    <3>1. Home = Other(selected) /\ Judged = mark
      BY <2>3 DEF Home, Judged
    <3>2. Bootable(Judged, selected) = Home
      BY <2>3, <3>1 DEF Bootable
    <3>3. running' = Home /\ mark' = mark
      BY <1>0, <3>1, <3>2 DEF Boot
    <3> QED BY <1>0, <2>3, <3>3
  <2>4. CASE mark[selected] = "trying"
    <3>1. Home = Other(selected) /\ Judged = [mark EXCEPT ![selected] = "refused"]
      BY <2>4 DEF Home, Judged
    <3>2. /\ Judged[selected] = "refused" /\ Judged[Home] = mark[Home]
          /\ Bootable(Judged, selected) = Home
      BY <1>0, <3>1 DEF Bootable
    <3>3. running' = Home /\ mark' = Judged
      BY <1>0, <3>2 DEF Boot
    <3> QED BY <1>0, <2>4, <3>1, <3>3
  <2> QED BY <1>0, <2>1, <2>2, <2>3, <2>4
<1>2. Home \in Slots /\ Home' = Home /\ (OnTrial' => OnTrial)
  BY <1>0, <1>1 DEF Home, OnTrial
<1>3. OtaTypeOK'
  BY <1>0, <1>1, <1>2 DEF OtaTypeOK, Places, relayVars
<1>4. BootInv'
  <2>1. mark'[Home] = mark[Home]
    BY <1>0, <1>1 DEF Home
  <2>2. mark'[selected] # "new"
    BY <1>0, <1>1
  <2> QED BY <1>0, <1>1, <1>2, <2>1, <2>2 DEF BootInv
<1>5. CountInv' /\ OfferInv' /\ KnownInv'
  BY <1>0, <1>2 DEF CountInv, OfferInv, KnownInv, Known, IntentAtHome, Confirmed,
                    relayVars
<1> QED BY <1>3, <1>4, <1>5

LEMMA KeepsReset == ASSUME OtaInv, Reset PROVE OtaInv'
<1> USE SlotFacts DEF OtaInv, Reset, OtaTypeOK, relayVars, bootVars, nvsVars, GiveUp, Fail, Ready, Starts, Mine, Verifying, Places
<1>1. OtaTypeOK'
  BY PackageFacts DEF CountInv, OfferInv, IntentAtHome, Installed, Accepts
<1>2. BootInv'
  BY DEF BootInv, CountInv, OfferInv, OnTrial, Home, IntentAtHome, Judged, Bootable
<1>3. CountInv'
  BY PackageFacts DEF BootInv, CountInv, OfferInv, OnTrial, Home, IntentAtHome, Confirmed
<1>4. OfferInv'
  BY PackageFacts DEF BootInv, CountInv, OfferInv, OnTrial, Home, IntentAtHome, Accepts
<1>5. KnownInv'
  BY PackageFacts DEF KnownInv, Known, OfferInv
<1> QED BY <1>1, <1>2, <1>3, <1>4, <1>5

LEMMA KeepsStartFails == ASSUME OtaInv, StartFails PROVE OtaInv'
<1> USE SlotFacts DEF OtaInv, StartFails, OtaTypeOK, relayVars, bootVars, nvsVars, GiveUp, Fail, Ready, Starts, Mine, Verifying, Places
<1>1. OtaTypeOK'
  BY PackageFacts DEF CountInv, OfferInv, IntentAtHome, Installed, Accepts
<1>2. BootInv'
  BY DEF BootInv, CountInv, OfferInv, OnTrial, Home, IntentAtHome, Judged, Bootable
<1>3. CountInv'
  BY PackageFacts DEF BootInv, CountInv, OfferInv, OnTrial, Home, IntentAtHome, Confirmed
<1>4. OfferInv'
  BY PackageFacts DEF BootInv, CountInv, OfferInv, OnTrial, Home, IntentAtHome, Accepts
<1>5. KnownInv'
  BY PackageFacts DEF KnownInv, Known, OfferInv
<1> QED BY <1>1, <1>2, <1>3, <1>4, <1>5

LEMMA KeepsConfirmNothing == ASSUME OtaInv, ConfirmNothing PROVE OtaInv'
<1> USE SlotFacts DEF OtaInv, ConfirmNothing, OtaTypeOK, relayVars, bootVars, nvsVars, GiveUp, Fail, Ready, Starts, Mine, Verifying, Places
<1>1. OtaTypeOK'
  BY PackageFacts DEF CountInv, OfferInv, IntentAtHome, Installed, Accepts
<1>2. BootInv'
  BY DEF BootInv, CountInv, OfferInv, OnTrial, Home, IntentAtHome, Judged, Bootable
<1>3. CountInv'
  BY PackageFacts DEF BootInv, CountInv, OfferInv, OnTrial, Home, IntentAtHome, Confirmed
<1>4. OfferInv'
  BY PackageFacts DEF BootInv, CountInv, OfferInv, OnTrial, Home, IntentAtHome, Accepts
<1>5. KnownInv'
  BY PackageFacts DEF KnownInv, Known, OfferInv
<1> QED BY <1>1, <1>2, <1>3, <1>4, <1>5

LEMMA KeepsForgetIntent == ASSUME OtaInv, ForgetIntent PROVE OtaInv'
<1> USE SlotFacts DEF OtaInv, ForgetIntent, OtaTypeOK, relayVars, bootVars, nvsVars, GiveUp, Fail, Ready, Starts, Mine, Verifying, Places
<1>1. OtaTypeOK'
  BY PackageFacts DEF CountInv, OfferInv, IntentAtHome, Installed, Accepts
<1>2. BootInv'
  BY DEF BootInv, CountInv, OfferInv, OnTrial, Home, IntentAtHome, Judged, Bootable
<1>3. CountInv'
  BY PackageFacts DEF BootInv, CountInv, OfferInv, OnTrial, Home, IntentAtHome, Confirmed
<1>4. OfferInv'
  BY PackageFacts DEF BootInv, CountInv, OfferInv, OnTrial, Home, IntentAtHome, Accepts
<1>5. KnownInv'
  BY PackageFacts DEF KnownInv, Known, OfferInv
<1> QED BY <1>1, <1>2, <1>3, <1>4, <1>5

LEMMA KeepsMarkValid == ASSUME OtaInv, MarkValid PROVE OtaInv'
<1> USE SlotFacts DEF OtaInv, MarkValid, OtaTypeOK, relayVars, bootVars, nvsVars, GiveUp, Fail, Ready, Starts, Mine, Verifying, Places
<1>1. OtaTypeOK'
  BY PackageFacts DEF CountInv, OfferInv, IntentAtHome, Installed, Accepts
<1>2. BootInv'
  BY DEF BootInv, CountInv, OfferInv, OnTrial, Home, IntentAtHome, Judged, Bootable
<1>3. CountInv'
  BY PackageFacts DEF BootInv, CountInv, OfferInv, OnTrial, Home, IntentAtHome, Confirmed
<1>4. OfferInv'
  BY PackageFacts DEF BootInv, CountInv, OfferInv, OnTrial, Home, IntentAtHome, Accepts
<1>5. KnownInv'
  BY PackageFacts DEF KnownInv, Known, OfferInv
<1> QED BY <1>1, <1>2, <1>3, <1>4, <1>5

LEMMA KeepsSaveSequence == ASSUME OtaInv, SaveSequence PROVE OtaInv'
<1> USE SlotFacts DEF OtaInv, SaveSequence, OtaTypeOK, relayVars, bootVars, nvsVars, GiveUp, Fail, Ready, Starts, Mine, Verifying, Places
<1>1. OtaTypeOK'
  BY PackageFacts DEF CountInv, OfferInv, IntentAtHome, Installed, Accepts
<1>2. BootInv'
  BY DEF BootInv, CountInv, OfferInv, OnTrial, Home, IntentAtHome, Judged, Bootable
<1>3. CountInv'
  BY PackageFacts DEF BootInv, CountInv, OfferInv, OnTrial, Home, IntentAtHome, Confirmed
<1>4. OfferInv'
  BY PackageFacts DEF BootInv, CountInv, OfferInv, OnTrial, Home, IntentAtHome, Accepts
<1>5. KnownInv'
  BY PackageFacts DEF KnownInv, Known, OfferInv
<1> QED BY <1>1, <1>2, <1>3, <1>4, <1>5

LEMMA KeepsEraseIntent == ASSUME OtaInv, EraseIntent PROVE OtaInv'
<1> USE SlotFacts DEF OtaInv, EraseIntent, OtaTypeOK, relayVars, bootVars, nvsVars, GiveUp, Fail, Ready, Starts, Mine, Verifying, Places
<1>1. OtaTypeOK'
  BY PackageFacts DEF CountInv, OfferInv, IntentAtHome, Installed, Accepts
<1>2. BootInv'
  BY DEF BootInv, CountInv, OfferInv, OnTrial, Home, IntentAtHome, Judged, Bootable
<1>3. CountInv'
  BY PackageFacts DEF BootInv, CountInv, OfferInv, OnTrial, Home, IntentAtHome, Confirmed
<1>4. OfferInv'
  BY PackageFacts DEF BootInv, CountInv, OfferInv, OnTrial, Home, IntentAtHome, Accepts
<1>5. KnownInv'
  BY PackageFacts DEF KnownInv, Known, OfferInv
<1> QED BY <1>1, <1>2, <1>3, <1>4, <1>5

LEMMA KeepsCheckUpdate == ASSUME OtaInv, CheckUpdate PROVE OtaInv'
<1> USE SlotFacts DEF OtaInv, CheckUpdate, OtaTypeOK, relayVars, bootVars, nvsVars, GiveUp, Fail, Ready, Starts, Mine, Verifying, Places
<1>1. OtaTypeOK'
  BY PackageFacts DEF CountInv, OfferInv, IntentAtHome, Installed, Accepts
<1>2. BootInv'
  BY DEF BootInv, CountInv, OfferInv, OnTrial, Home, IntentAtHome, Judged, Bootable
<1>3. CountInv'
  BY PackageFacts DEF BootInv, CountInv, OfferInv, OnTrial, Home, IntentAtHome, Confirmed
<1>4. OfferInv'
  BY PackageFacts DEF BootInv, CountInv, OfferInv, OnTrial, Home, IntentAtHome, Accepts
<1>5. KnownInv'
  BY PackageFacts DEF KnownInv, Known, OfferInv
<1> QED BY <1>1, <1>2, <1>3, <1>4, <1>5

LEMMA KeepsCancel == ASSUME OtaInv, Cancel PROVE OtaInv'
<1> USE SlotFacts DEF OtaInv, Cancel, OtaTypeOK, relayVars, bootVars, nvsVars, GiveUp, Fail, Ready, Starts, Mine, Verifying, Places
<1>1. OtaTypeOK'
  BY PackageFacts DEF CountInv, OfferInv, IntentAtHome, Installed, Accepts
<1>2. BootInv'
  BY DEF BootInv, CountInv, OfferInv, OnTrial, Home, IntentAtHome, Judged, Bootable
<1>3. CountInv'
  BY PackageFacts DEF BootInv, CountInv, OfferInv, OnTrial, Home, IntentAtHome, Confirmed
<1>4. OfferInv'
  BY PackageFacts DEF BootInv, CountInv, OfferInv, OnTrial, Home, IntentAtHome, Accepts
<1>5. KnownInv'
  BY PackageFacts DEF KnownInv, Known, OfferInv
<1> QED BY <1>1, <1>2, <1>3, <1>4, <1>5

LEMMA KeepsBeginDownload == ASSUME OtaInv, BeginDownload PROVE OtaInv'
<1> USE SlotFacts DEF OtaInv, BeginDownload, OtaTypeOK, relayVars, bootVars, nvsVars, GiveUp, Fail, Ready, Starts, Mine, Verifying, Places
<1>1. OtaTypeOK'
  BY PackageFacts DEF CountInv, OfferInv, IntentAtHome, Installed, Accepts
<1>2. BootInv'
  BY DEF BootInv, CountInv, OfferInv, OnTrial, Home, IntentAtHome, Judged, Bootable
<1>3. CountInv'
  BY PackageFacts DEF BootInv, CountInv, OfferInv, OnTrial, Home, IntentAtHome, Confirmed
<1>4. OfferInv'
  BY PackageFacts DEF BootInv, CountInv, OfferInv, OnTrial, Home, IntentAtHome, Accepts
<1>5. KnownInv'
  BY PackageFacts DEF KnownInv, Known, OfferInv
<1> QED BY <1>1, <1>2, <1>3, <1>4, <1>5

LEMMA KeepsEndDownload == ASSUME OtaInv, EndDownload PROVE OtaInv'
<1> USE SlotFacts DEF OtaInv, EndDownload, OtaTypeOK, relayVars, bootVars, nvsVars, GiveUp, Fail, Ready, Starts, Mine, Verifying, Places
<1>1. OtaTypeOK'
  BY PackageFacts DEF CountInv, OfferInv, IntentAtHome, Installed, Accepts
<1>2. BootInv'
  BY DEF BootInv, CountInv, OfferInv, OnTrial, Home, IntentAtHome, Judged, Bootable
<1>3. CountInv'
  BY PackageFacts DEF BootInv, CountInv, OfferInv, OnTrial, Home, IntentAtHome, Confirmed
<1>4. OfferInv'
  BY PackageFacts DEF BootInv, CountInv, OfferInv, OnTrial, Home, IntentAtHome, Accepts
<1>5. KnownInv'
  BY PackageFacts DEF KnownInv, Known, OfferInv
<1> QED BY <1>1, <1>2, <1>3, <1>4, <1>5

LEMMA KeepsDownloadFails == ASSUME OtaInv, DownloadFails PROVE OtaInv'
<1> USE SlotFacts DEF OtaInv, DownloadFails, OtaTypeOK, relayVars, bootVars, nvsVars, GiveUp, Fail, Ready, Starts, Mine, Verifying, Places
<1>1. OtaTypeOK'
  BY PackageFacts DEF CountInv, OfferInv, IntentAtHome, Installed, Accepts
<1>2. BootInv'
  BY DEF BootInv, CountInv, OfferInv, OnTrial, Home, IntentAtHome, Judged, Bootable
<1>3. CountInv'
  BY PackageFacts DEF BootInv, CountInv, OfferInv, OnTrial, Home, IntentAtHome, Confirmed
<1>4. OfferInv'
  BY PackageFacts DEF BootInv, CountInv, OfferInv, OnTrial, Home, IntentAtHome, Accepts
<1>5. KnownInv'
  BY PackageFacts DEF KnownInv, Known, OfferInv
<1> QED BY <1>1, <1>2, <1>3, <1>4, <1>5

LEMMA KeepsSaveIntent == ASSUME OtaInv, SaveIntent PROVE OtaInv'
<1> USE SlotFacts DEF OtaInv, SaveIntent, OtaTypeOK, relayVars, bootVars, nvsVars, GiveUp, Fail, Ready, Starts, Mine, Verifying, Places
<1>1. OtaTypeOK'
  BY PackageFacts DEF CountInv, OfferInv, IntentAtHome, Installed, Accepts
<1>2. BootInv'
  BY DEF BootInv, CountInv, OfferInv, OnTrial, Home, IntentAtHome, Judged, Bootable
<1>3. CountInv'
  BY PackageFacts DEF BootInv, CountInv, OfferInv, OnTrial, Home, IntentAtHome, Confirmed
<1>4. OfferInv'
  BY PackageFacts DEF BootInv, CountInv, OfferInv, OnTrial, Home, IntentAtHome, Accepts
<1>5. KnownInv'
  BY PackageFacts DEF KnownInv, Known, OfferInv
<1> QED BY <1>1, <1>2, <1>3, <1>4, <1>5

LEMMA KeepsSaveIntentFails == ASSUME OtaInv, SaveIntentFails PROVE OtaInv'
<1> USE SlotFacts DEF OtaInv, SaveIntentFails, OtaTypeOK, relayVars, bootVars, nvsVars, GiveUp, Fail, Ready, Starts, Mine, Verifying, Places
<1>1. OtaTypeOK'
  BY PackageFacts DEF CountInv, OfferInv, IntentAtHome, Installed, Accepts
<1>2. BootInv'
  BY DEF BootInv, CountInv, OfferInv, OnTrial, Home, IntentAtHome, Judged, Bootable
<1>3. CountInv'
  BY PackageFacts DEF BootInv, CountInv, OfferInv, OnTrial, Home, IntentAtHome, Confirmed
<1>4. OfferInv'
  BY PackageFacts DEF BootInv, CountInv, OfferInv, OnTrial, Home, IntentAtHome, Accepts
<1>5. KnownInv'
  BY PackageFacts DEF KnownInv, Known, OfferInv
<1> QED BY <1>1, <1>2, <1>3, <1>4, <1>5

LEMMA KeepsSelectSlot == ASSUME OtaInv, SelectSlot PROVE OtaInv'
<1> USE SlotFacts DEF OtaInv, SelectSlot, OtaTypeOK, relayVars, bootVars, nvsVars, GiveUp, Fail, Ready, Starts, Mine, Verifying, Places
<1>1. OtaTypeOK'
  BY PackageFacts DEF CountInv, OfferInv, IntentAtHome, Installed, Accepts
<1>2. BootInv'
  <2>1. /\ running = Home /\ mark[selected] \notin {"new", "trying"}
        /\ mark[Home] \in {"unset", "valid"} /\ content[Home] # NoRelease
    BY DEF BootInv
  <2>2. /\ content[Other(Home)] = offer /\ offer # NoRelease /\ seq < offer.sequence
        /\ intent = [slot |-> Other(Home), sequence |-> offer.sequence]
    BY DEF OfferInv
  <2>3. /\ selected' = Other(Home) /\ mark'[selected'] = "new"
        /\ mark'[Home] = mark[Home] /\ Home' = Home
    BY <2>1 DEF Home
  <2>4. offer.sequence \in Nat /\ seq <= offer.sequence
    BY <2>2, PackageFacts
  <2> QED BY <2>1, <2>2, <2>3, <2>4 DEF BootInv
<1>3. CountInv'
  BY PackageFacts DEF BootInv, CountInv, OfferInv, OnTrial, Home, IntentAtHome, Confirmed
<1>4. OfferInv'
  BY PackageFacts DEF BootInv, CountInv, OfferInv, OnTrial, Home, IntentAtHome, Accepts
<1>5. KnownInv'
  BY PackageFacts DEF KnownInv, Known, OfferInv
<1> QED BY <1>1, <1>2, <1>3, <1>4, <1>5

LEMMA KeepsSelectFails == ASSUME OtaInv, SelectFails PROVE OtaInv'
<1> USE SlotFacts DEF OtaInv, SelectFails, OtaTypeOK, relayVars, bootVars, nvsVars, GiveUp, Fail, Ready, Starts, Mine, Verifying, Places
<1>1. OtaTypeOK'
  BY PackageFacts DEF CountInv, OfferInv, IntentAtHome, Installed, Accepts
<1>2. BootInv'
  BY DEF BootInv, CountInv, OfferInv, OnTrial, Home, IntentAtHome, Judged, Bootable
<1>3. CountInv'
  BY PackageFacts DEF BootInv, CountInv, OfferInv, OnTrial, Home, IntentAtHome, Confirmed
<1>4. OfferInv'
  BY PackageFacts DEF BootInv, CountInv, OfferInv, OnTrial, Home, IntentAtHome, Accepts
<1>5. KnownInv'
  BY PackageFacts DEF KnownInv, Known, OfferInv
<1> QED BY <1>1, <1>2, <1>3, <1>4, <1>5

LEMMA KeepsRestart == ASSUME OtaInv, Restart PROVE OtaInv'
<1> USE SlotFacts DEF OtaInv, Restart, OtaTypeOK, relayVars, bootVars, nvsVars, GiveUp, Fail, Ready, Starts, Mine, Verifying, Places
<1>1. OtaTypeOK'
  BY PackageFacts DEF CountInv, OfferInv, IntentAtHome, Installed, Accepts
<1>2. BootInv'
  BY DEF BootInv, CountInv, OfferInv, OnTrial, Home, IntentAtHome, Judged, Bootable
<1>3. CountInv'
  BY PackageFacts DEF BootInv, CountInv, OfferInv, OnTrial, Home, IntentAtHome, Confirmed
<1>4. OfferInv'
  BY PackageFacts DEF BootInv, CountInv, OfferInv, OnTrial, Home, IntentAtHome, Accepts
<1>5. KnownInv'
  BY PackageFacts DEF KnownInv, Known, OfferInv
<1> QED BY <1>1, <1>2, <1>3, <1>4, <1>5

-----------------------------------------------------------------------------
(* The theorems                                                            *)

LEMMA OtaStep == ASSUME OtaInv, Next PROVE OtaInv'
<1>1. CASE Relay
  BY <1>1, KeepsAddFirmware, KeepsPublishFirmware, KeepsWithdraw,
     KeepsDeleteFirmware DEF Relay
<1>2. CASE Boot \/ Reset
  BY <1>2, KeepsBoot, KeepsReset
<1>3. CASE Start
  BY <1>3, KeepsStartFails, KeepsConfirmNothing, KeepsForgetIntent,
     KeepsMarkValid, KeepsSaveSequence, KeepsEraseIntent DEF Start
<1>4. CASE CheckUpdate \/ Cancel
  BY <1>4, KeepsCheckUpdate, KeepsCancel
<1>5. CASE Install
  BY <1>5, KeepsBeginDownload, KeepsEndDownload, KeepsDownloadFails,
     KeepsSaveIntent, KeepsSaveIntentFails, KeepsSelectSlot, KeepsSelectFails,
     KeepsRestart DEF Install
<1> QED BY <1>1, <1>2, <1>3, <1>4, <1>5 DEF Next

\* What the device and the relay know of each other in every reachable state:
\* the slots, marks and intent (ota_boot.c), the count (pl_ota_confirm), the
\* offer (pl_ota_parse) and the releases (AddFirmware) agree.
THEOREM OtaInvariant == Spec => []OtaInv
<1>1. OtaInv /\ UNCHANGED vars => OtaInv'
  BY DEF OtaInv, OtaTypeOK, BootInv, CountInv, OfferInv, KnownInv, Known, Home,
         IntentAtHome, OnTrial, vars, relayVars, bootVars, nvsVars
<1>2. OtaInv /\ [Next]_vars => OtaInv'
  BY <1>1, OtaStep
<1> QED BY OtaInit, <1>2, PTL DEF Spec

\* The channel only names stored releases, and every slot, mark and count is
\* one that the code can write (firmware.go, ota_boot.c).
THEOREM OtaTypeCorrect == Spec => []OtaTypeOK
<1>1. OtaInv => OtaTypeOK
  BY DEF OtaInv
<1> QED BY <1>1, OtaInvariant, PTL

\* Whenever power fails, the bootloader finds a whole image, and another one
\* to fall back to if it is on trial (pl_ota_download, pl_ota_activate).
THEOREM NeverBricked == Spec => []AlwaysBootable
<1>1. OtaInv => AlwaysBootable
  <2> SUFFICES ASSUME OtaInv PROVE AlwaysBootable
    OBVIOUS
  <2> USE SlotFacts DEF OtaInv
  <2>0. /\ selected \in Slots /\ mark[Home] \in {"unset", "valid"}
        /\ mark \in [Slots -> {"unset", "new", "trying", "valid", "refused"}]
        /\ content[Home] # NoRelease
        /\ OnTrial => content[selected] # NoRelease
    BY DEF OtaTypeOK, BootInv
  <2>1. CASE mark[selected] \in {"unset", "valid"}
    BY <2>0, <2>1 DEF AlwaysBootable, NextBoot, Judged, Bootable, Home
  <2>2. CASE mark[selected] = "new"
    BY <2>0, <2>2 DEF AlwaysBootable, NextBoot, Judged, Bootable, Home, OnTrial
  <2>3. CASE mark[selected] \in {"trying", "refused"}
    <3>1. Home = Other(selected) /\ Judged[selected] = "refused"
      BY <2>0, <2>3 DEF Home, Judged
    <3>2. Judged[Home] = mark[Home]
      BY <2>0, <3>1 DEF Judged
    <3>3. NextBoot = Home
      BY <3>1 DEF NextBoot, Bootable
    <3> QED BY <2>0, <3>2, <3>3 DEF AlwaysBootable
  <2> QED BY <2>0, <2>1, <2>2, <2>3
<1> QED BY <1>1, OtaInvariant, PTL

\* A running application is confirmed with its own sequence (pl_ota_confirm).
THEOREM CountsWhatRuns == Spec => []ConfirmedIsRunning
<1>1. OtaInv => ConfirmedIsRunning
  BY DEF OtaInv, BootInv, CountInv, ConfirmedIsRunning, Confirmed
<1> QED BY <1>1, OtaInvariant, PTL

\* An update that is declined as installed is installed (pl_ota_parse,
\* AddFirmware), for any releases, also two signed with one sequence.
THEOREM DeclinedIsInstalled == Spec => []DeclinedMeansInstalled
<1>1. OtaInv => DeclinedMeansInstalled
  <2> SUFFICES ASSUME OtaInv, pc \in Confirmed, channel # NoRelease,
                      channel.sequence = seq
               PROVE  content[running] = channel
    BY DEF DeclinedMeansInstalled
  <2> USE DEF OtaInv
  <2>1. running = Home /\ content[Home] # NoRelease /\ seq = content[Home].sequence
    BY DEF BootInv, CountInv, Confirmed
  <2>2. running \in Slots /\ content[running] \in Installed /\ channel \in Releases
    BY <2>1 DEF OtaTypeOK
  <2>3. content[running] \in Releases
    BY <2>1, <2>2, PackageFacts DEF Installed
  <2>4. content[running] \in Known /\ channel \in Known
    BY <2>2, <2>3 DEF Known
  <2> QED BY <2>1, <2>4 DEF KnownInv
<1> QED BY <1>1, OtaInvariant, PTL

\* The count never falls, and no start takes an application older than the
\* count (pl_ota_parse, pl_ota_confirm, the bootloader's fall back).
THEOREM NoDowngrade == Spec => NeverDowngrades
<1> DEFINE Good == seq' >= seq
                   /\ (pc' = "starting" => content'[running'].sequence >= seq')
<1>1. ASSUME OtaInv, OtaInv', [Next]_vars PROVE [Good]_vars
  <2> SUFFICES ASSUME Next PROVE Good
    BY <1>1
  <2> USE <1>1 DEF OtaInv
  <2>1. seq' >= seq
    <3>1. CASE SaveSequence
      BY <3>1, PackageFacts
         DEF SaveSequence, OtaTypeOK, CountInv, IntentAtHome
    <3>2. CASE ~SaveSequence
      <4>1. seq' = seq
        BY <3>2 DEF Next, Relay, Start, Install, AddFirmware, PublishFirmware,
             Withdraw, DeleteFirmware, Boot, Reset, StartFails, ConfirmNothing,
             ForgetIntent, MarkValid, EraseIntent, CheckUpdate, Cancel,
             BeginDownload, EndDownload, DownloadFails, SaveIntent,
             SaveIntentFails, SelectSlot, SelectFails, Restart, nvsVars
      <4> QED BY <4>1 DEF OtaTypeOK
    <3> QED BY <3>1, <3>2
  <2>2. ASSUME pc' = "starting" PROVE content'[running'].sequence >= seq'
    <3>1. CASE mark'[selected'] = "trying"
      <4>1. running' = selected' /\ seq' <= content'[selected'].sequence
        BY <2>2, <3>1 DEF BootInv, OnTrial
      <4>2. selected' \in Slots /\ content'[selected'] \in Installed
        BY <3>1 DEF OtaTypeOK, BootInv, OnTrial
      <4> QED BY <4>1, <4>2, PackageFacts DEF OtaTypeOK
    <3>2. CASE mark'[selected'] # "trying"
      <4>1. running' = Home' /\ seq' <= content'[Home'].sequence
        BY <2>2, <3>2 DEF BootInv, CountInv
      <4>2. Home' \in Slots /\ content'[Home'] \in Installed
        BY SlotFacts DEF OtaTypeOK, BootInv, Home
      <4> QED BY <4>1, <4>2, PackageFacts DEF OtaTypeOK
    <3> QED BY <3>1, <3>2
  <2> QED BY <2>1, <2>2
<1> QED BY <1>1, OtaInvariant, PTL DEF Spec, NeverDowngrades
=============================================================================
