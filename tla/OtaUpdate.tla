------------------------------ MODULE OtaUpdate ------------------------------
(***************************************************************************)
(* Firmware updates: the relay's one channel of signed releases            *)
(* (services/relay/internal/store/firmware.go) and a device that follows   *)
(* it (main.c check_update, install_update; components/pocketlink_ota).    *)
(*                                                                         *)
(* The device has two application slots.  A release is downloaded into the *)
(* slot that does not run, an intent is saved, the boot slot is switched,  *)
(* and the new application confirms itself when it has started; until then *)
(* the bootloader returns to the other slot at the next reset.  Power may  *)
(* fail before and after every write, and any write may fail.              *)
(*                                                                         *)
(* A slot holds the release it was downloaded as.  Its sequence is not in  *)
(* the flash: only `seq' and the intent say what the device counts as      *)
(* installed, and the properties compare the two.  The bootloader and the  *)
(* ota functions of ESP-IDF are external.                                  *)
(***************************************************************************)
EXTENDS Naturals, FiniteSets

CONSTANTS Releases,      \* the packages signed: records [sequence, image]
          Broken,        \* the releases whose application fails to start
          FactoryImage,  \* what the wired installation left in slot 0
          NoRelease,     \* an empty channel, no offer, a half-written slot
          NoIntent,      \* no ota_pending in the flash
          ReleaseLimit   \* 8 in the source

ASSUME OtaAssumption ==
  /\ \A p \in Releases : p.sequence \in Nat \ {0} /\ p.image # FactoryImage
                         /\ p = [sequence |-> p.sequence, image |-> p.image]
  /\ Broken \subseteq Releases /\ ReleaseLimit \in Nat
  /\ NoRelease \notin Releases /\ NoRelease # [sequence |-> 0, image |-> FactoryImage]
  /\ NoIntent \notin [slot : {0, 1}, sequence : Nat]

VARIABLES
  stored,    \* firmware_releases
  highest,   \* firmware_channel.max_sequence
  channel,   \* the release published, or NoRelease
  content,   \* of each slot; NoRelease while it is being written
  selected,  \* the slot of the newest entry of otadata
  mark,      \* the state otadata gives each slot
  intent,    \* ota_pending in the flash
  seq,       \* ota_seq in the flash
  running,   \* the slot the application was started from
  offer,     \* ota_offer of main.c
  pc         \* where the main task is

relayVars == <<stored, highest, channel>>
bootVars == <<content, selected, mark>>
nvsVars == <<intent, seq>>
vars == <<relayVars, bootVars, nvsVars, running, offer, pc>>

Slots == {0, 1}
Other(s) == 1 - s
Factory == [sequence |-> 0, image |-> FactoryImage]

Init ==
  /\ stored = {} /\ highest = 0 /\ channel = NoRelease
  /\ content = [s \in Slots |-> IF s = 0 THEN Factory ELSE NoRelease]
  /\ selected = 0
  /\ mark = [s \in Slots |-> "unset"]
  /\ intent = NoIntent /\ seq = 0
  /\ running = 0 /\ offer = NoRelease /\ pc = "off"

-----------------------------------------------------------------------------
(* The administrator: an upload is stored, not published                   *)

\* Mutant of Newer: counts the stored releases only, not those deleted.
NewerThanStored(p) == \A q \in stored : q.sequence < p.sequence

Newer(p) == highest < p.sequence

AddFirmware(p) ==
  /\ \A q \in stored : q.image # p.image
  /\ Cardinality(stored) < ReleaseLimit
  /\ Newer(p)
  /\ stored' = stored \cup {p}
  /\ highest' = p.sequence
  /\ UNCHANGED <<channel, bootVars, nvsVars, running, offer, pc>>

PublishFirmware(p) ==
  /\ p \in stored
  /\ channel' = p
  /\ UNCHANGED <<stored, highest, bootVars, nvsVars, running, offer, pc>>

Withdraw ==
  /\ channel' = NoRelease
  /\ UNCHANGED <<stored, highest, bootVars, nvsVars, running, offer, pc>>

\* Mutant of DeleteFirmware: deletes what is published, too.
DeletePublished(p) ==
  /\ p \in stored
  /\ stored' = stored \ {p}
  /\ UNCHANGED <<highest, channel, bootVars, nvsVars, running, offer, pc>>

DeleteFirmware(p) ==
  /\ p \in stored /\ p # channel
  /\ stored' = stored \ {p}
  /\ UNCHANGED <<highest, channel, bootVars, nvsVars, running, offer, pc>>

Relay ==
  \/ \E p \in Releases : AddFirmware(p) \/ PublishFirmware(p)
                         \/ DeleteFirmware(p)
  \/ Withdraw

-----------------------------------------------------------------------------
(* The bootloader (external): an image that was tried once and did not     *)
(* confirm itself is refused                                               *)

Bootable(m, s) == IF m[s] = "refused" THEN Other(s) ELSE s
Judged == IF mark[selected] = "trying" THEN [mark EXCEPT ![selected] = "refused"]
                                       ELSE mark

Boot ==
  /\ pc = "off"
  /\ LET s == Bootable(Judged, selected)
     IN  /\ running' = s
         /\ mark' = IF Judged[s] = "new" THEN [Judged EXCEPT ![s] = "trying"]
                                         ELSE Judged
  /\ pc' = "starting"
  /\ UNCHANGED <<relayVars, content, selected, nvsVars, offer>>

\* Power fails, the application crashes, or the user switches off: what is in
\* RAM is lost.
Reset ==
  /\ pc # "off" /\ pc' = "off"
  /\ offer' = NoRelease
  /\ UNCHANGED <<relayVars, bootVars, nvsVars, running>>

-----------------------------------------------------------------------------
(* The start: app_main up to pl_ota_confirm                                *)

Verifying == mark[running] = "trying"

\* Mutant of Fail: leaves the roll back to the next reset.
FailAndStay ==
  /\ pc' = "dead" /\ UNCHANGED <<mark, offer>>

\* pl_ota_boot_failed: back to the other slot, or app_main returns for good.
Fail ==
  /\ IF Verifying THEN mark' = [mark EXCEPT ![running] = "refused"] /\ pc' = "off"
                  ELSE pc' = "dead" /\ UNCHANGED mark
  /\ UNCHANGED offer

\* The storage or the saved state is bad, a write of pl_ota_confirm fails, or
\* the application does not work.
StartFails ==
  /\ pc \in {"starting", "marked", "counted"}
  /\ Fail
  /\ UNCHANGED <<relayVars, content, selected, nvsVars, running>>

Starts == pc = "starting" /\ content[running] \notin Broken

\* Mutant of Mine: takes any intent for its own.
AnyIntent == intent # NoIntent

Mine == intent # NoIntent /\ intent.slot = running

Ready == pc' = "idle" /\ UNCHANGED <<mark, offer>>

\* No intent: nothing to confirm, unless the image is on trial.
ConfirmNothing ==
  /\ Starts /\ intent = NoIntent
  /\ IF Verifying THEN Fail ELSE Ready
  /\ UNCHANGED <<relayVars, content, selected, nvsVars, running>>

\* The intent is of an update that never ran or was rolled back.  Whether it
\* could be erased is not looked at; the commit after that may fail.
ForgetIntent ==
  /\ Starts /\ intent # NoIntent /\ ~Mine
  /\ intent' \in {intent, NoIntent}
  /\ Ready \/ Fail
  /\ UNCHANGED <<relayVars, content, selected, seq, running>>

\* Mutant of MarkValid: goes on without telling the bootloader.
MarkNothing ==
  /\ Starts /\ Mine
  /\ pc' = "marked"
  /\ UNCHANGED <<relayVars, bootVars, nvsVars, running, offer>>

MarkValid ==
  /\ Starts /\ Mine
  /\ mark' = IF Verifying THEN [mark EXCEPT ![running] = "valid"] ELSE mark
  /\ pc' = "marked"
  /\ UNCHANGED <<relayVars, content, selected, nvsVars, running, offer>>

SaveSequence ==
  /\ pc = "marked"
  /\ seq' = intent.sequence
  /\ pc' = "counted"
  /\ UNCHANGED <<relayVars, bootVars, intent, running, offer>>

EraseIntent ==
  /\ pc = "counted"
  /\ intent' = NoIntent
  /\ Ready \/ Fail
  /\ UNCHANGED <<relayVars, content, selected, seq, running>>

Start ==
  \/ StartFails \/ ConfirmNothing \/ ForgetIntent \/ MarkValid
  \/ SaveSequence \/ EraseIntent

-----------------------------------------------------------------------------
(* The main task                                                           *)

GiveUp == pc' = "idle" /\ offer' = NoRelease

\* Mutant of Accepts: offers what is installed, and older, again.
AcceptsAny(p) == p # NoRelease

\* pl_ota_parse: signed, for this board, and newer than what is installed.
Accepts(p) == p # NoRelease /\ seq < p.sequence

\* The manifest of the channel becomes the offer on the screen.
CheckUpdate ==
  /\ pc = "idle"
  /\ Accepts(channel)
  /\ offer' = channel
  /\ pc' = "prompt"
  /\ UNCHANGED <<relayVars, bootVars, nvsVars, running>>

Cancel ==
  /\ pc = "prompt" /\ GiveUp
  /\ UNCHANGED <<relayVars, bootVars, nvsVars, running>>

\* The relay sends an image only while it is published; esp_ota_begin erases.
BeginDownload ==
  /\ pc = "prompt"
  /\ channel # NoRelease /\ channel.image = offer.image
  /\ content' = [content EXCEPT ![Other(running)] = NoRelease]
  /\ pc' = "loading"
  /\ UNCHANGED <<relayVars, selected, mark, nvsVars, running, offer>>

\* All of the image has come and its hash is the offer's.
EndDownload ==
  /\ pc = "loading"
  /\ content' = [content EXCEPT ![Other(running)] = offer]
  /\ pc' = "loaded"
  /\ UNCHANGED <<relayVars, selected, mark, nvsVars, running, offer>>

\* The link, the relay, the hash or a write fails.
DownloadFails ==
  /\ pc \in {"prompt", "loading"} /\ GiveUp
  /\ UNCHANGED <<relayVars, bootVars, nvsVars, running>>

\* pl_ota_activate, first half; the flash may have it though the commit fails.
SaveIntent ==
  /\ pc = "loaded"
  /\ intent' = [slot |-> Other(running), sequence |-> offer.sequence]
  /\ \/ pc' = "intended" /\ UNCHANGED offer
     \/ GiveUp
  /\ UNCHANGED <<relayVars, bootVars, seq, running>>

SaveIntentFails ==
  /\ pc = "loaded" /\ GiveUp
  /\ UNCHANGED <<relayVars, bootVars, nvsVars, running>>

SelectSlot ==
  /\ pc = "intended"
  /\ selected' = Other(running)
  /\ mark' = [mark EXCEPT ![Other(running)] = "new"]
  /\ pc' = "restart"
  /\ UNCHANGED <<relayVars, content, nvsVars, running, offer>>

\* Whether the intent could be erased is not looked at.
SelectFails ==
  /\ pc = "intended" /\ GiveUp
  /\ intent' \in {intent, NoIntent}
  /\ UNCHANGED <<relayVars, bootVars, seq, running>>

Restart ==
  /\ pc = "restart"
  /\ pc' = "off" /\ offer' = NoRelease
  /\ UNCHANGED <<relayVars, bootVars, nvsVars, running>>

Install ==
  \/ BeginDownload \/ EndDownload \/ DownloadFails
  \/ SaveIntent \/ SaveIntentFails \/ SelectSlot \/ SelectFails \/ Restart

Next == Relay \/ Boot \/ Reset \/ Start \/ CheckUpdate \/ Cancel \/ Install

Spec == Init /\ [][Next]_vars

\* A device that is off is switched on again, a start comes to an end, and a
\* device that is about to restart does.
FairSpec == Spec /\ WF_vars(Boot) /\ WF_vars(Start) /\ WF_vars(Restart)

-----------------------------------------------------------------------------
(* Properties                                                              *)

Installed == Releases \cup {Factory}
Places == {"off", "starting", "marked", "counted", "dead", "idle", "prompt",
           "loading", "loaded", "intended", "restart"}

\* The published release is stored: it cannot be deleted, only withdrawn.
OtaTypeOK ==
  /\ stored \subseteq Releases /\ highest \in Nat
  /\ channel \in stored \cup {NoRelease}
  /\ content \in [Slots -> Installed \cup {NoRelease}]
  /\ selected \in Slots /\ running \in Slots
  /\ mark \in [Slots -> {"unset", "new", "trying", "valid", "refused"}]
  /\ intent \in [slot : Slots, sequence : Nat] \cup {NoIntent}
  /\ seq \in Nat
  /\ offer \in Releases \cup {NoRelease}
  /\ pc \in Places

\* The slot the bootloader takes next holds a whole image, and so does the one
\* it takes if that image fails (pl_ota_download writes the other slot only
\* when the running one is confirmed): an interrupted update never leaves a
\* device without an application (docs/development/firmware-ota.en.md:109, :124).
NextBoot == Bootable(Judged, selected)
AlwaysBootable ==
  /\ content[NextBoot] # NoRelease
  /\ Judged[NextBoot] = "new" => content[Other(NextBoot)] # NoRelease

\* What the device counts as installed is what runs, whatever was interrupted,
\* refused or rolled back before (pl_ota_confirm, pl_ota_activate).
Confirmed == {"idle", "prompt", "loading", "loaded", "intended", "restart"}
ConfirmedIsRunning ==
  pc \in Confirmed => seq = content[running].sequence

\* A device that declines the published release as installed already runs its
\* very image: a sequence, once accepted by the relay, never names another one
\* (AddFirmware's max_sequence, pl_ota_parse).
DeclinedMeansInstalled ==
  (pc \in Confirmed /\ channel # NoRelease /\ channel.sequence = seq)
    => content[running] = channel

\* The device never counts back, and never starts an older release than one it
\* has confirmed, whatever is published, withdrawn or interrupted (pl_ota_parse;
\* pl_ota_confirm on stale intents; docs/development/firmware-ota.en.md:116).
NeverDowngrades ==
  [][/\ seq' >= seq
     /\ pc' = "starting" => content'[running'].sequence >= seq']_vars

\* An update that was switched to is confirmed, or refused and rolled back,
\* even if power fails again and again (pl_ota_confirm, pl_ota_boot_failed).
OnTrial == mark[selected] \in {"new", "trying"}
UpdateSettles == OnTrial ~> ~OnTrial
=============================================================================
