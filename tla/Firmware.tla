------------------------------ MODULE Firmware ------------------------------
(***************************************************************************)
(* A board receives firmware in two ways: it pulls the peer board's image  *)
(* word by word over the lossy inter-board link (core 1: handlers.c,       *)
(* tasks.c), or the host drops a UF2 file onto its disk (core 0:           *)
(* ramdisk.c).  Both write the image the board is running from, and share  *)
(* one checksum, one flag and, with save_config, one page buffer.          *)
(*                                                                         *)
(* Core 1 looks at the state and acts on it in two steps, so that core 0   *)
(* may step in between.  An image is PAGES pages of WORDS words; the last  *)
(* page stands for the last sector, which the checksum leaves out, and a   *)
(* word's value is the image it belongs to.  The checksum is the sequence  *)
(* of the words fed to it.                                                 *)
(***************************************************************************)
EXTENDS Integers, Sequences

CONSTANTS PAGES, WORDS,   \* the image's size, and a page's
          OurId,          \* the identity of the image this board booted
          PeerIds,        \* what the peer board may be running at first
          NewId,          \* what it runs once a host has updated it
          MaxFaults       \* losses, early timers, saves, drops, deaths

ASSUME FirmwareAssumption ==
  /\ PAGES \in Nat \ {0, 1} /\ WORDS \in Nat \ {0} /\ MaxFaults \in Nat
  /\ PeerIds \cup {OurId, NewId} \subseteq
       [version : Nat, checksum : {"old", "peer", "new"}]

VARIABLES fw,          \* fw_upgrade_state_t, without its two timestamps
          page_buffer, \* the page being collected, shared with save_config
          flash,       \* the image region
          known,       \* peer_fw.version # PEER_FW_UNKNOWN
          reqs, resps, \* REQUEST_BYTE_MSG and RESPONSE_BYTE_MSG in flight
          core1,       \* what core 1 has looked at and not yet acted on
          block,       \* the UF2 block the host writes next; 0: no drop
          peer,        \* the peer board
          follows,     \* this is the board that follows at equal version
          mode,        \* "running", "reboot" into the image, "rom"
          faults,      \* how many faults there were
          blame        \* history: what may have spoiled a transfer

vars == <<fw, page_buffer, flash, known, reqs, resps, core1, block, peer,
          follows, mode, faults, blame>>

STAGING_IMAGE_SIZE == PAGES * WORDS
Addresses == 0 .. STAGING_IMAGE_SIZE - 1
Words == {"old", "peer", "new", "host", "cfg"}
Offsets == 0 .. WORDS - 1

\* What crc32 is taken over: all but the last sector.
Summed(a) == a < STAGING_IMAGE_SIZE - WORDS

TypeOK ==
  /\ fw \in [in_progress : BOOLEAN, source : {"NONE", "PULL", "DROP"},
             byte_done : BOOLEAN, address : 0 .. STAGING_IMAGE_SIZE,
             checksum : Seq(Words), dirty : BOOLEAN]
  /\ page_buffer \in [Offsets -> Words]
  /\ flash \in [Addresses -> Words]
  /\ known \in BOOLEAN /\ follows \in BOOLEAN
  /\ reqs \in Seq(Addresses)
  /\ resps \in Seq(Addresses \X Words)
  /\ core1 \in {"idle", "pull", "response"}
  /\ block \in 0 .. PAGES - 1
  /\ peer \in [alive : BOOLEAN, pages : 0 .. PAGES, id : PeerIds \cup {NewId}]
  /\ mode \in {"running", "reboot", "rom"}
  /\ faults \in 0 .. MaxFaults
  /\ blame \subseteq {"save", "drop", "rewrite"}
  \* Nothing is summed that no transport delivered.
  /\ Len(fw.checksum) <= 2 * STAGING_IMAGE_SIZE

Init ==
  /\ fw = [in_progress |-> FALSE, source |-> "NONE", byte_done |-> FALSE,
           address |-> 0, checksum |-> <<>>, dirty |-> FALSE]
  /\ page_buffer = [o \in Offsets |-> "cfg"]
  /\ flash = [a \in Addresses |-> "old"]
  /\ known = FALSE /\ follows \in BOOLEAN
  /\ reqs = <<>> /\ resps = <<>> /\ core1 = "idle" /\ block = 0
  /\ peer \in [alive : {TRUE}, pages : {0}, id : PeerIds]
  /\ mode = "running" /\ faults = 0 /\ blame = {}

Fault(early) == /\ early => faults < MaxFaults
                /\ faults' = IF early THEN faults + 1 ELSE faults

-----------------------------------------------------------------------------
(***************************************************************************)
(* fw_upgrade.c and the helpers of utils.c.                                *)
(***************************************************************************)

fw_upgrade_may_pull == fw.in_progress /\ fw.source = "PULL"

fw_upgrade_should_pull(ours, peers) ==
  /\ ~fw.in_progress
  /\ \/ peers.version > ours.version
     \/ peers.version = ours.version /\ follows /\ peers.checksum # ours.checksum

\* Mutant: one failed attempt is enough to give the board up.
fw_upgrade_must_recover_hasty(present) == fw.dirty

fw_upgrade_must_recover(present) == fw.dirty /\ ~present

write_flash_page(page, buffer) ==
  [a \in Addresses |-> IF a \div WORDS = page THEN buffer[a % WORDS] ELSE flash[a]]

calculate_firmware_crc32(image) ==
  [i \in 1 .. STAGING_IMAGE_SIZE - WORDS |-> image[i - 1]]

\* Erasing the first sector and entering the ROM does not return.
abandon_firmware_upgrade(present) ==
  IF fw_upgrade_must_recover(present)
    THEN mode' = "rom" /\ UNCHANGED fw
    ELSE /\ fw' = [fw EXCEPT !.in_progress = FALSE, !.source = "NONE", !.address = 0]
         /\ UNCHANGED mode

\* The end of either transport: `image' is flash with the last page written.
Verdict(image, sum) ==
  IF calculate_firmware_crc32(image) = sum THEN "reboot" ELSE "rom"

\* request_byte when the queue took the packet; a dead peer board hears nothing.
request_byte(a) ==
  reqs' = IF peer.alive /\ a < STAGING_IMAGE_SIZE THEN Append(reqs, a) ELSE reqs

-----------------------------------------------------------------------------
(***************************************************************************)
(* Core 1.                                                                 *)
(***************************************************************************)

\* The pull starts over the peer board's half-written image.
Rewriting == 0 < peer.pages /\ peer.pages < PAGES

\* Field by field, so that image_dirty survives.
start_pull ==
  [in_progress |-> TRUE, source |-> "PULL", byte_done |-> TRUE, address |-> 0,
   checksum |-> <<>>, dirty |-> fw.dirty]

\* Once a second, so words of an abandoned pull have drained, or it is a fault.
handle_heartbeat_msg(early) ==
  /\ mode = "running" /\ core1 = "idle" /\ peer.alive
  /\ early = (fw_upgrade_should_pull(OurId, peer.id) /\ (reqs # <<>> \/ resps # <<>>))
  /\ Fault(early)
  /\ known' = TRUE
  /\ IF fw_upgrade_should_pull(OurId, peer.id)
       THEN /\ fw' = start_pull
            /\ blame' = blame \cup {b \in {"rewrite"} : Rewriting}
       ELSE UNCHANGED <<fw, blame>>
  /\ UNCHANGED <<page_buffer, flash, reqs, resps, core1, block, peer, follows, mode>>

\* firmware_upgrade_task while a word is outstanding.  A tenth of a second
\* passes with the link empty, or it is a fault.
AskAgain(early) ==
  /\ mode = "running" /\ core1 = "idle"
  /\ fw_upgrade_may_pull /\ ~fw.byte_done
  /\ (reqs # <<>> \/ resps # <<>>) = early
  /\ Fault(early)
  /\ request_byte(fw.address)
  /\ UNCHANGED <<fw, page_buffer, flash, known, resps, core1, block, peer,
                 follows, mode, blame>>

\* firmware_upgrade_task, up to the point where it has decided to act.
PullLooks ==
  /\ mode = "running" /\ core1 = "idle"
  /\ fw_upgrade_may_pull /\ fw.byte_done
  /\ core1' = "pull"
  /\ UNCHANGED <<fw, page_buffer, flash, known, reqs, resps, block, peer,
                 follows, mode, faults, blame>>

\* Mutant: the end condition waits for an address nobody answers (issue #90).
PullDone_past == fw.address > STAGING_IMAGE_SIZE

PullDone == fw.address >= STAGING_IMAGE_SIZE

\* The rest of it: the finished page, the end of the image, or the next word,
\* whose request the shared queue may refuse.
PullActs(refused) ==
  LET finished == fw.address % WORDS = 0 /\ fw.address # 0
      image == IF finished
                 THEN write_flash_page((fw.address - 1) \div WORDS, page_buffer)
                 ELSE flash
      verdict == Verdict(image, fw.checksum)
  IN  /\ mode = "running" /\ core1 = "pull"
      /\ core1' = "idle"
      /\ refused => ~PullDone
      /\ Fault(refused)
      /\ flash' = image
      /\ IF PullDone
           THEN /\ fw' = [fw EXCEPT !.in_progress = FALSE, !.source = "NONE",
                                    !.dirty = verdict = "rom"]
                /\ mode' = verdict
                /\ UNCHANGED reqs
           ELSE /\ fw' = [fw EXCEPT !.dirty = @ \/ finished, !.byte_done = refused]
                /\ IF refused THEN UNCHANGED reqs ELSE request_byte(fw.address)
                /\ UNCHANGED mode
      /\ UNCHANGED <<page_buffer, known, resps, block, peer, follows, blame>>

\* handle_response_byte_msg, up to fw_upgrade_may_pull.
ResponseLooks ==
  /\ mode = "running" /\ core1 = "idle" /\ resps # <<>>
  /\ IF fw_upgrade_may_pull
       THEN core1' = "response" /\ UNCHANGED resps
       ELSE resps' = Tail(resps) /\ UNCHANGED core1
  /\ UNCHANGED <<fw, page_buffer, flash, known, reqs, block, peer, follows,
                 mode, faults, blame>>

\* Mutant: any answer is taken for the one awaited.
Awaited_any(a) == a \in Addresses

Awaited(a) == a = fw.address

\* The rest of it: a word out of place ends the pull, the awaited one is
\* summed and collected.
ResponseActs ==
  LET a == Head(resps)[1]
      word == Head(resps)[2]
  IN  /\ mode = "running" /\ core1 = "response"
      /\ core1' = "idle" /\ resps' = Tail(resps)
      /\ IF ~Awaited(a)
           THEN abandon_firmware_upgrade(known) /\ UNCHANGED page_buffer
           ELSE /\ fw' = [fw EXCEPT !.address = @ + 1, !.byte_done = TRUE,
                            !.checksum = IF Summed(a) THEN Append(@, word) ELSE @]
                /\ page_buffer' = [page_buffer EXCEPT ![a % WORDS] = word]
                /\ UNCHANGED mode
      /\ UNCHANGED <<flash, known, reqs, block, peer, follows, faults, blame>>

\* Mutant: the task returns early while a transfer runs (issue #90).
fw_upgrade_stalled_never == fw.in_progress /\ fw.source = "NONE"

\* In progress, and half a minute without a step: the host stopped, the peer
\* board died, or it is a fault.
fw_upgrade_stalled == fw.in_progress

\* heartbeat_output_task: a silent peer board is forgotten, a transfer that
\* went quiet is given up.  A peer board dead for half a minute is forgotten.
heartbeat_output_task(expired, stalled, early) ==
  LET present == known /\ ~expired IN
  /\ mode = "running" /\ core1 = "idle"
  /\ expired \/ stalled
  /\ expired => known /\ ~peer.alive
  /\ stalled => fw_upgrade_stalled
  /\ early = (stalled /\ fw.source = "PULL" /\ (peer.alive \/ present))
  /\ Fault(early)
  /\ known' = present
  /\ IF stalled
       THEN /\ abandon_firmware_upgrade(present)
            /\ block' = IF fw.source = "DROP" THEN 0 ELSE block
       ELSE UNCHANGED <<fw, mode, block>>
  /\ UNCHANGED <<page_buffer, flash, reqs, resps, core1, peer, follows, blame>>

-----------------------------------------------------------------------------
(***************************************************************************)
(* Core 0: the host's UF2 blocks, and a saved configuration.               *)
(***************************************************************************)

\* Mutant: the transport is not recorded (issue #104).
drop_source_inferred(b) == fw.source

drop_source(b) == IF b = 0 THEN "DROP" ELSE fw.source

\* A host writes its file front to back, or stops; one that paused for half a
\* minute starts over.
tud_msc_write10_cb ==
  LET first == block = 0
      last == block = PAGES - 1
      image == write_flash_page(block, [o \in Offsets |-> "host"])
      sum == (IF first THEN <<>> ELSE fw.checksum)
               \o (IF last THEN <<>> ELSE [i \in 1 .. WORDS |-> "host"])
      verdict == Verdict(image, sum)
  IN  /\ mode = "running"
      /\ Fault(first)
      /\ flash' = image
      /\ fw' = [fw EXCEPT !.in_progress = @ \/ first, !.source = drop_source(block),
                          !.checksum = sum,
                          !.dirty = ~last \/ verdict = "rom"]
      /\ mode' = IF last THEN verdict ELSE mode
      /\ block' = (block + 1) % PAGES
      /\ blame' = blame \cup {b \in {"drop"} : first /\ core1 # "idle"}
      /\ UNCHANGED <<page_buffer, known, reqs, resps, core1, peer, follows>>

\* save_config composes its page where the pull collects its own.
save_config ==
  /\ mode = "running" /\ Fault(TRUE)
  /\ page_buffer' = [o \in Offsets |-> "cfg"]
  /\ blame' = blame \cup {b \in {"save"} : fw.in_progress}
  /\ UNCHANGED <<fw, flash, known, reqs, resps, core1, block, peer, follows, mode>>

-----------------------------------------------------------------------------
(***************************************************************************)
(* The peer board and the link.                                            *)
(***************************************************************************)

\* The word the peer board reads out of its flash, while its own host writes it.
PeerWord(a) == IF a < peer.pages * WORDS THEN "new" ELSE "peer"

handle_request_byte_msg ==
  /\ reqs # <<>>
  /\ reqs' = Tail(reqs)
  /\ resps' = Append(resps, <<Head(reqs), PeerWord(Head(reqs))>>)
  /\ UNCHANGED <<fw, page_buffer, flash, known, core1, block, peer, follows,
                 mode, faults, blame>>

\* A packet lost in either direction.
Lose ==
  /\ Fault(TRUE)
  /\ \/ reqs # <<>> /\ reqs' = Tail(reqs) /\ UNCHANGED resps
     \/ resps # <<>> /\ core1 # "response" /\ resps' = Tail(resps) /\ UNCHANGED reqs
  /\ UNCHANGED <<fw, page_buffer, flash, known, core1, block, peer, follows,
                 mode, blame>>

\* The peer board's host drops a new image on it, page by page; after the last
\* one the peer board reboots into it, which outlasts what is in flight.
PeerRewrites ==
  /\ mode = "running" /\ peer.alive /\ peer.pages < PAGES
  /\ peer.pages + 1 = PAGES => reqs = <<>> /\ resps = <<>>
  /\ peer' = [peer EXCEPT !.pages = @ + 1,
                          !.id = IF peer.pages + 1 = PAGES THEN NewId ELSE @]
  /\ blame' = blame \cup {b \in {"rewrite"} : fw_upgrade_may_pull}
  /\ UNCHANGED <<fw, page_buffer, flash, known, reqs, resps, core1, block,
                 follows, mode, faults>>

\* The peer board loses power, or the cable is pulled; and it is back.
PeerDies ==
  /\ mode = "running" /\ peer.alive /\ Fault(TRUE)
  /\ peer' = [peer EXCEPT !.alive = FALSE]
  /\ reqs' = <<>>
  /\ UNCHANGED <<fw, page_buffer, flash, known, resps, core1, block, follows,
                 mode, blame>>

PeerReturns ==
  /\ mode = "running" /\ ~peer.alive
  /\ peer' = [peer EXCEPT !.alive = TRUE]
  /\ UNCHANGED <<fw, page_buffer, flash, known, reqs, resps, core1, block,
                 follows, mode, faults, blame>>

Stopped == mode # "running" /\ UNCHANGED vars

Next ==
  \/ \E early \in BOOLEAN : handle_heartbeat_msg(early) \/ AskAgain(early)
  \/ PullLooks
  \/ \E refused \in BOOLEAN : PullActs(refused)
  \/ ResponseLooks
  \/ ResponseActs
  \/ \E expired, stalled, early \in BOOLEAN :
       heartbeat_output_task(expired, stalled, early)
  \/ tud_msc_write10_cb
  \/ save_config
  \/ handle_request_byte_msg
  \/ Lose
  \/ PeerRewrites
  \/ PeerDies
  \/ PeerReturns
  \/ Stopped

Spec == Init /\ [][Next]_vars

\* Core 1's loop runs every task; a live peer board beats and answers.
Fairness ==
  /\ WF_vars(handle_heartbeat_msg(FALSE))
  /\ WF_vars(AskAgain(FALSE))
  /\ WF_vars(PullLooks) /\ WF_vars(PullActs(FALSE))
  /\ WF_vars(ResponseLooks) /\ WF_vars(ResponseActs)
  /\ WF_vars(handle_request_byte_msg)
  /\ SF_vars(\E expired, stalled \in BOOLEAN :
               heartbeat_output_task(expired, stalled, FALSE))

FairSpec == Spec /\ Fairness

-----------------------------------------------------------------------------
(***************************************************************************)
(* Properties.                                                             *)
(***************************************************************************)

\* tasks.c:443-457, ramdisk.c:124-139.  The board boots what it received only
\* when everything the checksum covers is one image: not the old one in part,
\* not a page of configuration, not the pull's words under the drop's.  Two
\* cases are excepted: a peer board whose own image was being rewritten while
\* it was pulled, and a drop that began between core 1's look and its act.
WholeImage ==
  mode = "reboot" /\ blame \subseteq {"save"} =>
    \E image \in {"peer", "new", "host"} :
      \A a \in Addresses : Summed(a) => flash[a] = image

\* fw_upgrade.h:155-166.  Lost, late and repeated words, early timers and
\* restarts alone never cost the user a manual reflash: the board goes to ROM
\* only with its peer board gone, or after core 0 reached into a transfer, with
\* a save into the page buffer or a drop between core 1's look and its act.
LossNeverBricks ==
  mode = "rom" => ~known \/ blame # {}

\* fw_upgrade.h:200-212, tasks.c:429-443.  A board that should follow its peer
\* board does not go on running its old image: however often the pull starts
\* over, a transfer is finished, unless the peer board goes away.  What it then
\* boots is WholeImage's business, and whether it boots LossNeverBricks'.
Propagates ==
  (peer.alive /\ (peer.id.version > OurId.version \/ follows))
    ~> (mode # "running" \/ ~peer.alive)

\* fw_upgrade.h:15-24.  No transfer stays in progress for good: whatever stops,
\* the host, the peer board or the link, the board finishes or gives up.
TransferEnds ==
  fw.in_progress ~> (~fw.in_progress \/ mode # "running")

\* fw_upgrade.h:163-166, quoted: "leaving a half-written one to be booted later
\* is the failure this issue exists to prevent": a half-written image with the
\* peer board gone is repaired or handed to ROM.
HalfWrittenIsLoud ==
  (fw.dirty /\ ~known) ~> (~fw.dirty \/ known \/ mode # "running")
=============================================================================
