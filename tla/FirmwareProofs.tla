--------------------------- MODULE FirmwareProofs ---------------------------
(***************************************************************************)
(* Proofs about firmware transfers: the board boots only a whole image, and *)
(* loss alone never takes it to ROM while no more than a page of words is  *)
(* left on the link between transfers.                                     *)
(***************************************************************************)
EXTENDS Firmware, SequenceTheorems, TLAPS

SIZE == STAGING_IMAGE_SIZE

FwStates == [in_progress : BOOLEAN, source : {"NONE", "PULL", "DROP"},
             byte_done : BOOLEAN, address : 0 .. SIZE,
             checksum : Seq(Words), dirty : BOOLEAN]

\* How many of the words below a are summed.
SummedBelow(a) == IF a < SIZE - WORDS THEN a ELSE SIZE - WORDS

\* What either transport can have fed to the checksum so far.
SumBounded ==
  /\ Len(fw.checksum) <= 2 * (SIZE - WORDS)
  /\ block > 0 => Len(fw.checksum) <= SIZE - WORDS + block * WORDS
  /\ mode = "running" /\ (fw.source = "PULL" \/ core1 = "response") =>
       Len(fw.checksum) <= SummedBelow(fw.address) + block * WORDS

\* The word core 1 has looked at is still there when it acts.
LooksOK == core1 = "response" => resps # <<>>

TypeInv == TypeOK /\ SumBounded /\ LooksOK
-----------------------------------------------------------------------------
(* The sizes. *)
LEMMA Sizes ==
  /\ WORDS \in Nat /\ WORDS >= 1 /\ PAGES \in Nat /\ PAGES >= 2 /\ MaxFaults \in Nat
  /\ SIZE \in Nat /\ SIZE = PAGES * WORDS /\ SIZE >= 2 * WORDS
  /\ (PAGES - 1) * WORDS = SIZE - WORDS
  BY FirmwareAssumption DEF SIZE, STAGING_IMAGE_SIZE

(* The words of the blocks below the b-th. *)
LEMMA BlockSizes ==
  ASSUME NEW b \in 0 .. PAGES - 1
  PROVE  /\ b * WORDS \in Nat /\ b * WORDS <= SIZE - WORDS
         /\ (b + 1) * WORDS = b * WORDS + WORDS
         /\ b = PAGES - 1 => b * WORDS = SIZE - WORDS
         /\ b # PAGES - 1 => b * WORDS + WORDS <= SIZE - WORDS
         /\ (b + 1) % PAGES = IF b = PAGES - 1 THEN 0 ELSE b + 1
  <1>1. b \in Nat /\ b <= PAGES - 1 /\ WORDS \in Nat /\ PAGES \in Nat /\ PAGES >= 2
    BY Sizes
  <1>2. b * WORDS \in Nat /\ (b + 1) * WORDS = b * WORDS + WORDS
    BY <1>1
  <1>3. \A n \in Nat : n <= PAGES - 1 => n * WORDS <= (PAGES - 1) * WORDS
    BY <1>1
  <1>4. b * WORDS <= SIZE - WORDS
    BY <1>1, <1>3, Sizes
  <1>5. b # PAGES - 1 => (b + 1) * WORDS <= SIZE - WORDS
    BY <1>1, <1>3, Sizes
  <1>6. (b + 1) % PAGES = IF b = PAGES - 1 THEN 0 ELSE b + 1
    <2>1. \A x \in 0 .. PAGES - 1 : x % PAGES = x
      BY <1>1
    <2>2. PAGES % PAGES = 0
      BY <1>1
    <2>3. QED
      BY <1>1, <2>1, <2>2
  <1>7. QED
    BY <1>1, <1>2, <1>4, <1>5, <1>6, Sizes

(* Every address is in one page and at one place of it. *)
LEMMA PageSplit ==
  ASSUME NEW a \in Nat
  PROVE  \E q \in Nat, r \in 0 .. WORDS - 1 :
           a = q * WORDS + r /\ a \div WORDS = q /\ a % WORDS = r
  <1>1. WORDS \in Nat \ {0}
    BY FirmwareAssumption
  <1> DEFINE q == a \div WORDS
  <1>2. q \in Nat /\ q * WORDS <= a /\ a < q * WORDS + WORDS
    <2>1. a \div WORDS \in Int
      BY <1>1
    <2>2. (a \div WORDS) * WORDS <= a
      BY <1>1
    <2>3. a < (a \div WORDS) * WORDS + WORDS
      BY <1>1
    <2>4. a \div WORDS >= 0
      BY <1>1
    <2>5. QED
      BY <2>1, <2>2, <2>3, <2>4
  <1>3. a \div WORDS = q
    OBVIOUS
  <1> HIDE DEF q
  <1> DEFINE r == a - q * WORDS
  <1>4. r \in 0 .. WORDS - 1 /\ a = q * WORDS + r
    <2>1. q * WORDS \in Nat
      BY <1>1, <1>2
    <2>2. QED
      BY <1>1, <1>2, <2>1
  <1> HIDE DEF r
  <1>5. (q * WORDS + r) % WORDS = r
    BY <1>1, <1>2, <1>4
  <1>6. a % WORDS = r
    BY <1>4, <1>5
  <1>7. QED
    BY <1>2, <1>3, <1>4, <1>6, Zenon

(* And it is the only one. *)
LEMMA PageIs ==
  ASSUME NEW p \in Nat, NEW r \in 0 .. WORDS - 1
  PROVE  (p * WORDS + r) \div WORDS = p /\ (p * WORDS + r) % WORDS = r
  BY FirmwareAssumption

LEMMA InPage ==
  ASSUME NEW a \in Nat, NEW p \in Nat
  PROVE  a \div WORDS = p <=> p * WORDS <= a /\ a < p * WORDS + WORDS
  <1>1. WORDS \in Nat /\ p * WORDS \in Nat
    BY FirmwareAssumption
  <1>2. ASSUME p * WORDS <= a, a < p * WORDS + WORDS
        PROVE  a \div WORDS = p
    <2>1. a - p * WORDS \in 0 .. WORDS - 1 /\ a = p * WORDS + (a - p * WORDS)
      BY <1>1, <1>2
    <2>2. QED
      BY <2>1, PageIs
  <1>3. ASSUME a \div WORDS = p
        PROVE  p * WORDS <= a /\ a < p * WORDS + WORDS
    <2>1. (a \div WORDS) * WORDS <= a
      BY FirmwareAssumption
    <2>2. a < (a \div WORDS) * WORDS + WORDS
      BY FirmwareAssumption
    <2>3. QED
      BY <1>3, <2>1, <2>2
  <1>4. QED
    BY <1>2, <1>3
-----------------------------------------------------------------------------
(* The operators. *)

(* Writing a page keeps the image an image. *)
LEMMA WriteTypes ==
  ASSUME flash \in [Addresses -> Words], NEW p \in Int, NEW buffer \in [Offsets -> Words]
  PROVE  write_flash_page(p, buffer) \in [Addresses -> Words]
  <1>1. \A a \in Addresses : a % WORDS \in Offsets
    BY PageSplit, Sizes DEF Addresses, Offsets, SIZE
  <1>2. QED
    BY <1>1 DEF write_flash_page

(* The verdict is one of two. *)
LEMMA VerdictIs ==
  ASSUME NEW image, NEW sum
  PROVE  Verdict(image, sum) \in {"reboot", "rom"}
  BY DEF Verdict

(* Giving up leaves the types. *)
LEMMA AbandonTypes ==
  ASSUME NEW present \in BOOLEAN, fw \in FwStates, abandon_firmware_upgrade(present)
  PROVE  /\ fw' \in FwStates /\ fw'.checksum = fw.checksum
         /\ \/ fw' = fw /\ mode' = "rom" /\ fw.dirty /\ ~ present
            \/ fw'.source = "NONE" /\ mode' = mode
  <1>1. CASE fw.dirty /\ ~ present
    <2>1. fw' = fw /\ mode' = "rom"
      BY <1>1 DEF abandon_firmware_upgrade, fw_upgrade_must_recover
    <2>2. QED
      BY <1>1, <2>1
  <1>2. CASE ~ (fw.dirty /\ ~ present)
    <2>1. /\ fw' = [fw EXCEPT !.in_progress = FALSE, !.source = "NONE", !.address = 0]
          /\ mode' = mode
      BY <1>2 DEF abandon_firmware_upgrade, fw_upgrade_must_recover
    <2>2. 0 \in 0 .. SIZE
      BY Sizes
    <2>3. QED
      BY <2>1, <2>2 DEF FwStates
  <1>3. QED
    BY <1>1, <1>2

(* A request joins the link or is not heard. *)
LEMMA RequestTypes ==
  ASSUME NEW a \in Nat, reqs \in Seq(Addresses), request_byte(a)
  PROVE  reqs' \in Seq(Addresses)
  <1>1. CASE peer.alive /\ a < SIZE
    <2>1. a \in Addresses /\ reqs' = Append(reqs, a)
      BY <1>1, Sizes DEF request_byte, Addresses, SIZE
    <2>2. QED
      BY <2>1
  <1>2. CASE ~ (peer.alive /\ a < SIZE)
    BY <1>2 DEF request_byte, SIZE
  <1>3. QED
    BY <1>1, <1>2
-----------------------------------------------------------------------------
(***************************************************************************)
(* Types.  One lemma per action that moves the transfer, and one for the   *)
(* actions that leave it alone.                                            *)
(***************************************************************************)

(* The type of each variable, for the steps below. *)
LEMMA Types ==
  ASSUME TypeOK
  PROVE  /\ fw \in FwStates /\ fw.checksum \in Seq(Words) /\ Len(fw.checksum) \in Nat
         /\ fw.address \in 0 .. SIZE /\ fw.address \in Nat
         /\ page_buffer \in [Offsets -> Words] /\ flash \in [Addresses -> Words]
         /\ reqs \in Seq(Addresses) /\ resps \in Seq(Addresses \X Words)
         /\ block \in 0 .. PAGES - 1 /\ faults \in 0 .. MaxFaults
         /\ peer.pages \in 0 .. PAGES /\ peer.alive \in BOOLEAN
  BY Sizes DEF TypeOK, FwStates, SIZE

(* Faults are counted up to the bound. *)
LEMMA FaultTypes ==
  ASSUME faults \in 0 .. MaxFaults, NEW early \in BOOLEAN, Fault(early)
  PROVE  faults' \in 0 .. MaxFaults /\ faults' >= faults
         /\ (early => faults' = faults + 1) /\ (~ early => faults' = faults)
  BY Sizes DEF Fault

(* A step that leaves the transfer and core 1 alone. *)
LEMMA AloneTypes ==
  ASSUME TypeInv, UNCHANGED <<fw, core1, block, mode>>,
         page_buffer' \in [Offsets -> Words], UNCHANGED flash, known' \in BOOLEAN, UNCHANGED follows,
         reqs' \in Seq(Addresses), resps' \in Seq(Addresses \X Words),
         core1 = "response" => resps' # <<>>,
         peer' \in [alive : BOOLEAN, pages : 0 .. PAGES, id : PeerIds \cup {NewId}],
         faults' \in 0 .. MaxFaults, blame' \subseteq {"save", "drop", "rewrite"}
  PROVE  TypeInv'
  <1>1. TypeOK'
    BY DEF TypeInv, TypeOK
  <1>2. SumBounded'
    BY DEF TypeInv, SumBounded, SummedBelow
  <1>3. LooksOK'
    BY DEF TypeInv, LooksOK
  <1>4. QED
    BY <1>1, <1>2, <1>3 DEF TypeInv

LEMMA QuietTypes ==
  ASSUME TypeInv,
         \/ \E early \in BOOLEAN : AskAgain(early)
         \/ save_config \/ handle_request_byte_msg \/ Lose
         \/ PeerRewrites \/ PeerDies \/ PeerReturns \/ Stopped
  PROVE  TypeInv'
  <1>0. TypeOK
    BY DEF TypeInv
  <1>1. ASSUME NEW early \in BOOLEAN, AskAgain(early) PROVE TypeInv'
    <2>1. reqs' \in Seq(Addresses)
      BY <1>0, <1>1, Types, RequestTypes DEF AskAgain
    <2>2. faults' \in 0 .. MaxFaults
      BY <1>0, <1>1, Types, FaultTypes DEF AskAgain
    <2>3. QED
      BY <1>0, <1>1, <2>1, <2>2, AloneTypes DEF AskAgain, TypeOK, TypeInv, LooksOK
  <1>2. CASE save_config
    <2>1. faults' \in 0 .. MaxFaults
      BY <1>0, <1>2, Types, FaultTypes DEF save_config
    <2>2. page_buffer' \in [Offsets -> Words]
      BY <1>2 DEF save_config, Words
    <2>3. QED
      BY <1>0, <1>2, <2>1, <2>2, AloneTypes DEF save_config, TypeOK, TypeInv, LooksOK
  <1>3. CASE handle_request_byte_msg
    <2>1. Head(reqs) \in Addresses /\ reqs' \in Seq(Addresses)
      BY <1>0, <1>3, Types DEF handle_request_byte_msg
    <2>2. <<Head(reqs), PeerWord(Head(reqs))>> \in Addresses \X Words
      BY <2>1 DEF PeerWord, Words
    <2>3. resps' \in Seq(Addresses \X Words) /\ resps' # <<>>
      BY <1>0, <1>3, <2>2, Types DEF handle_request_byte_msg
    <2>4. QED
      BY <1>0, <1>3, <2>1, <2>3, AloneTypes DEF handle_request_byte_msg, TypeOK
  <1>4. CASE Lose
    <2>1. faults' \in 0 .. MaxFaults
      BY <1>0, <1>4, Types, FaultTypes DEF Lose
    <2>2. reqs' \in Seq(Addresses) /\ resps' \in Seq(Addresses \X Words)
          /\ (core1 = "response" => resps' # <<>>)
      <3>1. CASE reqs # <<>> /\ reqs' = Tail(reqs) /\ UNCHANGED resps
        BY <1>0, <3>1, Types DEF TypeInv, LooksOK
      <3>2. CASE resps # <<>> /\ core1 # "response" /\ resps' = Tail(resps) /\ UNCHANGED reqs
        BY <1>0, <3>2, Types
      <3>3. QED
        BY <1>4, <3>1, <3>2 DEF Lose
    <2>3. QED
      BY <1>0, <1>4, <2>1, <2>2, AloneTypes DEF Lose, TypeOK
  <1>5. CASE PeerRewrites
    <2>1. peer' \in [alive : BOOLEAN, pages : 0 .. PAGES, id : PeerIds \cup {NewId}]
      <3>1. peer.pages + 1 \in 0 .. PAGES
        <4>1. peer.pages < PAGES
          BY <1>5 DEF PeerRewrites
        <4>2. peer.pages \in 0 .. PAGES /\ PAGES \in Nat
          BY <1>0, Sizes, Types
        <4>3. QED
          BY <4>1, <4>2
      <3> DEFINE id == IF peer.pages + 1 = PAGES THEN NewId ELSE peer.id
      <3>2. id \in PeerIds \cup {NewId}
        BY <1>0 DEF TypeOK
      <3>3. peer' = [peer EXCEPT !.pages = peer.pages + 1, !.id = id]
        BY <1>5 DEF PeerRewrites
      <3> HIDE DEF id
      <3>4. QED
        BY <1>0, <3>1, <3>2, <3>3 DEF TypeOK
    <2>2. QED
      BY <1>0, <1>5, <2>1, AloneTypes DEF PeerRewrites, TypeOK, TypeInv, LooksOK
  <1>6. CASE PeerDies
    <2>1. faults' \in 0 .. MaxFaults
      BY <1>0, <1>6, Types, FaultTypes DEF PeerDies
    <2>2. peer' \in [alive : BOOLEAN, pages : 0 .. PAGES, id : PeerIds \cup {NewId}]
      BY <1>0, <1>6 DEF PeerDies, TypeOK
    <2>3. reqs' \in Seq(Addresses)
      BY <1>6 DEF PeerDies
    <2>4. QED
      BY <1>0, <1>6, <2>1, <2>2, <2>3, AloneTypes DEF PeerDies, TypeOK, TypeInv, LooksOK
  <1>7. CASE PeerReturns
    <2>1. peer' \in [alive : BOOLEAN, pages : 0 .. PAGES, id : PeerIds \cup {NewId}]
      BY <1>0, <1>7 DEF PeerReturns, TypeOK
    <2>2. QED
      BY <1>0, <1>7, <2>1, AloneTypes DEF PeerReturns, TypeOK, TypeInv, LooksOK
  <1>8. CASE Stopped
    BY <1>0, <1>8, AloneTypes DEF Stopped, vars, TypeOK, TypeInv, LooksOK
  <1>9. QED
    BY <1>1, <1>2, <1>3, <1>4, <1>5, <1>6, <1>7, <1>8

LEMMA HeartbeatTypes ==
  ASSUME TypeInv, NEW early \in BOOLEAN, handle_heartbeat_msg(early)
  PROVE  TypeInv'
  <1>0. TypeOK
    BY DEF TypeInv
  <1>1. faults' \in 0 .. MaxFaults
    BY <1>0, Types, FaultTypes DEF handle_heartbeat_msg
  <1>2. CASE fw_upgrade_should_pull(OurId, peer.id)
    <2>1. fw' = start_pull
      BY <1>2 DEF handle_heartbeat_msg
    <2>2. fw' \in FwStates /\ fw'.checksum = <<>>
      BY <1>0, <2>1, Types, Sizes DEF start_pull, FwStates
    <2>3. TypeOK'
      <3>1. Len(fw'.checksum) <= 2 * STAGING_IMAGE_SIZE
        BY <2>2, Sizes DEF SIZE
      <3>2. blame' \subseteq {"save", "drop", "rewrite"}
        BY <1>0, <1>2 DEF handle_heartbeat_msg, TypeOK
      <3>3. QED
        BY <1>0, <1>1, <2>2, <3>1, <3>2 DEF handle_heartbeat_msg, TypeOK, FwStates, SIZE
    <2>4. block * WORDS \in Nat
      BY <1>0, Types, BlockSizes
    <2>5. SummedBelow(fw'.address) \in Nat
      BY <2>2, Sizes DEF SummedBelow, FwStates
    <2>6. Len(fw'.checksum) = 0 /\ block' = block
      BY <2>2 DEF handle_heartbeat_msg
    <2>7. SumBounded'
      BY <2>4, <2>5, <2>6, Sizes DEF SumBounded, SummedBelow
    <2>8. LooksOK'
      BY DEF TypeInv, LooksOK, handle_heartbeat_msg
    <2>9. QED
      BY <2>3, <2>7, <2>8 DEF TypeInv
  <1>3. CASE ~ fw_upgrade_should_pull(OurId, peer.id)
    BY <1>0, <1>1, <1>3, AloneTypes DEF handle_heartbeat_msg, TypeOK, TypeInv, LooksOK
  <1>4. QED
    BY <1>2, <1>3

LEMMA LooksTypes ==
  ASSUME TypeInv, PullLooks \/ ResponseLooks
  PROVE  TypeInv'
  <1>0. TypeOK
    BY DEF TypeInv
  <1>1. UNCHANGED <<fw, block, mode>>
    BY DEF PullLooks, ResponseLooks
  <1>2. core1' = "response" => fw.source = "PULL" /\ resps' # <<>>
    BY DEF PullLooks, ResponseLooks, fw_upgrade_may_pull
  <1>3. TypeOK'
    <2>1. resps' \in Seq(Addresses \X Words) /\ core1' \in {"idle", "pull", "response"}
      <3>1. CASE PullLooks
        BY <1>0, <3>1, Types DEF PullLooks
      <3>2. CASE ResponseLooks
        <4>1. resps \in Seq(Addresses \X Words) /\ resps # <<>>
          BY <1>0, <3>2, Types DEF ResponseLooks
        <4>2. Tail(resps) \in Seq(Addresses \X Words)
          BY <4>1
        <4>3. resps' \in {resps, Tail(resps)} /\ core1' \in {core1, "response"}
          BY <3>2 DEF ResponseLooks
        <4>4. QED
          BY <1>0, <4>1, <4>2, <4>3 DEF TypeOK
      <3>3. QED
        BY <3>1, <3>2
    <2>2. QED
      BY <1>0, <2>1 DEF PullLooks, ResponseLooks, TypeOK
  <1>4. SumBounded'
    BY <1>1, <1>2 DEF TypeInv, SumBounded, SummedBelow
  <1>5. QED
    BY <1>2, <1>3, <1>4 DEF TypeInv, LooksOK

LEMMA PullActsTypes ==
  ASSUME TypeInv, NEW refused \in BOOLEAN, PullActs(refused)
  PROVE  TypeInv'
  <1>0. TypeOK
    BY DEF TypeInv
  <1> DEFINE finished == fw.address % WORDS = 0 /\ fw.address # 0
             image == IF finished THEN write_flash_page((fw.address - 1) \div WORDS, page_buffer)
                                  ELSE flash
             verdict == Verdict(image, fw.checksum)
  <1>1. /\ flash' = image /\ core1' = "idle"
        /\ IF PullDone
             THEN /\ fw' = [fw EXCEPT !.in_progress = FALSE, !.source = "NONE",
                                      !.dirty = verdict = "rom"]
                  /\ mode' = verdict
                  /\ UNCHANGED reqs
             ELSE /\ fw' = [fw EXCEPT !.dirty = @ \/ finished, !.byte_done = refused]
                  /\ IF refused THEN UNCHANGED reqs ELSE request_byte(fw.address)
                  /\ UNCHANGED mode
    BY DEF PullActs
  <1>2. verdict \in {"reboot", "rom"}
    BY VerdictIs
  <1>3. image \in [Addresses -> Words]
    <2>1. CASE finished
      <3>1. (fw.address - 1) \div WORDS \in Int
        BY <1>0, <2>1, Types, Sizes
      <3>2. QED
        BY <1>0, <2>1, <3>1, Types, WriteTypes
    <2>2. CASE ~ finished
      BY <1>0, <2>2, Types
    <2>3. QED
      BY <2>1, <2>2
  <1>4. faults' \in 0 .. MaxFaults
    BY <1>0, Types, FaultTypes DEF PullActs
  <1>5. fw \in FwStates /\ fw.address \in Nat
    BY <1>0, Types
  <1> DEFINE d == fw.dirty \/ finished
             e == verdict = "rom"
  <1>6. d \in BOOLEAN /\ e \in BOOLEAN
    BY Zenon
  <1>7. CASE PullDone
    <2>1. fw' = [fw EXCEPT !.in_progress = FALSE, !.source = "NONE", !.dirty = e]
          /\ mode' = verdict /\ reqs' = reqs
      BY <1>1, <1>7, Zenon
    <2> HIDE DEF e, verdict, image
    <2>2. fw' \in FwStates /\ fw'.checksum = fw.checksum /\ fw'.source = "NONE"
      BY <1>5, <1>6, <2>1 DEF FwStates
    <2>3. TypeOK'
      BY <1>0, <1>1, <1>2, <1>3, <1>4, <2>1, <2>2 DEF PullActs, TypeOK, FwStates, SIZE
    <2>4. SumBounded'
      BY <1>1, <2>2 DEF TypeInv, SumBounded, SummedBelow, PullActs
    <2>5. QED
      BY <1>1, <2>3, <2>4 DEF TypeInv, LooksOK
  <1>8. CASE ~ PullDone
    <2>1. fw' = [fw EXCEPT !.dirty = d, !.byte_done = refused]
          /\ mode' = mode /\ (IF refused THEN UNCHANGED reqs ELSE request_byte(fw.address))
      BY <1>1, <1>8, Zenon
    <2> HIDE DEF d, verdict, image
    <2>2. fw' \in FwStates /\ fw'.checksum = fw.checksum /\ fw'.source = fw.source
          /\ fw'.address = fw.address
      BY <1>5, <1>6, <2>1 DEF FwStates
    <2>3. reqs' \in Seq(Addresses)
      BY <1>0, <1>5, <2>1, Types, RequestTypes
    <2>4. TypeOK'
      BY <1>0, <1>1, <1>3, <1>4, <2>1, <2>2, <2>3 DEF PullActs, TypeOK, FwStates, SIZE
    <2>5. SumBounded'
      BY <1>1, <2>1, <2>2 DEF TypeInv, SumBounded, SummedBelow, PullActs
    <2>6. QED
      BY <1>1, <2>4, <2>5 DEF TypeInv, LooksOK
  <1>9. QED
    BY <1>7, <1>8

(* A word taken is summed and collected; another one ends the pull. *)
LEMMA ResponseActsTypes ==
  ASSUME TypeInv, ResponseActs
  PROVE  TypeInv'
  <1>0. TypeOK
    BY DEF TypeInv
  <1> DEFINE a == Head(resps)[1]
             word == Head(resps)[2]
  <1>1. core1 = "response" /\ mode = "running" /\ core1' = "idle" /\ resps' = Tail(resps)
    BY DEF ResponseActs
  <1>2. resps # <<>> /\ Head(resps) \in Addresses \X Words /\ resps' \in Seq(Addresses \X Words)
    BY <1>0, <1>1, Types DEF TypeInv, LooksOK
  <1>3. a \in Addresses /\ word \in Words
    BY <1>2
  <1>4. known \in BOOLEAN
    BY <1>0 DEF TypeOK
  <1>5. CASE ~ Awaited(a)
    <2>1. abandon_firmware_upgrade(known) /\ UNCHANGED page_buffer
      BY <1>5 DEF ResponseActs
    <2>2. fw' \in FwStates /\ fw'.checksum = fw.checksum /\ (mode' = "running" => fw'.source = "NONE")
          /\ mode' \in {"running", "rom"}
      BY <1>0, <1>1, <1>4, <2>1, Types, AbandonTypes
    <2>3. TypeOK'
      BY <1>0, <1>1, <1>2, <2>1, <2>2 DEF ResponseActs, TypeOK, FwStates, SIZE
    <2>4. SumBounded'
      BY <1>1, <2>2 DEF TypeInv, SumBounded, SummedBelow, ResponseActs
    <2>5. QED
      BY <1>1, <2>3, <2>4 DEF TypeInv, LooksOK
  <1>6. CASE Awaited(a)
    <2> DEFINE sum == IF Summed(a) THEN Append(fw.checksum, word) ELSE fw.checksum
    <2>1. /\ fw' = [fw EXCEPT !.address = fw.address + 1, !.byte_done = TRUE, !.checksum = sum]
          /\ page_buffer' = [page_buffer EXCEPT ![a % WORDS] = word]
          /\ mode' = mode
      BY <1>6 DEF ResponseActs
    <2>2. a = fw.address
      BY <1>6 DEF Awaited
    <2>3. /\ sum \in Seq(Words)
          /\ Summed(a) => Len(sum) = Len(fw.checksum) + 1
          /\ ~ Summed(a) => Len(sum) = Len(fw.checksum)
      BY <1>0, <1>3, Types
    <2> HIDE DEF sum
    <2>4. fw.address + 1 \in 0 .. SIZE
      BY <1>3, <2>2, Sizes DEF Addresses, SIZE
    <2>5. /\ fw' \in FwStates /\ fw'.checksum = sum /\ fw'.address = fw.address + 1
          /\ fw'.source = fw.source
      BY <1>0, <2>1, <2>3, <2>4, Types DEF FwStates
    <2>6. page_buffer' \in [Offsets -> Words]
      BY <1>0, <1>3, <2>1, Types
    <2>7. Len(sum) <= SummedBelow(fw.address + 1) + block * WORDS
      <3>1. Len(fw.checksum) <= SummedBelow(fw.address) + block * WORDS
        BY <1>1 DEF TypeInv, SumBounded
      <3>2. block * WORDS \in Nat
        BY <1>0, Types, BlockSizes
      <3>3. Len(fw.checksum) \in Nat /\ fw.address \in Nat
        BY <1>0, Types
      <3>4. CASE Summed(a)
        <4>1. SummedBelow(fw.address) = fw.address /\ SummedBelow(fw.address + 1) = fw.address + 1
          BY <2>2, <3>3, <3>4, Sizes DEF Summed, SummedBelow, SIZE
        <4>2. QED
          BY <2>3, <3>1, <3>2, <3>3, <3>4, <4>1
      <3>5. CASE ~ Summed(a)
        <4>1. SummedBelow(fw.address) = SummedBelow(fw.address + 1)
          BY <2>2, <3>3, <3>5, Sizes DEF Summed, SummedBelow, SIZE
        <4>2. QED
          BY <2>3, <3>1, <3>5, <4>1
      <3>6. QED
        BY <3>4, <3>5
    <2>8. SummedBelow(fw.address + 1) <= SIZE - WORDS /\ SummedBelow(fw.address + 1) \in Nat
      BY <2>4, Sizes DEF SummedBelow
    <2>9. block * WORDS \in Nat /\ block * WORDS <= SIZE - WORDS
      BY <1>0, Types, BlockSizes
    <2>10. Len(sum) \in Nat /\ Len(sum) <= 2 * (SIZE - WORDS) /\ Len(sum) <= SIZE - WORDS + block * WORDS
      BY <2>3, <2>7, <2>8, <2>9, Sizes
    <2>11. TypeOK'
      <3>1. Len(sum) <= 2 * STAGING_IMAGE_SIZE
        BY <2>10, Sizes DEF SIZE
      <3>2. QED
        BY <1>0, <1>1, <1>2, <2>1, <2>5, <2>6, <3>1 DEF ResponseActs, TypeOK, FwStates, SIZE
    <2>12. SumBounded'
      <3>1. block' = block
        BY DEF ResponseActs
      <3>2. QED
        BY <2>5, <2>7, <2>10, <3>1 DEF SumBounded, SummedBelow
    <2>13. QED
      BY <1>1, <2>11, <2>12 DEF TypeInv, LooksOK
  <1>7. QED
    BY <1>5, <1>6

LEMMA TaskTypes ==
  ASSUME TypeInv, NEW expired \in BOOLEAN, NEW stalled \in BOOLEAN, NEW early \in BOOLEAN,
         heartbeat_output_task(expired, stalled, early)
  PROVE  TypeInv'
  <1>0. TypeOK
    BY DEF TypeInv
  <1> DEFINE present == known /\ ~ expired
  <1>1. present \in BOOLEAN /\ known' = present
    BY DEF heartbeat_output_task
  <1>2. faults' \in 0 .. MaxFaults
    BY <1>0, Types, FaultTypes DEF heartbeat_output_task
  <1>3. CASE stalled
    <2>1. abandon_firmware_upgrade(present) /\ (block' = IF fw.source = "DROP" THEN 0 ELSE block)
          /\ mode = "running" /\ core1 = "idle" /\ core1' = core1 /\ UNCHANGED <<resps, reqs>>
      BY <1>3 DEF heartbeat_output_task
    <2> HIDE DEF present
    <2>2. fw' \in FwStates /\ fw'.checksum = fw.checksum /\ (mode' = "running" => fw'.source = "NONE")
          /\ mode' \in {"running", "rom"}
      BY <1>0, <1>1, <2>1, Types, AbandonTypes
    <2>3. block' \in 0 .. PAGES - 1 /\ (block' > 0 => block' = block)
      <3>1. block' = 0 \/ block' = block
        BY <2>1
      <3>2. block \in 0 .. PAGES - 1 /\ PAGES \in Nat /\ PAGES >= 2
        BY <1>0, Types, Sizes
      <3>3. QED
        BY <3>1, <3>2
    <2>4. TypeOK'
      BY <1>0, <1>1, <1>2, <2>1, <2>2, <2>3 DEF heartbeat_output_task, TypeOK, FwStates, SIZE
    <2>5. SumBounded'
      BY <2>1, <2>2, <2>3 DEF TypeInv, SumBounded, SummedBelow
    <2>6. QED
      BY <2>1, <2>4, <2>5 DEF TypeInv, LooksOK
  <1>4. CASE ~ stalled
    BY <1>0, <1>1, <1>2, <1>4, AloneTypes DEF heartbeat_output_task, TypeOK, TypeInv, LooksOK
  <1>5. QED
    BY <1>3, <1>4

(* What a block feeds to the checksum. *)
LEMMA DropSum ==
  ASSUME TypeOK
  PROVE  LET sum == (IF block = 0 THEN <<>> ELSE fw.checksum)
                      \o (IF block = PAGES - 1 THEN <<>> ELSE [i \in 1 .. WORDS |-> "host"])
         IN  /\ sum \in Seq(Words)
             /\ Len(sum) = (IF block = 0 THEN 0 ELSE Len(fw.checksum))
                             + (IF block = PAGES - 1 THEN 0 ELSE WORDS)
             /\ \A i \in 1 .. Len(sum) :
                  sum[i] = "host" \/ (block # 0 /\ i \in 1 .. Len(fw.checksum) /\ sum[i] = fw.checksum[i])
  <1> DEFINE s == IF block = 0 THEN <<>> ELSE fw.checksum
             t == IF block = PAGES - 1 THEN <<>> ELSE [i \in 1 .. WORDS |-> "host"]
  <1>1. /\ s \in Seq(Words) /\ Len(s) = (IF block = 0 THEN 0 ELSE Len(fw.checksum))
        /\ \A i \in 1 .. Len(s) : block # 0 /\ i \in 1 .. Len(fw.checksum) /\ s[i] = fw.checksum[i]
    BY Types
  <1>2. /\ t \in Seq(Words) /\ Len(t) = (IF block = PAGES - 1 THEN 0 ELSE WORDS)
        /\ \A i \in 1 .. Len(t) : t[i] = "host"
    <2>1. CASE block = PAGES - 1
      BY <2>1
    <2>2. CASE block # PAGES - 1
      <3> DEFINE u == [i \in 1 .. WORDS |-> "host"]
      <3>1. WORDS \in Nat /\ \A i \in 1 .. WORDS : "host" \in Words
        BY Sizes DEF Words
      <3>2. u \in Seq(Words) /\ Len(u) = WORDS
        BY <3>1, IsASeq
      <3>3. \A i \in 1 .. WORDS : u[i] = "host"
        OBVIOUS
      <3>4. t = u
        BY <2>2
      <3> HIDE DEF u, t
      <3>5. QED
        BY <2>2, <3>2, <3>3, <3>4
    <2>3. QED
      BY <2>1, <2>2
  <1> HIDE DEF s, t
  <1>3. /\ s \o t \in Seq(Words) /\ Len(s \o t) = Len(s) + Len(t)
        /\ \A i \in 1 .. Len(s) + Len(t) :
             (s \o t)[i] = IF i <= Len(s) THEN s[i] ELSE t[i - Len(s)]
    BY <1>1, <1>2
  <1>4. Len(s) \in Nat /\ Len(t) \in Nat
    BY <1>1, <1>2
  <1>5. \A i \in 1 .. Len(s \o t) :
          (s \o t)[i] = "host" \/ (block # 0 /\ i \in 1 .. Len(fw.checksum) /\ (s \o t)[i] = fw.checksum[i])
    BY <1>1, <1>2, <1>3, <1>4
  <1>6. QED
    BY <1>1, <1>2, <1>3, <1>5 DEF s, t

LEMMA DropTypes ==
  ASSUME TypeInv, tud_msc_write10_cb
  PROVE  TypeInv'
  <1>0. TypeOK
    BY DEF TypeInv
  <1> DEFINE first == block = 0
             last == block = PAGES - 1
             image == write_flash_page(block, [o \in Offsets |-> "host"])
             sum == (IF first THEN <<>> ELSE fw.checksum)
                      \o (IF last THEN <<>> ELSE [i \in 1 .. WORDS |-> "host"])
             verdict == Verdict(image, sum)
             ip == fw.in_progress \/ first
             d == ~ last \/ verdict = "rom"
             src == drop_source(block)
  <1>1. /\ mode = "running" /\ Fault(first) /\ flash' = image
        /\ fw' = [fw EXCEPT !.in_progress = ip, !.source = src, !.checksum = sum, !.dirty = d]
        /\ mode' = (IF last THEN verdict ELSE mode)
        /\ block' = (block + 1) % PAGES
        /\ blame' = blame \cup {b \in {"drop"} : first /\ core1 # "idle"}
        /\ UNCHANGED <<page_buffer, known, reqs, resps, core1, peer, follows>>
    BY DEF tud_msc_write10_cb
  <1>2. ip \in BOOLEAN /\ d \in BOOLEAN /\ first \in BOOLEAN
    BY Zenon
  <1>3. verdict \in {"reboot", "rom"}
    BY VerdictIs
  <1>4. image \in [Addresses -> Words]
    <2>1. [o \in Offsets |-> "host"] \in [Offsets -> Words]
      BY DEF Words
    <2>2. block \in Int
      BY <1>0, Types, Sizes
    <2>3. QED
      BY <1>0, <2>1, <2>2, Types, WriteTypes
  <1>5. sum \in Seq(Words)
        /\ Len(sum) = (IF first THEN 0 ELSE Len(fw.checksum)) + (IF last THEN 0 ELSE WORDS)
    BY <1>0, DropSum
  <1>6. src \in {"NONE", "PULL", "DROP"} /\ (~ first => src = fw.source) /\ (first => src = "DROP")
    BY <1>0 DEF drop_source, TypeOK
  <1>7. faults' \in 0 .. MaxFaults
    BY <1>0, <1>1, <1>2, Types, FaultTypes
  <1>8. blame' \subseteq {"save", "drop", "rewrite"}
    BY <1>0, <1>1 DEF TypeOK
  <1> HIDE DEF image, sum, verdict, ip, d, src
  <1>9. fw' \in FwStates /\ fw'.checksum = sum /\ fw'.source = src /\ fw'.address = fw.address
    BY <1>0, <1>1, <1>2, <1>5, <1>6, Types DEF FwStates
  <1>10. /\ block \in 0 .. PAGES - 1 /\ block * WORDS \in Nat /\ block * WORDS <= SIZE - WORDS
         /\ (block + 1) * WORDS = block * WORDS + WORDS
         /\ last => block * WORDS = SIZE - WORDS
         /\ ~ last => block * WORDS + WORDS <= SIZE - WORDS
         /\ block' = IF last THEN 0 ELSE block + 1
    BY <1>0, <1>1, Types, BlockSizes
  <1>11. Len(fw.checksum) \in Nat /\ fw.address \in 0 .. SIZE
    BY <1>0, Types
  <1>12. Len(sum) \in Nat /\ Len(sum) <= 2 * (SIZE - WORDS)
         /\ (~ last => Len(sum) <= SIZE - WORDS + (block + 1) * WORDS)
    <2>1. Len(fw.checksum) <= 2 * (SIZE - WORDS)
          /\ (block > 0 => Len(fw.checksum) <= SIZE - WORDS + block * WORDS)
      BY DEF TypeInv, SumBounded
    <2>2. CASE first
      BY <1>5, <1>10, <2>2, Sizes
    <2>3. CASE ~ first
      <3>1. block > 0
        BY <1>10, <2>3
      <3>2. CASE last
        BY <1>5, <1>10, <1>11, <2>1, <2>3, <3>2
      <3>3. CASE ~ last
        <4>1. Len(sum) = Len(fw.checksum) + WORDS
          BY <1>5, <2>3, <3>3
        <4>2. Len(fw.checksum) <= SIZE - WORDS + block * WORDS
              /\ block * WORDS + WORDS <= SIZE - WORDS
              /\ (block + 1) * WORDS = block * WORDS + WORDS /\ block * WORDS \in Nat
          BY <1>10, <2>1, <3>1, <3>3
        <4> DEFINE bw == block * WORDS
                   bx == (block + 1) * WORDS
        <4> HIDE DEF bw, bx
        <4>3. Len(fw.checksum) <= SIZE - WORDS + bw /\ bw + WORDS <= SIZE - WORDS
              /\ bx = bw + WORDS /\ bw \in Nat
          BY <4>2 DEF bw, bx
        <4>4. Len(sum) \in Nat /\ Len(sum) <= 2 * (SIZE - WORDS) /\ Len(sum) <= SIZE - WORDS + bx
          BY <1>11, <4>1, <4>3, Sizes
        <4>5. QED
          BY <4>4 DEF bx
      <3>4. QED
        BY <3>2, <3>3
    <2>4. QED
      BY <2>2, <2>3
  <1>13. ASSUME ~ last, src = "PULL" \/ core1 = "response"
         PROVE  Len(sum) <= SummedBelow(fw.address) + (block + 1) * WORDS
    <2>1. SummedBelow(fw.address) \in Nat
      BY <1>11, Sizes DEF SummedBelow
    <2>2. CASE first
      BY <1>5, <1>10, <1>13, <2>1, <2>2, Sizes
    <2>3. CASE ~ first
      <3>1. Len(fw.checksum) <= SummedBelow(fw.address) + block * WORDS
        BY <1>1, <1>6, <1>13, <2>3 DEF TypeInv, SumBounded
      <3>2. QED
        BY <1>5, <1>10, <1>11, <1>13, <2>1, <2>3, <3>1, Sizes
    <2>4. QED
      BY <2>2, <2>3
  <1>14. TypeOK'
    <2>1. Len(sum) <= 2 * STAGING_IMAGE_SIZE
      BY <1>12, Sizes DEF SIZE
    <2>2. mode' \in {"running", "reboot", "rom"}
      BY <1>1, <1>3
    <2>3. block' \in 0 .. PAGES - 1
      BY <1>10, Sizes
    <2>4. flash' \in [Addresses -> Words]
      BY <1>1, <1>4
    <2>5. fw' \in FwStates /\ Len(fw'.checksum) <= 2 * STAGING_IMAGE_SIZE
      BY <1>9, <2>1
    <2> HIDE DEF last, first
    <2>6. QED
      BY <1>0, <1>1, <1>7, <1>8, <2>2, <2>3, <2>4, <2>5 DEF TypeOK, FwStates, SIZE
  <1>15. SumBounded'
    <2>1. CASE last
      <3>1. block' = 0 /\ mode' # "running"
        BY <1>1, <1>3, <1>10, <2>1
      <3>2. QED
        BY <1>9, <1>12, <3>1 DEF SumBounded, SummedBelow
    <2>2. CASE ~ last
      <3>1. block' = block + 1 /\ core1' = core1
        BY <1>1, <1>10, <2>2
      <3>2. QED
        BY <1>9, <1>12, <1>13, <2>2, <3>1 DEF SumBounded, SummedBelow
    <2>3. QED
      BY <2>1, <2>2
  <1>16. LooksOK'
    BY <1>1 DEF TypeInv, LooksOK
  <1>17. QED
    BY <1>14, <1>15, <1>16 DEF TypeInv

LEMMA InitTypes == Init => TypeInv
  <1> SUFFICES ASSUME Init PROVE TypeInv
    OBVIOUS
  <1>1. fw.checksum = <<>> /\ Len(fw.checksum) = 0
    BY DEF Init
  <1>2. TypeOK
    <2>1. fw \in FwStates
      BY Sizes DEF Init, FwStates
    <2>2. page_buffer \in [Offsets -> Words] /\ flash \in [Addresses -> Words]
      BY DEF Init, Words
    <2>3. reqs \in Seq(Addresses) /\ resps \in Seq(Addresses \X Words)
      BY DEF Init
    <2>4. peer \in [alive : BOOLEAN, pages : 0 .. PAGES, id : PeerIds \cup {NewId}]
      <3>1. 0 \in 0 .. PAGES
        BY Sizes
      <3>2. peer \in [alive : {TRUE}, pages : {0}, id : PeerIds]
        BY DEF Init
      <3>3. QED
        BY <3>1, <3>2
    <2>5. block \in 0 .. PAGES - 1 /\ faults \in 0 .. MaxFaults /\ 0 <= 2 * STAGING_IMAGE_SIZE
      BY Sizes DEF Init, SIZE
    <2>6. QED
      BY <1>1, <2>1, <2>2, <2>3, <2>4, <2>5 DEF Init, TypeOK, FwStates, SIZE
  <1>3. SumBounded
    BY <1>1, Sizes DEF Init, SumBounded, SummedBelow
  <1>4. QED
    BY <1>2, <1>3 DEF TypeInv, LooksOK, Init

LEMMA NextTypes ==
  ASSUME TypeInv, [Next]_vars
  PROVE  TypeInv'
  <1>1. CASE UNCHANGED vars
    <2>1. TypeOK
      BY DEF TypeInv
    <2>2. QED
      BY <1>1, <2>1, AloneTypes DEF vars, TypeOK, TypeInv, LooksOK
  <1>2. CASE Next
    BY <1>2, HeartbeatTypes, QuietTypes, LooksTypes, PullActsTypes, ResponseActsTypes,
       TaskTypes, DropTypes DEF Next
  <1>3. QED
    BY <1>1, <1>2

(***************************************************************************)
(* fw_upgrade.h, tasks.c, ramdisk.c.  Whatever core 0, core 1, the peer    *)
(* board and the link do in whatever order: addresses stay in the image,   *)
(* blocks in the file, every word taken is one that was looked at, and the *)
(* checksum is never fed more than two images.                             *)
(***************************************************************************)
THEOREM FirmwareTypeOK == Spec => []TypeOK
  <1>1. TypeInv => TypeOK
    BY DEF TypeInv
  <1>2. QED
    BY <1>1, InitTypes, NextTypes, PTL DEF Spec
-----------------------------------------------------------------------------
(***************************************************************************)
(* What the three steps that move a transfer do, field by field.           *)
(***************************************************************************)

LEMMA PullStep ==
  ASSUME TypeInv, NEW refused \in BOOLEAN, PullActs(refused)
  PROVE  /\ mode = "running" /\ core1 = "pull" /\ core1' = "idle"
         /\ UNCHANGED <<page_buffer, known, resps, block, peer, follows, blame>>
         /\ Fault(refused)
         /\ fw'.checksum = fw.checksum /\ fw'.address = fw.address
         /\ flash' = IF fw.address % WORDS = 0 /\ fw.address # 0
                       THEN write_flash_page((fw.address - 1) \div WORDS, page_buffer)
                       ELSE flash
         /\ PullDone => /\ fw'.source = "NONE" /\ mode' = Verdict(flash', fw.checksum)
                        /\ reqs' = reqs
         /\ ~ PullDone => /\ fw'.source = fw.source /\ fw'.in_progress = fw.in_progress
                          /\ fw'.byte_done = refused /\ mode' = mode
                          /\ IF refused THEN reqs' = reqs ELSE request_byte(fw.address)
  <1> DEFINE finished == fw.address % WORDS = 0 /\ fw.address # 0
             image == IF finished THEN write_flash_page((fw.address - 1) \div WORDS, page_buffer)
                                  ELSE flash
             verdict == Verdict(image, fw.checksum)
             d == fw.dirty \/ finished
             e == verdict = "rom"
  <1>1. /\ flash' = image
        /\ IF PullDone
             THEN /\ fw' = [fw EXCEPT !.in_progress = FALSE, !.source = "NONE", !.dirty = e]
                  /\ mode' = verdict
                  /\ UNCHANGED reqs
             ELSE /\ fw' = [fw EXCEPT !.dirty = d, !.byte_done = refused]
                  /\ IF refused THEN UNCHANGED reqs ELSE request_byte(fw.address)
                  /\ UNCHANGED mode
    BY DEF PullActs
  <1>2. fw \in FwStates
    BY Types DEF TypeInv
  <1>3. /\ mode = "running" /\ core1 = "pull" /\ core1' = "idle" /\ Fault(refused)
        /\ UNCHANGED <<page_buffer, known, resps, block, peer, follows, blame>>
    BY DEF PullActs
  <1>4. CASE PullDone
    <2>1. fw' = [fw EXCEPT !.in_progress = FALSE, !.source = "NONE", !.dirty = e]
          /\ mode' = Verdict(flash', fw.checksum) /\ reqs' = reqs
      BY <1>1, <1>4, Zenon
    <2> HIDE DEF e
    <2>2. fw'.checksum = fw.checksum /\ fw'.address = fw.address /\ fw'.source = "NONE"
      BY <1>2, <2>1 DEF FwStates
    <2>3. QED
      BY <1>1, <1>3, <1>4, <2>1, <2>2, Zenon
  <1>5. CASE ~ PullDone
    <2>1. fw' = [fw EXCEPT !.dirty = d, !.byte_done = refused]
          /\ mode' = mode /\ (IF refused THEN reqs' = reqs ELSE request_byte(fw.address))
      BY <1>1, <1>5, Zenon
    <2> HIDE DEF d
    <2>2. fw'.checksum = fw.checksum /\ fw'.address = fw.address /\ fw'.source = fw.source
          /\ fw'.in_progress = fw.in_progress /\ fw'.byte_done = refused
      BY <1>2, <2>1 DEF FwStates
    <2>3. QED
      BY <1>1, <1>3, <1>5, <2>1, <2>2, Zenon
  <1>6. QED
    BY <1>4, <1>5

LEMMA ResponseStep ==
  ASSUME TypeInv, ResponseActs
  PROVE  /\ mode = "running" /\ core1 = "response" /\ core1' = "idle"
         /\ resps # <<>> /\ Head(resps) \in Addresses \X Words /\ resps' = Tail(resps)
         /\ UNCHANGED <<flash, known, reqs, block, peer, follows, faults, blame>>
         /\ \/ /\ fw' = fw /\ mode' = "rom" /\ ~ known
               /\ page_buffer' = page_buffer
            \/ /\ fw'.source = "NONE" /\ mode' = mode
               /\ page_buffer' = page_buffer
            \/ /\ Head(resps)[1] = fw.address /\ mode' = mode
               /\ fw'.source = fw.source /\ fw'.in_progress = fw.in_progress
               /\ fw'.byte_done = TRUE /\ fw'.address = fw.address + 1
               /\ fw'.checksum = IF Summed(fw.address) THEN Append(fw.checksum, Head(resps)[2])
                                                     ELSE fw.checksum
               /\ page_buffer' = [page_buffer EXCEPT ![fw.address % WORDS] = Head(resps)[2]]
  <1>0. TypeOK /\ fw \in FwStates
    BY Types DEF TypeInv
  <1> DEFINE a == Head(resps)[1]
             word == Head(resps)[2]
  <1>1. /\ mode = "running" /\ core1 = "response" /\ core1' = "idle"
        /\ resps' = Tail(resps)
        /\ UNCHANGED <<flash, known, reqs, block, peer, follows, faults, blame>>
    BY DEF ResponseActs
  <1>2. resps # <<>> /\ Head(resps) \in Addresses \X Words
    BY <1>0, <1>1, Types DEF TypeInv, LooksOK
  <1>3. CASE ~ Awaited(a)
    <2>1. abandon_firmware_upgrade(known) /\ page_buffer' = page_buffer /\ known \in BOOLEAN
      BY <1>0, <1>3 DEF ResponseActs, TypeOK
    <2>2. \/ fw' = fw /\ mode' = "rom" /\ fw.dirty /\ ~ known
          \/ fw'.source = "NONE" /\ mode' = mode
      BY <1>0, <2>1, AbandonTypes
    <2>3. QED
      BY <1>1, <1>2, <2>1, <2>2, Zenon
  <1>4. CASE Awaited(a)
    <2> DEFINE sum == IF Summed(a) THEN Append(fw.checksum, word) ELSE fw.checksum
    <2>1. /\ fw' = [fw EXCEPT !.address = fw.address + 1, !.byte_done = TRUE, !.checksum = sum]
          /\ page_buffer' = [page_buffer EXCEPT ![a % WORDS] = word]
          /\ mode' = mode
      BY <1>4 DEF ResponseActs
    <2>2. a = fw.address
      BY <1>4 DEF Awaited
    <2> HIDE DEF sum
    <2>3. /\ fw'.source = fw.source /\ fw'.in_progress = fw.in_progress
          /\ fw'.byte_done = TRUE /\ fw'.address = fw.address + 1 /\ fw'.checksum = sum
      BY <1>0, <2>1 DEF FwStates
    <2>4. sum = (IF Summed(fw.address) THEN Append(fw.checksum, word) ELSE fw.checksum)
      BY <2>2 DEF sum
    <2>5. page_buffer' = [page_buffer EXCEPT ![fw.address % WORDS] = word]
      BY <2>1, <2>2, Zenon
    <2>6. QED
      BY <1>1, <1>2, <2>1, <2>2, <2>3, <2>4, <2>5, Zenon
  <1>5. QED
    BY <1>3, <1>4

LEMMA DropStep ==
  ASSUME TypeInv, tud_msc_write10_cb
  PROVE  /\ mode = "running" /\ flash' = write_flash_page(block, [o \in Offsets |-> "host"])
         /\ UNCHANGED <<page_buffer, known, reqs, resps, core1, peer, follows>>
         /\ Fault(block = 0)
         /\ blame' = blame \cup {b \in {"drop"} : block = 0 /\ core1 # "idle"}
         /\ fw'.address = fw.address /\ fw'.byte_done = fw.byte_done
         /\ fw'.source = IF block = 0 THEN "DROP" ELSE fw.source
         /\ block = 0 => fw'.in_progress = TRUE
         /\ block # 0 => fw'.in_progress = fw.in_progress
         /\ fw'.checksum \in Seq(Words)
         /\ Len(fw'.checksum) = (IF block = 0 THEN 0 ELSE Len(fw.checksum))
                                + (IF block = PAGES - 1 THEN 0 ELSE WORDS)
         /\ \A i \in 1 .. Len(fw'.checksum) :
              \/ fw'.checksum[i] = "host"
              \/ block # 0 /\ i \in 1 .. Len(fw.checksum) /\ fw'.checksum[i] = fw.checksum[i]
         /\ mode' = IF block = PAGES - 1 THEN Verdict(flash', fw'.checksum) ELSE mode
         /\ block' = IF block = PAGES - 1 THEN 0 ELSE block + 1
  <1>0. TypeOK /\ fw \in FwStates /\ block \in 0 .. PAGES - 1
    BY Types DEF TypeInv
  <1> DEFINE first == block = 0
             last == block = PAGES - 1
             image == write_flash_page(block, [o \in Offsets |-> "host"])
             sum == (IF first THEN <<>> ELSE fw.checksum)
                      \o (IF last THEN <<>> ELSE [i \in 1 .. WORDS |-> "host"])
             verdict == Verdict(image, sum)
             ip == fw.in_progress \/ first
             d == ~ last \/ verdict = "rom"
             src == drop_source(block)
  <1>1. /\ mode = "running" /\ Fault(first) /\ flash' = image
        /\ fw' = [fw EXCEPT !.in_progress = ip, !.source = src, !.checksum = sum, !.dirty = d]
        /\ mode' = (IF last THEN verdict ELSE mode)
        /\ block' = (block + 1) % PAGES
        /\ blame' = blame \cup {b \in {"drop"} : first /\ core1 # "idle"}
        /\ UNCHANGED <<page_buffer, known, reqs, resps, core1, peer, follows>>
    BY DEF tud_msc_write10_cb
  <1>2. block' = IF last THEN 0 ELSE block + 1
    BY <1>0, <1>1, BlockSizes
  <1>3. /\ sum \in Seq(Words)
        /\ Len(sum) = (IF first THEN 0 ELSE Len(fw.checksum)) + (IF last THEN 0 ELSE WORDS)
        /\ \A i \in 1 .. Len(sum) :
             sum[i] = "host" \/ (block # 0 /\ i \in 1 .. Len(fw.checksum) /\ sum[i] = fw.checksum[i])
    BY <1>0, DropSum
  <1>4. src = IF first THEN "DROP" ELSE fw.source
    BY DEF drop_source
  <1>5. (first => ip = TRUE) /\ (~ first => ip = fw.in_progress)
    <2>1. fw.in_progress \in BOOLEAN
      BY <1>0 DEF FwStates
    <2>2. CASE first
      BY <2>2
    <2>3. CASE ~ first
      BY <2>1, <2>3, Zenon
    <2>4. QED
      BY <2>2, <2>3
  <1>6. mode' = IF last THEN Verdict(flash', sum) ELSE mode
    BY <1>1, Zenon
  <1> HIDE DEF image, sum, verdict, ip, d, src
  <1>7. /\ fw'.address = fw.address /\ fw'.byte_done = fw.byte_done /\ fw'.source = src
        /\ fw'.in_progress = ip /\ fw'.checksum = sum
    BY <1>0, <1>1 DEF FwStates
  <1>8. flash' = write_flash_page(block, [o \in Offsets |-> "host"])
    BY <1>1 DEF image
  <1>9. QED
    BY <1>1, <1>2, <1>3, <1>4, <1>5, <1>6, <1>7, <1>8, Zenon
-----------------------------------------------------------------------------
(***************************************************************************)
(* The board boots one image.  With nobody to blame a pull owns the flash, *)
(* the checksum and core 1, or a drop does, and all that was summed is of  *)
(* one image: the one the peer board has had since the pull started, or    *)
(* the host's.                                                             *)
(***************************************************************************)

\* The image a peer board that is not being rewritten answers from.
PeerImage == IF peer.pages = 0 THEN "peer" ELSE "new"

\* Answers in flight are of that image too: the peer board's reboot outlasts them.
WordsOK ==
  \A i \in 1 .. Len(resps) :
    /\ peer.pages = 0 => resps[i][2] = "peer"
    /\ peer.pages = PAGES => resps[i][2] = "new"

PullSole ==
  fw.source = "PULL" =>
    /\ fw.in_progress /\ block = 0 /\ peer.pages \in {0, PAGES}
    /\ \A i \in 1 .. Len(fw.checksum) : fw.checksum[i] = PeerImage

Core1Sole ==
  /\ core1 # "idle" => fw.source = "PULL"
  /\ core1 = "pull" => fw.byte_done

DropSole ==
  block > 0 => /\ fw.source = "DROP" /\ fw.in_progress
               /\ \A i \in 1 .. Len(fw.checksum) : fw.checksum[i] = "host"

OneSource == blame \subseteq {"save"} => PullSole /\ Core1Sole /\ DropSole

WholeInv == WordsOK /\ OneSource /\ WholeImage

(* An image that passes is the one that was summed. *)
LEMMA VerdictSound ==
  ASSUME NEW sum \in Seq(Words), NEW image, NEW w,
         Verdict(image, sum) = "reboot", \A i \in 1 .. Len(sum) : sum[i] = w
  PROVE  \A a \in Addresses : Summed(a) => image[a] = w
  <1> DEFINE crc == [i \in 1 .. SIZE - WORDS |-> image[i - 1]]
  <1>1. crc = sum
    BY DEF Verdict, calculate_firmware_crc32, SIZE
  <1>2. Len(sum) \in Nat /\ DOMAIN sum = 1 .. Len(sum) /\ DOMAIN crc = 1 .. SIZE - WORDS
    OBVIOUS
  <1>3. \A i \in 1 .. SIZE - WORDS : crc[i] = image[i - 1]
    OBVIOUS
  <1> HIDE DEF crc
  <1>4. \A i \in 1 .. SIZE - WORDS : image[i - 1] = w
    BY <1>1, <1>2, <1>3
  <1> SUFFICES ASSUME NEW a \in Addresses, Summed(a) PROVE image[a] = w
    OBVIOUS
  <1>5. a + 1 \in 1 .. SIZE - WORDS /\ (a + 1) - 1 = a
    BY Sizes DEF Addresses, Summed, SIZE
  <1>6. QED
    BY <1>4, <1>5

(* A step that leaves the transfer alone. *)
LEMMA AloneWhole ==
  ASSUME WholeInv, UNCHANGED <<fw, core1, block, mode, flash>>, blame \subseteq blame',
         WordsOK', fw.source = "PULL" /\ peer'.pages # peer.pages => ~ (blame' \subseteq {"save"})
  PROVE  WholeInv'
  <1>1. WholeImage'
    BY DEF WholeInv, WholeImage
  <1>2. ASSUME blame' \subseteq {"save"} PROVE PullSole' /\ Core1Sole' /\ DropSole'
    <2>1. PullSole /\ Core1Sole /\ DropSole
      BY <1>2 DEF WholeInv, OneSource
    <2>2. PullSole'
      BY <1>2, <2>1 DEF PullSole, PeerImage
    <2>3. QED
      BY <2>1, <2>2 DEF Core1Sole, DropSole
  <1>3. QED
    BY <1>1, <1>2 DEF WholeInv, OneSource

(* The answers in flight when the link only loses some. *)
LEMMA TailWords ==
  ASSUME TypeOK, WordsOK, peer' = peer, resps' = resps \/ (resps # <<>> /\ resps' = Tail(resps))
  PROVE  WordsOK'
  <1>1. resps \in Seq(Addresses \X Words)
    BY Types
  <1>2. CASE resps' = resps
    BY <1>2 DEF WordsOK
  <1>3. CASE resps # <<>> /\ resps' = Tail(resps)
    <2>1. Len(resps') = Len(resps) - 1 /\ \A i \in 1 .. Len(resps') : resps'[i] = resps[i + 1]
      BY <1>1, <1>3
    <2>2. Len(resps) \in Nat
      BY <1>1
    <2>3. \A i \in 1 .. Len(resps') : i + 1 \in 1 .. Len(resps)
      BY <2>1, <2>2
    <2>4. QED
      BY <2>1, <2>3 DEF WordsOK
  <1>4. QED
    BY <1>2, <1>3

LEMMA QuietWhole ==
  ASSUME TypeInv, WholeInv,
         \/ \E early \in BOOLEAN : AskAgain(early)
         \/ save_config \/ handle_request_byte_msg \/ Lose
         \/ PeerRewrites \/ PeerDies \/ PeerReturns \/ Stopped
  PROVE  WholeInv'
  <1>0. TypeOK /\ WordsOK
    BY DEF TypeInv, WholeInv
  <1>1. ASSUME NEW early \in BOOLEAN, AskAgain(early) PROVE WholeInv'
    <2>1. WordsOK'
      BY <1>0, <1>1, TailWords DEF AskAgain
    <2>2. QED
      BY <1>1, <2>1, AloneWhole DEF AskAgain
  <1>2. CASE save_config
    <2>1. WordsOK'
      BY <1>0, <1>2, TailWords DEF save_config
    <2>2. QED
      BY <1>2, <2>1, AloneWhole DEF save_config
  <1>3. CASE handle_request_byte_msg
    <2> DEFINE x == <<Head(reqs), PeerWord(Head(reqs))>>
    <2>1. Head(reqs) \in Addresses /\ resps \in Seq(Addresses \X Words)
      BY <1>0, <1>3, Types DEF handle_request_byte_msg
    <2>2. x \in Addresses \X Words
      BY <2>1 DEF PeerWord, Words
    <2>3. (peer.pages = 0 => x[2] = "peer") /\ (peer.pages = PAGES => x[2] = "new")
      <3>1. Head(reqs) >= 0 /\ Head(reqs) < PAGES * WORDS /\ 0 * WORDS = 0 /\ Head(reqs) \in Int
        BY <2>1, Sizes DEF Addresses, SIZE
      <3>2. QED
        BY <3>1 DEF PeerWord
    <2>4. resps' = Append(resps, x)
      BY <1>3 DEF handle_request_byte_msg
    <2> HIDE DEF x
    <2>5. /\ Len(resps') = Len(resps) + 1 /\ Len(resps) \in Nat
          /\ \A i \in 1 .. Len(resps) : resps'[i] = resps[i]
          /\ resps'[Len(resps) + 1] = x
      BY <2>1, <2>2, <2>4
    <2>6. peer' = peer
      BY <1>3 DEF handle_request_byte_msg
    <2>7. WordsOK'
      <3> SUFFICES ASSUME NEW i \in 1 .. Len(resps')
                   PROVE  /\ peer.pages = 0 => resps'[i][2] = "peer"
                          /\ peer.pages = PAGES => resps'[i][2] = "new"
        BY <2>6 DEF WordsOK
      <3>1. CASE i = Len(resps) + 1
        BY <2>3, <2>5, <3>1
      <3>2. CASE i # Len(resps) + 1
        <4>1. i \in 1 .. Len(resps)
          BY <2>5, <3>2
        <4>2. QED
          BY <1>0, <2>5, <4>1 DEF WordsOK
      <3>3. QED
        BY <3>1, <3>2
    <2>8. QED
      BY <1>3, <2>7, AloneWhole DEF handle_request_byte_msg
  <1>4. CASE Lose
    <2>1. WordsOK'
      BY <1>0, <1>4, TailWords DEF Lose
    <2>2. QED
      BY <1>4, <2>1, AloneWhole DEF Lose
  <1>5. CASE PeerRewrites
    <2>1. peer'.pages = peer.pages + 1 /\ peer.pages \in 0 .. PAGES /\ resps' = resps
          /\ (peer.pages + 1 = PAGES => resps = <<>>)
      <3>1. peer \in [alive : BOOLEAN, pages : 0 .. PAGES, id : PeerIds \cup {NewId}]
        BY <1>0 DEF TypeOK
      <3>2. QED
        BY <1>5, <3>1 DEF PeerRewrites
    <2>2. WordsOK'
      <3>1. CASE resps = <<>>
        BY <2>1, <3>1 DEF WordsOK
      <3>2. CASE resps # <<>>
        <4>1. peer'.pages # 0 /\ peer'.pages # PAGES
          BY <2>1, <3>2, Sizes
        <4>2. QED
          BY <4>1 DEF WordsOK
      <3>3. QED
        BY <3>1, <3>2
    <2>3. ASSUME fw.source = "PULL" PROVE ~ (blame' \subseteq {"save"})
      <3>1. SUFFICES ASSUME blame' \subseteq {"save"} PROVE FALSE
        OBVIOUS
      <3>2. blame \subseteq {"save"}
        BY <1>5, <3>1 DEF PeerRewrites
      <3>3. fw.in_progress
        BY <2>3, <3>2 DEF WholeInv, OneSource, PullSole
      <3>4. "rewrite" \in blame'
        BY <1>5, <2>3, <3>3 DEF PeerRewrites, fw_upgrade_may_pull
      <3>5. QED
        BY <3>1, <3>4
    <2>4. QED
      BY <1>5, <2>2, <2>3, AloneWhole DEF PeerRewrites
  <1>6. CASE PeerDies
    <2>1. peer'.pages = peer.pages /\ resps' = resps
      BY <1>0, <1>6 DEF PeerDies, TypeOK
    <2>2. QED
      BY <1>0, <1>6, <2>1, AloneWhole DEF PeerDies, WordsOK
  <1>7. CASE PeerReturns
    <2>1. peer'.pages = peer.pages /\ resps' = resps
      BY <1>0, <1>7 DEF PeerReturns, TypeOK
    <2>2. QED
      BY <1>0, <1>7, <2>1, AloneWhole DEF PeerReturns, WordsOK
  <1>8. CASE Stopped
    <2>1. UNCHANGED vars
      BY <1>8 DEF Stopped
    <2>2. WordsOK'
      BY <1>0, <2>1, TailWords DEF vars
    <2>3. QED
      BY <2>1, <2>2, AloneWhole DEF vars
  <1>9. QED
    BY <1>1, <1>2, <1>3, <1>4, <1>5, <1>6, <1>7, <1>8

LEMMA HeartbeatWhole ==
  ASSUME TypeInv, WholeInv, NEW early \in BOOLEAN, handle_heartbeat_msg(early)
  PROVE  WholeInv'
  <1>0. TypeOK /\ WordsOK
    BY DEF TypeInv, WholeInv
  <1>1. WordsOK'
    BY <1>0, TailWords DEF handle_heartbeat_msg
  <1>2. CASE fw_upgrade_should_pull(OurId, peer.id)
    <2>1. /\ fw'.source = "PULL" /\ fw'.in_progress /\ fw'.checksum = <<>>
          /\ ~ fw.in_progress /\ core1' = "idle" /\ block' = block /\ peer' = peer
          /\ mode' = "running" /\ blame' = blame \cup {b \in {"rewrite"} : Rewriting}
      BY <1>2 DEF handle_heartbeat_msg, start_pull, fw_upgrade_should_pull
    <2>2. ASSUME blame' \subseteq {"save"} PROVE PullSole' /\ Core1Sole' /\ DropSole'
      <3>1. DropSole /\ ~ Rewriting
        BY <2>1, <2>2 DEF WholeInv, OneSource
      <3>2. block = 0
        BY <1>0, <2>1, <3>1, Types, Sizes DEF DropSole
      <3>3. peer.pages \in {0, PAGES}
        BY <1>0, <3>1, Types, Sizes DEF Rewriting
      <3>4. PullSole'
        BY <2>1, <3>2, <3>3 DEF PullSole
      <3>5. QED
        BY <2>1, <3>2, <3>4 DEF Core1Sole, DropSole
    <2>3. QED
      BY <1>1, <2>1, <2>2 DEF WholeInv, OneSource, WholeImage
  <1>3. CASE ~ fw_upgrade_should_pull(OurId, peer.id)
    BY <1>1, <1>3, AloneWhole DEF handle_heartbeat_msg
  <1>4. QED
    BY <1>2, <1>3

LEMMA LooksWhole ==
  ASSUME TypeInv, WholeInv, PullLooks \/ ResponseLooks
  PROVE  WholeInv'
  <1>0. TypeOK /\ WordsOK
    BY DEF TypeInv, WholeInv
  <1>1. WordsOK'
    BY <1>0, TailWords DEF PullLooks, ResponseLooks
  <1>2. UNCHANGED <<fw, block, peer, mode, blame>> /\ mode = "running"
    BY DEF PullLooks, ResponseLooks
  <1>3. (core1' # "idle" => fw.source = "PULL") /\ (core1' = "pull" => fw.byte_done)
    BY DEF PullLooks, ResponseLooks, fw_upgrade_may_pull
  <1>4. ASSUME blame \subseteq {"save"} PROVE PullSole' /\ Core1Sole' /\ DropSole'
    <2>1. PullSole /\ DropSole
      BY <1>4 DEF WholeInv, OneSource
    <2>2. QED
      BY <1>2, <1>3, <2>1 DEF PullSole, Core1Sole, DropSole, PeerImage
  <1>5. QED
    BY <1>1, <1>2, <1>4 DEF WholeInv, OneSource, WholeImage

LEMMA PullActsWhole ==
  ASSUME TypeInv, WholeInv, NEW refused \in BOOLEAN, PullActs(refused)
  PROVE  WholeInv'
  <1>0. TypeOK /\ WordsOK
    BY DEF TypeInv, WholeInv
  <1>1. /\ mode = "running" /\ core1 = "pull" /\ core1' = "idle"
        /\ UNCHANGED <<resps, block, peer, blame>> /\ fw'.checksum = fw.checksum
        /\ PullDone => fw'.source = "NONE" /\ mode' = Verdict(flash', fw.checksum)
        /\ ~ PullDone => /\ fw'.source = fw.source /\ fw'.in_progress = fw.in_progress
                         /\ mode' = mode
    BY PullStep
  <1>2. WordsOK'
    BY <1>0, <1>1, TailWords
  <1>3. ASSUME blame \subseteq {"save"}
        PROVE  PullSole' /\ Core1Sole' /\ DropSole' /\ WholeImage'
    <2>1. PullSole /\ fw.source = "PULL"
      BY <1>1, <1>3 DEF WholeInv, OneSource, Core1Sole
    <2>2. /\ fw.in_progress /\ block = 0 /\ peer.pages \in {0, PAGES}
          /\ \A i \in 1 .. Len(fw.checksum) : fw.checksum[i] = PeerImage
      BY <2>1 DEF PullSole
    <2>3. PullSole' /\ Core1Sole' /\ DropSole'
      <3>1. Core1Sole' /\ DropSole'
        BY <1>1, <2>2 DEF Core1Sole, DropSole
      <3>2. PeerImage' = PeerImage
        BY <1>1 DEF PeerImage
      <3>3. CASE PullDone
        BY <1>1, <3>1, <3>3 DEF PullSole
      <3>4. CASE ~ PullDone
        BY <1>1, <2>2, <3>1, <3>2, <3>4 DEF PullSole
      <3>5. QED
        BY <3>3, <3>4
    <2>4. WholeImage'
      <3>1. CASE PullDone /\ mode' = "reboot"
        <4>1. Verdict(flash', fw.checksum) = "reboot" /\ fw.checksum \in Seq(Words)
          BY <1>0, <1>1, <3>1, Types
        <4>2. \A a \in Addresses : Summed(a) => flash'[a] = PeerImage
          BY <2>2, <4>1, VerdictSound
        <4>3. PeerImage \in {"peer", "new", "host"}
          BY DEF PeerImage
        <4>4. QED
          BY <4>2, <4>3 DEF WholeImage, Summed
      <3>2. CASE mode' # "reboot"
        BY <3>2 DEF WholeImage
      <3>3. QED
        BY <1>1, <3>1, <3>2
    <2>5. QED
      BY <2>3, <2>4
  <1>4. QED
    BY <1>1, <1>2, <1>3 DEF WholeInv, OneSource, WholeImage

LEMMA ResponseWhole ==
  ASSUME TypeInv, WholeInv, ResponseActs
  PROVE  WholeInv'
  <1>0. TypeOK /\ WordsOK
    BY DEF TypeInv, WholeInv
  <1>1. /\ mode = "running" /\ core1 = "response" /\ core1' = "idle" /\ resps # <<>>
        /\ resps' = Tail(resps) /\ UNCHANGED <<block, peer, blame>>
        /\ Head(resps) \in Addresses \X Words
    BY ResponseStep
  <1>2. WordsOK'
    BY <1>0, <1>1, TailWords
  <1>3. mode' # "reboot"
    BY <1>1, ResponseStep
  <1>4. ASSUME blame \subseteq {"save"}
        PROVE  PullSole' /\ Core1Sole' /\ DropSole'
    <2>1. PullSole /\ fw.source = "PULL"
      BY <1>1, <1>4 DEF WholeInv, OneSource, Core1Sole
    <2>2. /\ fw.in_progress /\ block = 0 /\ peer.pages \in {0, PAGES}
          /\ \A i \in 1 .. Len(fw.checksum) : fw.checksum[i] = PeerImage
      BY <2>1 DEF PullSole
    <2>3. Core1Sole' /\ DropSole'
      BY <1>1, <2>2 DEF Core1Sole, DropSole
    <2>4. PullSole'
      <3>1. CASE fw' = fw
        BY <1>1, <2>2, <3>1 DEF PullSole, PeerImage
      <3>2. CASE fw'.source = "NONE"
        BY <3>2 DEF PullSole
      <3>3. CASE /\ fw'.source = fw.source /\ fw'.in_progress = fw.in_progress
                 /\ fw'.checksum = IF Summed(fw.address) THEN Append(fw.checksum, Head(resps)[2])
                                                         ELSE fw.checksum
        <4>1. Head(resps)[2] = PeerImage /\ Head(resps)[2] \in Words
          <5>1. 1 \in 1 .. Len(resps) /\ Head(resps) = resps[1]
            BY <1>0, <1>1, Types
          <5>2. QED
            BY <1>0, <1>1, <2>2, <5>1, Sizes DEF WordsOK, PeerImage
        <4>2. \A i \in 1 .. Len(fw'.checksum) : fw'.checksum[i] = PeerImage
          <5>1. fw.checksum \in Seq(Words)
            BY <1>0, Types
          <5>2. CASE Summed(fw.address)
            <6> DEFINE w == Head(resps)[2]
            <6>1. fw'.checksum = Append(fw.checksum, w) /\ w = PeerImage /\ w \in Words
              BY <3>3, <4>1, <5>2
            <6> HIDE DEF w
            <6>2. /\ Len(fw'.checksum) = Len(fw.checksum) + 1 /\ Len(fw.checksum) \in Nat
                  /\ \A i \in 1 .. Len(fw.checksum) : fw'.checksum[i] = fw.checksum[i]
                  /\ fw'.checksum[Len(fw.checksum) + 1] = w
              BY <5>1, <6>1
            <6>3. QED
              BY <2>2, <6>1, <6>2
          <5>3. CASE ~ Summed(fw.address)
            BY <2>2, <3>3, <5>3
          <5>4. QED
            BY <5>2, <5>3
        <4>3. QED
          BY <1>1, <2>2, <3>3, <4>2 DEF PullSole, PeerImage
      <3>4. QED
        BY <3>1, <3>2, <3>3, ResponseStep
    <2>5. QED
      BY <2>3, <2>4
  <1>5. QED
    BY <1>1, <1>2, <1>3, <1>4 DEF WholeInv, OneSource, WholeImage

LEMMA TaskWhole ==
  ASSUME TypeInv, WholeInv, NEW expired \in BOOLEAN, NEW stalled \in BOOLEAN, NEW early \in BOOLEAN,
         heartbeat_output_task(expired, stalled, early)
  PROVE  WholeInv'
  <1>0. TypeOK /\ WordsOK
    BY DEF TypeInv, WholeInv
  <1>1. WordsOK'
    BY <1>0, TailWords DEF heartbeat_output_task
  <1>2. CASE stalled
    <2> DEFINE present == known /\ ~ expired
    <2>1. abandon_firmware_upgrade(present) /\ (block' = IF fw.source = "DROP" THEN 0 ELSE block)
          /\ mode = "running" /\ core1 = "idle" /\ UNCHANGED <<core1, peer, blame>>
      BY <1>2 DEF heartbeat_output_task
    <2>2. (fw' = fw /\ mode' = "rom") \/ (fw'.source = "NONE" /\ mode' = mode)
      <3>1. present \in BOOLEAN /\ fw \in FwStates
        BY <1>0, Types
      <3>2. abandon_firmware_upgrade(present)
        BY <2>1
      <3> HIDE DEF present
      <3>3. QED
        BY <3>1, <3>2, AbandonTypes
    <2>3. ASSUME blame \subseteq {"save"} PROVE PullSole' /\ Core1Sole' /\ DropSole'
      <3>1. PullSole /\ DropSole
        BY <2>3 DEF WholeInv, OneSource
      <3>2. block' = 0
        <4>1. block \in 0 .. PAGES - 1 /\ PAGES \in Nat
          BY <1>0, Types, Sizes
        <4>2. QED
          BY <2>1, <3>1, <4>1 DEF DropSole
      <3>3. PullSole'
        BY <2>1, <2>2, <3>1, <3>2 DEF PullSole, PeerImage
      <3>4. QED
        BY <2>1, <3>2, <3>3 DEF Core1Sole, DropSole
    <2>4. mode' # "reboot"
      BY <2>1, <2>2
    <2>5. QED
      BY <1>1, <2>1, <2>3, <2>4 DEF WholeInv, OneSource, WholeImage
  <1>3. CASE ~ stalled
    BY <1>1, <1>3, AloneWhole DEF heartbeat_output_task
  <1>4. QED
    BY <1>2, <1>3

LEMMA DropWhole ==
  ASSUME TypeInv, WholeInv, tud_msc_write10_cb
  PROVE  WholeInv'
  <1>0. TypeOK /\ WordsOK
    BY DEF TypeInv, WholeInv
  <1>1. /\ mode = "running" /\ UNCHANGED <<resps, core1, peer>>
        /\ blame' = blame \cup {b \in {"drop"} : block = 0 /\ core1 # "idle"}
        /\ fw'.source = IF block = 0 THEN "DROP" ELSE fw.source
        /\ block = 0 => fw'.in_progress = TRUE
        /\ block # 0 => fw'.in_progress = fw.in_progress
        /\ fw'.checksum \in Seq(Words)
        /\ \A i \in 1 .. Len(fw'.checksum) :
             \/ fw'.checksum[i] = "host"
             \/ block # 0 /\ i \in 1 .. Len(fw.checksum) /\ fw'.checksum[i] = fw.checksum[i]
        /\ mode' = IF block = PAGES - 1 THEN Verdict(flash', fw'.checksum) ELSE mode
    BY DropStep
  <1>2. WordsOK'
    BY <1>0, <1>1, TailWords
  <1>3. block \in 0 .. PAGES - 1 /\ PAGES \in Nat
    BY <1>0, Types, Sizes
  <1>4. ASSUME blame' \subseteq {"save"}
        PROVE  PullSole' /\ Core1Sole' /\ DropSole' /\ WholeImage'
    <2>1. blame \subseteq {"save"} /\ (block = 0 => core1 = "idle")
      <3>1. blame \subseteq blame' /\ (block = 0 /\ core1 # "idle" => "drop" \in blame')
        BY <1>1
      <3>2. QED
        BY <1>4, <3>1
    <2>2. Core1Sole /\ DropSole
      BY <2>1 DEF WholeInv, OneSource
    <2>3. fw'.source = "DROP" /\ fw'.in_progress /\ core1 = "idle"
      BY <1>1, <1>3, <2>1, <2>2 DEF Core1Sole, DropSole
    <2>4. \A i \in 1 .. Len(fw'.checksum) : fw'.checksum[i] = "host"
      BY <1>1, <1>3, <2>2 DEF DropSole
    <2>5. PullSole' /\ Core1Sole' /\ DropSole'
      BY <1>1, <2>3, <2>4 DEF PullSole, Core1Sole, DropSole
    <2>6. WholeImage'
      <3>1. CASE block = PAGES - 1 /\ mode' = "reboot"
        <4>1. Verdict(flash', fw'.checksum) = "reboot"
          BY <1>1, <3>1
        <4>2. \A a \in Addresses : Summed(a) => flash'[a] = "host"
          BY <1>1, <2>4, <4>1, VerdictSound
        <4>3. QED
          BY <4>2 DEF WholeImage, Summed
      <3>2. CASE mode' # "reboot"
        BY <3>2 DEF WholeImage
      <3>3. QED
        BY <1>1, <3>1, <3>2
    <2>7. QED
      BY <2>5, <2>6
  <1>5. QED
    BY <1>2, <1>4 DEF WholeInv, OneSource, WholeImage

LEMMA InitWhole == Init => WholeInv
  BY DEF Init, WholeInv, WordsOK, OneSource, PullSole, Core1Sole, DropSole, WholeImage

LEMMA NextWhole ==
  ASSUME TypeInv, WholeInv, [Next]_vars
  PROVE  WholeInv'
  <1>1. CASE UNCHANGED vars
    <2>1. WordsOK'
      BY <1>1, TailWords DEF vars, TypeInv, WholeInv
    <2>2. QED
      BY <1>1, <2>1, AloneWhole DEF vars
  <1>2. CASE Next
    BY <1>2, HeartbeatWhole, QuietWhole, LooksWhole, PullActsWhole, ResponseWhole,
       TaskWhole, DropWhole DEF Next
  <1>3. QED
    BY <1>1, <1>2

(***************************************************************************)
(* tasks.c:443-457, ramdisk.c:124-139.  For every image size, page size    *)
(* and number of faults, the board boots only an image whose summed part   *)
(* is all of one source.  A configuration saved into the page buffer in    *)
(* the middle of a pull is caught by the checksum: it is in the flash and  *)
(* not in the sum.                                                         *)
(***************************************************************************)
THEOREM FirmwareWholeImage == Spec => []WholeImage
  <1>1. WholeInv => WholeImage
    BY DEF WholeInv
  <1>2. QED
    BY <1>1, InitTypes, NextTypes, InitWhole, NextWhole, PTL DEF Spec
-----------------------------------------------------------------------------
(***************************************************************************)
(* Loss alone does not brick.  Words of an abandoned pull may still be on  *)
(* the link when the next one starts, and the new pull takes one for the   *)
(* word it asked for if its address fits.  That does no harm within the    *)
(* first page: there is no finished page yet that core 1 could skip.  A    *)
(* stale word further up is out of step with the pull by more than its     *)
(* place in the queue, so the pull cannot reach it; for that the link must *)
(* hold no more words when the pull starts than a page has.                *)
(***************************************************************************)

\* The j-th word on the link, with address v: harmless in the first page,
\* behind the pull, the one it waits for, or too far ahead to be met.
Harmless(v, j, a, done) ==
  v < WORDS \/ v < a \/ (v = a /\ ~ done) \/ v > a + j - 1

LinkHarmless ==
  /\ \A i \in 1 .. Len(resps) : Harmless(resps[i][1], i, fw.address, fw.byte_done)
  /\ \A i \in 1 .. Len(reqs) :
       Harmless(reqs[i], Len(resps) + i, fw.address, fw.byte_done)

\* Between two transfers the link holds at most a page of words.
AtMostAPageLeft == ~ fw.in_progress => Len(reqs) + Len(resps) <= WORDS

\* The page being collected; it stays in the buffer until core 1 has acted on it.
Page == (IF fw.byte_done /\ fw.address > 0 THEN fw.address - 1 ELSE fw.address) \div WORDS

\* What was summed is in the flash, or still in the page buffer.
PullOK ==
  fw.source = "PULL" =>
    /\ LinkHarmless
    /\ Len(fw.checksum) = SummedBelow(fw.address)
    /\ \A i \in 0 .. SummedBelow(fw.address) - 1 :
         /\ i < Page * WORDS => fw.checksum[i + 1] = flash[i]
         /\ i >= Page * WORDS => fw.checksum[i + 1] = page_buffer[i % WORDS]

DropOK ==
  block > 0 => /\ Len(fw.checksum) = block * WORDS
               /\ \A a \in Addresses : a < block * WORDS => flash[a] = "host"

CleanInv == PullOK /\ DropOK

LossInv == LossNeverBricks /\ (blame = {} => CleanInv)

(* Two words of one page go to two places of the buffer. *)
LEMMA TwoPlaces ==
  ASSUME NEW a \in Nat, NEW i \in Nat, i < a, (a \div WORDS) * WORDS <= i
  PROVE  i % WORDS # a % WORDS /\ i % WORDS \in 0 .. WORDS - 1
  <1>1. PICK q \in Nat, r \in 0 .. WORDS - 1 :
          a = q * WORDS + r /\ a \div WORDS = q /\ a % WORDS = r
    BY PageSplit
  <1>2. WORDS \in Nat /\ q * WORDS \in Nat
    BY Sizes
  <1>3. q * WORDS <= i
    BY <1>1
  <1> DEFINE s == i - q * WORDS
  <1>4. s \in 0 .. WORDS - 1 /\ i = q * WORDS + s /\ s # r
    <2> DEFINE qw == q * WORDS
    <2>1. a = qw + r /\ qw <= i /\ qw \in Nat /\ s = i - qw
      BY <1>1, <1>2, <1>3
    <2> HIDE DEF qw, s
    <2>2. s \in 0 .. WORDS - 1 /\ i = qw + s /\ s # r
      BY <1>2, <2>1
    <2>3. QED
      BY <2>2 DEF qw
  <1> HIDE DEF s
  <1>5. (q * WORDS + s) % WORDS = s
    BY <1>4, PageIs
  <1>6. i % WORDS = s
    BY <1>4, <1>5
  <1>7. QED
    BY <1>1, <1>4, <1>6

(* The page of the word before a. *)
LEMMA PageBefore ==
  ASSUME NEW a \in Nat \ {0}
  PROVE  /\ a % WORDS = 0 => /\ (a \div WORDS) * WORDS = a /\ (a - 1) \div WORDS \in Nat
                             /\ ((a - 1) \div WORDS) * WORDS = a - WORDS
         /\ a % WORDS # 0 => (a - 1) \div WORDS = a \div WORDS
         /\ a \div WORDS \in Nat /\ (a - 1) \div WORDS \in Nat
  <1>1. PICK q \in Nat, r \in 0 .. WORDS - 1 :
          a = q * WORDS + r /\ a \div WORDS = q /\ a % WORDS = r
    BY PageSplit
  <1>2. WORDS \in Nat /\ WORDS >= 1 /\ q * WORDS \in Nat /\ a - 1 \in Nat
    BY Sizes
  <1>3. CASE r # 0
    <2>1. q * WORDS <= a - 1 /\ a - 1 < q * WORDS + WORDS
      BY <1>1, <1>2, <1>3
    <2>2. (a - 1) \div WORDS = q
      BY <1>2, <2>1, InPage
    <2>3. QED
      BY <1>1, <1>3, <2>2, Zenon
  <1>4. CASE r = 0
    <2>1. a = q * WORDS
      BY <1>1, <1>2, <1>4
    <2>2. q # 0
      BY <1>2, <2>1
    <2>3. q - 1 \in Nat /\ (q - 1) * WORDS = q * WORDS - WORDS
      BY <1>2, <2>2
    <2>4. (q - 1) * WORDS <= a - 1 /\ a - 1 < (q - 1) * WORDS + WORDS
      BY <1>2, <2>1, <2>3
    <2>5. (a - 1) \div WORDS = q - 1
      BY <1>2, <2>3, <2>4, InPage
    <2>6. ((a - 1) \div WORDS) * WORDS = a - WORDS /\ (a - 1) \div WORDS \in Nat
      BY <2>1, <2>3, <2>5
    <2>7. (a \div WORDS) * WORDS = a
      BY <1>1, <2>1
    <2>8. QED
      BY <1>1, <1>4, <2>6, <2>7, Zenon
  <1>5. QED
    BY <1>3, <1>4

(* What writing a page does to each word. *)
LEMMA WriteAt ==
  ASSUME NEW p \in Nat, NEW buffer, NEW a \in Addresses
  PROVE  /\ a < p * WORDS => write_flash_page(p, buffer)[a] = flash[a]
         /\ p * WORDS <= a /\ a < p * WORDS + WORDS =>
              write_flash_page(p, buffer)[a] = buffer[a % WORDS]
  <1>1. a \in Nat /\ p * WORDS \in Nat /\ WORDS \in Nat
    BY Sizes DEF Addresses, SIZE
  <1>2. a \div WORDS = p <=> p * WORDS <= a /\ a < p * WORDS + WORDS
    BY <1>1, InPage
  <1>3. write_flash_page(p, buffer)[a] = IF a \div WORDS = p THEN buffer[a % WORDS] ELSE flash[a]
    BY DEF write_flash_page
  <1>4. CASE a < p * WORDS
    <2>1. ~ (p * WORDS <= a)
      BY <1>1, <1>4
    <2>2. QED
      BY <1>2, <1>3, <2>1, Zenon
  <1>5. CASE p * WORDS <= a /\ a < p * WORDS + WORDS
    <2>1. ~ (a < p * WORDS)
      BY <1>1, <1>5
    <2>2. QED
      BY <1>2, <1>3, <1>5, <2>1, Zenon
  <1>6. QED
    BY <1>4, <1>5, Zenon

(* An image that is what was summed passes. *)
LEMMA VerdictComplete ==
  ASSUME NEW sum \in Seq(Words), NEW image, Len(sum) = SIZE - WORDS,
         \A i \in 0 .. SIZE - WORDS - 1 : sum[i + 1] = image[i]
  PROVE  Verdict(image, sum) = "reboot"
  <1> DEFINE crc == [i \in 1 .. SIZE - WORDS |-> image[i - 1]]
  <1>1. DOMAIN crc = 1 .. SIZE - WORDS /\ DOMAIN sum = 1 .. SIZE - WORDS
    OBVIOUS
  <1>2. \A i \in 1 .. SIZE - WORDS : crc[i] = sum[i]
    <2> SUFFICES ASSUME NEW i \in 1 .. SIZE - WORDS PROVE image[i - 1] = sum[i]
      OBVIOUS
    <2>1. i - 1 \in 0 .. SIZE - WORDS - 1 /\ (i - 1) + 1 = i
      BY Sizes
    <2>2. sum[(i - 1) + 1] = image[i - 1]
      BY <2>1
    <2>3. QED
      BY <2>1, <2>2
  <1>3. crc = sum
    <2>1. sum = [i \in 1 .. SIZE - WORDS |-> sum[i]]
      BY <1>1
    <2>2. QED
      BY <1>2, <2>1
  <1>4. QED
    BY <1>3 DEF Verdict, calculate_firmware_crc32, SIZE

(* The link's types, once for the lemmas below. *)
LEMMA LinkTypes ==
  ASSUME TypeOK
  PROVE  /\ reqs \in Seq(Addresses) /\ resps \in Seq(Addresses \X Words)
         /\ Len(reqs) \in Nat /\ Len(resps) \in Nat
         /\ \A i \in 1 .. Len(reqs) : reqs[i] \in Int /\ reqs[i] >= 0
         /\ \A i \in 1 .. Len(resps) : resps[i][1] \in Int /\ resps[i][1] >= 0
         /\ fw.address \in Nat /\ WORDS \in Nat
  <1>1. /\ reqs \in Seq(Addresses) /\ resps \in Seq(Addresses \X Words)
        /\ fw.address \in Nat
    BY Types
  <1>2. /\ Len(reqs) \in Nat /\ Len(resps) \in Nat
        /\ \A i \in 1 .. Len(reqs) : reqs[i] \in Addresses
        /\ \A i \in 1 .. Len(resps) : resps[i] \in Addresses \X Words
    BY <1>1
  <1>3. \A v \in Addresses : v \in Int /\ v >= 0
    BY Sizes DEF Addresses, SIZE
  <1>4. \A i \in 1 .. Len(resps) : resps[i][1] \in Addresses
    BY <1>2
  <1>5. WORDS \in Nat
    BY <1>1, Sizes
  <1>6. QED
    BY <1>1, <1>2, <1>3, <1>4, <1>5

(* The awaited word is asked for, or nothing happens to the link. *)
LEMMA LinkAsked ==
  ASSUME TypeOK, LinkHarmless, resps' = resps, fw'.address = fw.address,
         \/ reqs' = reqs /\ (fw'.byte_done => fw.byte_done) /\ (fw.byte_done => fw'.byte_done)
         \/ reqs' \in {reqs, Append(reqs, fw.address)} /\ ~ fw'.byte_done
  PROVE  LinkHarmless'
  <1>0. /\ reqs \in Seq(Addresses) /\ Len(reqs) \in Nat /\ Len(resps) \in Nat
    BY LinkTypes
  <1>1. \A v, j : Harmless(v, j, fw.address, fw.byte_done) =>
                     Harmless(v, j, fw'.address, fw'.byte_done)
    BY DEF Harmless
  <1>2. \A i \in 1 .. Len(resps') : Harmless(resps'[i][1], i, fw'.address, fw'.byte_done)
    BY <1>1 DEF LinkHarmless
  <1>3. \A i \in 1 .. Len(reqs') :
          Harmless(reqs'[i], Len(resps') + i, fw'.address, fw'.byte_done)
    <2>1. CASE reqs' = reqs
      BY <1>1, <2>1 DEF LinkHarmless
    <2>2. CASE reqs' = Append(reqs, fw.address) /\ ~ fw'.byte_done
      <3>1. /\ Len(reqs') = Len(reqs) + 1 /\ reqs'[Len(reqs) + 1] = fw.address
            /\ \A i \in 1 .. Len(reqs) : reqs'[i] = reqs[i]
        BY <1>0, <2>2
      <3>2. \A j : Harmless(fw.address, j, fw'.address, fw'.byte_done)
        BY <2>2 DEF Harmless
      <3> SUFFICES ASSUME NEW i \in 1 .. Len(reqs')
                   PROVE  Harmless(reqs'[i], Len(resps') + i, fw'.address, fw'.byte_done)
        OBVIOUS
      <3>3. CASE i = Len(reqs) + 1
        BY <3>1, <3>2, <3>3
      <3>4. CASE i \in 1 .. Len(reqs)
        BY <1>1, <3>1, <3>4 DEF LinkHarmless
      <3>5. QED
        BY <1>0, <3>1, <3>3, <3>4
    <2>3. QED
      BY <2>1, <2>2
  <1>4. QED
    BY <1>2, <1>3 DEF LinkHarmless

(* The first answer leaves the link, taken or lost. *)
LEMMA LinkAnswered ==
  ASSUME TypeOK, LinkHarmless, resps # <<>>, resps' = Tail(resps), reqs' = reqs,
         \/ fw' = fw
         \/ fw'.address = fw.address + 1 /\ fw'.byte_done
  PROVE  LinkHarmless'
  <1>0. /\ resps \in Seq(Addresses \X Words) /\ Len(reqs) \in Nat /\ Len(resps) \in Nat
        /\ \A i \in 1 .. Len(reqs) : reqs[i] \in Int
        /\ \A i \in 1 .. Len(resps) : resps[i][1] \in Int
        /\ fw.address \in Nat /\ WORDS \in Nat
    BY LinkTypes
  <1>1. Len(resps') = Len(resps) - 1 /\ \A i \in 1 .. Len(resps') : resps'[i] = resps[i + 1]
    BY <1>0
  <1>2. ASSUME NEW v \in Int, NEW j \in Nat, Harmless(v, j + 1, fw.address, fw.byte_done)
        PROVE  Harmless(v, j, fw'.address, fw'.byte_done)
    <2>1. CASE fw' = fw
      BY <1>0, <1>2, <2>1 DEF Harmless
    <2>2. CASE fw'.address = fw.address + 1 /\ fw'.byte_done
      BY <1>0, <1>2, <2>2 DEF Harmless
    <2>3. QED
      BY <2>1, <2>2
  <1>3. ASSUME NEW i \in 1 .. Len(resps')
        PROVE  Harmless(resps'[i][1], i, fw'.address, fw'.byte_done)
    <2>1. i + 1 \in 1 .. Len(resps) /\ resps'[i] = resps[i + 1] /\ i \in Nat
      BY <1>0, <1>1
    <2>2. resps[i + 1][1] \in Int /\ Harmless(resps[i + 1][1], i + 1, fw.address, fw.byte_done)
      BY <1>0, <2>1 DEF LinkHarmless
    <2>3. QED
      BY <1>2, <2>1, <2>2
  <1>4. ASSUME NEW i \in 1 .. Len(reqs')
        PROVE  Harmless(reqs'[i], Len(resps') + i, fw'.address, fw'.byte_done)
    <2>1. i \in 1 .. Len(reqs) /\ Len(resps') + i \in Nat /\ Len(resps) + i = (Len(resps') + i) + 1
      BY <1>0, <1>1
    <2>2. reqs[i] \in Int /\ Harmless(reqs[i], (Len(resps') + i) + 1, fw.address, fw.byte_done)
      BY <1>0, <2>1 DEF LinkHarmless
    <2>3. QED
      BY <1>2, <2>1, <2>2
  <1>5. QED
    BY <1>3, <1>4 DEF LinkHarmless

(* A request is lost. *)
LEMMA LinkLosesRequest ==
  ASSUME TypeOK, LinkHarmless, reqs # <<>>, reqs' = Tail(reqs), resps' = resps, fw' = fw
  PROVE  LinkHarmless'
  <1>0. /\ reqs \in Seq(Addresses) /\ Len(reqs) \in Nat /\ Len(resps) \in Nat
        /\ \A i \in 1 .. Len(reqs) : reqs[i] \in Int
        /\ fw.address \in Nat /\ WORDS \in Nat
    BY LinkTypes
  <1>1. Len(reqs') = Len(reqs) - 1 /\ \A i \in 1 .. Len(reqs') : reqs'[i] = reqs[i + 1]
    BY <1>0
  <1>2. ASSUME NEW i \in 1 .. Len(reqs')
        PROVE  Harmless(reqs'[i], Len(resps') + i, fw'.address, fw'.byte_done)
    <2>1. i + 1 \in 1 .. Len(reqs) /\ reqs'[i] = reqs[i + 1] /\ i \in Nat
      BY <1>0, <1>1
    <2>2. reqs[i + 1] \in Int
          /\ Harmless(reqs[i + 1], Len(resps) + (i + 1), fw.address, fw.byte_done)
      BY <1>0, <2>1 DEF LinkHarmless
    <2>3. QED
      BY <1>0, <2>1, <2>2 DEF Harmless
  <1>3. QED
    BY <1>2 DEF LinkHarmless

(* A request becomes an answer: its place on the link is the same. *)
LEMMA LinkServes ==
  ASSUME TypeOK, LinkHarmless, handle_request_byte_msg
  PROVE  LinkHarmless'
  <1>0. /\ reqs \in Seq(Addresses) /\ Len(reqs) \in Nat /\ Len(resps) \in Nat
        /\ resps \in Seq(Addresses \X Words)
    BY LinkTypes
  <1> DEFINE x == <<Head(reqs), PeerWord(Head(reqs))>>
  <1>1. reqs # <<>> /\ reqs' = Tail(reqs) /\ resps' = Append(resps, x) /\ fw' = fw
    BY DEF handle_request_byte_msg
  <1>2. Head(reqs) \in Addresses /\ Head(reqs) = reqs[1] /\ 1 \in 1 .. Len(reqs)
    BY <1>0, <1>1
  <1>3. x \in Addresses \X Words /\ x[1] = reqs[1]
    BY <1>2 DEF PeerWord, Words
  <1> HIDE DEF x
  <1>4. /\ Len(resps') = Len(resps) + 1 /\ resps'[Len(resps) + 1] = x
        /\ \A i \in 1 .. Len(resps) : resps'[i] = resps[i]
    BY <1>0, <1>1, <1>3
  <1>5. Len(reqs') = Len(reqs) - 1 /\ \A i \in 1 .. Len(reqs') : reqs'[i] = reqs[i + 1]
    BY <1>0, <1>1
  <1>6. ASSUME NEW i \in 1 .. Len(resps')
        PROVE  Harmless(resps'[i][1], i, fw'.address, fw'.byte_done)
    <2>1. CASE i = Len(resps) + 1
      BY <1>1, <1>2, <1>3, <1>4, <2>1 DEF LinkHarmless
    <2>2. CASE i \in 1 .. Len(resps)
      BY <1>1, <1>4, <2>2 DEF LinkHarmless
    <2>3. QED
      BY <1>0, <1>4, <2>1, <2>2
  <1>7. ASSUME NEW i \in 1 .. Len(reqs')
        PROVE  Harmless(reqs'[i], Len(resps') + i, fw'.address, fw'.byte_done)
    <2>1. i + 1 \in 1 .. Len(reqs) /\ reqs'[i] = reqs[i + 1]
          /\ Len(resps') + i = Len(resps) + (i + 1)
      BY <1>0, <1>4, <1>5
    <2>2. QED
      BY <1>1, <2>1 DEF LinkHarmless
  <1>8. QED
    BY <1>6, <1>7 DEF LinkHarmless

(* A pull that starts over meets none of the words the last one left. *)
LEMMA LinkStale ==
  ASSUME TypeOK, Len(reqs) + Len(resps) <= WORDS, UNCHANGED <<reqs, resps>>,
         fw'.address = 0, fw'.byte_done
  PROVE  LinkHarmless'
  <1>0. /\ Len(reqs) \in Nat /\ Len(resps) \in Nat
        /\ \A i \in 1 .. Len(reqs) : reqs[i] \in Int
        /\ \A i \in 1 .. Len(resps) : resps[i][1] \in Int
        /\ WORDS \in Nat
    BY LinkTypes
  <1>1. \A v \in Int, j \in Nat : j <= WORDS => Harmless(v, j, 0, TRUE)
    BY <1>0 DEF Harmless
  <1>2. ASSUME NEW i \in 1 .. Len(resps) PROVE Harmless(resps[i][1], i, 0, TRUE)
    <2>1. i \in Nat /\ i <= WORDS /\ resps[i][1] \in Int
      BY <1>0
    <2>2. QED
      BY <1>1, <2>1
  <1>3. ASSUME NEW i \in 1 .. Len(reqs) PROVE Harmless(reqs[i], Len(resps) + i, 0, TRUE)
    <2>1. Len(resps) + i \in Nat /\ Len(resps) + i <= WORDS /\ reqs[i] \in Int
      BY <1>0
    <2>2. QED
      BY <1>1, <2>1
  <1>4. QED
    BY <1>2, <1>3 DEF LinkHarmless, Harmless

(* A step that leaves the transfer and the flash alone. *)
LEMMA AloneClean ==
  ASSUME CleanInv, UNCHANGED <<fw, block, flash>>,
         fw.source = "PULL" => LinkHarmless' /\ page_buffer' = page_buffer
  PROVE  CleanInv'
  <1>1. DropOK'
    BY DEF CleanInv, DropOK
  <1>2. PullOK'
    BY DEF CleanInv, PullOK, Page, SummedBelow
  <1>3. QED
    BY <1>1, <1>2 DEF CleanInv

(* The words in flight when a request is sent or not. *)
LEMMA RequestCount ==
  ASSUME TypeOK, request_byte(fw.address)
  PROVE  /\ reqs' \in {reqs, Append(reqs, fw.address)}
         /\ Len(reqs') <= Len(reqs) + 1 /\ Len(reqs') \in Nat
  <1>1. reqs \in Seq(Addresses) /\ fw.address \in Nat
    BY Types
  <1>2. reqs' \in {reqs, Append(reqs, fw.address)}
    BY DEF request_byte
  <1>3. CASE reqs' = reqs
    BY <1>1, <1>2, <1>3
  <1>4. CASE reqs' = Append(reqs, fw.address)
    <2>1. reqs \in Seq(Nat)
      BY <1>1, Sizes DEF Addresses, SIZE
    <2>2. Len(reqs') = Len(reqs) + 1 /\ Len(reqs) \in Nat
      BY <1>1, <1>4, <2>1
    <2>3. QED
      BY <1>2, <2>2
  <1>5. QED
    BY <1>2, <1>3, <1>4

LEMMA QuietClean ==
  ASSUME TypeInv, WholeInv, CleanInv, blame = {}, blame' = {},
         \/ \E early \in BOOLEAN : AskAgain(early)
         \/ save_config \/ handle_request_byte_msg \/ Lose
         \/ PeerRewrites \/ PeerDies \/ PeerReturns \/ Stopped
  PROVE  CleanInv' /\ UNCHANGED <<mode, known>>
  <1>0. TypeOK /\ (fw.source = "PULL" => LinkHarmless)
    BY DEF TypeInv, CleanInv, PullOK
  <1>t. Len(reqs) \in Nat /\ Len(resps) \in Nat
        /\ reqs \in Seq(Addresses) /\ resps \in Seq(Addresses \X Words)
    BY <1>0, LinkTypes, Types
  <1>1. ASSUME NEW early \in BOOLEAN, AskAgain(early) PROVE CleanInv' /\ UNCHANGED <<mode, known>>
    <2>1. /\ ~ fw.byte_done /\ (early <=> (reqs # <<>> \/ resps # <<>>)) /\ Fault(early)
          /\ request_byte(fw.address)
          /\ UNCHANGED <<fw, page_buffer, flash, known, resps, block, mode>>
      BY <1>1 DEF AskAgain
    <2>2. Len(reqs') <= Len(reqs) + 1 /\ Len(reqs') \in Nat
          /\ reqs' \in {reqs, Append(reqs, fw.address)}
      BY <1>0, <2>1, RequestCount
    <2>6. fw.source = "PULL" => LinkHarmless'
      BY <1>0, <2>1, <2>2, LinkAsked
    <2>7. QED
      BY <2>1, <2>6, AloneClean
  <1>2. CASE save_config
    <2>1. Fault(TRUE) /\ UNCHANGED <<fw, flash, known, reqs, resps, block, mode>>
          /\ ~ fw.in_progress
      BY <1>2 DEF save_config
    <2>2. fw.source # "PULL"
      BY <2>1 DEF WholeInv, OneSource, PullSole
    <2>3. QED
      BY <2>1, <2>2, AloneClean
  <1>3. CASE handle_request_byte_msg
    <2>1. /\ reqs # <<>> /\ reqs' = Tail(reqs) /\ UNCHANGED <<fw, page_buffer, flash, known, block, mode, faults>>
          /\ resps' = Append(resps, <<Head(reqs), PeerWord(Head(reqs))>>)
      BY <1>3 DEF handle_request_byte_msg
    <2>5. fw.source = "PULL" => LinkHarmless'
      BY <1>0, <1>3, LinkServes
    <2>6. QED
      BY <2>1, <2>5, AloneClean
  <1>4. CASE Lose
    <2>1. /\ Fault(TRUE) /\ UNCHANGED <<fw, page_buffer, flash, known, block, mode>>
          /\ \/ reqs # <<>> /\ reqs' = Tail(reqs) /\ resps' = resps
             \/ resps # <<>> /\ resps' = Tail(resps) /\ reqs' = reqs
      BY <1>4 DEF Lose
    <2>5. fw.source = "PULL" => LinkHarmless'
      BY <1>0, <2>1, LinkAnswered, LinkLosesRequest
    <2>6. QED
      BY <2>1, <2>5, AloneClean
  <1>5. CASE PeerRewrites \/ PeerReturns \/ Stopped
    <2>1. UNCHANGED <<fw, page_buffer, flash, known, reqs, resps, block, mode, faults>>
      BY <1>5 DEF PeerRewrites, PeerReturns, Stopped, vars
    <2>2. fw.source = "PULL" => LinkHarmless'
      BY <1>0, <2>1 DEF LinkHarmless
    <2>3. QED
      BY <2>1, <2>2, AloneClean
  <1>6. CASE PeerDies
    <2>1. Fault(TRUE) /\ reqs' = <<>> /\ UNCHANGED <<fw, page_buffer, flash, known, resps, block, mode>>
      BY <1>6 DEF PeerDies
    <2>4. fw.source = "PULL" => LinkHarmless'
      BY <1>0, <2>1 DEF LinkHarmless
    <2>5. QED
      BY <2>1, <2>4, AloneClean
  <1>7. QED
    BY <1>1, <1>2, <1>3, <1>4, <1>5, <1>6

LEMMA HeartbeatClean ==
  ASSUME TypeInv, WholeInv, CleanInv, blame = {}, blame' = {}, AtMostAPageLeft,
         NEW early \in BOOLEAN, handle_heartbeat_msg(early)
  PROVE  CleanInv' /\ mode' # "rom"
  <1>0. TypeOK /\ (fw.source = "PULL" => LinkHarmless)
    BY DEF TypeInv, CleanInv, PullOK
  <1>1. /\ mode' = "running"
        /\ UNCHANGED <<page_buffer, flash, reqs, resps, block>>
    BY DEF handle_heartbeat_msg
  <1>3. CASE fw_upgrade_should_pull(OurId, peer.id)
    <2>1. fw' = start_pull /\ ~ fw.in_progress
      BY <1>3 DEF handle_heartbeat_msg, fw_upgrade_should_pull
    <2>2. /\ fw'.source = "PULL" /\ fw'.address = 0 /\ fw'.byte_done = TRUE /\ fw'.checksum = <<>>
      BY <2>1 DEF start_pull
    <2>4. LinkHarmless'
      BY <1>0, <1>1, <2>1, <2>2, LinkStale DEF AtMostAPageLeft
    <2>5. SummedBelow(0) = 0 /\ Len(fw'.checksum) = 0
      BY <2>2, Sizes DEF SummedBelow
    <2>6. PullOK'
      BY <2>2, <2>4, <2>5 DEF PullOK, SummedBelow
    <2>7. block = 0
      <3>1. DropSole /\ block \in 0 .. PAGES - 1 /\ PAGES \in Nat
        BY <1>0, Types, Sizes DEF WholeInv, OneSource
      <3>2. QED
        BY <2>1, <3>1 DEF DropSole
    <2>8. DropOK'
      BY <1>1, <2>7 DEF DropOK
    <2>9. QED
      BY <1>1, <2>6, <2>8 DEF CleanInv
  <1>4. CASE ~ fw_upgrade_should_pull(OurId, peer.id)
    <2>1. fw' = fw
      BY <1>4 DEF handle_heartbeat_msg
    <2>3. fw.source = "PULL" => LinkHarmless'
      BY <1>0, <1>1, <2>1 DEF LinkHarmless
    <2>4. QED
      BY <1>1, <2>1, <2>3, AloneClean
  <1>5. QED
    BY <1>3, <1>4

LEMMA LooksClean ==
  ASSUME TypeInv, CleanInv, PullLooks \/ ResponseLooks
  PROVE  CleanInv' /\ mode' # "rom"
  <1>0. TypeOK /\ (fw.source = "PULL" => LinkHarmless)
    BY DEF TypeInv, CleanInv, PullOK
  <1>t. Len(reqs) \in Nat /\ Len(resps) \in Nat
        /\ resps \in Seq(Addresses \X Words)
    BY <1>0, LinkTypes
  <1>1. /\ mode' = "running" /\ UNCHANGED <<fw, page_buffer, flash, reqs, block, faults>>
        /\ resps' = resps \/ (resps # <<>> /\ resps' = Tail(resps))
    BY DEF PullLooks, ResponseLooks
  <1>2. CASE resps' = resps
    <2>1. fw.source = "PULL" => LinkHarmless'
      BY <1>0, <1>1, <1>2 DEF LinkHarmless
    <2>2. QED
      BY <1>1, <2>1, AloneClean
  <1>3. CASE resps # <<>> /\ resps' = Tail(resps)
    <2>3. fw.source = "PULL" => LinkHarmless'
      BY <1>0, <1>1, <1>3, LinkAnswered
    <2>4. QED
      BY <1>1, <2>3, AloneClean
  <1>4. QED
    BY <1>1, <1>2, <1>3

LEMMA TaskClean ==
  ASSUME TypeInv, WholeInv, CleanInv, blame = {}, blame' = {},
         NEW expired \in BOOLEAN, NEW stalled \in BOOLEAN, NEW early \in BOOLEAN,
         heartbeat_output_task(expired, stalled, early)
  PROVE  CleanInv' /\ (mode' = "rom" => ~ known')
  <1>0. TypeOK /\ (fw.source = "PULL" => LinkHarmless)
    BY DEF TypeInv, CleanInv, PullOK
  <1>t. Len(reqs) \in Nat /\ Len(resps) \in Nat
    BY <1>0, LinkTypes, Types
  <1> DEFINE present == known /\ ~ expired
  <1>1. /\ mode = "running" /\ Fault(early) /\ known' = present
        /\ UNCHANGED <<page_buffer, flash, reqs, resps>>
    BY DEF heartbeat_output_task
  <1>3. CASE stalled
    <2>1. abandon_firmware_upgrade(present) /\ (block' = IF fw.source = "DROP" THEN 0 ELSE block)
      BY <1>3 DEF heartbeat_output_task
    <2>2. present \in BOOLEAN /\ fw \in FwStates
      BY <1>0, Types
    <2> HIDE DEF present
    <2>3. \/ fw' = fw /\ mode' = "rom" /\ ~ present
          \/ fw'.source = "NONE" /\ mode' = mode
      BY <2>1, <2>2, AbandonTypes
    <2>4. block' = 0
      <3>1. DropSole /\ block \in 0 .. PAGES - 1 /\ PAGES \in Nat
        BY <1>0, Types, Sizes DEF WholeInv, OneSource
      <3>2. QED
        BY <2>1, <3>1 DEF DropSole
    <2>5. DropOK'
      BY <2>4 DEF DropOK
    <2>6. PullOK'
      <3>1. CASE fw' = fw
        <4>1. fw.source = "PULL" => LinkHarmless'
          BY <1>0, <1>1, <3>1 DEF LinkHarmless
        <4>2. QED
          BY <1>1, <3>1, <4>1 DEF CleanInv, PullOK, Page, SummedBelow
      <3>2. CASE fw'.source = "NONE"
        BY <3>2 DEF PullOK
      <3>3. QED
        BY <2>3, <3>1, <3>2
    <2>8. mode' = "rom" => ~ known'
      BY <1>1, <2>3
    <2>9. QED
      BY <2>5, <2>6, <2>8 DEF CleanInv
  <1>4. CASE ~ stalled
    <2>1. UNCHANGED <<fw, mode, block>>
      BY <1>4 DEF heartbeat_output_task
    <2>3. fw.source = "PULL" => LinkHarmless'
      BY <1>0, <1>1, <2>1 DEF LinkHarmless
    <2>4. QED
      BY <1>1, <2>1, <2>3, AloneClean
  <1>5. QED
    BY <1>3, <1>4

(* What was summed, and no more, is below the pull. *)
LEMMA SummedRange ==
  ASSUME NEW a \in 0 .. SIZE
  PROVE  /\ SummedBelow(a) \in Nat /\ SummedBelow(a) <= a /\ SummedBelow(a) <= SIZE - WORDS
         /\ \A i \in 0 .. SummedBelow(a) - 1 : i \in Nat /\ i < a /\ i \in Addresses
         /\ SummedBelow(SIZE) = SIZE - WORDS
  BY Sizes DEF SummedBelow, Addresses, SIZE

(* The finished page, the end of the image, or the next word. *)
LEMMA PullActsClean ==
  ASSUME TypeInv, WholeInv, CleanInv, blame = {}, blame' = {},
         NEW refused \in BOOLEAN, PullActs(refused)
  PROVE  CleanInv' /\ mode' # "rom"
  <1>0. TypeOK /\ PullOK /\ DropOK
    BY DEF TypeInv, CleanInv
  <1>t. /\ Len(reqs) \in Nat /\ Len(resps) \in Nat
        /\ fw.address \in 0 .. SIZE /\ fw.address \in Nat /\ fw.checksum \in Seq(Words)
        /\ WORDS \in Nat /\ WORDS >= 1 /\ SIZE \in Nat
    BY <1>0, LinkTypes, Types, Sizes
  <1> DEFINE a == fw.address
             p == (a - 1) \div WORDS
             finished == a % WORDS = 0 /\ a # 0
  <1>1. /\ mode = "running" /\ core1 = "pull" /\ Fault(refused)
        /\ UNCHANGED <<page_buffer, known, resps, block, peer, blame>>
        /\ fw'.checksum = fw.checksum /\ fw'.address = a
        /\ flash' = IF finished THEN write_flash_page(p, page_buffer) ELSE flash
        /\ PullDone => /\ fw'.source = "NONE" /\ mode' = Verdict(flash', fw.checksum)
                       /\ reqs' = reqs
        /\ ~ PullDone => /\ fw'.source = fw.source /\ fw'.byte_done = refused /\ mode' = mode
                         /\ IF refused THEN reqs' = reqs ELSE request_byte(a)
    BY PullStep
  <1>2. fw.source = "PULL" /\ fw.byte_done /\ block = 0
    BY <1>1 DEF WholeInv, OneSource, Core1Sole, PullSole
  <1>3. /\ LinkHarmless /\ Len(fw.checksum) = SummedBelow(a)
        /\ \A i \in 0 .. SummedBelow(a) - 1 :
             /\ i < Page * WORDS => fw.checksum[i + 1] = flash[i]
             /\ i >= Page * WORDS => fw.checksum[i + 1] = page_buffer[i % WORDS]
    BY <1>0, <1>2 DEF PullOK
  <1>4. (a > 0 => Page = p) /\ (a = 0 => Page = 0 \div WORDS)
    BY <1>t, <1>2 DEF Page
  <1>5. DropOK'
    BY <1>1, <1>2 DEF DropOK
  <1>7. CASE PullDone
    <2>1. a = SIZE /\ a \in Nat \ {0} /\ a % WORDS = 0 /\ a # 0
      <3>1. a = SIZE /\ a \in Nat \ {0}
        BY <1>t, <1>7, Sizes DEF PullDone, SIZE
      <3>2. (PAGES * WORDS + 0) % WORDS = 0
        BY PageIs, Sizes
      <3>3. PAGES * WORDS + 0 = SIZE
        BY Sizes
      <3>4. QED
        BY <3>1, <3>2, <3>3
    <2>2. p \in Nat /\ p * WORDS = SIZE - WORDS
      BY <2>1, PageBefore
    <2>3. Page = p /\ flash' = write_flash_page(p, page_buffer) /\ SummedBelow(a) = SIZE - WORDS
      BY <1>t, <1>1, <1>4, <2>1, SummedRange
    <2> HIDE DEF p
    <2>4. \A i \in 0 .. SIZE - WORDS - 1 : fw.checksum[i + 1] = flash'[i]
      <3> SUFFICES ASSUME NEW i \in 0 .. SIZE - WORDS - 1 PROVE fw.checksum[i + 1] = flash'[i]
        OBVIOUS
      <3>1. i \in Addresses /\ i < SIZE - WORDS
        BY <1>t DEF Addresses, SIZE
      <3>2. i < p * WORDS /\ i < Page * WORDS
        BY <2>2, <2>3, <3>1
      <3>3. write_flash_page(p, page_buffer)[i] = flash[i]
        BY <2>2, <3>1, <3>2, WriteAt
      <3>4. fw.checksum[i + 1] = flash[i]
        BY <1>3, <2>3, <3>2
      <3>5. QED
        BY <2>3, <3>3, <3>4
    <2>5. mode' = "reboot"
      <3>1. Len(fw.checksum) = SIZE - WORDS
        BY <1>3, <2>3
      <3>2. QED
        BY <1>t, <1>1, <1>7, <2>4, <3>1, VerdictComplete
    <2>6. PullOK'
      BY <1>1, <1>7 DEF PullOK
    <2>7. QED
      BY <1>5, <2>5, <2>6 DEF CleanInv
  <1>8. CASE ~ PullDone
    <2>1. /\ fw'.source = "PULL" /\ fw'.byte_done = refused /\ mode' = mode
          /\ IF refused THEN reqs' = reqs ELSE request_byte(a)
      BY <1>1, <1>2, <1>8
    <2>2. reqs' \in {reqs, Append(reqs, a)} /\ Len(reqs') <= Len(reqs) + 1 /\ Len(reqs') \in Nat
          /\ (refused => reqs' = reqs)
      <3>1. CASE refused
        BY <1>t, <2>1, <3>1
      <3>2. CASE ~ refused
        BY <1>0, <2>1, <3>2, RequestCount
      <3>3. QED
        BY <3>1, <3>2
    <2>4. LinkHarmless'
      <3>1. CASE refused
        BY <1>0, <1>1, <1>2, <1>3, <2>1, <2>2, <3>1, LinkAsked
      <3>2. CASE ~ refused
        BY <1>0, <1>1, <1>3, <2>1, <2>2, <3>2, LinkAsked
      <3>3. QED
        BY <3>1, <3>2
    <2>5. Page' = IF refused /\ a > 0 THEN p ELSE a \div WORDS
      BY <1>1, <2>1 DEF Page
    <2>6. ASSUME NEW i \in 0 .. SummedBelow(a) - 1
          PROVE  /\ i < Page' * WORDS => fw.checksum[i + 1] = flash'[i]
                 /\ i >= Page' * WORDS => fw.checksum[i + 1] = page_buffer[i % WORDS]
      <3>1. i \in Nat /\ i < a /\ i \in Addresses
        BY <1>t, <2>6, SummedRange
      <3>2. a > 0 /\ a \in Nat \ {0} /\ Page = p
        BY <1>t, <1>4, <3>1
      <3>3. /\ p \in Nat /\ a \div WORDS \in Nat
            /\ a % WORDS = 0 => p * WORDS = a - WORDS /\ (a \div WORDS) * WORDS = a
            /\ a % WORDS # 0 => p = a \div WORDS
        BY <3>2, PageBefore
      <3>4. /\ i < p * WORDS => fw.checksum[i + 1] = flash[i]
            /\ i >= p * WORDS => fw.checksum[i + 1] = page_buffer[i % WORDS]
        BY <1>3, <2>6, <3>2
      <3> HIDE DEF p
      <3>5. i < p * WORDS => flash'[i] = flash[i]
        <4>1. CASE finished
          BY <1>1, <3>1, <3>3, <4>1, WriteAt
        <4>2. CASE ~ finished
          BY <1>1, <4>2
        <4>3. QED
          BY <4>1, <4>2
      <3>6. CASE Page' = p
        BY <3>4, <3>5, <3>6
      <3>7. CASE a % WORDS = 0 /\ Page' = a \div WORDS
        <4>1. Page' * WORDS = a /\ p * WORDS = a - WORDS
          BY <3>3, <3>7
        <4>2. i < Page' * WORDS
          BY <3>1, <4>1
        <4>3. ~ (i >= Page' * WORDS)
          BY <1>t, <3>1, <4>1
        <4>4. fw.checksum[i + 1] = flash'[i]
          <5>1. CASE i < p * WORDS
            BY <3>4, <3>5, <5>1
          <5>2. CASE ~ (i < p * WORDS)
            <6>1. i >= p * WORDS /\ p * WORDS <= i /\ i < p * WORDS + WORDS
              BY <1>t, <3>1, <4>1, <5>2
            <6>2. write_flash_page(p, page_buffer)[i] = page_buffer[i % WORDS]
              BY <3>1, <3>3, <6>1, WriteAt
            <6>3. flash' = write_flash_page(p, page_buffer)
              BY <1>1, <3>2, <3>7
            <6>4. QED
              BY <3>4, <6>1, <6>2, <6>3
          <5>3. QED
            BY <5>1, <5>2
        <4>5. QED
          BY <4>3, <4>4
      <3>8. Page' = p \/ (a % WORDS = 0 /\ Page' = a \div WORDS)
        BY <2>5, <3>3
      <3>9. QED
        BY <3>6, <3>7, <3>8
    <2> HIDE DEF p
    <2>7. PullOK'
      <3>1. SummedBelow(fw.address)' = SummedBelow(a)
        BY <1>1 DEF SummedBelow
      <3>2. QED
        BY <1>1, <1>3, <2>4, <2>6, <3>1 DEF PullOK
    <2>8. QED
      BY <1>1, <1>5, <2>1, <2>7 DEF CleanInv
  <1>9. QED
    BY <1>7, <1>8

(* A word taken goes to the sum and to its place of the page being collected. *)
LEMMA ResponseClean ==
  ASSUME TypeInv, WholeInv, CleanInv, blame = {}, blame' = {}, ResponseActs
  PROVE  CleanInv' /\ (mode' = "rom" => ~ known')
  <1>0. TypeOK /\ PullOK /\ DropOK
    BY DEF TypeInv, CleanInv
  <1>t. /\ Len(reqs) \in Nat /\ Len(resps) \in Nat
        /\ resps \in Seq(Addresses \X Words) /\ page_buffer \in [Offsets -> Words]
        /\ fw.address \in 0 .. SIZE /\ fw.address \in Nat /\ fw.checksum \in Seq(Words)
        /\ WORDS \in Nat /\ WORDS >= 1 /\ SIZE \in Nat
    BY <1>0, LinkTypes, Types, Sizes
  <1> DEFINE a == fw.address
             word == Head(resps)[2]
  <1>1. /\ mode = "running" /\ core1 = "response" /\ resps # <<>>
        /\ Head(resps) \in Addresses \X Words /\ resps' = Tail(resps)
        /\ UNCHANGED <<flash, known, reqs, block, faults>>
    BY ResponseStep
  <1>2. fw.source = "PULL" /\ block = 0
    BY <1>1 DEF WholeInv, OneSource, Core1Sole, PullSole
  <1>3. /\ LinkHarmless /\ Len(fw.checksum) = SummedBelow(a)
        /\ \A i \in 0 .. SummedBelow(a) - 1 :
             /\ i < Page * WORDS => fw.checksum[i + 1] = flash[i]
             /\ i >= Page * WORDS => fw.checksum[i + 1] = page_buffer[i % WORDS]
    BY <1>0, <1>2 DEF PullOK
  <1>4. DropOK'
    BY <1>1, <1>2 DEF DropOK
  <1>7. CASE fw' = fw /\ mode' = "rom" /\ ~ known /\ page_buffer' = page_buffer
    <2>1. LinkHarmless'
      BY <1>0, <1>1, <1>3, <1>7, LinkAnswered
    <2>2. PullOK'
      BY <1>0, <1>1, <1>7, <2>1 DEF PullOK, Page, SummedBelow
    <2>3. QED
      BY <1>1, <1>4, <1>7, <2>2 DEF CleanInv
  <1>8. CASE fw'.source = "NONE" /\ mode' = mode
    BY <1>1, <1>4, <1>8 DEF CleanInv, PullOK
  <1>9. CASE /\ Head(resps)[1] = a /\ mode' = mode
             /\ fw'.source = fw.source
             /\ fw'.byte_done = TRUE /\ fw'.address = a + 1
             /\ fw'.checksum = IF Summed(a) THEN Append(fw.checksum, word) ELSE fw.checksum
             /\ page_buffer' = [page_buffer EXCEPT ![a % WORDS] = word]
    <2>1. LinkHarmless'
      BY <1>0, <1>1, <1>3, <1>9, LinkAnswered
    <2>2. a \in Addresses /\ word \in Words /\ a + 1 \in 0 .. SIZE
      <3>1. a \in Addresses /\ word \in Words
        BY <1>1, <1>9
      <3>2. QED
        BY <1>t, <3>1 DEF Addresses, SIZE
    <2> HIDE DEF word
    <2> DEFINE q == a \div WORDS
    <2>3. Page = q
      <3>1. CASE fw.byte_done /\ a > 0
        <4>1. 1 \in 1 .. Len(resps) /\ resps[1] = Head(resps)
          BY <1>t, <1>1
        <4>2. Harmless(a, 1, a, fw.byte_done)
          BY <1>3, <1>9, <4>1 DEF LinkHarmless
        <4>3. a < WORDS
          BY <1>t, <3>1, <4>2 DEF Harmless
        <4>4. 0 \in Nat /\ 0 * WORDS = 0 /\ a - 1 \in Nat
          BY <1>t, <3>1
        <4>5. a \div WORDS = 0 /\ (a - 1) \div WORDS = 0
          BY <1>t, <4>3, <4>4, InPage
        <4>6. QED
          BY <3>1, <4>5 DEF Page
      <3>2. CASE ~ (fw.byte_done /\ a > 0)
        BY <3>2 DEF Page
      <3>3. QED
        BY <3>1, <3>2
    <2>4. Page' = q
      <3>1. a + 1 > 0 /\ (a + 1) - 1 = a
        BY <1>t
      <3>2. Page' = ((a + 1) - 1) \div WORDS
        BY <1>9, <3>1 DEF Page
      <3>3. QED
        BY <3>1, <3>2
    <2>5. q \in Nat /\ q * WORDS \in Nat /\ q * WORDS <= a /\ a % WORDS \in Offsets
      <3>1. PICK u \in Nat, r \in 0 .. WORDS - 1 :
              a = u * WORDS + r /\ a \div WORDS = u /\ a % WORDS = r
        BY <1>t, PageSplit
      <3>2. u * WORDS \in Nat /\ u * WORDS <= a
        BY <1>t, <3>1
      <3>3. QED
        BY <3>1, <3>2 DEF Offsets
    <2>6. ASSUME NEW i \in Nat, i < a, q * WORDS <= i
          PROVE  page_buffer'[i % WORDS] = page_buffer[i % WORDS]
      <3>1. i % WORDS # a % WORDS /\ i % WORDS \in Offsets
        BY <1>t, <2>6, TwoPlaces DEF Offsets
      <3>2. QED
        BY <1>t, <1>9, <3>1
    <2>7. page_buffer'[a % WORDS] = word
      BY <1>t, <1>9, <2>5
    <2> HIDE DEF q
    <2>8. ASSUME NEW i \in 0 .. SummedBelow(a) - 1
          PROVE  /\ i < q * WORDS => fw.checksum[i + 1] = flash[i]
                 /\ i >= q * WORDS => fw.checksum[i + 1] = page_buffer'[i % WORDS]
      <3>1. i \in Nat /\ i < a
        BY <1>t, <2>8, SummedRange
      <3>2. /\ i < q * WORDS => fw.checksum[i + 1] = flash[i]
            /\ i >= q * WORDS => fw.checksum[i + 1] = page_buffer[i % WORDS]
        BY <1>3, <2>3, <2>8
      <3>3. i >= q * WORDS <=> q * WORDS <= i
        BY <2>5, <3>1
      <3>4. QED
        BY <2>6, <3>1, <3>2, <3>3
    <2>9. CASE Summed(a)
      <3>1. SummedBelow(a) = a /\ SummedBelow(a + 1) = a + 1
        BY <1>t, <2>2, <1>9, <2>9 DEF Summed, SummedBelow, SIZE
      <3>2. /\ Len(fw'.checksum) = a + 1 /\ fw'.checksum[a + 1] = word
            /\ \A i \in 1 .. a : fw'.checksum[i] = fw.checksum[i]
        BY <1>t, <1>3, <1>9, <2>2, <2>9, <3>1
      <3>3. ASSUME NEW i \in 0 .. a
            PROVE  /\ i < q * WORDS => fw'.checksum[i + 1] = flash[i]
                   /\ i >= q * WORDS => fw'.checksum[i + 1] = page_buffer'[i % WORDS]
        <4>1. CASE i = a
          <5>1. ~ (i < q * WORDS)
            BY <1>t, <2>5, <4>1
          <5>2. QED
            BY <2>7, <3>2, <4>1, <5>1
        <4>2. CASE i # a
          <5>1. i \in 0 .. SummedBelow(a) - 1 /\ i + 1 \in 1 .. a
            BY <1>t, <3>1, <4>2
          <5>2. QED
            BY <2>8, <3>2, <5>1
        <4>3. QED
          BY <4>1, <4>2
      <3>4. PullOK'
        <4>1. SummedBelow(fw.address)' = a + 1 /\ fw.address' = a + 1
          BY <1>9, <3>1 DEF SummedBelow
        <4>2. 0 .. (a + 1) - 1 = 0 .. a
          BY <1>t
        <4>3. QED
          BY <1>1, <2>1, <2>4, <3>2, <3>3, <4>1, <4>2 DEF PullOK
      <3>5. QED
        BY <1>1, <1>4, <1>9, <3>4 DEF CleanInv
    <2>10. CASE ~ Summed(a)
      <3>1. SummedBelow(a + 1) = SummedBelow(a)
        BY <1>t, <2>10 DEF Summed, SummedBelow, SIZE
      <3>2. fw'.checksum = fw.checksum
        BY <1>9, <2>10
      <3>3. PullOK'
        <4>1. SummedBelow(fw.address)' = SummedBelow(a)
          BY <1>9, <3>1 DEF SummedBelow
        <4>2. QED
          BY <1>1, <1>3, <2>1, <2>4, <2>8, <3>2, <4>1 DEF PullOK
      <3>4. QED
        BY <1>1, <1>4, <1>9, <3>3 DEF CleanInv
    <2>11. QED
      BY <2>9, <2>10
  <1>10. QED
    BY <1>7, <1>8, <1>9, ResponseStep

(* A block goes to the sum and to the flash. *)
LEMMA DropClean ==
  ASSUME TypeInv, WholeInv, CleanInv, blame = {}, blame' = {}, tud_msc_write10_cb
  PROVE  CleanInv' /\ mode' # "rom"
  <1>0. TypeOK /\ DropOK /\ DropSole
    BY DEF TypeInv, CleanInv, WholeInv, OneSource
  <1>t. /\ Len(reqs) \in Nat /\ Len(resps) \in Nat
        /\ WORDS \in Nat /\ WORDS >= 1 /\ SIZE \in Nat /\ PAGES \in Nat /\ PAGES >= 2
        /\ block \in 0 .. PAGES - 1
    BY <1>0, LinkTypes, Types, Sizes
  <1> DEFINE host == [o \in Offsets |-> "host"]
             last == block = PAGES - 1
  <1>1. /\ mode = "running" /\ flash' = write_flash_page(block, host)
        /\ UNCHANGED <<reqs, resps>> /\ Fault(block = 0)
        /\ fw'.source = IF block = 0 THEN "DROP" ELSE fw.source
        /\ fw'.checksum \in Seq(Words)
        /\ Len(fw'.checksum) = (IF block = 0 THEN 0 ELSE Len(fw.checksum)) + (IF last THEN 0 ELSE WORDS)
        /\ \A i \in 1 .. Len(fw'.checksum) :
             \/ fw'.checksum[i] = "host"
             \/ block # 0 /\ i \in 1 .. Len(fw.checksum) /\ fw'.checksum[i] = fw.checksum[i]
        /\ mode' = IF last THEN Verdict(flash', fw'.checksum) ELSE mode
        /\ block' = IF last THEN 0 ELSE block + 1
    BY DropStep
  <1>2. fw'.source = "DROP" /\ \A i \in 1 .. Len(fw'.checksum) : fw'.checksum[i] = "host"
    <2>1. CASE block = 0
      BY <1>1, <2>1
    <2>2. CASE block # 0
      <3>1. fw.source = "DROP" /\ \A i \in 1 .. Len(fw.checksum) : fw.checksum[i] = "host"
        BY <1>0, <1>t, <2>2 DEF DropSole
      <3>2. QED
        BY <1>1, <2>2, <3>1
    <2>3. QED
      BY <2>1, <2>2
  <1>4. PullOK'
    BY <1>2 DEF PullOK
  <1>5. /\ block * WORDS \in Nat /\ (block + 1) * WORDS = block * WORDS + WORDS
        /\ last => block * WORDS = SIZE - WORDS
    BY <1>t, BlockSizes
  <1>6. Len(fw'.checksum) = block * WORDS + (IF last THEN 0 ELSE WORDS)
    <2>1. CASE block = 0
      BY <1>t, <1>1, <2>1
    <2>2. CASE block # 0
      <3>1. Len(fw.checksum) = block * WORDS
        BY <1>0, <1>t, <2>2 DEF DropOK
      <3>2. QED
        BY <1>1, <2>2, <3>1
    <2>3. QED
      BY <2>1, <2>2
  <1> HIDE DEF host
  <1>7. ASSUME NEW x \in Addresses, x < block * WORDS + WORDS PROVE flash'[x] = "host"
    <2>1. x \in Nat /\ block \in Nat
      BY <1>t DEF Addresses, SIZE, STAGING_IMAGE_SIZE
    <2>2. CASE x < block * WORDS
      <3>1. block > 0
        BY <1>t, <2>1, <2>2
      <3>2. flash[x] = "host"
        BY <1>0, <2>2, <3>1 DEF DropOK
      <3>3. QED
        BY <1>1, <2>1, <2>2, <3>2, WriteAt
    <2>3. CASE ~ (x < block * WORDS)
      <3>1. block * WORDS <= x
        BY <1>5, <2>1, <2>3
      <3>2. flash'[x] = host[x % WORDS]
        BY <1>1, <1>7, <2>1, <3>1, WriteAt
      <3>3. x % WORDS \in Offsets
        BY <1>t, <2>1, PageSplit DEF Offsets
      <3>4. QED
        BY <3>2, <3>3 DEF host
    <2>4. QED
      BY <2>2, <2>3
  <1>8. CASE last
    <2>1. block' = 0 /\ mode' = Verdict(flash', fw'.checksum)
      BY <1>1, <1>8
    <2>2. Len(fw'.checksum) = SIZE - WORDS
      BY <1>t, <1>5, <1>6, <1>8
    <2>3. ASSUME NEW i \in 0 .. SIZE - WORDS - 1 PROVE fw'.checksum[i + 1] = flash'[i]
      <3>1. i + 1 \in 1 .. Len(fw'.checksum) /\ i \in Addresses
        BY <1>t, <2>2 DEF Addresses, SIZE
      <3>2. i < block * WORDS + WORDS
        BY <1>t, <1>5, <1>8
      <3>3. QED
        BY <1>2, <1>7, <3>1, <3>2
    <2>4. mode' = "reboot"
      BY <1>1, <2>1, <2>2, <2>3, VerdictComplete
    <2>5. QED
      BY <1>4, <2>1, <2>4 DEF CleanInv, DropOK
  <1>9. CASE ~ last
    <2>1. block' = block + 1 /\ mode' = mode /\ block' * WORDS = block * WORDS + WORDS
      BY <1>1, <1>5, <1>9
    <2>2. DropOK'
      BY <1>6, <1>7, <1>9, <2>1 DEF DropOK
    <2>3. QED
      BY <1>1, <1>4, <2>1, <2>2 DEF CleanInv
  <1>10. QED
    BY <1>8, <1>9

LEMMA BlameGrows ==
  ASSUME [Next]_vars
  PROVE  blame \subseteq blame'
  BY DEF Next, vars, handle_heartbeat_msg, AskAgain, PullLooks, PullActs, ResponseLooks,
         ResponseActs, heartbeat_output_task, tud_msc_write10_cb, save_config,
         handle_request_byte_msg, Lose, PeerRewrites, PeerDies, PeerReturns, Stopped

LEMMA InitLoss == Init => LossInv
  BY DEF Init, LossInv, LossNeverBricks, CleanInv, PullOK, DropOK

LEMMA NextLoss ==
  ASSUME TypeInv, WholeInv, AtMostAPageLeft, LossInv, [Next]_vars
  PROVE  LossInv'
  <1>1. CASE blame' # {}
    BY <1>1 DEF LossInv, LossNeverBricks
  <1>2. CASE blame' = {}
    <2>1. blame = {}
      BY <1>2, BlameGrows
    <2>2. CleanInv /\ (mode = "rom" => ~ known)
      BY <2>1 DEF LossInv, LossNeverBricks
    <2>3. CleanInv' /\ (mode' = "rom" => ~ known')
      <3>1. CASE UNCHANGED vars
        <4>1. fw.source = "PULL" => LinkHarmless'
          BY <2>2, <3>1 DEF vars, CleanInv, PullOK, LinkHarmless
        <4>2. QED
          BY <2>2, <3>1, <4>1, AloneClean DEF vars
      <3>2. CASE Next
        BY <1>2, <2>1, <2>2, <3>2, HeartbeatClean, QuietClean, LooksClean, PullActsClean,
           ResponseClean, TaskClean, DropClean DEF Next
      <3>3. QED
        BY <3>1, <3>2
    <2>4. QED
      BY <1>2, <2>3 DEF LossInv, LossNeverBricks
  <1>3. QED
    BY <1>1, <1>2

(***************************************************************************)
(* fw_upgrade.h:155-166.  For every image size, page size and number of    *)
(* faults, loss, repetition, delay and restarts never take the board to    *)
(* ROM while its peer board is there, as long as no more than a page of    *)
(* words (64 on the board) is left on the link between two transfers.  The *)
(* code does not bound that: it asks again every tenth of a second, so the *)
(* link would have to hold packets back for seconds.  The condition is     *)
(* needed: with pages of one word, two words left behind are enough for a  *)
(* stale answer to be taken for a page's first word before the page under  *)
(* it is in the flash.                                                     *)
(***************************************************************************)
THEOREM FirmwareLossNeverBricks == Spec /\ []AtMostAPageLeft => []LossNeverBricks
  <1>1. LossInv => LossNeverBricks
    BY DEF LossInv
  <1>2. QED
    BY <1>1, InitTypes, NextTypes, InitWhole, NextWhole, InitLoss, NextLoss, PTL DEF Spec
=============================================================================
