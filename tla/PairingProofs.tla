--------------------------- MODULE PairingProofs ---------------------------
(***************************************************************************)
(* Proofs about pairing: one registration per window and only inside it,   *)
(* no session without a registration, and one registration in RAM, config  *)
(* and flash after a save that ran alone, while no wipe overlaps a save.   *)
(***************************************************************************)
EXTENDS Pairing, Integers, TLAPS

\* An open window is as old as the clock says, and is closed by the first
\* pass that finds it run out, before the clock moves again.
WindowOK ==
    /\ granted = 1 => ~ pair.window_open
    /\ pass # "idle" => now = clock /\ passed
    /\ pair.window_open =>
          /\ Elapsed(clock, pair.window_opened_ms) = age
          /\ age = PAIR_WINDOW_MS => pass # "idle" \/ ~ passed

\* A hello is only being answered for a helper that is registered.
OwnerOK ==
    /\ NoOrphanSession
    /\ pass = "answering" => pair.registered # None /\ asking # None

\* Core 0 saves and wipes between passes or at the end of one, a loop starts
\* at the first page, and a save is alone while the other core has no job.
PlacesOK ==
    /\ pass \in {"draining", "answering"} => job[0] = "none"
    /\ \A c \in Cores : job[c] \notin {"copy", "program"} => offset[c] = 1
    /\ \A c \in Cores : alone[c] => Saving(c) /\ job[1 - c] = "none"

\* What a save that is alone has done so far.
SaveOK(c) ==
    /\ job[c] = "stamp" => sum[c] = config_checksum(config)
    /\ job[c] = "copy" =>
          /\ config[SUM] = config_checksum(config)
          /\ \A p \in Pages : p < offset[c] => page_buffer[p] = config[p]
    /\ job[c] \in {"erase", "program"} =>
          config_is_valid(page_buffer) /\ page_buffer[REG] = config[REG]
    /\ job[c] = "program" =>
          \A p \in Pages : flash[p] = IF p < offset[c] THEN page_buffer[p] ELSE Blank

\* Nobody is between loading the sector and judging what it held.
Settled == \A c \in Cores : job[c] # "loading"

\* The running config is the board's registration, but for what is yet to be
\* saved and for a wipe under way, which leads to the defaults.
RunningOK ==
    /\ ~ unsaved /\ ~ config_wiped /\ (\A c \in Cores : ~ Wiping(c)) =>
          config[REG] = pair.registered
    /\ Settled => config[SETTINGS] \in Settings /\ config[REG] \in Holder
    /\ ~ Settled => config[REG] \in {Blank, None}
    /\ Settled /\ (config_wiped \/ \E c \in Cores : job[c] = "reloaded") => config[REG] = None

\* A wipe has the sector erased, nobody saving and nothing to be saved.
WipeOK ==
    /\ \A c \in Cores : Wiping(c) => flash = Erased /\ ~ Saving(1 - c) /\ ~ unsaved
    /\ unsaved => ~ config_wiped

\* Between jobs the sector names the helper in the running config.
FlashOK ==
    (\A c \in Cores : job[c] = "none") /\ ~ contended => Loaded(flash)[REG] = config[REG]

\* Where each copy of the registration may differ from the others.
CopiesOK ==
    ~ overlap => RunningOK /\ WipeOK /\ FlashOK /\ \A c \in Cores : alone[c] => SaveOK(c)

PairInv == TypeOK /\ WindowOK /\ OwnerOK /\ PlacesOK /\ CopiesOK
-----------------------------------------------------------------------------
Ms == 0 .. CLOCK - 1

PairRec == [registered : Holder, window_open : BOOLEAN, window_claimed : BOOLEAN,
            window_opened_ms : Ms]

Jobs == {"none", "wiped", "loading", "reloaded", "seal", "stamp", "copy", "erase", "program"}

(* The constants as the steps below use them. *)
LEMMA Constants ==
  /\ CLOCK \in Nat /\ CLOCK > PAIR_WINDOW_MS /\ PAIR_WINDOW_MS \in Nat /\ PAIR_WINDOW_MS > 0
  /\ 0 \in Ms /\ None \in Holder /\ (\A h \in Helpers : h \in Holder /\ h # None)
  /\ Blank \notin Holder /\ Junk \notin Holder /\ Blank \notin Settings /\ MaxRequests \in Nat
  BY PairingAssumption DEF Ms, Holder, Settings

(* The distance between two stamps, without the wrap. *)
LEMMA ElapsedCases ==
  ASSUME NEW a \in Ms, NEW b \in Ms
  PROVE  /\ a >= b => Elapsed(a, b) = a - b
         /\ a < b => Elapsed(a, b) = a - b + CLOCK
         /\ Elapsed(a, b) \in Ms
  <1>1. CLOCK \in Nat \ {0} /\ a \in Int /\ b \in Int /\ 0 <= a /\ a < CLOCK /\ 0 <= b /\ b < CLOCK
    BY Constants DEF Ms
  <1>2. \A x \in 0 .. CLOCK - 1 : x % CLOCK = x
    BY <1>1
  <1>3. \A x \in CLOCK .. 2 * CLOCK - 1 : x % CLOCK = x - CLOCK
    BY <1>1
  <1>4. CASE a >= b
    <2>1. a + CLOCK - b \in CLOCK .. 2 * CLOCK - 1
      BY <1>1, <1>4
    <2>2. QED
      BY <1>1, <1>3, <1>4, <2>1 DEF Elapsed, Ms
  <1>5. CASE a < b
    <2>1. a + CLOCK - b \in 0 .. CLOCK - 1
      BY <1>1, <1>5
    <2>2. QED
      BY <1>1, <1>2, <1>5, <2>1 DEF Elapsed, Ms
  <1>6. QED
    BY <1>1, <1>4, <1>5

(* A tick makes a stamp one tick older, until it has gone round. *)
LEMMA ElapsedTick ==
  ASSUME NEW a \in Ms, NEW b \in Ms
  PROVE  /\ (a + 1) % CLOCK \in Ms
         /\ Elapsed(a, b) < PAIR_WINDOW_MS => Elapsed((a + 1) % CLOCK, b) = Elapsed(a, b) + 1
         /\ Elapsed(a, a) = 0
  <1>1. CLOCK \in Nat \ {0} /\ a \in Int /\ b \in Int /\ 0 <= a /\ a < CLOCK /\ 0 <= b /\ b < CLOCK
        /\ PAIR_WINDOW_MS \in Nat /\ PAIR_WINDOW_MS < CLOCK
    BY Constants DEF Ms
  <1>2. \A x \in 0 .. CLOCK - 1 : x % CLOCK = x
    BY <1>1
  <1>3. (a + 1) % CLOCK = IF a + 1 = CLOCK THEN 0 ELSE a + 1
    <2>1. CASE a + 1 = CLOCK
      BY <1>1, <2>1
    <2>2. CASE a + 1 # CLOCK
      BY <1>1, <1>2, <2>2
    <2>3. QED
      BY <2>1, <2>2
  <1>4. (a + 1) % CLOCK \in Ms
    BY <1>1, <1>3 DEF Ms
  <1>5. Elapsed(a, b) < PAIR_WINDOW_MS => Elapsed((a + 1) % CLOCK, b) = Elapsed(a, b) + 1
    <2> DEFINE c == (a + 1) % CLOCK
    <2>1. /\ a >= b => Elapsed(a, b) = a - b
          /\ a < b => Elapsed(a, b) = a - b + CLOCK
      BY ElapsedCases
    <2>2. /\ c >= b => Elapsed(c, b) = c - b
          /\ c < b => Elapsed(c, b) = c - b + CLOCK
      BY <1>4, ElapsedCases
    <2>3. c = IF a + 1 = CLOCK THEN 0 ELSE a + 1
      BY <1>3
    <2> HIDE DEF c
    <2>4. Elapsed(a, b) < PAIR_WINDOW_MS => Elapsed(c, b) = Elapsed(a, b) + 1
      BY <1>1, <2>1, <2>2, <2>3
    <2>5. QED
      BY <2>4 DEF c
  <1>6. Elapsed(a, a) = 0
    BY <1>1, ElapsedCases
  <1>7. QED
    BY <1>4, <1>5, <1>6

(* The fields of the pairing state, and what each operation makes of them. *)
LEMMA PairFields ==
  ASSUME NEW p \in PairRec
  PROVE  /\ p.registered \in Holder /\ p.window_open \in BOOLEAN /\ p.window_claimed \in BOOLEAN
         /\ p.window_opened_ms \in Ms
  BY DEF PairRec

LEMMA PairOps ==
  ASSUME NEW p \in PairRec, NEW t \in Ms, NEW h \in Holder
  PROVE  /\ dh_pair_clear_registration(p) \in PairRec
         /\ dh_pair_clear_registration(p).registered = None
         /\ dh_pair_open_window(p, t) \in PairRec
         /\ dh_pair_open_window(p, t).registered = p.registered
         /\ dh_pair_open_window(p, t).window_opened_ms = t
         /\ dh_pair_register(p, h) \in PairRec
         /\ dh_pair_register(p, h).registered = h
         /\ ~ dh_pair_register(p, h).window_open
         /\ channel_load_registration(h) \in PairRec
         /\ channel_load_registration(h).registered = h
         /\ ~ channel_load_registration(h).window_open
  <1>1. dh_pair_clear_registration(p) \in PairRec /\ dh_pair_clear_registration(p).registered = None
    BY Constants DEF PairRec, dh_pair_clear_registration
  <1>2. /\ dh_pair_open_window(p, t) \in PairRec
        /\ dh_pair_open_window(p, t).registered = p.registered
        /\ dh_pair_open_window(p, t).window_opened_ms = t
    BY DEF PairRec, dh_pair_open_window
  <1>3. /\ dh_pair_register(p, h) \in PairRec
        /\ dh_pair_register(p, h).registered = h
        /\ ~ dh_pair_register(p, h).window_open
    BY DEF PairRec, dh_pair_register
  <1>4. /\ channel_load_registration(h) \in PairRec
        /\ channel_load_registration(h).registered = h
        /\ ~ channel_load_registration(h).window_open
    BY Constants DEF PairRec, channel_load_registration, dh_pair_init
  <1>5. QED
    BY <1>1, <1>2, <1>3, <1>4

(* Letting the window run keeps everything but an expired window. *)
LEMMA TickPair ==
  ASSUME NEW p \in PairRec, NEW t \in Ms
  PROVE  /\ dh_pair_tick(p, t) \in PairRec
         /\ dh_pair_tick(p, t).registered = p.registered
         /\ dh_pair_tick(p, t).window_opened_ms = p.window_opened_ms
         /\ dh_pair_tick(p, t).window_open =>
              p.window_open /\ Elapsed(t, p.window_opened_ms) < PAIR_WINDOW_MS
  <1>1. dh_pair_window_open(p, t) \in BOOLEAN /\ (p.window_claimed /\ ~ minute_elapsed(p, t)) \in BOOLEAN
    BY DEF dh_pair_window_open, minute_elapsed
  <1>2. /\ dh_pair_tick(p, t) \in PairRec
        /\ dh_pair_tick(p, t).registered = p.registered
        /\ dh_pair_tick(p, t).window_opened_ms = p.window_opened_ms
        /\ dh_pair_tick(p, t).window_open = dh_pair_window_open(p, t)
    BY <1>1 DEF PairRec, dh_pair_tick
  <1>3. QED
    BY <1>2 DEF dh_pair_window_open

(* What a sector is, page by page, before and after one page changes. *)
LEMMA Put ==
  ASSUME NEW s, Sector(s), NEW p \in Pages, NEW v
  PROVE  /\ [s EXCEPT ![p] = v] = [q \in Pages |-> [s EXCEPT ![p] = v][q]]
         /\ [s EXCEPT ![p] = v][p] = v
         /\ \A q \in Pages : q # p => [s EXCEPT ![p] = v][q] = s[q]
  BY DEF Sector

LEMMA PageNumbers ==
  /\ 1 \in Pages /\ SETTINGS \in Pages /\ REG \in Pages /\ SUM \in Pages
  /\ SETTINGS = 1 /\ REG = 2 /\ SUM = 3
  /\ \A p \in Pages : p = SETTINGS \/ p = REG \/ p = SUM
  BY DEF Pages, SETTINGS, REG, SUM

LEMMA CoreNumbers ==
  /\ 0 \in Cores /\ 1 \in Cores
  /\ \A c \in Cores : 1 - c \in Cores /\ 1 - c # c /\ 1 - (1 - c) = c
  /\ \A c \in Cores : \A d \in Cores : d = c \/ d = 1 - c
  BY DEF Cores

(* A changed page keeps the sector a sector. *)
LEMMA PutSector ==
  ASSUME NEW s, Sector(s), NEW t, Sector(t), NEW p \in Pages, NEW v,
         v = t[p] \/ v = Blank \/ v = Junk \/ (p = SUM /\ v \in Checksums)
                  \/ (p = SETTINGS /\ v \in Settings) \/ (p = REG /\ v \in Holder)
  PROVE  Sector([s EXCEPT ![p] = v])
  <1> DEFINE u == [s EXCEPT ![p] = v]
  <1>1. /\ u = [q \in Pages |-> u[q]] /\ u[p] = v
        /\ \A q \in Pages : q # p => u[q] = s[q]
    BY Put
  <1> HIDE DEF u
  <1>2. u[SETTINGS] \in Settings \cup {Blank, Junk}
    BY <1>1, PageNumbers DEF Sector
  <1>3. u[REG] \in Holder \cup {Blank, Junk}
    BY <1>1, PageNumbers DEF Sector
  <1>4. u[SUM] \in Checksums
    BY <1>1, PageNumbers DEF Sector, Checksums
  <1>5. Sector(u)
    BY <1>1, <1>2, <1>3, <1>4 DEF Sector
  <1>6. QED
    BY <1>5 DEF u

(* The defaults and an erased sector. *)
LEMMA Defaults ==
  /\ Sector(Erased) /\ (\A p \in Pages : Erased[p] = Blank)
  /\ Sector(default_config)
  /\ default_config[SETTINGS] = 0 /\ default_config[REG] = None
  /\ ~ config_is_valid(Erased)
  <1>1. Erased = [p \in Pages |-> Erased[p]] /\ \A p \in Pages : Erased[p] = Blank
    BY DEF Erased
  <1>2. Sector(Erased)
    BY <1>1, PageNumbers DEF Sector, Checksums
  <1>3. ~ config_is_valid(Erased)
    BY <1>1, PageNumbers, Constants DEF config_is_valid
  <1> DEFINE u == [Erased EXCEPT ![SETTINGS] = 0]
  <1>4. 0 \in Settings
    BY DEF Settings
  <1>5. Sector(u)
    BY <1>2, <1>4, PageNumbers, PutSector
  <1>6. u = [q \in Pages |-> u[q]] /\ u[SETTINGS] = 0
    BY PageNumbers DEF Erased
  <1>7. default_config = [u EXCEPT ![REG] = None]
    BY DEF default_config
  <1> HIDE DEF u
  <1>8. Sector([u EXCEPT ![REG] = None])
    BY <1>5, PageNumbers, Constants, PutSector
  <1>9. /\ [u EXCEPT ![REG] = None][REG] = None
        /\ \A q \in Pages : q # REG => [u EXCEPT ![REG] = None][q] = u[q]
    BY <1>6, PageNumbers
  <1>10. QED
    BY <1>1, <1>2, <1>3, <1>6, <1>7, <1>8, <1>9, PageNumbers

(* Whatever the sector holds, what is loaded is a configuration. *)
LEMMA LoadedOK ==
  ASSUME NEW s, Sector(s)
  PROVE  /\ Sector(Loaded(s)) /\ Loaded(s)[SETTINGS] \in Settings /\ Loaded(s)[REG] \in Holder
         /\ config_is_valid(s) => Loaded(s) = s
         /\ ~ config_is_valid(s) => Loaded(s) = default_config
  <1>1. 0 \in Settings /\ None \in Holder
    BY Constants DEF Settings
  <1>2. QED
    BY <1>1, Defaults DEF Loaded, config_is_valid

LEMMA ChecksumType ==
  ASSUME NEW s, Sector(s)
  PROVE  config_checksum(s) \in Checksums
  BY DEF Sector, Checksums, config_checksum
-----------------------------------------------------------------------------
(* A change, a save or a wipe of the configuration is invisible to the pass. *)
LEMMA ConfigFrame ==
  ASSUME NEW c \in Cores, Configure(c) \/ save_config(c)
  PROVE  /\ clock' = clock /\ passed' = passed /\ now' = now /\ age' = age
         /\ pass' = pass /\ pair' = pair /\ session' = session /\ asking' = asking
         /\ unsaved' = unsaved /\ window_requested' = window_requested
         /\ granted' = granted /\ wiped' = wiped
  BY DEF Configure, save_config, handle_api_msgs, handle_save_config_msg, wipe_config, LoadCopy,
         load_config, channel_config_wiped, config_seal, SealStamp, SaveCopy, SaveErase,
         write_flash_page, time, channel, requests, history

(* The pass changes the storage only where it saves a registration. *)
LEMMA PassFrame ==
  ASSUME \/ Tick \/ TaskBegin \/ HelloKeyed \/ dh_session_drop \/ NothingToSave \/ TaskEnd
         \/ channel_open_pairing_window
         \/ \E h \in Helpers : answer_pair_request(h) \/ answer_hello(h)
  PROVE  /\ job' = job /\ offset' = offset /\ sum' = sum /\ alone' = alone
         /\ contended' = contended
         /\ config' = config /\ page_buffer' = page_buffer /\ flash' = flash
  BY DEF Tick, TaskBegin, HelloKeyed, dh_session_drop, NothingToSave, TaskEnd,
         channel_open_pairing_window, answer_pair_request, answer_hello, saving, storage

(* Every state the proofs start from. *)
LEMMA InitPair == Init => PairInv
  <1> SUFFICES ASSUME Init PROVE PairInv
    OBVIOUS
  <1>1. dh_pair_init \in PairRec /\ dh_pair_init.registered = None /\ ~ dh_pair_init.window_open
    BY Constants DEF PairRec, dh_pair_init
  <1>2. TypeOK
    <2>1. /\ clock \in Ms /\ now \in Ms /\ age \in 0 .. PAIR_WINDOW_MS /\ granted \in 0 .. 1
          /\ requested \in 0 .. MaxRequests
      BY Constants DEF Init
    <2>2. pair \in PairRec
      BY <1>1 DEF Init
    <2>3. /\ pass \in {"idle", "draining", "answering", "resting"}
          /\ job \in [Cores -> Jobs] /\ offset \in [Cores -> Pages] /\ sum \in [Cores -> Checksums]
          /\ session \in Holder /\ asking \in Holder /\ alone \in [Cores -> BOOLEAN]
      BY Constants, PageNumbers DEF Init, Jobs, Checksums
    <2>4. Sector(config) /\ Sector(page_buffer) /\ Sector(flash)
      BY Defaults DEF Init
    <2>5. QED
      BY <2>1, <2>2, <2>3, <2>4, Zenon DEF Init, TypeOK, PairRec, Ms, Jobs
  <1>3. WindowOK
    BY <1>1 DEF Init, WindowOK
  <1>4. OwnerOK
    BY <1>1 DEF Init, OwnerOK, NoOrphanSession
  <1>5. PlacesOK
    BY DEF Init, PlacesOK
  <1>6. CopiesOK
    <2>1. /\ Loaded(Erased)[REG] = None /\ config[REG] = None /\ config[SETTINGS] \in Settings
          /\ flash = Erased
      BY Defaults, LoadedOK DEF Init, Settings
    <2>2. \A c \in Cores : job[c] = "none" /\ ~ alone[c]
      BY DEF Init
    <2>3. QED
      BY <1>1, <2>1, <2>2, Constants
         DEF Init, CopiesOK, RunningOK, WipeOK, FlashOK, Wiping, Settled
  <1>7. QED
    BY <1>2, <1>3, <1>4, <1>5, <1>6 DEF PairInv

(* What a pass begins with, as one record in each case. *)
LEMMA BeginPair ==
  ASSUME TypeOK, TaskBegin
  PROVE  /\ pair' \in PairRec
         /\ pair'.registered = IF config_wiped THEN None ELSE pair.registered
         /\ ~ (config_wiped \/ window_requested) => pair' = pair
         /\ config_wiped \/ window_requested => pair'.window_opened_ms = clock
  <1> DEFINE cleared == IF config_wiped
                          THEN dh_pair_open_window(dh_pair_clear_registration(pair), clock)
                          ELSE pair
  <1>1. pair \in PairRec /\ clock \in Ms /\ None \in Holder
    BY Constants DEF TypeOK, PairRec, Ms
  <1>2. /\ dh_pair_clear_registration(pair) \in PairRec
        /\ dh_pair_clear_registration(pair).registered = None
    BY <1>1, PairOps
  <1>3. /\ cleared \in PairRec
        /\ cleared.registered = IF config_wiped THEN None ELSE pair.registered
        /\ config_wiped => cleared.window_opened_ms = clock
        /\ ~ config_wiped => cleared = pair
    BY <1>1, <1>2, PairOps
  <1>4. pair' = IF window_requested THEN dh_pair_open_window(cleared, clock) ELSE cleared
    BY DEF TaskBegin
  <1> HIDE DEF cleared
  <1>5. CASE window_requested
    BY <1>1, <1>3, <1>4, <1>5, PairOps
  <1>6. CASE ~ window_requested
    BY <1>3, <1>4, <1>6
  <1>7. QED
    BY <1>5, <1>6

(* The pairing state changes in four actions only, and stays a record. *)
LEMMA PairStep ==
  ASSUME TypeOK, [Next]_vars
  PROVE  pair' \in PairRec
  <1>1. pair \in PairRec /\ clock \in Ms /\ now \in Ms /\ Sector(flash)
    BY DEF TypeOK, PairRec, Ms
  <1>2. CASE TaskBegin
    BY <1>2, BeginPair
  <1>3. ASSUME NEW h \in Helpers, answer_pair_request(h) PROVE pair' \in PairRec
    <2>1. h \in Holder
      BY Constants
    <2>2. QED
      BY <1>1, <1>3, <2>1, PairOps DEF answer_pair_request
  <1>4. CASE TaskEnd
    BY <1>1, <1>4, TickPair DEF TaskEnd
  <1>5. CASE channel_init
    BY <1>1, <1>5, PairOps, LoadedOK DEF channel_init
  <1>6. CASE pair' = pair
    BY <1>1, <1>6
  <1>7. QED
    BY <1>2, <1>3, <1>4, <1>5, <1>6, ConfigFrame
       DEF Next, channel_task, Tick, channel_open_pairing_window, answer_hello, HelloKeyed,
           dh_session_drop, channel_lifecycle_save_registration, NothingToSave, channel, vars

(* The storage and the two cores' places keep their types. *)
LEMMA StorageType ==
  ASSUME TypeOK, [Next]_vars
  PROVE  /\ job' \in [Cores -> Jobs] /\ offset' \in [Cores -> Pages]
         /\ sum' \in [Cores -> Checksums] /\ alone' \in [Cores -> BOOLEAN]
         /\ contended' \in BOOLEAN
         /\ Sector(config') /\ Sector(page_buffer') /\ Sector(flash')
  <1>1. /\ job \in [Cores -> Jobs] /\ offset \in [Cores -> Pages]
        /\ sum \in [Cores -> Checksums] /\ alone \in [Cores -> BOOLEAN] /\ contended \in BOOLEAN
        /\ Sector(config) /\ Sector(page_buffer) /\ Sector(flash) /\ pair.registered \in Holder
    BY DEF TypeOK, Jobs
  <1>2. Blank \in Checksums /\ Sector(Erased) /\ Sector(default_config)
    BY Defaults DEF Checksums
  <1>3. CASE channel_lifecycle_save_registration
    <2>1. Sector(config')
      BY <1>1, <1>3, PutSector, PageNumbers DEF channel_lifecycle_save_registration
    <2>2. QED
      BY <1>1, <1>3, <2>1 DEF channel_lifecycle_save_registration, Jobs
  <1>4. CASE channel_init
    BY <1>1, <1>2, <1>4, LoadedOK, PageNumbers DEF channel_init, Jobs
  <1>5. ASSUME NEW c \in Cores, handle_api_msgs(c) PROVE Sector(config')
    <2>1. PICK v \in Settings : config' = [config EXCEPT ![SETTINGS] = v]
      BY <1>5 DEF handle_api_msgs
    <2>2. QED
      BY <1>1, <2>1, PutSector, PageNumbers
  <1>6. ASSUME NEW c \in Cores, Configure(c)
        PROVE  /\ job' \in [Cores -> Jobs] /\ offset' \in [Cores -> Pages]
               /\ sum' \in [Cores -> Checksums] /\ alone' \in [Cores -> BOOLEAN]
               /\ contended' \in BOOLEAN
               /\ Sector(config') /\ Sector(page_buffer') /\ Sector(flash')
    <2>1. CASE handle_api_msgs(c)
      <3>1. alone' \in [Cores -> BOOLEAN]
        BY <1>1, <2>1 DEF handle_api_msgs
      <3>2. QED
        BY <1>1, <1>5, <2>1, <3>1 DEF handle_api_msgs
    <2>2. CASE handle_save_config_msg(c)
      BY <1>1, <2>2 DEF handle_save_config_msg, Jobs, storage
    <2>3. CASE wipe_config(c)
      BY <1>1, <1>2, <2>3 DEF wipe_config, Jobs
    <2>4. CASE LoadCopy(c)
      BY <1>1, <2>4 DEF LoadCopy, Jobs
    <2>5. CASE load_config(c)
      BY <1>1, <2>5, LoadedOK DEF load_config, Jobs
    <2>6. CASE channel_config_wiped(c)
      BY <1>1, <2>6 DEF channel_config_wiped, Jobs, storage
    <2>7. QED
      BY <1>6, <2>1, <2>2, <2>3, <2>4, <2>5, <2>6 DEF Configure
  <1>7. ASSUME NEW c \in Cores, save_config(c)
        PROVE  /\ job' \in [Cores -> Jobs] /\ offset' \in [Cores -> Pages]
               /\ sum' \in [Cores -> Checksums] /\ alone' \in [Cores -> BOOLEAN]
               /\ contended' \in BOOLEAN
               /\ Sector(config') /\ Sector(page_buffer') /\ Sector(flash')
    <2>0. /\ offset[c] \in Pages /\ sum[c] \in Checksums
          /\ (IF offset[c] = SUM THEN 1 ELSE offset[c] + 1) \in Pages
      BY <1>1 DEF Pages, SUM
    <2>1. CASE config_seal(c)
      BY <1>1, <2>1, ChecksumType DEF config_seal, Jobs, storage
    <2>2. CASE SealStamp(c)
      <3>1. Sector(config')
        BY <1>1, <2>0, <2>2, PutSector, PageNumbers DEF SealStamp
      <3>2. QED
        BY <1>1, <1>2, <2>2, <3>1 DEF SealStamp, Jobs
    <2>3. CASE SaveCopy(c)
      <3>1. Sector(page_buffer')
        BY <1>1, <2>0, <2>3, PutSector DEF SaveCopy
      <3>2. QED
        BY <1>1, <2>0, <2>3, <3>1 DEF SaveCopy, Jobs
    <2>4. CASE SaveErase(c)
      BY <1>1, <1>2, <2>4 DEF SaveErase, Jobs
    <2>5. CASE write_flash_page(c)
      <3>1. Sector(flash')
        BY <1>1, <2>0, <2>5, PutSector DEF write_flash_page, flash_range_program
      <3>2. job' \in [Cores -> Jobs] /\ alone' \in [Cores -> BOOLEAN] /\ contended' \in BOOLEAN
        BY <1>1, <2>5 DEF write_flash_page, Jobs
      <3>3. QED
        BY <1>1, <2>0, <2>5, <3>1, <3>2 DEF write_flash_page
    <2>6. QED
      BY <1>7, <2>1, <2>2, <2>3, <2>4, <2>5 DEF save_config
  <1>8. CASE /\ job' = job /\ offset' = offset /\ sum' = sum /\ alone' = alone
             /\ contended' = contended
             /\ config' = config /\ page_buffer' = page_buffer /\ flash' = flash
    BY <1>1, <1>8
  <1>9. CASE vars' = vars
    BY <1>8, <1>9 DEF vars
  <1>10. QED
    BY <1>3, <1>4, <1>6, <1>7, <1>8, <1>9, PassFrame DEF Next, channel_task

(* Each clock, place and flag of the pass keeps its type. *)
LEMMA TypeStep ==
  ASSUME PairInv, [Next]_vars
  PROVE  TypeOK'
  <1>1. TypeOK /\ WindowOK
    BY DEF PairInv
  <1>2. pair' \in PairRec
    BY <1>1, PairStep
  <1>4. clock' \in Ms /\ now' \in Ms
    <2>1. clock \in Ms /\ now \in Ms /\ 0 \in Ms /\ (clock + 1) % CLOCK \in Ms
      BY <1>1, Constants, ElapsedTick DEF TypeOK, Ms
    <2>2. QED
      BY <2>1, ConfigFrame
         DEF Next, channel_task, Tick, channel_open_pairing_window, TaskBegin,
             answer_pair_request, answer_hello, HelloKeyed, dh_session_drop,
             channel_lifecycle_save_registration, NothingToSave, TaskEnd, channel_init, time, vars
  <1>5. age' \in 0 .. PAIR_WINDOW_MS
    <2>1. age \in 0 .. PAIR_WINDOW_MS /\ PAIR_WINDOW_MS \in Nat
      BY <1>1, Constants DEF TypeOK
    <2>2. \/ age' = age \/ age' = 0 \/ age' = PAIR_WINDOW_MS
          \/ age' = IF age < PAIR_WINDOW_MS THEN age + 1 ELSE age
      BY ConfigFrame, Zenon
         DEF Next, channel_task, Tick, channel_open_pairing_window, TaskBegin,
             answer_pair_request, answer_hello, HelloKeyed, dh_session_drop,
             channel_lifecycle_save_registration, NothingToSave, TaskEnd, channel_init, time, vars
    <2>3. QED
      BY <2>1, <2>2
  <1>6. granted' \in 0 .. 1
    <2>1. granted \in 0 .. 1 /\ (granted = 1 => ~ pair.window_open)
      BY <1>1 DEF TypeOK, WindowOK
    <2>2. \/ granted' = granted \/ granted' = 0
          \/ pair.window_open /\ granted' = granted + 1
      BY ConfigFrame, Zenon
         DEF Next, channel_task, Tick, channel_open_pairing_window, TaskBegin,
             answer_pair_request, dh_pair_window_open, answer_hello, HelloKeyed, dh_session_drop,
             channel_lifecycle_save_registration, NothingToSave, TaskEnd, channel_init, history,
             vars
    <2>3. QED
      BY <2>1, <2>2
  <1>7. pass' \in {"idle", "draining", "answering", "resting"}
    BY <1>1, ConfigFrame
       DEF Next, channel_task, Tick, channel_open_pairing_window, TaskBegin,
           answer_pair_request, answer_hello, HelloKeyed, dh_session_drop,
           channel_lifecycle_save_registration, NothingToSave, TaskEnd, channel_init, channel,
           TypeOK, vars
  <1>8. session' \in Holder /\ asking' \in Holder
    BY <1>1, Constants, ConfigFrame
       DEF Next, channel_task, Tick, channel_open_pairing_window, TaskBegin,
           answer_pair_request, answer_hello, HelloKeyed, dh_session_drop,
           channel_lifecycle_save_registration, NothingToSave, TaskEnd, channel_init, channel,
           TypeOK, vars
  <1>9. /\ passed' \in BOOLEAN /\ unsaved' \in BOOLEAN
        /\ window_requested' \in BOOLEAN /\ wiped' \in BOOLEAN
    BY <1>1, ConfigFrame
       DEF Next, channel_task, Tick, channel_open_pairing_window, TaskBegin,
           answer_pair_request, answer_hello, HelloKeyed, dh_session_drop,
           channel_lifecycle_save_registration, NothingToSave, TaskEnd, channel_init, channel,
           time, requests, history, TypeOK, vars
  <1>10. config_wiped' \in BOOLEAN /\ overlap' \in BOOLEAN
    BY <1>1
       DEF Next, channel_task, Configure, save_config, handle_api_msgs, handle_save_config_msg,
           wipe_config, LoadCopy, load_config, channel_config_wiped, config_seal, SealStamp,
           SaveCopy, SaveErase, write_flash_page, Tick, channel_open_pairing_window, TaskBegin,
           answer_pair_request, answer_hello, HelloKeyed, dh_session_drop,
           channel_lifecycle_save_registration, NothingToSave, TaskEnd, channel_init, requests,
           history, TypeOK, vars, Wiping, Saving
  <1>11. requested' \in 0 .. MaxRequests
    <2>1. requested \in 0 .. MaxRequests /\ MaxRequests \in Nat
      BY <1>1, Constants DEF TypeOK
    <2>2. requested' = requested \/ (requested < MaxRequests /\ requested' = requested + 1)
      BY Zenon
         DEF Next, channel_task, Configure, save_config, handle_api_msgs, handle_save_config_msg,
             wipe_config, LoadCopy, load_config, channel_config_wiped, config_seal, SealStamp,
             SaveCopy, SaveErase, write_flash_page, Tick, channel_open_pairing_window, TaskBegin,
             answer_pair_request, answer_hello, HelloKeyed, dh_session_drop,
             channel_lifecycle_save_registration, NothingToSave, TaskEnd, channel_init, requests,
             Request, vars
    <2>3. QED
      BY <2>1, <2>2
  <1>12. QED
    BY <1>1, <1>2, <1>4, <1>5, <1>6, <1>7, <1>8, <1>9, <1>10, <1>11, StorageType
       DEF TypeOK, PairRec, Ms, Jobs

(* No session without a registration, and none half made without one. *)
LEMMA OwnerStep ==
  ASSUME PairInv, [Next]_vars
  PROVE  OwnerOK'
  <1>1. TypeOK /\ OwnerOK /\ None \in Holder
    BY Constants DEF PairInv
  <1>2. pair \in PairRec /\ clock \in Ms /\ now \in Ms
    BY <1>1 DEF TypeOK, PairRec, Ms
  <1>3. CASE TaskBegin
    <2>1. pair'.registered = IF config_wiped THEN None ELSE pair.registered
      BY <1>1, <1>3, BeginPair
    <2>2. QED
      BY <1>1, <1>3, <2>1 DEF TaskBegin, OwnerOK, NoOrphanSession
  <1>4. ASSUME NEW h \in Helpers, answer_pair_request(h) PROVE OwnerOK'
    <2>1. h \in Holder /\ h # None
      BY Constants
    <2>2. dh_pair_register(pair, h).registered = h
      BY <1>2, <2>1, PairOps
    <2>3. pair' = dh_pair_register(pair, h) /\ session' = session /\ pass' = pass /\ pass = "draining"
      BY <1>4 DEF answer_pair_request
    <2>4. QED
      BY <2>1, <2>2, <2>3 DEF OwnerOK, NoOrphanSession
  <1>5. ASSUME NEW h \in Helpers, answer_hello(h) PROVE OwnerOK'
    <2>1. h # None
      BY Constants
    <2>2. QED
      BY <1>1, <1>5, <2>1 DEF answer_hello, OwnerOK, NoOrphanSession
  <1>6. CASE HelloKeyed
    BY <1>1, <1>6 DEF HelloKeyed, OwnerOK, NoOrphanSession
  <1>7. CASE dh_session_drop
    BY <1>1, <1>7 DEF dh_session_drop, OwnerOK, NoOrphanSession
  <1>8. CASE TaskEnd
    <2>1. pair'.registered = pair.registered
      BY <1>2, <1>8, TickPair DEF TaskEnd
    <2>2. QED
      BY <1>1, <1>8, <2>1 DEF TaskEnd, OwnerOK, NoOrphanSession
  <1>9. CASE channel_init
    BY <1>9 DEF channel_init, OwnerOK, NoOrphanSession
  <1>10. CASE pair' = pair /\ session' = session /\ asking' = asking
              /\ (pass' = "answering" => pass = "answering")
    BY <1>1, <1>10 DEF OwnerOK, NoOrphanSession
  <1>11. QED
    BY <1>3, <1>4, <1>5, <1>6, <1>7, <1>8, <1>9, <1>10, ConfigFrame
       DEF Next, channel_task, Tick, channel_open_pairing_window,
           channel_lifecycle_save_registration, NothingToSave, channel, vars

(* The window's age on the wrapping clock is its real age while it is open. *)
LEMMA WindowStep ==
  ASSUME PairInv, [Next]_vars
  PROVE  WindowOK'
  <1>1. TypeOK /\ WindowOK
    BY DEF PairInv
  <1>2. /\ pair \in PairRec /\ clock \in Ms /\ now \in Ms /\ Sector(flash)
        /\ pair.window_opened_ms \in Ms
    BY <1>1 DEF TypeOK, PairRec, Ms
  <1>3. age \in 0 .. PAIR_WINDOW_MS /\ PAIR_WINDOW_MS \in Nat \ {0}
    BY <1>1, Constants DEF TypeOK
  <1>4. CASE Tick
    <2>1. /\ pass = "idle" /\ passed /\ pass' = "idle" /\ ~ passed'
          /\ pair' = pair /\ granted' = granted /\ clock' = (clock + 1) % CLOCK
          /\ age < PAIR_WINDOW_MS => age' = age + 1
      BY <1>4 DEF Tick, Free, channel, history
    <2>2. CASE pair.window_open
      <3>1. Elapsed(clock, pair.window_opened_ms) = age /\ age < PAIR_WINDOW_MS
        BY <1>1, <1>3, <2>1, <2>2 DEF WindowOK
      <3>2. Elapsed(clock', pair.window_opened_ms) = age'
        BY <1>2, <2>1, <3>1, ElapsedTick
      <3>3. QED
        BY <1>1, <2>1, <2>2, <3>2 DEF WindowOK
    <2>3. CASE ~ pair.window_open
      BY <2>1, <2>3 DEF WindowOK
    <2>4. QED
      BY <2>2, <2>3
  <1>5. CASE TaskBegin
    <2>1. pass' # "idle" /\ now' = clock /\ clock' = clock /\ passed'
      BY <1>5 DEF TaskBegin
    <2>2. CASE config_wiped \/ window_requested
      <3>1. age' = 0 /\ granted' = 0
        BY <1>5, <2>2 DEF TaskBegin
      <3>2. pair'.window_opened_ms = clock
        BY <1>1, <1>5, <2>2, BeginPair
      <3>3. Elapsed(clock', pair'.window_opened_ms) = age'
        BY <1>2, <2>1, <3>1, <3>2, ElapsedTick
      <3>4. QED
        BY <2>1, <3>1, <3>3 DEF WindowOK
    <2>3. CASE ~ (config_wiped \/ window_requested)
      <3>1. pair' = pair
        BY <1>1, <1>5, <2>3, BeginPair
      <3>2. age' = age /\ granted' = granted
        BY <1>5, <2>3 DEF TaskBegin
      <3>3. QED
        BY <1>1, <2>1, <3>1, <3>2 DEF WindowOK
    <2>4. QED
      BY <2>2, <2>3
  <1>6. ASSUME NEW h \in Helpers, answer_pair_request(h) PROVE WindowOK'
    <2>1. h \in Holder
      BY Constants
    <2>2. ~ pair'.window_open
      BY <1>2, <1>6, <2>1, PairOps DEF answer_pair_request
    <2>3. QED
      BY <1>1, <1>6, <2>2 DEF answer_pair_request, WindowOK, time
  <1>7. CASE TaskEnd
    <2>1. /\ pass' = "idle" /\ passed' = passed /\ clock' = clock /\ age' = age
          /\ granted' = granted /\ pair' = dh_pair_tick(pair, now)
          /\ now = clock
      BY <1>1, <1>7 DEF TaskEnd, WindowOK, time, history
    <2>2. /\ pair'.window_opened_ms = pair.window_opened_ms
          /\ pair'.window_open =>
               pair.window_open /\ Elapsed(clock, pair.window_opened_ms) < PAIR_WINDOW_MS
      BY <1>2, <2>1, TickPair
    <2>3. QED
      BY <1>1, <1>3, <2>1, <2>2 DEF WindowOK
  <1>8. CASE channel_init
    <2>1. ~ pair'.window_open
      BY <1>2, <1>8, PairOps, LoadedOK DEF channel_init
    <2>2. QED
      BY <1>8, <2>1 DEF channel_init, WindowOK
  <1>9. CASE /\ clock' = clock /\ now' = now /\ passed' = passed /\ age' = age
             /\ pair' = pair /\ granted' = granted /\ (pass' = "idle" <=> pass = "idle")
    BY <1>1, <1>9 DEF WindowOK
  <1>10. QED
    BY <1>4, <1>5, <1>6, <1>7, <1>8, <1>9, ConfigFrame
       DEF Next, channel_task, channel_open_pairing_window, answer_hello, HelloKeyed,
           dh_session_drop, channel_lifecycle_save_registration, NothingToSave, channel, time,
           history, vars

(* Where the cores are: a save or a wipe starts on a free core. *)
LEMMA PlacesStep ==
  ASSUME PairInv, [Next]_vars
  PROVE  PlacesOK'
  <1>1. TypeOK /\ PlacesOK
    BY DEF PairInv
  <1>2. /\ job \in [Cores -> Jobs] /\ offset \in [Cores -> Pages] /\ alone \in [Cores -> BOOLEAN]
    BY <1>1 DEF TypeOK, Jobs
  <1>3. CASE channel_lifecycle_save_registration
    BY <1>1, <1>2, <1>3, CoreNumbers
       DEF channel_lifecycle_save_registration, PlacesOK, Saving, Cores
  <1>4. CASE channel_init
    BY <1>4, CoreNumbers DEF channel_init, PlacesOK, Saving
  <1>5. ASSUME NEW c \in Cores, Configure(c) PROVE PlacesOK'
    <2>1. pass' = pass /\ (job[c] # "none" \/ Free(c)) /\ offset' = offset
      BY <1>5, ConfigFrame
         DEF Configure, handle_api_msgs, handle_save_config_msg, wipe_config, LoadCopy,
             load_config, channel_config_wiped, Request
    <2>2. \A d \in Cores : job'[d] # job[d] => d = c
      BY <1>2, <1>5
         DEF Configure, handle_api_msgs, handle_save_config_msg, wipe_config, LoadCopy,
             load_config, channel_config_wiped
    <2>3. pass' \in {"draining", "answering"} => job'[0] = "none"
      BY <1>1, <2>1, <2>2, CoreNumbers DEF PlacesOK, Free
    <2>4. \A d \in Cores : job'[d] \notin {"copy", "program"} => offset'[d] = 1
      <3>1. job[c] \notin {"copy", "program"}
        BY <1>5
           DEF Configure, handle_api_msgs, handle_save_config_msg, wipe_config, LoadCopy,
               load_config, channel_config_wiped, Request, Free
      <3>2. QED
        BY <1>1, <2>1, <2>2, <3>1 DEF PlacesOK
    <2>5. \A d \in Cores : alone'[d] => Saving(d)' /\ job'[1 - d] = "none"
      <3>1. CASE handle_api_msgs(c)
        BY <1>1, <1>2, <3>1, CoreNumbers DEF handle_api_msgs, PlacesOK, Saving
      <3>2. CASE handle_save_config_msg(c)
        BY <1>1, <1>2, <3>2, CoreNumbers DEF handle_save_config_msg, PlacesOK, Saving
      <3>3. CASE wipe_config(c)
        BY <1>1, <1>2, <3>3, CoreNumbers
           DEF wipe_config, PlacesOK, Saving, Request, Free
      <3>4. CASE LoadCopy(c) \/ load_config(c) \/ channel_config_wiped(c)
        <4>1. alone' = alone /\ job[c] \in {"wiped", "loading", "reloaded"}
          BY <3>4 DEF LoadCopy, load_config, channel_config_wiped
        <4>2. \A d \in Cores : ~ alone[d]
          BY <1>1, <4>1, CoreNumbers DEF PlacesOK, Saving
        <4>3. QED
          BY <4>1, <4>2
      <3>5. QED
        BY <1>5, <3>1, <3>2, <3>3, <3>4 DEF Configure
    <2>6. QED
      BY <2>3, <2>4, <2>5 DEF PlacesOK
  <1>6. ASSUME NEW c \in Cores, save_config(c) PROVE PlacesOK'
    <2>1. /\ pass' = pass /\ Saving(c) /\ job[c] # "none"
          /\ \A d \in Cores : d # c => job'[d] = job[d] /\ offset'[d] = offset[d]
          /\ \A d \in Cores : alone'[d] => alone[d]
      BY <1>2, <1>6, ConfigFrame
         DEF save_config, config_seal, SealStamp, SaveCopy, SaveErase, write_flash_page, Saving
    <2>2. alone'[c] => Saving(c)'
      BY <1>2, <1>6, CoreNumbers
         DEF save_config, config_seal, SealStamp, SaveCopy, SaveErase, write_flash_page, Saving
    <2>3. job'[c] \notin {"copy", "program"} => offset'[c] = 1
      <3>1. CASE config_seal(c) \/ SealStamp(c) \/ SaveErase(c)
        BY <1>1, <1>2, <3>1 DEF PlacesOK, config_seal, SealStamp, SaveErase
      <3>2. CASE SaveCopy(c)
        BY <1>1, <1>2, <3>2 DEF PlacesOK, SaveCopy
      <3>3. CASE write_flash_page(c)
        BY <1>1, <1>2, <3>3 DEF PlacesOK, write_flash_page
      <3>4. QED
        BY <1>6, <3>1, <3>2, <3>3 DEF save_config
    <2>4. pass' \in {"draining", "answering"} => job'[0] = "none"
      BY <1>1, <2>1, CoreNumbers DEF PlacesOK
    <2>5. \A d \in Cores : alone'[d] => Saving(d)' /\ job'[1 - d] = "none"
      <3>1. \A d \in Cores : alone'[d] => d = c
        BY <1>1, <2>1, CoreNumbers DEF PlacesOK
      <3>2. QED
        BY <1>1, <2>1, <2>2, <3>1, CoreNumbers DEF PlacesOK
    <2>6. \A d \in Cores : job'[d] \notin {"copy", "program"} => offset'[d] = 1
      BY <1>1, <2>1, <2>3 DEF PlacesOK
    <2>7. QED
      BY <2>4, <2>5, <2>6 DEF PlacesOK
  <1>7. CASE /\ job' = job /\ offset' = offset /\ alone' = alone
             /\ (pass' \in {"draining", "answering"} =>
                   pass \in {"draining", "answering"} \/ Free(0))
    BY <1>1, <1>7 DEF PlacesOK, Saving, Free
  <1>8. CASE vars' = vars
    BY <1>7, <1>8 DEF vars
  <1>9. CASE \/ Tick \/ TaskBegin \/ HelloKeyed \/ dh_session_drop \/ NothingToSave \/ TaskEnd
             \/ channel_open_pairing_window
             \/ \E h \in Helpers : answer_pair_request(h) \/ answer_hello(h)
    <2>1. job' = job /\ offset' = offset /\ alone' = alone
      BY <1>9, PassFrame
    <2>2. pass' \in {"draining", "answering"} => pass \in {"draining", "answering"} \/ Free(0)
      BY <1>9
         DEF Tick, TaskBegin, HelloKeyed, dh_session_drop, NothingToSave, TaskEnd,
             channel_open_pairing_window, answer_pair_request, answer_hello, channel
    <2>3. QED
      BY <1>7, <2>1, <2>2
  <1>10. QED
    BY <1>3, <1>4, <1>5, <1>6, <1>8, <1>9 DEF Next, channel_task

(* A wipe and a save exclude each other while nothing overlapped. *)
LEMMA WipeStep ==
  ASSUME PairInv, [Next]_vars, ~ overlap'
  PROVE  WipeOK'
  <1>1. TypeOK /\ PlacesOK /\ CopiesOK
    BY DEF PairInv
  <1>2. job \in [Cores -> Jobs]
    BY <1>1 DEF TypeOK, Jobs
  <1>3. CASE channel_init
    BY <1>3 DEF channel_init, WipeOK, Wiping
  <1>4. overlap => channel_init
    BY <1>1, ConfigFrame
       DEF Next, channel_task, Configure, save_config, handle_api_msgs, handle_save_config_msg,
           wipe_config, LoadCopy, load_config, channel_config_wiped, config_seal, SealStamp,
           SaveCopy, SaveErase, write_flash_page, Tick, channel_open_pairing_window, TaskBegin,
           answer_pair_request, answer_hello, HelloKeyed, dh_session_drop,
           channel_lifecycle_save_registration, NothingToSave, TaskEnd, history, vars
  <1>5. CASE ~ overlap
    <2>1. WipeOK
      BY <1>1, <1>5 DEF CopiesOK
    <2>2. CASE TaskBegin
      BY <2>1, <2>2, PassFrame DEF TaskBegin, WipeOK, Wiping, Saving
    <2>3. ASSUME NEW h \in Helpers, answer_pair_request(h) PROVE WipeOK'
      <3>1. ~ Wiping(1) /\ ~ config_wiped /\ job[0] = "none"
        BY <1>1, <2>3 DEF answer_pair_request, PlacesOK
      <3>2. job' = job /\ config_wiped' = config_wiped
        BY <2>3, PassFrame DEF answer_pair_request, requests
      <3>3. QED
        BY <3>1, <3>2, CoreNumbers DEF WipeOK, Wiping, Cores
    <2>4. CASE channel_lifecycle_save_registration
      <3>1. /\ unsaved /\ ~ unsaved' /\ config_wiped' = config_wiped
            /\ job' = [job EXCEPT ![0] = "seal"]
        BY <2>4 DEF channel_lifecycle_save_registration, requests
      <3>2. QED
        BY <1>2, <2>1, <3>1, CoreNumbers DEF WipeOK, Wiping
    <2>5. ASSUME NEW c \in Cores, Configure(c) PROVE WipeOK'
      <3>1. unsaved' = unsaved
        BY <2>5, ConfigFrame
      <3>2. CASE handle_api_msgs(c)
        BY <2>1, <3>1, <3>2 DEF handle_api_msgs, WipeOK, Wiping, Saving
      <3>3. CASE handle_save_config_msg(c)
        BY <1>2, <2>1, <3>1, <3>3, CoreNumbers
           DEF handle_save_config_msg, WipeOK, Wiping, Saving, storage
      <3>4. CASE wipe_config(c)
        <4>1. ~ unsaved /\ ~ Saving(1 - c) /\ flash' = Erased
          BY <3>4 DEF wipe_config
        <4>2. job' = [job EXCEPT ![c] = "wiped"]
          BY <3>4 DEF wipe_config
        <4>3. \A d \in Cores : ~ Saving(d)'
          BY <1>2, <4>1, <4>2, CoreNumbers DEF Saving
        <4>4. QED
          BY <3>1, <4>1, <4>3, CoreNumbers DEF WipeOK
      <3>5. CASE LoadCopy(c) \/ load_config(c)
        BY <1>2, <2>1, <3>1, <3>5, CoreNumbers
           DEF LoadCopy, load_config, WipeOK, Wiping, Saving, requests
      <3>6. CASE channel_config_wiped(c)
        BY <1>2, <2>1, <3>1, <3>6, CoreNumbers
           DEF channel_config_wiped, WipeOK, Wiping, Saving, storage
      <3>7. QED
        BY <2>5, <3>2, <3>3, <3>4, <3>5, <3>6 DEF Configure
    <2>6. ASSUME NEW c \in Cores, save_config(c) PROVE WipeOK'
      <3>1. unsaved' = unsaved /\ config_wiped' = config_wiped
        BY <2>6, ConfigFrame
           DEF save_config, config_seal, SealStamp, SaveCopy, SaveErase, write_flash_page, requests
      <3>2. Saving(c) /\ ~ Wiping(c) /\ (\A d \in Cores : d # c => job'[d] = job[d]) /\ ~ Wiping(c)'
        BY <1>2, <2>6
           DEF save_config, config_seal, SealStamp, SaveCopy, SaveErase, write_flash_page, Saving,
               Wiping
      <3>3. \A d \in Cores : ~ Wiping(d)
        BY <2>1, <3>2, CoreNumbers DEF WipeOK
      <3>4. \A d \in Cores : ~ Wiping(d)'
        BY <3>2, <3>3 DEF Wiping
      <3>5. QED
        BY <2>1, <3>1, <3>4 DEF WipeOK
    <2>7. CASE UNCHANGED <<job, flash, unsaved, config_wiped>>
      BY <2>1, <2>7 DEF WipeOK, Wiping, Saving
    <2>8. QED
      BY <1>3, <2>2, <2>3, <2>4, <2>5, <2>6, <2>7
         DEF Next, channel_task, Tick, channel_open_pairing_window, answer_hello, HelloKeyed,
             dh_session_drop, NothingToSave, TaskEnd, saving, channel, requests, storage, vars
  <1>6. QED
    BY <1>3, <1>4, <1>5

(* The running config, one step of either core at a time. *)
LEMMA RunningStep ==
  ASSUME PairInv, [Next]_vars, ~ overlap, WipeOK', ~ channel_init
  PROVE  RunningOK'
  <1>1. TypeOK /\ PlacesOK /\ RunningOK /\ WipeOK
    BY DEF PairInv, CopiesOK
  <1>2. /\ job \in [Cores -> Jobs] /\ pair \in PairRec /\ clock \in Ms /\ now \in Ms
        /\ Sector(config) /\ Sector(flash)
    BY <1>1 DEF TypeOK, Jobs, PairRec, Ms
  <1>3. CASE TaskBegin
    <2>1. pair'.registered = IF config_wiped THEN None ELSE pair.registered
      BY <1>1, <1>3, BeginPair
    <2>2. job' = job /\ config' = config
      BY <1>3, PassFrame
    <2>3. ~ config_wiped' /\ (config_wiped => ~ unsaved) /\ (~ config_wiped => unsaved' = unsaved)
      BY <1>1, <1>3 DEF TaskBegin, WipeOK
    <2>4. (\A c \in Cores : ~ Wiping(c)) => Settled
      BY DEF Wiping, Settled
    <2>5. QED
      BY <1>1, <2>1, <2>2, <2>3, <2>4 DEF RunningOK, Wiping, Settled
  <1>4. ASSUME NEW h \in Helpers, answer_pair_request(h) PROVE RunningOK'
    <2>1. unsaved' /\ job' = job /\ config' = config /\ config_wiped' = config_wiped
      BY <1>4, PassFrame DEF answer_pair_request, requests
    <2>2. QED
      BY <1>1, <2>1 DEF RunningOK, Wiping, Settled
  <1>5. CASE TaskEnd
    <2>1. pair'.registered = pair.registered
      BY <1>2, <1>5, TickPair DEF TaskEnd
    <2>2. QED
      BY <1>1, <1>5, <2>1, PassFrame DEF TaskEnd, RunningOK, Wiping, Settled, requests
  <1>6. CASE channel_lifecycle_save_registration
    <2>1. /\ config' = [config EXCEPT ![REG] = pair.registered] /\ pair' = pair
          /\ job' = [job EXCEPT ![0] = "seal"] /\ config_wiped' = config_wiped /\ unsaved
      BY <1>6 DEF channel_lifecycle_save_registration, requests
    <2>2. config'[REG] = pair.registered /\ config'[SETTINGS] = config[SETTINGS]
      BY <1>2, <2>1, PageNumbers DEF Sector
    <2>3. ~ config_wiped /\ \A c \in Cores : ~ Wiping(c)
      BY <1>1, <2>1 DEF WipeOK
    <2>4. \A c \in Cores : ~ Wiping(c)'
      BY <1>2, <2>1, <2>3 DEF Wiping
    <2>5. Settled /\ Settled' /\ (\A c \in Cores : job'[c] # "reloaded")
      BY <2>3, <2>4 DEF Wiping, Settled
    <2>6. pair.registered \in Holder
      BY <1>2, PairFields
    <2>7. QED
      BY <1>1, <2>1, <2>2, <2>3, <2>5, <2>6 DEF RunningOK
  <1>7. ASSUME NEW c \in Cores, Configure(c) PROVE RunningOK'
    <2>1. pair' = pair /\ unsaved' = unsaved
      BY <1>7, ConfigFrame
    <2>2. CASE handle_api_msgs(c)
      <3>1. PICK v \in Settings : config' = [config EXCEPT ![SETTINGS] = v]
        BY <2>2 DEF handle_api_msgs
      <3>2. config'[REG] = config[REG] /\ config'[SETTINGS] \in Settings
        BY <1>2, <3>1, PageNumbers DEF Sector
      <3>3. job' = job /\ config_wiped' = config_wiped
        BY <2>2 DEF handle_api_msgs
      <3>4. QED
        BY <1>1, <2>1, <3>2, <3>3 DEF RunningOK, Wiping, Settled
    <2>3. CASE handle_save_config_msg(c)
      <3>1. /\ job' = [job EXCEPT ![c] = "seal"] /\ job[c] = "none" /\ config' = config
            /\ config_wiped' = config_wiped
        BY <2>3 DEF handle_save_config_msg, Request, Free, storage
      <3>2. QED
        BY <1>1, <1>2, <2>1, <3>1 DEF RunningOK, Wiping, Settled
    <2>4. CASE wipe_config(c)
      <3>1. /\ job' = [job EXCEPT ![c] = "wiped"] /\ job[c] = "none" /\ config' = config
            /\ config_wiped' = config_wiped
        BY <2>4 DEF wipe_config, Request, Free
      <3>2. QED
        BY <1>1, <1>2, <2>1, <3>1 DEF RunningOK, Wiping, Settled
    <2>5. CASE LoadCopy(c)
      <3>1. /\ job' = [job EXCEPT ![c] = "loading"] /\ config' = flash /\ Wiping(c)
        BY <2>5 DEF LoadCopy, Wiping
      <3>2. config'[REG] = Blank
        BY <1>1, <3>1, Defaults, PageNumbers DEF WipeOK
      <3>3. job'[c] = "loading"
        BY <1>2, <3>1
      <3>4. QED
        BY <3>2, <3>3 DEF RunningOK, Wiping, Settled
    <2>6. CASE load_config(c)
      <3>1. /\ job' = [job EXCEPT ![c] = "reloaded"] /\ config' = Loaded(config)
            /\ job[c] = "loading"
        BY <2>6 DEF load_config
      <3>2. config[REG] \in {Blank, None}
        BY <1>1, <3>1 DEF RunningOK, Settled
      <3>3. config'[REG] = None /\ config'[SETTINGS] \in Settings
        <4>1. CASE config_is_valid(config)
          BY <1>2, <3>1, <3>2, <4>1, LoadedOK, Constants DEF config_is_valid
        <4>2. CASE ~ config_is_valid(config)
          BY <1>2, <3>1, <4>2, LoadedOK, Defaults DEF Settings
        <4>3. QED
          BY <4>1, <4>2
      <3>4. job'[c] = "reloaded"
        BY <1>2, <3>1
      <3>5. QED
        BY <3>3, <3>4, Constants DEF RunningOK, Wiping, Settled
    <2>7. CASE channel_config_wiped(c)
      <3>1. /\ job' = [job EXCEPT ![c] = "none"] /\ config' = config /\ config_wiped'
            /\ job[c] = "reloaded"
        BY <2>7 DEF channel_config_wiped, storage
      <3>2. Settled' <=> Settled
        BY <1>2, <3>1 DEF Settled
      <3>3. QED
        BY <1>1, <3>1, <3>2 DEF RunningOK
    <2>8. QED
      BY <1>7, <2>2, <2>3, <2>4, <2>5, <2>6, <2>7 DEF Configure
  <1>8. ASSUME NEW c \in Cores, save_config(c) PROVE RunningOK'
    <2>1. pair' = pair /\ unsaved' = unsaved
      BY <1>8, ConfigFrame
    <2>2. /\ Saving(c) /\ (Saving(c)' \/ job'[c] = "none") /\ config_wiped' = config_wiped
          /\ \A d \in Cores : d # c => job'[d] = job[d]
      BY <1>2, <1>8
         DEF save_config, config_seal, SealStamp, SaveCopy, SaveErase, write_flash_page, Saving,
             requests
    <2>3. \A d \in Cores : ~ Wiping(d)
      BY <1>1, <2>2, CoreNumbers DEF WipeOK, Wiping, Saving
    <2>4. \A d \in Cores : ~ Wiping(d)'
      BY <2>2, <2>3 DEF Wiping, Saving
    <2>5. config'[REG] = config[REG] /\ config'[SETTINGS] = config[SETTINGS]
      BY <1>2, <1>8, PageNumbers
         DEF save_config, config_seal, SealStamp, SaveCopy, SaveErase, write_flash_page, Sector,
             storage
    <2>6. Settled /\ Settled' /\ \A d \in Cores : job[d] # "reloaded" /\ job'[d] # "reloaded"
      BY <2>3, <2>4 DEF Settled, Wiping
    <2>7. QED
      BY <1>1, <2>1, <2>2, <2>3, <2>5, <2>6 DEF RunningOK
  <1>9. CASE UNCHANGED <<job, config, pair, unsaved, config_wiped>>
    BY <1>1, <1>9 DEF RunningOK, Wiping, Settled
  <1>10. QED
    BY <1>3, <1>4, <1>5, <1>6, <1>7, <1>8, <1>9
       DEF Next, channel_task, Tick, channel_open_pairing_window, answer_hello, HelloKeyed,
           dh_session_drop, NothingToSave, saving, channel, requests, storage, vars

(* What a save has done stays done while it is alone. *)
LEMMA SaveStep ==
  ASSUME PairInv, [Next]_vars, ~ overlap, ~ channel_init, NEW c \in Cores, alone'[c]
  PROVE  SaveOK(c)'
  <1>1. TypeOK /\ PlacesOK /\ RunningOK /\ (\A d \in Cores : alone[d] => SaveOK(d))
    BY DEF PairInv, CopiesOK
  <1>2. /\ job \in [Cores -> Jobs] /\ offset \in [Cores -> Pages] /\ alone \in [Cores -> BOOLEAN]
        /\ Sector(config) /\ Sector(page_buffer) /\ Sector(flash)
        /\ sum \in [Cores -> Checksums]
    BY <1>1 DEF TypeOK, Jobs
  <1>3. CASE channel_lifecycle_save_registration
    BY <1>2, <1>3 DEF channel_lifecycle_save_registration, SaveOK
  <1>4. ASSUME NEW d \in Cores, handle_save_config_msg(d) PROVE SaveOK(c)'
    BY <1>2, <1>4 DEF handle_save_config_msg, SaveOK
  <1>5. ASSUME NEW d \in Cores, handle_api_msgs(d) PROVE SaveOK(c)'
    <2>1. /\ job' = job /\ offset' = offset /\ sum' = sum /\ page_buffer' = page_buffer
          /\ flash' = flash /\ Free(d)
          /\ alone' = [alone EXCEPT ![1 - d] = @ /\ job[1 - d] \notin {"stamp", "copy"}]
      BY <1>5 DEF handle_api_msgs, Request
    <2>2. alone[c]
      BY <1>2, <2>1, CoreNumbers
    <2>3. c = 1 - d
      BY <1>1, <2>1, <2>2, CoreNumbers DEF PlacesOK, Saving, Free
    <2>4. job[c] \notin {"stamp", "copy"}
      BY <1>2, <2>1, <2>3, CoreNumbers
    <2>5. PICK v \in Settings : config' = [config EXCEPT ![SETTINGS] = v]
      BY <1>5 DEF handle_api_msgs
    <2>6. config'[REG] = config[REG]
      BY <1>2, <2>5, PageNumbers DEF Sector
    <2>7. SaveOK(c)
      BY <1>1, <2>2
    <2>8. QED
      BY <2>1, <2>4, <2>6, <2>7 DEF SaveOK, config_is_valid, config_checksum
  <1>6. ASSUME NEW d \in Cores,
               wipe_config(d) \/ LoadCopy(d) \/ load_config(d) \/ channel_config_wiped(d)
        PROVE  FALSE
    <2>1. ~ alone'[1 - d] /\ ~ alone'[d]
      <3>1. CASE wipe_config(d)
        BY <1>1, <1>2, <3>1, CoreNumbers
           DEF wipe_config, Request, Free, PlacesOK, Saving
      <3>2. CASE LoadCopy(d) \/ load_config(d) \/ channel_config_wiped(d)
        BY <1>1, <1>2, <3>2, CoreNumbers
           DEF LoadCopy, load_config, channel_config_wiped, PlacesOK, Saving
      <3>3. QED
        BY <1>6, <3>1, <3>2
    <2>2. QED
      BY <2>1, CoreNumbers
  <1>7. ASSUME NEW d \in Cores, save_config(d) PROVE SaveOK(c)'
    <2>1. alone[c] /\ Saving(d)
      BY <1>2, <1>7
         DEF save_config, config_seal, SealStamp, SaveCopy, SaveErase, write_flash_page, Saving
    <2>2. c = d
      BY <1>1, <2>1, CoreNumbers DEF PlacesOK, Saving
    <2>3. SaveOK(c) /\ offset[c] \in Pages
      BY <1>1, <1>2, <2>1
    <2>4. config[SETTINGS] \in Settings /\ config[REG] \in Holder
      <3>1. Settled
        BY <1>1, <2>1, CoreNumbers DEF PlacesOK, Saving, Settled
      <3>2. QED
        BY <1>1, <3>1 DEF RunningOK
    <2>5. CASE config_seal(c)
      BY <1>2, <2>5 DEF config_seal, SaveOK, storage
    <2>6. CASE SealStamp(c)
      <3>1. job'[c] = "copy" /\ config' = [config EXCEPT ![SUM] = sum[c]] /\ offset' = offset
            /\ job[c] = "stamp"
        BY <1>2, <2>6 DEF SealStamp
      <3>2. offset[c] = 1 /\ sum[c] = config_checksum(config)
        BY <1>1, <2>3, <3>1 DEF PlacesOK, SaveOK
      <3>3. config'[SUM] = sum[c] /\ config'[SETTINGS] = config[SETTINGS] /\ config'[REG] = config[REG]
        BY <1>2, <3>1, PageNumbers DEF Sector
      <3>4. QED
        BY <3>1, <3>2, <3>3, PageNumbers DEF SaveOK, config_checksum, Pages
    <2>7. CASE SaveCopy(c)
      <3>1. /\ page_buffer' = [page_buffer EXCEPT ![offset[c]] = config[offset[c]]]
            /\ config' = config /\ job[c] = "copy"
        BY <2>7 DEF SaveCopy
      <3>2. \A p \in Pages : p <= offset[c] => page_buffer'[p] = config[p]
        BY <1>2, <2>3, <3>1 DEF SaveOK, Sector, Pages
      <3>3. CASE offset[c] # SUM
        <4>1. job' = job /\ offset'[c] = offset[c] + 1
          BY <1>2, <2>7, <3>3 DEF SaveCopy
        <4>2. QED
          BY <2>3, <3>1, <3>2, <4>1 DEF SaveOK, Pages
      <3>4. CASE offset[c] = SUM
        <4>1. job'[c] = "erase"
          BY <1>2, <2>7, <3>4 DEF SaveCopy
        <4>2. \A p \in Pages : page_buffer'[p] = config[p]
          BY <3>2, <3>4 DEF Pages, SUM
        <4>3. config_is_valid(page_buffer') /\ page_buffer'[REG] = config'[REG]
          BY <2>3, <2>4, <3>1, <4>2, PageNumbers DEF SaveOK, config_is_valid, config_checksum
        <4>4. QED
          BY <4>1, <4>3 DEF SaveOK
      <3>5. QED
        BY <3>3, <3>4
    <2>8. CASE SaveErase(c)
      <3>1. /\ job'[c] = "program" /\ job[c] = "erase" /\ flash' = Erased /\ offset' = offset
            /\ page_buffer' = page_buffer /\ config' = config
        BY <1>2, <2>8 DEF SaveErase
      <3>2. offset[c] = 1
        BY <1>1, <3>1 DEF PlacesOK
      <3>3. QED
        BY <2>3, <3>1, <3>2, Defaults DEF SaveOK, Pages
    <2>9. CASE write_flash_page(c)
      <3>1. /\ flash' = flash_range_program(offset[c], page_buffer[offset[c]])
            /\ page_buffer' = page_buffer /\ config' = config /\ job[c] = "program"
        BY <2>9 DEF write_flash_page
      <3>2. offset[c] # SUM
        BY <1>2, <2>9 DEF write_flash_page
      <3>3. job' = job /\ offset'[c] = offset[c] + 1
        BY <1>2, <2>9, <3>2 DEF write_flash_page
      <3>4. \A p \in Pages : flash[p] = IF p < offset[c] THEN page_buffer[p] ELSE Blank
        BY <2>3, <3>1 DEF SaveOK
      <3>5. /\ flash'[offset[c]] = page_buffer[offset[c]]
            /\ \A p \in Pages : p # offset[c] => flash'[p] = flash[p]
        BY <1>2, <2>3, <3>1, <3>4 DEF flash_range_program, Sector, Pages
      <3>6. \A p \in Pages : flash'[p] = IF p < offset'[c] THEN page_buffer[p] ELSE Blank
        BY <2>3, <3>3, <3>4, <3>5 DEF Pages
      <3>7. QED
        BY <2>3, <3>1, <3>3, <3>6 DEF SaveOK
    <2>10. QED
      BY <1>7, <2>2, <2>5, <2>6, <2>7, <2>8, <2>9 DEF save_config
  <1>8. CASE UNCHANGED <<job, offset, sum, alone, config, page_buffer, flash>>
    BY <1>1, <1>8 DEF SaveOK, config_is_valid, config_checksum
  <1>9. CASE vars' = vars
    BY <1>8, <1>9 DEF vars
  <1>10. QED
    BY <1>3, <1>4, <1>5, <1>6, <1>7, <1>8, <1>9, PassFrame DEF Next, channel_task, Configure

(* Between jobs the sector is what the last lone save or wipe made it. *)
LEMMA FlashStep ==
  ASSUME PairInv, [Next]_vars, ~ overlap, ~ channel_init, RunningOK'
  PROVE  FlashOK'
  <1>1. /\ TypeOK /\ PlacesOK /\ RunningOK /\ WipeOK /\ FlashOK
        /\ (\A d \in Cores : alone[d] => SaveOK(d))
    BY DEF PairInv, CopiesOK
  <1>2. /\ job \in [Cores -> Jobs] /\ offset \in [Cores -> Pages]
        /\ Sector(config) /\ Sector(page_buffer) /\ Sector(flash) /\ Sector(flash')
    BY <1>1, StorageType DEF TypeOK, Jobs
  <1>3. CASE channel_lifecycle_save_registration
    <2>1. job'[0] = "seal"
      BY <1>2, <1>3, CoreNumbers DEF channel_lifecycle_save_registration
    <2>2. QED
      BY <2>1, CoreNumbers DEF FlashOK
  <1>4. ASSUME NEW d \in Cores, handle_api_msgs(d) PROVE FlashOK'
    <2>1. PICK v \in Settings : config' = [config EXCEPT ![SETTINGS] = v]
      BY <1>4 DEF handle_api_msgs
    <2>2. config'[REG] = config[REG]
      BY <1>2, <2>1, PageNumbers DEF Sector
    <2>3. QED
      BY <1>1, <1>4, <2>2 DEF handle_api_msgs, FlashOK, Loaded, config_is_valid, config_checksum
  <1>5. ASSUME NEW d \in Cores,
               handle_save_config_msg(d) \/ wipe_config(d) \/ LoadCopy(d) \/ load_config(d)
        PROVE  FlashOK'
    <2>1. job'[d] # "none"
      BY <1>2, <1>5 DEF handle_save_config_msg, wipe_config, LoadCopy, load_config
    <2>2. QED
      BY <2>1 DEF FlashOK
  <1>6. ASSUME NEW d \in Cores, channel_config_wiped(d) PROVE FlashOK'
    <2>1. flash = Erased /\ flash' = flash /\ config' = config /\ config_wiped'
      BY <1>1, <1>6 DEF channel_config_wiped, WipeOK, Wiping, storage
    <2>2. (\A e \in Cores : job'[e] = "none") => config'[REG] = None
      BY <2>1 DEF RunningOK, Settled
    <2>3. Loaded(flash')[REG] = None
      BY <2>1, Defaults, LoadedOK
    <2>4. QED
      BY <2>2, <2>3 DEF FlashOK
  <1>7. ASSUME NEW d \in Cores, save_config(d) PROVE FlashOK'
    <2>1. CASE job'[d] # "none"
      BY <2>1 DEF FlashOK
    <2>2. CASE job'[d] = "none"
      <3>1. write_flash_page(d) /\ offset[d] = SUM
        BY <1>2, <1>7, <2>2
           DEF save_config, config_seal, SealStamp, SaveCopy, SaveErase, write_flash_page
      <3>2. /\ contended' = ~ alone[d] /\ config' = config /\ job[d] = "program"
            /\ flash' = flash_range_program(SUM, page_buffer[SUM])
        BY <3>1 DEF write_flash_page
      <3>3. CASE alone[d]
        <4>1. /\ config_is_valid(page_buffer) /\ page_buffer[REG] = config[REG]
              /\ \A p \in Pages : flash[p] = IF p < SUM THEN page_buffer[p] ELSE Blank
          BY <1>1, <3>1, <3>2, <3>3 DEF SaveOK
        <4>2. \A p \in Pages : flash'[p] = page_buffer[p]
          BY <1>2, <3>2, <4>1, PageNumbers DEF flash_range_program, Sector, Pages
        <4>3. config_is_valid(flash') /\ flash'[REG] = config[REG]
          BY <4>1, <4>2, PageNumbers DEF config_is_valid, config_checksum
        <4>4. Loaded(flash') = flash'
          BY <4>3 DEF Loaded
        <4>5. QED
          BY <3>2, <4>3, <4>4 DEF FlashOK
      <3>4. CASE ~ alone[d]
        BY <3>2, <3>4 DEF FlashOK
      <3>5. QED
        BY <3>3, <3>4
    <2>3. QED
      BY <2>1, <2>2
  <1>8. CASE UNCHANGED <<job, contended, config, flash>>
    BY <1>1, <1>8 DEF FlashOK, Loaded, config_is_valid, config_checksum
  <1>9. CASE vars' = vars
    BY <1>8, <1>9 DEF vars
  <1>10. QED
    BY <1>3, <1>4, <1>5, <1>6, <1>7, <1>8, <1>9, PassFrame DEF Next, channel_task, Configure

(* The copies of the registration together. *)
LEMMA CopiesStep ==
  ASSUME PairInv, [Next]_vars
  PROVE  CopiesOK'
  <1> SUFFICES ASSUME ~ overlap'
               PROVE  /\ RunningOK' /\ WipeOK' /\ FlashOK'
                      /\ \A c \in Cores : alone'[c] => SaveOK(c)'
    BY DEF CopiesOK
  <1>1. WipeOK'
    BY WipeStep
  <1>2. CASE channel_init
    <2>1. Sector(flash) /\ Loaded(flash)[REG] \in Holder /\ Loaded(flash)[SETTINGS] \in Settings
      BY LoadedOK DEF PairInv, TypeOK
    <2>2. /\ config' = Loaded(flash) /\ flash' = flash
          /\ pair' = channel_load_registration(Loaded(flash)[REG])
          /\ ~ config_wiped' /\ \A c \in Cores : job'[c] = "none" /\ ~ alone'[c]
      BY <1>2 DEF channel_init
    <2>3. pair'.registered = Loaded(flash)[REG]
      BY <2>2 DEF channel_load_registration, dh_pair_init
    <2>4. QED
      BY <1>1, <2>1, <2>2, <2>3 DEF RunningOK, FlashOK, Wiping, Settled
  <1>3. CASE ~ channel_init
    <2>1. ~ overlap
      BY <1>3, ConfigFrame
         DEF PairInv, TypeOK, Next, channel_task, Configure, save_config, handle_api_msgs,
             handle_save_config_msg, wipe_config, LoadCopy, load_config, channel_config_wiped,
             config_seal, SealStamp, SaveCopy, SaveErase, write_flash_page, Tick,
             channel_open_pairing_window, TaskBegin, answer_pair_request, answer_hello,
             HelloKeyed, dh_session_drop, channel_lifecycle_save_registration, NothingToSave,
             TaskEnd, history, vars
    <2>2. RunningOK'
      BY <1>1, <1>3, <2>1, RunningStep
    <2>3. QED
      BY <1>1, <1>3, <2>1, <2>2, SaveStep, FlashStep
  <1>4. QED
    BY <1>2, <1>3
-----------------------------------------------------------------------------
(***************************************************************************)
(* The inductive invariant: a window is as old as the clock says, a hello  *)
(* is answered for a registered helper, a save that is alone has done what *)
(* its place says, and the copies of the registration differ only where a  *)
(* save or a wipe is under way.                                            *)
(***************************************************************************)
THEOREM PairInvariant == Spec => []PairInv
  <1>1. PairInv /\ [Next]_vars => PairInv'
    <2> SUFFICES ASSUME PairInv, [Next]_vars PROVE PairInv'
      OBVIOUS
    <2>1. TypeOK' /\ WindowOK' /\ OwnerOK' /\ PlacesOK' /\ CopiesOK'
      BY TypeStep, WindowStep, OwnerStep, PlacesStep, CopiesStep
    <2>2. QED
      BY <2>1 DEF PairInv
  <1>2. QED
    BY <1>1, InitPair, PTL DEF Spec

(* The variables of pairing keep their types, for any clock and any window. *)
THEOREM PairTypeOK == Spec => []TypeOK
  <1>1. PairInv => TypeOK
    BY DEF PairInv
  <1>2. QED
    BY <1>1, PairInvariant, PTL

(* A board that holds no registration runs no session, for any number of helpers. *)
THEOREM PairNoOrphan == Spec => []NoOrphanSession
  <1>1. PairInv => NoOrphanSession
    BY DEF PairInv, OwnerOK
  <1>2. QED
    BY <1>1, PairInvariant, PTL

(***************************************************************************)
(* However the unlocked saves of the two cores interleave, page by page,   *)
(* and wherever the power goes, the running config keeps the registration  *)
(* and a save that runs alone leaves a valid sector that names it; a wipe  *)
(* across a save or a registration is the one exception.                   *)
(***************************************************************************)
THEOREM PairStored == Spec => []StoredMatchesLive
  <1>1. PairInv => StoredMatchesLive
    BY DEF PairInv, CopiesOK, RunningOK, FlashOK, StoredMatchesLive, Quiescent, Wiping
  <1>2. QED
    BY <1>1, PairInvariant, PTL

(***************************************************************************)
(* A window of any length on a clock of any width admits one registration, *)
(* and only before it has run out, although the stamps wrap.               *)
(***************************************************************************)
THEOREM PairSingleShot == Spec => WindowSingleShot
  <1>1. PairInv /\ [Next]_vars => [granted' > granted => granted = 0 /\ age < PAIR_WINDOW_MS]_vars
    <2> SUFFICES ASSUME PairInv, [Next]_vars, granted' > granted
                 PROVE  granted = 0 /\ age < PAIR_WINDOW_MS
      OBVIOUS
    <2>1. granted \in 0 .. 1 /\ WindowOK
      BY DEF PairInv, TypeOK
    <2>2. \/ granted' = granted \/ granted' = 0
          \/ pass = "draining" /\ dh_pair_window_open(pair, now)
      BY ConfigFrame, Zenon
         DEF Next, channel_task, Tick, channel_open_pairing_window, TaskBegin,
             answer_pair_request, answer_hello, HelloKeyed, dh_session_drop,
             channel_lifecycle_save_registration, NothingToSave, TaskEnd, channel_init, history,
             vars
    <2>3. pass = "draining" /\ dh_pair_window_open(pair, now)
      BY <2>1, <2>2
    <2>4. QED
      BY <2>1, <2>3 DEF WindowOK, dh_pair_window_open
  <1>2. QED
    BY <1>1, PairInvariant, PTL DEF Spec, WindowSingleShot
=============================================================================
