------------------------------ MODULE Pairing ------------------------------
(***************************************************************************)
(* A board's one registration: the pairing window (core/dh_pair.c), the    *)
(* answers that depend on it (core/dh_session.c), its copy in the config   *)
(* sector of flash (utils.c) and the wipe that revokes it (handlers.c).    *)
(*                                                                         *)
(* Core 0 runs channel_task: it applies the wipes and chords, answers the  *)
(* helper's frames, saves a fresh registration and lets the window expire. *)
(* Between two passes it takes the config page's packets; core 1 takes the *)
(* chords and the peer board's packets.  So either core may change, save   *)
(* or wipe the configuration, with no lock: they share the running config, *)
(* the page buffer and the sector, and the power may go at any time.       *)
(*                                                                         *)
(* The board's identity never changes, so the key id and the shared secret *)
(* of a registration are both functions of the helper registered.          *)
(***************************************************************************)
EXTENDS Naturals

CONSTANTS
    Helpers,         \* the helper keys that may ask to be paired
    None,            \* no helper
    Blank,           \* what an erased page reads as
    Junk,            \* what a page programmed over another reads as
    PAIR_WINDOW_MS,  \* DH_PAIR_WINDOW_MS, in ticks of the model's clock
    CLOCK,           \* where the millisecond counter wraps
    MaxRequests      \* chords and packets the users and the peer board send

ASSUME PairingAssumption ==
    /\ None \notin Helpers
    /\ Blank \notin Helpers \cup {None} /\ Junk \notin Helpers \cup {None}
    /\ Blank \notin {0, 1} /\ Junk \notin {0, 1}
    /\ PAIR_WINDOW_MS \in Nat \ {0}
    /\ CLOCK \in Nat /\ CLOCK > PAIR_WINDOW_MS
    /\ MaxRequests \in Nat

VARIABLES
    clock,         \* to_ms_since_boot, wrapping
    passed,        \* core 0 has run since the clock last moved
    now,           \* the one reading of the clock a pass works with
    pass,          \* where core 0 is in channel_task
    requested,     \* chords and packets so far
    job,           \* where each core is in a save or a wipe
    offset,        \* the page it copies or programs next
    sum,           \* the checksum it has computed and not yet stored
    pair,          \* dh_pair
    session,       \* the helper whose secret keys the live session
    asking,        \* the helper whose hello is being answered
    unsaved,       \* registration_unsaved
    config_wiped, window_requested,  \* what channel_task has yet to apply
    config,        \* state->config, page by page
    page_buffer,   \* state->page_buffer
    flash,         \* the config sector
    (* History, read by no action: *)
    age,           \* ticks since the window was last opened, capped
    granted,       \* registrations through that window
    alone,         \* a core's save has had config, buffer and sector to itself
    contended,     \* the save that ended last had not
    overlap,       \* a wipe and a save or a registration were under way together
    wiped          \* a wipe was applied and nothing registered since

vars == <<clock, passed, now, pass, requested, job, offset, sum, pair, session, asking,
          unsaved, config_wiped, window_requested, config, page_buffer, flash, age, granted,
          alone, contended, overlap, wiped>>

time == <<clock, passed, now, age>>
channel == <<pass, pair, session, asking, unsaved>>
requests == <<requested, config_wiped, window_requested>>
saving == <<job, offset, sum, alone, contended>>
storage == <<config, page_buffer, flash>>
history == <<granted, overlap, wiped>>
-----------------------------------------------------------------------------
Cores == {0, 1}

Holder == Helpers \cup {None}

(***************************************************************************)
(* The configuration takes three flash pages (config_layout.h): settings   *)
(* on the first, the registration on the second, and on the third the      *)
(* checksum of what is before it.                                          *)
(***************************************************************************)
Pages == 1 .. 3
SETTINGS == 1
REG == 2
SUM == 3

Settings == {0, 1}

\* A checksum stands for the content it is of.
config_checksum(c) == <<c[SETTINGS], c[REG]>>

config_is_valid(c) ==
    c[SETTINGS] \in Settings /\ c[REG] \in Holder /\ c[SUM] = config_checksum(c)

Erased == [p \in Pages |-> Blank]

default_config == [Erased EXCEPT ![SETTINGS] = 0, ![REG] = None]

\* What load_config makes of a sector: its content, or the defaults.
Loaded(c) == IF config_is_valid(c) THEN c ELSE default_config

\* flash_range_program only clears bits: a page not erased before is spoilt.
flash_range_program(p, content) ==
    [flash EXCEPT ![p] = IF @ \in {Blank, content} THEN content ELSE Junk]

Wiping(c) == job[c] \in {"wiped", "loading", "reloaded"}

Saving(c) == job[c] \in {"seal", "stamp", "copy", "erase", "program"}

\* Core 0 takes packets between two passes, core 1 at any time.
Free(c) == job[c] = "none" /\ (c = 0 => pass = "idle")

Request(c) == Free(c) /\ requested < MaxRequests /\ requested' = requested + 1

\* (uint32_t)(a - b)
Elapsed(a, b) == (a + CLOCK - b) % CLOCK

dh_pair_init == [registered |-> None, window_open |-> FALSE, window_claimed |-> FALSE,
                 window_opened_ms |-> 0]

dh_pair_clear_registration(p) == [p EXCEPT !.registered = None]

dh_pair_open_window(p, t) ==
    [p EXCEPT !.window_open = TRUE, !.window_claimed = FALSE, !.window_opened_ms = t]

dh_pair_window_open(p, t) == p.window_open /\ Elapsed(t, p.window_opened_ms) < PAIR_WINDOW_MS

minute_elapsed(p, t) == Elapsed(t, p.window_opened_ms) >= PAIR_WINDOW_MS

\* Mutant: a window nobody used is left to the clock alone.
dh_pair_tick_lazy(p, t) ==
    [p EXCEPT !.window_claimed = @ /\ ~ minute_elapsed(p, t)]

dh_pair_tick(p, t) ==
    [p EXCEPT !.window_open = dh_pair_window_open(p, t),
              !.window_claimed = @ /\ ~ minute_elapsed(p, t)]

\* Mutant: the window a registration came through stays open.
dh_pair_register_open(p, h) == [p EXCEPT !.registered = h, !.window_claimed = TRUE]

\* The first registration closes the window.
dh_pair_register(p, h) ==
    [p EXCEPT !.registered = h, !.window_open = FALSE, !.window_claimed = TRUE]

\* channel_load_registration, from the config a boot loaded.
channel_load_registration(stored) == [dh_pair_init EXCEPT !.registered = stored]

Init ==
    /\ clock = 0 /\ passed = TRUE /\ now = 0
    /\ pass = "idle" /\ requested = 0
    /\ job = [c \in Cores |-> "none"] /\ offset = [c \in Cores |-> 1]
    /\ sum = [c \in Cores |-> Blank]
    /\ pair = dh_pair_init
    /\ session = None /\ asking = None /\ unsaved = FALSE
    /\ config_wiped = FALSE /\ window_requested = FALSE
    /\ config = default_config /\ page_buffer = Erased /\ flash = Erased
    /\ age = PAIR_WINDOW_MS /\ granted = 0
    /\ alone = [c \in Cores |-> FALSE] /\ contended = FALSE
    /\ overlap = FALSE /\ wiped = FALSE
-----------------------------------------------------------------------------
(***************************************************************************)
(* Time moves between passes.  A tick is long (a pass ends well within it: *)
(* the watchdog reboots a core 0 that takes more than half a second).      *)
(***************************************************************************)
Tick ==
    /\ Free(0) /\ passed
    /\ clock' = (clock + 1) % CLOCK
    /\ passed' = FALSE
    /\ age' = IF age < PAIR_WINDOW_MS THEN age + 1 ELSE age
    /\ UNCHANGED <<now, channel, requests, saving, storage, history>>

(* The chords and packets. *)

\* pair_hotkey_handler, handle_pair_window_msg
channel_open_pairing_window ==
    /\ Request(1)
    /\ window_requested' = TRUE
    /\ UNCHANGED <<time, channel, config_wiped, saving, storage, history>>

\* SET_VAL_MSG, from the config page or through the peer board.
handle_api_msgs(c) ==
    /\ Request(c)
    /\ \E v \in Settings : config' = [config EXCEPT ![SETTINGS] = v]
    /\ alone' = [alone EXCEPT ![1 - c] = @ /\ job[1 - c] \notin {"stamp", "copy"}]
    /\ UNCHANGED <<time, channel, config_wiped, window_requested, job, offset, sum, contended,
                   page_buffer, flash, history>>

\* _wipe_local_config: erase the sector,
wipe_config(c) ==
    /\ Request(c)
    /\ job' = [job EXCEPT ![c] = "wiped"]
    /\ flash' = Erased
    /\ alone' = [alone EXCEPT ![1 - c] = FALSE]
    /\ contended' = FALSE
    /\ overlap' = (overlap \/ unsaved \/ Saving(1 - c))
    /\ UNCHANGED <<time, channel, config_wiped, window_requested, offset, sum, config, page_buffer,
                   granted, wiped>>

\* load what it holds over the running configuration,
LoadCopy(c) ==
    /\ job[c] = "wiped"
    /\ job' = [job EXCEPT ![c] = "loading"]
    /\ config' = flash
    /\ UNCHANGED <<time, channel, requests, offset, sum, alone, contended, page_buffer, flash,
                   history>>

\* which the defaults replace when it is not valid,
load_config(c) ==
    /\ job[c] = "loading"
    /\ job' = [job EXCEPT ![c] = "reloaded"]
    /\ config' = Loaded(config)
    /\ UNCHANGED <<time, channel, requests, offset, sum, alone, contended, page_buffer, flash,
                   history>>

\* Mutant: the wipe is applied where it is asked for, not by channel_task.
channel_config_wiped_inline(c) ==
    /\ job[c] = "reloaded"
    /\ job' = [job EXCEPT ![c] = "none"]
    /\ session' = None
    /\ pair' = dh_pair_open_window(dh_pair_clear_registration(pair), clock)
    /\ unsaved' = FALSE
    /\ age' = 0 /\ granted' = 0 /\ wiped' = TRUE
    /\ UNCHANGED <<clock, passed, now, pass, asking, requests, offset, sum, alone, contended,
                   storage, overlap>>

\* and leave the rest to channel_task.
channel_config_wiped(c) ==
    /\ job[c] = "reloaded"
    /\ job' = [job EXCEPT ![c] = "none"]
    /\ config_wiped' = TRUE
    /\ UNCHANGED <<time, channel, requested, window_requested, offset, sum, alone, contended,
                   storage, history>>

\* handle_save_config_msg and the border handlers call save_config.
handle_save_config_msg(c) ==
    /\ Request(c)
    /\ job' = [job EXCEPT ![c] = "seal"]
    /\ alone' = [x \in Cores |-> x = c /\ job[1 - c] = "none"]
    /\ overlap' = (overlap \/ Wiping(1 - c))
    /\ UNCHANGED <<time, channel, config_wiped, window_requested, offset, sum, contended, storage,
                   granted, wiped>>
-----------------------------------------------------------------------------
(* save_config, on either core. *)

\* Mutant: a configuration that carries a checksum is taken to be sealed.
config_seal_once(c) ==
    /\ job[c] = "seal"
    /\ job' = [job EXCEPT ![c] = "stamp"]
    /\ sum' = [sum EXCEPT ![c] = IF config[SUM] = Blank THEN config_checksum(config)
                                 ELSE config[SUM]]
    /\ UNCHANGED <<time, channel, requests, offset, alone, contended, storage, history>>

\* config_seal computes the checksum,
config_seal(c) ==
    /\ job[c] = "seal"
    /\ job' = [job EXCEPT ![c] = "stamp"]
    /\ sum' = [sum EXCEPT ![c] = config_checksum(config)]
    /\ UNCHANGED <<time, channel, requests, offset, alone, contended, storage, history>>

\* and stores it in the running configuration.
SealStamp(c) ==
    /\ job[c] = "stamp"
    /\ job' = [job EXCEPT ![c] = "copy"]
    /\ config' = [config EXCEPT ![SUM] = sum[c]]
    /\ sum' = [sum EXCEPT ![c] = Blank]
    /\ UNCHANGED <<time, channel, requests, offset, alone, contended, page_buffer, flash, history>>

\* The copy into the page buffer, a page at a time.
SaveCopy(c) ==
    /\ job[c] = "copy"
    /\ page_buffer' = [page_buffer EXCEPT ![offset[c]] = config[offset[c]]]
    /\ offset' = [offset EXCEPT ![c] = IF @ = SUM THEN 1 ELSE @ + 1]
    /\ job' = IF offset[c] = SUM THEN [job EXCEPT ![c] = "erase"] ELSE job
    /\ UNCHANGED <<time, channel, requests, sum, alone, contended, config, flash, history>>

\* write_flash_page erases the sector before its first page,
SaveErase(c) ==
    /\ job[c] = "erase"
    /\ job' = [job EXCEPT ![c] = "program"]
    /\ flash' = Erased
    /\ UNCHANGED <<time, channel, requests, offset, sum, alone, contended, config, page_buffer,
                   history>>

\* and programs every page.
write_flash_page(c) ==
    /\ job[c] = "program"
    /\ flash' = flash_range_program(offset[c], page_buffer[offset[c]])
    /\ offset' = [offset EXCEPT ![c] = IF @ = SUM THEN 1 ELSE @ + 1]
    /\ IF offset[c] = SUM
         THEN /\ job' = [job EXCEPT ![c] = "none"]
              /\ contended' = ~ alone[c]
              /\ alone' = [alone EXCEPT ![c] = FALSE]
         ELSE UNCHANGED <<job, contended, alone>>
    /\ UNCHANGED <<time, channel, requests, sum, config, page_buffer, history>>
-----------------------------------------------------------------------------
(* Core 0: channel_task. *)

\* channel_lifecycle_config_wiped, then the window asked for.
TaskBegin ==
    LET cleared == IF config_wiped
                     THEN dh_pair_open_window(dh_pair_clear_registration(pair), clock) ELSE pair
        opens == config_wiped \/ window_requested
    IN
    /\ Free(0)
    /\ pass' = "draining"
    /\ now' = clock /\ passed' = TRUE
    /\ config_wiped' = FALSE /\ window_requested' = FALSE
    /\ session' = IF config_wiped THEN None ELSE session
    /\ unsaved' = IF config_wiped THEN FALSE ELSE unsaved
    /\ pair' = IF window_requested THEN dh_pair_open_window(cleared, clock) ELSE cleared
    /\ age' = IF opens THEN 0 ELSE age
    /\ granted' = IF opens THEN 0 ELSE granted
    /\ wiped' = (wiped \/ config_wiped)
    /\ UNCHANGED <<clock, requested, asking, saving, storage, overlap>>

\* answer_pair_request while the window is open; otherwise it only refuses.
answer_pair_request(h) ==
    /\ pass = "draining"
    /\ dh_pair_window_open(pair, now)
    /\ pair' = dh_pair_register(pair, h)
    /\ unsaved' = TRUE
    /\ granted' = granted + 1
    /\ wiped' = FALSE
    /\ overlap' = (overlap \/ Wiping(1) \/ config_wiped)
    /\ UNCHANGED <<time, pass, session, asking, requests, saving, storage>>

\* answer_hello: the key id named is registered and the tag verifies,
answer_hello(h) ==
    /\ pass = "draining"
    /\ pair.registered = h
    /\ pass' = "answering"
    /\ asking' = h
    /\ UNCHANGED <<time, pair, session, unsaved, requests, saving, storage, history>>

\* and then the session is keyed.
HelloKeyed ==
    /\ pass = "answering"
    /\ pass' = "draining"
    /\ session' = asking
    /\ asking' = None
    /\ UNCHANGED <<time, pair, unsaved, requests, saving, storage, history>>

\* A timeout, a protocol error or a lost link: the registration stays.
dh_session_drop ==
    /\ pass \in {"idle", "draining", "resting"} /\ job[0] = "none"
    /\ session # None
    /\ session' = None
    /\ UNCHANGED <<time, pass, pair, asking, unsaved, requests, saving, storage, history>>

\* A fresh registration enters the running configuration, and is saved.
channel_lifecycle_save_registration ==
    /\ pass = "draining"
    /\ unsaved
    /\ unsaved' = FALSE
    /\ config' = [config EXCEPT ![REG] = pair.registered]
    /\ pass' = "resting"
    /\ job' = [job EXCEPT ![0] = "seal"]
    /\ alone' = [x \in Cores |-> x = 0 /\ job[1] = "none"]
    /\ overlap' = (overlap \/ Wiping(1))
    /\ UNCHANGED <<time, pair, session, asking, requests, offset, sum, contended, page_buffer,
                   flash, granted, wiped>>

NothingToSave ==
    /\ pass = "draining"
    /\ ~ unsaved
    /\ pass' = "resting"
    /\ UNCHANGED <<time, pair, session, asking, unsaved, requests, saving, storage, history>>

\* The rest of the pass, once save_config has returned: dh_pair_tick.
TaskEnd ==
    /\ pass = "resting" /\ job[0] = "none"
    /\ pass' = "idle"
    /\ pair' = dh_pair_tick(pair, now)
    /\ UNCHANGED <<time, session, asking, unsaved, requests, saving, storage, history>>

\* A reboot, or the power going and coming back: channel_init.
channel_init ==
    /\ clock' = 0 /\ passed' = TRUE /\ now' = 0 /\ age' = PAIR_WINDOW_MS
    /\ pass' = "idle"
    /\ job' = [c \in Cores |-> "none"] /\ offset' = [c \in Cores |-> 1]
    /\ sum' = [c \in Cores |-> Blank]
    /\ config' = Loaded(flash) /\ page_buffer' = Erased /\ flash' = flash
    /\ pair' = channel_load_registration(Loaded(flash)[REG])
    /\ session' = None /\ asking' = None /\ unsaved' = FALSE
    /\ config_wiped' = FALSE /\ window_requested' = FALSE /\ requested' = requested
    /\ granted' = 0 /\ alone' = [c \in Cores |-> FALSE] /\ contended' = FALSE
    /\ overlap' = FALSE /\ wiped' = FALSE

\* What a chord or a packet asks of the configuration, on the core it came to.
Configure(c) ==
    \/ handle_api_msgs(c) \/ handle_save_config_msg(c)
    \/ wipe_config(c) \/ LoadCopy(c) \/ load_config(c) \/ channel_config_wiped(c)

save_config(c) ==
    config_seal(c) \/ SealStamp(c) \/ SaveCopy(c) \/ SaveErase(c) \/ write_flash_page(c)

channel_task ==
    \/ TaskBegin \/ HelloKeyed \/ dh_session_drop
    \/ \E h \in Helpers : answer_pair_request(h) \/ answer_hello(h)
    \/ channel_lifecycle_save_registration \/ NothingToSave \/ TaskEnd

Next ==
    \/ Tick \/ channel_task \/ channel_open_pairing_window
    \/ \E c \in Cores : Configure(c) \/ save_config(c)
    \/ channel_init

Spec == Init /\ [][Next]_vars
-----------------------------------------------------------------------------
\* What the checksum's page may hold, and what a sector or a copy of it may.
Checksums ==
    ((Settings \cup {Blank, Junk}) \X (Holder \cup {Blank, Junk})) \cup {Blank, Junk}

Sector(s) ==
    /\ s = [p \in Pages |-> s[p]]
    /\ s[SETTINGS] \in Settings \cup {Blank, Junk}
    /\ s[REG] \in Holder \cup {Blank, Junk}
    /\ s[SUM] \in Checksums

\* The types of the pairing state.
TypeOK ==
    /\ clock \in 0 .. CLOCK - 1 /\ now \in 0 .. CLOCK - 1 /\ passed \in BOOLEAN
    /\ pass \in {"idle", "draining", "answering", "resting"}
    /\ requested \in 0 .. MaxRequests
    /\ job \in [Cores -> {"none", "wiped", "loading", "reloaded",
                          "seal", "stamp", "copy", "erase", "program"}]
    /\ offset \in [Cores -> Pages] /\ sum \in [Cores -> Checksums]
    /\ pair \in [registered : Holder, window_open : BOOLEAN, window_claimed : BOOLEAN,
                 window_opened_ms : 0 .. CLOCK - 1]
    /\ session \in Holder /\ asking \in Holder /\ unsaved \in BOOLEAN
    /\ config_wiped \in BOOLEAN /\ window_requested \in BOOLEAN
    /\ Sector(config) /\ Sector(page_buffer) /\ Sector(flash)
    /\ age \in 0 .. PAIR_WINDOW_MS /\ granted \in 0 .. 1
    /\ alone \in [Cores -> BOOLEAN] /\ contended \in BOOLEAN
    /\ overlap \in BOOLEAN /\ wiped \in BOOLEAN

\* Neither core is in the middle of anything that touches the registration.
Quiescent ==
    /\ pass \in {"idle", "resting"} /\ \A c \in Cores : job[c] = "none"
    /\ ~ unsaved /\ ~ config_wiped

(***************************************************************************)
(* A registration is granted only inside the minute the user asked for,    *)
(* and only once in it, although the window is judged on a wrapping clock  *)
(* and re-opened from the other core at any time (dh_pair_register,        *)
(* dh_pair_tick).                                                          *)
(***************************************************************************)
WindowSingleShot == [][granted' > granted => granted = 0 /\ age < PAIR_WINDOW_MS]_vars

(***************************************************************************)
(* Whatever saves of the two cores ran into each other, the running config *)
(* still holds the board's registration; and the next save that has the    *)
(* config to itself leaves a sector that a boot accepts and that names the *)
(* same helper, although the saves before it may have left a stale         *)
(* checksum, a torn page buffer or pages programmed twice.  Only a wipe    *)
(* across a save or a registration is not made good (save_config,          *)
(* config_seal, channel_lifecycle_save_registration, _wipe_local_config).  *)
(***************************************************************************)
StoredMatchesLive ==
    Quiescent /\ ~ overlap =>
        /\ config[REG] = pair.registered
        /\ ~ contended => Loaded(flash)[REG] = pair.registered

(***************************************************************************)
(* A board that holds no registration runs no session: a wipe is never     *)
(* overtaken by a hello that was half answered when it came, because the   *)
(* handler only asks and channel_task applies (config_wiped in channel.c). *)
(***************************************************************************)
NoOrphanSession == pair.registered = None => session = None

(***************************************************************************)
(* What docs/protocol.md says: "A config wipe unpairs - it clears the      *)
(* registration".  Once a wipe has been applied and nothing registered     *)
(* since, a boot must not bring a registration back.                       *)
(***************************************************************************)
WipeUnpairs == Quiescent /\ wiped => Loaded(flash)[REG] = None
=============================================================================
