-------------------------------- MODULE Xfer --------------------------------
(***************************************************************************)
(* A clipboard transfer end to end, one direction: the copy side's         *)
(* dh_xfer tx machine, the paste side's rx machine (core/dh_xfer.c), the   *)
(* seal the copy side needs before it may offer (core/dh_seal.c), and the  *)
(* clipboard services that drive them and own every clock                  *)
(* (helpers/windows/src/clip_service.cpp; the macOS service takes the      *)
(* same steps).  The boards only relay.  They lose frames, and chunks,     *)
(* which stripe over two USB channels, overtake each other and the control *)
(* frames, which stay in order on channel 0.                               *)
(*                                                                         *)
(* A service handles one frame at a time and pumps in the same call, so a  *)
(* handler and its pump are one action.  A timer is an action that is      *)
(* enabled when nothing is in flight (its delay is far over a round trip). *)
(* Whatever goes wrong counts as a fault: a frame lost, damaged or         *)
(* overtaken, a timer that fires while its answer is still on its way, and *)
(* everything that interrupts a transfer.                                  *)
(***************************************************************************)
EXTENDS Integers, FiniteSets, SequencesExt

CONSTANTS
    NCHUNKS,     \* chunks of a payload
    WINDOW,      \* DH_XFER_CREDIT_WINDOW
    BATCH_MAX,   \* DH_XFER_BATCH_MAX: chunks one pump may emit
    RETX_MAX,    \* DH_XFER_RETX_MAX: re-requested chunks the sender holds
    ID_MOD,      \* offer ids are counted modulo this, skipping 0 (2^32)
    FirstIds,    \* where next_id may start
    CopyKinds,   \* what may be copied: subset of {"eager", "lazy", "big"}
    MaxCopies,   \* bound: copies made
    MaxFaults    \* bound: frames lost, damaged or overtaken, timers that fire early,
                 \* cancels, expiries, sessions ended and restarts, together

ASSUME XferAssumption ==
    /\ NCHUNKS \in Nat \ {0} /\ WINDOW \in Nat \ {0, 1}
    /\ BATCH_MAX \in Nat \ {0} /\ RETX_MAX \in Nat \ {0}
    /\ ID_MOD \in Nat \ {0, 1} /\ FirstIds \subseteq 1 .. (ID_MOD - 1)
    /\ CopyKinds \subseteq {"eager", "lazy", "big"}
    /\ MaxCopies \in Nat /\ MaxFaults \in Nat

VARIABLES
    tx, rx,     \* the two halves of dh_xfer, each at its own helper
    next_id,    \* the copy side's next offer id
    seal_tx,    \* the copy side's seal: id, key, offered, live
    seal_rx,    \* the paste side's seal: id, key; id 0 is none
    seals,      \* seal ids and keys drawn so far: each draw is fresh
    pending,    \* the copy parked until there is a seal; NoCopy when none
    reoffer,    \* reoffer_when_sealed_
    out,        \* frames on their way to the paste side, as they were sent
    back,       \* frames on their way to the copy side, in order
    rx_buf,     \* which copy's bytes lie at each chunk of the receive buffer
    copies, faults,
    (* History, read by no action: *)
    delivered,  \* every delivery: the offer, and what the buffer held
    confirmed,  \* copies the sender dropped on a receipt
    ended,      \* copies somebody gave up on, or a newer one replaced
    asked       \* offers that were ever asked a retransmission

side == <<tx, next_id, seal_tx, pending, reoffer>>
far == <<rx, seal_rx, rx_buf>>
path == <<out, back>>
history == <<delivered, confirmed, ended, asked>>
vars == <<tx, rx, next_id, seal_tx, seal_rx, seals, pending, reoffer, out, back,
          rx_buf, copies, faults, delivered, confirmed, ended, asked>>
-----------------------------------------------------------------------------
Seqs == 0 .. (NCHUNKS - 1)
Ids == 1 .. (ID_MOD - 1)
Copies == 1 .. MaxCopies
NoCopy == [copy |-> 0, kind |-> "none"]

tx_reset == [active |-> FALSE, streaming |-> FALSE, need_done |-> FALSE, id |-> 0,
             copy |-> 0, kind |-> "none", next_seq |-> 0, credits |-> 0, retx |-> <<>>,
             opening_credit_accepted |-> FALSE, recovery_credit_due |-> FALSE]

rx_forget == [active |-> FALSE, lazy |-> FALSE, seen_offer |-> FALSE, completed |-> FALSE,
              id |-> 0, copy |-> 0, received |-> {}, max_seq_seen |-> 0, any_seen |-> FALSE,
              ungranted |-> 0, requested |-> {}, requested_stale |-> {}]

dh_seal_tx_init == [id |-> 0, key |-> 0, offered |-> FALSE, live |-> FALSE]
dh_seal_rx_init == [id |-> 0, key |-> 0]

serial_newer(candidate, current) ==
    candidate # current /\ (candidate - current) % ID_MOD < ID_MOD \div 2

\* The frames.  Offers and chunks are sealed; the rest carries an id and no user bytes.
Offer(t, s) == [type |-> "OFFER", id |-> t.id, copy |-> t.copy, kind |-> t.kind,
                seal |-> s.id, key |-> s.key]
Chunk(t, s, q) == [type |-> "CHUNK", id |-> t.id, seq |-> q, copy |-> t.copy, seal |-> s.id,
                   key |-> s.key, intact |-> TRUE]
Frame(type, id) == [type |-> type, id |-> id]
Retransmit(id, q) == [type |-> "RETRANSMIT", id |-> id, seq |-> q]
Credit(id, n) == [type |-> "CREDIT", id |-> id, credits |-> n]
SealAccept(id, key) == [type |-> "SEAL_ACCEPT", id |-> id, key |-> key]

Opening(id) == <<Frame("REQUEST", id), Credit(id, WINDOW)>>

Init ==
    /\ tx = tx_reset /\ rx = rx_forget /\ next_id \in FirstIds
    /\ seal_tx = dh_seal_tx_init /\ seal_rx = dh_seal_rx_init /\ seals = 0
    /\ pending = NoCopy /\ reoffer = FALSE
    /\ out = <<>> /\ back = <<>>
    /\ rx_buf = [q \in Seqs |-> 0]
    /\ copies = 0 /\ faults = 0
    /\ delivered = {} /\ confirmed = {} /\ ended = {} /\ asked = {}

Fault == faults < MaxFaults /\ faults' = faults + 1
-----------------------------------------------------------------------------
(* The copy side. *)

\* The transfer copy is in: an active offer, or the parked copy.
Held(t, p) == (IF t.active THEN {t.copy} ELSE {}) \cup ({p.copy} \ {0})

(***************************************************************************)
(* dh_xfer_offer: a new id, and everything the last transfer held is gone. *)
(* sealed_offer sends nothing while there is no live seal.                 *)
(***************************************************************************)
dh_xfer_offer(c) ==
    /\ tx' = [tx_reset EXCEPT !.active = TRUE, !.id = next_id, !.copy = c.copy, !.kind = c.kind]
    /\ next_id' = IF next_id + 1 = ID_MOD THEN 1 ELSE next_id + 1

sealed_offer(t, s) == IF s.live THEN <<Offer(t, s)>> ELSE <<>>

\* offer_seal: ask for a seal unless that has been asked already.
offer_seal ==
    IF seal_tx.offered
    THEN UNCHANGED <<seal_tx, seals, out>>
    ELSE /\ seals' = seals + 1
         /\ seal_tx' = [dh_seal_tx_init EXCEPT !.id = seals + 1, !.offered = TRUE]
         /\ out' = Append(out, Frame("SEAL_OFFER", seals + 1))

\* Something was copied: offered at once under a live seal, parked otherwise.
Copy(kind) ==
    LET c == [copy |-> copies + 1, kind |-> kind]
    IN  /\ copies < MaxCopies /\ copies' = copies + 1
        /\ \/ /\ seal_tx.live
              /\ dh_xfer_offer(c)
              /\ out' = out \o sealed_offer(tx', seal_tx)
              /\ ended' = ended \cup Held(tx, pending)
              /\ pending' = NoCopy
              /\ UNCHANGED <<seal_tx, seals>>
           \/ /\ ~seal_tx.live
              /\ pending' = c
              /\ offer_seal
              /\ ended' = ended \cup ({pending.copy} \ {0})
              /\ UNCHANGED <<tx, next_id>>
        /\ UNCHANGED <<reoffer, far, back, faults, delivered, confirmed, asked>>

(***************************************************************************)
(* dh_xfer_pump: spend credit on re-requested chunks first, then on new    *)
(* ones; DONE is owed once everything has been emitted, and costs none.    *)
(***************************************************************************)
dh_xfer_pump(t) ==
    LET owed == t.retx \o [i \in 1 .. (NCHUNKS - t.next_seq) |-> t.next_seq + i - 1]
        n == IF t.active /\ t.streaming
             THEN Min({t.credits, BATCH_MAX, Len(owed)}) ELSE 0
        again == Min({n, Len(t.retx)})
        emitted == [t EXCEPT !.retx = SubSeq(@, again + 1, Len(@)),
                             !.next_seq = @ + n - again, !.credits = @ - n]
        done == t.active /\ t.streaming /\ t.need_done
                /\ emitted.retx = <<>> /\ emitted.next_seq >= NCHUNKS
    IN  [tx |-> [emitted EXCEPT !.need_done = @ /\ ~done],
         seqs |-> SubSeq(owed, 1, n), done |-> done]

\* Pump t and send what it yields; sealed_chunk sends nothing without a live seal.
Pump(t) ==
    LET p == dh_xfer_pump(t)
        sealed == [i \in DOMAIN p.seqs |-> Chunk(t, seal_tx, p.seqs[i])]
    IN  /\ tx' = p.tx
        /\ out' = out \o (IF seal_tx.live THEN sealed ELSE <<>>)
                      \o (IF p.done THEN <<Frame("DONE", t.id)>> ELSE <<>>)

tx_start_streaming(t) ==
    [t EXCEPT !.streaming = TRUE, !.need_done = TRUE, !.credits = Min({@, WINDOW}),
              !.opening_credit_accepted = t.credits > 0]

dh_xfer_tx_awaiting_request == tx.active /\ ~tx.streaming
dh_xfer_tx_awaiting_receipt == tx.active /\ tx.streaming /\ tx.next_seq >= NCHUNKS

\* A frame for the copy side is taken from the front of its path.
FromBack(type) == back # <<>> /\ Head(back).type = type /\ back' = Tail(back)
Mine(m) == tx.active /\ tx.id = m.id

(***************************************************************************)
(* A request starts the stream.  A lazy payload is read now: the service   *)
(* answers NEED_DATA inside the same call, with the bytes or with a        *)
(* failure, which cancels.                                                 *)
(***************************************************************************)
dh_xfer_handle_request ==
    /\ FromBack("REQUEST")
    /\ \/ /\ Mine(Head(back)) /\ ~tx.streaming
          /\ Pump(tx_start_streaming(tx))
          /\ UNCHANGED <<ended, faults>>
       \/ /\ Mine(Head(back)) /\ ~tx.streaming /\ tx.kind = "lazy"
          /\ Fault
          /\ out' = Append(out, Frame("CANCEL", tx.id))
          /\ tx' = tx_reset /\ ended' = ended \cup {tx.copy}
       \/ /\ ~Mine(Head(back)) \/ tx.streaming
          /\ Pump(tx) /\ UNCHANGED <<ended, faults>>
    /\ UNCHANGED <<next_id, seal_tx, seals, pending, reoffer, far, copies, delivered,
                   confirmed, asked>>

tx_queue_retransmit(retx, q) ==
    IF q \in Range(retx) \/ Len(retx) >= RETX_MAX THEN retx ELSE Append(retx, q)

\* Mutant: a chunk the sender has not reached is queued too.
dh_xfer_handle_retransmit_past ==
    /\ FromBack("RETRANSMIT")
    /\ LET m == Head(back)
       IN  Pump(IF Mine(m)
                THEN [tx EXCEPT !.recovery_credit_due = TRUE, !.need_done = TRUE,
                                !.retx = tx_queue_retransmit(@, m.seq)]
                ELSE tx)
    /\ UNCHANGED <<next_id, seal_tx, seals, pending, reoffer, far, copies, faults, history>>

\* A chunk past the sender's frontier is not queued: what helps there is the credit behind it.
dh_xfer_handle_retransmit ==
    /\ FromBack("RETRANSMIT")
    /\ LET m == Head(back)
       IN  Pump(IF Mine(m)
                THEN [tx EXCEPT !.recovery_credit_due = TRUE, !.need_done = TRUE,
                                !.retx = IF m.seq < tx.next_seq
                                         THEN tx_queue_retransmit(@, m.seq) ELSE @]
                ELSE tx)
    /\ UNCHANGED <<next_id, seal_tx, seals, pending, reoffer, far, copies, faults, history>>

\* Mutant: every grant is added.
credited_again(t, n) ==
    [t EXCEPT !.credits = @ + n, !.opening_credit_accepted = TRUE, !.recovery_credit_due = FALSE]

\* A whole window with no retransmission behind it opens the transfer, once.
credited(t, n) ==
    LET opening == t.streaming /\ n = WINDOW /\ ~t.recovery_credit_due
    IN  [t EXCEPT !.credits = IF ~opening THEN @ + n
                              ELSE IF t.opening_credit_accepted THEN @
                              ELSE IF @ < WINDOW THEN Min({@ + n, WINDOW}) ELSE @,
                  !.opening_credit_accepted = @ \/ opening,
                  !.recovery_credit_due = FALSE]

dh_xfer_handle_credit ==
    /\ FromBack("CREDIT")
    /\ LET m == Head(back) IN Pump(IF Mine(m) THEN credited(tx, m.credits) ELSE tx)
    /\ UNCHANGED <<next_id, seal_tx, seals, pending, reoffer, far, copies, faults, history>>

\* The receipt counts only once every chunk has been emitted.
dh_xfer_handle_received ==
    /\ FromBack("RECEIVED")
    /\ IF Mine(Head(back)) /\ dh_xfer_tx_awaiting_receipt
       THEN tx' = tx_reset /\ confirmed' = confirmed \cup {tx.copy}
       ELSE UNCHANGED <<tx, confirmed>>
    /\ UNCHANGED <<next_id, seal_tx, seals, pending, reoffer, far, out, copies, faults,
                   delivered, ended, asked>>

CancelAtCopySide ==
    /\ FromBack("CANCEL")
    /\ IF Mine(Head(back))
       THEN tx' = tx_reset /\ ended' = ended \cup {tx.copy}
       ELSE UNCHANGED <<tx, ended>>
    /\ UNCHANGED <<next_id, seal_tx, seals, pending, reoffer, far, out, copies, faults,
                   delivered, confirmed, asked>>

(***************************************************************************)
(* SEAL_ACCEPT for the seal on offer makes it live.  What waited for it    *)
(* goes out now: the transfer a stale seal interrupted, under a new id, or *)
(* the parked copy, which supersedes it.                                   *)
(***************************************************************************)
on_seal_accepted ==
    /\ FromBack("SEAL_ACCEPT")
    /\ LET m == Head(back)
           live == [seal_tx EXCEPT !.key = m.key, !.offered = FALSE, !.live = TRUE]
           current == [copy |-> tx.copy, kind |-> tx.kind]
       IN  \/ /\ seal_tx.offered /\ m.id = seal_tx.id
              /\ seal_tx' = live /\ reoffer' = FALSE /\ pending' = NoCopy
              /\ IF pending # NoCopy
                 THEN dh_xfer_offer(pending) /\ ended' = ended \cup Held(tx, NoCopy)
                 ELSE /\ IF reoffer /\ tx.active
                         THEN dh_xfer_offer(current) ELSE UNCHANGED <<tx, next_id>>
                      /\ UNCHANGED ended
              /\ out' = IF tx' # tx THEN Append(out, Offer(tx', live)) ELSE out
           \/ /\ ~(seal_tx.offered /\ m.id = seal_tx.id)
              /\ UNCHANGED <<side, out, ended>>
    /\ UNCHANGED <<far, seals, copies, faults, delivered, confirmed, asked>>

\* The far helper holds no key for our seal: drop it, and offer another if something waits.
on_seal_stale ==
    /\ FromBack("SEAL_STALE")
    /\ LET m == Head(back)
           current == (seal_tx.live \/ seal_tx.offered) /\ m.id = seal_tx.id
           waiting == pending # NoCopy \/ tx.active
       IN  \/ /\ current /\ waiting
              /\ reoffer' = (reoffer \/ pending = NoCopy)
              /\ seals' = seals + 1
              /\ seal_tx' = [dh_seal_tx_init EXCEPT !.id = seals + 1, !.offered = TRUE]
              /\ out' = Append(out, Frame("SEAL_OFFER", seals + 1))
           \/ /\ current /\ ~waiting
              /\ seal_tx' = dh_seal_tx_init
              /\ UNCHANGED <<reoffer, seals, out>>
           \/ /\ ~current
              /\ UNCHANGED <<reoffer, seal_tx, seals, out>>
    /\ UNCHANGED <<tx, next_id, pending, far, copies, faults, history>>
-----------------------------------------------------------------------------
(* The paste side. *)

\* Frame i arrives: the oldest one, or the next one when one of the two is a chunk.
Arrives(i) ==
    /\ i \in DOMAIN out /\ out' = RemoveAt(out, i)
    /\ \/ i = 1 /\ UNCHANGED faults
       \/ /\ i = 2 /\ "CHUNK" \in {out[1].type, out[2].type}
          /\ Fault

\* A sealed frame opens under the key it was sealed with; another id is answered
\* SEAL_STALE, and the right id under another key is dropped.
Opens(m) == seal_rx.id = m.seal /\ seal_rx.key = m.key
Stale(m) == IF seal_rx.id = m.seal THEN <<>> ELSE <<Frame("SEAL_STALE", m.seal)>>

\* Mutant: a fresh seal leaves the offer ordering as it was.
on_seal_offered_keeps(m) ==
    /\ m.type = "SEAL_OFFER"
    /\ IF seal_rx.id = m.id
       THEN back' = Append(back, SealAccept(m.id, seal_rx.key)) /\ UNCHANGED <<seal_rx, seals>>
       ELSE /\ seals' = seals + 1 /\ seal_rx' = [id |-> m.id, key |-> seals + 1]
            /\ back' = Append(back, SealAccept(m.id, seals + 1))
    /\ UNCHANGED <<side, rx, rx_buf, copies, history>>

(***************************************************************************)
(* on_seal_offered: a repeat of the offer held is answered as before; a    *)
(* fresh one draws a new key and forgets the incoming direction, offer     *)
(* ordering included (dh_xfer_rx_seal_replaced).                           *)
(***************************************************************************)
on_seal_offered(m) ==
    /\ m.type = "SEAL_OFFER"
    /\ \/ /\ seal_rx.id = m.id
          /\ back' = Append(back, SealAccept(m.id, seal_rx.key))
          /\ UNCHANGED <<rx, seal_rx, seals>>
       \/ /\ seal_rx.id # m.id
          /\ seals' = seals + 1
          /\ seal_rx' = [id |-> m.id, key |-> seals + 1]
          /\ back' = Append(back, SealAccept(m.id, seals + 1))
          /\ rx' = rx_forget
    /\ UNCHANGED <<side, rx_buf, copies, history>>

\* Mutant: a newer offer inherits the chunks of the transfer it supersedes.
handle_offer_keeps(r, m) ==
    LET newer == ~r.seen_offer \/ serial_newer(m.id, r.id)
    IN  [rx |-> IF newer THEN [r EXCEPT !.seen_offer = TRUE, !.id = m.id, !.copy = m.copy,
                                        !.active = m.kind # "big", !.lazy = m.kind = "lazy",
                                        !.completed = FALSE]
                ELSE r,
         out |-> IF newer /\ m.kind = "eager" THEN Opening(m.id) ELSE <<>>]

(***************************************************************************)
(* handle_offer: a repeat is answered only while nothing has arrived, an   *)
(* older offer is ignored, a newer one supersedes whatever was arriving    *)
(* even when it is then refused.  A lazy one is held for the user.         *)
(***************************************************************************)
handle_offer(r, m) ==
    LET repeat == r.seen_offer /\ m.id = r.id
        older == r.seen_offer /\ ~serial_newer(m.id, r.id)
        fresh == [rx_forget EXCEPT !.seen_offer = TRUE, !.id = m.id, !.copy = m.copy,
                                   !.active = m.kind # "big", !.lazy = m.kind = "lazy"]
    IN  CASE repeat -> [rx |-> r, out |-> IF r.active /\ ~r.any_seen /\ ~r.lazy
                                         THEN Opening(m.id) ELSE <<>>]
          [] ~repeat /\ older -> [rx |-> r, out |-> <<>>]
          [] OTHER -> [rx |-> fresh, out |-> IF m.kind = "big" THEN <<Frame("CANCEL", m.id)>>
                                            ELSE IF m.kind = "lazy" THEN <<>>
                                            ELSE Opening(m.id)]

on_offer(m) ==
    /\ m.type = "OFFER"
    /\ LET h == handle_offer(rx, m)
       IN  IF Opens(m) THEN rx' = h.rx /\ back' = back \o h.out
                       ELSE rx' = rx /\ back' = back \o Stale(m)
    /\ UNCHANGED <<side, seal_rx, seals, rx_buf, copies, history>>

\* The user accepts a held offer.
dh_xfer_request_lazy ==
    /\ rx.active /\ rx.lazy
    /\ rx' = [rx EXCEPT !.lazy = FALSE]
    /\ back' = back \o Opening(rx.id)
    /\ UNCHANGED <<side, seal_rx, seals, rx_buf, out, copies, faults, history>>

\* Ask again for the chunks in S, lowest first, with one grant that covers them all.
Ask(id, S) ==
    LET nth(i) == CHOOSE q \in S : Cardinality({p \in S : p < q}) = i - 1
    IN  IF S = {} THEN <<>>
        ELSE [i \in 1 .. Cardinality(S) |-> Retransmit(id, nth(i))]
                 \o <<Credit(id, Cardinality(S))>>

rx_complete(r) == [r EXCEPT !.active = FALSE, !.completed = TRUE]

(***************************************************************************)
(* dh_xfer_handle_chunk.  A duplicate gives its credit back; a damaged     *)
(* chunk is asked for again; the last one missing completes the transfer,  *)
(* and any other is paid for once half a window has gathered.              *)
(***************************************************************************)
handle_chunk(r, m) ==
    LET got == [r EXCEPT !.received = @ \cup {m.seq}, !.requested = @ \ {m.seq},
                         !.max_seq_seen = IF r.any_seen THEN Max({@, m.seq}) ELSE m.seq,
                         !.any_seen = TRUE, !.ungranted = @ + 1]
        paid == got.ungranted >= WINDOW \div 2
    IN  CASE m.seq \in r.received -> [rx |-> r, out |-> <<Credit(r.id, 1)>>]
          [] m.seq \notin r.received /\ ~m.intact ->
                [rx |-> [r EXCEPT !.requested = @ \cup {m.seq},
                                  !.requested_stale = @ \ {m.seq}],
                 out |-> Ask(r.id, {m.seq})]
          [] m.seq \notin r.received /\ m.intact /\ got.received = Seqs ->
                [rx |-> [rx_complete(got) EXCEPT !.ungranted = r.ungranted],
                 out |-> <<Frame("RECEIVED", r.id)>>]
          [] OTHER ->
                [rx |-> IF paid THEN [got EXCEPT !.ungranted = 0] ELSE got,
                 out |-> IF paid THEN <<Credit(r.id, got.ungranted)>> ELSE <<>>]

\* What was asked again goes into the history, pair by pair.
Named(sent) == {<<rx.copy, f.id>> : f \in {g \in Range(sent) : g.type = "RETRANSMIT"}}

on_chunk(m) ==
    /\ m.type = "CHUNK"
    /\ LET wanted == rx.active /\ ~rx.lazy /\ rx.id = m.id
           h == handle_chunk(rx, m)
           fills == m.intact /\ m.seq \notin rx.received
       IN  \/ /\ Opens(m) /\ wanted
              /\ rx' = h.rx /\ back' = back \o h.out
              /\ rx_buf' = IF fills THEN [rx_buf EXCEPT ![m.seq] = m.copy] ELSE rx_buf
              /\ asked' = asked \cup Named(h.out)
              /\ delivered' = IF h.rx.completed
                              THEN delivered \cup {<<rx.copy, rx.id, rx_buf'>>} ELSE delivered
           \/ /\ Opens(m) /\ ~wanted
              /\ UNCHANGED <<rx, back, rx_buf, asked, delivered>>
           \/ /\ ~Opens(m)
              /\ back' = back \o Stale(m)
              /\ UNCHANGED <<rx, rx_buf, asked, delivered>>
    /\ UNCHANGED <<side, seal_rx, seals, copies, confirmed, ended>>

(***************************************************************************)
(* dh_xfer_handle_done: the receipt again for what is complete; otherwise  *)
(* every hole is a loss, except that one asked for since the last DONE is  *)
(* left alone once, for its retransmission may be behind this DONE.        *)
(***************************************************************************)
handle_done(r) ==
    LET holes == Seqs \ r.received
        young == (holes \cap r.requested) \ r.requested_stale
        again == holes \ young
    IN  [rx |-> [r EXCEPT !.requested = @ \cup again, !.requested_stale = @ \cup holes],
         out |-> Ask(r.id, again)]

\* Mutant: DONE for the offer on record is taken as the end of it.
on_done_trusts(m) ==
    /\ m.type = "DONE"
    /\ back' = IF rx.seen_offer /\ rx.id = m.id
               THEN Append(back, Frame("RECEIVED", m.id)) ELSE back
    /\ UNCHANGED <<side, rx, asked, seal_rx, seals, rx_buf, copies, delivered, confirmed, ended>>

on_done(m) ==
    /\ m.type = "DONE"
    /\ LET finished == rx.completed /\ rx.id = m.id
           arriving == rx.active /\ ~rx.lazy /\ rx.id = m.id
           h == handle_done(rx)
       IN  \/ /\ finished
              /\ back' = Append(back, Frame("RECEIVED", m.id))
              /\ UNCHANGED <<rx, asked>>
           \/ /\ arriving
              /\ rx' = h.rx /\ back' = back \o h.out
              /\ asked' = asked \cup Named(h.out)
           \/ /\ ~finished /\ ~arriving
              /\ UNCHANGED <<rx, back, asked>>
    /\ UNCHANGED <<side, seal_rx, seals, rx_buf, copies, delivered, confirmed, ended>>

CancelAtPasteSide(m) ==
    /\ m.type = "CANCEL"
    /\ IF rx.active /\ rx.id = m.id
       THEN rx' = [rx EXCEPT !.active = FALSE] /\ ended' = ended \cup {rx.copy}
       ELSE UNCHANGED <<rx, ended>>
    /\ UNCHANGED <<side, seal_rx, seals, rx_buf, back, copies, delivered, confirmed, asked>>
-----------------------------------------------------------------------------
(* The timers: the services' tick.  Each fires after a quiet interval. *)

Quiet == out = <<>> /\ back = <<>>
Due == \/ Quiet /\ UNCHANGED faults
       \/ ~Quiet /\ Fault

RetryOffer ==
    /\ dh_xfer_tx_awaiting_request /\ Due
    /\ out' = out \o sealed_offer(tx, seal_tx)
    /\ UNCHANGED <<side, far, seals, back, copies, history>>

RetryDone ==
    /\ dh_xfer_tx_awaiting_receipt /\ Due
    /\ out' = Append(out, Frame("DONE", tx.id))
    /\ UNCHANGED <<side, far, seals, back, copies, history>>

\* resend_seal_offer: only a parked copy keeps a seal offer being repeated.
RetrySeal ==
    /\ pending # NoCopy /\ ~seal_tx.live /\ Quiet
    /\ IF seal_tx.offered
       THEN out' = Append(out, Frame("SEAL_OFFER", seal_tx.id)) /\ UNCHANGED <<seal_tx, seals>>
       ELSE offer_seal
    /\ UNCHANGED <<tx, next_id, pending, reoffer, far, back, copies, faults, history>>

\* Mutant: only holes below the frontier are asked for.
dh_xfer_sweep_rx_below(r) ==
    LET below == {q \in Seqs : r.any_seen /\ q < r.max_seq_seen} \ r.received
    IN  [rx |-> [r EXCEPT !.requested = @ \cup below],
         out |-> (IF r.any_seen THEN <<>> ELSE <<Frame("REQUEST", r.id)>>) \o Ask(r.id, below)]

(***************************************************************************)
(* dh_xfer_sweep_rx: a receive that stopped asks for every hole below the  *)
(* frontier and for a window's worth past it, or, when nothing came at     *)
(* all, for the stream itself too.                                         *)
(***************************************************************************)
dh_xfer_sweep_rx(r) ==
    LET from == IF r.any_seen THEN r.max_seq_seen ELSE 0
        below == {q \in Seqs : r.any_seen /\ q < r.max_seq_seen} \ r.received
        past == {q \in Seqs : q >= from} \ r.received
        named == {q \in past : Cardinality({p \in past : p < q}) < WINDOW}
    IN  [rx |-> [r EXCEPT !.requested = @ \cup below \cup named,
                          !.requested_stale = @ \ (below \cup named)],
         out |-> (IF r.any_seen THEN <<>> ELSE <<Frame("REQUEST", r.id)>>)
                 \o Ask(r.id, below \cup named)]

SweepRx ==
    /\ rx.active /\ ~rx.lazy /\ Due
    /\ LET h == dh_xfer_sweep_rx(rx)
       IN  rx' = h.rx /\ back' = back \o h.out /\ asked' = asked \cup Named(h.out)
    /\ UNCHANGED <<side, seal_rx, seals, rx_buf, out, copies, delivered, confirmed, ended>>
-----------------------------------------------------------------------------
(* What interrupts a transfer; every one is counted in faults. *)

\* abort_send; or sending was switched off, which also forgets the re-offer.
dh_xfer_cancel_tx ==
    /\ tx.active /\ Fault
    /\ tx' = tx_reset /\ pending' = NoCopy /\ reoffer' \in {reoffer, FALSE}
    /\ out' = Append(out, Frame("CANCEL", tx.id))
    /\ ended' = ended \cup Held(tx, pending)
    /\ UNCHANGED <<next_id, seal_tx, far, seals, back, copies, delivered, confirmed,
                   asked>>

\* abort_receive, a held offer declined, or the thirty-second stall deadline.
dh_xfer_cancel_rx ==
    /\ rx.active /\ Fault
    /\ rx' = [rx EXCEPT !.active = FALSE]
    /\ back' = Append(back, Frame("CANCEL", rx.id))
    /\ ended' = ended \cup {rx.copy}
    /\ UNCHANGED <<side, seal_rx, seals, rx_buf, out, copies, delivered, confirmed, asked>>

\* The opposite transfer, whose ids are counted on their own, is cancelled:
\* the id on the wire does not say which direction it means.
OppositeCancel ==
    /\ Fault
    /\ \/ tx.active /\ back' = Append(back, Frame("CANCEL", tx.id)) /\ UNCHANGED out
       \/ rx.active /\ out' = Append(out, Frame("CANCEL", rx.id)) /\ UNCHANGED back
    /\ UNCHANGED <<side, far, seals, copies, history>>

\* No receipt for a minute: the payload is released, and nothing is said.
dh_xfer_expire_tx ==
    /\ dh_xfer_tx_awaiting_receipt /\ Quiet /\ Fault
    /\ tx' = tx_reset /\ ended' = ended \cup {tx.copy}
    /\ UNCHANGED <<next_id, seal_tx, pending, reoffer, far, seals, path, copies, delivered,
                   confirmed, asked>>

\* A copy parked for half a minute, or with sending switched off, is dropped.
DropParked ==
    /\ pending # NoCopy /\ Fault
    /\ pending' = NoCopy /\ ended' = ended \cup {pending.copy}
    /\ UNCHANGED <<tx, next_id, seal_tx, reoffer, far, seals, path, copies, delivered,
                   confirmed, asked>>

\* The copy side's session ends.  The parked copy is kept.
CopySideSessionEnded ==
    /\ Fault
    /\ tx' = tx_reset /\ seal_tx' = dh_seal_tx_init /\ reoffer' = FALSE
    /\ ended' = ended \cup Held(tx, NoCopy)
    /\ UNCHANGED <<next_id, pending, far, seals, path, copies, delivered, confirmed, asked>>

\* Its process restarts: the offer ids begin again at one.
CopySideRestarts ==
    /\ Fault
    /\ tx' = tx_reset /\ seal_tx' = dh_seal_tx_init /\ reoffer' = FALSE
    /\ pending' = NoCopy /\ next_id' = 1
    /\ ended' = ended \cup Held(tx, pending)
    /\ UNCHANGED <<far, seals, path, copies, delivered, confirmed, asked>>

PasteSideSessionEnded ==
    /\ Fault
    /\ rx' = rx_forget /\ seal_rx' = dh_seal_rx_init
    /\ ended' = ended \cup (IF tx.streaming THEN {tx.copy} ELSE {})
                     \cup (IF rx.active THEN {rx.copy} ELSE {})
    /\ UNCHANGED <<side, seals, rx_buf, path, copies, delivered, confirmed, asked>>

\* A frame is lost, or a chunk damaged, on the way.
Lose ==
    /\ Fault
    /\ \/ out # <<>> /\ out' = Tail(out) /\ UNCHANGED back
       \/ back # <<>> /\ back' = Tail(back) /\ UNCHANGED out
       \/ /\ out # <<>> /\ Head(out).type = "CHUNK" /\ Head(out).intact
          /\ out' = [out EXCEPT ![1].intact = FALSE] /\ UNCHANGED back
    /\ UNCHANGED <<side, far, seals, copies, history>>
-----------------------------------------------------------------------------
CopySide ==
    \/ dh_xfer_handle_request \/ dh_xfer_handle_retransmit \/ dh_xfer_handle_credit
    \/ dh_xfer_handle_received \/ CancelAtCopySide \/ on_seal_accepted \/ on_seal_stale

PasteSide ==
    \E i \in {1, 2} :
        /\ Arrives(i)
        /\ \/ on_seal_offered(out[i]) \/ on_offer(out[i]) \/ on_chunk(out[i])
           \/ on_done(out[i]) \/ CancelAtPasteSide(out[i])

CopyTick == RetryOffer \/ RetryDone \/ RetrySeal

Interrupted ==
    \/ dh_xfer_cancel_tx \/ dh_xfer_cancel_rx \/ OppositeCancel \/ dh_xfer_expire_tx \/ DropParked
    \/ CopySideSessionEnded \/ CopySideRestarts \/ PasteSideSessionEnded

Next ==
    \/ \E kind \in CopyKinds : Copy(kind)
    \/ CopySide \/ PasteSide \/ dh_xfer_request_lazy
    \/ CopyTick \/ SweepRx
    \/ Interrupted \/ Lose

Spec == Init /\ [][Next]_vars

(***************************************************************************)
(* The oldest frame on either path arrives unless it is lost, and a helper *)
(* that is running ticks: each timer keeps firing for as long as what it   *)
(* waits for does not happen.  Nobody has to copy, accept a held offer or  *)
(* give up.                                                                *)
(***************************************************************************)
Answered == back # <<>> /\ back' = Tail(back)

Fairness ==
    /\ WF_out(Arrives(1)) /\ WF_back(Answered)
    /\ SF_vars(CopyTick) /\ SF_vars(SweepRx)

FairSpec == Spec /\ Fairness
-----------------------------------------------------------------------------
(***************************************************************************)
(* Every variable keeps its type; the retransmit ring holds no chunk twice *)
(* and none the sender has not reached (tx_queue_retransmit).              *)
(***************************************************************************)
TypeOK ==
    /\ tx.id \in 0 .. (ID_MOD - 1) /\ tx.copy \in 0 .. MaxCopies
    /\ tx.next_seq \in 0 .. NCHUNKS /\ tx.credits \in Nat
    /\ IsInjective(tx.retx) /\ Len(tx.retx) <= RETX_MAX
    /\ Range(tx.retx) \subseteq 0 .. (tx.next_seq - 1)
    /\ rx.id \in 0 .. (ID_MOD - 1) /\ rx.received \subseteq Seqs
    /\ rx.requested \subseteq Seqs \ rx.received /\ rx.requested_stale \subseteq Seqs
    /\ next_id \in Ids /\ seals \in Nat
    /\ seal_tx.id \in 0 .. seals /\ seal_rx.id \in 0 .. seals
    /\ ~(seal_tx.offered /\ seal_tx.live)
    /\ pending.copy \in 0 .. MaxCopies /\ rx_buf \in [Seqs -> 0 .. MaxCopies]
    /\ copies \in 0 .. MaxCopies /\ faults \in 0 .. MaxFaults

(***************************************************************************)
(* What is handed to the pasteboard is one copy, whole, whatever was lost, *)
(* damaged, superseded or restarted meanwhile, and one offer is handed up  *)
(* at most once (dh_xfer_handle_chunk completing on the last chunk, the id *)
(* ordering in handle_offer, dh_xfer_rx_seal_replaced).                    *)
(***************************************************************************)
DeliveredWhole ==
    /\ \A d \in delivered : \A q \in Seqs : d[3][q] = d[1]
    /\ \A d, e \in delivered : d[1] = e[1] /\ d[2] = e[2] => d = e

(***************************************************************************)
(* The copy side drops its bytes on a receipt only for a copy the paste    *)
(* side has whole, although receipts name ids that a restart uses again    *)
(* (dh_xfer_handle_received).                                              *)
(***************************************************************************)
ReceiptTrue == confirmed \subseteq {d[1] : d \in delivered}

(***************************************************************************)
(* An offer for the id the paste side has on record is for the same copy:  *)
(* the PROTOCOL_ERROR of handle_offer, which ends the session, is never    *)
(* earned by a restart, a fresh seal or a repeated offer.                  *)
(***************************************************************************)
NoIdentityConflict ==
    \A i \in DOMAIN out :
        LET m == out[i]
        IN  (m.type = "OFFER" /\ Opens(m) /\ rx.seen_offer /\ m.id = rx.id) => m.copy = rx.copy

(***************************************************************************)
(* Until a retransmission is asked for, the chunks in flight and the credit*)
(* to send more stay within the window the boards' queues are sized for,   *)
(* however many times the offer, the request and its opening grant were    *)
(* repeated (tx_start_streaming, dh_xfer_handle_credit).                   *)
(***************************************************************************)
BurstFits ==
    LET mine == {i \in DOMAIN out : /\ out[i].type = "CHUNK"
                                    /\ out[i].id = tx.id /\ out[i].copy = tx.copy}
    IN  tx.active /\ tx.streaming /\ <<tx.copy, tx.id>> \notin asked
            => tx.credits + Cardinality(mine) <= WINDOW

\* The copies on offer, or parked, that need nobody's consent; and what became of them.
Wanted ==
    (IF tx.active /\ tx.kind = "eager" THEN {tx.copy} ELSE {})
        \cup (IF pending.kind = "eager" THEN {pending.copy} ELSE {})
Settled == Wanted \subseteq ended \cup {d[1] : d \in delivered}

(***************************************************************************)
(* Whatever frames are lost, request, grant, chunk, DONE or seal, a copy   *)
(* that nobody cancels, replaces or gives up on reaches the paste side:    *)
(* the two ends never wait for each other (dh_xfer_sweep_rx and the        *)
(* services' retries).  A transfer waiting to be re-offered under a fresh  *)
(* seal is left to OfferKeepsRetrying.                                     *)
(***************************************************************************)
Delivers == ~Settled ~> (Settled \/ reoffer)

(***************************************************************************)
(* An offer that is never accepted keeps being sent until it is            *)
(* superseded, cancelled or the link drops.                                *)
(***************************************************************************)
OfferKeepsRetrying ==
    \A c \in Copies :
        (dh_xfer_tx_awaiting_request /\ tx.copy = c)
            ~> (\/ \E i \in DOMAIN out : out[i].type = "OFFER" /\ out[i].copy = c
                \/ ~(dh_xfer_tx_awaiting_request /\ tx.copy = c))
=============================================================================
