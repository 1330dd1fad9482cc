----------------------------- MODULE XferProofs -----------------------------
(***************************************************************************)
(* Proofs about Xfer: its types; that an offer on record is never met by   *)
(* another copy under its id; that what is delivered is one copy, whole;   *)
(* that a receipt is believed only for what was delivered; and that the    *)
(* opening burst stays within the window.                                  *)
(***************************************************************************)
EXTENDS Xfer, FiniteSetTheorems, SequenceTheorems, TLAPS

-----------------------------------------------------------------------------
(***************************************************************************)
(* The types, in the form the proofs need: which fields a record has, and  *)
(* what the frames on the two paths carry.                                 *)
(***************************************************************************)
Kinds == {"eager", "lazy", "big", "none"}

TxRecords ==
    [active : BOOLEAN, streaming : BOOLEAN, need_done : BOOLEAN, id : 0 .. (ID_MOD - 1),
     copy : 0 .. MaxCopies, kind : Kinds, next_seq : 0 .. NCHUNKS, credits : Nat,
     retx : Seq(Seqs), opening_credit_accepted : BOOLEAN, recovery_credit_due : BOOLEAN]

RxRecords ==
    [active : BOOLEAN, lazy : BOOLEAN, seen_offer : BOOLEAN, completed : BOOLEAN,
     id : 0 .. (ID_MOD - 1), copy : 0 .. MaxCopies, received : SUBSET Seqs,
     max_seq_seen : Seqs, any_seen : BOOLEAN, ungranted : Nat,
     requested : SUBSET Seqs, requested_stale : SUBSET Seqs]

Offers == [type : {"OFFER"}, id : Ids, copy : Copies, kind : Kinds, seal : Nat, key : Nat]
Chunks == [type : {"CHUNK"}, id : Ids, seq : Seqs, copy : Copies, seal : Nat, key : Nat,
           intact : BOOLEAN]
OutFrames == Offers \cup Chunks \cup [type : {"SEAL_OFFER", "DONE", "CANCEL"}, id : Nat]

BackFrames ==
    [type : {"REQUEST", "RECEIVED", "CANCEL", "SEAL_STALE"}, id : Nat]
        \cup [type : {"RETRANSMIT"}, id : Nat, seq : Seqs]
        \cup [type : {"CREDIT"}, id : Nat, credits : Nat]
        \cup [type : {"SEAL_ACCEPT"}, id : Nat, key : Nat]

Sealed(m) == m.type \in {"OFFER", "CHUNK"}

\* What is named on the paths has been drawn.
OutOK(m) ==
    /\ Sealed(m) => m.copy <= copies /\ m.seal \in 1 .. seals
    /\ m.type = "SEAL_OFFER" => m.id \in 1 .. seals

BackOK(m) ==
    /\ m.type = "RECEIVED" => m.id \in Ids
    /\ m.type = "SEAL_ACCEPT" => m.id \in 1 .. seals

RingOK(t) ==
    /\ IsInjective(t.retx) /\ Len(t.retx) <= RETX_MAX
    /\ Range(t.retx) \subseteq 0 .. (t.next_seq - 1)

RxOK(r) == r \in RxRecords /\ r.requested \cap r.received = {}

SealsOK ==
    /\ seals \in Nat
    /\ seal_tx \in [id : Nat, key : Nat, offered : BOOLEAN, live : BOOLEAN]
    /\ seal_tx.id \in 0 .. seals /\ ~(seal_tx.offered /\ seal_tx.live)
    /\ seal_tx.offered \/ seal_tx.live => seal_tx.id > 0
    /\ seal_rx \in [id : Nat, key : Nat] /\ seal_rx.id \in 0 .. seals

CopiesOK ==
    /\ copies \in 0 .. MaxCopies /\ faults \in 0 .. MaxFaults /\ reoffer \in BOOLEAN
    /\ pending \in [copy : 0 .. MaxCopies, kind : Kinds]
    /\ pending = NoCopy \/ pending.copy \in 1 .. copies
    /\ tx.active => tx.id \in Ids /\ tx.copy \in 1 .. copies
    /\ rx.seen_offer => rx.id \in Ids /\ rx.copy \in 1 .. copies
    /\ rx.active \/ rx.completed => rx.seen_offer
    /\ ~ (rx.active /\ rx.completed)

TypeInv ==
    /\ tx \in TxRecords /\ RingOK(tx)
    /\ RxOK(rx)
    /\ next_id \in Ids /\ rx_buf \in [Seqs -> 0 .. MaxCopies]
    /\ SealsOK /\ CopiesOK
    /\ out \in Seq(OutFrames) /\ \A m \in Range(out) : OutOK(m)
    /\ back \in Seq(BackFrames) /\ \A m \in Range(back) : BackOK(m)

-----------------------------------------------------------------------------
(***************************************************************************)
(* Identities.  What the sealed frames on their way say is a set of        *)
(* triples: the seal, the id and the copy of it.                           *)
(***************************************************************************)
Names == {<<m.seal, m.id, m.copy>> : m \in {n \in Range(out) : Sealed(n)}}
SealOffers == {m.id : m \in {n \in Range(out) : n.type = "SEAL_OFFER"}}
Accepts == {m.id : m \in {n \in Range(back) : n.type = "SEAL_ACCEPT"}}
Receipts == {m.id : m \in {n \in Range(back) : n.type = "RECEIVED"}}

\* The seals the paste side may hold now or take up later.
Current == {seal_rx.id, seal_tx.id} \cup SealOffers

\* Offers made from the one with id a until the next one has id b.
Steps(a, b) == IF a <= b THEN b - a ELSE b - a + ID_MOD - 1

\* Under one seal an id names one copy.
OneName == \A x, y \in Names : x[1] = y[1] /\ x[2] = y[2] => x[3] = y[3]

\* The paste side's offer is that copy ...
RxNamed ==
    rx.seen_offer =>
        /\ seal_rx.id > 0
        /\ \A x \in Names : x[1] = seal_rx.id /\ x[2] = rx.id => x[3] = rx.copy

\* ... and the copy side's too, under every seal that may still be used.
TxNamed ==
    tx.active =>
        /\ Steps(tx.id, next_id) = 1
        /\ \A x \in Names : x[1] \in Current /\ x[2] = tx.id => x[3] = tx.copy
        /\ rx.seen_offer /\ rx.id = tx.id => rx.copy = tx.copy

\* Nothing goes out under a seal before it is live.
Unused ==
    ~ seal_tx.live =>
        /\ \A x \in Names : x[1] # seal_tx.id
        /\ rx.seen_offer => seal_rx.id # seal_tx.id

\* Under the live seal the ids ascend with the copies, so next_id is not among them.
Ascending ==
    seal_tx.live =>
        /\ \A x \in Names : x[1] = seal_tx.id => Steps(x[2], next_id) \in 1 .. (copies - x[3] + 1)
        /\ rx.seen_offer /\ seal_rx.id = seal_tx.id
             => Steps(rx.id, next_id) \in 1 .. (copies - rx.copy + 1)
        /\ \A r \in Receipts : Steps(r, next_id) \in 1 .. copies

\* Once the paste side has answered for the copy side's seal it has no other.
Agreed ==
    seal_tx.live \/ seal_tx.id \in Accepts =>
        /\ seal_rx.id \in {0, seal_tx.id}
        /\ SealOffers \subseteq {seal_tx.id}

\* Seal offers arrive in the order they were drawn.
Ordered(s) ==
    \A i, j \in 1 .. Len(s) :
        i < j /\ s[i].type = "SEAL_OFFER" /\ s[j].type = "SEAL_OFFER" => s[i].id <= s[j].id

InOrder ==
    /\ Ordered(out)
    /\ seal_tx.id > 0 => \A q \in SealOffers : q <= seal_tx.id

\* No receipt is behind the answer to the seal offer that is being waited for.
NoReceiptAfter(s, q) ==
    \A i, j \in 1 .. Len(s) :
        ~ (i < j /\ s[i].type = "SEAL_ACCEPT" /\ s[i].id = q /\ s[j].type = "RECEIVED")

ReceiptsFirst == seal_tx.offered => NoReceiptAfter(back, seal_tx.id)

Got == {d[1] : d \in delivered}

ReceiptsTrue ==
    /\ rx.completed => rx.copy \in Got
    /\ tx.active /\ tx.id \in Receipts => tx.copy \in Got
    /\ ReceiptTrue

WholeSoFar ==
    /\ \A q \in rx.received : rx_buf[q] = rx.copy
    /\ \A d \in delivered : /\ d \in Copies \X Ids \X [Seqs -> 0 .. MaxCopies]
                            /\ \A q \in Seqs : d[3][q] = d[1]

NameInv ==
    copies < ID_MOD - 1 =>
        /\ OneName /\ RxNamed /\ TxNamed /\ Unused /\ Ascending /\ Agreed /\ InOrder
        /\ ReceiptsFirst /\ ReceiptsTrue /\ WholeSoFar

-----------------------------------------------------------------------------
(* Sequences, by the elements they hold. *)

LEMMA RangeIn ==
  ASSUME NEW T, NEW s \in Seq(T)
  PROVE  /\ Range(s) \subseteq T
         /\ \A i \in 1 .. Len(s) : s[i] \in Range(s)
         /\ s # <<>> => Head(s) \in Range(s) /\ Head(s) = s[1] /\ Len(s) > 0
  BY DEF Range

LEMMA AppendRange ==
  ASSUME NEW T, NEW s \in Seq(T), NEW e \in T
  PROVE  Append(s, e) \in Seq(T) /\ Range(Append(s, e)) = Range(s) \cup {e}
  <1>1. /\ Append(s, e) \in Seq(T) /\ Len(s) \in Nat /\ DOMAIN s = 1 .. Len(s)
        /\ DOMAIN Append(s, e) = 1 .. Len(s) + 1 /\ Append(s, e)[Len(s) + 1] = e
        /\ \A i \in 1 .. Len(s) : Append(s, e)[i] = s[i]
    OBVIOUS
  <1>2. \A i \in 1 .. Len(s) + 1 : i \in 1 .. Len(s) \/ i = Len(s) + 1
    BY <1>1
  <1>3. 1 .. Len(s) \subseteq 1 .. Len(s) + 1 /\ Len(s) + 1 \in 1 .. Len(s) + 1
    BY <1>1
  <1>4. Range(s) \cup {e} \subseteq Range(Append(s, e))
    BY <1>1, <1>3, Zenon DEF Range
  <1>5. Range(Append(s, e)) \subseteq Range(s) \cup {e}
    BY <1>1, <1>2, Zenon DEF Range
  <1> QED
    BY <1>1, <1>4, <1>5

LEMMA ConcatRange ==
  ASSUME NEW T, NEW s \in Seq(T), NEW t \in Seq(T)
  PROVE  /\ s \o t \in Seq(T) /\ Range(s \o t) = Range(s) \cup Range(t)
         /\ Len(s \o t) = Len(s) + Len(t)
         /\ \A i \in 1 .. Len(s) + Len(t) :
              (s \o t)[i] = IF i <= Len(s) THEN s[i] ELSE t[i - Len(s)]
  <1>1. s \o t \in Seq(T) /\ Len(s \o t) = Len(s) + Len(t) /\ Len(s) \in Nat /\ Len(t) \in Nat
    OBVIOUS
  <1>2. \A i \in 1 .. Len(s) + Len(t) : (s \o t)[i] = IF i <= Len(s) THEN s[i] ELSE t[i - Len(s)]
    OBVIOUS
  <1>3. \A i \in 1 .. Len(t) : (s \o t)[i + Len(s)] = t[i] /\ i + Len(s) \in 1 .. Len(s) + Len(t)
    BY <1>1, <1>2
  <1>4. \A i \in 1 .. Len(s) : (s \o t)[i] = s[i] /\ i \in 1 .. Len(s) + Len(t)
    BY <1>1, <1>2
  <1>5. \A i \in 1 .. Len(s) + Len(t) : i <= Len(s) \/ i - Len(s) \in 1 .. Len(t)
    BY <1>1
  <1>6. DOMAIN (s \o t) = 1 .. Len(s) + Len(t) /\ DOMAIN s = 1 .. Len(s) /\ DOMAIN t = 1 .. Len(t)
    BY <1>1
  <1>7. \A i \in 1 .. Len(s) + Len(t) :
          \/ i \in 1 .. Len(s) /\ (s \o t)[i] = s[i]
          \/ i - Len(s) \in 1 .. Len(t) /\ (s \o t)[i] = t[i - Len(s)]
    BY <1>1, <1>2, <1>5
  <1>8. Range(s) \cup Range(t) \subseteq Range(s \o t)
    <2>1. \A i \in 1 .. Len(s) : s[i] \in Range(s \o t)
      BY <1>4, <1>6, Zenon DEF Range
    <2>2. \A i \in 1 .. Len(t) : t[i] \in Range(s \o t)
      BY <1>3, <1>6, Zenon DEF Range
    <2> QED
      BY <2>1, <2>2, <1>6, Zenon DEF Range
  <1>9. Range(s \o t) \subseteq Range(s) \cup Range(t)
    BY <1>6, <1>7, Zenon DEF Range
  <1> QED
    BY <1>1, <1>2, <1>8, <1>9

LEMMA TailRange ==
  ASSUME NEW T, NEW s \in Seq(T), s # <<>>
  PROVE  /\ Tail(s) \in Seq(T) /\ Range(Tail(s)) \subseteq Range(s)
         /\ Len(Tail(s)) = Len(s) - 1 /\ \A i \in 1 .. Len(s) - 1 : Tail(s)[i] = s[i + 1]
  BY DEF Range

LEMMA RemoveRange ==
  ASSUME NEW T, NEW s \in Seq(T), NEW i \in 1 .. Len(s)
  PROVE  /\ RemoveAt(s, i) \in Seq(T) /\ Range(RemoveAt(s, i)) \subseteq Range(s)
         /\ Len(RemoveAt(s, i)) = Len(s) - 1
         /\ \A j \in 1 .. Len(s) - 1 : RemoveAt(s, i)[j] = IF j < i THEN s[j] ELSE s[j + 1]
  <1> DEFINE a == SubSeq(s, 1, i - 1)
             b == SubSeq(s, i + 1, Len(s))
  <1>1. a \in Seq(T) /\ Len(a) = i - 1 /\ \A j \in 1 .. i - 1 : a[j] = s[j]
    BY SubSeqProperties
  <1>2. b \in Seq(T) /\ Len(b) = Len(s) - i /\ \A j \in 1 .. Len(s) - i : b[j] = s[i + j]
    <2>1. i + 1 <= Len(s) + 1 /\ Len(s) \in Nat
      OBVIOUS
    <2>2. \A j \in i + 1 .. Len(s) : s[j] \in T
      OBVIOUS
    <2>3. /\ b \in Seq(T) /\ Len(b) = IF i + 1 <= Len(s) THEN Len(s) - (i + 1) + 1 ELSE 0
          /\ \A j \in 1 .. Len(s) - (i + 1) + 1 : b[j] = s[(i + 1) + j - 1]
      BY <2>1, <2>2, SubSeqProperties
    <2>4. Len(s) - (i + 1) + 1 = Len(s) - i /\ \A j \in 1 .. Len(s) - i : (i + 1) + j - 1 = i + j
      BY <2>1
    <2>5. Len(b) = Len(s) - i
      BY <2>1, <2>3
    <2>6. \A j \in 1 .. Len(s) - i : b[j] = s[i + j]
      <3> HIDE DEF b
      <3> TAKE j \in 1 .. Len(s) - i
      <3>1. j \in 1 .. Len(s) - (i + 1) + 1 /\ (i + 1) + j - 1 = i + j
        BY <2>4
      <3> QED
        BY <2>3, <3>1
    <2> QED
      BY <2>3, <2>5, <2>6
  <1> HIDE DEF a, b
  <1>3. a \o b \in Seq(T) /\ Len(a \o b) = Len(s) - 1 /\ Len(s) \in Nat
    <2>1. a \o b \in Seq(T) /\ Len(a \o b) = Len(a) + Len(b)
      BY <1>1, <1>2, ConcatRange
    <2> QED
      BY <2>1, <1>1, <1>2
  <1>4. \A j \in 1 .. Len(s) - 1 : (a \o b)[j] = IF j < i THEN s[j] ELSE s[j + 1]
    <2> TAKE j \in 1 .. Len(s) - 1
    <2>1. (a \o b)[j] = IF j <= Len(a) THEN a[j] ELSE b[j - Len(a)]
      BY <1>1, <1>2
    <2>2. CASE j < i
      BY <2>1, <2>2, <1>1
    <2>3. CASE j >= i
      <3>1. j - Len(a) = j - i + 1 /\ j - i + 1 \in 1 .. Len(s) - i /\ ~ (j <= Len(a))
        BY <2>3, <1>1
      <3>2. b[j - i + 1] = s[i + (j - i + 1)] /\ i + (j - i + 1) = j + 1
        BY <1>2, <3>1
      <3> QED
        BY <2>1, <2>3, <3>1, <3>2
    <2> QED
      BY <2>2, <2>3, <1>3
  <1>5. RemoveAt(s, i) = a \o b
    BY DEF RemoveAt, a, b
  <1>6. Range(a \o b) \subseteq Range(s)
    <2>1. DOMAIN (a \o b) = 1 .. Len(s) - 1 /\ DOMAIN s = 1 .. Len(s)
      BY <1>3
    <2>2. \A j \in 1 .. Len(s) - 1 : \E k \in 1 .. Len(s) : (a \o b)[j] = s[k]
      <3> TAKE j \in 1 .. Len(s) - 1
      <3>1. j \in 1 .. Len(s) /\ j + 1 \in 1 .. Len(s)
        BY <1>3
      <3> QED
        BY <3>1, <1>4
    <2> QED
      BY <2>1, <2>2, Zenon DEF Range
  <1> QED
    BY <1>3, <1>4, <1>5, <1>6

LEMMA MinOf ==
  ASSUME NEW S, NEW x \in S, \A y \in S : x <= y
  PROVE  Min(S) \in S /\ \A y \in S : Min(S) <= y
  BY DEF Min

LEMMA MaxOf ==
  ASSUME NEW S, NEW x \in S, \A y \in S : x >= y
  PROVE  Max(S) \in S /\ \A y \in S : Max(S) >= y
  BY DEF Max

LEMMA MinTwo ==
  ASSUME NEW a \in Int, NEW b \in Int
  PROVE  Min({a, b}) = IF a <= b THEN a ELSE b
  <1>1. CASE a <= b
    BY <1>1, MinOf
  <1>2. CASE b < a
    BY <1>2, MinOf
  <1> QED
    BY <1>1, <1>2

LEMMA MaxTwo ==
  ASSUME NEW a \in Int, NEW b \in Int
  PROVE  Max({a, b}) = IF a >= b THEN a ELSE b
  <1>1. CASE a >= b
    BY <1>1, MaxOf
  <1>2. CASE b > a
    BY <1>2, MaxOf
  <1> QED
    BY <1>1, <1>2

LEMMA MinThree ==
  ASSUME NEW a \in Int, NEW b \in Int, NEW c \in Int
  PROVE  /\ Min({a, b, c}) \in {a, b, c}
         /\ Min({a, b, c}) <= a /\ Min({a, b, c}) <= b /\ Min({a, b, c}) <= c
  <1>1. \E x \in {a, b, c} : \A y \in {a, b, c} : x <= y
    OBVIOUS
  <1> QED
    BY <1>1, MinOf

LEMMA SomeSeqs ==
  ASSUME NEW S \in SUBSET Seqs
  PROVE  IsFiniteSet(S) /\ Cardinality(S) \in Nat /\ S \subseteq Int
  <1>1. Seqs \subseteq Int /\ 0 \in Int /\ NCHUNKS - 1 \in Int
    BY XferAssumption DEF Seqs
  <1>2. IsFiniteSet(Seqs)
    BY <1>1, FS_Interval DEF Seqs
  <1>3. IsFiniteSet(S)
    BY <1>2, FS_Subset
  <1> QED
    BY <1>1, <1>3, FS_CardinalityType

(* Every chunk of S has its place among them. *)
LEMMA NthExists ==
  ASSUME NEW S \in SUBSET Seqs, NEW i \in 1 .. Cardinality(S)
  PROVE  \E q \in S : Cardinality({p \in S : p < q}) = i - 1
  <1> DEFINE below(q) == {p \in S : p < q}
             n == Cardinality(S)
             place == [q \in S |-> Cardinality(below(q))]
  <1>1. IsFiniteSet(S) /\ n \in Nat /\ S \subseteq Int
    BY SomeSeqs
  <1>2. \A q \in S : IsFiniteSet(below(q)) /\ Cardinality(below(q)) \in Nat
    BY <1>1, FS_Subset, FS_CardinalityType
  <1>3. \A q \in S : Cardinality(below(q)) < n
    <2> TAKE q \in S
    <2>1. below(q) \in SUBSET S /\ below(q) # S
      BY <1>1
    <2>2. Cardinality(below(q)) <= n /\ Cardinality(below(q)) # n
      BY <1>1, <2>1, FS_Subset
    <2> QED
      BY <1>1, <1>2, <2>2
  <1>4. \A q, r \in S : q < r => Cardinality(below(q)) < Cardinality(below(r))
    <2> SUFFICES ASSUME NEW q \in S, NEW r \in S, q < r
                 PROVE  Cardinality(below(q)) < Cardinality(below(r))
      OBVIOUS
    <2>1. \A p \in S : p < q => p < r
      BY <1>1
    <2>2. below(q) \in SUBSET below(r)
      BY <2>1
    <2>3. q \in below(r) /\ q \notin below(q)
      BY <1>1
    <2>4. below(q) # below(r)
      BY <2>3
    <2>5. IsFiniteSet(below(r)) /\ Cardinality(below(r)) \in Nat /\ Cardinality(below(q)) \in Nat
      BY <1>2
    <2> HIDE DEF below
    <2>6. Cardinality(below(q)) <= Cardinality(below(r))
          /\ Cardinality(below(q)) # Cardinality(below(r))
      BY <2>2, <2>4, <2>5, FS_Subset
    <2> QED
      BY <2>5, <2>6
  <1>5. place \in [S -> 0 .. n - 1]
    BY <1>1, <1>2, <1>3
  <1>6. \A q, r \in S : place[q] = place[r] => q = r
    <2> SUFFICES ASSUME NEW q \in S, NEW r \in S, place[q] = place[r] PROVE q = r
      OBVIOUS
    <2>1. Cardinality(below(q)) = Cardinality(below(r))
      OBVIOUS
    <2>2. ~ (q < r) /\ ~ (r < q)
      <3>1. Cardinality(below(q)) \in Nat /\ Cardinality(below(r)) \in Nat
        BY <1>2
      <3>2. /\ q < r => Cardinality(below(q)) < Cardinality(below(r))
            /\ r < q => Cardinality(below(r)) < Cardinality(below(q))
        BY <1>4
      <3> HIDE DEF below
      <3> QED
        BY <2>1, <3>1, <3>2
    <2> QED
      BY <1>1, <2>2
  <1> HIDE DEF place
  <1>7. place \in Injection(S, 0 .. n - 1)
    <2>1. DOMAIN place = S
      BY <1>5
    <2> QED
      BY <1>5, <1>6, <2>1, Zenon DEF Injection, IsInjective
  <1>8. IsFiniteSet(0 .. n - 1) /\ Cardinality(0 .. n - 1) = n
    <2>1. 0 \in Int /\ n - 1 \in Int /\ (IF 0 > n - 1 THEN 0 ELSE n - 1 - 0 + 1) = n
      BY <1>1
    <2> HIDE DEF n
    <2> QED
      BY <2>1, FS_Interval
  <1>9. place \in Surjection(S, 0 .. n - 1)
    BY <1>7, <1>8, FS_Injection
  <1>10. i - 1 \in 0 .. n - 1
    BY <1>1
  <1>11. PICK q \in S : place[q] = i - 1
    BY <1>9, <1>10 DEF Surjection
  <1> QED
    BY <1>11 DEF place

\* Either a chunk is asked again or nothing is granted.
Asks(s) == \/ \E f \in Range(s) : f.type = "RETRANSMIT"
           \/ \A f \in Range(s) : f.type # "CREDIT"

(* What Ask sends names chunks of S and ends with a grant. *)
LEMMA AskSends ==
  ASSUME NEW id \in Nat, NEW S \in SUBSET Seqs
  PROVE  /\ Ask(id, S) \in Seq(BackFrames)
         /\ \A m \in Range(Ask(id, S)) : m.type \in {"RETRANSMIT", "CREDIT"} /\ m.id = id
         /\ Asks(Ask(id, S))
         /\ S # {} => \E m \in Range(Ask(id, S)) : m.type = "RETRANSMIT"
  <1> DEFINE nth(i) == CHOOSE q \in S : Cardinality({p \in S : p < q}) = i - 1
             names == [i \in 1 .. Cardinality(S) |-> Retransmit(id, nth(i))]
             grant == <<Credit(id, Cardinality(S))>>
  <1>1. Cardinality(S) \in Nat
    BY SomeSeqs
  <1>2. \A i \in 1 .. Cardinality(S) : nth(i) \in S
    BY NthExists
  <1>3. \A i \in 1 .. Cardinality(S) : Retransmit(id, nth(i)) \in BackFrames
    BY <1>2 DEF Retransmit, BackFrames
  <1> HIDE DEF nth
  <1>4. names \in Seq(BackFrames) /\ Len(names) = Cardinality(S)
    BY <1>1, <1>3
  <1>5. \A m \in Range(names) : m.type = "RETRANSMIT" /\ m.id = id
    BY DEF Range, Retransmit
  <1>6. grant \in Seq(BackFrames) /\ \A m \in Range(grant) : m.type = "CREDIT" /\ m.id = id
    BY <1>1 DEF Range, Credit, BackFrames
  <1>0. S # {} => \E m \in Range(names) : m.type = "RETRANSMIT"
    <2> HAVE S # {}
    <2>1. IsFiniteSet(S) /\ Cardinality(S) # 0
      BY SomeSeqs, FS_EmptySet
    <2>2. 1 \in 1 .. Len(names)
      BY <1>1, <1>4, <2>1
    <2>3. names[1] \in Range(names)
      BY <1>4, <2>2, RangeIn
    <2> HIDE DEF names
    <2> QED
      BY <1>5, <2>3
  <1> HIDE DEF names, grant
  <1>7. names \o grant \in Seq(BackFrames) /\ Range(names \o grant) = Range(names) \cup Range(grant)
    BY <1>4, <1>6, ConcatRange
  <1>8. <<>> \in Seq(BackFrames) /\ Range(<<>>) = {}
    BY DEF Range
  <1>9. Ask(id, S) = IF S = {} THEN <<>> ELSE names \o grant
    BY DEF Ask, names, grant, nth
  <1>10. /\ Asks(Ask(id, S))
         /\ S # {} => \E m \in Range(Ask(id, S)) : m.type = "RETRANSMIT"
    BY <1>0, <1>7, <1>8, <1>9 DEF Asks
  <1> QED
    BY <1>5, <1>6, <1>7, <1>8, <1>9, <1>10

-----------------------------------------------------------------------------
(* The pump. *)

LEMMA RestOfRing ==
  ASSUME NEW s \in Seq(Seqs), NEW a \in 0 .. Len(s), IsInjective(s)
  PROVE  LET r == SubSeq(s, a + 1, Len(s))
         IN  /\ r \in Seq(Seqs) /\ Len(r) = Len(s) - a
             /\ IsInjective(r) /\ Range(r) \subseteq Range(s)
  <1> DEFINE r == SubSeq(s, a + 1, Len(s))
  <1>1. Len(s) \in Nat /\ a + 1 \in Int /\ \A j \in a + 1 .. Len(s) : s[j] \in Seqs
    OBVIOUS
  <1>2. /\ r \in Seq(Seqs) /\ Len(r) = IF a + 1 <= Len(s) THEN Len(s) - (a + 1) + 1 ELSE 0
        /\ \A j \in 1 .. Len(s) - (a + 1) + 1 : r[j] = s[(a + 1) + j - 1]
    BY <1>1, SubSeqProperties
  <1> HIDE DEF r
  <1>3. Len(r) = Len(s) - a /\ DOMAIN r = 1 .. Len(s) - a /\ DOMAIN s = 1 .. Len(s)
    <2>1. Len(r) = Len(s) - a
      BY <1>1, <1>2
    <2>2. DOMAIN r = 1 .. Len(r) /\ DOMAIN s = 1 .. Len(s)
      BY <1>2
    <2> QED
      BY <2>1, <2>2
  <1>4. \A j \in 1 .. Len(s) - a : r[j] = s[a + j] /\ a + j \in 1 .. Len(s)
    <2> TAKE j \in 1 .. Len(s) - a
    <2>1. j \in 1 .. Len(s) - (a + 1) + 1 /\ (a + 1) + j - 1 = a + j /\ a + j \in 1 .. Len(s)
      BY <1>1
    <2> QED
      BY <1>2, <2>1
  <1>5. IsInjective(r)
    <2> SUFFICES ASSUME NEW i \in 1 .. Len(s) - a, NEW j \in 1 .. Len(s) - a, r[i] = r[j]
                 PROVE  i = j
      BY <1>3 DEF IsInjective
    <2>1. a + i \in 1 .. Len(s) /\ a + j \in 1 .. Len(s) /\ s[a + i] = s[a + j]
      BY <1>4
    <2>2. a + i = a + j
      BY <2>1, <1>3, Zenon DEF IsInjective
    <2> QED
      BY <2>2
  <1>6. Range(r) \subseteq Range(s)
    BY <1>3, <1>4, Zenon DEF Range
  <1> QED
    BY <1>2, <1>3, <1>5, <1>6 DEF r

LEMMA PumpEffect ==
  ASSUME NEW t \in TxRecords, RingOK(t)
  PROVE  LET p == dh_xfer_pump(t)
         IN  /\ p.tx \in TxRecords /\ RingOK(p.tx)
             /\ p.tx.active = t.active /\ p.tx.id = t.id /\ p.tx.copy = t.copy
             /\ p.seqs \in Seq(Seqs) /\ p.done \in BOOLEAN
             /\ p.done \/ p.seqs # <<>> => t.active
  <1> DEFINE fresh == [i \in 1 .. (NCHUNKS - t.next_seq) |-> t.next_seq + i - 1]
             owed == t.retx \o fresh
             n == IF t.active /\ t.streaming
                  THEN Min({t.credits, BATCH_MAX, Len(owed)}) ELSE 0
             again == Min({n, Len(t.retx)})
             top == t.next_seq + n - again
             rest == SubSeq(t.retx, again + 1, Len(t.retx))
             done == t.active /\ t.streaming /\ t.need_done
                       /\ rest = <<>> /\ top >= NCHUNKS
  <1>1. /\ t.next_seq \in 0 .. NCHUNKS /\ NCHUNKS \in Nat /\ BATCH_MAX \in Nat
        /\ t.retx \in Seq(Seqs) /\ Len(t.retx) \in Nat /\ t.credits \in Nat
        /\ t.active \in BOOLEAN /\ t.streaming \in BOOLEAN /\ t.need_done \in BOOLEAN
    BY XferAssumption DEF TxRecords
  <1>2. fresh \in Seq(Seqs) /\ Len(fresh) = NCHUNKS - t.next_seq
    <2>1. \A i \in 1 .. (NCHUNKS - t.next_seq) : t.next_seq + i - 1 \in Seqs
      BY <1>1 DEF Seqs
    <2> QED
      BY <2>1, <1>1
  <1> HIDE DEF fresh
  <1>3. owed \in Seq(Seqs) /\ Len(owed) = Len(t.retx) + NCHUNKS - t.next_seq
    <2>1. owed \in Seq(Seqs) /\ Len(owed) = Len(t.retx) + Len(fresh)
      BY <1>1, <1>2, ConcatRange
    <2> QED
      BY <2>1, <1>1, <1>2
  <1> HIDE DEF owed
  <1>4. /\ n \in Nat /\ n <= t.credits /\ n <= Len(owed)
        /\ n > 0 => t.active
    <2>1. CASE t.active /\ t.streaming
      <3> DEFINE m == Min({t.credits, BATCH_MAX, Len(owed)})
      <3>1. t.credits \in Int /\ BATCH_MAX \in Int /\ Len(owed) \in Int /\ Len(owed) \in Nat
        BY <1>1, <1>3
      <3>2. m \in {t.credits, BATCH_MAX, Len(owed)} /\ m <= t.credits /\ m <= Len(owed)
        BY <3>1, MinThree
      <3> HIDE DEF m
      <3>3. n = m
        BY <2>1 DEF m
      <3> HIDE DEF n
      <3> QED
        BY <2>1, <1>1, <3>1, <3>2, <3>3
    <2>2. CASE ~ (t.active /\ t.streaming)
      BY <2>2, <1>1, <1>3
    <2> QED
      BY <2>1, <2>2
  <1> HIDE DEF n
  <1>5. again \in 0 .. Len(t.retx) /\ again <= n /\ top \in 0 .. NCHUNKS
        /\ t.next_seq <= top
    <2>1. n \in Int /\ Len(t.retx) \in Int
      BY <1>1, <1>4
    <2>2. again = IF n <= Len(t.retx) THEN n ELSE Len(t.retx)
      BY <2>1, MinTwo
    <2> HIDE DEF again
    <2> DEFINE k == Len(t.retx)
               left == NCHUNKS - t.next_seq
    <2>3. k \in Nat /\ left \in Nat /\ n \in Nat /\ n <= k + left
      BY <1>1, <1>3, <1>4
    <2>4. again = IF n <= k THEN n ELSE k
      BY <2>2
    <2>5. t.next_seq \in Nat /\ t.next_seq + left = NCHUNKS
      BY <1>1
    <2> HIDE DEF k, left
    <2>6. again \in 0 .. k /\ again <= n /\ n - again \in 0 .. left
      BY <2>3, <2>4
    <2>7. top \in 0 .. NCHUNKS /\ t.next_seq <= top
      BY <2>3, <2>5, <2>6
    <2> QED
      BY <2>6, <2>7 DEF k
  <1> HIDE DEF again, top
  <1>6. /\ rest \in Seq(Seqs) /\ Len(rest) = Len(t.retx) - again
        /\ IsInjective(rest) /\ Range(rest) \subseteq Range(t.retx)
    BY <1>1, <1>5, RestOfRing DEF RingOK
  <1>7. SubSeq(owed, 1, n) \in Seq(Seqs) /\ Len(SubSeq(owed, 1, n)) = n
    <2>1. \A j \in 1 .. n : owed[j] \in Seqs
      BY <1>3, <1>4
    <2>2. 1 \in Int /\ n \in Int /\ (IF 1 <= n THEN n - 1 + 1 ELSE 0) = n
      BY <1>4
    <2> QED
      BY <2>1, <2>2, SubSeqProperties
  <1> HIDE DEF rest
  <1>8. done \in BOOLEAN /\ (done => t.active)
    BY <1>1
  <1> DEFINE emitted == [t EXCEPT !.retx = SubSeq(@, again + 1, Len(@)),
                                  !.next_seq = @ + n - again, !.credits = @ - n]
             e == [t EXCEPT !.retx = rest, !.next_seq = top, !.credits = @ - n]
             final == [e EXCEPT !.need_done = @ /\ ~ done]
  <1>9. emitted = e
    BY DEF rest, top
  <1>10. /\ e \in TxRecords /\ e.retx = rest /\ e.next_seq = top
         /\ e.active = t.active /\ e.id = t.id /\ e.copy = t.copy /\ e.need_done = t.need_done
    <2>1. t.credits - n \in Nat
      BY <1>1, <1>4
    <2> QED
      BY <2>1, <1>5, <1>6 DEF TxRecords
  <1> DEFINE d == t.need_done /\ ~ done
  <1>11. d \in BOOLEAN
    BY <1>1, <1>8
  <1> HIDE DEF done
  <1>12. final = [e EXCEPT !.need_done = d]
    BY <1>10
  <1> HIDE DEF e, d, final
  <1>13. /\ final \in TxRecords /\ final.retx = rest /\ final.next_seq = top
         /\ final.active = t.active /\ final.id = t.id /\ final.copy = t.copy
    BY <1>10, <1>11, <1>12 DEF TxRecords
  <1>14. RingOK(final)
    <2>1. Len(t.retx) <= RETX_MAX /\ RETX_MAX \in Nat /\ Range(t.retx) \subseteq 0 .. (t.next_seq - 1)
      BY XferAssumption DEF RingOK
    <2>2. 0 .. (t.next_seq - 1) \subseteq 0 .. (top - 1)
      BY <1>1, <1>4, <1>5
    <2>3. Len(rest) <= RETX_MAX
      BY <2>1, <1>1, <1>5, <1>6
    <2>4. Range(rest) \subseteq 0 .. (top - 1)
      BY <2>1, <2>2, <1>6
    <2>5. Range(final.retx) \subseteq 0 .. (final.next_seq - 1)
      BY <2>4, <1>13
    <2> QED
      BY <2>3, <2>5, <1>6, <1>13, Zenon DEF RingOK
  <1>15. dh_xfer_pump(t) = [tx |-> final, seqs |-> SubSeq(owed, 1, n), done |-> done]
    <2>1. (t.active /\ t.streaming /\ t.need_done
             /\ emitted.retx = <<>> /\ emitted.next_seq >= NCHUNKS) = done
      BY <1>9, <1>10 DEF done
    <2> QED
      BY <2>1, <1>9 DEF dh_xfer_pump, final, e, emitted, again, n, owed, fresh, top
  <1>16. SubSeq(owed, 1, n) # <<>> => t.active
    BY <1>4, <1>7
  <1> QED
    BY <1>7, <1>8, <1>13, <1>14, <1>15, <1>16

-----------------------------------------------------------------------------
(* The receiver's handlers. *)

\* What a handler leaves of a receive in progress.
SameOffer(r, n) ==
    /\ n.id = r.id /\ n.copy = r.copy /\ n.seen_offer = r.seen_offer /\ n.active = r.active
    /\ n.completed = r.completed /\ n.received = r.received /\ n.lazy = r.lazy
    /\ n.ungranted = r.ungranted

\* A frame that opens the offer id or refuses it.
Opener(f, id) ==
    /\ f.type \in {"REQUEST", "CREDIT", "CANCEL"} /\ f.id = id
    /\ f.type = "CREDIT" => f.credits = WINDOW

LEMMA ForgetOK == RxOK(rx_forget)
  <1>1. 0 \in Seqs /\ 0 \in 0 .. (ID_MOD - 1) /\ 0 \in 0 .. MaxCopies
    BY XferAssumption DEF Seqs
  <1> QED
    BY <1>1 DEF RxOK, RxRecords, rx_forget

LEMMA OneFrame ==
  ASSUME NEW T, NEW f \in T
  PROVE  <<f>> \in Seq(T) /\ Range(<<f>>) = {f}
  BY DEF Range

LEMMA NoFrame ==
  ASSUME NEW T
  PROVE  <<>> \in Seq(T) /\ Range(<<>>) = {}
  BY DEF Range

LEMMA OpeningFrames ==
  ASSUME NEW id \in Nat
  PROVE  /\ Opening(id) \in Seq(BackFrames)
         /\ \A f \in Range(Opening(id)) : Opener(f, id)
  <1>1. Frame("REQUEST", id) \in BackFrames /\ Credit(id, WINDOW) \in BackFrames
    BY XferAssumption DEF BackFrames, Frame, Credit
  <1>2. Opening(id) \in Seq(BackFrames)
    BY <1>1 DEF Opening
  <1>3. Range(Opening(id)) = {Frame("REQUEST", id), Credit(id, WINDOW)}
    BY DEF Range, Opening
  <1> QED
    BY <1>2, <1>3 DEF Frame, Credit, Opener

LEMMA HandleOfferEffect ==
  ASSUME NEW r, RxOK(r), NEW m \in Offers
  PROVE  LET h == handle_offer(r, m)
         IN  /\ RxOK(h.rx) /\ h.out \in Seq(BackFrames)
             /\ \A f \in Range(h.out) : Opener(f, h.rx.id) /\ h.rx.seen_offer
             /\ \/ h.rx = r
                \/ /\ h.rx.seen_offer /\ h.rx.id = m.id /\ h.rx.copy = m.copy
                   /\ h.rx.received = {} /\ ~ h.rx.completed /\ h.rx.ungranted = 0
  <1> DEFINE live == m.kind # "big"
             held == m.kind = "lazy"
             fresh == [rx_forget EXCEPT !.seen_offer = TRUE, !.id = m.id, !.copy = m.copy,
                                        !.active = live, !.lazy = held]
             answer == IF m.kind = "big" THEN <<Frame("CANCEL", m.id)>>
                       ELSE IF m.kind = "lazy" THEN <<>> ELSE Opening(m.id)
             again == IF r.active /\ ~ r.any_seen /\ ~ r.lazy THEN Opening(m.id) ELSE <<>>
  <1>1. m.id \in Nat /\ m.id \in 0 .. (ID_MOD - 1) /\ m.copy \in 0 .. MaxCopies
    BY XferAssumption DEF Offers, Ids, Copies
  <1>2. live \in BOOLEAN /\ held \in BOOLEAN
    OBVIOUS
  <1> HIDE DEF live, held
  <1>3. /\ RxOK(fresh) /\ fresh.seen_offer /\ fresh.id = m.id /\ fresh.copy = m.copy
        /\ fresh.received = {} /\ ~ fresh.completed /\ fresh.ungranted = 0
    <2>1. rx_forget \in RxRecords
      BY ForgetOK DEF RxOK
    <2> QED
      BY <1>1, <1>2, <2>1 DEF RxOK, RxRecords, rx_forget
  <1>4. Frame("CANCEL", m.id) \in BackFrames /\ Opener(Frame("CANCEL", m.id), m.id)
    BY <1>1 DEF BackFrames, Frame, Opener
  <1>5. answer \in Seq(BackFrames) /\ \A f \in Range(answer) : Opener(f, m.id)
    <2>1. /\ <<Frame("CANCEL", m.id)>> \in Seq(BackFrames)
          /\ \A f \in Range(<<Frame("CANCEL", m.id)>>) : Opener(f, m.id)
      BY <1>4, OneFrame
    <2>2. Opening(m.id) \in Seq(BackFrames) /\ \A f \in Range(Opening(m.id)) : Opener(f, m.id)
      BY <1>1, OpeningFrames
    <2>3. <<>> \in Seq(BackFrames) /\ Range(<<>>) = {}
      BY NoFrame
    <2>4. answer \in {<<Frame("CANCEL", m.id)>>, <<>>, Opening(m.id)}
      OBVIOUS
    <2> HIDE DEF answer
    <2> QED
      BY <2>1, <2>2, <2>3, <2>4
  <1>6. again \in Seq(BackFrames) /\ \A f \in Range(again) : Opener(f, m.id)
    BY <1>1, OpeningFrames, NoFrame
  <1>7. <<>> \in Seq(BackFrames) /\ \A f \in Range(<<>>) : Opener(f, r.id) /\ r.seen_offer
    BY NoFrame
  <1>8. \/ r.seen_offer /\ m.id = r.id /\ handle_offer(r, m) = [rx |-> r, out |-> again]
        \/ handle_offer(r, m) \in {[rx |-> r, out |-> <<>>], [rx |-> fresh, out |-> answer]}
    BY DEF handle_offer, fresh, answer, again, live, held
  <1> HIDE DEF fresh, answer, again
  <1> DEFINE h == handle_offer(r, m)
  <1>9. \/ h.rx = r /\ h.out = again /\ r.seen_offer /\ m.id = r.id
        \/ h.rx = r /\ h.out = <<>>
        \/ h.rx = fresh /\ h.out = answer
    BY <1>8
  <1> HIDE DEF h
  <1>10. /\ RxOK(h.rx) /\ h.out \in Seq(BackFrames)
         /\ \A f \in Range(h.out) : Opener(f, h.rx.id) /\ h.rx.seen_offer
    BY <1>3, <1>5, <1>6, <1>7, <1>9, Zenon
  <1>11. \/ h.rx = r
         \/ /\ h.rx.seen_offer /\ h.rx.id = m.id /\ h.rx.copy = m.copy
            /\ h.rx.received = {} /\ ~ h.rx.completed /\ h.rx.ungranted = 0
    BY <1>3, <1>9, Zenon
  <1> QED
    BY <1>10, <1>11 DEF h

LEMMA HandleDoneEffect ==
  ASSUME NEW r, RxOK(r)
  PROVE  LET h == handle_done(r)
         IN  /\ RxOK(h.rx) /\ SameOffer(r, h.rx) /\ h.out \in Seq(BackFrames)
             /\ \A f \in Range(h.out) : f.type \in {"RETRANSMIT", "CREDIT"} /\ f.id = r.id
             /\ Asks(h.out)
  <1> DEFINE holes == Seqs \ r.received
             young == (holes \cap r.requested) \ r.requested_stale
             again == holes \ young
             n == [r EXCEPT !.requested = @ \cup again, !.requested_stale = @ \cup holes]
  <1>1. again \in SUBSET Seqs /\ again \cap r.received = {} /\ holes \in SUBSET Seqs
    OBVIOUS
  <1>2. r.id \in Nat
    BY XferAssumption DEF RxOK, RxRecords
  <1>3. handle_done(r) = [rx |-> n, out |-> Ask(r.id, again)]
    BY DEF handle_done
  <1> HIDE DEF again, holes
  <1>4. RxOK(n) /\ SameOffer(r, n)
    <2>1. n \in RxRecords /\ n.requested = r.requested \cup again /\ SameOffer(r, n)
      BY <1>1 DEF RxOK, RxRecords, SameOffer
    <2> QED
      BY <2>1, <1>1 DEF RxOK, SameOffer
  <1> HIDE DEF n
  <1> QED
    BY <1>1, <1>2, <1>3, <1>4, AskSends

LEMMA SweepEffect ==
  ASSUME NEW r, RxOK(r)
  PROVE  LET h == dh_xfer_sweep_rx(r)
         IN  /\ RxOK(h.rx) /\ SameOffer(r, h.rx) /\ h.out \in Seq(BackFrames)
             /\ \A f \in Range(h.out) : f.type \in {"REQUEST", "RETRANSMIT", "CREDIT"} /\ f.id = r.id
             /\ Asks(h.out)
  <1> DEFINE from == IF r.any_seen THEN r.max_seq_seen ELSE 0
             below == {q \in Seqs : r.any_seen /\ q < r.max_seq_seen} \ r.received
             past == {q \in Seqs : q >= from} \ r.received
             named == {q \in past : Cardinality({p \in past : p < q}) < WINDOW}
             all == below \cup named
             first == IF r.any_seen THEN <<>> ELSE <<Frame("REQUEST", r.id)>>
             n == [r EXCEPT !.requested = @ \cup all, !.requested_stale = @ \ all]
  <1>1. all \in SUBSET Seqs /\ all \cap r.received = {}
    OBVIOUS
  <1>2. r.id \in Nat
    BY XferAssumption DEF RxOK, RxRecords
  <1>3. dh_xfer_sweep_rx(r).rx = n /\ dh_xfer_sweep_rx(r).out = first \o Ask(r.id, all)
    <2>1. r \in RxRecords
      BY DEF RxOK
    <2>2. [r EXCEPT !.requested = @ \cup below \cup named, !.requested_stale = @ \ (below \cup named)]
          = n
      <3>1. r.requested \cup below \cup named = r.requested \cup all
        OBVIOUS
      <3> QED
        BY <3>1, Zenon
    <2> QED
      BY <2>2 DEF dh_xfer_sweep_rx
  <1> HIDE DEF all
  <1>4. RxOK(n) /\ SameOffer(r, n)
    <2>1. n \in RxRecords /\ n.requested = r.requested \cup all /\ SameOffer(r, n)
      BY <1>1 DEF RxOK, RxRecords, SameOffer
    <2> QED
      BY <2>1, <1>1 DEF RxOK, SameOffer
  <1> HIDE DEF n
  <1>5. first \in Seq(BackFrames) /\ \A f \in Range(first) : f.type = "REQUEST" /\ f.id = r.id
    <2>1. /\ Frame("REQUEST", r.id) \in BackFrames /\ Frame("REQUEST", r.id).type = "REQUEST"
          /\ Frame("REQUEST", r.id).id = r.id
      BY <1>2 DEF Frame, BackFrames
    <2> QED
      BY <2>1, OneFrame, NoFrame
  <1> HIDE DEF first
  <1>6. /\ Ask(r.id, all) \in Seq(BackFrames)
        /\ \A f \in Range(Ask(r.id, all)) : f.type \in {"RETRANSMIT", "CREDIT"} /\ f.id = r.id
        /\ Asks(Ask(r.id, all))
    BY <1>1, <1>2, AskSends
  <1>7. /\ first \o Ask(r.id, all) \in Seq(BackFrames)
        /\ Range(first \o Ask(r.id, all)) = Range(first) \cup Range(Ask(r.id, all))
    BY <1>5, <1>6, ConcatRange
  <1>8. Asks(first \o Ask(r.id, all))
    BY <1>5, <1>6, <1>7, Zenon DEF Asks
  <1> QED
    BY <1>3, <1>4, <1>5, <1>6, <1>7, <1>8

\* A chunk more is paid for at once, later or never.
Paid(r, n, s) ==
    \/ n.ungranted <= r.ungranted + 1 /\ \A f \in Range(s) : f.type = "RECEIVED"
    \/ \E k \in Nat : s = <<Credit(r.id, k)>> /\ n.ungranted + k <= r.ungranted + 1

LEMMA HandleChunkEffect ==
  ASSUME NEW r, RxOK(r), NEW m \in Chunks
  PROVE  LET h == handle_chunk(r, m)
             fills == m.intact /\ m.seq \notin r.received
             last == fills /\ r.received \cup {m.seq} = Seqs
         IN  /\ RxOK(h.rx) /\ h.out \in Seq(BackFrames)
             /\ h.rx.id = r.id /\ h.rx.copy = r.copy /\ h.rx.seen_offer = r.seen_offer
             /\ h.rx.received = IF fills THEN r.received \cup {m.seq} ELSE r.received
             /\ h.rx.active <=> r.active /\ ~ last
             /\ h.rx.completed <=> r.completed \/ last
             /\ \A f \in Range(h.out) : \/ f.type \in {"RETRANSMIT", "CREDIT"} /\ f.id = r.id
                                        \/ last /\ f.type = "RECEIVED" /\ f.id = r.id
             /\ fills => Paid(r, h.rx, h.out)
             /\ fills \/ m.seq \in r.received \/ \E f \in Range(h.out) : f.type = "RETRANSMIT"
  <1> DEFINE top == IF r.any_seen THEN Max({r.max_seq_seen, m.seq}) ELSE m.seq
             got == [r EXCEPT !.received = @ \cup {m.seq}, !.requested = @ \ {m.seq},
                              !.max_seq_seen = top, !.any_seen = TRUE, !.ungranted = @ + 1]
             fills == m.intact /\ m.seq \notin r.received
             last == fills /\ r.received \cup {m.seq} = Seqs
             h == handle_chunk(r, m)
  <1>1. /\ r \in RxRecords /\ m.seq \in Seqs /\ m.intact \in BOOLEAN /\ r.id \in Nat
        /\ r.max_seq_seen \in Seqs /\ r.requested \cap r.received = {} /\ r.ungranted \in Nat
        /\ r.received \in SUBSET Seqs
    BY XferAssumption DEF RxOK, RxRecords, Chunks
  <1>2. top \in Seqs
    <2>1. m.seq \in Int /\ r.max_seq_seen \in Int
      BY <1>1, XferAssumption DEF Seqs
    <2>2. Max({r.max_seq_seen, m.seq}) \in {r.max_seq_seen, m.seq}
      BY <2>1, MaxTwo
    <2> QED
      BY <1>1, <2>2
  <1> HIDE DEF top
  <1>3. /\ got \in RxRecords /\ got.received = r.received \cup {m.seq}
        /\ got.requested = r.requested \ {m.seq} /\ got.ungranted = r.ungranted + 1
        /\ got.id = r.id /\ got.copy = r.copy /\ got.seen_offer = r.seen_offer
        /\ got.active = r.active /\ got.completed = r.completed
    <2> DEFINE more == r.received \cup {m.seq}
               less == r.requested \ {m.seq}
               count == r.ungranted + 1
    <2>1. more \in SUBSET Seqs /\ less \in SUBSET Seqs /\ count \in Nat
      BY <1>1 DEF RxRecords
    <2>2. got = [r EXCEPT !.received = more, !.requested = less, !.max_seq_seen = top,
                          !.any_seen = TRUE, !.ungranted = count]
      OBVIOUS
    <2> HIDE DEF more, less, count, got
    <2>3. /\ got \in RxRecords /\ got.received = more /\ got.requested = less
          /\ got.ungranted = count
          /\ got.id = r.id /\ got.copy = r.copy /\ got.seen_offer = r.seen_offer
          /\ got.active = r.active /\ got.completed = r.completed
      BY <1>1, <1>2, <2>1, <2>2 DEF RxRecords
    <2> QED
      BY <2>3 DEF more, less, count
  <1> DEFINE full == [rx_complete(got) EXCEPT !.ungranted = r.ungranted]
             zero == [got EXCEPT !.ungranted = 0]
             lost == [r EXCEPT !.requested = @ \cup {m.seq}, !.requested_stale = @ \ {m.seq}]
  <1>4. h = CASE m.seq \in r.received -> [rx |-> r, out |-> <<Credit(r.id, 1)>>]
              [] m.seq \notin r.received /\ ~ m.intact ->
                   [rx |-> lost, out |-> Ask(r.id, {m.seq})]
              [] m.seq \notin r.received /\ m.intact /\ got.received = Seqs ->
                   [rx |-> full, out |-> <<Frame("RECEIVED", r.id)>>]
              [] OTHER ->
                   [rx |-> IF got.ungranted >= WINDOW \div 2 THEN zero ELSE got,
                    out |-> IF got.ungranted >= WINDOW \div 2
                            THEN <<Credit(r.id, got.ungranted)>> ELSE <<>>]
    BY DEF handle_chunk, top
  <1>5. RxOK(got)
    BY <1>1, <1>3 DEF RxOK
  <1> HIDE DEF got
  <1>6. /\ RxOK(zero) /\ zero.received = got.received /\ zero.id = r.id /\ zero.copy = r.copy
        /\ zero.seen_offer = r.seen_offer /\ zero.active = r.active /\ zero.completed = r.completed
        /\ zero.ungranted = 0
    BY <1>3, <1>5 DEF RxOK, RxRecords
  <1>7. /\ RxOK(full) /\ full.received = got.received /\ full.id = r.id /\ full.copy = r.copy
        /\ full.seen_offer = r.seen_offer /\ ~ full.active /\ full.completed
        /\ full.ungranted = r.ungranted
    BY <1>1, <1>3, <1>5 DEF RxOK, RxRecords, rx_complete
  <1>8. /\ RxOK(r) /\ RxOK(got)
        /\ m.seq \notin r.received => RxOK(lost)
        /\ lost.received = r.received /\ lost.id = r.id /\ lost.copy = r.copy
        /\ lost.seen_offer = r.seen_offer /\ lost.active = r.active /\ lost.completed = r.completed
    <2>1. /\ lost \in RxRecords /\ lost.requested = r.requested \cup {m.seq}
          /\ lost.received = r.received /\ lost.id = r.id /\ lost.copy = r.copy
          /\ lost.seen_offer = r.seen_offer /\ lost.active = r.active
          /\ lost.completed = r.completed
      BY <1>1 DEF RxRecords
    <2> QED
      BY <1>1, <1>5, <2>1 DEF RxOK
  <1> HIDE DEF zero, full, lost
  <1>9. \A n \in Nat : <<Credit(r.id, n)>> \in Seq(BackFrames)
                       /\ \A f \in Range(<<Credit(r.id, n)>>) : f.type = "CREDIT" /\ f.id = r.id
    <2> TAKE n \in Nat
    <2>1. /\ Credit(r.id, n) \in BackFrames /\ Credit(r.id, n).type = "CREDIT"
          /\ Credit(r.id, n).id = r.id
      BY <1>1 DEF Credit, BackFrames
    <2> QED
      BY <2>1, OneFrame
  <1>10. /\ <<Frame("RECEIVED", r.id)>> \in Seq(BackFrames)
         /\ \A f \in Range(<<Frame("RECEIVED", r.id)>>) : f.type = "RECEIVED" /\ f.id = r.id
    <2>1. /\ Frame("RECEIVED", r.id) \in BackFrames /\ Frame("RECEIVED", r.id).type = "RECEIVED"
          /\ Frame("RECEIVED", r.id).id = r.id
      BY <1>1 DEF Frame, BackFrames
    <2> QED
      BY <2>1, OneFrame
  <1>11. /\ Ask(r.id, {m.seq}) \in Seq(BackFrames)
         /\ \A f \in Range(Ask(r.id, {m.seq})) : f.type \in {"RETRANSMIT", "CREDIT"} /\ f.id = r.id
         /\ \E f \in Range(Ask(r.id, {m.seq})) : f.type = "RETRANSMIT"
    <2>1. {m.seq} \in SUBSET Seqs /\ {m.seq} # {}
      BY <1>1
    <2> QED
      BY <1>1, <2>1, AskSends
  <1>12. <<>> \in Seq(BackFrames) /\ Range(<<>>) = {}
    BY NoFrame
  <1>13. CASE m.seq \in r.received
    <2>1. h.rx = r /\ h.out = <<Credit(r.id, 1)>> /\ ~ fills /\ ~ last
      BY <1>4, <1>13
    <2>2. \A f \in Range(h.out) : f.type = "CREDIT" /\ f.id = r.id
      BY <2>1, <1>9
    <2> QED
      BY <2>1, <2>2, <1>8, <1>9, <1>13
  <1>14. CASE m.seq \notin r.received /\ ~ m.intact
    <2>1. h.rx = lost /\ h.out = Ask(r.id, {m.seq}) /\ ~ fills /\ ~ last
      BY <1>4, <1>14
    <2> QED
      BY <2>1, <1>8, <1>11, <1>14
  <1>15. CASE m.seq \notin r.received /\ m.intact /\ got.received = Seqs
    <2>1. h.rx = full /\ h.out = <<Frame("RECEIVED", r.id)>> /\ fills /\ last
      BY <1>3, <1>4, <1>15
    <2>2. Paid(r, h.rx, h.out)
      BY <1>1, <1>7, <1>10, <2>1 DEF Paid
    <2> QED
      BY <2>1, <2>2, <1>3, <1>7, <1>10
  <1>16. CASE m.seq \notin r.received /\ m.intact /\ got.received # Seqs
    <2>1. /\ h.rx \in {zero, got} /\ fills /\ ~ last
          /\ h.out \in {<<>>, <<Credit(r.id, got.ungranted)>>}
          /\ \/ h.rx = zero /\ h.out = <<Credit(r.id, got.ungranted)>>
             \/ h.rx = got /\ h.out = <<>>
      BY <1>3, <1>4, <1>16
    <2>2. got.ungranted \in Nat
      BY <1>1, <1>3
    <2>3. Paid(r, h.rx, h.out)
      <3>1. CASE h.rx = zero /\ h.out = <<Credit(r.id, got.ungranted)>>
        BY <1>1, <1>3, <1>6, <2>2, <3>1 DEF Paid
      <3>2. CASE h.rx = got /\ h.out = <<>>
        BY <1>1, <1>3, <1>12, <3>2 DEF Paid
      <3> QED
        BY <2>1, <3>1, <3>2
    <2> QED
      BY <2>1, <2>2, <2>3, <1>3, <1>6, <1>8, <1>9, <1>12
  <1> QED
    BY <1>1, <1>13, <1>14, <1>15, <1>16

-----------------------------------------------------------------------------
(***************************************************************************)
(* The steps by what they do to the names.  First the copy side's: it goes *)
(* on with its transfer or ends it, and parks or drops a copy.             *)
(***************************************************************************)

\* A frame of the transfer, under the live seal.
OfTransfer(m) ==
    /\ Sealed(m) /\ seal_tx.live /\ tx.active
    /\ m.seal = seal_tx.id /\ m.id = tx.id /\ m.copy = tx.copy

Sent(add) ==
    /\ add \in Seq(OutFrames) /\ out' = out \o add
    /\ \A m \in Range(add) : \/ m.type \in {"DONE", "CANCEL"}
                             \/ OfTransfer(m)
                             \/ seal_tx.offered /\ m.type = "SEAL_OFFER" /\ m.id = seal_tx.id

Consumed == back' = back \/ (back # <<>> /\ back' = Tail(back))

Parked ==
    /\ copies' \in copies .. MaxCopies /\ faults' \in 0 .. MaxFaults /\ reoffer' \in BOOLEAN
    /\ pending' \in [copy : 0 .. MaxCopies, kind : Kinds]
    /\ pending' = NoCopy \/ pending'.copy \in 1 .. copies'
    /\ pending' \in {pending, NoCopy} \/ (pending'.copy = copies + 1 /\ copies' = copies + 1)

PasteSideStays == UNCHANGED <<rx, seal_rx, rx_buf, delivered>>

CopyStep ==
    /\ tx' \in TxRecords /\ RingOK(tx')
    /\ tx'.active => tx.active /\ tx'.id = tx.id /\ tx'.copy = tx.copy
    /\ \E add : Sent(add)
    /\ Consumed /\ Parked /\ PasteSideStays /\ UNCHANGED <<next_id, seal_tx, seals>>
    /\ \/ confirmed' = confirmed
       \/ tx.active /\ tx.id \in Receipts /\ confirmed' = confirmed \cup {tx.copy}

LEMMA ResetOK == tx_reset \in TxRecords /\ RingOK(tx_reset) /\ ~ tx_reset.active
  <1>1. /\ 0 \in 0 .. (ID_MOD - 1) /\ 0 \in 0 .. MaxCopies /\ 0 \in 0 .. NCHUNKS
        /\ RETX_MAX \in Nat
    BY XferAssumption
  <1>2. <<>> \in Seq(Seqs) /\ Len(<<>>) = 0 /\ Range(<<>>) = {} /\ IsInjective(<<>>)
    BY DEF Range, IsInjective
  <1> QED
    BY <1>1, <1>2 DEF tx_reset, TxRecords, Kinds, RingOK

LEMMA NothingSent ==
  ASSUME TypeInv, out' = out
  PROVE  \E add : Sent(add)
  <1>1. <<>> \in Seq(OutFrames) /\ Range(<<>>) = {} /\ out' = out \o <<>>
    BY NoFrame DEF TypeInv
  <1> QED
    BY <1>1 DEF Sent

LEMMA OneSent ==
  ASSUME TypeInv, NEW f \in OutFrames, out' = Append(out, f) \/ out' = out \o <<f>>,
         \/ f.type \in {"DONE", "CANCEL"}
         \/ OfTransfer(f)
         \/ seal_tx.offered /\ f.type = "SEAL_OFFER" /\ f.id = seal_tx.id
  PROVE  \E add : Sent(add)
  <1>1. <<f>> \in Seq(OutFrames) /\ Range(<<f>>) = {f}
    BY OneFrame
  <1>2. out' = out \o <<f>>
    <2>1. out \in Seq(OutFrames)
      BY DEF TypeInv
    <2>2. Append(out, f) = out \o <<f>>
      BY <2>1, AppendIsConcat
    <2> QED
      BY <2>2
  <1> QED
    BY <1>1, <1>2 DEF Sent

LEMMA NothingParked ==
  ASSUME TypeInv, UNCHANGED copies, pending' = pending \/ pending' = NoCopy,
         reoffer' = reoffer \/ reoffer' = FALSE, UNCHANGED faults \/ Fault
  PROVE  Parked
  <1>1. NoCopy \in [copy : 0 .. MaxCopies, kind : Kinds]
    BY XferAssumption DEF NoCopy, Kinds
  <1>2. /\ copies \in 0 .. MaxCopies /\ faults \in 0 .. MaxFaults /\ reoffer \in BOOLEAN
        /\ pending \in [copy : 0 .. MaxCopies, kind : Kinds]
        /\ pending = NoCopy \/ pending.copy \in 1 .. copies
    BY DEF TypeInv, CopiesOK
  <1>3. copies' \in copies .. MaxCopies /\ faults' \in 0 .. MaxFaults
    BY <1>2, XferAssumption DEF Fault
  <1> QED
    BY <1>1, <1>2, <1>3 DEF Parked

LEMMA PumpStep ==
  ASSUME TypeInv, NEW t \in TxRecords, RingOK(t), Pump(t),
         t.active = tx.active, t.id = tx.id, t.copy = tx.copy
  PROVE  /\ tx' \in TxRecords /\ RingOK(tx')
         /\ tx'.active => tx.active /\ tx'.id = tx.id /\ tx'.copy = tx.copy
         /\ \E add : Sent(add)
  <1> DEFINE p == dh_xfer_pump(t)
             sealed == [i \in DOMAIN p.seqs |-> Chunk(t, seal_tx, p.seqs[i])]
             a == IF seal_tx.live THEN sealed ELSE <<>>
             d == IF p.done THEN <<Frame("DONE", t.id)>> ELSE <<>>
  <1>1. /\ p.tx \in TxRecords /\ RingOK(p.tx)
        /\ p.tx.active = t.active /\ p.tx.id = t.id /\ p.tx.copy = t.copy
        /\ p.seqs \in Seq(Seqs) /\ p.done \in BOOLEAN
        /\ p.done \/ p.seqs # <<>> => t.active
    BY PumpEffect
  <1>2. tx' = p.tx /\ out' = out \o a \o d
    BY DEF Pump
  <1> HIDE DEF p
  <1>3. t.active => t.id \in Ids /\ t.copy \in Copies /\ t.id \in Nat
    BY XferAssumption DEF TypeInv, CopiesOK, Ids, Copies
  <1>4. seal_tx.id \in Nat /\ seal_tx.key \in Nat
    BY DEF TypeInv, SealsOK
  <1>5. a \in Seq(OutFrames) /\ \A m \in Range(a) : OfTransfer(m)
    <2>1. CASE seal_tx.live /\ t.active
      <3>1. \A i \in DOMAIN p.seqs : Chunk(t, seal_tx, p.seqs[i]) \in OutFrames
        BY <1>1, <1>3, <1>4, <2>1 DEF Chunk, OutFrames, Chunks
      <3>2. \A i \in DOMAIN p.seqs : OfTransfer(Chunk(t, seal_tx, p.seqs[i]))
        BY <2>1 DEF Chunk, OfTransfer, Sealed
      <3>3. sealed \in Seq(OutFrames)
        BY <1>1, <3>1
      <3>4. \A m \in Range(sealed) : OfTransfer(m)
        BY <3>2, Zenon DEF Range
      <3> QED
        BY <2>1, <3>3, <3>4
    <2>2. CASE ~ t.active
      <3>1. p.seqs = <<>>
        BY <1>1, <2>2
      <3>2. sealed = <<>>
        BY <3>1
      <3> QED
        BY <3>2, NoFrame
    <2>3. CASE ~ seal_tx.live
      BY <2>3, NoFrame
    <2> QED
      BY <2>1, <2>2, <2>3
  <1>6. d \in Seq(OutFrames) /\ \A m \in Range(d) : m.type = "DONE"
    <2>1. CASE p.done
      <3>1. Frame("DONE", t.id) \in OutFrames /\ Frame("DONE", t.id).type = "DONE"
        BY <1>1, <1>3, <2>1 DEF Frame, OutFrames
      <3> QED
        BY <2>1, <3>1, OneFrame
    <2>2. CASE ~ p.done
      BY <2>2, NoFrame
    <2> QED
      BY <2>1, <2>2
  <1> HIDE DEF a, d
  <1>7. out \in Seq(OutFrames)
    BY DEF TypeInv
  <1>8. a \o d \in Seq(OutFrames) /\ Range(a \o d) = Range(a) \cup Range(d)
    BY <1>5, <1>6, ConcatRange
  <1>9. out' = out \o (a \o d)
    BY <1>2, <1>5, <1>6, <1>7
  <1>10. Sent(a \o d)
    BY <1>5, <1>6, <1>8, <1>9 DEF Sent
  <1> QED
    BY <1>1, <1>2, <1>10

LEMMA StreamingOK ==
  ASSUME TypeInv
  PROVE  LET t == tx_start_streaming(tx)
         IN  t \in TxRecords /\ RingOK(t) /\ t.active = tx.active /\ t.id = tx.id /\ t.copy = tx.copy
  <1> DEFINE c == Min({tx.credits, WINDOW})
             o == tx.credits > 0
             t == [tx EXCEPT !.streaming = TRUE, !.need_done = TRUE, !.credits = c,
                             !.opening_credit_accepted = o]
  <1>1. tx \in TxRecords /\ RingOK(tx) /\ tx.credits \in Nat /\ WINDOW \in Nat
    BY XferAssumption DEF TypeInv, TxRecords
  <1>2. c \in Nat /\ o \in BOOLEAN
    BY <1>1, MinTwo
  <1>3. tx_start_streaming(tx) = t
    BY DEF tx_start_streaming
  <1> HIDE DEF c, o
  <1>4. /\ t \in TxRecords /\ t.active = tx.active /\ t.id = tx.id /\ t.copy = tx.copy
        /\ t.retx = tx.retx /\ t.next_seq = tx.next_seq
    BY <1>1, <1>2 DEF TxRecords
  <1> QED
    BY <1>1, <1>3, <1>4 DEF RingOK

LEMMA RequestSteps ==
  ASSUME TypeInv, dh_xfer_handle_request
  PROVE  CopyStep
  <1>1. Consumed
    BY DEF dh_xfer_handle_request, FromBack, Consumed
  <1>2. Parked /\ PasteSideStays /\ UNCHANGED <<next_id, seal_tx, seals, confirmed>>
    <2>1. UNCHANGED faults \/ Fault
      BY DEF dh_xfer_handle_request
    <2>2. UNCHANGED <<copies, pending, reoffer, rx, seal_rx, rx_buf, delivered, next_id, seal_tx,
                      seals, confirmed>>
      BY DEF dh_xfer_handle_request, far
    <2> QED
      BY <2>1, <2>2, NothingParked DEF PasteSideStays
  <1>3. tx \in TxRecords /\ RingOK(tx)
    BY DEF TypeInv
  <1>4. CASE Pump(tx_start_streaming(tx))
    BY <1>1, <1>2, <1>4, StreamingOK, PumpStep DEF CopyStep
  <1>5. CASE Pump(tx)
    BY <1>1, <1>2, <1>3, <1>5, PumpStep DEF CopyStep
  <1>6. CASE Mine(Head(back)) /\ out' = Append(out, Frame("CANCEL", tx.id)) /\ tx' = tx_reset
    <2>1. Frame("CANCEL", tx.id) \in OutFrames /\ Frame("CANCEL", tx.id).type = "CANCEL"
      BY <1>6, XferAssumption DEF TypeInv, CopiesOK, Mine, Frame, OutFrames, Ids
    <2>2. \E add : Sent(add)
      BY <1>6, <2>1, OneSent
    <2> QED
      BY <1>1, <1>2, <1>6, <2>2, ResetOK DEF CopyStep
  <1> QED
    BY <1>4, <1>5, <1>6 DEF dh_xfer_handle_request

LEMMA QueueRetransmitOK ==
  ASSUME NEW t \in TxRecords, RingOK(t), NEW q \in Seqs, q < t.next_seq
  PROVE  LET s == tx_queue_retransmit(t.retx, q)
         IN  /\ s \in Seq(Seqs) /\ IsInjective(s) /\ Len(s) <= RETX_MAX
             /\ Range(s) \subseteq 0 .. (t.next_seq - 1)
  <1> DEFINE s == Append(t.retx, q)
  <1>1. /\ t.retx \in Seq(Seqs) /\ IsInjective(t.retx) /\ Len(t.retx) <= RETX_MAX
        /\ Range(t.retx) \subseteq 0 .. (t.next_seq - 1) /\ t.next_seq \in Nat
        /\ RETX_MAX \in Nat /\ Len(t.retx) \in Nat
    BY XferAssumption DEF TxRecords, RingOK
  <1>2. q \in 0 .. (t.next_seq - 1)
    BY <1>1, XferAssumption DEF Seqs
  <1>3. CASE q \in Range(t.retx) \/ Len(t.retx) >= RETX_MAX
    BY <1>1, <1>3 DEF tx_queue_retransmit
  <1>4. CASE q \notin Range(t.retx) /\ ~ (Len(t.retx) >= RETX_MAX)
    <2>1. s \in Seq(Seqs) /\ Range(s) = Range(t.retx) \cup {q}
      BY <1>1, AppendRange
    <2>2. Range(s) \subseteq 0 .. (t.next_seq - 1)
      BY <1>1, <1>2, <2>1
    <2>3. Len(s) <= RETX_MAX
      BY <1>1, <1>4
    <2>4. /\ DOMAIN s = 1 .. Len(t.retx) + 1 /\ s[Len(t.retx) + 1] = q
          /\ \A i \in 1 .. Len(t.retx) : s[i] = t.retx[i] /\ t.retx[i] # q
      BY <1>1, <1>4 DEF Range
    <2>5. \A i, j \in 1 .. Len(t.retx) : t.retx[i] = t.retx[j] => i = j
      BY <1>1 DEF IsInjective
    <2>6. \A i \in 1 .. Len(t.retx) + 1 : i \in 1 .. Len(t.retx) \/ i = Len(t.retx) + 1
      BY <1>1
    <2> HIDE DEF s
    <2>7. \A i, j \in 1 .. Len(t.retx) + 1 : s[i] = s[j] => i = j
      BY <2>4, <2>5, <2>6, Zenon
    <2>8. IsInjective(s)
      BY <2>4, <2>7, Zenon DEF IsInjective
    <2> QED
      BY <1>4, <2>1, <2>2, <2>3, <2>8 DEF tx_queue_retransmit, s
  <1> QED
    BY <1>3, <1>4

LEMMA RetransmitSteps ==
  ASSUME TypeInv, dh_xfer_handle_retransmit
  PROVE  CopyStep
  <1>1. Consumed /\ back # <<>> /\ Head(back).type = "RETRANSMIT"
    BY DEF dh_xfer_handle_retransmit, FromBack, Consumed
  <1>2. Parked /\ PasteSideStays /\ UNCHANGED <<next_id, seal_tx, seals, confirmed>>
    <2>1. UNCHANGED <<copies, pending, reoffer, rx, seal_rx, rx_buf, delivered, next_id, seal_tx,
                      seals, confirmed, faults>>
      BY DEF dh_xfer_handle_retransmit, far, history
    <2> QED
      BY <2>1, NothingParked DEF PasteSideStays
  <1>3. tx \in TxRecords /\ RingOK(tx)
    BY DEF TypeInv
  <1> DEFINE m == Head(back)
             ring == IF m.seq < tx.next_seq THEN tx_queue_retransmit(tx.retx, m.seq) ELSE tx.retx
             t == [tx EXCEPT !.recovery_credit_due = TRUE, !.need_done = TRUE, !.retx = ring]
  <1>4. m.seq \in Seqs
    <2>1. m \in BackFrames
      BY <1>1 DEF TypeInv
    <2> QED
      BY <1>1, <2>1 DEF BackFrames
  <1>5. Pump(IF Mine(m) THEN t ELSE tx)
    BY DEF dh_xfer_handle_retransmit
  <1>6. t \in TxRecords /\ RingOK(t) /\ t.active = tx.active /\ t.id = tx.id /\ t.copy = tx.copy
    <2>1. /\ ring \in Seq(Seqs) /\ IsInjective(ring) /\ Len(ring) <= RETX_MAX
          /\ Range(ring) \subseteq 0 .. (tx.next_seq - 1)
      BY <1>3, <1>4, QueueRetransmitOK DEF RingOK, TxRecords
    <2> HIDE DEF ring
    <2>2. /\ t \in TxRecords /\ t.active = tx.active /\ t.id = tx.id /\ t.copy = tx.copy
          /\ t.retx = ring /\ t.next_seq = tx.next_seq
      BY <1>3, <2>1 DEF TxRecords
    <2> QED
      BY <2>1, <2>2 DEF RingOK
  <1> HIDE DEF t, m
  <1>7. CASE Mine(m)
    BY <1>1, <1>2, <1>5, <1>6, <1>7, PumpStep DEF CopyStep
  <1>8. CASE ~ Mine(m)
    BY <1>1, <1>2, <1>3, <1>5, <1>8, PumpStep DEF CopyStep
  <1> QED
    BY <1>7, <1>8

LEMMA CreditedOK ==
  ASSUME TypeInv, NEW n \in Nat
  PROVE  LET t == credited(tx, n)
         IN  t \in TxRecords /\ RingOK(t) /\ t.active = tx.active /\ t.id = tx.id /\ t.copy = tx.copy
  <1> DEFINE opening == tx.streaming /\ n = WINDOW /\ ~ tx.recovery_credit_due
             c == IF ~ opening THEN tx.credits + n
                  ELSE IF tx.opening_credit_accepted THEN tx.credits
                  ELSE IF tx.credits < WINDOW THEN Min({tx.credits + n, WINDOW}) ELSE tx.credits
             o == tx.opening_credit_accepted \/ opening
             t == [tx EXCEPT !.credits = c, !.opening_credit_accepted = o,
                             !.recovery_credit_due = FALSE]
  <1>1. tx \in TxRecords /\ RingOK(tx) /\ tx.credits \in Nat /\ WINDOW \in Nat
    BY XferAssumption DEF TypeInv, TxRecords
  <1>2. c \in Nat
    <2>1. tx.credits + n \in Nat /\ Min({tx.credits + n, WINDOW}) \in Nat
      BY <1>1, MinTwo
    <2> QED
      BY <1>1, <2>1
  <1>3. o \in BOOLEAN
    BY <1>1, Zenon DEF TxRecords
  <1>4. credited(tx, n) = t
    BY DEF credited
  <1> HIDE DEF c, o
  <1>5. /\ t \in TxRecords /\ t.active = tx.active /\ t.id = tx.id /\ t.copy = tx.copy
        /\ t.retx = tx.retx /\ t.next_seq = tx.next_seq
    BY <1>1, <1>2, <1>3 DEF TxRecords
  <1> QED
    BY <1>1, <1>4, <1>5 DEF RingOK

LEMMA CreditSteps ==
  ASSUME TypeInv, dh_xfer_handle_credit
  PROVE  CopyStep
  <1>1. Consumed /\ back # <<>> /\ Head(back).type = "CREDIT"
    BY DEF dh_xfer_handle_credit, FromBack, Consumed
  <1>2. Parked /\ PasteSideStays /\ UNCHANGED <<next_id, seal_tx, seals, confirmed>>
    <2>1. UNCHANGED <<copies, pending, reoffer, rx, seal_rx, rx_buf, delivered, next_id, seal_tx,
                      seals, confirmed, faults>>
      BY DEF dh_xfer_handle_credit, far, history
    <2> QED
      BY <2>1, NothingParked DEF PasteSideStays
  <1>3. tx \in TxRecords /\ RingOK(tx)
    BY DEF TypeInv
  <1> DEFINE m == Head(back)
             t == credited(tx, m.credits)
  <1>4. m.credits \in Nat
    <2>1. m \in BackFrames
      BY <1>1 DEF TypeInv
    <2> QED
      BY <1>1, <2>1 DEF BackFrames
  <1>5. Pump(IF Mine(m) THEN t ELSE tx)
    BY DEF dh_xfer_handle_credit
  <1>6. t \in TxRecords /\ RingOK(t) /\ t.active = tx.active /\ t.id = tx.id /\ t.copy = tx.copy
    BY <1>4, CreditedOK
  <1> HIDE DEF t, m
  <1>7. CASE Mine(m)
    BY <1>1, <1>2, <1>5, <1>6, <1>7, PumpStep DEF CopyStep
  <1>8. CASE ~ Mine(m)
    BY <1>1, <1>2, <1>3, <1>5, <1>8, PumpStep DEF CopyStep
  <1> QED
    BY <1>7, <1>8

LEMMA EndingSteps ==
  ASSUME TypeInv,
         dh_xfer_handle_received \/ CancelAtCopySide \/ dh_xfer_cancel_tx \/ dh_xfer_expire_tx
           \/ DropParked
  PROVE  CopyStep
  <1>1. tx \in TxRecords /\ RingOK(tx) /\ out \in Seq(OutFrames) /\ back \in Seq(BackFrames)
    BY DEF TypeInv
  <1>2. /\ tx' = tx_reset \/ tx' = tx
        /\ PasteSideStays /\ UNCHANGED <<next_id, seal_tx, seals, copies>>
        /\ pending' = pending \/ pending' = NoCopy
        /\ reoffer' = reoffer \/ reoffer' = FALSE
        /\ UNCHANGED faults \/ Fault
    BY DEF dh_xfer_handle_received, CancelAtCopySide, dh_xfer_cancel_tx, dh_xfer_expire_tx,
           DropParked, PasteSideStays, far
  <1>3. Parked
    BY <1>2, NothingParked
  <1>4. /\ tx' \in TxRecords /\ RingOK(tx')
        /\ tx'.active => tx.active /\ tx'.id = tx.id /\ tx'.copy = tx.copy
    BY <1>1, <1>2, ResetOK
  <1>5. Consumed
    BY DEF dh_xfer_handle_received, CancelAtCopySide, dh_xfer_cancel_tx, dh_xfer_expire_tx,
           DropParked, Consumed, FromBack, path
  <1>6. \E add : Sent(add)
    <2>1. CASE out' = out
      BY <2>1, NothingSent
    <2>2. CASE tx.active /\ out' = Append(out, Frame("CANCEL", tx.id))
      <3>1. Frame("CANCEL", tx.id) \in OutFrames /\ Frame("CANCEL", tx.id).type = "CANCEL"
        BY <2>2, XferAssumption DEF TypeInv, CopiesOK, Frame, OutFrames, Ids
      <3> QED
        BY <2>2, <3>1, OneSent
    <2> QED
      BY <2>1, <2>2 DEF dh_xfer_handle_received, CancelAtCopySide, dh_xfer_cancel_tx,
                        dh_xfer_expire_tx, DropParked, path
  <1>7. \/ confirmed' = confirmed
        \/ tx.active /\ tx.id \in Receipts /\ confirmed' = confirmed \cup {tx.copy}
    <2>1. CASE dh_xfer_handle_received
      <3>1. back # <<>> /\ Head(back).type = "RECEIVED" /\ Head(back) \in Range(back)
        BY <1>1, <2>1, RangeIn DEF dh_xfer_handle_received, FromBack
      <3>2. Head(back).id \in Receipts
        BY <3>1 DEF Receipts
      <3> QED
        BY <2>1, <3>2 DEF dh_xfer_handle_received, Mine
    <2> QED
      BY <2>1 DEF CancelAtCopySide, dh_xfer_cancel_tx, dh_xfer_expire_tx, DropParked
  <1> QED
    BY <1>2, <1>3, <1>4, <1>5, <1>6, <1>7 DEF CopyStep

LEMMA RetrySteps ==
  ASSUME TypeInv, RetryOffer \/ RetryDone \/ (RetrySeal /\ seal_tx.offered)
  PROVE  CopyStep
  <1>1. /\ tx \in TxRecords /\ RingOK(tx) /\ seal_tx.id \in Nat /\ seal_tx.key \in Nat
        /\ tx.kind \in Kinds
    BY DEF TypeInv, TxRecords, SealsOK
  <1>2. /\ UNCHANGED <<tx, next_id, seal_tx, seals, copies, pending, reoffer, back, confirmed>>
        /\ PasteSideStays /\ (UNCHANGED faults \/ Fault)
    BY DEF RetryOffer, RetryDone, RetrySeal, side, far, history, Due, PasteSideStays
  <1>3. Parked
    BY <1>2, NothingParked
  <1>4. \E add : Sent(add)
    <2>1. CASE RetryOffer /\ seal_tx.live
      <3>1. tx.active /\ out' = out \o <<Offer(tx, seal_tx)>>
        BY <2>1 DEF RetryOffer, sealed_offer, dh_xfer_tx_awaiting_request
      <3>2. tx.id \in Ids /\ tx.copy \in Copies
        BY <3>1, XferAssumption DEF TypeInv, CopiesOK, Copies
      <3>3. Offer(tx, seal_tx) \in OutFrames
        BY <1>1, <3>2 DEF Offer, OutFrames, Offers
      <3>4. OfTransfer(Offer(tx, seal_tx))
        BY <2>1, <3>1 DEF OfTransfer, Offer, Sealed
      <3> QED
        BY <3>1, <3>3, <3>4, OneSent
    <2>2. CASE RetryOffer /\ ~ seal_tx.live
      <3>1. out' = out
        BY <2>2 DEF RetryOffer, sealed_offer, TypeInv
      <3> QED
        BY <3>1, NothingSent
    <2>3. CASE RetryDone
      <3>1. tx.active /\ out' = Append(out, Frame("DONE", tx.id))
        BY <2>3 DEF RetryDone, dh_xfer_tx_awaiting_receipt
      <3>2. Frame("DONE", tx.id) \in OutFrames /\ Frame("DONE", tx.id).type = "DONE"
        BY <3>1, XferAssumption DEF TypeInv, CopiesOK, Frame, OutFrames, Ids
      <3> QED
        BY <3>1, <3>2, OneSent
    <2>4. CASE RetrySeal /\ seal_tx.offered
      <3>1. out' = Append(out, Frame("SEAL_OFFER", seal_tx.id))
        BY <2>4 DEF RetrySeal
      <3>2. /\ Frame("SEAL_OFFER", seal_tx.id) \in OutFrames
            /\ Frame("SEAL_OFFER", seal_tx.id).type = "SEAL_OFFER"
            /\ Frame("SEAL_OFFER", seal_tx.id).id = seal_tx.id
        BY <1>1 DEF Frame, OutFrames
      <3> QED
        BY <2>4, <3>1, <3>2, OneSent
    <2> QED
      BY <2>1, <2>2, <2>3, <2>4
  <1> QED
    BY <1>1, <1>2, <1>3, <1>4 DEF CopyStep, Consumed

LEMMA IgnoredSteps ==
  ASSUME TypeInv,
         \/ on_seal_accepted /\ ~ (seal_tx.offered /\ Head(back).id = seal_tx.id)
         \/ on_seal_stale /\ ~ ((seal_tx.live \/ seal_tx.offered) /\ Head(back).id = seal_tx.id)
  PROVE  CopyStep
  <1>1. tx \in TxRecords /\ RingOK(tx)
    BY DEF TypeInv
  <1>2. /\ UNCHANGED <<tx, next_id, seal_tx, seals, copies, pending, reoffer, out, confirmed, faults>>
        /\ PasteSideStays /\ Consumed
    BY DEF on_seal_accepted, on_seal_stale, side, far, history, PasteSideStays, Consumed, FromBack
  <1>3. Parked /\ \E add : Sent(add)
    BY <1>2, NothingParked, NothingSent
  <1> QED
    BY <1>1, <1>2, <1>3 DEF CopyStep

LEMMA ParkedCopy ==
  ASSUME TypeInv, NEW kind \in CopyKinds, Copy(kind), ~ seal_tx.live
  PROVE  Parked
  <1> DEFINE c == [copy |-> copies + 1, kind |-> kind]
  <1>1. pending' = c /\ copies < MaxCopies /\ copies' = copies + 1 /\ UNCHANGED <<reoffer, faults>>
    BY DEF Copy
  <1>2. /\ copies \in 0 .. MaxCopies /\ MaxCopies \in Nat /\ reoffer \in BOOLEAN
        /\ faults \in 0 .. MaxFaults /\ kind \in Kinds
    BY XferAssumption DEF TypeInv, CopiesOK, Kinds
  <1>3. copies + 1 \in 0 .. MaxCopies /\ copies + 1 \in 1 .. copies + 1
    BY <1>1, <1>2
  <1>4. c \in [copy : 0 .. MaxCopies, kind : Kinds] /\ c.copy = copies + 1
    BY <1>2, <1>3
  <1>5. copies' \in copies .. MaxCopies
    BY <1>1, <1>2
  <1> HIDE DEF c
  <1> QED
    BY <1>1, <1>2, <1>3, <1>4, <1>5 DEF Parked

LEMMA ParkSteps ==
  ASSUME TypeInv, NEW kind \in CopyKinds, Copy(kind), ~ seal_tx.live, seal_tx.offered
  PROVE  CopyStep
  <1>1. tx \in TxRecords /\ RingOK(tx)
    BY DEF TypeInv
  <1>2. /\ UNCHANGED <<tx, next_id, seal_tx, seals, out, confirmed, back>>
        /\ PasteSideStays /\ Consumed
    BY DEF Copy, offer_seal, far, PasteSideStays, Consumed
  <1>3. Parked /\ \E add : Sent(add)
    BY <1>2, ParkedCopy, NothingSent
  <1> QED
    BY <1>1, <1>2, <1>3 DEF CopyStep

-----------------------------------------------------------------------------
(* The copy side draws a seal, loses it, or makes an offer under a live one. *)

SealStep ==
    /\ UNCHANGED <<tx, next_id, confirmed>>
    /\ PasteSideStays /\ Consumed /\ Parked /\ seals' = seals + 1
    /\ seal_tx' = [dh_seal_tx_init EXCEPT !.id = seals + 1, !.offered = TRUE]
    /\ out' = Append(out, Frame("SEAL_OFFER", seals + 1))

SealLost ==
    /\ tx' \in {tx, tx_reset} /\ ~ tx'.active
    /\ seal_tx' = dh_seal_tx_init /\ next_id' \in Ids
    /\ PasteSideStays /\ Consumed /\ Parked /\ UNCHANGED <<seals, out, confirmed>>

Succ(id) == IF id + 1 = ID_MOD THEN 1 ELSE id + 1

\* Nothing has been sent, granted or asked for yet.
Untouched(t) ==
    /\ ~ t.streaming /\ t.next_seq = 0 /\ t.credits = 0 /\ t.retx = <<>>
    /\ ~ t.recovery_credit_due

\* Offered under seal s, which is live.
NewOffer(s) ==
    /\ tx' \in TxRecords /\ RingOK(tx') /\ tx'.active
    /\ tx'.id = next_id /\ tx'.copy \in 1 .. copies'
    /\ Untouched(tx') /\ pending' = NoCopy
    /\ next_id' = Succ(next_id)
    /\ \/ out' = out
       \/ \E f \in Offers : /\ out' = Append(out, f)
                            /\ f.seal = s /\ f.id = next_id /\ f.copy = tx'.copy

CopyOffered ==
    /\ seal_tx.live /\ NewOffer(seal_tx.id) /\ tx'.copy = copies + 1 /\ copies' = copies + 1
    /\ PasteSideStays /\ Parked /\ UNCHANGED <<seal_tx, seals, back, confirmed>>

SealAccepted ==
    /\ seal_tx.offered /\ back # <<>> /\ back' = Tail(back)
    /\ Head(back).type = "SEAL_ACCEPT" /\ Head(back).id = seal_tx.id
    /\ seal_tx' = [seal_tx EXCEPT !.key = Head(back).key, !.offered = FALSE, !.live = TRUE]
    /\ \/ UNCHANGED <<tx, next_id, out>>
       \/ /\ NewOffer(seal_tx.id)
          /\ \/ pending # NoCopy /\ tx'.copy = pending.copy
             \/ tx.active /\ tx'.copy = tx.copy
    /\ PasteSideStays /\ Parked /\ pending' = NoCopy /\ UNCHANGED <<seals, copies, confirmed>>


LEMMA SealSteps ==
  ASSUME TypeInv,
         \/ \E kind \in CopyKinds : Copy(kind) /\ ~ seal_tx.live /\ ~ seal_tx.offered
         \/ RetrySeal /\ ~ seal_tx.offered
  PROVE  SealStep
  <1>1. CASE RetrySeal /\ ~ seal_tx.offered
    <2>1. Parked
      BY <1>1, NothingParked DEF RetrySeal
    <2> QED
      BY <1>1, <2>1 DEF RetrySeal, offer_seal, far, history, SealStep, PasteSideStays, Consumed
  <1>2. ASSUME NEW kind \in CopyKinds, Copy(kind), ~ seal_tx.live, ~ seal_tx.offered
        PROVE  SealStep
    <2>1. Parked
      BY <1>2, ParkedCopy
    <2> QED
      BY <1>2, <2>1 DEF Copy, offer_seal, far, SealStep, PasteSideStays, Consumed
  <1> QED
    BY <1>1, <1>2

LEMMA StaleSteps ==
  ASSUME TypeInv, on_seal_stale,
         (seal_tx.live \/ seal_tx.offered) /\ Head(back).id = seal_tx.id
  PROVE  SealStep \/ SealLost
  <1>1. /\ UNCHANGED <<tx, next_id, pending, copies, faults, confirmed>>
        /\ PasteSideStays /\ Consumed
    BY DEF on_seal_stale, far, history, PasteSideStays, Consumed, FromBack
  <1>2. CASE pending # NoCopy \/ tx.active
    <2>1. /\ reoffer' = (reoffer \/ pending = NoCopy) /\ seals' = seals + 1
          /\ seal_tx' = [dh_seal_tx_init EXCEPT !.id = seals + 1, !.offered = TRUE]
          /\ out' = Append(out, Frame("SEAL_OFFER", seals + 1))
      BY <1>2 DEF on_seal_stale
    <2>2. reoffer' \in BOOLEAN
      BY <2>1, Zenon
    <2>3. Parked
      <3>1. /\ copies \in 0 .. MaxCopies /\ faults \in 0 .. MaxFaults
            /\ pending \in [copy : 0 .. MaxCopies, kind : Kinds]
            /\ pending = NoCopy \/ pending.copy \in 1 .. copies
        BY DEF TypeInv, CopiesOK
      <3>2. copies' \in copies .. MaxCopies
        BY <1>1, <3>1, XferAssumption
      <3> QED
        BY <1>1, <2>2, <3>1, <3>2 DEF Parked
    <2> QED
      BY <1>1, <2>1, <2>3 DEF SealStep
  <1>3. CASE ~ (pending # NoCopy \/ tx.active)
    <2>1. seal_tx' = dh_seal_tx_init /\ UNCHANGED <<reoffer, seals, out>>
      BY <1>3 DEF on_seal_stale
    <2>2. Parked
      BY <1>1, <2>1, NothingParked
    <2>3. next_id \in Ids
      BY DEF TypeInv
    <2> QED
      BY <1>1, <1>3, <2>1, <2>2, <2>3 DEF SealLost
  <1> QED
    BY <1>2, <1>3

LEMMA SealLostSteps ==
  ASSUME TypeInv, CopySideSessionEnded \/ CopySideRestarts
  PROVE  SealLost
  <1>1. Parked
    BY NothingParked DEF CopySideSessionEnded, CopySideRestarts
  <1>2. 1 \in Ids /\ next_id \in Ids
    BY XferAssumption DEF Ids, TypeInv
  <1> QED
    BY <1>1, <1>2, ResetOK DEF CopySideSessionEnded, CopySideRestarts, SealLost, PasteSideStays,
                               Consumed, far, path

LEMMA OfferMade ==
  ASSUME TypeInv, NEW c \in [copy : 0 .. MaxCopies, kind : Kinds], dh_xfer_offer(c)
  PROVE  /\ tx' \in TxRecords /\ RingOK(tx') /\ tx'.active
         /\ tx'.id = next_id /\ tx'.copy = c.copy /\ tx'.kind = c.kind
         /\ Untouched(tx') /\ next_id' = Succ(next_id)
  <1>1. next_id \in 0 .. (ID_MOD - 1)
    BY XferAssumption DEF TypeInv, Ids
  <1>2. tx_reset \in TxRecords /\ RingOK(tx_reset)
    BY ResetOK
  <1>3. tx' = [tx_reset EXCEPT !.active = TRUE, !.id = next_id, !.copy = c.copy, !.kind = c.kind]
    BY DEF dh_xfer_offer
  <1>4. /\ tx' \in TxRecords /\ tx'.active /\ tx'.id = next_id /\ tx'.copy = c.copy
        /\ tx'.kind = c.kind /\ tx'.retx = tx_reset.retx /\ tx'.next_seq = tx_reset.next_seq
    BY <1>1, <1>2, <1>3 DEF TxRecords
  <1>5. RingOK(tx')
    BY <1>2, <1>4 DEF RingOK
  <1>6. Untouched(tx')
    BY <1>3 DEF tx_reset, Untouched
  <1> QED
    BY <1>4, <1>5, <1>6 DEF dh_xfer_offer, Succ

LEMMA OfferedSteps ==
  ASSUME TypeInv, NEW kind \in CopyKinds, Copy(kind), seal_tx.live
  PROVE  CopyOffered
  <1> DEFINE c == [copy |-> copies + 1, kind |-> kind]
  <1>1. /\ copies < MaxCopies /\ copies' = copies + 1 /\ dh_xfer_offer(c)
        /\ out' = out \o sealed_offer(tx', seal_tx) /\ pending' = NoCopy
        /\ UNCHANGED <<seal_tx, seals, reoffer, back, faults, confirmed>> /\ PasteSideStays
    BY DEF Copy, far, PasteSideStays
  <1>2. /\ copies \in 0 .. MaxCopies /\ MaxCopies \in Nat /\ kind \in Kinds /\ reoffer \in BOOLEAN
        /\ faults \in 0 .. MaxFaults /\ out \in Seq(OutFrames) /\ next_id \in Ids
        /\ seal_tx.id \in Nat /\ seal_tx.key \in Nat
    BY XferAssumption DEF TypeInv, CopiesOK, Kinds, SealsOK
  <1>3. copies + 1 \in 0 .. MaxCopies /\ copies + 1 \in Copies /\ copies + 1 \in 1 .. copies'
    BY <1>1, <1>2 DEF Copies
  <1>4. c \in [copy : 0 .. MaxCopies, kind : Kinds] /\ c.copy = copies + 1 /\ c.kind = kind
    BY <1>2, <1>3
  <1> HIDE DEF c
  <1>5. /\ tx' \in TxRecords /\ RingOK(tx') /\ tx'.active
        /\ tx'.id = next_id /\ tx'.copy = copies + 1 /\ tx'.kind = kind
        /\ Untouched(tx') /\ next_id' = Succ(next_id)
    BY <1>1, <1>4, OfferMade
  <1> DEFINE f == Offer(tx', seal_tx)
  <1>6. f \in Offers /\ f.seal = seal_tx.id /\ f.id = next_id /\ f.copy = tx'.copy
    BY <1>2, <1>3, <1>5 DEF Offer, Offers
  <1>7. out' = out \o <<f>>
    BY <1>1 DEF sealed_offer
  <1> HIDE DEF f
  <1>8. f \in OutFrames
    BY <1>6 DEF OutFrames
  <1>9. out' = Append(out, f)
    BY <1>2, <1>7, <1>8, AppendIsConcat
  <1>10. NewOffer(seal_tx.id)
    BY <1>1, <1>3, <1>5, <1>6, <1>9 DEF NewOffer
  <1>11. Parked
    <2>1. copies' \in copies .. MaxCopies
      BY <1>1, <1>2
    <2>2. NoCopy \in [copy : 0 .. MaxCopies, kind : Kinds]
      BY <1>2 DEF NoCopy, Kinds
    <2> QED
      BY <1>1, <1>2, <2>1, <2>2 DEF Parked
  <1> QED
    BY <1>1, <1>5, <1>10, <1>11 DEF CopyOffered

LEMMA AcceptedSteps ==
  ASSUME TypeInv, on_seal_accepted, seal_tx.offered /\ Head(back).id = seal_tx.id
  PROVE  SealAccepted
  <1> DEFINE live == [seal_tx EXCEPT !.key = Head(back).key, !.offered = FALSE, !.live = TRUE]
             current == [copy |-> tx.copy, kind |-> tx.kind]
  <1>1. /\ back # <<>> /\ back' = Tail(back) /\ Head(back).type = "SEAL_ACCEPT"
        /\ seal_tx' = live /\ reoffer' = FALSE /\ pending' = NoCopy
        /\ out' = (IF tx' # tx THEN Append(out, Offer(tx', live)) ELSE out)
        /\ UNCHANGED <<seals, copies, faults, confirmed>> /\ PasteSideStays
    BY DEF on_seal_accepted, FromBack, far, PasteSideStays
  <1>2. \/ pending # NoCopy /\ dh_xfer_offer(pending)
        \/ tx.active /\ dh_xfer_offer(current)
        \/ UNCHANGED <<tx, next_id>>
    BY DEF on_seal_accepted
  <1>3. Parked
    BY <1>1, NothingParked
  <1>4. /\ seal_tx \in [id : Nat, key : Nat, offered : BOOLEAN, live : BOOLEAN]
        /\ pending \in [copy : 0 .. MaxCopies, kind : Kinds]
        /\ pending # NoCopy => pending.copy \in 1 .. copies
        /\ tx.active => tx.copy \in 1 .. copies
        /\ tx \in TxRecords /\ next_id \in Ids /\ copies \in 0 .. MaxCopies
    BY DEF TypeInv, SealsOK, CopiesOK
  <1>5. Head(back).key \in Nat
    <2>1. Head(back) \in BackFrames
      BY <1>1 DEF TypeInv
    <2> QED
      BY <1>1, <2>1 DEF BackFrames
  <1>6. live.id = seal_tx.id /\ live.key \in Nat /\ live.id \in Nat
    BY <1>4, <1>5
  <1> HIDE DEF live
  <1>7. ASSUME NEW c \in [copy : 0 .. MaxCopies, kind : Kinds], c.copy \in 1 .. copies,
               dh_xfer_offer(c)
        PROVE  NewOffer(seal_tx.id) /\ tx'.copy = c.copy
    <2>1. /\ tx' \in TxRecords /\ RingOK(tx') /\ tx'.active
          /\ tx'.id = next_id /\ tx'.copy = c.copy /\ tx'.kind = c.kind
          /\ Untouched(tx') /\ next_id' = Succ(next_id)
      BY <1>7, OfferMade
    <2>2. c.copy \in Copies
      BY <1>4, <1>7, XferAssumption DEF Copies
    <2> DEFINE f == Offer(tx', live)
    <2>3. f \in Offers /\ f.seal = seal_tx.id /\ f.id = next_id /\ f.copy = tx'.copy
      BY <1>4, <1>6, <2>1, <2>2 DEF Offer, Offers
    <2>4. out' = out \/ out' = Append(out, f)
      BY <1>1
    <2> HIDE DEF f
    <2> QED
      BY <1>1, <1>7, <2>1, <2>3, <2>4 DEF NewOffer
  <1>8. current \in [copy : 0 .. MaxCopies, kind : Kinds] /\ current.copy = tx.copy
    BY <1>4 DEF TxRecords
  <1> HIDE DEF current
  <1>9. \/ UNCHANGED <<tx, next_id>> /\ out' = out
        \/ /\ NewOffer(seal_tx.id)
           /\ \/ pending # NoCopy /\ tx'.copy = pending.copy
              \/ tx.active /\ tx'.copy = tx.copy
    <2>1. CASE pending # NoCopy /\ dh_xfer_offer(pending)
      BY <1>4, <1>7, <2>1
    <2>2. CASE tx.active /\ dh_xfer_offer(current)
      BY <1>4, <1>7, <1>8, <2>2
    <2>3. CASE UNCHANGED <<tx, next_id>>
      BY <1>1, <2>3
    <2> QED
      BY <1>2, <2>1, <2>2, <2>3
  <1> QED
    BY <1>1, <1>3, <1>9 DEF SealAccepted, live

-----------------------------------------------------------------------------
(* The paste side's steps, and what happens on the path. *)

\* Frame i leaves the path.
Taken(i) ==
    /\ i \in 1 .. Len(out) /\ out' = RemoveAt(out, i)
    /\ i = 1 \/ (i = 2 /\ "CHUNK" \in {out[1].type, out[2].type})

CopySideStays ==
    /\ UNCHANGED <<tx, next_id, seal_tx, pending, reoffer, copies, confirmed>>
    /\ faults' \in 0 .. MaxFaults

Plain == {"REQUEST", "RETRANSMIT", "CREDIT", "CANCEL", "SEAL_STALE"}
Pay == {"CREDIT", "RETRANSMIT"}

Answers(add) ==
    /\ add \in Seq(BackFrames) /\ back' = back \o add
    /\ \A f \in Range(add) : \/ f.type \in Plain
                             \/ f.type = "RECEIVED" /\ f.id = rx.id /\ rx'.completed
    /\ \A f \in Range(add) : f.type \in Pay => rx'.seen_offer /\ f.id = rx'.id

\* A receive goes on, ends or completes.
RxStep ==
    /\ CopySideStays /\ UNCHANGED <<seals, seal_rx>>
    /\ out' = out \/ \E i \in 1 .. Len(out) : Taken(i)
    /\ \E add : Answers(add)
    /\ RxOK(rx') /\ rx'.id = rx.id /\ rx'.copy = rx.copy /\ rx'.seen_offer = rx.seen_offer
    /\ rx'.active => rx.active /\ ~ rx'.completed
    /\ \/ UNCHANGED <<rx_buf, delivered>> /\ rx'.received = rx.received
          /\ rx'.completed = rx.completed
       \/ \E x \in Names, q \in Seqs :
            /\ x[1] = seal_rx.id /\ x[2] = rx.id /\ rx.seen_offer
            /\ rx'.received = rx.received \cup {q} /\ rx_buf' = [rx_buf EXCEPT ![q] = x[3]]
            /\ \/ rx'.completed = rx.completed /\ delivered' = delivered
               \/ /\ rx'.completed /\ rx'.received = Seqs
                  /\ delivered' = delivered \cup {<<rx.copy, rx.id, rx_buf'>>}

\* A newer offer is taken.
RxOffered ==
    /\ CopySideStays /\ UNCHANGED <<seals, seal_rx, rx_buf, delivered>>
    /\ \E i \in 1 .. Len(out) : Taken(i)
    /\ \E add : Answers(add)
    /\ RxOK(rx') /\ rx'.seen_offer /\ rx'.received = {} /\ ~ rx'.completed
    /\ <<seal_rx.id, rx'.id, rx'.copy>> \in Names

\* A seal offer is answered.
SealAnswered ==
    /\ CopySideStays /\ UNCHANGED <<rx_buf, delivered>>
    /\ \E i \in 1 .. Len(out) :
         /\ Taken(i) /\ out[i].type = "SEAL_OFFER"
         /\ \/ /\ seal_rx.id = out[i].id /\ UNCHANGED <<rx, seal_rx, seals>>
               /\ back' = Append(back, SealAccept(out[i].id, seal_rx.key))
            \/ /\ seals' = seals + 1 /\ seal_rx' = [id |-> out[i].id, key |-> seals + 1]
               /\ back' = Append(back, SealAccept(out[i].id, seals + 1))
               /\ rx' = rx_forget

RxLost ==
    /\ CopySideStays /\ UNCHANGED <<seals, out, back, rx_buf, delivered>>
    /\ rx' = rx_forget /\ seal_rx' = dh_seal_rx_init

\* A frame is lost or damaged, or a cancel of the opposite transfer is on its way.
PathStep ==
    /\ CopySideStays /\ UNCHANGED <<seals, seal_rx, rx, rx_buf, delivered>>
    /\ \/ out' = out
       \/ out # <<>> /\ out' = Tail(out)
       \/ out # <<>> /\ Head(out).type = "CHUNK" /\ out' = [out EXCEPT ![1].intact = FALSE]
       \/ \E f \in OutFrames : f.type = "CANCEL" /\ out' = Append(out, f)
    /\ \/ back' = back
       \/ back # <<>> /\ back' = Tail(back)
       \/ \E f \in BackFrames : f.type = "CANCEL" /\ back' = Append(back, f)

LEMMA Stays ==
  ASSUME TypeInv, UNCHANGED <<side, copies, confirmed>>, UNCHANGED faults \/ Fault
  PROVE  CopySideStays
  <1>1. faults \in 0 .. MaxFaults
    BY DEF TypeInv, CopiesOK
  <1>2. faults' \in 0 .. MaxFaults
    BY <1>1, XferAssumption DEF Fault
  <1> QED
    BY <1>2 DEF CopySideStays, side

LEMMA NoAnswer ==
  ASSUME TypeInv, back' = back
  PROVE  \E add : Answers(add)
  <1>1. <<>> \in Seq(BackFrames) /\ Range(<<>>) = {} /\ back' = back \o <<>>
    BY NoFrame DEF TypeInv
  <1> QED
    BY <1>1 DEF Answers

LEMMA OneAnswer ==
  ASSUME TypeInv, NEW f \in BackFrames, back' = Append(back, f), f.type \notin Pay,
         f.type \in Plain \/ (f.type = "RECEIVED" /\ f.id = rx.id /\ rx'.completed)
  PROVE  \E add : Answers(add)
  <1>1. <<f>> \in Seq(BackFrames) /\ Range(<<f>>) = {f}
    BY OneFrame
  <1>2. back' = back \o <<f>>
    <2>1. back \in Seq(BackFrames)
      BY DEF TypeInv
    <2> QED
      BY <2>1, AppendIsConcat
  <1> QED
    BY <1>1, <1>2 DEF Answers

LEMMA ArrivesTakes ==
  ASSUME TypeInv, NEW i \in {1, 2}, Arrives(i)
  PROVE  /\ i \in 1 .. Len(out) /\ Taken(i) /\ (UNCHANGED faults \/ Fault)
         /\ out[i] \in OutFrames /\ out[i] \in Range(out) /\ OutOK(out[i])
  <1>1. out \in Seq(OutFrames) /\ \A m \in Range(out) : OutOK(m)
    BY DEF TypeInv
  <1>2. i \in 1 .. Len(out)
    BY <1>1 DEF Arrives
  <1>3. Taken(i) /\ (UNCHANGED faults \/ Fault)
    BY <1>2 DEF Arrives, Taken
  <1> QED
    BY <1>1, <1>2, <1>3, RangeIn

\* A sealed frame on the path is one of the names.
LEMMA NamedFrame ==
  ASSUME NEW m \in Range(out), Sealed(m)
  PROVE  <<m.seal, m.id, m.copy>> \in Names
  BY DEF Names

LEMMA StaleFrames ==
  ASSUME NEW m, m.seal \in Nat
  PROVE  Stale(m) \in Seq(BackFrames) /\ \A f \in Range(Stale(m)) : f.type \in Plain /\ f.type \notin Pay
  <1>1. Frame("SEAL_STALE", m.seal) \in BackFrames /\ Frame("SEAL_STALE", m.seal).type = "SEAL_STALE"
    BY DEF Frame, BackFrames
  <1> QED
    BY <1>1, OneFrame, NoFrame DEF Stale, Plain, Pay

LEMMA SealOfferedSteps ==
  ASSUME TypeInv, NEW i \in {1, 2}, Arrives(i), on_seal_offered(out[i])
  PROVE  SealAnswered
  <1>1. i \in 1 .. Len(out) /\ Taken(i) /\ (UNCHANGED faults \/ Fault)
    BY ArrivesTakes
  <1>2. CopySideStays
    BY <1>1, Stays DEF on_seal_offered, history
  <1> QED
    BY <1>1, <1>2 DEF on_seal_offered, SealAnswered, history

LEMMA OfferSteps ==
  ASSUME TypeInv, NEW i \in {1, 2}, Arrives(i), on_offer(out[i])
  PROVE  RxStep \/ RxOffered
  <1> DEFINE m == out[i]
             h == handle_offer(rx, m)
  <1>1. /\ i \in 1 .. Len(out) /\ Taken(i) /\ (UNCHANGED faults \/ Fault)
        /\ m \in OutFrames /\ m \in Range(out) /\ OutOK(m)
    BY ArrivesTakes
  <1>2. CopySideStays /\ UNCHANGED <<seals, seal_rx, rx_buf, delivered>>
    BY <1>1, Stays DEF on_offer, history
  <1>3. m \in Offers /\ m.type = "OFFER" /\ Sealed(m)
    <2>1. m.type = "OFFER"
      BY DEF on_offer
    <2> QED
      BY <1>1, <2>1 DEF OutFrames, Chunks, Offers, Sealed
  <1>4. RxOK(rx) /\ (rx.active \/ rx.completed => rx.seen_offer) /\ ~ (rx.active /\ rx.completed)
    BY DEF TypeInv, CopiesOK
  <1>5. <<m.seal, m.id, m.copy>> \in Names
    BY <1>1, <1>3, NamedFrame
  <1>6. CASE Opens(m)
    <2>1. rx' = h.rx /\ back' = back \o h.out
      BY <1>6 DEF on_offer
    <2>2. /\ RxOK(h.rx) /\ h.out \in Seq(BackFrames)
          /\ \A f \in Range(h.out) : Opener(f, h.rx.id) /\ h.rx.seen_offer
          /\ \/ h.rx = rx
             \/ /\ h.rx.seen_offer /\ h.rx.id = m.id /\ h.rx.copy = m.copy
                /\ h.rx.received = {} /\ ~ h.rx.completed /\ h.rx.ungranted = 0
      BY <1>3, <1>4, HandleOfferEffect
    <2> HIDE DEF h
    <2>3. Answers(h.out)
      BY <2>1, <2>2 DEF Answers, Plain, Pay, Opener
    <2>4. seal_rx.id = m.seal
      BY <1>6 DEF Opens
    <2> HIDE DEF m
    <2>5. CASE h.rx = rx
      BY <1>1, <1>2, <1>4, <2>1, <2>3, <2>5 DEF RxStep
    <2>6. CASE /\ h.rx.seen_offer /\ h.rx.id = m.id /\ h.rx.copy = m.copy
               /\ h.rx.received = {} /\ ~ h.rx.completed
      BY <1>1, <1>2, <1>5, <2>1, <2>2, <2>3, <2>4, <2>6 DEF RxOffered
    <2> QED
      BY <2>2, <2>5, <2>6
  <1>7. CASE ~ Opens(m)
    <2>1. rx' = rx /\ back' = back \o Stale(m)
      BY <1>7 DEF on_offer
    <2>2. m.seal \in Nat
      BY <1>3 DEF Offers
    <2>3. Answers(Stale(m))
      BY <2>1, <2>2, StaleFrames DEF Answers
    <2> HIDE DEF m
    <2> QED
      BY <1>1, <1>2, <1>4, <2>1, <2>3 DEF RxStep
  <1> QED
    BY <1>6, <1>7

LEMMA ChunkSteps ==
  ASSUME TypeInv, NEW i \in {1, 2}, Arrives(i), on_chunk(out[i])
  PROVE  RxStep
  <1> DEFINE m == out[i]
             h == handle_chunk(rx, m)
             fills == m.intact /\ m.seq \notin rx.received
             last == fills /\ rx.received \cup {m.seq} = Seqs
  <1>1. /\ i \in 1 .. Len(out) /\ Taken(i) /\ (UNCHANGED faults \/ Fault)
        /\ m \in OutFrames /\ m \in Range(out) /\ OutOK(m)
    BY ArrivesTakes
  <1>2. CopySideStays /\ UNCHANGED <<seals, seal_rx>>
    BY <1>1, Stays DEF on_chunk
  <1>3. m \in Chunks /\ m.type = "CHUNK" /\ Sealed(m)
    <2>1. m.type = "CHUNK"
      BY DEF on_chunk
    <2> QED
      BY <1>1, <2>1 DEF OutFrames, Chunks, Offers, Sealed
  <1>4. /\ RxOK(rx) /\ (rx.active \/ rx.completed => rx.seen_offer) /\ ~ (rx.active /\ rx.completed)
        /\ rx.completed \in BOOLEAN /\ rx.active \in BOOLEAN
    BY DEF TypeInv, CopiesOK, RxOK, RxRecords
  <1>5. <<m.seal, m.id, m.copy>> \in Names /\ m.seq \in Seqs /\ m.seal \in Nat
    BY <1>1, <1>3, NamedFrame DEF Chunks
  <1>6. ASSUME rx.active, rx.id = m.id, Opens(m), rx' = h.rx, back' = back \o h.out,
               rx_buf' = (IF fills THEN [rx_buf EXCEPT ![m.seq] = m.copy] ELSE rx_buf),
               delivered' = (IF h.rx.completed
                             THEN delivered \cup {<<rx.copy, rx.id, rx_buf'>>} ELSE delivered)
        PROVE  RxStep
    <2>1. /\ RxOK(h.rx) /\ h.out \in Seq(BackFrames)
          /\ h.rx.id = rx.id /\ h.rx.copy = rx.copy /\ h.rx.seen_offer = rx.seen_offer
          /\ h.rx.received = IF fills THEN rx.received \cup {m.seq} ELSE rx.received
          /\ h.rx.active <=> rx.active /\ ~ last
          /\ h.rx.completed <=> rx.completed \/ last
          /\ \A f \in Range(h.out) : \/ f.type \in {"RETRANSMIT", "CREDIT"} /\ f.id = rx.id
                                     \/ last /\ f.type = "RECEIVED" /\ f.id = rx.id
      BY <1>3, <1>4, HandleChunkEffect
    <2>2. seal_rx.id = m.seal
      BY <1>6 DEF Opens
    <2>3. h.rx.completed \in BOOLEAN
      BY <2>1 DEF RxOK, RxRecords
    <2>4. last => fills /\ rx.received \cup {m.seq} = Seqs
      OBVIOUS
    <2> DEFINE x == <<m.seal, m.id, m.copy>>
    <2>5. x \in Names /\ x[1] = seal_rx.id /\ x[2] = rx.id /\ x[3] = m.copy
      BY <1>5, <1>6, <2>2
    <2> HIDE DEF h, fills, last, m, x
    <2>6. Answers(h.out)
      BY <1>4, <1>6, <2>1 DEF Answers, Plain, Pay
    <2>7. /\ RxOK(rx') /\ rx'.id = rx.id /\ rx'.copy = rx.copy /\ rx'.seen_offer = rx.seen_offer
          /\ rx'.active => rx.active /\ ~ rx'.completed
      BY <1>4, <1>6, <2>1
    <2>8. CASE ~ fills
      <3>1. /\ UNCHANGED <<rx_buf, delivered>> /\ rx'.received = rx.received
            /\ rx'.completed = rx.completed
        BY <1>4, <1>6, <2>1, <2>3, <2>4, <2>8
      <3> QED
        BY <1>1, <1>2, <2>6, <2>7, <3>1 DEF RxStep
    <2>9. CASE fills
      <3>1. /\ rx'.received = rx.received \cup {m.seq} /\ rx_buf' = [rx_buf EXCEPT ![m.seq] = x[3]]
            /\ rx.seen_offer
        BY <1>4, <1>6, <2>1, <2>5, <2>9
      <3>2. \/ rx'.completed = rx.completed /\ delivered' = delivered
            \/ /\ rx'.completed /\ rx'.received = Seqs
               /\ delivered' = delivered \cup {<<rx.copy, rx.id, rx_buf'>>}
        BY <1>4, <1>6, <2>1, <2>3, <2>4, <3>1
      <3> QED
        BY <1>1, <1>2, <1>5, <2>5, <2>6, <2>7, <3>1, <3>2, Zenon DEF RxStep
    <2> QED
      BY <2>8, <2>9
  <1>7. ASSUME UNCHANGED <<rx, rx_buf, delivered>>, back' = back \/ back' = back \o Stale(m)
        PROVE  RxStep
    <2>1. \E add : Answers(add)
      BY <1>5, <1>7, NoAnswer, StaleFrames DEF Answers
    <2> QED
      BY <1>1, <1>2, <1>4, <1>7, <2>1 DEF RxStep
  <1>8. \/ /\ rx.active /\ rx.id = m.id /\ Opens(m) /\ rx' = h.rx /\ back' = back \o h.out
           /\ rx_buf' = (IF fills THEN [rx_buf EXCEPT ![m.seq] = m.copy] ELSE rx_buf)
           /\ delivered' = (IF h.rx.completed
                            THEN delivered \cup {<<rx.copy, rx.id, rx_buf'>>} ELSE delivered)
        \/ UNCHANGED <<rx, rx_buf, delivered>> /\ (back' = back \/ back' = back \o Stale(m))
    BY DEF on_chunk
  <1> QED
    BY <1>6, <1>7, <1>8

LEMMA DoneSteps ==
  ASSUME TypeInv, NEW i \in {1, 2}, Arrives(i), on_done(out[i])
  PROVE  RxStep
  <1> DEFINE m == out[i]
             h == handle_done(rx)
  <1>1. i \in 1 .. Len(out) /\ Taken(i) /\ (UNCHANGED faults \/ Fault)
    BY ArrivesTakes
  <1>2. CopySideStays /\ UNCHANGED <<seals, seal_rx, rx_buf, delivered>>
    BY <1>1, Stays DEF on_done
  <1>3. /\ RxOK(rx) /\ (rx.active \/ rx.completed => rx.seen_offer) /\ ~ (rx.active /\ rx.completed)
        /\ rx.id \in Nat
    BY XferAssumption DEF TypeInv, CopiesOK, RxOK, RxRecords
  <1>4. CASE rx.completed /\ rx.id = m.id /\ back' = Append(back, Frame("RECEIVED", m.id)) /\ rx' = rx
    <2>1. /\ Frame("RECEIVED", rx.id) \in BackFrames /\ Frame("RECEIVED", rx.id).type = "RECEIVED"
          /\ Frame("RECEIVED", rx.id).id = rx.id
      BY <1>3 DEF Frame, BackFrames
    <2>2. \E add : Answers(add)
      BY <1>4, <2>1, OneAnswer DEF Pay
    <2> QED
      BY <1>1, <1>2, <1>3, <1>4, <2>2 DEF RxStep
  <1>5. CASE rx.active /\ rx' = h.rx /\ back' = back \o h.out
    <2>1. /\ RxOK(h.rx) /\ SameOffer(rx, h.rx) /\ h.out \in Seq(BackFrames)
          /\ \A f \in Range(h.out) : f.type \in {"RETRANSMIT", "CREDIT"} /\ f.id = rx.id
      BY <1>3, HandleDoneEffect
    <2> HIDE DEF h
    <2>2. Answers(h.out)
      BY <1>3, <1>5, <2>1 DEF Answers, Plain, Pay, SameOffer
    <2> QED
      BY <1>1, <1>2, <1>3, <1>5, <2>1, <2>2 DEF RxStep, SameOffer
  <1>6. CASE UNCHANGED <<rx, back>>
    <2>1. \E add : Answers(add)
      BY <1>6, NoAnswer
    <2> QED
      BY <1>1, <1>2, <1>3, <1>6, <2>1 DEF RxStep
  <1> QED
    BY <1>4, <1>5, <1>6 DEF on_done

LEMMA CancelledSteps ==
  ASSUME TypeInv, NEW i \in {1, 2}, Arrives(i), CancelAtPasteSide(out[i])
  PROVE  RxStep
  <1>1. i \in 1 .. Len(out) /\ Taken(i) /\ (UNCHANGED faults \/ Fault)
    BY ArrivesTakes
  <1>2. CopySideStays /\ UNCHANGED <<seals, seal_rx, rx_buf, delivered, back>>
    BY <1>1, Stays DEF CancelAtPasteSide
  <1>3. \E add : Answers(add)
    BY <1>2, NoAnswer
  <1>4. RxOK(rx) /\ rx \in RxRecords /\ ~ (rx.active /\ rx.completed)
    BY DEF TypeInv, CopiesOK, RxOK
  <1>5. rx' = rx \/ rx' = [rx EXCEPT !.active = FALSE]
    BY DEF CancelAtPasteSide
  <1>6. /\ RxOK(rx') /\ SameOffer([rx EXCEPT !.active = rx'.active], rx')
        /\ rx'.active => rx.active /\ ~ rx'.completed
    BY <1>4, <1>5 DEF RxOK, RxRecords, SameOffer
  <1>7. /\ rx'.id = rx.id /\ rx'.copy = rx.copy /\ rx'.seen_offer = rx.seen_offer
        /\ rx'.received = rx.received /\ rx'.completed = rx.completed
    BY <1>4, <1>5 DEF RxRecords
  <1> QED
    BY <1>1, <1>2, <1>3, <1>6, <1>7 DEF RxStep

LEMMA ReceiverSteps ==
  ASSUME TypeInv, dh_xfer_request_lazy \/ SweepRx \/ dh_xfer_cancel_rx
  PROVE  RxStep
  <1>1. /\ CopySideStays /\ UNCHANGED <<seals, seal_rx, rx_buf, delivered, out>> /\ rx.active
    BY Stays DEF dh_xfer_request_lazy, SweepRx, dh_xfer_cancel_rx, history, Due
  <1>2. /\ RxOK(rx) /\ rx \in RxRecords /\ ~ (rx.active /\ rx.completed) /\ rx.id \in Nat
        /\ rx.seen_offer
    BY <1>1, XferAssumption DEF TypeInv, CopiesOK, RxOK, RxRecords
  <1>3. CASE SweepRx
    <2> DEFINE h == dh_xfer_sweep_rx(rx)
    <2>1. /\ RxOK(h.rx) /\ SameOffer(rx, h.rx) /\ h.out \in Seq(BackFrames)
          /\ \A f \in Range(h.out) : f.type \in {"REQUEST", "RETRANSMIT", "CREDIT"} /\ f.id = rx.id
      BY <1>2, SweepEffect
    <2>2. rx' = h.rx /\ back' = back \o h.out
      BY <1>3 DEF SweepRx
    <2> HIDE DEF h
    <2>3. Answers(h.out)
      BY <1>2, <2>1, <2>2 DEF Answers, Plain, Pay, SameOffer
    <2> QED
      BY <1>1, <1>2, <2>1, <2>2, <2>3 DEF RxStep, SameOffer
  <1>4. CASE dh_xfer_request_lazy
    <2>1. rx' = [rx EXCEPT !.lazy = FALSE] /\ back' = back \o Opening(rx.id)
      BY <1>4 DEF dh_xfer_request_lazy
    <2>3. RxOK(rx') /\ rx'.active = rx.active /\ rx'.completed = rx.completed
      BY <1>2, <2>1 DEF RxOK, RxRecords
    <2>4. /\ rx'.id = rx.id /\ rx'.copy = rx.copy /\ rx'.seen_offer = rx.seen_offer
          /\ rx'.received = rx.received
      BY <1>2, <2>1 DEF RxRecords
    <2>2. Answers(Opening(rx.id))
      BY <1>2, <2>1, <2>4, OpeningFrames DEF Answers, Plain, Pay, Opener
    <2> QED
      BY <1>1, <1>2, <2>2, <2>3, <2>4 DEF RxStep
  <1>5. CASE dh_xfer_cancel_rx
    <2>1. rx' = [rx EXCEPT !.active = FALSE] /\ back' = Append(back, Frame("CANCEL", rx.id))
      BY <1>5 DEF dh_xfer_cancel_rx
    <2>2. /\ Frame("CANCEL", rx.id) \in BackFrames /\ Frame("CANCEL", rx.id).type \in Plain
          /\ Frame("CANCEL", rx.id).type \notin Pay
      BY <1>2 DEF Frame, BackFrames, Plain, Pay
    <2>3. \E add : Answers(add)
      BY <2>1, <2>2, OneAnswer
    <2>4. RxOK(rx') /\ ~ rx'.active /\ rx'.completed = rx.completed
      BY <1>2, <2>1 DEF RxOK, RxRecords
    <2>5. /\ rx'.id = rx.id /\ rx'.copy = rx.copy /\ rx'.seen_offer = rx.seen_offer
          /\ rx'.received = rx.received
      BY <1>2, <2>1 DEF RxRecords
    <2> QED
      BY <1>1, <1>2, <2>3, <2>4, <2>5 DEF RxStep
  <1> QED
    BY <1>3, <1>4, <1>5

LEMMA PathSteps ==
  ASSUME TypeInv, OppositeCancel \/ Lose
  PROVE  PathStep
  <1>1. CopySideStays /\ UNCHANGED <<seals, seal_rx, rx, rx_buf, delivered>>
    BY Stays DEF OppositeCancel, Lose, history, far
  <1>2. CASE OppositeCancel
    <2>1. tx.id \in Nat /\ rx.id \in Nat
      BY XferAssumption DEF TypeInv, TxRecords, RxOK, RxRecords
    <2>2. /\ Frame("CANCEL", tx.id) \in BackFrames /\ Frame("CANCEL", tx.id).type = "CANCEL"
          /\ Frame("CANCEL", rx.id) \in OutFrames /\ Frame("CANCEL", rx.id).type = "CANCEL"
      BY <2>1 DEF Frame, BackFrames, OutFrames
    <2> QED
      BY <1>1, <1>2, <2>2 DEF OppositeCancel, PathStep
  <1>3. CASE Lose
    BY <1>1, <1>3 DEF Lose, PathStep
  <1> QED
    BY <1>2, <1>3

LEMMA RxLostSteps ==
  ASSUME TypeInv, PasteSideSessionEnded
  PROVE  RxLost
  BY Stays DEF PasteSideSessionEnded, RxLost, path

\* Every step is one of these.
CopySideForms == CopyStep \/ SealStep \/ SealLost \/ CopyOffered \/ SealAccepted
PasteSideForms == RxStep \/ RxOffered \/ SealAnswered \/ RxLost \/ PathStep

LEMMA NextForms ==
  ASSUME TypeInv, Next
  PROVE  CopySideForms \/ PasteSideForms
  <1>1. ASSUME NEW kind \in CopyKinds, Copy(kind) PROVE CopySideForms
    <2>1. CASE seal_tx.live
      BY <1>1, <2>1, OfferedSteps DEF CopySideForms
    <2>2. CASE ~ seal_tx.live /\ seal_tx.offered
      BY <1>1, <2>2, ParkSteps DEF CopySideForms
    <2>3. CASE ~ seal_tx.live /\ ~ seal_tx.offered
      BY <1>1, <2>3, SealSteps DEF CopySideForms
    <2> QED
      BY <2>1, <2>2, <2>3
  <1>2. CASE CopySide
    <2>1. CASE dh_xfer_handle_request
      BY <2>1, RequestSteps DEF CopySideForms
    <2>2. CASE dh_xfer_handle_retransmit
      BY <2>2, RetransmitSteps DEF CopySideForms
    <2>3. CASE dh_xfer_handle_credit
      BY <2>3, CreditSteps DEF CopySideForms
    <2>4. CASE dh_xfer_handle_received \/ CancelAtCopySide
      BY <2>4, EndingSteps DEF CopySideForms
    <2>5. CASE on_seal_accepted
      <3>1. CASE seal_tx.offered /\ Head(back).id = seal_tx.id
        BY <2>5, <3>1, AcceptedSteps DEF CopySideForms
      <3>2. CASE ~ (seal_tx.offered /\ Head(back).id = seal_tx.id)
        BY <2>5, <3>2, IgnoredSteps DEF CopySideForms
      <3> QED
        BY <3>1, <3>2
    <2>6. CASE on_seal_stale
      <3>1. CASE (seal_tx.live \/ seal_tx.offered) /\ Head(back).id = seal_tx.id
        BY <2>6, <3>1, StaleSteps DEF CopySideForms
      <3>2. CASE ~ ((seal_tx.live \/ seal_tx.offered) /\ Head(back).id = seal_tx.id)
        BY <2>6, <3>2, IgnoredSteps DEF CopySideForms
      <3> QED
        BY <3>1, <3>2
    <2> QED
      BY <1>2, <2>1, <2>2, <2>3, <2>4, <2>5, <2>6 DEF CopySide
  <1>3. ASSUME NEW i \in {1, 2}, Arrives(i),
               \/ on_seal_offered(out[i]) \/ on_offer(out[i]) \/ on_chunk(out[i])
               \/ on_done(out[i]) \/ CancelAtPasteSide(out[i])
        PROVE  PasteSideForms
    <2>1. CASE on_seal_offered(out[i])
      BY <1>3, <2>1, SealOfferedSteps DEF PasteSideForms
    <2>2. CASE on_offer(out[i])
      BY <1>3, <2>2, OfferSteps DEF PasteSideForms
    <2>3. CASE on_chunk(out[i])
      BY <1>3, <2>3, ChunkSteps DEF PasteSideForms
    <2>4. CASE on_done(out[i])
      BY <1>3, <2>4, DoneSteps DEF PasteSideForms
    <2>5. CASE CancelAtPasteSide(out[i])
      BY <1>3, <2>5, CancelledSteps DEF PasteSideForms
    <2> QED
      BY <1>3, <2>1, <2>2, <2>3, <2>4, <2>5
  <1>4. CASE dh_xfer_request_lazy \/ SweepRx
    BY <1>4, ReceiverSteps DEF PasteSideForms
  <1>5. CASE CopyTick
    <2>1. CASE RetryOffer \/ RetryDone \/ (RetrySeal /\ seal_tx.offered)
      BY <2>1, RetrySteps DEF CopySideForms
    <2>2. CASE RetrySeal /\ ~ seal_tx.offered
      BY <2>2, SealSteps DEF CopySideForms
    <2> QED
      BY <1>5, <2>1, <2>2 DEF CopyTick
  <1>6. CASE Interrupted
    <2>1. CASE dh_xfer_cancel_tx \/ dh_xfer_expire_tx \/ DropParked
      BY <2>1, EndingSteps DEF CopySideForms
    <2>2. CASE dh_xfer_cancel_rx
      BY <2>2, ReceiverSteps DEF PasteSideForms
    <2>3. CASE OppositeCancel
      BY <2>3, PathSteps DEF PasteSideForms
    <2>4. CASE CopySideSessionEnded \/ CopySideRestarts
      BY <2>4, SealLostSteps DEF CopySideForms
    <2>5. CASE PasteSideSessionEnded
      BY <2>5, RxLostSteps DEF PasteSideForms
    <2> QED
      BY <1>6, <2>1, <2>2, <2>3, <2>4, <2>5 DEF Interrupted
  <1>7. CASE Lose
    BY <1>7, PathSteps DEF PasteSideForms
  <1> QED
    BY <1>1, <1>2, <1>3, <1>4, <1>5, <1>6, <1>7 DEF Next, PasteSide

-----------------------------------------------------------------------------
(* The types are kept. *)

\* What was in order stays so while seals and copies only grow.
LEMMA PathsTyped ==
  ASSUME TypeInv, copies' \in copies .. MaxCopies, seals' \in {seals, seals + 1},
         out' \in Seq(OutFrames), \A m \in Range(out') : m \in Range(out) \/ OutOK(m)',
         back' \in Seq(BackFrames), \A m \in Range(back') : m \in Range(back) \/ BackOK(m)'
  PROVE  /\ \A m \in Range(out') : OutOK(m)'
         /\ \A m \in Range(back') : BackOK(m)'
  <1>1. /\ copies \in Nat /\ seals \in Nat /\ copies' \in Int /\ copies <= copies' /\ seals <= seals'
        /\ seals' \in Nat
    BY XferAssumption DEF TypeInv, SealsOK, CopiesOK
  <1>2. ASSUME NEW m \in Range(out), m \in OutFrames PROVE OutOK(m)'
    <2>1. OutOK(m)
      BY DEF TypeInv
    <2>2. Sealed(m) => m.copy \in Int
      BY <1>2, XferAssumption DEF OutFrames, Offers, Chunks, Sealed, Copies
    <2>3. (Sealed(m) => m.copy <= copies) => (Sealed(m) => m.copy <= copies')
      BY <1>1, <2>2
    <2>4. \A k \in 1 .. seals : k \in 1 .. seals'
      BY <1>1
    <2> QED
      BY <2>1, <2>3, <2>4 DEF OutOK, Sealed
  <1>3. ASSUME NEW m \in Range(back) PROVE BackOK(m)'
    <2>1. BackOK(m)
      BY DEF TypeInv
    <2>2. \A k \in 1 .. seals : k \in 1 .. seals'
      BY <1>1
    <2> QED
      BY <2>1, <2>2 DEF BackOK
  <1>4. Range(out') \subseteq OutFrames
    BY RangeIn
  <1> QED
    BY <1>2, <1>3, <1>4

LEMMA SentRange ==
  ASSUME TypeInv, NEW add, Sent(add)
  PROVE  /\ out' \in Seq(OutFrames) /\ Range(out') = Range(out) \cup Range(add)
         /\ Range(add) \subseteq OutFrames
         /\ \A m \in Range(add) : OutOK(m)
  <1>1. out \in Seq(OutFrames) /\ add \in Seq(OutFrames) /\ out' = out \o add
    BY DEF TypeInv, Sent
  <1>2. out' \in Seq(OutFrames) /\ Range(out') = Range(out) \cup Range(add)
    BY <1>1, ConcatRange
  <1>3. /\ seals \in Nat /\ copies \in Nat /\ seal_tx.id \in 0 .. seals
        /\ seal_tx.offered \/ seal_tx.live => seal_tx.id > 0
        /\ tx.active => tx.copy \in 1 .. copies
    BY XferAssumption DEF TypeInv, SealsOK, CopiesOK
  <1>4. seal_tx.offered \/ seal_tx.live => seal_tx.id \in 1 .. seals
    BY <1>3
  <1>5. tx.active => tx.copy <= copies
    BY <1>3
  <1>6. ASSUME NEW m \in Range(add) PROVE OutOK(m)
    BY <1>4, <1>5 DEF Sent, OfTransfer, OutOK, Sealed
  <1> QED
    BY <1>1, <1>2, <1>6, RangeIn

LEMMA ConsumedRange ==
  ASSUME TypeInv, Consumed
  PROVE  back' \in Seq(BackFrames) /\ Range(back') \subseteq Range(back)
  BY TailRange DEF TypeInv, Consumed

LEMMA TakenRange ==
  ASSUME TypeInv, out' = out \/ \E i \in 1 .. Len(out) : Taken(i)
  PROVE  out' \in Seq(OutFrames) /\ Range(out') \subseteq Range(out)
  BY RemoveRange DEF TypeInv, Taken

LEMMA AnswersRange ==
  ASSUME TypeInv, NEW add, Answers(add)
  PROVE  back' \in Seq(BackFrames) /\ Range(back') = Range(back) \cup Range(add)
  BY ConcatRange DEF TypeInv, Answers

LEMMA PasteSideTyped ==
  ASSUME TypeInv, PasteSideStays, copies' \in copies .. MaxCopies, seals' \in {seals, seals + 1}
  PROVE  /\ RxOK(rx') /\ rx_buf' \in [Seqs -> 0 .. MaxCopies]
         /\ rx'.seen_offer => rx'.id \in Ids /\ rx'.copy \in 1 .. copies'
         /\ rx'.active \/ rx'.completed => rx'.seen_offer
         /\ ~ (rx'.active /\ rx'.completed)
         /\ seals' \in Nat /\ seal_rx' \in [id : Nat, key : Nat] /\ seal_rx'.id \in 0 .. seals'
  <1>1. /\ RxOK(rx) /\ rx_buf \in [Seqs -> 0 .. MaxCopies]
        /\ rx.seen_offer => rx.id \in Ids /\ rx.copy \in 1 .. copies
        /\ rx.active \/ rx.completed => rx.seen_offer
        /\ ~ (rx.active /\ rx.completed)
        /\ seals \in Nat /\ seal_rx \in [id : Nat, key : Nat] /\ seal_rx.id \in 0 .. seals
        /\ copies \in Nat /\ MaxCopies \in Nat
    BY XferAssumption DEF TypeInv, SealsOK, CopiesOK
  <1>2. /\ \A k \in 1 .. copies : k \in 1 .. copies'
        /\ \A k \in 0 .. seals : k \in 0 .. seals'
        /\ seals' \in Nat
    BY <1>1
  <1> QED
    BY <1>1, <1>2 DEF PasteSideStays

LEMMA CopySideTyped ==
  ASSUME TypeInv, CopySideStays, seals' \in {seals, seals + 1}
  PROVE  /\ tx' \in TxRecords /\ RingOK(tx') /\ next_id' \in Ids
         /\ copies' \in copies .. MaxCopies
         /\ copies' \in 0 .. MaxCopies /\ faults' \in 0 .. MaxFaults /\ reoffer' \in BOOLEAN
         /\ pending' \in [copy : 0 .. MaxCopies, kind : Kinds]
         /\ pending' = NoCopy \/ pending'.copy \in 1 .. copies'
         /\ tx'.active => tx'.id \in Ids /\ tx'.copy \in 1 .. copies'
         /\ seals' \in Nat
         /\ seal_tx' \in [id : Nat, key : Nat, offered : BOOLEAN, live : BOOLEAN]
         /\ seal_tx'.id \in 0 .. seals' /\ ~ (seal_tx'.offered /\ seal_tx'.live)
         /\ seal_tx'.offered \/ seal_tx'.live => seal_tx'.id > 0
  <1>1. /\ tx \in TxRecords /\ RingOK(tx) /\ next_id \in Ids
        /\ copies \in 0 .. MaxCopies /\ reoffer \in BOOLEAN
        /\ pending \in [copy : 0 .. MaxCopies, kind : Kinds]
        /\ pending = NoCopy \/ pending.copy \in 1 .. copies
        /\ tx.active => tx.id \in Ids /\ tx.copy \in 1 .. copies
        /\ seals \in Nat
        /\ seal_tx \in [id : Nat, key : Nat, offered : BOOLEAN, live : BOOLEAN]
        /\ seal_tx.id \in 0 .. seals /\ ~ (seal_tx.offered /\ seal_tx.live)
        /\ seal_tx.offered \/ seal_tx.live => seal_tx.id > 0
        /\ MaxCopies \in Nat
    BY XferAssumption DEF TypeInv, SealsOK, CopiesOK
  <1>2. (\A k \in 0 .. seals : k \in 0 .. seals') /\ seals' \in Nat /\ copies \in copies .. MaxCopies
    BY <1>1
  <1> QED
    BY <1>1, <1>2 DEF CopySideStays

LEMMA CopySideTypes ==
  ASSUME TypeInv, CopySideForms
  PROVE  TypeInv'
  <1>1. PasteSideStays /\ Consumed /\ Parked
    BY DEF CopySideForms, CopyStep, SealStep, SealLost, CopyOffered, SealAccepted, Consumed
  <1>2. copies' \in copies .. MaxCopies /\ seals' \in {seals, seals + 1}
    BY <1>1 DEF CopySideForms, CopyStep, SealStep, SealLost, CopyOffered, SealAccepted, Parked
  <1>3. /\ RxOK(rx') /\ rx_buf' \in [Seqs -> 0 .. MaxCopies]
        /\ rx'.seen_offer => rx'.id \in Ids /\ rx'.copy \in 1 .. copies'
        /\ rx'.active \/ rx'.completed => rx'.seen_offer
        /\ ~ (rx'.active /\ rx'.completed)
        /\ seals' \in Nat /\ seal_rx' \in [id : Nat, key : Nat] /\ seal_rx'.id \in 0 .. seals'
    BY <1>1, <1>2, PasteSideTyped
  <1>4. back' \in Seq(BackFrames) /\ Range(back') \subseteq Range(back)
    BY <1>1, ConsumedRange
  <1>5. /\ tx \in TxRecords /\ RingOK(tx) /\ next_id \in Ids /\ out \in Seq(OutFrames)
        /\ tx.active => tx.id \in Ids /\ tx.copy \in 1 .. copies
        /\ seals \in Nat /\ copies \in Nat /\ MaxCopies \in Nat
        /\ seal_tx \in [id : Nat, key : Nat, offered : BOOLEAN, live : BOOLEAN]
        /\ seal_tx.id \in 0 .. seals /\ ~ (seal_tx.offered /\ seal_tx.live)
        /\ seal_tx.offered \/ seal_tx.live => seal_tx.id > 0
        /\ \A m \in Range(out) : OutOK(m)
    BY XferAssumption DEF TypeInv, SealsOK, CopiesOK
  <1>6. \A k \in 1 .. copies : k \in 1 .. copies'
    BY <1>2, <1>5
  <1>7. \A id \in Ids : Succ(id) \in Ids
    BY XferAssumption DEF Succ, Ids
  <1>8. /\ tx' \in TxRecords /\ RingOK(tx') /\ next_id' \in Ids
        /\ tx'.active => tx'.id \in Ids /\ tx'.copy \in 1 .. copies'
    <2>1. CASE CopyStep
      BY <2>1, <1>5, <1>6 DEF CopyStep
    <2>2. CASE SealStep
      BY <2>2, <1>5, <1>6 DEF SealStep
    <2>3. CASE SealLost
      BY <2>3, <1>5, ResetOK DEF SealLost
    <2>4. CASE CopyOffered
      BY <2>4, <1>5, <1>7 DEF CopyOffered, NewOffer
    <2>5. CASE SealAccepted
      BY <2>5, <1>5, <1>6, <1>7 DEF SealAccepted, NewOffer
    <2> QED
      BY <2>1, <2>2, <2>3, <2>4, <2>5 DEF CopySideForms
  <1>9. /\ seal_tx' \in [id : Nat, key : Nat, offered : BOOLEAN, live : BOOLEAN]
        /\ seal_tx'.id \in 0 .. seals' /\ ~ (seal_tx'.offered /\ seal_tx'.live)
        /\ seal_tx'.offered \/ seal_tx'.live => seal_tx'.id > 0
    <2>1. CASE CopyStep \/ CopyOffered
      BY <2>1, <1>5 DEF CopyStep, CopyOffered
    <2>2. CASE SealStep
      <3>1. seal_tx' = [id |-> seals + 1, key |-> 0, offered |-> TRUE, live |-> FALSE]
        BY <2>2 DEF SealStep, dh_seal_tx_init
      <3>2. seals + 1 \in Nat /\ seals + 1 \in 0 .. seals' /\ seals + 1 > 0
        BY <2>2, <1>5 DEF SealStep
      <3> QED
        BY <3>1, <3>2
    <2>3. CASE SealLost
      BY <2>3, <1>5 DEF SealLost, dh_seal_tx_init
    <2>4. CASE SealAccepted
      <3>1. Head(back).key \in Nat
        <4>1. back # <<>> /\ Head(back) \in BackFrames /\ Head(back).type = "SEAL_ACCEPT"
          BY <2>4 DEF TypeInv, SealAccepted
        <4> QED
          BY <4>1 DEF BackFrames
      <3> QED
        BY <2>4, <1>5, <3>1 DEF SealAccepted
    <2> QED
      BY <2>1, <2>2, <2>3, <2>4 DEF CopySideForms
  <1>10. out' \in Seq(OutFrames) /\ \A m \in Range(out') : m \in Range(out) \/ OutOK(m)'
    <2>1. CASE CopyStep
      <3>1. PICK add : Sent(add)
        BY <2>1 DEF CopyStep
      <3>2. /\ out' \in Seq(OutFrames) /\ Range(out') = Range(out) \cup Range(add)
            /\ Range(add) \subseteq OutFrames /\ \A m \in Range(add) : OutOK(m)
        BY <3>1, SentRange
      <3>3. ASSUME NEW m \in Range(add) PROVE OutOK(m)'
        <4>1. OutOK(m) /\ seals' = seals /\ m \in OutFrames
          BY <2>1, <3>2 DEF CopyStep
        <4>2. Sealed(m) => m.copy \in Int
          BY <4>1, XferAssumption DEF OutFrames, Offers, Chunks, Sealed, Copies
        <4>3. (Sealed(m) => m.copy <= copies) => (Sealed(m) => m.copy <= copies')
          BY <1>2, <1>5, <4>2
        <4> QED
          BY <4>1, <4>3 DEF OutOK, Sealed
      <3> QED
        BY <3>2, <3>3
    <2>2. CASE SealStep
      <3>0. Frame("SEAL_OFFER", seals + 1) \in OutFrames
        BY <1>5 DEF Frame, OutFrames
      <3>1. PICK f \in OutFrames : /\ f.type = "SEAL_OFFER" /\ f.id = seals + 1
                                   /\ out' = Append(out, f) /\ seals' = seals + 1
        BY <2>2, <3>0 DEF SealStep, Frame
      <3>2. out' = Append(out, f)
        BY <3>1
      <3>3. out' \in Seq(OutFrames) /\ Range(out') = Range(out) \cup {f}
        BY <1>5, <3>1, <3>2, AppendRange
      <3>4. seals + 1 \in 1 .. seals'
        BY <1>5, <3>1
      <3>5. OutOK(f)'
        BY <3>1, <3>4 DEF OutOK, Sealed
      <3> QED
        BY <3>3, <3>5
    <2>3. CASE SealLost
      BY <2>3, <1>5 DEF SealLost
    <2>4. CASE UNCHANGED <<tx, next_id, out>>
      BY <2>4, <1>5
    <2>5. CASE NewOffer(seal_tx.id) /\ (seal_tx.live \/ seal_tx.offered)
      <3>1. CASE out' = out
        BY <3>1, <1>5
      <3>2. ASSUME NEW f \in Offers, out' = Append(out, f), f.seal = seal_tx.id, f.copy = tx'.copy,
                   tx'.copy \in 1 .. copies'
            PROVE  out' \in Seq(OutFrames) /\ \A m \in Range(out') : m \in Range(out) \/ OutOK(m)'
        <4>1. f \in OutFrames /\ f.type = "OFFER"
          BY DEF OutFrames, Offers
        <4>2. out' \in Seq(OutFrames) /\ Range(out') = Range(out) \cup {f}
          BY <1>5, <3>2, <4>1, AppendRange
        <4>3. seal_tx.id \in 1 .. seals'
          BY <1>2, <1>5, <2>5
        <4>4. f.copy <= copies'
          BY <1>2, <1>5, <3>2
        <4>5. OutOK(f)'
          BY <3>2, <4>1, <4>3, <4>4 DEF OutOK, Sealed
        <4> QED
          BY <4>2, <4>5
      <3> QED
        BY <2>5, <3>1, <3>2 DEF NewOffer
    <2> QED
      BY <2>1, <2>2, <2>3, <2>4, <2>5 DEF CopySideForms, CopyOffered, SealAccepted
  <1>11. /\ \A m \in Range(out') : OutOK(m)'
         /\ \A m \in Range(back') : BackOK(m)'
    BY <1>2, <1>4, <1>10, PathsTyped
  <1>12. SealsOK'
    BY <1>3, <1>9 DEF SealsOK
  <1>13. CopiesOK'
    <2>1. copies' \in 0 .. MaxCopies
      BY <1>2, <1>5
    <2> QED
      BY <1>1, <1>3, <1>8, <2>1 DEF CopiesOK, Parked
  <1>14. RingOK(tx)' /\ RxOK(rx)'
    BY <1>3, <1>8 DEF RingOK, RxOK
  <1> QED
    BY <1>3, <1>4, <1>8, <1>10, <1>11, <1>12, <1>13, <1>14 DEF TypeInv

LEMMA NamesTyped ==
  ASSUME TypeInv
  PROVE  \A x \in Names : /\ x[1] \in 1 .. seals /\ x[2] \in Ids /\ x[3] \in 1 .. copies
                          /\ x[3] \in 0 .. MaxCopies
  <1> SUFFICES ASSUME NEW m \in Range(out), Sealed(m)
               PROVE  /\ m.seal \in 1 .. seals /\ m.id \in Ids /\ m.copy \in 1 .. copies
                      /\ m.copy \in 0 .. MaxCopies
    BY DEF Names
  <1>1. m \in OutFrames /\ OutOK(m) /\ copies \in Nat /\ MaxCopies \in Nat
    BY RangeIn, XferAssumption DEF TypeInv, CopiesOK
  <1>2. m.id \in Ids /\ m.copy \in Copies
    BY <1>1 DEF OutFrames, Offers, Chunks, Sealed
  <1> QED
    BY <1>1, <1>2 DEF OutOK, Copies

LEMMA FirstReplaced ==
  ASSUME NEW T, NEW s \in Seq(T), s # <<>>, NEW d \in T, NEW n, n = [s EXCEPT ![1] = d]
  PROVE  /\ n \in Seq(T) /\ Len(n) = Len(s)
         /\ \A i \in 1 .. Len(s) : n[i] = IF i = 1 THEN d ELSE s[i]
  OBVIOUS

\* A damaged chunk is the same chunk in all that names it.
LEMMA DamagedFrame ==
  ASSUME NEW s \in Seq(OutFrames), s # <<>>, Head(s).type = "CHUNK"
  PROVE  \E d \in OutFrames : /\ [s EXCEPT ![1].intact = FALSE] = [s EXCEPT ![1] = d]
                              /\ d.type = s[1].type /\ d.id = s[1].id
                              /\ d.seal = s[1].seal /\ d.copy = s[1].copy
  <1>1. 1 \in 1 .. Len(s) /\ Head(s) = s[1]
    OBVIOUS
  <1> DEFINE m == s[1]
             d == [m EXCEPT !.intact = FALSE]
  <1>2. m \in Chunks
    BY <1>1 DEF OutFrames, Chunks, Offers
  <1>3. d \in Chunks /\ d.type = m.type /\ d.id = m.id /\ d.seal = m.seal /\ d.copy = m.copy
    BY <1>2 DEF Chunks
  <1>4. [s EXCEPT ![1].intact = FALSE] = [s EXCEPT ![1] = d]
    BY Zenon
  <1>5. d \in OutFrames
    BY <1>3 DEF OutFrames
  <1> HIDE DEF d
  <1> QED
    BY <1>3, <1>4, <1>5

\* One frame of the path is replaced by its damaged form.
Damaged ==
    \E d \in OutFrames : /\ out # <<>> /\ out' = [out EXCEPT ![1] = d]
                         /\ d.type = out[1].type /\ d.id = out[1].id
                         /\ d.seal = out[1].seal /\ d.copy = out[1].copy

LEMMA DamagedPath ==
  ASSUME TypeInv, Damaged
  PROVE  /\ out' \in Seq(OutFrames) /\ Len(out') = Len(out)
         /\ \A i \in 1 .. Len(out) : /\ out'[i].type = out[i].type /\ out'[i].id = out[i].id
                                     /\ Sealed(out[i]) => /\ out'[i].seal = out[i].seal
                                                          /\ out'[i].copy = out[i].copy
  <1>1. out \in Seq(OutFrames)
    BY DEF TypeInv
  <1>2. PICK d \in OutFrames : /\ out # <<>> /\ out' = [out EXCEPT ![1] = d]
                              /\ d.type = out[1].type /\ d.id = out[1].id
                              /\ d.seal = out[1].seal /\ d.copy = out[1].copy
    BY DEF Damaged
  <1>3. /\ out' \in Seq(OutFrames) /\ Len(out') = Len(out)
        /\ \A i \in 1 .. Len(out) : out'[i] = IF i = 1 THEN d ELSE out[i]
    BY <1>1, <1>2, FirstReplaced
  <1> QED
    BY <1>2, <1>3

LEMMA PasteSideTypes ==
  ASSUME TypeInv, PasteSideForms
  PROVE  TypeInv'
  <1>1. CopySideStays
    BY DEF PasteSideForms, RxStep, RxOffered, SealAnswered, RxLost, PathStep
  <1>2. seals' \in {seals, seals + 1}
    BY DEF PasteSideForms, RxStep, RxOffered, SealAnswered, RxLost, PathStep
  <1>3. /\ tx' \in TxRecords /\ RingOK(tx') /\ next_id' \in Ids
        /\ copies' \in copies .. MaxCopies
        /\ copies' \in 0 .. MaxCopies /\ faults' \in 0 .. MaxFaults /\ reoffer' \in BOOLEAN
        /\ pending' \in [copy : 0 .. MaxCopies, kind : Kinds]
        /\ pending' = NoCopy \/ pending'.copy \in 1 .. copies'
        /\ tx'.active => tx'.id \in Ids /\ tx'.copy \in 1 .. copies'
        /\ seals' \in Nat
        /\ seal_tx' \in [id : Nat, key : Nat, offered : BOOLEAN, live : BOOLEAN]
        /\ seal_tx'.id \in 0 .. seals' /\ ~ (seal_tx'.offered /\ seal_tx'.live)
        /\ seal_tx'.offered \/ seal_tx'.live => seal_tx'.id > 0
    BY <1>1, <1>2, CopySideTyped
  <1>4. /\ RxOK(rx) /\ rx_buf \in [Seqs -> 0 .. MaxCopies]
        /\ rx.seen_offer => rx.id \in Ids /\ rx.copy \in 1 .. copies
        /\ rx.active \/ rx.completed => rx.seen_offer
        /\ ~ (rx.active /\ rx.completed)
        /\ seals \in Nat /\ seal_rx \in [id : Nat, key : Nat] /\ seal_rx.id \in 0 .. seals
        /\ out \in Seq(OutFrames) /\ back \in Seq(BackFrames)
        /\ \A m \in Range(out) : OutOK(m)
    BY DEF TypeInv, SealsOK, CopiesOK
  <1>5. copies' = copies
    BY <1>1 DEF CopySideStays
  <1>6. /\ RxOK(rx') /\ rx_buf' \in [Seqs -> 0 .. MaxCopies]
        /\ rx'.seen_offer => rx'.id \in Ids /\ rx'.copy \in 1 .. copies'
        /\ rx'.active \/ rx'.completed => rx'.seen_offer
        /\ ~ (rx'.active /\ rx'.completed)
    <2>1. CASE RxStep
      <3>1. rx_buf' \in [Seqs -> 0 .. MaxCopies]
        BY <1>4, <2>1, NamesTyped DEF RxStep
      <3> QED
        BY <1>4, <1>5, <2>1, <3>1 DEF RxStep
    <2>2. CASE RxOffered
      <3>1. rx'.id \in Ids /\ rx'.copy \in 1 .. copies
        BY <2>2, NamesTyped DEF RxOffered
      <3> QED
        BY <1>4, <1>5, <2>2, <3>1 DEF RxOffered
    <2>3. CASE rx' = rx_forget /\ rx_buf' = rx_buf
      BY <1>4, <2>3, ForgetOK DEF rx_forget
    <2>4. CASE UNCHANGED <<rx, rx_buf>>
      BY <1>4, <1>5, <2>4
    <2> QED
      BY <2>1, <2>2, <2>3, <2>4 DEF PasteSideForms, SealAnswered, RxLost, PathStep
  <1>7. out' \in Seq(OutFrames) /\ \A m \in Range(out') : m \in Range(out) \/ OutOK(m)'
    <2>1. CASE out' = out \/ \E i \in 1 .. Len(out) : Taken(i)
      BY <2>1, TakenRange
    <2>2. CASE PathStep
      <3>1. CASE out # <<>> /\ out' = Tail(out)
        BY <1>4, <3>1, TailRange
      <3>2. CASE out # <<>> /\ Head(out).type = "CHUNK" /\ out' = [out EXCEPT ![1].intact = FALSE]
        <4>0. Damaged
          BY <1>4, <3>2, DamagedFrame DEF Damaged
        <4>1. /\ out' \in Seq(OutFrames) /\ Len(out') = Len(out)
              /\ \A i \in 1 .. Len(out) : /\ out'[i].type = out[i].type /\ out'[i].id = out[i].id
                                          /\ Sealed(out[i]) => /\ out'[i].seal = out[i].seal
                                                               /\ out'[i].copy = out[i].copy
          BY <4>0, DamagedPath
        <4>2. seals' = seals
          BY <2>2 DEF PathStep
        <4>3. ASSUME NEW m \in Range(out') PROVE OutOK(m)'
          <5>1. DOMAIN out' = 1 .. Len(out) /\ \A i \in 1 .. Len(out) : OutOK(out[i])
            BY <1>4, <4>1, RangeIn
          <5>2. PICK i \in 1 .. Len(out) : m = out'[i]
            BY <4>3, <5>1 DEF Range
          <5>3. OutOK(out[i])
            BY <5>1
          <5> QED
            BY <1>5, <4>1, <4>2, <5>2, <5>3 DEF OutOK, Sealed
        <4> QED
          BY <4>1, <4>3
      <3>3. ASSUME NEW f \in OutFrames, f.type = "CANCEL", out' = Append(out, f)
            PROVE  out' \in Seq(OutFrames) /\ \A m \in Range(out') : m \in Range(out) \/ OutOK(m)'
        <4>1. out' \in Seq(OutFrames) /\ Range(out') = Range(out) \cup {f}
          BY <1>4, <3>3, AppendRange
        <4>2. OutOK(f)'
          BY <3>3 DEF OutOK, Sealed
        <4> QED
          BY <4>1, <4>2
      <3> QED
        BY <1>4, <2>2, <3>1, <3>2, <3>3 DEF PathStep
    <2> QED
      BY <2>1, <2>2 DEF PasteSideForms, RxStep, RxOffered, SealAnswered, RxLost
  <1>8. back' \in Seq(BackFrames) /\ \A m \in Range(back') : m \in Range(back) \/ BackOK(m)'
    <2>1. ASSUME NEW add, Answers(add), rx'.completed => rx.seen_offer
          PROVE  back' \in Seq(BackFrames) /\ \A m \in Range(back') : m \in Range(back) \/ BackOK(m)'
      <3>1. back' \in Seq(BackFrames) /\ Range(back') = Range(back) \cup Range(add)
        BY <2>1, AnswersRange
      <3>2. \A m \in Range(add) : BackOK(m)'
        BY <1>4, <2>1 DEF Answers, Plain, BackOK
      <3> QED
        BY <3>1, <3>2
    <2>2. ASSUME NEW f \in BackFrames, back' = Append(back, f), BackOK(f)'
          PROVE  back' \in Seq(BackFrames) /\ \A m \in Range(back') : m \in Range(back) \/ BackOK(m)'
      <3>1. back' \in Seq(BackFrames) /\ Range(back') = Range(back) \cup {f}
        BY <1>4, <2>2, AppendRange
      <3> QED
        BY <2>2, <3>1
    <2>3. CASE RxStep
      <3>1. rx'.completed => rx.seen_offer
        BY <1>4, <2>3 DEF RxStep
      <3> QED
        BY <2>1, <2>3, <3>1 DEF RxStep
    <2>4. CASE RxOffered
      BY <2>1, <2>4 DEF RxOffered
    <2>5. CASE SealAnswered
      <3>1. PICK i \in 1 .. Len(out), k \in Nat :
              out[i].type = "SEAL_OFFER" /\ back' = Append(back, SealAccept(out[i].id, k))
        BY <1>4, <2>5 DEF SealAnswered
      <3>2. out[i].id \in 1 .. seals /\ out[i].id \in Nat
        BY <1>4, <3>1, RangeIn DEF OutOK
      <3>3. SealAccept(out[i].id, k) \in BackFrames
        BY <3>2 DEF SealAccept, BackFrames
      <3>4. PICK f \in BackFrames : /\ f.type = "SEAL_ACCEPT" /\ f.id = out[i].id
                                    /\ back' = Append(back, f)
        BY <3>1, <3>3 DEF SealAccept
      <3>5. f.id \in 1 .. seals'
        BY <1>2, <1>4, <3>2, <3>4
      <3>6. BackOK(f)'
        BY <3>4, <3>5 DEF BackOK
      <3> QED
        BY <2>2, <3>4, <3>6
    <2>6. CASE RxLost
      BY <1>4, <2>6 DEF RxLost
    <2>7. CASE PathStep
      <3>1. ASSUME NEW f \in BackFrames, f.type = "CANCEL", back' = Append(back, f)
            PROVE  back' \in Seq(BackFrames) /\ \A m \in Range(back') : m \in Range(back) \/ BackOK(m)'
        <4>1. BackOK(f)'
          BY <3>1 DEF BackOK
        <4> QED
          BY <2>2, <3>1, <4>1
      <3> QED
        BY <1>4, <2>7, <3>1, TailRange DEF PathStep
    <2> QED
      BY <2>3, <2>4, <2>5, <2>6, <2>7 DEF PasteSideForms
  <1>9. /\ \A m \in Range(out') : OutOK(m)'
        /\ \A m \in Range(back') : BackOK(m)'
    BY <1>2, <1>3, <1>7, <1>8, PathsTyped
  <1>10. seal_rx' \in [id : Nat, key : Nat] /\ seal_rx'.id \in 0 .. seals'
    <2>1. CASE seal_rx' = seal_rx
      BY <1>2, <1>4, <2>1
    <2>2. CASE seal_rx' = dh_seal_rx_init
      BY <1>3, <2>2 DEF dh_seal_rx_init
    <2>3. ASSUME NEW i \in 1 .. Len(out), out[i].type = "SEAL_OFFER",
                 seal_rx' = [id |-> out[i].id, key |-> seals + 1]
          PROVE  seal_rx' \in [id : Nat, key : Nat] /\ seal_rx'.id \in 0 .. seals'
      <3>1. out[i].id \in 1 .. seals
        BY <1>4, <2>3, RangeIn DEF OutOK
      <3> QED
        BY <1>2, <1>4, <2>3, <3>1
    <2> QED
      BY <2>1, <2>2, <2>3 DEF PasteSideForms, RxStep, RxOffered, SealAnswered, RxLost, PathStep
  <1>11. SealsOK'
    BY <1>3, <1>10 DEF SealsOK
  <1>12. CopiesOK'
    BY <1>3, <1>6 DEF CopiesOK
  <1>13. RingOK(tx)' /\ RxOK(rx)'
    BY <1>3, <1>6 DEF RingOK, RxOK
  <1> QED
    BY <1>3, <1>6, <1>7, <1>8, <1>9, <1>11, <1>12, <1>13 DEF TypeInv

LEMMA TypesAtFirst == Init => TypeInv
  <1> SUFFICES ASSUME Init PROVE TypeInv
    OBVIOUS
  <1>1. tx \in TxRecords /\ RingOK(tx) /\ RxOK(rx) /\ next_id \in Ids
    BY ResetOK, ForgetOK, XferAssumption DEF Init, Ids
  <1>2. rx_buf \in [Seqs -> 0 .. MaxCopies]
    BY XferAssumption DEF Init
  <1>3. SealsOK
    <2>1. /\ seals = 0 /\ seal_tx = [id |-> 0, key |-> 0, offered |-> FALSE, live |-> FALSE]
          /\ seal_rx = [id |-> 0, key |-> 0] /\ 0 \in 0 .. 0
      BY DEF Init, dh_seal_tx_init, dh_seal_rx_init
    <2> QED
      BY <2>1 DEF SealsOK
  <1>4. CopiesOK
    <2>1. /\ ~ tx.active /\ ~ rx.seen_offer /\ ~ rx.active /\ ~ rx.completed
          /\ pending = NoCopy /\ copies = 0 /\ faults = 0 /\ reoffer = FALSE
      BY DEF Init, tx_reset, rx_forget
    <2>2. NoCopy \in [copy : 0 .. MaxCopies, kind : Kinds]
      BY XferAssumption DEF NoCopy, Kinds
    <2> QED
      <3>1. copies \in 0 .. MaxCopies /\ faults \in 0 .. MaxFaults
        BY <2>1, XferAssumption
      <3>2. reoffer \in BOOLEAN
        BY <2>1, Zenon
      <3> QED
        BY <2>1, <2>2, <3>1, <3>2, Zenon DEF CopiesOK
  <1>5. /\ out \in Seq(OutFrames) /\ \A m \in Range(out) : OutOK(m)
        /\ back \in Seq(BackFrames) /\ \A m \in Range(back) : BackOK(m)
    BY NoFrame DEF Init
  <1> QED
    BY <1>1, <1>2, <1>3, <1>4, <1>5 DEF TypeInv

LEMMA TypesStep == TypeInv /\ [Next]_vars => TypeInv'
  <1>1. ASSUME TypeInv, Next PROVE TypeInv'
    BY <1>1, NextForms, CopySideTypes, PasteSideTypes
  <1>2. ASSUME TypeInv, UNCHANGED vars PROVE TypeInv'
    BY <1>2 DEF vars, TypeInv, RingOK, RxOK, SealsOK, CopiesOK, OutOK, BackOK
  <1> QED
    BY <1>1, <1>2

LEMMA TypesImply == TypeInv => TypeOK
  <1> SUFFICES ASSUME TypeInv PROVE TypeOK
    OBVIOUS
  <1>1. /\ tx.id \in 0 .. (ID_MOD - 1) /\ tx.copy \in 0 .. MaxCopies
        /\ tx.next_seq \in 0 .. NCHUNKS /\ tx.credits \in Nat
        /\ IsInjective(tx.retx) /\ Len(tx.retx) <= RETX_MAX
        /\ Range(tx.retx) \subseteq 0 .. (tx.next_seq - 1)
    BY DEF TypeInv, TxRecords, RingOK
  <1>2. /\ rx.id \in 0 .. (ID_MOD - 1) /\ rx.received \subseteq Seqs
        /\ rx.requested \subseteq Seqs \ rx.received /\ rx.requested_stale \subseteq Seqs
    BY DEF TypeInv, RxOK, RxRecords
  <1>3. /\ next_id \in Ids /\ seals \in Nat /\ rx_buf \in [Seqs -> 0 .. MaxCopies]
        /\ seal_tx.id \in 0 .. seals /\ seal_rx.id \in 0 .. seals
        /\ ~(seal_tx.offered /\ seal_tx.live)
        /\ copies \in 0 .. MaxCopies /\ faults \in 0 .. MaxFaults
        /\ pending.copy \in 0 .. MaxCopies
    BY DEF TypeInv, SealsOK, CopiesOK
  <1> QED
    BY <1>1, <1>2, <1>3 DEF TypeOK

(***************************************************************************)
(* Every variable of the two machines keeps its type whatever is lost,     *)
(* repeated or restarted; in particular the retransmit ring never holds a  *)
(* chunk twice, nor one the sender has not reached, nor more than it has   *)
(* room for (tx_queue_retransmit, dh_xfer_pump), and nothing is asked for  *)
(* that has arrived (rx.requested).                                        *)
(***************************************************************************)
THEOREM XferTypeOK == Spec => []TypeOK
  BY TypesAtFirst, TypesStep, TypesImply, PTL DEF Spec

-----------------------------------------------------------------------------
(* The order on the two paths. *)

LEMMA OrderedConcat ==
  ASSUME NEW s \in Seq(OutFrames), NEW t \in Seq(OutFrames), NEW k \in Int, Ordered(s),
         \A m \in Range(s) : m.type = "SEAL_OFFER" => m.id <= k,
         \A m \in Range(t) : m.type = "SEAL_OFFER" => m.id = k
  PROVE  Ordered(s \o t)
  <1>1. /\ Len(s \o t) = Len(s) + Len(t) /\ Len(s) \in Nat /\ Len(t) \in Nat
        /\ \A i \in 1 .. Len(s) + Len(t) :
              (s \o t)[i] = IF i <= Len(s) THEN s[i] ELSE t[i - Len(s)]
    BY ConcatRange
  <1>2. /\ \A i \in 1 .. Len(s) : s[i].type = "SEAL_OFFER" => s[i].id <= k
        /\ \A i \in 1 .. Len(t) : t[i].type = "SEAL_OFFER" => t[i].id = k
    BY RangeIn
  <1>3. \A i \in 1 .. Len(s) + Len(t) : ~ (i <= Len(s)) => i - Len(s) \in 1 .. Len(t)
    BY <1>1
  <1> DEFINE u == s \o t
  <1> HIDE DEF u
  <1>4. \A i \in 1 .. Len(s) + Len(t) :
          \/ i \in 1 .. Len(s) /\ u[i] = s[i] /\ (u[i].type = "SEAL_OFFER" => u[i].id <= k)
          \/ i > Len(s) /\ (u[i].type = "SEAL_OFFER" => u[i].id = k)
    BY <1>1, <1>2, <1>3 DEF u
  <1>5. ASSUME NEW i \in 1 .. Len(u), NEW j \in 1 .. Len(u), i < j,
               u[i].type = "SEAL_OFFER", u[j].type = "SEAL_OFFER"
        PROVE  u[i].id <= u[j].id
    <2>1. i \in 1 .. Len(s) + Len(t) /\ j \in 1 .. Len(s) + Len(t)
      BY <1>1 DEF u
    <2>2. CASE j > Len(s)
      <3>1. u[j].id = k
        BY <1>1, <1>4, <1>5, <2>1, <2>2
      <3>2. u[i].id <= k
        BY <1>4, <1>5, <2>1
      <3> QED
        BY <3>1, <3>2
    <2>3. CASE j <= Len(s)
      <3>1. u[j] = s[j] /\ u[i] = s[i] /\ i \in 1 .. Len(s) /\ j \in 1 .. Len(s)
        BY <1>1, <1>4, <1>5, <2>1, <2>3
      <3> QED
        BY <3>1, <1>5 DEF Ordered
    <2> QED
      BY <1>1, <2>1, <2>2, <2>3
  <1> QED
    BY <1>5 DEF Ordered, u

LEMMA OrderedRemove ==
  ASSUME NEW s \in Seq(OutFrames), Ordered(s), NEW i \in 1 .. Len(s)
  PROVE  Ordered(RemoveAt(s, i))
  <1> DEFINE u == RemoveAt(s, i)
  <1>1. /\ Len(u) = Len(s) - 1 /\ Len(s) \in Nat
        /\ \A j \in 1 .. Len(s) - 1 : u[j] = IF j < i THEN s[j] ELSE s[j + 1]
    BY RemoveRange
  <1> HIDE DEF u
  <1>2. ASSUME NEW a \in 1 .. Len(u), NEW b \in 1 .. Len(u), a < b,
               u[a].type = "SEAL_OFFER", u[b].type = "SEAL_OFFER"
        PROVE  u[a].id <= u[b].id
    <2>1. PICK c \in 1 .. Len(s), d \in 1 .. Len(s) : c < d /\ u[a] = s[c] /\ u[b] = s[d]
      <3>1. a \in 1 .. Len(s) - 1 /\ b \in 1 .. Len(s) - 1
        BY <1>1
      <3>2. CASE b < i
        <4>1. a \in 1 .. Len(s) /\ b \in 1 .. Len(s) /\ a < i
          BY <1>1, <1>2, <3>1, <3>2
        <4>2. u[a] = s[a] /\ u[b] = s[b]
          BY <1>1, <3>1, <3>2, <4>1
        <4> QED
          BY <1>2, <4>1, <4>2
      <3>3. CASE a < i /\ ~ (b < i)
        <4>1. a \in 1 .. Len(s) /\ b + 1 \in 1 .. Len(s) /\ a < b + 1
          BY <1>1, <1>2, <3>1
        <4>2. u[a] = s[a] /\ u[b] = s[b + 1]
          BY <1>1, <3>1, <3>3
        <4> QED
          BY <4>1, <4>2
      <3>4. CASE ~ (a < i)
        <4>1. a + 1 \in 1 .. Len(s) /\ b + 1 \in 1 .. Len(s) /\ a + 1 < b + 1 /\ ~ (b < i)
          BY <1>1, <1>2, <3>1, <3>4
        <4>2. u[a] = s[a + 1] /\ u[b] = s[b + 1]
          BY <1>1, <3>1, <3>4, <4>1
        <4> QED
          BY <4>1, <4>2
      <3> QED
        BY <3>2, <3>3, <3>4
    <2> QED
      BY <1>2, <2>1 DEF Ordered
  <1> QED
    BY <1>2 DEF Ordered, u

LEMMA OrderedTail ==
  ASSUME NEW s \in Seq(OutFrames), Ordered(s), s # <<>>
  PROVE  Ordered(Tail(s))
  <1> DEFINE u == Tail(s)
  <1>1. Len(u) = Len(s) - 1 /\ Len(s) \in Nat /\ \A j \in 1 .. Len(s) - 1 : u[j] = s[j + 1]
    BY TailRange
  <1> HIDE DEF u
  <1>2. ASSUME NEW a \in 1 .. Len(u), NEW b \in 1 .. Len(u), a < b,
               u[a].type = "SEAL_OFFER", u[b].type = "SEAL_OFFER"
        PROVE  u[a].id <= u[b].id
    <2>1. a + 1 \in 1 .. Len(s) /\ b + 1 \in 1 .. Len(s) /\ a + 1 < b + 1
      BY <1>1, <1>2
    <2>2. u[a] = s[a + 1] /\ u[b] = s[b + 1]
      BY <1>1
    <2> QED
      BY <1>2, <2>1, <2>2 DEF Ordered
  <1> QED
    BY <1>2 DEF Ordered, u

LEMMA ReceiptsTail ==
  ASSUME NEW s \in Seq(BackFrames), NEW q, NoReceiptAfter(s, q), s # <<>>
  PROVE  /\ NoReceiptAfter(Tail(s), q)
         /\ Head(s).type = "SEAL_ACCEPT" /\ Head(s).id = q
              => \A m \in Range(Tail(s)) : m.type # "RECEIVED"
  <1> DEFINE u == Tail(s)
  <1>1. /\ u \in Seq(BackFrames) /\ Len(u) = Len(s) - 1 /\ Len(s) \in Nat
        /\ \A j \in 1 .. Len(s) - 1 : u[j] = s[j + 1]
    BY TailRange
  <1>2. Head(s) = s[1] /\ 1 \in 1 .. Len(s)
    OBVIOUS
  <1> HIDE DEF u
  <1>3. \A a \in 1 .. Len(u) : u[a] = s[a + 1] /\ a + 1 \in 1 .. Len(s) /\ 1 < a + 1
    BY <1>1
  <1>4. NoReceiptAfter(u, q)
    <2> SUFFICES ASSUME NEW a \in 1 .. Len(u), NEW b \in 1 .. Len(u), a < b
                 PROVE  ~ (u[a].type = "SEAL_ACCEPT" /\ u[a].id = q /\ u[b].type = "RECEIVED")
      BY DEF NoReceiptAfter
    <2>1. a + 1 < b + 1 /\ a + 1 \in 1 .. Len(s) /\ b + 1 \in 1 .. Len(s)
      BY <1>1
    <2> QED
      BY <1>3, <2>1 DEF NoReceiptAfter
  <1>5. ASSUME Head(s).type = "SEAL_ACCEPT", Head(s).id = q, NEW a \in 1 .. Len(u)
        PROVE  u[a].type # "RECEIVED"
    BY <1>2, <1>3, <1>5 DEF NoReceiptAfter
  <1>6. DOMAIN u = 1 .. Len(u)
    BY <1>1
  <1> QED
    BY <1>4, <1>5, <1>6 DEF u, Range

LEMMA ReceiptsConcat ==
  ASSUME NEW s \in Seq(BackFrames), NEW t \in Seq(BackFrames), NEW q, NoReceiptAfter(s, q),
         \/ \A m \in Range(t) : m.type # "RECEIVED"
         \/ /\ \A m \in Range(s) : ~ (m.type = "SEAL_ACCEPT" /\ m.id = q)
            /\ \A m \in Range(t) : m.type # "SEAL_ACCEPT"
  PROVE  NoReceiptAfter(s \o t, q)
  <1> DEFINE u == s \o t
  <1>1. /\ Len(u) = Len(s) + Len(t) /\ Len(s) \in Nat /\ Len(t) \in Nat
        /\ \A i \in 1 .. Len(s) + Len(t) : u[i] = IF i <= Len(s) THEN s[i] ELSE t[i - Len(s)]
    BY ConcatRange
  <1>2. \A i \in 1 .. Len(s) + Len(t) : ~ (i <= Len(s)) => i - Len(s) \in 1 .. Len(t)
    BY <1>1
  <1> HIDE DEF u
  <1>3. \A i \in 1 .. Len(u) : \/ i \in 1 .. Len(s) /\ u[i] = s[i] /\ u[i] \in Range(s)
                               \/ i > Len(s) /\ u[i] \in Range(t)
    BY <1>1, <1>2, RangeIn
  <1> SUFFICES ASSUME NEW a \in 1 .. Len(u), NEW b \in 1 .. Len(u), a < b,
                      u[a].type = "SEAL_ACCEPT", u[a].id = q, u[b].type = "RECEIVED"
               PROVE  FALSE
    BY DEF NoReceiptAfter, u
  <1>4. CASE \A m \in Range(t) : m.type # "RECEIVED"
    <2>1. b \in 1 .. Len(s) /\ u[b] = s[b]
      BY <1>3, <1>4
    <2>2. a \in 1 .. Len(s) /\ u[a] = s[a]
      BY <1>1, <1>3, <2>1
    <2> QED
      BY <2>1, <2>2 DEF NoReceiptAfter
  <1>5. CASE /\ \A m \in Range(s) : ~ (m.type = "SEAL_ACCEPT" /\ m.id = q)
             /\ \A m \in Range(t) : m.type # "SEAL_ACCEPT"
    BY <1>3, <1>5
  <1> QED
    BY <1>4, <1>5

-----------------------------------------------------------------------------
(* What the frames on the paths say, before and after. *)

LEMMA OutSays ==
  ASSUME NEW A, Range(out') \subseteq Range(out) \cup A
  PROVE  /\ \A x \in Names' : \/ x \in Names
                              \/ \E m \in A : Sealed(m) /\ x = <<m.seal, m.id, m.copy>>
         /\ \A q \in SealOffers' : \/ q \in SealOffers
                                   \/ \E m \in A : m.type = "SEAL_OFFER" /\ q = m.id
  <1>1. ASSUME NEW x \in Names'
        PROVE  x \in Names \/ \E m \in A : Sealed(m) /\ x = <<m.seal, m.id, m.copy>>
    <2>1. PICK m \in Range(out') : Sealed(m) /\ x = <<m.seal, m.id, m.copy>>
      BY <1>1, Zenon DEF Names, Sealed
    <2> QED
      BY <2>1, Zenon DEF Names
  <1>2. ASSUME NEW q \in SealOffers'
        PROVE  q \in SealOffers \/ \E m \in A : m.type = "SEAL_OFFER" /\ q = m.id
    <2>1. PICK m \in Range(out') : m.type = "SEAL_OFFER" /\ q = m.id
      BY <1>2, Zenon DEF SealOffers
    <2> QED
      BY <2>1, Zenon DEF SealOffers
  <1> QED
    BY <1>1, <1>2

LEMMA BackSays ==
  ASSUME NEW A, Range(back') \subseteq Range(back) \cup A
  PROVE  /\ \A q \in Accepts' : \/ q \in Accepts
                                \/ \E m \in A : m.type = "SEAL_ACCEPT" /\ q = m.id
         /\ \A q \in Receipts' : \/ q \in Receipts
                                 \/ \E m \in A : m.type = "RECEIVED" /\ q = m.id
  <1>1. ASSUME NEW q \in Accepts'
        PROVE  q \in Accepts \/ \E m \in A : m.type = "SEAL_ACCEPT" /\ q = m.id
    <2>1. PICK m \in Range(back') : m.type = "SEAL_ACCEPT" /\ q = m.id
      BY <1>1, Zenon DEF Accepts
    <2> QED
      BY <2>1, Zenon DEF Accepts
  <1>2. ASSUME NEW q \in Receipts'
        PROVE  q \in Receipts \/ \E m \in A : m.type = "RECEIVED" /\ q = m.id
    <2>1. PICK m \in Range(back') : m.type = "RECEIVED" /\ q = m.id
      BY <1>2, Zenon DEF Receipts
    <2> QED
      BY <2>1, Zenon DEF Receipts
  <1> QED
    BY <1>1, <1>2

LEMMA OutGains ==
  ASSUME NEW f, Range(out') \subseteq Range(out) \cup {f}
  PROVE  /\ \A x \in Names' : x \in Names \/ (Sealed(f) /\ x = <<f.seal, f.id, f.copy>>)
         /\ \A q \in SealOffers' : q \in SealOffers \/ (f.type = "SEAL_OFFER" /\ q = f.id)
  <1> DEFINE A == {f}
  <1>0. Range(out') \subseteq Range(out) \cup A
    OBVIOUS
  <1> HIDE DEF A
  <1>1. /\ \A x \in Names' : \/ x \in Names
                             \/ \E m \in A : Sealed(m) /\ x = <<m.seal, m.id, m.copy>>
        /\ \A q \in SealOffers' : \/ q \in SealOffers
                                  \/ \E m \in A : m.type = "SEAL_OFFER" /\ q = m.id
    BY <1>0, OutSays, Zenon
  <1>2. \A m \in A : m = f
    BY DEF A
  <1> QED
    BY <1>1, <1>2, Zenon

LEMMA BackGains ==
  ASSUME NEW f, Range(back') \subseteq Range(back) \cup {f}
  PROVE  /\ \A q \in Accepts' : q \in Accepts \/ (f.type = "SEAL_ACCEPT" /\ q = f.id)
         /\ \A q \in Receipts' : q \in Receipts \/ (f.type = "RECEIVED" /\ q = f.id)
  <1> DEFINE A == {f}
  <1>0. Range(back') \subseteq Range(back) \cup A
    OBVIOUS
  <1> HIDE DEF A
  <1>1. /\ \A q \in Accepts' : \/ q \in Accepts
                               \/ \E m \in A : m.type = "SEAL_ACCEPT" /\ q = m.id
        /\ \A q \in Receipts' : \/ q \in Receipts
                                \/ \E m \in A : m.type = "RECEIVED" /\ q = m.id
    BY <1>0, BackSays, Zenon
  <1>2. \A m \in A : m = f
    BY DEF A
  <1> QED
    BY <1>1, <1>2, Zenon

LEMMA OutShrinks ==
  ASSUME Range(out') \subseteq Range(out)
  PROVE  Names' \subseteq Names /\ SealOffers' \subseteq SealOffers
  BY Zenon DEF Names, SealOffers, Sealed

LEMMA BackShrinks ==
  ASSUME Range(back') \subseteq Range(back)
  PROVE  Accepts' \subseteq Accepts /\ Receipts' \subseteq Receipts
  BY Zenon DEF Accepts, Receipts

\* What is said is of the right kind.
LEMMA SaysTyped ==
  ASSUME TypeInv
  PROVE  /\ SealOffers \subseteq 1 .. seals /\ Accepts \subseteq 1 .. seals /\ Receipts \subseteq Ids
         /\ \A m \in Range(out) : m.type = "SEAL_OFFER" => m.id \in SealOffers
         /\ \A m \in Range(back) : m.type = "SEAL_ACCEPT" => m.id \in Accepts
  BY DEF TypeInv, OutOK, BackOK, SealOffers, Accepts, Receipts

LEMMA StepsOfIds ==
  ASSUME NEW a \in Ids, NEW b \in Ids
  PROVE  /\ Steps(a, b) \in 0 .. (ID_MOD - 2) /\ Steps(b, b) = 0 /\ Succ(b) \in Ids
         /\ Steps(a, b) < ID_MOD - 2 => Steps(a, Succ(b)) = Steps(a, b) + 1
         /\ ID_MOD > 2 => Steps(b, Succ(b)) = 1
  BY XferAssumption DEF Steps, Succ, Ids

-----------------------------------------------------------------------------
(* The identities are kept. *)

\* The facts every case starts from.
LEMMA Known ==
  ASSUME TypeInv
  PROVE  /\ copies \in Nat /\ seals \in Nat /\ ID_MOD \in Nat
         /\ next_id \in Ids
         /\ tx.active => tx.id \in Ids /\ tx.copy \in 1 .. copies
         /\ rx.seen_offer => rx.id \in Ids /\ rx.copy \in 1 .. copies
         /\ rx.completed => rx.seen_offer
         /\ seal_tx.id \in 0 .. seals /\ seal_rx.id \in 0 .. seals
         /\ seal_tx.offered \/ seal_tx.live => seal_tx.id > 0
         /\ ~ (seal_tx.offered /\ seal_tx.live)
  BY XferAssumption DEF TypeInv, CopiesOK, SealsOK

LEMMA NamesByCopy ==
  ASSUME TypeInv, NameInv, CopyStep
  PROVE  NameInv'
  <1>1. /\ PasteSideStays /\ Consumed /\ copies' \in copies .. MaxCopies
        /\ UNCHANGED <<next_id, seal_tx, seals>>
        /\ tx'.active => tx.active /\ tx'.id = tx.id /\ tx'.copy = tx.copy
    BY DEF CopyStep, Parked
  <1>2. UNCHANGED <<rx, seal_rx, rx_buf, delivered>>
    BY <1>1 DEF PasteSideStays
  <1>3. PICK add : Sent(add)
    BY DEF CopyStep
  <1>4. /\ copies \in Nat /\ seals \in Nat /\ ID_MOD \in Nat
        /\ next_id \in Ids
        /\ tx.active => tx.id \in Ids /\ tx.copy \in 1 .. copies
        /\ rx.seen_offer => rx.id \in Ids /\ rx.copy \in 1 .. copies
        /\ seal_tx.id \in 0 .. seals /\ seal_rx.id \in 0 .. seals
        /\ seal_tx.offered \/ seal_tx.live => seal_tx.id > 0
    BY Known
  <1> SUFFICES ASSUME copies' < ID_MOD - 1
               PROVE  /\ OneName' /\ RxNamed' /\ TxNamed' /\ Unused' /\ Ascending' /\ Agreed'
                      /\ InOrder' /\ ReceiptsFirst' /\ ReceiptsTrue' /\ WholeSoFar'
    BY DEF NameInv
  <1>5. /\ OneName /\ RxNamed /\ TxNamed /\ Unused /\ Ascending /\ Agreed /\ InOrder
        /\ ReceiptsFirst /\ ReceiptsTrue /\ WholeSoFar /\ copies' \in Nat /\ copies <= copies'
    BY <1>1, <1>4, XferAssumption DEF NameInv
  <1>6. Range(out') = Range(out) \cup Range(add) /\ Range(back') \subseteq Range(back)
    BY <1>1, <1>3, SentRange, ConsumedRange
  <1> DEFINE y == <<seal_tx.id, tx.id, tx.copy>>
  <1>7. \A x \in Names' : x \in Names \/ (seal_tx.live /\ tx.active /\ x = y)
    <2>1. \A m \in Range(add) : Sealed(m) => /\ seal_tx.live /\ tx.active
                                             /\ <<m.seal, m.id, m.copy>> = y
      BY <1>3 DEF Sent, OfTransfer, Sealed
    <2> HIDE DEF y
    <2> QED
      BY <1>6, <2>1, OutSays, Zenon
  <1>8. \A q \in SealOffers' : q \in SealOffers \/ (seal_tx.offered /\ q = seal_tx.id)
    <2>1. \A m \in Range(add) : m.type = "SEAL_OFFER" => seal_tx.offered /\ m.id = seal_tx.id
      BY <1>3 DEF Sent, OfTransfer, Sealed
    <2> QED
      BY <1>6, <2>1, OutSays, Zenon
  <1>9. Accepts' \subseteq Accepts /\ Receipts' \subseteq Receipts
    BY <1>6, BackShrinks
  <1>10. y[1] = seal_tx.id /\ y[2] = tx.id /\ y[3] = tx.copy
    OBVIOUS
  <1> HIDE DEF y
  <1>11. Current' \subseteq Current
    BY <1>1, <1>2, <1>8 DEF Current
  <1>12. seal_tx.id \in Current
    BY DEF Current
  <1>13. OneName'
    <2>1. tx.active => \A x \in Names : x[1] = seal_tx.id /\ x[2] = tx.id => x[3] = tx.copy
      BY <1>5, <1>12 DEF TxNamed
    <2>2. ASSUME NEW a \in Names', NEW b \in Names', a[1] = b[1], a[2] = b[2] PROVE a[3] = b[3]
      BY <1>5, <1>7, <1>10, <2>1, <2>2 DEF OneName
    <2> QED
      BY <2>2 DEF OneName
  <1>14. RxNamed'
    <2>1. rx.seen_offer => seal_rx.id > 0
      BY <1>5 DEF RxNamed
    <2>2. ASSUME rx.seen_offer, NEW a \in Names', a[1] = seal_rx.id, a[2] = rx.id PROVE a[3] = rx.copy
      BY <1>5, <1>7, <1>10, <2>2 DEF RxNamed, TxNamed
    <2> QED
      BY <1>2, <2>1, <2>2 DEF RxNamed
  <1>15. TxNamed'
    <2>1. tx.active => Steps(tx.id, next_id) = 1
      BY <1>5 DEF TxNamed
    <2>2. ASSUME tx.active, NEW a \in Names', a[1] \in Current, a[2] = tx.id PROVE a[3] = tx.copy
      BY <1>5, <1>7, <1>10, <2>2 DEF TxNamed
    <2>3. tx.active /\ rx.seen_offer /\ rx.id = tx.id => rx.copy = tx.copy
      BY <1>5 DEF TxNamed
    <2> QED
      BY <1>1, <1>2, <1>11, <2>1, <2>2, <2>3 DEF TxNamed, Steps
  <1>16. Unused'
    BY <1>1, <1>2, <1>5, <1>7 DEF Unused
  <1>17. Ascending'
    <2> SUFFICES ASSUME seal_tx.live PROVE Ascending'
      BY <1>1 DEF Ascending
    <2>1. ASSUME NEW a \in Names', a[1] = seal_tx.id
          PROVE  Steps(a[2], next_id) \in 1 .. (copies' - a[3] + 1)
      <3>1. CASE a \in Names
        <4>1. Steps(a[2], next_id) \in 1 .. (copies - a[3] + 1) /\ a[3] \in 1 .. copies
          BY <1>5, <2>1, <3>1, NamesTyped DEF Ascending
        <4> QED
          BY <1>4, <1>5, <4>1
      <3>2. CASE tx.active /\ a = y
        <4>1. Steps(a[2], next_id) = 1
          BY <1>5, <1>10, <3>2 DEF TxNamed
        <4>2. a[3] \in 1 .. copies
          BY <1>4, <1>10, <3>2
        <4> QED
          BY <1>4, <1>5, <4>1, <4>2
      <3> QED
        BY <1>7, <3>1, <3>2
    <2>2. ASSUME rx.seen_offer, seal_rx.id = seal_tx.id
          PROVE  Steps(rx.id, next_id) \in 1 .. (copies' - rx.copy + 1)
      <3>1. Steps(rx.id, next_id) \in 1 .. (copies - rx.copy + 1)
        BY <1>5, <2>2 DEF Ascending
      <3> QED
        BY <1>4, <1>5, <2>2, <3>1
    <2>3. ASSUME NEW r \in Receipts' PROVE Steps(r, next_id) \in 1 .. copies'
      <3>1. Steps(r, next_id) \in 1 .. copies
        BY <1>5, <1>9, <2>3 DEF Ascending
      <3> QED
        BY <1>4, <1>5, <3>1
    <2> QED
      BY <1>1, <1>2, <2>1, <2>2, <2>3 DEF Ascending, Steps
  <1>18. Agreed'
    BY <1>1, <1>2, <1>5, <1>8, <1>9 DEF Agreed
  <1>19. InOrder'
    <2>1. SealOffers \subseteq 1 .. seals /\ \A m \in Range(out) : m.type = "SEAL_OFFER" => m.id \in SealOffers
      BY SaysTyped
    <2>2. out \in Seq(OutFrames) /\ add \in Seq(OutFrames) /\ out' = out \o add
      BY <1>3 DEF TypeInv, Sent
    <2>3. \A m \in Range(add) : m.type = "SEAL_OFFER" => seal_tx.offered /\ m.id = seal_tx.id
      BY <1>3 DEF Sent, OfTransfer, Sealed
    <2>4. Ordered(out) /\ (seal_tx.id > 0 => \A q \in SealOffers : q <= seal_tx.id)
      BY <1>5 DEF InOrder
    <2>5. Ordered(out')
      <3>1. CASE seal_tx.offered
        <4>1. seal_tx.id \in Int /\ seal_tx.id > 0
          BY <1>4, <3>1
        <4>2. \A m \in Range(out) : m.type = "SEAL_OFFER" => m.id <= seal_tx.id
          BY <2>1, <2>4, <4>1, Zenon
        <4> QED
          BY <2>2, <2>3, <2>4, <4>1, <4>2, OrderedConcat
      <3>2. CASE ~ seal_tx.offered
        <4>0. \A q \in SealOffers : q <= seals
          BY <1>4, <2>1
        <4>1. \A m \in Range(out) : m.type = "SEAL_OFFER" => m.id <= seals
          BY <2>1, <4>0, Zenon
        <4>2. \A m \in Range(add) : m.type = "SEAL_OFFER" => m.id = seals
          BY <2>3, <3>2
        <4>3. seals \in Int
          BY <1>4
        <4> QED
          BY <2>2, <2>4, <4>1, <4>2, <4>3, OrderedConcat
      <3> QED
        BY <3>1, <3>2
    <2>6. seal_tx.id > 0 => \A q \in SealOffers' : q <= seal_tx.id
      BY <1>4, <1>8, <2>4
    <2>7. Ordered(out)'
      BY <2>5 DEF Ordered
    <2> QED
      BY <1>1, <2>6, <2>7 DEF InOrder
  <1>20. ReceiptsFirst'
    <2>1. seal_tx.offered => NoReceiptAfter(back', seal_tx.id)
      BY <1>1, <1>5, ReceiptsTail DEF ReceiptsFirst, Consumed, TypeInv
    <2> QED
      BY <1>1, <2>1 DEF ReceiptsFirst, NoReceiptAfter
  <1>21. ReceiptsTrue'
    <2>1. Got' = Got
      BY <1>2 DEF Got
    <2>2. confirmed' \subseteq Got
      <3>1. confirmed \subseteq Got /\ (tx.active /\ tx.id \in Receipts => tx.copy \in Got)
        BY <1>5 DEF ReceiptsTrue, ReceiptTrue, Got
      <3> QED
        BY <3>1 DEF CopyStep
    <2>3. ReceiptTrue'
      BY <2>1, <2>2 DEF ReceiptTrue, Got
    <2> QED
      BY <1>1, <1>2, <1>5, <1>9, <2>1, <2>3 DEF ReceiptsTrue
  <1>22. WholeSoFar'
    BY <1>2, <1>5 DEF WholeSoFar
  <1> QED
    BY <1>13, <1>14, <1>15, <1>16, <1>17, <1>18, <1>19, <1>20, <1>21, <1>22

LEMMA NamesBySeal ==
  ASSUME TypeInv, NameInv, SealStep
  PROVE  NameInv'
  <1>1. /\ PasteSideStays /\ Consumed /\ copies' \in copies .. MaxCopies
        /\ UNCHANGED <<tx, next_id, confirmed>> /\ seals' = seals + 1
        /\ out' = Append(out, Frame("SEAL_OFFER", seals + 1))
    BY DEF SealStep, Parked
  <1>2. UNCHANGED <<rx, seal_rx, rx_buf, delivered>>
    BY <1>1 DEF PasteSideStays
  <1>3. seal_tx'.id = seals + 1 /\ seal_tx'.offered /\ ~ seal_tx'.live
    BY DEF SealStep, dh_seal_tx_init
  <1>4. /\ copies \in Nat /\ seals \in Nat /\ seal_tx.id \in 0 .. seals /\ seal_rx.id \in 0 .. seals
    BY Known
  <1> SUFFICES ASSUME copies' < ID_MOD - 1
               PROVE  /\ OneName' /\ RxNamed' /\ TxNamed' /\ Unused' /\ Ascending' /\ Agreed'
                      /\ InOrder' /\ ReceiptsFirst' /\ ReceiptsTrue' /\ WholeSoFar'
    BY DEF NameInv
  <1>5. /\ OneName /\ RxNamed /\ TxNamed /\ Unused /\ Ascending /\ Agreed /\ InOrder
        /\ ReceiptsFirst /\ ReceiptsTrue /\ WholeSoFar
    BY <1>1, <1>4, XferAssumption DEF NameInv
  <1>6. PICK f \in OutFrames : /\ f.type = "SEAL_OFFER" /\ f.id = seals + 1
                               /\ out' = Append(out, f)
    <2>1. Frame("SEAL_OFFER", seals + 1) \in OutFrames
      BY <1>4 DEF Frame, OutFrames
    <2> QED
      BY <1>1, <2>1 DEF Frame
  <1>7. out \in Seq(OutFrames) /\ back \in Seq(BackFrames)
    BY DEF TypeInv
  <1>8. /\ SealOffers \subseteq 1 .. seals /\ Accepts \subseteq 1 .. seals
        /\ \A m \in Range(out) : m.type = "SEAL_OFFER" => m.id \in SealOffers
        /\ \A m \in Range(back) : m.type = "SEAL_ACCEPT" => m.id \in Accepts
        /\ \A x \in Names : x[1] \in 1 .. seals
    BY SaysTyped, NamesTyped
  <1>9. Range(out') \subseteq Range(out) \cup {f}
    BY <1>6, <1>7, AppendRange
  <1>10. Names' \subseteq Names
    <2>1. ~ Sealed(f)
      BY <1>6 DEF Sealed
    <2> QED
      BY <1>9, <2>1, OutSays, Zenon
  <1>11. \A q \in SealOffers' : q \in SealOffers \/ q = seals + 1
    BY <1>6, <1>9, OutGains
  <1>12. Range(back') \subseteq Range(back) /\ Accepts' \subseteq Accepts /\ Receipts' \subseteq Receipts
    BY <1>1, ConsumedRange, BackShrinks
  <1>13. seals + 1 \notin Accepts /\ \A q \in SealOffers : q <= seals + 1 /\ q <= seals
    BY <1>4, <1>8
  <1>14. \A x \in Names : x[1] # seals + 1
    BY <1>4, <1>8
  <1>15. OneName' /\ RxNamed'
    BY <1>2, <1>5, <1>10 DEF OneName, RxNamed
  <1>16. TxNamed'
    <2>1. \A x \in Names' : x[1] \in Current' => x \in Names /\ x[1] \in Current
      BY <1>2, <1>3, <1>10, <1>11, <1>14 DEF Current
    <2> QED
      BY <1>1, <1>2, <1>5, <2>1 DEF TxNamed, Steps
  <1>17. Unused'
    <2>1. seal_rx.id # seals + 1
      BY <1>4
    <2> QED
      BY <1>2, <1>3, <1>10, <1>14, <2>1 DEF Unused
  <1>18. Ascending'
    BY <1>3 DEF Ascending
  <1>19. Agreed'
    BY <1>3, <1>12, <1>13 DEF Agreed
  <1>20. InOrder'
    <2>1. \A m \in Range(out) : m.type = "SEAL_OFFER" => m.id <= seals + 1
      BY <1>8, <1>13, Zenon
    <2>2. <<f>> \in Seq(OutFrames) /\ Range(<<f>>) = {f}
      BY OneFrame
    <2>3. out' = out \o <<f>>
      BY <1>6, <1>7, AppendIsConcat
    <2>4. seals + 1 \in Int /\ Ordered(out)
      BY <1>4, <1>5 DEF InOrder
    <2>5. \A m \in Range(<<f>>) : m.type = "SEAL_OFFER" => m.id = seals + 1
      BY <1>6, <2>2
    <2>6. Ordered(out \o <<f>>)
      BY <1>7, <2>1, <2>2, <2>4, <2>5, OrderedConcat
    <2>7. Ordered(out)'
      BY <2>3, <2>6 DEF Ordered
    <2>8. \A q \in SealOffers' : q <= seals + 1
      BY <1>4, <1>11, <1>13
    <2> QED
      BY <1>3, <2>7, <2>8 DEF InOrder
  <1>21. ReceiptsFirst'
    <2>1. back' \in Seq(BackFrames)
      BY <1>1, ConsumedRange
    <2>2. \A i \in 1 .. Len(back') : back'[i].type = "SEAL_ACCEPT" => back'[i].id # seals + 1
      BY <1>8, <1>12, <1>13, <2>1, RangeIn
    <2> QED
      BY <1>3, <2>2 DEF ReceiptsFirst, NoReceiptAfter
  <1>22. ReceiptsTrue' /\ WholeSoFar'
    BY <1>1, <1>2, <1>5, <1>12 DEF ReceiptsTrue, WholeSoFar, Got, ReceiptTrue
  <1> QED
    BY <1>15, <1>16, <1>17, <1>18, <1>19, <1>20, <1>21, <1>22

LEMMA NamesBySealLost ==
  ASSUME TypeInv, NameInv, SealLost
  PROVE  NameInv'
  <1>1. /\ PasteSideStays /\ Consumed /\ copies' \in copies .. MaxCopies
        /\ UNCHANGED <<seals, out, confirmed>> /\ ~ tx'.active
    BY DEF SealLost, Parked
  <1>2. UNCHANGED <<rx, seal_rx, rx_buf, delivered>>
    BY <1>1 DEF PasteSideStays
  <1>3. seal_tx'.id = 0 /\ ~ seal_tx'.offered /\ ~ seal_tx'.live
    BY DEF SealLost, dh_seal_tx_init
  <1>4. copies \in Nat /\ seals \in Nat
    BY Known
  <1> SUFFICES ASSUME copies' < ID_MOD - 1
               PROVE  /\ OneName' /\ RxNamed' /\ TxNamed' /\ Unused' /\ Ascending' /\ Agreed'
                      /\ InOrder' /\ ReceiptsFirst' /\ ReceiptsTrue' /\ WholeSoFar'
    BY DEF NameInv
  <1>5. OneName /\ RxNamed /\ InOrder /\ ReceiptsTrue /\ WholeSoFar
    BY <1>1, <1>4, XferAssumption DEF NameInv
  <1>6. /\ Names' = Names /\ SealOffers' = SealOffers
    BY <1>1 DEF Names, SealOffers, Sealed
  <1>7. Accepts' \subseteq Accepts
    BY <1>1, ConsumedRange, BackShrinks
  <1>8. 0 \notin Accepts /\ \A x \in Names : x[1] # 0
    BY <1>4, SaysTyped, NamesTyped
  <1>9. OneName' /\ RxNamed' /\ TxNamed' /\ Ascending' /\ ReceiptsFirst' /\ WholeSoFar'
    BY <1>1, <1>2, <1>3, <1>5, <1>6
       DEF OneName, RxNamed, TxNamed, Ascending, ReceiptsFirst, WholeSoFar
  <1>10. Unused'
    <2>1. rx.seen_offer => seal_rx.id # 0
      BY <1>5 DEF RxNamed
    <2> QED
      BY <1>2, <1>3, <1>6, <1>8, <2>1 DEF Unused
  <1>11. Agreed'
    BY <1>3, <1>7, <1>8 DEF Agreed
  <1>12. InOrder'
    BY <1>1, <1>3, <1>5 DEF InOrder, Ordered
  <1>13. ReceiptsTrue'
    BY <1>1, <1>2, <1>5 DEF ReceiptsTrue, Got, ReceiptTrue
  <1> QED
    BY <1>9, <1>10, <1>11, <1>12, <1>13

LEMMA NewOfferSays ==
  ASSUME TypeInv, NEW s, NewOffer(s)
  PROVE  /\ \A x \in Names' : x \in Names \/ (x[1] = s /\ x[2] = next_id /\ x[3] = tx'.copy)
         /\ SealOffers' \subseteq SealOffers
         /\ Ordered(out) => Ordered(out)'
  <1>1. out \in Seq(OutFrames) /\ seals \in Nat
    BY DEF TypeInv, SealsOK
  <1>2. CASE out' = out
    BY <1>2 DEF Names, SealOffers, Sealed, Ordered
  <1>3. ASSUME NEW f \in Offers, out' = Append(out, f), f.seal = s, f.id = next_id, f.copy = tx'.copy
        PROVE  /\ \A x \in Names' : x \in Names \/ (x[1] = s /\ x[2] = next_id /\ x[3] = tx'.copy)
               /\ SealOffers' \subseteq SealOffers
               /\ Ordered(out) => Ordered(out)'
    <2>1. f \in OutFrames /\ f.type = "OFFER"
      BY DEF OutFrames, Offers
    <2>2. Range(out') \subseteq Range(out) \cup {f}
      BY <1>1, <1>3, <2>1, AppendRange
    <2>3. \A x \in Names' : x \in Names \/ x = <<f.seal, f.id, f.copy>>
      BY <2>2, OutGains
    <2>4. SealOffers' \subseteq SealOffers
      BY <2>1, <2>2, OutGains
    <2>5. ASSUME Ordered(out) PROVE Ordered(out)'
      <3>1. <<f>> \in Seq(OutFrames) /\ Range(<<f>>) = {f}
        BY <2>1, OneFrame
      <3>2. out' = out \o <<f>>
        BY <1>1, <1>3, <2>1, AppendIsConcat
      <3>3. \A m \in Range(<<f>>) : m.type = "SEAL_OFFER" => m.id = seals
        BY <2>1, <3>1
      <3>4. \A q \in SealOffers : q <= seals
        BY <1>1, SaysTyped
      <3>5. \A m \in Range(out) : m.type = "SEAL_OFFER" => m.id <= seals
        BY <3>4, SaysTyped, Zenon
      <3>6. seals \in Int
        BY <1>1
      <3>7. Ordered(out \o <<f>>)
        BY <1>1, <2>5, <3>1, <3>3, <3>5, <3>6, OrderedConcat
      <3> QED
        BY <3>2, <3>7 DEF Ordered
    <2> QED
      BY <1>3, <2>3, <2>4, <2>5
  <1> QED
    BY <1>2, <1>3 DEF NewOffer

LEMMA NamesByOffer ==
  ASSUME TypeInv, NameInv, CopyOffered
  PROVE  NameInv'
  <1>1. /\ seal_tx.live /\ NewOffer(seal_tx.id) /\ tx'.copy = copies + 1 /\ copies' = copies + 1
        /\ UNCHANGED <<rx, seal_rx, rx_buf, delivered>>
        /\ UNCHANGED <<seal_tx, seals, back, confirmed>>
    BY DEF CopyOffered, PasteSideStays
  <1>2. tx'.active /\ tx'.id = next_id /\ next_id' = Succ(next_id)
    BY <1>1 DEF NewOffer
  <1>3. /\ copies \in Nat /\ seals \in Nat /\ ID_MOD \in Nat
        /\ next_id \in Ids
        /\ rx.seen_offer => rx.id \in Ids /\ rx.copy \in 1 .. copies
        /\ seal_tx.id \in 0 .. seals /\ seal_rx.id \in 0 .. seals /\ seal_tx.id > 0
        /\ ~ seal_tx.offered
    BY <1>1, Known
  <1> SUFFICES ASSUME copies' < ID_MOD - 1
               PROVE  /\ OneName' /\ RxNamed' /\ TxNamed' /\ Unused' /\ Ascending' /\ Agreed'
                      /\ InOrder' /\ ReceiptsFirst' /\ ReceiptsTrue' /\ WholeSoFar'
    BY DEF NameInv
  <1>4. /\ OneName /\ RxNamed /\ TxNamed /\ Unused /\ Ascending /\ Agreed /\ InOrder
        /\ ReceiptsFirst /\ ReceiptsTrue /\ WholeSoFar /\ copies + 1 < ID_MOD - 1
    BY <1>1, <1>3, XferAssumption DEF NameInv
  <1>5. /\ \A x \in Names' : x \in Names \/ (x[1] = seal_tx.id /\ x[2] = next_id /\ x[3] = copies + 1)
        /\ SealOffers' \subseteq SealOffers /\ Ordered(out)'
    <2>1. PICK s : s = seal_tx.id
      OBVIOUS
    <2>2. NewOffer(s)
      BY <1>1, <2>1
    <2> QED
      BY <1>1, <1>4, <2>1, <2>2, NewOfferSays DEF InOrder
  <1>6. Accepts' = Accepts /\ Receipts' = Receipts
    BY <1>1 DEF Accepts, Receipts
  <1>7. seal_rx.id \in {0, seal_tx.id} /\ SealOffers \subseteq {seal_tx.id}
    BY <1>1, <1>4 DEF Agreed
  <1>8. \A x \in Names : x[1] \in 1 .. seals /\ x[2] \in Ids /\ x[3] \in 1 .. copies
    BY NamesTyped
  <1>9. \A x \in Names : x[1] = seal_tx.id => /\ Steps(x[2], next_id) \in 1 .. (copies - x[3] + 1)
                                              /\ x[2] # next_id
    <2>1. Steps(next_id, next_id) = 0
      BY <1>3, StepsOfIds
    <2>2. \A x \in Names : x[1] = seal_tx.id => Steps(x[2], next_id) \in 1 .. (copies - x[3] + 1)
      BY <1>1, <1>4 DEF Ascending
    <2> QED
      BY <2>1, <2>2
  <1>10. rx.seen_offer => /\ seal_rx.id = seal_tx.id /\ rx.id # next_id
                          /\ Steps(rx.id, next_id) \in 1 .. (copies - rx.copy + 1)
    <2>1. Steps(next_id, next_id) = 0
      BY <1>3, StepsOfIds
    <2>2. rx.seen_offer => seal_rx.id = seal_tx.id
      BY <1>4, <1>7 DEF RxNamed
    <2> QED
      BY <1>1, <1>4, <2>1, <2>2 DEF Ascending
  <1>11. \A r \in Receipts : r # next_id /\ r \in Ids /\ Steps(r, next_id) \in 1 .. copies
    <2>1. Steps(next_id, next_id) = 0
      BY <1>3, StepsOfIds
    <2>2. \A r \in Receipts : Steps(r, next_id) \in 1 .. copies
      BY <1>1, <1>4 DEF Ascending
    <2>3. Receipts \subseteq Ids
      BY SaysTyped
    <2> QED
      BY <2>1, <2>2, <2>3
  <1>12. ASSUME NEW a \in Ids, NEW n \in 1 .. copies, Steps(a, next_id) \in 1 .. n
         PROVE  Steps(a, Succ(next_id)) \in 1 .. n + 1
    <2>1. Steps(a, next_id) < ID_MOD - 2
      BY <1>3, <1>4, <1>12
    <2>2. Steps(a, Succ(next_id)) = Steps(a, next_id) + 1
      BY <1>3, <2>1, StepsOfIds
    <2> DEFINE z == Steps(a, next_id)
    <2> HIDE DEF z
    <2>3. z \in 1 .. n
      BY <1>12 DEF z
    <2>4. z + 1 \in 1 .. n + 1
      BY <1>3, <2>3
    <2> QED
      BY <2>2, <2>4 DEF z
  <1>13. Steps(next_id, Succ(next_id)) = 1
    BY <1>3, <1>4, StepsOfIds
  <1>14. OneName'
    <2>1. ASSUME NEW a \in Names', NEW b \in Names', a[1] = b[1], a[2] = b[2] PROVE a[3] = b[3]
      BY <1>4, <1>5, <1>9, <2>1 DEF OneName
    <2> QED
      BY <2>1 DEF OneName
  <1>15. RxNamed'
    <2>1. ASSUME rx.seen_offer, NEW a \in Names', a[1] = seal_rx.id, a[2] = rx.id PROVE a[3] = rx.copy
      BY <1>4, <1>5, <1>10, <2>1 DEF RxNamed
    <2> QED
      BY <1>1, <1>4, <2>1 DEF RxNamed
  <1>16. TxNamed'
    <2>1. ASSUME NEW a \in Names', a[1] \in Current', a[2] = next_id PROVE a[3] = copies + 1
      <3>1. CASE a \in Names
        <4>1. a[1] # 0
          BY <1>8, <3>1
        <4>2. a[1] = seal_tx.id
          BY <1>1, <1>5, <1>7, <2>1, <4>1 DEF Current
        <4> QED
          BY <1>9, <2>1, <3>1, <4>2
      <3> QED
        BY <1>5, <3>1
    <2>2. (Steps(tx.id, next_id) = 1)'
      BY <1>2, <1>13 DEF Steps
    <2> QED
      BY <1>1, <1>2, <1>10, <2>1, <2>2 DEF TxNamed
  <1>17. Unused' /\ ReceiptsFirst'
    BY <1>1, <1>3 DEF Unused, ReceiptsFirst
  <1>18. Ascending'
    <2>1. ASSUME NEW a \in Names', a[1] = seal_tx.id
          PROVE  Steps(a[2], next_id') \in 1 .. (copies' - a[3] + 1)
      <3>1. CASE a \in Names
        <4> DEFINE n == copies - a[3] + 1
        <4>1. a[2] \in Ids /\ a[3] \in 1 .. copies
          BY <1>8, <3>1
        <4>2. n \in 1 .. copies /\ copies' - a[3] + 1 = n + 1
          BY <1>1, <1>3, <4>1
        <4>3. Steps(a[2], next_id) \in 1 .. n
          BY <1>9, <2>1, <3>1
        <4> HIDE DEF n
        <4> QED
          BY <1>2, <1>12, <4>1, <4>2, <4>3
      <3>2. CASE a[2] = next_id /\ a[3] = copies + 1
        <4>1. copies' - a[3] + 1 = 1
          BY <1>1, <1>3, <3>2
        <4> QED
          BY <1>2, <1>13, <3>2, <4>1
      <3> QED
        BY <1>5, <3>1, <3>2
    <2>2. ASSUME rx.seen_offer PROVE Steps(rx.id, next_id') \in 1 .. (copies' - rx.copy + 1)
      <3> DEFINE n == copies - rx.copy + 1
      <3>1. rx.id \in Ids /\ rx.copy \in 1 .. copies
        BY <1>3, <2>2
      <3>2. n \in 1 .. copies /\ copies' - rx.copy + 1 = n + 1
        BY <1>1, <1>3, <3>1
      <3>3. Steps(rx.id, next_id) \in 1 .. n
        BY <1>10, <2>2
      <3> HIDE DEF n
      <3> QED
        BY <1>2, <1>12, <3>1, <3>2, <3>3
    <2>3. ASSUME NEW r \in Receipts' PROVE Steps(r, next_id') \in 1 .. copies'
      <3>1. r \in Ids /\ Steps(r, next_id) \in 1 .. copies
        BY <1>6, <1>11, <2>3
      <3>2. copies \in 1 .. copies
        BY <1>3, <3>1
      <3> QED
        BY <1>1, <1>2, <1>12, <3>1, <3>2
    <2> QED
      BY <1>1, <2>1, <2>2, <2>3 DEF Ascending, Steps
  <1>19. Agreed'
    BY <1>1, <1>5, <1>7 DEF Agreed
  <1>20. InOrder'
    BY <1>1, <1>4, <1>5 DEF InOrder
  <1>21. ReceiptsTrue'
    BY <1>1, <1>2, <1>4, <1>6, <1>11 DEF ReceiptsTrue, Got, ReceiptTrue
  <1>22. WholeSoFar'
    BY <1>1, <1>4 DEF WholeSoFar
  <1> QED
    BY <1>14, <1>15, <1>16, <1>17, <1>18, <1>19, <1>20, <1>21, <1>22

LEMMA NamesByAccept ==
  ASSUME TypeInv, NameInv, SealAccepted
  PROVE  NameInv'
  <1>1. /\ seal_tx.offered /\ back # <<>> /\ back' = Tail(back)
        /\ Head(back).type = "SEAL_ACCEPT" /\ Head(back).id = seal_tx.id
        /\ UNCHANGED <<tx, next_id, out>> \/ NewOffer(seal_tx.id)
        /\ UNCHANGED <<rx, seal_rx, rx_buf, delivered>> /\ UNCHANGED <<seals, copies, confirmed>>
    BY DEF SealAccepted, PasteSideStays
  <1>2. seal_tx'.id = seal_tx.id /\ ~ seal_tx'.offered /\ seal_tx'.live
    <2>1. seal_tx \in [id : Nat, key : Nat, offered : BOOLEAN, live : BOOLEAN]
      BY DEF TypeInv, SealsOK
    <2> QED
      BY <2>1 DEF SealAccepted
  <1>3. /\ copies \in Nat /\ seals \in Nat /\ ID_MOD \in Nat /\ next_id \in Ids
        /\ seal_tx.id \in 0 .. seals /\ seal_rx.id \in 0 .. seals
        /\ seal_tx.id > 0 /\ ~ seal_tx.live
        /\ tx.active => tx.id \in Ids /\ tx.copy \in 1 .. copies
    BY <1>1, Known
  <1> SUFFICES ASSUME copies' < ID_MOD - 1
               PROVE  /\ OneName' /\ RxNamed' /\ TxNamed' /\ Unused' /\ Ascending' /\ Agreed'
                      /\ InOrder' /\ ReceiptsFirst' /\ ReceiptsTrue' /\ WholeSoFar'
    BY DEF NameInv
  <1>4. /\ OneName /\ RxNamed /\ TxNamed /\ Unused /\ Agreed /\ InOrder
        /\ ReceiptsFirst /\ ReceiptsTrue /\ WholeSoFar /\ copies < ID_MOD - 1
    BY <1>1 DEF NameInv
  <1>5. back \in Seq(BackFrames) /\ Head(back) \in Range(back)
    BY <1>1, RangeIn DEF TypeInv
  <1>6. seal_rx.id \in {0, seal_tx.id} /\ SealOffers \subseteq {seal_tx.id}
    <2>1. seal_tx.id \in Accepts
      BY <1>1, <1>5, SaysTyped
    <2> QED
      BY <1>4, <2>1 DEF Agreed
  <1>7. ~ rx.seen_offer /\ \A x \in Names : x[1] # seal_tx.id
    BY <1>3, <1>4, <1>6 DEF Unused, RxNamed
  <1>8. Receipts' = {}
    <2>1. \A m \in Range(Tail(back)) : m.type # "RECEIVED"
      BY <1>1, <1>4, <1>5, ReceiptsTail DEF ReceiptsFirst
    <2> QED
      BY <1>1, <2>1 DEF Receipts
  <1>9. /\ \A x \in Names' : x \in Names \/ (/\ NewOffer(seal_tx.id) /\ x[1] = seal_tx.id
                                             /\ x[2] = next_id /\ x[3] = tx'.copy)
        /\ SealOffers' \subseteq SealOffers /\ Ordered(out)'
    <2>1. CASE UNCHANGED <<tx, next_id, out>>
      BY <1>4, <2>1 DEF Names, SealOffers, Sealed, InOrder, Ordered
    <2>2. CASE NewOffer(seal_tx.id)
      <3>1. PICK s : s = seal_tx.id
        OBVIOUS
      <3>2. NewOffer(s)
        BY <2>2, <3>1
      <3> QED
        BY <1>4, <2>2, <3>1, <3>2, NewOfferSays DEF InOrder
    <2> QED
      BY <1>1, <2>1, <2>2
  <1>10. \A x \in Names : x[1] # 0
    BY <1>3, NamesTyped
  <1>11. Current' \subseteq {0, seal_tx.id}
    BY <1>1, <1>2, <1>6, <1>9 DEF Current
  <1>12. NewOffer(seal_tx.id) => /\ tx'.active /\ tx'.id = next_id /\ next_id' = Succ(next_id)
                                 /\ tx'.copy \in 1 .. copies /\ Steps(next_id, Succ(next_id)) = 1
    <2> SUFFICES ASSUME NewOffer(seal_tx.id)
                 PROVE  /\ tx'.active /\ tx'.id = next_id /\ next_id' = Succ(next_id)
                        /\ tx'.copy \in 1 .. copies /\ Steps(next_id, Succ(next_id)) = 1
      OBVIOUS
    <2>1. /\ tx'.active /\ tx'.id = next_id /\ next_id' = Succ(next_id) /\ tx'.copy \in 1 .. copies
      BY <1>1 DEF NewOffer
    <2>2. ID_MOD > 2
      BY <1>3, <1>4, <2>1
    <2> QED
      BY <1>3, <2>1, <2>2, StepsOfIds
  <1>13. OneName'
    <2>1. ASSUME NEW a \in Names', NEW b \in Names', a[1] = b[1], a[2] = b[2] PROVE a[3] = b[3]
      BY <1>4, <1>7, <1>9, <2>1 DEF OneName
    <2> QED
      BY <2>1 DEF OneName
  <1>14. RxNamed'
    BY <1>1, <1>7 DEF RxNamed
  <1>15. ASSUME NEW a \in Names', a[1] \in Current'
         PROVE  NewOffer(seal_tx.id) /\ a[1] = seal_tx.id /\ a[2] = next_id /\ a[3] = tx'.copy
    BY <1>7, <1>9, <1>10, <1>11, <1>15
  <1>16. TxNamed'
    <2>1. tx'.active => (Steps(tx.id, next_id) = 1)'
      <3>1. CASE UNCHANGED <<tx, next_id, out>>
        BY <1>4, <3>1 DEF TxNamed, Steps
      <3>2. CASE NewOffer(seal_tx.id)
        BY <1>12, <3>2 DEF Steps
      <3> QED
        BY <1>1, <3>1, <3>2
    <2>2. \A a \in Names' : a[1] \in Current' => a[3] = tx'.copy
      BY <1>15
    <2> QED
      BY <1>1, <1>7, <2>1, <2>2 DEF TxNamed
  <1>17. Unused' /\ ReceiptsFirst'
    BY <1>2 DEF Unused, ReceiptsFirst
  <1>18. Ascending'
    <2>1. ASSUME NEW a \in Names', a[1] = seal_tx.id
          PROVE  Steps(a[2], next_id') \in 1 .. (copies' - a[3] + 1)
      <3>1. a[1] \in Current'
        BY <1>2, <2>1 DEF Current
      <3>2. a[2] = next_id /\ a[3] \in 1 .. copies /\ Steps(a[2], next_id') = 1
        BY <1>12, <1>15, <3>1
      <3>3. 1 \in 1 .. (copies' - a[3] + 1)
        BY <1>1, <1>3, <3>2
      <3> QED
        BY <3>2, <3>3
    <2> QED
      BY <1>1, <1>2, <1>7, <1>8, <2>1 DEF Ascending, Steps
  <1>19. Agreed'
    BY <1>1, <1>2, <1>6, <1>9 DEF Agreed
  <1>20. InOrder'
    BY <1>2, <1>4, <1>9 DEF InOrder
  <1>21. ReceiptsTrue'
    BY <1>1, <1>4, <1>8 DEF ReceiptsTrue, Got, ReceiptTrue
  <1>22. WholeSoFar'
    BY <1>1, <1>4 DEF WholeSoFar
  <1> QED
    BY <1>13, <1>14, <1>16, <1>17, <1>18, <1>19, <1>20, <1>21, <1>22

\* The paste side and the path take names away and add none.
LEMMA PathShrinks ==
  ASSUME TypeInv, PasteSideForms
  PROVE  /\ Names' \subseteq Names /\ SealOffers' \subseteq SealOffers
         /\ Ordered(out) => Ordered(out)'
  <1>1. out \in Seq(OutFrames) /\ seals \in Nat
    BY DEF TypeInv, SealsOK
  <1>2. CASE out' = out
    BY <1>2 DEF Names, SealOffers, Sealed, Ordered
  <1>3. ASSUME NEW i \in 1 .. Len(out), Taken(i)
        PROVE  /\ Names' \subseteq Names /\ SealOffers' \subseteq SealOffers
               /\ Ordered(out) => Ordered(out)'
    <2>1. out' = RemoveAt(out, i)
      BY <1>3 DEF Taken
    <2>2. Range(out') \subseteq Range(out)
      BY <1>1, <2>1, RemoveRange
    <2>3. Ordered(out) => Ordered(out')
      BY <1>1, <2>1, OrderedRemove
    <2> QED
      BY <2>2, <2>3, OutShrinks DEF Ordered
  <1>4. CASE out # <<>> /\ out' = Tail(out)
    <2>1. Range(out') \subseteq Range(out)
      BY <1>1, <1>4, TailRange
    <2>2. Ordered(out) => Ordered(out')
      BY <1>1, <1>4, OrderedTail
    <2> QED
      BY <2>1, <2>2, OutShrinks DEF Ordered
  <1>5. CASE out # <<>> /\ Head(out).type = "CHUNK" /\ out' = [out EXCEPT ![1].intact = FALSE]
    <2>1. Damaged
      BY <1>1, <1>5, DamagedFrame DEF Damaged
    <2>2. /\ out' \in Seq(OutFrames) /\ Len(out') = Len(out)
          /\ \A i \in 1 .. Len(out) : /\ out'[i].type = out[i].type /\ out'[i].id = out[i].id
                                      /\ Sealed(out[i]) => /\ out'[i].seal = out[i].seal
                                                           /\ out'[i].copy = out[i].copy
      BY <2>1, DamagedPath
    <2>3. DOMAIN out' = 1 .. Len(out) /\ \A i \in 1 .. Len(out) : out[i] \in Range(out)
      BY <1>1, <2>2, RangeIn
    <2>4. ASSUME NEW m \in Range(out')
          PROVE  \E n \in Range(out) : /\ m.type = n.type /\ m.id = n.id
                                       /\ Sealed(n) => m.seal = n.seal /\ m.copy = n.copy
      <3>1. PICK i \in 1 .. Len(out) : m = out'[i]
        BY <2>3, <2>4, Zenon DEF Range
      <3> QED
        BY <2>2, <2>3, <3>1, Zenon
    <2>5. ASSUME NEW x \in Names' PROVE x \in Names
      <3>1. PICK m \in Range(out') : Sealed(m) /\ x = <<m.seal, m.id, m.copy>>
        BY <2>5, Zenon DEF Names, Sealed
      <3>2. PICK n \in Range(out) : /\ m.type = n.type /\ m.id = n.id
                                    /\ Sealed(n) => m.seal = n.seal /\ m.copy = n.copy
        BY <2>4
      <3>3. Sealed(n) /\ x = <<n.seal, n.id, n.copy>>
        BY <3>1, <3>2 DEF Sealed
      <3> QED
        BY <3>3, NamedFrame
    <2>6. ASSUME NEW q \in SealOffers' PROVE q \in SealOffers
      <3>1. PICK m \in Range(out') : m.type = "SEAL_OFFER" /\ q = m.id
        BY <2>6, Zenon DEF SealOffers
      <3>2. PICK n \in Range(out) : m.type = n.type /\ m.id = n.id
        BY <2>4
      <3> QED
        BY <3>1, <3>2, Zenon DEF SealOffers
    <2>7. Ordered(out) => Ordered(out')
      <3> SUFFICES ASSUME Ordered(out), NEW i \in 1 .. Len(out), NEW j \in 1 .. Len(out), i < j,
                          out'[i].type = "SEAL_OFFER", out'[j].type = "SEAL_OFFER"
                   PROVE  out'[i].id <= out'[j].id
        BY <2>2 DEF Ordered
      <3>1. out[i].id <= out[j].id
        BY <2>2 DEF Ordered
      <3> QED
        BY <2>2, <3>1
    <2> QED
      BY <2>5, <2>6, <2>7 DEF Ordered
  <1>6. ASSUME NEW f \in OutFrames, f.type = "CANCEL", out' = Append(out, f)
        PROVE  /\ Names' \subseteq Names /\ SealOffers' \subseteq SealOffers
               /\ Ordered(out) => Ordered(out)'
    <2>1. Range(out') \subseteq Range(out) \cup {f}
      BY <1>1, <1>6, AppendRange
    <2>2. ~ Sealed(f)
      BY <1>6 DEF Sealed
    <2>3. Names' \subseteq Names /\ SealOffers' \subseteq SealOffers
      BY <1>6, <2>1, <2>2, OutGains
    <2>4. ASSUME Ordered(out) PROVE Ordered(out)'
      <3>1. <<f>> \in Seq(OutFrames) /\ Range(<<f>>) = {f}
        BY OneFrame
      <3>2. out' = out \o <<f>>
        BY <1>1, <1>6, AppendIsConcat
      <3>3. \A m \in Range(<<f>>) : m.type = "SEAL_OFFER" => m.id = seals
        BY <1>6, <3>1
      <3>4. \A q \in SealOffers : q <= seals
        BY <1>1, SaysTyped
      <3>5. \A m \in Range(out) : m.type = "SEAL_OFFER" => m.id <= seals
        BY <3>4, SaysTyped, Zenon
      <3>6. seals \in Int
        BY <1>1
      <3>7. Ordered(out \o <<f>>)
        BY <1>1, <2>4, <3>1, <3>3, <3>5, <3>6, OrderedConcat
      <3> QED
        BY <3>2, <3>7 DEF Ordered
    <2> QED
      BY <2>3, <2>4
  <1> QED
    BY <1>2, <1>3, <1>4, <1>5, <1>6
       DEF PasteSideForms, RxStep, RxOffered, SealAnswered, RxLost, PathStep

LEMMA PasteKeeps ==
  ASSUME TypeInv, NameInv, PasteSideForms, copies' < ID_MOD - 1
  PROVE  /\ OneName /\ RxNamed /\ TxNamed /\ Unused /\ Ascending /\ Agreed /\ InOrder
         /\ ReceiptsFirst /\ ReceiptsTrue /\ WholeSoFar
         /\ Names' \subseteq Names /\ SealOffers' \subseteq SealOffers
         /\ OneName' /\ InOrder'
         /\ UNCHANGED <<tx, next_id, seal_tx, copies, confirmed>>
  <1>1. UNCHANGED <<tx, next_id, seal_tx, copies, confirmed>>
    BY DEF PasteSideForms, RxStep, RxOffered, SealAnswered, RxLost, PathStep, CopySideStays
  <1>2. /\ OneName /\ RxNamed /\ TxNamed /\ Unused /\ Ascending /\ Agreed /\ InOrder
        /\ ReceiptsFirst /\ ReceiptsTrue /\ WholeSoFar
    BY <1>1 DEF NameInv
  <1>3. /\ Names' \subseteq Names /\ SealOffers' \subseteq SealOffers
        /\ Ordered(out) => Ordered(out)'
    BY PathShrinks
  <1>4. OneName'
    BY <1>2, <1>3 DEF OneName
  <1>5. InOrder'
    BY <1>1, <1>2, <1>3 DEF InOrder
  <1> QED
    BY <1>1, <1>2, <1>3, <1>4, <1>5

LEMMA NamesByPath ==
  ASSUME TypeInv, NameInv, PathStep
  PROVE  NameInv'
  <1> SUFFICES ASSUME copies' < ID_MOD - 1
               PROVE  /\ OneName' /\ RxNamed' /\ TxNamed' /\ Unused' /\ Ascending' /\ Agreed'
                      /\ InOrder' /\ ReceiptsFirst' /\ ReceiptsTrue' /\ WholeSoFar'
    BY DEF NameInv
  <1>1. /\ OneName /\ RxNamed /\ TxNamed /\ Unused /\ Ascending /\ Agreed /\ InOrder
        /\ ReceiptsFirst /\ ReceiptsTrue /\ WholeSoFar
        /\ Names' \subseteq Names /\ SealOffers' \subseteq SealOffers
        /\ OneName' /\ InOrder'
        /\ UNCHANGED <<tx, next_id, seal_tx, copies, confirmed>>
    BY PasteKeeps DEF PasteSideForms
  <1>2. UNCHANGED <<seals, seal_rx, rx, rx_buf, delivered>>
    BY DEF PathStep
  <1>3. back \in Seq(BackFrames)
    BY DEF TypeInv
  <1>4. /\ Accepts' \subseteq Accepts /\ Receipts' \subseteq Receipts
        /\ seal_tx.offered => NoReceiptAfter(back', seal_tx.id)
    <2>1. seal_tx.offered => NoReceiptAfter(back, seal_tx.id)
      BY <1>1 DEF ReceiptsFirst
    <2>2. CASE back' = back
      BY <2>1, <2>2 DEF Accepts, Receipts
    <2>3. CASE back # <<>> /\ back' = Tail(back)
      BY <1>3, <2>1, <2>3, TailRange, BackShrinks, ReceiptsTail
    <2>4. ASSUME NEW f \in BackFrames, f.type = "CANCEL", back' = Append(back, f)
          PROVE  /\ Accepts' \subseteq Accepts /\ Receipts' \subseteq Receipts
                 /\ seal_tx.offered => NoReceiptAfter(back', seal_tx.id)
      <3>1. Range(back') \subseteq Range(back) \cup {f}
        BY <1>3, <2>4, AppendRange
      <3>2. <<f>> \in Seq(BackFrames) /\ Range(<<f>>) = {f}
        BY OneFrame
      <3>3. back' = back \o <<f>>
        BY <1>3, <2>4, AppendIsConcat
      <3>4. \A m \in Range(<<f>>) : m.type # "RECEIVED"
        BY <2>4, <3>2
      <3>5. Accepts' \subseteq Accepts /\ Receipts' \subseteq Receipts
        BY <2>4, <3>1, BackGains
      <3>6. seal_tx.offered => NoReceiptAfter(back \o <<f>>, seal_tx.id)
        BY <1>3, <2>1, <3>2, <3>4, ReceiptsConcat
      <3> QED
        BY <3>3, <3>5, <3>6
    <2> QED
      BY <2>2, <2>3, <2>4 DEF PathStep
  <1>5. Current' \subseteq Current
    BY <1>1, <1>2 DEF Current
  <1>6. RxNamed' /\ Unused' /\ Agreed' /\ WholeSoFar'
    BY <1>1, <1>2, <1>4 DEF RxNamed, Unused, Agreed, WholeSoFar
  <1>7. TxNamed'
    BY <1>1, <1>2, <1>5 DEF TxNamed, Steps
  <1>8. Ascending'
    BY <1>1, <1>2, <1>4 DEF Ascending, Steps
  <1>9. ReceiptsFirst'
    BY <1>1, <1>4 DEF ReceiptsFirst, NoReceiptAfter
  <1>10. ReceiptsTrue'
    BY <1>1, <1>2, <1>4 DEF ReceiptsTrue, Got, ReceiptTrue
  <1> QED
    BY <1>1, <1>6, <1>7, <1>8, <1>9, <1>10

LEMMA NamesByLoss ==
  ASSUME TypeInv, NameInv, RxLost
  PROVE  NameInv'
  <1> SUFFICES ASSUME copies' < ID_MOD - 1
               PROVE  /\ OneName' /\ RxNamed' /\ TxNamed' /\ Unused' /\ Ascending' /\ Agreed'
                      /\ InOrder' /\ ReceiptsFirst' /\ ReceiptsTrue' /\ WholeSoFar'
    BY DEF NameInv
  <1>1. /\ OneName /\ RxNamed /\ TxNamed /\ Unused /\ Ascending /\ Agreed /\ InOrder
        /\ ReceiptsFirst /\ ReceiptsTrue /\ WholeSoFar
        /\ Names' \subseteq Names /\ SealOffers' \subseteq SealOffers
        /\ OneName' /\ InOrder'
        /\ UNCHANGED <<tx, next_id, seal_tx, copies, confirmed>>
    BY PasteKeeps DEF PasteSideForms
  <1>2. UNCHANGED <<seals, back, rx_buf, delivered>> /\ seal_rx'.id = 0
    BY DEF RxLost, dh_seal_rx_init
  <1>3. ~ rx'.seen_offer /\ ~ rx'.completed /\ rx'.received = {}
    BY DEF RxLost, rx_forget
  <1>4. Accepts' = Accepts /\ Receipts' = Receipts
    BY <1>2 DEF Accepts, Receipts
  <1>5. \A x \in Names' : x[1] \in Current' => x \in Names /\ x[1] \in Current
    <2>1. \A x \in Names : x[1] # 0
      BY NamesTyped, Known
    <2> QED
      BY <1>1, <1>2, <2>1 DEF Current
  <1>6. RxNamed' /\ Unused' /\ Agreed' /\ WholeSoFar'
    BY <1>1, <1>2, <1>3, <1>4 DEF RxNamed, Unused, Agreed, WholeSoFar
  <1>7. TxNamed'
    BY <1>1, <1>3, <1>5 DEF TxNamed, Steps
  <1>8. Ascending'
    BY <1>1, <1>3, <1>4 DEF Ascending, Steps
  <1>9. ReceiptsFirst'
    BY <1>1, <1>2 DEF ReceiptsFirst, NoReceiptAfter
  <1>10. ReceiptsTrue'
    BY <1>1, <1>2, <1>3, <1>4 DEF ReceiptsTrue, Got, ReceiptTrue
  <1> QED
    BY <1>1, <1>6, <1>7, <1>8, <1>9, <1>10

\* The answers of a receive: no seal is accepted by them, and a receipt is for what is complete.
LEMMA AnswersSay ==
  ASSUME TypeInv, NEW add, Answers(add)
  PROVE  /\ Accepts' \subseteq Accepts
         /\ \A q \in Receipts' : q \in Receipts \/ (q = rx.id /\ rx'.completed)
         /\ \A q : /\ NoReceiptAfter(back, q)
                   /\ ~ rx'.completed \/ q \notin Accepts
                   => NoReceiptAfter(back', q)
  <1>1. /\ add \in Seq(BackFrames) /\ back \in Seq(BackFrames) /\ back' = back \o add
        /\ \A f \in Range(add) : \/ f.type \in Plain
                                 \/ f.type = "RECEIVED" /\ f.id = rx.id /\ rx'.completed
    BY DEF TypeInv, Answers
  <1>2. Range(back') \subseteq Range(back) \cup Range(add)
    BY AnswersRange
  <1>3. /\ \A f \in Range(add) : f.type # "SEAL_ACCEPT"
        /\ \A f \in Range(add) : f.type = "RECEIVED" => f.id = rx.id /\ rx'.completed
    BY <1>1 DEF Plain
  <1>4. Accepts' \subseteq Accepts /\ \A q \in Receipts' : q \in Receipts \/ (q = rx.id /\ rx'.completed)
    <2>1. /\ \A q \in Accepts' : \/ q \in Accepts
                                 \/ \E m \in Range(add) : m.type = "SEAL_ACCEPT" /\ q = m.id
          /\ \A q \in Receipts' : \/ q \in Receipts
                                  \/ \E m \in Range(add) : m.type = "RECEIVED" /\ q = m.id
      BY <1>2, BackSays
    <2> QED
      BY <1>3, <2>1
  <1>5. ASSUME NEW q, NoReceiptAfter(back, q), ~ rx'.completed \/ q \notin Accepts
        PROVE  NoReceiptAfter(back', q)
    <2>1. CASE ~ rx'.completed
      <3>1. \A m \in Range(add) : m.type # "RECEIVED"
        BY <1>3, <2>1
      <3> QED
        BY <1>1, <1>5, <3>1, ReceiptsConcat
    <2>2. CASE q \notin Accepts
      <3>1. \A m \in Range(back) : ~ (m.type = "SEAL_ACCEPT" /\ m.id = q)
        BY <2>2 DEF Accepts
      <3> QED
        BY <1>1, <1>3, <1>5, <3>1, ReceiptsConcat
    <2> QED
      BY <1>5, <2>1, <2>2
  <1> QED
    BY <1>4, <1>5

LEMMA NamesByReceive ==
  ASSUME TypeInv, NameInv, RxStep, TypeInv'
  PROVE  NameInv'
  <1> SUFFICES ASSUME copies' < ID_MOD - 1
               PROVE  /\ OneName' /\ RxNamed' /\ TxNamed' /\ Unused' /\ Ascending' /\ Agreed'
                      /\ InOrder' /\ ReceiptsFirst' /\ ReceiptsTrue' /\ WholeSoFar'
    BY DEF NameInv
  <1>1. /\ OneName /\ RxNamed /\ TxNamed /\ Unused /\ Ascending /\ Agreed /\ InOrder
        /\ ReceiptsFirst /\ ReceiptsTrue /\ WholeSoFar
        /\ Names' \subseteq Names /\ SealOffers' \subseteq SealOffers
        /\ OneName' /\ InOrder'
        /\ UNCHANGED <<tx, next_id, seal_tx, copies, confirmed>>
    BY PasteKeeps DEF PasteSideForms
  <1>2. /\ UNCHANGED <<seals, seal_rx>>
        /\ rx'.id = rx.id /\ rx'.copy = rx.copy /\ rx'.seen_offer = rx.seen_offer
    BY DEF RxStep
  <1>3. PICK add : Answers(add)
    BY DEF RxStep
  <1>4. /\ Accepts' \subseteq Accepts
        /\ \A q \in Receipts' : q \in Receipts \/ (q = rx.id /\ rx'.completed)
        /\ \A q : NoReceiptAfter(back, q) /\ (~ rx'.completed \/ q \notin Accepts)
                  => NoReceiptAfter(back', q)
    BY <1>3, AnswersSay
  <1>5. /\ copies \in Nat /\ ID_MOD \in Nat /\ seal_tx.id \in Nat
        /\ rx.seen_offer => rx.id \in Ids /\ rx.copy \in 1 .. copies
        /\ seal_tx.offered => ~ seal_tx.live
    BY Known
  <1>6. rx'.completed => rx.seen_offer
    <2>1. rx'.completed => rx'.seen_offer
      BY DEF TypeInv, CopiesOK
    <2> QED
      BY <1>2, <2>1
  <1>7. Current' \subseteq Current
    BY <1>1, <1>2 DEF Current
  <1>8. RxNamed' /\ Unused' /\ Agreed'
    BY <1>1, <1>2, <1>4 DEF RxNamed, Unused, Agreed
  <1>9. TxNamed'
    BY <1>1, <1>2, <1>7 DEF TxNamed, Steps
  <1>10. Ascending'
    <2> SUFFICES ASSUME seal_tx.live PROVE Ascending'
      BY <1>1 DEF Ascending
    <2>1. ASSUME NEW r \in Receipts' PROVE Steps(r, next_id) \in 1 .. copies
      <3>1. CASE r \in Receipts
        BY <1>1, <3>1 DEF Ascending
      <3>2. CASE r = rx.id /\ rx.seen_offer
        <4>1. seal_rx.id = seal_tx.id
          BY <1>1, <3>2 DEF Agreed, RxNamed
        <4>2. Steps(rx.id, next_id) \in 1 .. (copies - rx.copy + 1)
          BY <1>1, <3>2, <4>1 DEF Ascending
        <4> DEFINE z == Steps(rx.id, next_id)
        <4> HIDE DEF z
        <4>3. z \in 1 .. (copies - rx.copy + 1)
          BY <4>2 DEF z
        <4>4. z \in 1 .. copies
          BY <1>5, <3>2, <4>3
        <4> QED
          BY <3>2, <4>4 DEF z
      <3> QED
        BY <1>4, <1>6, <3>1, <3>2
    <2> QED
      BY <1>1, <1>2, <2>1 DEF Ascending, Steps
  <1>11. ReceiptsFirst'
    <2>1. ASSUME seal_tx.offered PROVE NoReceiptAfter(back', seal_tx.id)
      <3>1. NoReceiptAfter(back, seal_tx.id)
        BY <1>1, <2>1 DEF ReceiptsFirst
      <3>2. rx'.completed => seal_tx.id \notin Accepts
        BY <1>1, <1>5, <1>6, <2>1 DEF Agreed, Unused, RxNamed
      <3> QED
        BY <1>4, <3>1, <3>2
    <2> QED
      BY <1>1, <2>1 DEF ReceiptsFirst, NoReceiptAfter
  <1>12. Got \subseteq Got' /\ (rx'.completed => rx.copy \in Got')
    <2>1. \/ delivered' = delivered /\ rx'.completed = rx.completed
          \/ delivered' = delivered \cup {<<rx.copy, rx.id, rx_buf'>>}
      BY DEF RxStep
    <2>2. CASE delivered' = delivered /\ rx'.completed = rx.completed
      BY <1>1, <2>2 DEF Got, ReceiptsTrue
    <2>3. CASE delivered' = delivered \cup {<<rx.copy, rx.id, rx_buf'>>}
      <3> DEFINE new == <<rx.copy, rx.id, rx_buf'>>
      <3>1. new[1] = rx.copy /\ delivered' = delivered \cup {new}
        BY <2>3
      <3> HIDE DEF new
      <3> QED
        BY <3>1 DEF Got
    <2> QED
      BY <2>1, <2>2, <2>3
  <1>13. ReceiptsTrue'
    <2>1. tx.active /\ tx.id \in Receipts' => tx.copy \in Got'
      BY <1>1, <1>4, <1>6, <1>12 DEF ReceiptsTrue, TxNamed
    <2>2. confirmed \subseteq Got
      BY <1>1 DEF ReceiptsTrue, ReceiptTrue, Got
    <2>3. ReceiptTrue'
      BY <1>1, <1>12, <2>2 DEF ReceiptTrue, Got
    <2> QED
      BY <1>1, <1>2, <1>12, <2>1, <2>3 DEF ReceiptsTrue
  <1>14. WholeSoFar'
    <2>1. CASE UNCHANGED <<rx_buf, delivered>> /\ rx'.received = rx.received
      BY <1>1, <1>2, <2>1 DEF WholeSoFar
    <2>2. ASSUME NEW x \in Names, NEW q \in Seqs,
                 x[1] = seal_rx.id, x[2] = rx.id, rx.seen_offer,
                 rx'.received = rx.received \cup {q}, rx_buf' = [rx_buf EXCEPT ![q] = x[3]],
                 \/ delivered' = delivered
                 \/ /\ rx'.received = Seqs
                    /\ delivered' = delivered \cup {<<rx.copy, rx.id, rx_buf'>>}
          PROVE  WholeSoFar'
      <3>1. x[3] = rx.copy
        BY <1>1, <2>2 DEF RxNamed
      <3>2. rx_buf \in [Seqs -> 0 .. MaxCopies] /\ rx_buf' \in [Seqs -> 0 .. MaxCopies]
        BY DEF TypeInv
      <3>3. rx.received \subseteq Seqs
        BY DEF TypeInv, RxOK, RxRecords
      <3>4. \A p \in rx.received : rx_buf[p] = rx.copy
        BY <1>1 DEF WholeSoFar
      <3> DEFINE nb == rx_buf'
      <3>5. \A p \in Seqs : nb[p] = IF p = q THEN rx.copy ELSE rx_buf[p]
        BY <2>2, <3>1, <3>2
      <3> HIDE DEF nb
      <3>6. \A p \in rx'.received : nb[p] = rx.copy
        BY <2>2, <3>3, <3>4, <3>5
      <3>7. rx.copy \in Copies /\ rx.id \in Ids
        BY <1>5, <2>2, XferAssumption DEF TypeInv, CopiesOK, Copies
      <3> DEFINE new == <<rx.copy, rx.id, nb>>
      <3>8. new \in Copies \X Ids \X [Seqs -> 0 .. MaxCopies] /\ new[1] = rx.copy /\ new[3] = nb
        BY <3>2, <3>7 DEF nb
      <3> HIDE DEF new
      <3>9. \A d \in delivered' : /\ d \in Copies \X Ids \X [Seqs -> 0 .. MaxCopies]
                                  /\ \A p \in Seqs : d[3][p] = d[1]
        <4>1. \A d \in delivered : /\ d \in Copies \X Ids \X [Seqs -> 0 .. MaxCopies]
                                   /\ \A p \in Seqs : d[3][p] = d[1]
          BY <1>1 DEF WholeSoFar
        <4>2. CASE delivered' = delivered
          BY <4>1, <4>2
        <4>3. CASE rx'.received = Seqs /\ delivered' = delivered \cup {new}
          <5>1. \A p \in Seqs : new[3][p] = new[1]
            BY <3>6, <3>8, <4>3
          <5> QED
            BY <3>8, <4>1, <4>3, <5>1
        <4> QED
          BY <2>2, <4>2, <4>3 DEF new, nb
      <3> QED
        BY <1>2, <3>6, <3>9 DEF WholeSoFar, nb
    <2> QED
      BY <2>1, <2>2 DEF RxStep
  <1> QED
    BY <1>1, <1>8, <1>9, <1>10, <1>11, <1>13, <1>14

LEMMA NamesByNewer ==
  ASSUME TypeInv, NameInv, RxOffered
  PROVE  NameInv'
  <1> SUFFICES ASSUME copies' < ID_MOD - 1
               PROVE  /\ OneName' /\ RxNamed' /\ TxNamed' /\ Unused' /\ Ascending' /\ Agreed'
                      /\ InOrder' /\ ReceiptsFirst' /\ ReceiptsTrue' /\ WholeSoFar'
    BY DEF NameInv
  <1>1. /\ OneName /\ RxNamed /\ TxNamed /\ Unused /\ Ascending /\ Agreed /\ InOrder
        /\ ReceiptsFirst /\ ReceiptsTrue /\ WholeSoFar
        /\ Names' \subseteq Names /\ SealOffers' \subseteq SealOffers
        /\ OneName' /\ InOrder'
        /\ UNCHANGED <<tx, next_id, seal_tx, copies, confirmed>>
    BY PasteKeeps DEF PasteSideForms
  <1>2. /\ UNCHANGED <<seals, seal_rx, rx_buf, delivered>>
        /\ rx'.seen_offer /\ rx'.received = {} /\ ~ rx'.completed
    BY DEF RxOffered
  <1>3. PICK add : Answers(add)
    BY DEF RxOffered
  <1>4. /\ Accepts' \subseteq Accepts /\ Receipts' \subseteq Receipts
        /\ \A q : NoReceiptAfter(back, q) => NoReceiptAfter(back', q)
    BY <1>2, <1>3, AnswersSay
  <1> DEFINE z == <<seal_rx.id, rx'.id, rx'.copy>>
  <1>5. z \in Names /\ z[1] = seal_rx.id /\ z[2] = rx'.id /\ z[3] = rx'.copy
    BY DEF RxOffered
  <1> HIDE DEF z
  <1>6. seal_rx.id > 0
    <2>1. seals \in Nat
      BY Known
    <2> QED
      BY <1>5, <2>1, NamesTyped
  <1>7. Current' \subseteq Current /\ seal_rx.id \in Current
    BY <1>1, <1>2 DEF Current
  <1>8. RxNamed'
    <2>1. \A x \in Names' : x[1] = seal_rx.id /\ x[2] = rx'.id => x[3] = rx'.copy
      BY <1>1, <1>5 DEF OneName
    <2> QED
      BY <1>2, <1>6, <2>1 DEF RxNamed
  <1>9. TxNamed'
    <2>1. tx.active /\ rx'.id = tx.id => rx'.copy = tx.copy
      BY <1>1, <1>5, <1>7 DEF TxNamed
    <2> QED
      BY <1>1, <1>7, <2>1 DEF TxNamed, Steps
  <1>10. Unused'
    <2>1. ~ seal_tx.live => seal_rx.id # seal_tx.id
      BY <1>1, <1>5 DEF Unused
    <2> QED
      BY <1>1, <1>2, <2>1 DEF Unused
  <1>11. Ascending'
    <2>1. seal_tx.live /\ seal_rx.id = seal_tx.id
            => Steps(rx'.id, next_id) \in 1 .. (copies - rx'.copy + 1)
      BY <1>1, <1>5 DEF Ascending
    <2> QED
      BY <1>1, <1>2, <1>4, <2>1 DEF Ascending, Steps
  <1>12. Agreed'
    BY <1>1, <1>2, <1>4 DEF Agreed
  <1>13. ReceiptsFirst'
    <2>1. seal_tx.offered => NoReceiptAfter(back', seal_tx.id)
      BY <1>1, <1>4 DEF ReceiptsFirst
    <2> QED
      BY <1>1, <2>1 DEF ReceiptsFirst, NoReceiptAfter
  <1>14. ReceiptsTrue'
    BY <1>1, <1>2, <1>4 DEF ReceiptsTrue, Got, ReceiptTrue
  <1>15. WholeSoFar'
    BY <1>1, <1>2 DEF WholeSoFar
  <1> QED
    BY <1>1, <1>8, <1>9, <1>10, <1>11, <1>12, <1>13, <1>14, <1>15

\* A seal offer that is taken is the oldest on the path, and those behind it are no older.
LEMMA OldestSealOffer ==
  ASSUME TypeInv, NEW i \in 1 .. Len(out), Taken(i), out[i].type = "SEAL_OFFER", Ordered(out)
  PROVE  out[i].id \in SealOffers /\ \A q \in SealOffers' : out[i].id <= q
  <1>1. out \in Seq(OutFrames) /\ Len(out) \in Nat
    BY DEF TypeInv
  <1>2. /\ out' = RemoveAt(out, i)
        /\ i = 1 \/ (i = 2 /\ "CHUNK" \in {out[1].type, out[2].type})
    BY DEF Taken
  <1>3. /\ out' \in Seq(OutFrames) /\ Len(out') = Len(out) - 1
        /\ \A j \in 1 .. Len(out) - 1 : out'[j] = IF j < i THEN out[j] ELSE out[j + 1]
    BY <1>1, <1>2, RemoveRange
  <1>4. out[i].id \in SealOffers
    BY <1>1, RangeIn, SaysTyped
  <1>5. ASSUME NEW q \in SealOffers' PROVE out[i].id <= q
    <2>1. PICK m \in Range(out') : m.type = "SEAL_OFFER" /\ q = m.id
      BY <1>5, Zenon DEF SealOffers
    <2>2. DOMAIN out' = 1 .. Len(out) - 1
      BY <1>3
    <2>3. PICK j \in 1 .. Len(out) - 1 : m = out'[j]
      BY <2>1, <2>2, Zenon DEF Range
    <2>4. CASE j < i
      <3>1. i = 2 /\ j = 1
        BY <1>1, <1>2, <2>4
      <3>2. out[1].type = "CHUNK"
        BY <1>2, <3>1
      <3>3. m = out[1]
        BY <1>3, <2>3, <3>1
      <3> QED
        BY <2>1, <3>2, <3>3
    <2>5. CASE ~ (j < i)
      <3>1. m = out[j + 1] /\ j + 1 \in 1 .. Len(out) /\ i < j + 1
        BY <1>1, <1>3, <2>3, <2>5
      <3> QED
        BY <2>1, <3>1 DEF Ordered
    <2> QED
      BY <2>4, <2>5
  <1> QED
    BY <1>4, <1>5

LEMMA NamesBySealOffer ==
  ASSUME TypeInv, NameInv, SealAnswered
  PROVE  NameInv'
  <1> SUFFICES ASSUME copies' < ID_MOD - 1
               PROVE  /\ OneName' /\ RxNamed' /\ TxNamed' /\ Unused' /\ Ascending' /\ Agreed'
                      /\ InOrder' /\ ReceiptsFirst' /\ ReceiptsTrue' /\ WholeSoFar'
    BY DEF NameInv
  <1>1. /\ OneName /\ RxNamed /\ TxNamed /\ Unused /\ Ascending /\ Agreed /\ InOrder
        /\ ReceiptsFirst /\ ReceiptsTrue /\ WholeSoFar
        /\ Names' \subseteq Names /\ SealOffers' \subseteq SealOffers
        /\ OneName' /\ InOrder'
        /\ UNCHANGED <<tx, next_id, seal_tx, copies, confirmed>>
    BY PasteKeeps DEF PasteSideForms
  <1>2. PICK i \in 1 .. Len(out) :
         /\ Taken(i) /\ out[i].type = "SEAL_OFFER"
         /\ \/ /\ seal_rx.id = out[i].id /\ UNCHANGED <<rx, seal_rx, seals>>
               /\ back' = Append(back, SealAccept(out[i].id, seal_rx.key))
            \/ /\ seals' = seals + 1 /\ seal_rx' = [id |-> out[i].id, key |-> seals + 1]
               /\ back' = Append(back, SealAccept(out[i].id, seals + 1))
               /\ rx' = rx_forget
    BY DEF SealAnswered
  <1>3. UNCHANGED <<rx_buf, delivered>>
    BY DEF SealAnswered
  <1> DEFINE s == out[i].id
  <1>4. s \in SealOffers /\ \A q \in SealOffers' : s <= q
    BY <1>1, <1>2, OldestSealOffer DEF InOrder
  <1>5. /\ seals \in Nat /\ SealOffers \subseteq 1 .. seals /\ seal_tx.id \in 0 .. seals
        /\ seal_rx.key \in Nat /\ back \in Seq(BackFrames)
    BY SaysTyped DEF TypeInv, SealsOK
  <1>6. s \in Nat /\ s > 0
    <2> HIDE DEF s
    <2> QED
      BY <1>4, <1>5
  <1>7. PICK f \in BackFrames : f.type = "SEAL_ACCEPT" /\ f.id = s /\ back' = Append(back, f)
    <2>1. \A k \in Nat : SealAccept(s, k) \in BackFrames /\ SealAccept(s, k).type = "SEAL_ACCEPT"
                         /\ SealAccept(s, k).id = s
      BY <1>6 DEF SealAccept, BackFrames
    <2>2. \E k \in Nat : back' = Append(back, SealAccept(s, k))
      BY <1>2, <1>5
    <2> QED
      BY <2>1, <2>2
  <1>8. seal_rx'.id = s /\ ((rx' = rx /\ seal_rx' = seal_rx) \/ rx' = rx_forget)
    BY <1>2
  <1> HIDE DEF s
  <1>9. rx' = rx_forget => ~ rx'.seen_offer /\ ~ rx'.completed /\ rx'.received = {}
    BY DEF rx_forget
  <1>10. Range(back') \subseteq Range(back) \cup {f}
    BY <1>5, <1>7, AppendRange
  <1>11. /\ \A q \in Accepts' : q \in Accepts \/ q = s
         /\ Receipts' \subseteq Receipts
    BY <1>7, <1>10, BackGains
  <1>12. Current' \subseteq Current
    BY <1>1, <1>4, <1>8 DEF Current
  <1>13. RxNamed' /\ WholeSoFar'
    BY <1>1, <1>3, <1>8, <1>9 DEF RxNamed, WholeSoFar
  <1>14. TxNamed'
    BY <1>1, <1>8, <1>9, <1>12 DEF TxNamed, Steps
  <1>15. Unused'
    BY <1>1, <1>8, <1>9 DEF Unused
  <1>16. Ascending'
    BY <1>1, <1>8, <1>9, <1>11 DEF Ascending, Steps
  <1>17. Agreed'
    <2>1. CASE s = seal_tx.id
      <3>1. \A q \in SealOffers' : q <= seal_tx.id /\ q \in Int
        BY <1>1, <1>5, <1>6, <2>1 DEF InOrder
      <3>2. SealOffers' \subseteq {seal_tx.id}
        BY <1>4, <1>6, <2>1, <3>1
      <3> QED
        BY <1>1, <1>8, <2>1, <3>2 DEF Agreed
    <2>2. CASE s # seal_tx.id
      <3>1. ~ (seal_tx.live \/ seal_tx.id \in Accepts)
        BY <1>1, <1>4, <2>2 DEF Agreed
      <3> QED
        BY <1>1, <1>11, <2>2, <3>1 DEF Agreed
    <2> QED
      BY <2>1, <2>2
  <1>18. ReceiptsFirst'
    <2>1. <<f>> \in Seq(BackFrames) /\ Range(<<f>>) = {f}
      BY OneFrame
    <2>2. back' = back \o <<f>>
      BY <1>5, <1>7, AppendIsConcat
    <2>3. \A m \in Range(<<f>>) : m.type # "RECEIVED"
      BY <1>7, <2>1
    <2>4. seal_tx.offered => NoReceiptAfter(back \o <<f>>, seal_tx.id)
      BY <1>1, <1>5, <2>1, <2>3, ReceiptsConcat DEF ReceiptsFirst
    <2> QED
      BY <1>1, <2>2, <2>4 DEF ReceiptsFirst, NoReceiptAfter
  <1>19. ReceiptsTrue'
    BY <1>1, <1>3, <1>8, <1>9, <1>11 DEF ReceiptsTrue, Got, ReceiptTrue
  <1> QED
    BY <1>1, <1>13, <1>14, <1>15, <1>16, <1>17, <1>18, <1>19

-----------------------------------------------------------------------------
(* The theorems. *)

XferInv == TypeInv /\ NameInv

LEMMA InvAtFirst == Init => XferInv
  <1> SUFFICES ASSUME Init PROVE NameInv
    BY TypesAtFirst DEF XferInv
  <1>1. Names = {} /\ SealOffers = {} /\ Accepts = {} /\ Receipts = {}
    BY NoFrame DEF Init, Names, SealOffers, Accepts, Receipts
  <1>2. Len(out) = 0 /\ Len(back) = 0
    BY DEF Init
  <1>3. /\ ~ tx.active /\ ~ rx.seen_offer /\ ~ rx.completed /\ rx.received = {}
        /\ ~ seal_tx.live /\ ~ seal_tx.offered /\ seal_tx.id = 0
        /\ delivered = {} /\ confirmed = {}
    BY DEF Init, tx_reset, rx_forget, dh_seal_tx_init
  <1>4. OneName /\ RxNamed /\ TxNamed /\ Unused /\ Ascending /\ Agreed
    BY <1>1, <1>3 DEF OneName, RxNamed, TxNamed, Unused, Ascending, Agreed
  <1>5. InOrder /\ ReceiptsFirst
    BY <1>1, <1>2, <1>3 DEF InOrder, Ordered, ReceiptsFirst
  <1>6. ReceiptsTrue /\ WholeSoFar
    BY <1>3 DEF ReceiptsTrue, ReceiptTrue, WholeSoFar
  <1> QED
    BY <1>4, <1>5, <1>6 DEF NameInv

LEMMA InvStep == XferInv /\ [Next]_vars => XferInv'
  <1>1. ASSUME TypeInv, NameInv, Next PROVE NameInv'
    <2>1. TypeInv'
      BY <1>1, TypesStep
    <2>2. CASE CopySideForms
      BY <1>1, <2>2, NamesByCopy, NamesBySeal, NamesBySealLost, NamesByOffer, NamesByAccept
         DEF CopySideForms
    <2>3. CASE PasteSideForms
      BY <1>1, <2>1, <2>3, NamesByReceive, NamesByNewer, NamesBySealOffer, NamesByLoss, NamesByPath
         DEF PasteSideForms
    <2> QED
      BY <1>1, <2>2, <2>3, NextForms
  <1>2. ASSUME NameInv, UNCHANGED vars PROVE NameInv'
    <2>1. /\ Names' = Names /\ SealOffers' = SealOffers /\ Accepts' = Accepts /\ Receipts' = Receipts
          /\ Current' = Current /\ Got' = Got
      BY <1>2 DEF vars, Names, SealOffers, Accepts, Receipts, Current, Got, Sealed
    <2> QED
      BY <1>2, <2>1 DEF vars, NameInv, OneName, RxNamed, TxNamed, Unused, Ascending, Agreed, InOrder,
            Ordered, ReceiptsFirst, NoReceiptAfter, ReceiptsTrue, ReceiptTrue, WholeSoFar, Steps
  <1> QED
    BY <1>1, <1>2, TypesStep DEF XferInv

LEMMA ConflictFree == XferInv => (copies < ID_MOD - 1 => NoIdentityConflict)
  <1> SUFFICES ASSUME XferInv, copies < ID_MOD - 1, NEW i \in DOMAIN out,
                      out[i].type = "OFFER", Opens(out[i]), rx.seen_offer, out[i].id = rx.id
               PROVE  out[i].copy = rx.copy
    BY DEF NoIdentityConflict
  <1>1. out \in Seq(OutFrames) /\ RxNamed
    BY DEF XferInv, TypeInv, NameInv
  <1> DEFINE m == out[i]
  <1>2. m \in Range(out) /\ Sealed(m)
    BY <1>1, RangeIn DEF Sealed
  <1> DEFINE x == <<m.seal, m.id, m.copy>>
  <1>3. x \in Names
    BY <1>2, NamedFrame
  <1>4. x[1] = seal_rx.id /\ x[2] = rx.id /\ x[3] = m.copy
    BY DEF Opens
  <1> HIDE DEF x
  <1> QED
    BY <1>1, <1>3, <1>4 DEF RxNamed

LEMMA DeliveriesWhole == XferInv => (copies < ID_MOD - 1 => DeliveredWhole)
  <1> SUFFICES ASSUME XferInv, copies < ID_MOD - 1 PROVE DeliveredWhole
    OBVIOUS
  <1>1. \A d \in delivered : /\ d \in Copies \X Ids \X [Seqs -> 0 .. MaxCopies]
                             /\ \A q \in Seqs : d[3][q] = d[1]
    BY DEF XferInv, NameInv, WholeSoFar
  <1>2. ASSUME NEW d \in delivered, NEW e \in delivered, d[1] = e[1], d[2] = e[2] PROVE d = e
    <2>1. d[3] \in [Seqs -> 0 .. MaxCopies] /\ e[3] \in [Seqs -> 0 .. MaxCopies]
      BY <1>1
    <2>2. \A q \in Seqs : d[3][q] = e[3][q]
      BY <1>1, <1>2
    <2>3. d[3] = e[3]
      BY <2>1, <2>2
    <2>4. d = <<d[1], d[2], d[3]>> /\ e = <<e[1], e[2], e[3]>>
      BY <1>1
    <2> QED
      BY <1>2, <2>3, <2>4
  <1> QED
    BY <1>1, <1>2 DEF DeliveredWhole

LEMMA ReceiptsBelieved == XferInv => (copies < ID_MOD - 1 => ReceiptTrue)
  BY DEF XferInv, NameInv, ReceiptsTrue

(***************************************************************************)
(* The identity conflict of handle_offer, which ends the session, is never *)
(* earned: while fewer copies have been made than there are offer ids      *)
(* (2^32 - 1 in the code), an offer the paste side can open and whose id   *)
(* it has on record is for the copy it has on record.  Restarts, which     *)
(* count the ids again from one, lost seals, re-offers under a new seal    *)
(* and repeats are all among the steps.                                    *)
(***************************************************************************)
THEOREM XferNoIdentityConflict == Spec => [](copies < ID_MOD - 1 => NoIdentityConflict)
  BY InvAtFirst, InvStep, ConflictFree, PTL DEF Spec

(***************************************************************************)
(* What dh_xfer_handle_chunk hands up is one copy, whole, while fewer      *)
(* copies have been made than there are offer ids: the chunks a newer      *)
(* offer or a fresh seal superseded never fill a hole of the next one.     *)
(***************************************************************************)
THEOREM XferDeliveredWhole == Spec => [](copies < ID_MOD - 1 => DeliveredWhole)
  BY InvAtFirst, InvStep, DeliveriesWhole, PTL DEF Spec

(***************************************************************************)
(* dh_xfer_handle_received drops the bytes only of a copy that was         *)
(* delivered, while fewer copies have been made than there are offer ids,  *)
(* although a receipt names an id and no seal: the receipts of an earlier  *)
(* session are ahead of the answer that makes the next seal live.          *)
(***************************************************************************)
THEOREM XferReceiptTrue == Spec => [](copies < ID_MOD - 1 => ReceiptTrue)
  BY InvAtFirst, InvStep, ReceiptsBelieved, PTL DEF Spec

-----------------------------------------------------------------------------
(***************************************************************************)
(* The burst.  What the copy side has spent or still holds, and the grants *)
(* on their way to it, are at most one window more than what has arrived.  *)
(* The grants would have to be added up along the path.  Instead of a sum  *)
(* there is a number for each place of it that rises by every grant it     *)
(* passes.                                                                 *)
(***************************************************************************)
\* What m adds to the credits; a whole window counts once and is left out.
Grant(m, id) == IF m.type = "CREDIT" /\ m.id = id /\ m.credits # WINDOW THEN m.credits ELSE 0

Rising(f, s, id) ==
    \A j \in 1 .. Len(s) : \A i \in 0 .. (j - 1) : f[i] + Grant(s[j], id) <= f[j]

\* From lo there is room up to hi for the grants of s.
Room(id, lo, s, hi) ==
    \E f \in [0 .. Len(s) -> Nat] : Rising(f, s, id) /\ lo <= f[0] /\ f[Len(s)] <= hi

LEMMA GrantNat ==
  ASSUME NEW m \in BackFrames, NEW id
  PROVE  Grant(m, id) \in Nat
  BY DEF Grant, BackFrames

LEMMA RoomWithin ==
  ASSUME NEW id, NEW lo \in Nat, NEW s \in Seq(BackFrames), NEW hi \in Int, Room(id, lo, s, hi)
  PROVE  lo <= hi
  <1>1. PICK f \in [0 .. Len(s) -> Nat] : Rising(f, s, id) /\ lo <= f[0] /\ f[Len(s)] <= hi
    BY DEF Room
  <1>2. Len(s) \in Nat /\ f[0] \in Nat /\ f[Len(s)] \in Nat
    BY <1>1
  <1>3. CASE Len(s) = 0
    BY <1>1, <1>2, <1>3
  <1>4. CASE Len(s) # 0
    <2>1. Len(s) \in 1 .. Len(s) /\ 0 \in 0 .. (Len(s) - 1)
      BY <1>2, <1>4
    <2>2. f[0] + Grant(s[Len(s)], id) <= f[Len(s)]
      BY <1>1, <2>1 DEF Rising
    <2>3. s[Len(s)] \in BackFrames
      BY <2>1
    <2> QED
      BY <1>1, <1>2, <2>2, <2>3, GrantNat
  <1> QED
    BY <1>3, <1>4

LEMMA RoomWider ==
  ASSUME NEW id, NEW lo \in Nat, NEW s \in Seq(BackFrames), NEW hi \in Int, Room(id, lo, s, hi),
         NEW l \in Nat, NEW h \in Int, l <= lo, hi <= h
  PROVE  Room(id, l, s, h)
  <1>1. PICK f \in [0 .. Len(s) -> Nat] : Rising(f, s, id) /\ lo <= f[0] /\ f[Len(s)] <= hi
    BY DEF Room
  <1>2. Len(s) \in Nat /\ f[0] \in Nat /\ f[Len(s)] \in Nat
    BY <1>1
  <1>3. l <= f[0] /\ f[Len(s)] <= h
    BY <1>1, <1>2
  <1> QED
    BY <1>1, <1>3 DEF Room

LEMMA RoomTail ==
  ASSUME NEW id, NEW lo \in Nat, NEW s \in Seq(BackFrames), s # <<>>, NEW hi \in Int,
         Room(id, lo, s, hi)
  PROVE  Room(id, lo + Grant(Head(s), id), Tail(s), hi)
  <1>1. PICK f \in [0 .. Len(s) -> Nat] : Rising(f, s, id) /\ lo <= f[0] /\ f[Len(s)] <= hi
    BY DEF Room
  <1> DEFINE n == Len(s)
             g == [i \in 0 .. (n - 1) |-> f[i + 1]]
  <1>2. /\ n \in Nat /\ n > 0 /\ Len(Tail(s)) = n - 1 /\ Head(s) = s[1]
        /\ \A i \in 1 .. (n - 1) : Tail(s)[i] = s[i + 1]
    OBVIOUS
  <1> HIDE DEF n
  <1>3. g \in [0 .. Len(Tail(s)) -> Nat]
    BY <1>1, <1>2 DEF n
  <1>4. Rising(g, Tail(s), id)
    <2> SUFFICES ASSUME NEW j \in 1 .. (n - 1), NEW i \in 0 .. (j - 1)
                 PROVE  g[i] + Grant(Tail(s)[j], id) <= g[j]
      BY <1>2 DEF Rising
    <2>1. j + 1 \in 1 .. n /\ i + 1 \in 0 .. (j + 1 - 1) /\ i \in 0 .. (n - 1) /\ j \in 0 .. (n - 1)
      BY <1>2
    <2>2. f[i + 1] + Grant(s[j + 1], id) <= f[j + 1]
      BY <1>1, <2>1 DEF Rising, n
    <2> QED
      BY <1>2, <2>1, <2>2
  <1>5. lo + Grant(Head(s), id) <= g[0]
    <2>1. 1 \in 1 .. n /\ 0 \in 0 .. (1 - 1) /\ 0 \in 0 .. (n - 1)
      BY <1>2
    <2>2. f[0] + Grant(s[1], id) <= f[1]
      BY <1>1, <2>1 DEF Rising, n
    <2>3. f[0] \in Nat /\ f[1] \in Nat /\ g[0] = f[1] /\ s[1] \in BackFrames
      BY <1>1, <1>2, <2>1 DEF n
    <2> QED
      BY <1>1, <1>2, <2>2, <2>3, GrantNat
  <1>6. g[Len(Tail(s))] <= hi
    <2>1. n - 1 \in 0 .. (n - 1) /\ n - 1 + 1 = n
      BY <1>2
    <2>2. g[n - 1] = f[n]
      BY <2>1
    <2> QED
      BY <1>1, <1>2, <2>2 DEF n
  <1> QED
    BY <1>3, <1>4, <1>5, <1>6 DEF Room

LEMMA RoomAppend ==
  ASSUME NEW id, NEW lo \in Nat, NEW s \in Seq(BackFrames), NEW hi \in Int, Room(id, lo, s, hi),
         NEW m \in BackFrames
  PROVE  Room(id, lo, Append(s, m), hi + Grant(m, id))
  <1>1. PICK f \in [0 .. Len(s) -> Nat] : Rising(f, s, id) /\ lo <= f[0] /\ f[Len(s)] <= hi
    BY DEF Room
  <1> DEFINE n == Len(s)
             w == Grant(m, id)
             t == Append(s, m)
             g == [i \in 0 .. (n + 1) |-> IF i = n + 1 THEN f[n] + w ELSE f[i]]
  <1>2. /\ n \in Nat /\ Len(t) = n + 1 /\ t[n + 1] = m
        /\ \A i \in 1 .. n : t[i] = s[i] /\ s[i] \in BackFrames
    OBVIOUS
  <1>3. w \in Nat /\ f[n] \in Nat /\ (\A i \in 0 .. n : f[i] \in Nat) /\ f[n] <= hi
    BY <1>1, <1>2, GrantNat
  <1>4. \A j \in 1 .. n : \A i \in 0 .. (j - 1) : f[i] + Grant(s[j], id) <= f[j]
    BY <1>1 DEF Rising
  <1> HIDE DEF n, w, t
  <1>5. g \in [0 .. Len(t) -> Nat] /\ g[n + 1] = f[n] + w /\ \A i \in 0 .. n : g[i] = f[i]
    BY <1>2, <1>3
  <1> HIDE DEF g
  <1>6. \A i \in 0 .. n : f[i] <= f[n]
    <2> SUFFICES ASSUME NEW i \in 0 .. n, i # n PROVE f[i] <= f[n]
      BY <1>2, <1>3
    <2>1. n \in 1 .. n /\ i \in 0 .. (n - 1) /\ s[n] \in BackFrames
      BY <1>2
    <2>2. f[i] + Grant(s[n], id) <= f[n]
      BY <1>4, <2>1
    <2>3. Grant(s[n], id) \in Nat /\ f[i] \in Nat /\ f[n] \in Nat
      BY <1>3, <2>1, GrantNat
    <2> QED
      BY <2>2, <2>3
  <1>7. Rising(g, t, id)
    <2> SUFFICES ASSUME NEW j \in 1 .. (n + 1), NEW i \in 0 .. (j - 1)
                 PROVE  g[i] + Grant(t[j], id) <= g[j]
      BY <1>2 DEF Rising
    <2>1. CASE j = n + 1
      <3>1. i \in 0 .. n /\ t[j] = m /\ g[j] = f[n] + w /\ g[i] = f[i]
        BY <1>2, <1>5, <2>1
      <3> QED
        BY <1>3, <1>6, <3>1 DEF w
    <2>2. CASE j # n + 1
      <3>1. j \in 1 .. n /\ i \in 0 .. n /\ j \in 0 .. n /\ t[j] = s[j]
        BY <1>2, <2>2
      <3> QED
        BY <1>4, <1>5, <3>1
    <2> QED
      BY <2>1, <2>2
  <1>8. lo <= g[0] /\ g[Len(t)] <= hi + w
    <2>1. 0 \in 0 .. n
      BY <1>2
    <2> QED
      BY <1>1, <1>2, <1>3, <1>5, <2>1
  <1> QED
    BY <1>5, <1>7, <1>8 DEF Room, w, t

\* Frames that grant nothing take no room.
LEMMA RoomConcat ==
  ASSUME NEW id, NEW lo \in Nat, NEW s \in Seq(BackFrames), NEW hi \in Int, Room(id, lo, s, hi),
         NEW t \in Seq(BackFrames), \A m \in Range(t) : Grant(m, id) = 0
  PROVE  Room(id, lo, s \o t, hi)
  <1>1. PICK f \in [0 .. Len(s) -> Nat] : Rising(f, s, id) /\ lo <= f[0] /\ f[Len(s)] <= hi
    BY DEF Room
  <1> DEFINE n == Len(s)
             k == Len(t)
             u == s \o t
             g == [i \in 0 .. (n + k) |-> IF i <= n THEN f[i] ELSE f[n]]
  <1>2. /\ n \in Nat /\ k \in Nat /\ Len(u) = n + k
        /\ \A i \in 1 .. n : u[i] = s[i] /\ s[i] \in BackFrames
        /\ \A i \in 1 .. (n + k) : i > n => u[i] = t[i - n] /\ i - n \in 1 .. k
    OBVIOUS
  <1>3. \A i \in 1 .. k : Grant(t[i], id) = 0
    BY RangeIn
  <1>4. \A j \in 1 .. n : \A i \in 0 .. (j - 1) : f[i] + Grant(s[j], id) <= f[j]
    BY <1>1 DEF Rising
  <1>5. f[n] \in Nat /\ (\A i \in 0 .. n : f[i] \in Nat) /\ f[n] <= hi
    BY <1>1, <1>2
  <1> HIDE DEF n, k, u
  <1>6. /\ g \in [0 .. Len(u) -> Nat]
        /\ \A i \in 0 .. n : g[i] = f[i]
        /\ \A i \in 0 .. (n + k) : i > n => g[i] = f[n]
    BY <1>2, <1>5
  <1> HIDE DEF g
  <1>7. \A i \in 0 .. n : f[i] <= f[n]
    <2> SUFFICES ASSUME NEW i \in 0 .. n, i # n PROVE f[i] <= f[n]
      BY <1>2, <1>5
    <2>1. n \in 1 .. n /\ i \in 0 .. (n - 1) /\ s[n] \in BackFrames
      BY <1>2
    <2>2. f[i] + Grant(s[n], id) <= f[n]
      BY <1>4, <2>1
    <2>3. Grant(s[n], id) \in Nat /\ f[i] \in Nat /\ f[n] \in Nat
      BY <1>5, <2>1, GrantNat
    <2> QED
      BY <2>2, <2>3
  <1>8. Rising(g, u, id)
    <2> SUFFICES ASSUME NEW j \in 1 .. (n + k), NEW i \in 0 .. (j - 1)
                 PROVE  g[i] + Grant(u[j], id) <= g[j]
      BY <1>2 DEF Rising
    <2>1. CASE j > n
      <3>1. Grant(u[j], id) = 0 /\ j \in 0 .. (n + k) /\ i \in 0 .. (n + k)
        <4>1. u[j] = t[j - n] /\ j - n \in 1 .. k
          BY <1>2, <2>1
        <4>2. Grant(t[j - n], id) = 0
          BY <1>3, <4>1
        <4> QED
          BY <1>2, <4>1, <4>2
      <3>2. g[j] = f[n]
        BY <1>6, <2>1, <3>1
      <3>3. g[i] <= f[n] /\ g[i] \in Nat
        <4>1. CASE i > n
          BY <1>5, <1>6, <3>1, <4>1
        <4>2. CASE ~ (i > n)
          <5>1. i \in 0 .. n
            BY <1>2, <4>2
          <5> QED
            BY <1>5, <1>6, <1>7, <5>1
        <4> QED
          BY <4>1, <4>2
      <3> QED
        BY <1>5, <3>1, <3>2, <3>3
    <2>2. CASE ~ (j > n)
      <3>1. j \in 1 .. n /\ i \in 0 .. n /\ j \in 0 .. n /\ u[j] = s[j]
        BY <1>2, <2>2
      <3> QED
        BY <1>4, <1>6, <3>1
    <2> QED
      BY <2>1, <2>2
  <1>9. lo <= g[0] /\ g[Len(u)] <= hi
    <2>1. 0 \in 0 .. n /\ n + k \in 0 .. (n + k) /\ g[0] = f[0]
      BY <1>2, <1>6
    <2>2. CASE k = 0
      BY <1>1, <1>2, <1>5, <1>6, <2>1, <2>2
    <2>3. CASE k # 0
      BY <1>1, <1>2, <1>5, <1>6, <2>1, <2>3
    <2> QED
      BY <2>2, <2>3
  <1> QED
    BY <1>6, <1>8, <1>9 DEF Room, u

LEMMA RoomFlat ==
  ASSUME NEW id, NEW n \in Nat, NEW s \in Seq(BackFrames), \A m \in Range(s) : Grant(m, id) = 0
  PROVE  Room(id, n, s, n)
  <1> DEFINE f == [i \in 0 .. Len(s) |-> n]
  <1>1. Len(s) \in Nat /\ f \in [0 .. Len(s) -> Nat] /\ \A i \in 0 .. Len(s) : f[i] = n
    OBVIOUS
  <1> HIDE DEF f
  <1>2. Rising(f, s, id)
    <2> SUFFICES ASSUME NEW j \in 1 .. Len(s), NEW i \in 0 .. (j - 1)
                 PROVE  f[i] + Grant(s[j], id) <= f[j]
      BY DEF Rising
    <2>1. Grant(s[j], id) = 0 /\ i \in 0 .. Len(s) /\ j \in 0 .. Len(s)
      BY <1>1, RangeIn
    <2> QED
      BY <1>1, <2>1
  <1>3. 0 \in 0 .. Len(s) /\ Len(s) \in 0 .. Len(s)
    BY <1>1
  <1> QED
    BY <1>1, <1>2, <1>3 DEF Room

-----------------------------------------------------------------------------
(* The chunks in flight. *)

Own(t, m) == m.type = "CHUNK" /\ m.id = t.id /\ m.copy = t.copy

\* Of the chunks emitted those in A have arrived, and each other one is on its way at most once.
InFlight(t, o, A) ==
    /\ A \subseteq 0 .. (t.next_seq - 1)
    /\ \A i \in 1 .. Len(o) :
         Own(t, o[i]) => o[i].seq \in 0 .. (t.next_seq - 1) /\ o[i].seq \notin A
    /\ \A i, j \in 1 .. Len(o) :
         Own(t, o[i]) /\ Own(t, o[j]) /\ o[i].seq = o[j].seq => i = j

\* p is o with some frames gone, the one at k among them, or damaged.
Thinned(p, o, k) ==
    \E g \in [1 .. Len(p) -> 1 .. Len(o)] :
        /\ \A i, j \in 1 .. Len(p) : g[i] = g[j] => i = j
        /\ \A i \in 1 .. Len(p) :
             /\ g[i] # k /\ p[i].type = o[g[i]].type
             /\ p[i].type = "CHUNK" => /\ p[i].id = o[g[i]].id /\ p[i].copy = o[g[i]].copy
                                       /\ p[i].seq = o[g[i]].seq

LEMMA ThinnedFlight ==
  ASSUME NEW t, NEW o, NEW p, NEW k, NEW A, InFlight(t, o, A), Thinned(p, o, k)
  PROVE  /\ InFlight(t, p, A)
         /\ t.next_seq \in Nat /\ k \in 1 .. Len(o) /\ Own(t, o[k]) => InFlight(t, p, A \cup {o[k].seq})
  <1>1. PICK g \in [1 .. Len(p) -> 1 .. Len(o)] :
        /\ \A i, j \in 1 .. Len(p) : g[i] = g[j] => i = j
        /\ \A i \in 1 .. Len(p) :
             /\ g[i] # k /\ p[i].type = o[g[i]].type
             /\ p[i].type = "CHUNK" => /\ p[i].id = o[g[i]].id /\ p[i].copy = o[g[i]].copy
                                       /\ p[i].seq = o[g[i]].seq
    BY DEF Thinned
  <1>2. \A i \in 1 .. Len(p) : /\ g[i] \in 1 .. Len(o)
                               /\ Own(t, p[i]) => Own(t, o[g[i]]) /\ p[i].seq = o[g[i]].seq
    BY <1>1 DEF Own
  <1>3. InFlight(t, p, A)
    <2>1. \A i \in 1 .. Len(p) :
            Own(t, p[i]) => p[i].seq \in 0 .. (t.next_seq - 1) /\ p[i].seq \notin A
      BY <1>2, Zenon DEF InFlight
    <2>2. ASSUME NEW i \in 1 .. Len(p), NEW j \in 1 .. Len(p), Own(t, p[i]), Own(t, p[j]),
                 p[i].seq = p[j].seq
          PROVE  i = j
      <3>1. /\ g[i] \in 1 .. Len(o) /\ Own(t, o[g[i]]) /\ p[i].seq = o[g[i]].seq
            /\ g[j] \in 1 .. Len(o) /\ Own(t, o[g[j]]) /\ p[j].seq = o[g[j]].seq
        BY <1>2, <2>2
      <3>2. g[i] = g[j]
        BY <2>2, <3>1, Zenon DEF InFlight
      <3> QED
        BY <1>1, <3>2, Zenon
    <2> QED
      BY <2>1, <2>2 DEF InFlight
  <1>4. ASSUME t.next_seq \in Nat, k \in 1 .. Len(o), Own(t, o[k])
        PROVE  InFlight(t, p, A \cup {o[k].seq})
    <2>1. \A i \in 1 .. Len(p) : Own(t, p[i]) => p[i].seq # o[k].seq
      BY <1>1, <1>2, <1>4 DEF InFlight
    <2>2. o[k].seq \in 0 .. (t.next_seq - 1)
      BY <1>4 DEF InFlight
    <2> QED
      BY <1>3, <2>1, <2>2 DEF InFlight
  <1> QED
    BY <1>3, <1>4

LEMMA RemoveThins ==
  ASSUME NEW o \in Seq(OutFrames), NEW k \in 1 .. Len(o)
  PROVE  Thinned(RemoveAt(o, k), o, k)
  <1> DEFINE p == RemoveAt(o, k)
             n == Len(o)
             g == [i \in 1 .. (n - 1) |-> IF i < k THEN i ELSE i + 1]
  <1>1. /\ Len(p) = n - 1 /\ n \in Nat /\ k \in 1 .. n
        /\ \A j \in 1 .. (n - 1) : p[j] = IF j < k THEN o[j] ELSE o[j + 1]
    BY RemoveRange
  <1> HIDE DEF p, n
  <1>2. g \in [1 .. Len(p) -> 1 .. n]
    BY <1>1
  <1>3. \A i \in 1 .. (n - 1) : g[i] = (IF i < k THEN i ELSE i + 1) /\ p[i] = o[g[i]]
    BY <1>1
  <1> HIDE DEF g
  <1>4. \A i, j \in 1 .. Len(p) : g[i] = g[j] => i = j
    BY <1>1, <1>3
  <1>5. \A i \in 1 .. Len(p) : g[i] # k /\ p[i] = o[g[i]]
    BY <1>1, <1>3
  <1> QED
    BY <1>2, <1>4, <1>5 DEF Thinned, p, n

LEMMA TailThins ==
  ASSUME NEW o \in Seq(OutFrames), o # <<>>
  PROVE  Thinned(Tail(o), o, 1)
  <1> DEFINE p == Tail(o)
             n == Len(o)
             g == [i \in 1 .. (n - 1) |-> i + 1]
  <1>1. /\ Len(p) = n - 1 /\ n \in Nat
        /\ \A j \in 1 .. (n - 1) : p[j] = o[j + 1]
    OBVIOUS
  <1> HIDE DEF p, n
  <1>2. g \in [1 .. Len(p) -> 1 .. n] /\ \A i \in 1 .. (n - 1) : g[i] = i + 1
    BY <1>1
  <1> HIDE DEF g
  <1>3. \A i, j \in 1 .. Len(p) : g[i] = g[j] => i = j
    BY <1>1, <1>2
  <1>4. \A i \in 1 .. Len(p) : g[i] # 1 /\ p[i] = o[g[i]]
    BY <1>1, <1>2
  <1> QED
    BY <1>2, <1>3, <1>4 DEF Thinned, p, n

LEMMA DamageThins ==
  ASSUME NEW o \in Seq(OutFrames), o # <<>>, Head(o).type = "CHUNK"
  PROVE  Thinned([o EXCEPT ![1].intact = FALSE], o, 0)
  <1> DEFINE p == [o EXCEPT ![1].intact = FALSE]
             g == [i \in 1 .. Len(o) |-> i]
  <1>1. /\ o[1] \in Chunks /\ Len(o) \in Nat /\ 1 \in 1 .. Len(o) /\ DOMAIN o = 1 .. Len(o)
    <2>1. o[1] = Head(o) /\ o[1] \in OutFrames /\ 1 \in 1 .. Len(o)
      BY RangeIn
    <2> QED
      BY <2>1 DEF OutFrames, Offers, Chunks
  <1>2. /\ DOMAIN p = 1 .. Len(o) /\ p[1] = [o[1] EXCEPT !.intact = FALSE]
        /\ \A i \in 1 .. Len(o) : i # 1 => p[i] = o[i]
    BY <1>1
  <1>3. Len(p) = Len(o)
    BY <1>1, <1>2, LenProperties
  <1>4. /\ p[1].type = o[1].type /\ p[1].id = o[1].id /\ p[1].copy = o[1].copy
        /\ p[1].seq = o[1].seq
    BY <1>1, <1>2 DEF Chunks
  <1> HIDE DEF p
  <1>5. g \in [1 .. Len(p) -> 1 .. Len(o)] /\ \A i \in 1 .. Len(o) : g[i] = i
    BY <1>3
  <1> HIDE DEF g
  <1>6. \A i \in 1 .. Len(p) :
          /\ g[i] # 0 /\ p[i].type = o[g[i]].type
          /\ p[i].type = "CHUNK" => /\ p[i].id = o[g[i]].id /\ p[i].copy = o[g[i]].copy
                                    /\ p[i].seq = o[g[i]].seq
    <2> TAKE i \in 1 .. Len(p)
    <2>1. g[i] = i /\ g[i] # 0
      BY <1>3, <1>5
    <2>2. CASE i = 1
      BY <1>4, <2>1, <2>2
    <2>3. CASE i # 1
      <3>1. p[i] = o[i]
        BY <1>2, <1>3, <2>3
      <3> QED
        BY <2>1, <3>1
    <2> QED
      BY <2>2, <2>3
  <1> QED
    BY <1>3, <1>5, <1>6 DEF Thinned, p

LEMMA AddedFlight ==
  ASSUME NEW t, NEW u, t.next_seq \in Nat, u.next_seq \in Nat, t.next_seq <= u.next_seq,
         u.id = t.id, u.copy = t.copy,
         NEW o \in Seq(OutFrames), NEW add \in Seq(OutFrames), NEW A, InFlight(t, o, A),
         \A i \in 1 .. Len(add) : add[i].type = "CHUNK" =>
             add[i].seq = t.next_seq + i - 1 /\ add[i].seq < u.next_seq
  PROVE  InFlight(u, o \o add, A)
  <1> DEFINE p == o \o add
             n == Len(o)
             k == Len(add)
  <1>1. /\ n \in Nat /\ k \in Nat /\ Len(p) = n + k
        /\ \A i \in 1 .. n : p[i] = o[i]
        /\ \A i \in 1 .. (n + k) : i > n => p[i] = add[i - n] /\ i - n \in 1 .. k
    OBVIOUS
  <1>2. \A m : Own(u, m) <=> Own(t, m)
    BY DEF Own
  <1>3. /\ A \subseteq 0 .. (t.next_seq - 1)
        /\ \A i \in 1 .. n :
             Own(t, o[i]) => o[i].seq \in 0 .. (t.next_seq - 1) /\ o[i].seq \notin A
        /\ \A i, j \in 1 .. n :
             Own(t, o[i]) /\ Own(t, o[j]) /\ o[i].seq = o[j].seq => i = j
    BY DEF InFlight
  <1> HIDE DEF p, n, k
  <1>4. \A i \in 1 .. (n + k) : i > n /\ Own(t, p[i]) =>
          /\ p[i].seq = t.next_seq + (i - n) - 1 /\ p[i].seq < u.next_seq
          /\ p[i].seq >= t.next_seq /\ p[i].seq \in Int
    <2> SUFFICES ASSUME NEW i \in 1 .. (n + k), i > n, Own(t, p[i])
                 PROVE  /\ p[i].seq = t.next_seq + (i - n) - 1 /\ p[i].seq < u.next_seq
                        /\ p[i].seq >= t.next_seq /\ p[i].seq \in Int
      OBVIOUS
    <2>1. p[i] = add[i - n] /\ i - n \in 1 .. k /\ p[i].type = "CHUNK"
      BY <1>1 DEF Own
    <2>2. p[i].seq = t.next_seq + (i - n) - 1 /\ p[i].seq < u.next_seq
      BY <2>1 DEF k
    <2> QED
      BY <1>1, <2>1, <2>2
  <1>5. A \subseteq 0 .. (u.next_seq - 1)
    BY <1>3
  <1>6. \A i \in 1 .. (n + k) : ~ (i > n) => i \in 1 .. n /\ p[i] = o[i]
    BY <1>1
  <1>7. \A i \in 1 .. (n + k) :
          Own(t, p[i]) => p[i].seq \in 0 .. (u.next_seq - 1) /\ p[i].seq \notin A
    <2> SUFFICES ASSUME NEW i \in 1 .. (n + k), Own(t, p[i])
                 PROVE  p[i].seq \in 0 .. (u.next_seq - 1) /\ p[i].seq \notin A
      OBVIOUS
    <2>1. CASE i > n
      <3>1. p[i].seq \in 0 .. (u.next_seq - 1) /\ p[i].seq \notin 0 .. (t.next_seq - 1)
        BY <1>4, <2>1
      <3> QED
        BY <1>3, <3>1
    <2>2. CASE ~ (i > n)
      <3>1. p[i].seq \in 0 .. (t.next_seq - 1) /\ p[i].seq \notin A
        BY <1>3, <1>6, <2>2
      <3> QED
        BY <3>1
    <2> QED
      BY <2>1, <2>2
  <1>8. \A i, j \in 1 .. (n + k) : Own(t, p[i]) /\ Own(t, p[j]) /\ p[i].seq = p[j].seq => i = j
    <2> SUFFICES ASSUME NEW i \in 1 .. (n + k), NEW j \in 1 .. (n + k), Own(t, p[i]), Own(t, p[j]),
                        p[i].seq = p[j].seq
                 PROVE  i = j
      OBVIOUS
    <2>1. CASE i > n /\ j > n
      <3>1. t.next_seq + (i - n) - 1 = t.next_seq + (j - n) - 1
        BY <1>4, <2>1
      <3>2. n \in Nat /\ i \in Int /\ j \in Int
        BY <1>1
      <3> QED
        BY <3>1, <3>2
    <2>2. CASE ~ (i > n) /\ ~ (j > n)
      BY <1>3, <1>6, <2>2
    <2>3. CASE i > n /\ ~ (j > n)
      <3>1. p[i].seq >= t.next_seq /\ p[j].seq \in 0 .. (t.next_seq - 1)
        BY <1>3, <1>4, <1>6, <2>3
      <3> QED
        BY <3>1
    <2>4. CASE ~ (i > n) /\ j > n
      <3>1. p[j].seq >= t.next_seq /\ p[i].seq \in 0 .. (t.next_seq - 1)
        BY <1>3, <1>4, <1>6, <2>4
      <3> QED
        BY <3>1
    <2> QED
      BY <2>1, <2>2, <2>3, <2>4
  <1> QED
    BY <1>1, <1>2, <1>5, <1>7, <1>8 DEF InFlight, p

\* So the chunks in flight and those that have arrived are no more than were emitted.
LEMMA FlightCount ==
  ASSUME NEW t, t.next_seq \in Nat, NEW o \in Seq(OutFrames), NEW A, InFlight(t, o, A)
  PROVE  LET mine == {i \in DOMAIN o : Own(t, o[i])}
         IN  /\ IsFiniteSet(A) /\ Cardinality(A) \in Nat /\ Cardinality(mine) \in Nat
             /\ Cardinality(mine) + Cardinality(A) <= t.next_seq
  <1> DEFINE mine == {i \in DOMAIN o : Own(t, o[i])}
             all == 0 .. (t.next_seq - 1)
             f == [i \in mine |-> o[i].seq]
  <1>1. IsFiniteSet(all) /\ Cardinality(all) = t.next_seq
    <2> DEFINE b == t.next_seq - 1
    <2>1. b \in Int /\ 0 \in Int
      OBVIOUS
    <2>2. IsFiniteSet(0 .. b) /\ Cardinality(0 .. b) = IF 0 > b THEN 0 ELSE b - 0 + 1
      BY <2>1, FS_Interval
    <2> QED
      BY <2>2
  <1>2. A \subseteq all /\ IsFiniteSet(A) /\ Cardinality(A) \in Nat
    <2>1. A \in SUBSET all
      BY DEF InFlight
    <2>2. IsFiniteSet(A)
      BY <1>1, <2>1, FS_Subset
    <2> QED
      BY <2>1, <2>2, FS_CardinalityType
  <1>3. IsFiniteSet(all \ A) /\ Cardinality(all \ A) = t.next_seq - Cardinality(A)
    <2>1. all \cap A = A
      BY <1>2
    <2>2. IsFiniteSet(all \ A) /\ Cardinality(all \ A) = Cardinality(all) - Cardinality(all \cap A)
      BY <1>1, FS_Difference
    <2> QED
      BY <1>1, <2>1, <2>2
  <1>4. DOMAIN o = 1 .. Len(o)
    OBVIOUS
  <1>5. f \in [mine -> all \ A]
    BY <1>4 DEF InFlight
  <1>6. \A i, j \in mine : f[i] = f[j] => i = j
    BY <1>4 DEF InFlight
  <1>7. f \in Injection(mine, all \ A)
    BY <1>5, <1>6 DEF Injection, IsInjective
  <1>8. IsFiniteSet(mine) /\ Cardinality(mine) <= Cardinality(all \ A)
    BY <1>3, <1>7, FS_Injection
  <1>9. Cardinality(mine) \in Nat
    BY <1>8, FS_CardinalityType
  <1> HIDE DEF mine, all
  <1>10. Cardinality(mine) + Cardinality(A) <= t.next_seq
    BY <1>2, <1>3, <1>8, <1>9
  <1> QED
    BY <1>2, <1>9, <1>10 DEF mine

-----------------------------------------------------------------------------
(***************************************************************************)
(* A transfer t of which no chunk was asked again, with o and s on the two *)
(* paths and r at the paste side.                                          *)
(***************************************************************************)
Tracks(r, t) == r.seen_offer /\ r.id = t.id
Unpaid(r, t) == IF Tracks(r, t) THEN r.ungranted ELSE 0

\* What has been granted so far is this, or the opening window.
Reached(t) == IF t.streaming /\ t.credits + t.next_seq > WINDOW
              THEN t.credits + t.next_seq ELSE WINDOW

Opened(t, s) ==
    /\ t.retx = <<>> /\ ~ t.recovery_credit_due
    /\ ~ t.streaming \/ ~ t.opening_credit_accepted => t.next_seq = 0
    /\ t.streaming /\ ~ t.opening_credit_accepted => t.credits = 0
    /\ \A m \in Range(s) : m.type = "RETRANSMIT" => m.id # t.id

Balanced(t, o, s, r, A) ==
    /\ InFlight(t, o, A)
    /\ Tracks(r, t) => r.received \subseteq A
    /\ Room(t.id, Reached(t), s, WINDOW + Cardinality(A) - Unpaid(r, t))

Paced(t, o, s, r) == Opened(t, s) /\ \E A : Balanced(t, o, s, r, A)

LEMMA ReachedNat ==
  ASSUME NEW t \in TxRecords
  PROVE  /\ Reached(t) \in Nat /\ WINDOW \in Nat /\ WINDOW <= Reached(t) /\ t.credits \in Nat
         /\ t.next_seq \in Nat
         /\ t.streaming => t.credits + t.next_seq <= Reached(t)
  BY XferAssumption DEF Reached, TxRecords

LEMMA BalanceNat ==
  ASSUME NEW t \in TxRecords, NEW o \in Seq(OutFrames), NEW s, NEW r \in RxRecords, NEW A,
         Balanced(t, o, s, r, A)
  PROVE  /\ IsFiniteSet(A) /\ Cardinality(A) \in Nat /\ Unpaid(r, t) \in Nat
         /\ WINDOW + Cardinality(A) - Unpaid(r, t) \in Int
  <1>1. t.next_seq \in Nat /\ WINDOW \in Nat
    BY ReachedNat
  <1>2. IsFiniteSet(A) /\ Cardinality(A) \in Nat
    BY <1>1, FlightCount DEF Balanced
  <1>3. Unpaid(r, t) \in Nat
    BY DEF Unpaid, RxRecords
  <1> QED
    BY <1>1, <1>2, <1>3

LEMMA PacedTail ==
  ASSUME NEW t \in TxRecords, NEW o \in Seq(OutFrames), NEW s \in Seq(BackFrames), s # <<>>,
         NEW r \in RxRecords, Paced(t, o, s, r)
  PROVE  Paced(t, o, Tail(s), r)
  <1>1. PICK A : Balanced(t, o, s, r, A)
    BY DEF Paced
  <1> DEFINE hi == WINDOW + Cardinality(A) - Unpaid(r, t)
             lo == Reached(t)
  <1>2. hi \in Int /\ lo \in Nat /\ Room(t.id, lo, s, hi)
    BY <1>1, BalanceNat, ReachedNat DEF Balanced
  <1> HIDE DEF hi, lo
  <1>3. Head(s) \in BackFrames /\ Tail(s) \in Seq(BackFrames) /\ Range(Tail(s)) \subseteq Range(s)
    BY TailRange, RangeIn
  <1>4. Grant(Head(s), t.id) \in Nat
    BY <1>3, GrantNat
  <1>5. Room(t.id, lo + Grant(Head(s), t.id), Tail(s), hi)
    BY <1>2, RoomTail
  <1>6. Room(t.id, lo, Tail(s), hi)
    <2>1. lo + Grant(Head(s), t.id) \in Nat /\ lo <= lo + Grant(Head(s), t.id) /\ hi <= hi
      BY <1>2, <1>4
    <2> QED
      BY <1>2, <1>3, <1>5, <2>1, RoomWider
  <1>7. Opened(t, Tail(s))
    BY <1>3 DEF Paced, Opened
  <1> QED
    BY <1>1, <1>6, <1>7 DEF Paced, Balanced, hi, lo

LEMMA PacedStart ==
  ASSUME NEW t \in TxRecords, NEW o \in Seq(OutFrames), NEW s \in Seq(BackFrames),
         NEW r \in RxRecords, Paced(t, o, s, r), ~ t.streaming
  PROVE  Paced(tx_start_streaming(t), o, s, r)
  <1> DEFINE c == Min({t.credits, WINDOW})
             u == [t EXCEPT !.streaming = TRUE, !.need_done = TRUE, !.credits = c,
                            !.opening_credit_accepted = t.credits > 0]
  <1>1. t.credits \in Nat /\ WINDOW \in Nat /\ t.next_seq \in Nat
    BY ReachedNat
  <1>2. c \in Nat /\ c <= WINDOW /\ (t.credits = 0 => c = 0)
    BY <1>1, MinTwo
  <1> HIDE DEF c
  <1>3. /\ u.streaming /\ u.credits = c /\ u.opening_credit_accepted = (t.credits > 0)
        /\ u.id = t.id /\ u.copy = t.copy /\ u.next_seq = t.next_seq /\ u.retx = t.retx
        /\ u.recovery_credit_due = t.recovery_credit_due
    BY DEF TxRecords
  <1>4. tx_start_streaming(t) = u
    BY DEF tx_start_streaming, c
  <1> HIDE DEF u
  <1>5. t.next_seq = 0
    BY DEF Paced, Opened
  <1>6. Reached(u) = WINDOW /\ Reached(t) = WINDOW
    BY <1>1, <1>2, <1>3, <1>5 DEF Reached
  <1>7. Opened(u, s)
    <2>1. ~ u.opening_credit_accepted => u.credits = 0
      <3>1. ~ (t.credits > 0) => c = 0
        BY <1>1, <1>2
      <3> QED
        BY <1>3, <3>1, Zenon
    <2> QED
      BY <1>3, <1>5, <2>1 DEF Paced, Opened
  <1>8. ASSUME NEW A, Balanced(t, o, s, r, A) PROVE Balanced(u, o, s, r, A)
    <2>1. InFlight(u, o, A)
      BY <1>3, <1>8 DEF Balanced, InFlight, Own
    <2>2. (Tracks(r, u) <=> Tracks(r, t)) /\ Unpaid(r, u) = Unpaid(r, t)
      BY <1>3 DEF Tracks, Unpaid
    <2> QED
      BY <1>3, <1>6, <1>8, <2>1, <2>2 DEF Balanced
  <1> QED
    BY <1>4, <1>7, <1>8 DEF Paced

LEMMA PacedCredit ==
  ASSUME NEW t \in TxRecords, NEW o \in Seq(OutFrames), NEW s \in Seq(BackFrames),
         NEW r \in RxRecords, Paced(t, o, s, r),
         s # <<>>, Head(s).type = "CREDIT", Head(s).id = t.id
  PROVE  Paced(credited(t, Head(s).credits), o, Tail(s), r)
  <1> DEFINE n == Head(s).credits
             w == Grant(Head(s), t.id)
             opening == t.streaming /\ n = WINDOW /\ ~ t.recovery_credit_due
             c == IF ~opening THEN t.credits + n
                  ELSE IF t.opening_credit_accepted THEN t.credits
                  ELSE IF t.credits < WINDOW THEN Min({t.credits + n, WINDOW}) ELSE t.credits
             u == credited(t, n)
  <1>1. PICK A : Balanced(t, o, s, r, A)
    BY DEF Paced
  <1> DEFINE hi == WINDOW + Cardinality(A) - Unpaid(r, t)
             lo == Reached(t)
  <1>2. hi \in Int /\ lo \in Nat /\ Room(t.id, lo, s, hi) /\ Cardinality(A) \in Nat
        /\ Unpaid(r, t) \in Nat
    BY <1>1, BalanceNat, ReachedNat DEF Balanced
  <1>3. Head(s) \in BackFrames /\ Tail(s) \in Seq(BackFrames) /\ Range(Tail(s)) \subseteq Range(s)
    BY TailRange, RangeIn
  <1>4. n \in Nat /\ w = (IF n # WINDOW THEN n ELSE 0)
    BY <1>3 DEF Grant, BackFrames
  <1>5. /\ t.credits \in Nat /\ WINDOW \in Nat /\ t.next_seq \in Nat
        /\ t.streaming \in BOOLEAN /\ t.opening_credit_accepted \in BOOLEAN
    BY ReachedNat DEF TxRecords
  <1>6. Room(t.id, lo + w, Tail(s), hi)
    BY <1>2, RoomTail
  <1>7. /\ ~ t.recovery_credit_due
        /\ ~ t.streaming \/ ~ t.opening_credit_accepted => t.next_seq = 0
        /\ t.streaming /\ ~ t.opening_credit_accepted => t.credits = 0
    BY DEF Paced, Opened
  <1>8. /\ u.streaming = t.streaming /\ u.credits = c
        /\ u.opening_credit_accepted = (t.opening_credit_accepted \/ opening)
        /\ u.id = t.id /\ u.copy = t.copy /\ u.next_seq = t.next_seq /\ u.retx = t.retx
        /\ u.recovery_credit_due = FALSE
    BY DEF credited, TxRecords
  <1> HIDE DEF u, n, w
  <1>9. t.streaming /\ ~ t.opening_credit_accepted => w = 0
    <2> SUFFICES ASSUME t.streaming, ~ t.opening_credit_accepted PROVE w = 0
      OBVIOUS
    <2>1. t.next_seq = 0 /\ InFlight(t, o, A)
      BY <1>1, <1>7 DEF Balanced
    <2>2. A \subseteq 0 .. (0 - 1)
      BY <2>1 DEF InFlight
    <2>3. A = {}
      BY <2>2
    <2>4. Cardinality(A) = 0
      BY <2>3, FS_EmptySet
    <2>5. lo = WINDOW
      BY <1>5, <1>7, <2>1 DEF Reached
    <2>6. w \in Nat
      BY <1>4, <1>5
    <2>7. lo + w \in Nat
      BY <1>2, <2>6
    <2> HIDE DEF hi, lo
    <2>8. lo + w <= hi
      BY <1>2, <1>3, <1>6, <2>7, RoomWithin
    <2> QED
      BY <1>2, <1>5, <2>4, <2>5, <2>6, <2>8 DEF hi
  <1>10. c \in Nat /\ (t.streaming => c = t.credits + w \/ (c = WINDOW /\ t.next_seq = 0 /\ w = 0))
    <2>1. CASE ~ opening
      <3>1. c = t.credits + n
        BY <2>1
      <3>2. t.streaming => n # WINDOW
        BY <1>7, <2>1
      <3> QED
        BY <1>4, <1>5, <3>1, <3>2
    <2>2. CASE opening /\ t.opening_credit_accepted
      BY <1>4, <1>5, <2>2
    <2>3. CASE opening /\ ~ t.opening_credit_accepted
      <3>1. t.credits = 0 /\ t.next_seq = 0 /\ n = WINDOW /\ w = 0
        BY <1>4, <1>7, <2>3
      <3>2. c = IF t.credits < WINDOW THEN Min({t.credits + n, WINDOW}) ELSE t.credits
        BY <2>3
      <3>3. Min({WINDOW, WINDOW}) = WINDOW
        BY <1>5, MinTwo
      <3>4. t.credits + n = WINDOW
        BY <1>5, <3>1
      <3>5. c = WINDOW
        BY <1>5, <3>1, <3>2, <3>3, <3>4, XferAssumption
      <3> QED
        BY <1>5, <3>1, <3>5
    <2> QED
      BY <1>5, <2>1, <2>2, <2>3
  <1>11. u.streaming /\ ~ u.opening_credit_accepted => u.credits = 0
    <2> SUFFICES ASSUME t.streaming, ~ t.opening_credit_accepted, ~ opening PROVE c = 0
      BY <1>8
    <2>1. t.credits = 0 /\ w = 0 /\ n # WINDOW
      BY <1>7, <1>9
    <2> QED
      BY <1>4, <1>5, <2>1
  <1> HIDE DEF c, opening
  <1>12. Opened(u, Tail(s))
    <2>1. u.retx = <<>> /\ \A m \in Range(Tail(s)) : m.type = "RETRANSMIT" => m.id # u.id
      BY <1>3, <1>8 DEF Paced, Opened
    <2>2. ~ u.streaming \/ ~ u.opening_credit_accepted => u.next_seq = 0
      BY <1>7, <1>8
    <2> QED
      BY <1>8, <1>11, <2>1, <2>2 DEF Opened
  <1>13. Reached(u) \in Nat /\ Reached(u) <= lo + w
    <2>1. w \in Nat
      BY <1>4, <1>5
    <2>2. CASE ~ t.streaming
      BY <1>5, <1>8, <2>1, <2>2 DEF Reached
    <2>3. CASE t.streaming /\ c = t.credits + w
      BY <1>5, <1>8, <2>1, <2>3 DEF Reached
    <2>4. CASE t.streaming /\ c = WINDOW /\ t.next_seq = 0 /\ w = 0
      BY <1>5, <1>8, <2>1, <2>4 DEF Reached
    <2> QED
      BY <1>5, <1>10, <2>2, <2>3, <2>4
  <1>14. Balanced(u, o, Tail(s), r, A)
    <2>1. InFlight(u, o, A)
      BY <1>1, <1>8 DEF Balanced, InFlight, Own
    <2>2. (Tracks(r, u) <=> Tracks(r, t)) /\ Unpaid(r, u) = Unpaid(r, t)
      BY <1>8 DEF Tracks, Unpaid
    <2>3. w \in Nat /\ lo + w \in Nat /\ hi <= hi
      BY <1>2, <1>4, <1>5
    <2>4. Room(t.id, Reached(u), Tail(s), hi)
      <3> HIDE DEF hi, lo
      <3> QED
        BY <1>2, <1>3, <1>6, <1>13, <2>3, RoomWider
    <2> QED
      BY <1>1, <1>8, <2>1, <2>2, <2>4 DEF Balanced
  <1> QED
    BY <1>12, <1>14 DEF Paced, u, n

\* With nothing asked again the pump takes the next chunks, as many as it has credit for.
LEMMA PumpNext ==
  ASSUME NEW t \in TxRecords, t.retx = <<>>
  PROVE  \E n \in Nat :
           LET p == dh_xfer_pump(t)
           IN  /\ n <= t.credits /\ t.next_seq + n <= NCHUNKS
               /\ n > 0 => t.streaming
               /\ p.tx.id = t.id /\ p.tx.copy = t.copy /\ p.tx.retx = <<>>
               /\ p.tx.next_seq = t.next_seq + n /\ p.tx.credits = t.credits - n
               /\ p.tx.streaming = t.streaming /\ p.tx.recovery_credit_due = t.recovery_credit_due
               /\ p.tx.opening_credit_accepted = t.opening_credit_accepted
               /\ p.seqs \in Seq(Seqs) /\ Len(p.seqs) = n
               /\ \A i \in 1 .. n : p.seqs[i] = t.next_seq + i - 1
  <1> DEFINE fresh == [i \in 1 .. (NCHUNKS - t.next_seq) |-> t.next_seq + i - 1]
             owed == t.retx \o fresh
             n == IF t.active /\ t.streaming
                  THEN Min({t.credits, BATCH_MAX, Len(owed)}) ELSE 0
             again == Min({n, Len(t.retx)})
             seqs == SubSeq(owed, 1, n)
  <1>1. /\ t.next_seq \in 0 .. NCHUNKS /\ NCHUNKS \in Nat /\ BATCH_MAX \in Nat
        /\ t.credits \in Nat /\ t.next_seq \in Nat
    BY XferAssumption DEF TxRecords
  <1>2. fresh \in Seq(Seqs) /\ Len(fresh) = NCHUNKS - t.next_seq
    <2>1. \A i \in 1 .. (NCHUNKS - t.next_seq) : t.next_seq + i - 1 \in Seqs
      BY <1>1 DEF Seqs
    <2> QED
      BY <2>1, <1>1
  <1>3. \A i \in 1 .. (NCHUNKS - t.next_seq) : fresh[i] = t.next_seq + i - 1
    OBVIOUS
  <1> HIDE DEF fresh
  <1>4. owed = fresh
    BY <1>2
  <1> HIDE DEF owed
  <1>5. n \in Nat /\ n <= t.credits /\ n <= NCHUNKS - t.next_seq /\ (n > 0 => t.streaming)
    <2>1. CASE t.active /\ t.streaming
      <3> DEFINE m == Min({t.credits, BATCH_MAX, Len(owed)})
      <3>1. t.credits \in Int /\ BATCH_MAX \in Int /\ Len(owed) \in Int /\ Len(owed) \in Nat
        BY <1>1, <1>2, <1>4
      <3>2. m \in {t.credits, BATCH_MAX, Len(owed)} /\ m <= t.credits /\ m <= Len(owed)
        BY <3>1, MinThree
      <3> HIDE DEF m
      <3>3. n = m
        BY <2>1 DEF m
      <3>4. m \in Nat
        BY <1>1, <3>1, <3>2
      <3> HIDE DEF n
      <3> QED
        BY <2>1, <1>2, <1>4, <3>2, <3>3, <3>4
    <2>2. CASE ~ (t.active /\ t.streaming)
      BY <2>2, <1>1
    <2> QED
      BY <2>1, <2>2
  <1> HIDE DEF n
  <1>6. again = 0
    <2>1. n \in Int /\ Len(t.retx) = 0 /\ 0 \in Int
      BY <1>5
    <2>2. Min({n, 0}) = IF n <= 0 THEN n ELSE 0
      BY <2>1, MinTwo
    <2> QED
      BY <1>5, <2>1, <2>2
  <1> HIDE DEF again
  <1>7. seqs \in Seq(Seqs) /\ Len(seqs) = n /\ \A i \in 1 .. n : seqs[i] = t.next_seq + i - 1
    <2>1. \A j \in 1 .. n : fresh[j] \in Seqs /\ fresh[j] = t.next_seq + j - 1
      <3> TAKE j \in 1 .. n
      <3>1. j \in 1 .. (NCHUNKS - t.next_seq) /\ j \in 1 .. Len(fresh)
        BY <1>1, <1>2, <1>5
      <3> QED
        BY <1>2, <1>3, <3>1
    <2>2. 1 \in Int /\ n \in Int /\ (IF 1 <= n THEN n - 1 + 1 ELSE 0) = n
      BY <1>5
    <2>3. /\ SubSeq(fresh, 1, n) \in Seq(Seqs) /\ Len(SubSeq(fresh, 1, n)) = n
          /\ \A i \in 1 .. (n - 1 + 1) : SubSeq(fresh, 1, n)[i] = fresh[1 + i - 1]
      BY <2>1, <2>2, SubSeqProperties
    <2>4. \A i \in 1 .. n : SubSeq(fresh, 1, n)[i] = fresh[i]
      <3> TAKE i \in 1 .. n
      <3>1. i \in 1 .. (n - 1 + 1) /\ 1 + i - 1 = i
        BY <1>5
      <3> QED
        BY <2>3, <3>1
    <2> QED
      BY <1>4, <2>1, <2>3, <2>4
  <1> HIDE DEF seqs
  <1> DEFINE emitted == [t EXCEPT !.retx = SubSeq(@, again + 1, Len(@)),
                                  !.next_seq = @ + n - again, !.credits = @ - n]
             done == t.active /\ t.streaming /\ t.need_done
                       /\ emitted.retx = <<>> /\ emitted.next_seq >= NCHUNKS
             final == [emitted EXCEPT !.need_done = @ /\ ~ done]
  <1>8. dh_xfer_pump(t) = [tx |-> final, seqs |-> seqs, done |-> done]
    BY DEF dh_xfer_pump, again, n, owed, fresh, seqs
  <1>9. SubSeq(t.retx, again + 1, Len(t.retx)) = <<>>
    <2>1. Len(t.retx) = 0
      OBVIOUS
    <2> QED
      BY <1>6, <2>1
  <1>10. t.next_seq + n - again = t.next_seq + n
    BY <1>1, <1>5, <1>6
  <1>11. /\ emitted.id = t.id /\ emitted.copy = t.copy /\ emitted.retx = <<>>
         /\ emitted.next_seq = t.next_seq + n /\ emitted.credits = t.credits - n
         /\ emitted.streaming = t.streaming
         /\ emitted.recovery_credit_due = t.recovery_credit_due
         /\ emitted.opening_credit_accepted = t.opening_credit_accepted
    BY <1>9, <1>10 DEF TxRecords
  <1> HIDE DEF done
  <1>12. /\ final.id = t.id /\ final.copy = t.copy /\ final.retx = <<>>
         /\ final.next_seq = t.next_seq + n /\ final.credits = t.credits - n
         /\ final.streaming = t.streaming
         /\ final.recovery_credit_due = t.recovery_credit_due
         /\ final.opening_credit_accepted = t.opening_credit_accepted
    <2> HIDE DEF emitted
    <2> QED
      BY <1>11
  <1> HIDE DEF final, emitted
  <1>13. t.next_seq + n <= NCHUNKS
    BY <1>1, <1>5
  <1> QED
    BY <1>5, <1>7, <1>8, <1>12, <1>13

LEMMA PacedPump ==
  ASSUME TypeInv, NEW t \in TxRecords, RingOK(t), Pump(t),
         t.active = tx.active, t.id = tx.id, t.copy = tx.copy,
         NEW s \in Seq(BackFrames), NEW r \in RxRecords, Paced(t, out, s, r)
  PROVE  Paced(tx', out', s, r)
  <1> DEFINE p == dh_xfer_pump(t)
             sealed == [i \in DOMAIN p.seqs |-> Chunk(t, seal_tx, p.seqs[i])]
             a == IF seal_tx.live THEN sealed ELSE <<>>
             d == IF p.done THEN <<Frame("DONE", t.id)>> ELSE <<>>
  <1>1. /\ p.seqs \in Seq(Seqs) /\ p.done \in BOOLEAN
        /\ p.done \/ p.seqs # <<>> => t.active
    BY PumpEffect
  <1>2. t.retx = <<>>
    BY DEF Paced, Opened
  <1>3. PICK n \in Nat :
               /\ n <= t.credits /\ t.next_seq + n <= NCHUNKS
               /\ n > 0 => t.streaming
               /\ p.tx.id = t.id /\ p.tx.copy = t.copy /\ p.tx.retx = <<>>
               /\ p.tx.next_seq = t.next_seq + n /\ p.tx.credits = t.credits - n
               /\ p.tx.streaming = t.streaming /\ p.tx.recovery_credit_due = t.recovery_credit_due
               /\ p.tx.opening_credit_accepted = t.opening_credit_accepted
               /\ p.seqs \in Seq(Seqs) /\ Len(p.seqs) = n
               /\ \A i \in 1 .. n : p.seqs[i] = t.next_seq + i - 1
    BY <1>2, PumpNext
  <1>4. tx' = p.tx /\ out' = out \o a \o d
    BY DEF Pump
  <1> HIDE DEF p
  <1>5. out \in Seq(OutFrames) /\ t.credits \in Nat /\ t.next_seq \in Nat /\ WINDOW \in Nat
    BY ReachedNat DEF TypeInv
  <1>6. t.active => t.id \in Ids /\ t.copy \in Copies /\ t.id \in Nat
    BY XferAssumption DEF TypeInv, CopiesOK, Ids, Copies
  <1>7. seal_tx.id \in Nat /\ seal_tx.key \in Nat
    BY DEF TypeInv, SealsOK
  <1>8. /\ a \in Seq(OutFrames)
        /\ \A i \in 1 .. Len(a) : a[i].seq = t.next_seq + i - 1 /\ a[i].seq < t.next_seq + n
    <2>1. CASE ~ seal_tx.live
      BY <2>1, NoFrame
    <2>2. CASE seal_tx.live
      <3>1. \A i \in DOMAIN p.seqs : t.active /\ p.seqs[i] \in Seqs
        BY <1>1
      <3>2. \A i \in DOMAIN p.seqs : Chunk(t, seal_tx, p.seqs[i]) \in OutFrames
        BY <1>6, <1>7, <3>1 DEF Chunk, OutFrames, Chunks
      <3>3. sealed \in Seq(OutFrames) /\ Len(sealed) = n
        BY <1>3, <3>2
      <3>4. DOMAIN p.seqs = 1 .. n
        BY <1>3
      <3>5. ASSUME NEW i \in 1 .. n
            PROVE  sealed[i].seq = t.next_seq + i - 1 /\ sealed[i].seq < t.next_seq + n
        <4>1. sealed[i].seq = p.seqs[i]
          BY <3>4 DEF Chunk
        <4>2. p.seqs[i] = t.next_seq + i - 1
          BY <1>3
        <4> QED
          BY <1>5, <4>1, <4>2
      <3> HIDE DEF sealed
      <3> QED
        BY <2>2, <3>3, <3>5
    <2> QED
      BY <2>1, <2>2
  <1>9. d \in Seq(OutFrames) /\ \A i \in 1 .. Len(d) : d[i].type # "CHUNK"
    <2>1. CASE p.done
      <3>1. Frame("DONE", t.id) \in OutFrames /\ Frame("DONE", t.id).type = "DONE"
        BY <1>1, <1>6, <2>1 DEF Frame, OutFrames
      <3> QED
        BY <2>1, <3>1
    <2>2. CASE ~ p.done
      BY <2>2, NoFrame
    <2> QED
      BY <2>1, <2>2
  <1> HIDE DEF a, d
  <1> DEFINE u == p.tx
  <1>10. /\ u.id = t.id /\ u.copy = t.copy /\ u.retx = <<>>
         /\ u.next_seq = t.next_seq + n /\ u.credits = t.credits - n
         /\ u.streaming = t.streaming /\ u.recovery_credit_due = t.recovery_credit_due
         /\ u.opening_credit_accepted = t.opening_credit_accepted
         /\ u.next_seq \in Nat /\ t.next_seq <= u.next_seq /\ u.credits \in Nat
         /\ u.credits + u.next_seq = t.credits + t.next_seq
    BY <1>3, <1>5
  <1> HIDE DEF u
  <1>11. ASSUME NEW A, InFlight(t, out, A) PROVE InFlight(u, out', A)
    <2>1. InFlight(u, out \o a, A)
      <3>1. \A i \in 1 .. Len(a) : a[i].type = "CHUNK" =>
              a[i].seq = t.next_seq + i - 1 /\ a[i].seq < u.next_seq
        BY <1>8, <1>10
      <3> QED
        BY <1>5, <1>8, <1>10, <1>11, <3>1, AddedFlight
    <2>2. out \o a \in Seq(OutFrames)
      BY <1>5, <1>8, ConcatRange
    <2>3. \A i \in 1 .. Len(d) : d[i].type = "CHUNK" =>
            d[i].seq = u.next_seq + i - 1 /\ d[i].seq < u.next_seq
      BY <1>9
    <2>4. u.next_seq <= u.next_seq /\ u.next_seq \in Nat
      BY <1>10
    <2>5. InFlight(u, (out \o a) \o d, A)
      BY <1>9, <2>1, <2>2, <2>3, <2>4, AddedFlight
    <2> QED
      BY <1>4, <2>5
  <1>12. Reached(u) = Reached(t)
    BY <1>10 DEF Reached
  <1>13. Opened(u, s)
    <2>1. /\ ~ t.recovery_credit_due
          /\ ~ t.streaming \/ ~ t.opening_credit_accepted => t.next_seq = 0
          /\ t.streaming /\ ~ t.opening_credit_accepted => t.credits = 0
          /\ \A m \in Range(s) : m.type = "RETRANSMIT" => m.id # t.id
      BY DEF Paced, Opened
    <2>2. ~ t.streaming \/ ~ t.opening_credit_accepted => n = 0
      BY <1>3, <1>5, <2>1
    <2>3. ~ u.streaming \/ ~ u.opening_credit_accepted => u.next_seq = 0
      BY <1>5, <1>10, <2>1, <2>2
    <2>4. u.streaming /\ ~ u.opening_credit_accepted => u.credits = 0
      BY <1>5, <1>10, <2>1, <2>2
    <2> QED
      BY <1>10, <2>1, <2>3, <2>4 DEF Opened
  <1>14. (Tracks(r, u) <=> Tracks(r, t)) /\ Unpaid(r, u) = Unpaid(r, t)
    BY <1>10 DEF Tracks, Unpaid
  <1>15. ASSUME NEW A, Balanced(t, out, s, r, A) PROVE Balanced(u, out', s, r, A)
    BY <1>10, <1>11, <1>12, <1>14, <1>15 DEF Balanced
  <1> QED
    BY <1>4, <1>13, <1>15 DEF Paced, u

LEMMA PacedAdded ==
  ASSUME NEW t \in TxRecords, NEW o \in Seq(OutFrames), NEW add \in Seq(OutFrames), NEW s,
         NEW r, Paced(t, o, s, r), \A m \in Range(add) : m.type # "CHUNK"
  PROVE  Paced(t, o \o add, s, r)
  <1>1. t.next_seq \in Nat /\ t.next_seq <= t.next_seq
    BY ReachedNat
  <1>2. \A i \in 1 .. Len(add) : add[i].type = "CHUNK" =>
          add[i].seq = t.next_seq + i - 1 /\ add[i].seq < t.next_seq
    BY RangeIn
  <1>3. ASSUME NEW A, InFlight(t, o, A) PROVE InFlight(t, o \o add, A)
    BY <1>1, <1>2, <1>3, AddedFlight
  <1> QED
    BY <1>3 DEF Paced, Balanced

LEMMA PacedThinned ==
  ASSUME NEW t, NEW o, NEW p, NEW k, Thinned(p, o, k), NEW s, NEW r, Paced(t, o, s, r)
  PROVE  Paced(t, p, s, r)
  BY ThinnedFlight DEF Paced, Balanced

LEMMA PacedAnswered ==
  ASSUME NEW t \in TxRecords, NEW o \in Seq(OutFrames), NEW s \in Seq(BackFrames),
         NEW r \in RxRecords, Paced(t, o, s, r), NEW add \in Seq(BackFrames),
         \A m \in Range(add) : Grant(m, t.id) = 0 /\ (m.type = "RETRANSMIT" => m.id # t.id)
  PROVE  Paced(t, o, s \o add, r)
  <1>1. Range(s \o add) = Range(s) \cup Range(add)
    BY ConcatRange
  <1>2. Opened(t, s \o add)
    BY <1>1 DEF Paced, Opened
  <1>3. ASSUME NEW A, Balanced(t, o, s, r, A) PROVE Balanced(t, o, s \o add, r, A)
    <2> DEFINE hi == WINDOW + Cardinality(A) - Unpaid(r, t)
               lo == Reached(t)
    <2>1. hi \in Int /\ lo \in Nat /\ Room(t.id, lo, s, hi)
      BY <1>3, BalanceNat, ReachedNat DEF Balanced
    <2> HIDE DEF hi, lo
    <2>2. Room(t.id, lo, s \o add, hi)
      BY <2>1, RoomConcat
    <2> QED
      BY <1>3, <2>2 DEF Balanced, hi, lo
  <1> QED
    BY <1>2, <1>3 DEF Paced

\* The receive goes on as it was, begins, or is forgotten.
LEMMA PacedReceiver ==
  ASSUME NEW t \in TxRecords, NEW o \in Seq(OutFrames), NEW s \in Seq(BackFrames),
         NEW r \in RxRecords, Paced(t, o, s, r), NEW q \in RxRecords,
         Tracks(q, t) => \/ q.received = {} /\ q.ungranted = 0
                         \/ Tracks(r, t) /\ q.received = r.received /\ q.ungranted <= r.ungranted
  PROVE  Paced(t, o, s, q)
  <1>1. ASSUME NEW A, Balanced(t, o, s, r, A) PROVE Balanced(t, o, s, q, A)
    <2> DEFINE hi == WINDOW + Cardinality(A) - Unpaid(r, t)
               h == WINDOW + Cardinality(A) - Unpaid(q, t)
               lo == Reached(t)
    <2>1. /\ hi \in Int /\ lo \in Nat /\ Room(t.id, lo, s, hi)
          /\ Unpaid(r, t) \in Nat /\ Cardinality(A) \in Nat /\ WINDOW \in Nat
      BY <1>1, BalanceNat, ReachedNat DEF Balanced
    <2>2. Unpaid(q, t) \in Nat /\ Unpaid(q, t) <= Unpaid(r, t)
      BY <2>1 DEF Unpaid, RxRecords
    <2>3. h \in Int /\ hi <= h
      BY <2>1, <2>2
    <2>4. lo <= lo
      BY <2>1
    <2> HIDE DEF hi, h, lo
    <2>5. Room(t.id, lo, s, h)
      BY <2>1, <2>3, <2>4, RoomWider
    <2>6. Tracks(q, t) => q.received \subseteq A
      BY <1>1 DEF Balanced
    <2> QED
      BY <1>1, <2>5, <2>6 DEF Balanced, h, lo
  <1> QED
    BY <1>1 DEF Paced

\* A chunk of the transfer arrives and is counted.
LEMMA PacedArrived ==
  ASSUME NEW t \in TxRecords, NEW o \in Seq(OutFrames), NEW p \in Seq(OutFrames),
         NEW k \in 1 .. Len(o), Own(t, o[k]), Thinned(p, o, k),
         NEW s \in Seq(BackFrames), NEW r \in RxRecords, Paced(t, o, s, r), Tracks(r, t),
         NEW q \in RxRecords, q.received = r.received \cup {o[k].seq},
         q.ungranted <= r.ungranted + 1
  PROVE  Paced(t, p, s, q) /\ o[k].seq \notin r.received
  <1>1. t.next_seq \in Nat
    BY ReachedNat
  <1>2. ASSUME NEW A, Balanced(t, o, s, r, A)
        PROVE  Balanced(t, p, s, q, A \cup {o[k].seq}) /\ o[k].seq \notin r.received
    <2> DEFINE B == A \cup {o[k].seq}
               hi == WINDOW + Cardinality(A) - Unpaid(r, t)
               h == WINDOW + Cardinality(B) - Unpaid(q, t)
               lo == Reached(t)
    <2>1. /\ hi \in Int /\ lo \in Nat /\ Room(t.id, lo, s, hi) /\ IsFiniteSet(A)
          /\ Unpaid(r, t) \in Nat /\ Cardinality(A) \in Nat /\ WINDOW \in Nat
      BY <1>2, BalanceNat, ReachedNat DEF Balanced
    <2>2. o[k].seq \notin A
      BY <1>2 DEF Balanced, InFlight
    <2>3. Cardinality(B) = Cardinality(A) + 1
      BY <2>1, <2>2, FS_AddElement
    <2>4. InFlight(t, p, B)
      BY <1>1, <1>2, ThinnedFlight DEF Balanced
    <2>5. r.received \subseteq A
      BY <1>2 DEF Balanced
    <2>6. Unpaid(r, t) = r.ungranted /\ Unpaid(q, t) \in Nat /\ Unpaid(q, t) <= r.ungranted + 1
      BY <2>1 DEF Unpaid, RxRecords
    <2> HIDE DEF B
    <2>7. h \in Int /\ hi <= h /\ lo <= lo
      <3> DEFINE c == Cardinality(A)
                 x == Unpaid(r, t)
                 y == Unpaid(q, t)
      <3>1. c \in Nat /\ x \in Nat /\ y \in Nat /\ y <= x + 1 /\ WINDOW \in Nat /\ lo \in Nat
        BY <2>1, <2>6
      <3>2. hi = WINDOW + c - x /\ h = WINDOW + (c + 1) - y
        BY <2>3
      <3> HIDE DEF hi, h, lo, c, x, y
      <3> QED
        BY <3>1, <3>2
    <2> HIDE DEF hi, h, lo
    <2>8. Room(t.id, lo, s, h)
      BY <2>1, <2>7, RoomWider
    <2>9. q.received \subseteq B
      BY <2>5 DEF B
    <2> QED
      BY <2>2, <2>4, <2>5, <2>8, <2>9 DEF Balanced, B, h, lo
  <1> QED
    BY <1>2 DEF Paced

\* The receiver pays for chunks that it has counted.
LEMMA PacedGrant ==
  ASSUME NEW t \in TxRecords, NEW o \in Seq(OutFrames), NEW s \in Seq(BackFrames),
         NEW r \in RxRecords, Paced(t, o, s, r), Tracks(r, t), NEW q \in RxRecords,
         q.received = r.received, NEW m \in BackFrames, m.type = "CREDIT",
         q.ungranted + Grant(m, t.id) <= r.ungranted
  PROVE  Paced(t, o, Append(s, m), q)
  <1>1. Range(Append(s, m)) = Range(s) \cup {m} /\ Append(s, m) \in Seq(BackFrames)
    BY AppendRange
  <1>2. Opened(t, Append(s, m))
    BY <1>1 DEF Paced, Opened
  <1>3. ASSUME NEW A, Balanced(t, o, s, r, A) PROVE Balanced(t, o, Append(s, m), q, A)
    <2> DEFINE hi == WINDOW + Cardinality(A) - Unpaid(r, t)
               h == WINDOW + Cardinality(A) - Unpaid(q, t)
               w == Grant(m, t.id)
               lo == Reached(t)
    <2>1. /\ hi \in Int /\ lo \in Nat /\ Room(t.id, lo, s, hi)
          /\ Unpaid(r, t) \in Nat /\ Cardinality(A) \in Nat /\ WINDOW \in Nat
      BY <1>3, BalanceNat, ReachedNat DEF Balanced
    <2>2. w \in Nat
      BY GrantNat
    <2>3. /\ Unpaid(r, t) = r.ungranted /\ q.ungranted \in Nat /\ Unpaid(q, t) \in Nat
          /\ Unpaid(q, t) <= q.ungranted
      BY DEF Unpaid, RxRecords
    <2>4. h \in Int /\ hi + w \in Int /\ hi + w <= h /\ lo <= lo
      <3> DEFINE c == Cardinality(A)
                 x == Unpaid(r, t)
                 y == Unpaid(q, t)
                 z == q.ungranted
      <3>1. /\ c \in Nat /\ x \in Nat /\ y \in Nat /\ z \in Nat /\ y <= z /\ z + w <= x
            /\ w \in Nat /\ WINDOW \in Nat /\ lo \in Nat
        BY <2>1, <2>2, <2>3
      <3>2. hi = WINDOW + c - x /\ h = WINDOW + c - y
        OBVIOUS
      <3> HIDE DEF hi, h, lo, w, c, x, y, z
      <3> QED
        BY <3>1, <3>2
    <2> HIDE DEF w
    <2> HIDE DEF hi, h, lo
    <2>5. Room(t.id, lo, Append(s, m), hi + w)
      BY <2>1, RoomAppend DEF w
    <2>6. Room(t.id, lo, Append(s, m), h)
      BY <1>1, <2>1, <2>4, <2>5, RoomWider
    <2>7. q.received \subseteq A
      BY <1>3 DEF Balanced
    <2> QED
      BY <1>3, <2>6, <2>7 DEF Balanced, h, lo
  <1> QED
    BY <1>2, <1>3 DEF Paced

-----------------------------------------------------------------------------
(***************************************************************************)
(* An id is used again only when nothing on the paths speaks of it: no     *)
(* chunk of the same copy, and no frame that would pay for one.  A copy is *)
(* offered again under every seal it waits for, so the seals drawn count   *)
(* as well as the copies made.                                             *)
(***************************************************************************)
Few == copies < ID_MOD - 1 /\ seals < ID_MOD - 1

\* For as long as there is a transfer there is a seal, or one is on offer.
SealHeld == tx.active => seal_tx.live \/ seal_tx.offered

\* The parked copy has never been offered.
ParkedUnused ==
    pending # NoCopy =>
        /\ \A x \in Names : x[3] < pending.copy
        /\ tx.active => tx.copy < pending.copy

\* Each seal since a frame of the transfer's copy was sent took the copy one id further at most.
OfferedSince ==
    tx.active => \A x \in Names : x[3] = tx.copy =>
        Steps(x[2], next_id) \in 1 .. (seal_tx.id - x[1] + IF seal_tx.live THEN 1 ELSE 0)

Claims == {m.id : m \in {n \in Range(back) : n.type \in Pay}}

NoClaimAfter(s, q) ==
    \A i, j \in 1 .. Len(s) :
        ~ (i < j /\ s[i].type = "SEAL_ACCEPT" /\ s[i].id = q /\ s[j].type \in Pay)

\* A claim for credit is as old as a receipt: it names an id under the seal, or is ahead of it.
ClaimsBehind ==
    /\ seal_tx.live => \A r \in Claims : r \in Ids /\ Steps(r, next_id) \in 1 .. copies
    /\ seal_tx.offered => NoClaimAfter(back, seal_tx.id)

LEMMA FewBefore ==
  ASSUME TypeInv, CopySideForms \/ PasteSideForms, Few'
  PROVE  Few /\ copies <= copies' /\ seals <= seals'
  <1>1. copies \in Nat /\ seals \in Nat /\ MaxCopies \in Nat /\ ID_MOD \in Nat
    BY Known, XferAssumption
  <1>2. seals' \in {seals, seals + 1}
    BY DEF CopySideForms, PasteSideForms, CopyStep, SealStep, SealLost, CopyOffered, SealAccepted,
           RxStep, RxOffered, SealAnswered, RxLost, PathStep
  <1>3. copies' \in copies .. MaxCopies
    <2>1. CASE CopySideForms
      BY <2>1 DEF CopySideForms, CopyStep, SealStep, SealLost, CopyOffered, SealAccepted, Parked
    <2>2. CASE PasteSideForms
      <3>1. copies' = copies /\ copies \in 0 .. MaxCopies
        BY <2>2 DEF PasteSideForms, RxStep, RxOffered, SealAnswered, RxLost, PathStep, CopySideStays,
                    TypeInv, CopiesOK
      <3> QED
        BY <1>1, <3>1
    <2> QED
      BY <2>1, <2>2
  <1> QED
    BY <1>1, <1>2, <1>3 DEF Few

LEMMA SealHeldStep ==
  ASSUME TypeInv, SealHeld, CopySideForms \/ PasteSideForms
  PROVE  SealHeld'
  <1>1. CASE CopyStep
    BY <1>1 DEF CopyStep, SealHeld
  <1>2. CASE SealStep
    BY <1>2 DEF SealStep, SealHeld
  <1>3. CASE SealLost
    BY <1>3 DEF SealLost, SealHeld
  <1>4. CASE CopyOffered
    BY <1>4 DEF CopyOffered, SealHeld
  <1>5. CASE SealAccepted
    <2>1. seal_tx \in [id : Nat, key : Nat, offered : BOOLEAN, live : BOOLEAN]
      BY DEF TypeInv, SealsOK
    <2> QED
      BY <1>5, <2>1 DEF SealAccepted, SealHeld
  <1>6. CASE PasteSideForms
    <2>1. UNCHANGED <<tx, seal_tx>>
      BY <1>6 DEF PasteSideForms, RxStep, RxOffered, SealAnswered, RxLost, PathStep, CopySideStays
    <2> QED
      BY <2>1 DEF SealHeld
  <1> QED
    BY <1>1, <1>2, <1>3, <1>4, <1>5, <1>6 DEF CopySideForms

\* What the copy side's frames say when the transfer goes on.
LEMMA SentNames ==
  ASSUME TypeInv, NEW add, Sent(add)
  PROVE  \A x \in Names' : \/ x \in Names
                           \/ /\ seal_tx.live /\ tx.active
                              /\ x[1] = seal_tx.id /\ x[2] = tx.id /\ x[3] = tx.copy
  <1>1. Range(out') \subseteq Range(out) \cup Range(add)
    BY SentRange
  <1>2. \A m \in Range(add) : Sealed(m) => OfTransfer(m)
    BY DEF Sent, Sealed
  <1>3. \A x \in Names' : \/ x \in Names
                          \/ \E m \in Range(add) : Sealed(m) /\ x = <<m.seal, m.id, m.copy>>
    BY <1>1, OutSays
  <1> QED
    BY <1>2, <1>3 DEF OfTransfer

\* A frame that is not sealed says nothing.
LEMMA SealStepNames ==
  ASSUME TypeInv, SealStep
  PROVE  Names' \subseteq Names
  <1> DEFINE f == Frame("SEAL_OFFER", seals + 1)
  <1>1. f \in OutFrames /\ ~ Sealed(f) /\ out \in Seq(OutFrames)
    BY DEF TypeInv, SealsOK, Frame, OutFrames, Sealed
  <1>2. out' = Append(out, f)
    BY DEF SealStep
  <1> HIDE DEF f
  <1>3. Range(out') \subseteq Range(out) \cup {f}
    BY <1>1, <1>2, AppendRange
  <1> QED
    BY <1>1, <1>3, OutGains

LEMMA ParkedStep ==
  ASSUME TypeInv, ParkedUnused, CopySideForms \/ PasteSideForms
  PROVE  ParkedUnused'
  <1>1. copies \in Nat /\ (tx.active => tx.copy \in 1 .. copies)
    BY Known
  <1>2. \A x \in Names : x[3] \in 1 .. copies
    BY NamesTyped
  <1>3. ASSUME \A x \in Names' : x \in Names \/ (tx.active /\ x[3] = tx.copy),
               tx'.active => tx.active /\ tx'.copy = tx.copy,
               \/ pending' \in {pending, NoCopy}
               \/ pending'.copy = copies + 1
        PROVE  ParkedUnused'
    <2>1. CASE pending' = pending
      BY <1>3, <2>1 DEF ParkedUnused
    <2>2. CASE pending' = NoCopy
      BY <2>2 DEF ParkedUnused
    <2>3. CASE pending'.copy = copies + 1
      <3>1. \A x \in Names' : x[3] \in 1 .. copies
        BY <1>1, <1>2, <1>3
      <3> QED
        BY <1>1, <1>3, <2>3, <3>1 DEF ParkedUnused
    <2> QED
      BY <1>3, <2>1, <2>2, <2>3
  <1>4. CASE CopyStep
    <2>1. PICK add : Sent(add)
      BY <1>4 DEF CopyStep
    <2>2. \A x \in Names' : x \in Names \/ (tx.active /\ x[3] = tx.copy)
      BY <2>1, SentNames
    <2> QED
      BY <1>3, <1>4, <2>2 DEF CopyStep, Parked
  <1>5. CASE SealStep
    BY <1>3, <1>5, SealStepNames DEF SealStep, Parked
  <1>6. CASE SealLost
    <2>1. Names' \subseteq Names
      BY <1>6 DEF SealLost, Names
    <2> QED
      BY <1>3, <1>6, <2>1 DEF SealLost, Parked
  <1>7. CASE CopyOffered \/ SealAccepted
    BY <1>7 DEF CopyOffered, SealAccepted, NewOffer, ParkedUnused
  <1>8. CASE PasteSideForms
    <2>1. UNCHANGED <<tx, pending>>
      BY <1>8 DEF PasteSideForms, RxStep, RxOffered, SealAnswered, RxLost, PathStep, CopySideStays
    <2> QED
      BY <1>3, <1>8, <2>1, PathShrinks
  <1> QED
    BY <1>4, <1>5, <1>6, <1>7, <1>8 DEF CopySideForms

LEMMA OfferedSinceStep ==
  ASSUME TypeInv, TypeInv', NameInv, Few, Few', ParkedUnused, OfferedSince,
         CopySideForms \/ PasteSideForms
  PROVE  OfferedSince'
  <1> SUFFICES ASSUME tx'.active, NEW x \in Names', x[3] = tx'.copy
               PROVE  Steps(x[2], next_id') \in
                        1 .. (seal_tx'.id - x[1] + IF seal_tx'.live THEN 1 ELSE 0)
    BY DEF OfferedSince, Steps
  <1>1. /\ copies \in Nat /\ seals \in Nat /\ ID_MOD \in Nat /\ next_id \in Ids
        /\ seal_tx.id \in 0 .. seals /\ TxNamed
        /\ copies < ID_MOD - 1 /\ seals < ID_MOD - 1
    BY Known DEF NameInv, Few
  <1>2. \A y \in Names : y[1] \in 1 .. seals /\ y[2] \in Ids /\ y[3] \in 1 .. copies
    BY NamesTyped
  <1>3. tx.active => \A y \in Names : y[3] = tx.copy =>
          Steps(y[2], next_id) \in 1 .. (seal_tx.id - y[1] + IF seal_tx.live THEN 1 ELSE 0)
    BY DEF OfferedSince
  <1>4. CASE CopyStep
    <2>1. PICK add : Sent(add)
      BY <1>4 DEF CopyStep
    <2>2. tx.active /\ tx'.copy = tx.copy /\ UNCHANGED <<next_id, seal_tx>>
      BY <1>4 DEF CopyStep
    <2>3. CASE x \in Names
      BY <1>3, <2>2, <2>3
    <2>4. CASE x \notin Names
      <3>1. seal_tx.live /\ x[1] = seal_tx.id /\ x[2] = tx.id
        BY <2>1, <2>4, SentNames
      <3>2. Steps(tx.id, next_id) = 1
        BY <1>1, <2>2 DEF TxNamed
      <3> QED
        BY <1>1, <2>2, <3>1, <3>2
    <2> QED
      BY <2>3, <2>4
  <1>5. CASE SealStep
    <2>1. /\ tx' = tx /\ next_id' = next_id /\ seal_tx'.id = seals + 1 /\ ~ seal_tx'.live
      BY <1>5 DEF SealStep, dh_seal_tx_init
    <2>2. x \in Names
      BY <1>5, SealStepNames
    <2>3. Steps(x[2], next_id) \in 1 .. (seal_tx.id - x[1] + IF seal_tx.live THEN 1 ELSE 0)
      BY <1>3, <2>1, <2>2
    <2>4. x[1] \in 1 .. seals
      BY <1>2, <2>2
    <2> QED
      BY <1>1, <2>1, <2>3, <2>4
  <1>6. CASE SealLost
    BY <1>6 DEF SealLost
  <1>7. ASSUME NewOffer(seal_tx.id), seal_tx'.id = seal_tx.id, seal_tx'.live,
               x \in Names => ~ seal_tx.live /\ tx.active /\ tx.copy = x[3]
        PROVE  Steps(x[2], next_id') \in
                 1 .. (seal_tx'.id - x[1] + IF seal_tx'.live THEN 1 ELSE 0)
    <2>1. next_id' = Succ(next_id)
      BY <1>7 DEF NewOffer
    <2>2. CASE x \in Names
      <3>1. Steps(x[2], next_id) \in 1 .. (seal_tx.id - x[1]) /\ x[1] \in 1 .. seals /\ x[2] \in Ids
        BY <1>1, <1>2, <1>3, <1>7, <2>2
      <3>2. Steps(x[2], next_id) < ID_MOD - 2
        BY <1>1, <3>1
      <3>3. Steps(x[2], Succ(next_id)) = Steps(x[2], next_id) + 1
        BY <1>1, <3>1, <3>2, StepsOfIds
      <3> QED
        BY <1>1, <1>7, <2>1, <3>1, <3>3
    <2>3. CASE x \notin Names
      <3>1. x[1] = seal_tx.id /\ x[2] = next_id
        BY <1>7, <2>3, NewOfferSays
      <3>2. tx'.copy \in 1 .. copies' /\ copies' < ID_MOD - 1 /\ copies' \in Int
        BY <1>7 DEF NewOffer, Few, TypeInv, CopiesOK
      <3> QED
        BY <1>1, <1>7, <2>1, <3>1, <3>2, StepsOfIds
    <2> QED
      BY <2>2, <2>3
  <1>8. CASE CopyOffered
    <2>1. NewOffer(seal_tx.id) /\ seal_tx' = seal_tx /\ seal_tx.live /\ tx'.copy = copies + 1
      BY <1>8 DEF CopyOffered
    <2>2. x \notin Names
      BY <1>1, <1>2, <2>1
    <2> QED
      BY <1>7, <2>1, <2>2
  <1>9. CASE SealAccepted
    <2>1. seal_tx \in [id : Nat, key : Nat, offered : BOOLEAN, live : BOOLEAN]
      BY DEF TypeInv, SealsOK
    <2>2. /\ seal_tx.offered /\ ~ seal_tx.live /\ seal_tx'.id = seal_tx.id /\ seal_tx'.live
      BY <1>9, <2>1, Known DEF SealAccepted
    <2>3. CASE UNCHANGED <<tx, next_id, out>>
      <3>1. x \in Names
        BY <2>3 DEF Names, Sealed
      <3>2. Steps(x[2], next_id) \in 1 .. (seal_tx.id - x[1]) /\ x[1] \in 1 .. seals
        BY <1>1, <1>2, <1>3, <2>2, <2>3, <3>1
      <3> QED
        BY <1>1, <2>2, <2>3, <3>2
    <2>4. CASE NewOffer(seal_tx.id) /\ pending # NoCopy /\ tx'.copy = pending.copy
      <3>1. x \notin Names
        <4>1. pending.copy \in Int
          BY DEF TypeInv, CopiesOK
        <4> QED
          BY <1>2, <2>4, <4>1 DEF ParkedUnused
      <3> QED
        BY <1>7, <2>2, <2>4, <3>1
    <2>5. CASE NewOffer(seal_tx.id) /\ tx.active /\ tx'.copy = tx.copy
      BY <1>7, <2>2, <2>5
    <2> QED
      BY <1>9, <2>3, <2>4, <2>5 DEF SealAccepted
  <1>10. CASE PasteSideForms
    <2>1. UNCHANGED <<tx, next_id, seal_tx>>
      BY <1>10 DEF PasteSideForms, RxStep, RxOffered, SealAnswered, RxLost, PathStep, CopySideStays
    <2> QED
      BY <1>3, <1>10, <2>1, PathShrinks
  <1> QED
    BY <1>4, <1>5, <1>6, <1>8, <1>9, <1>10 DEF CopySideForms

LEMMA ClaimsTail ==
  ASSUME NEW s \in Seq(BackFrames), NEW q, NoClaimAfter(s, q), s # <<>>
  PROVE  /\ NoClaimAfter(Tail(s), q)
         /\ Head(s).type = "SEAL_ACCEPT" /\ Head(s).id = q
              => \A m \in Range(Tail(s)) : m.type \notin Pay
  <1> DEFINE u == Tail(s)
  <1>1. /\ u \in Seq(BackFrames) /\ Len(u) = Len(s) - 1 /\ Len(s) \in Nat
        /\ \A j \in 1 .. Len(s) - 1 : u[j] = s[j + 1]
    BY TailRange
  <1>2. Head(s) = s[1] /\ 1 \in 1 .. Len(s)
    OBVIOUS
  <1> HIDE DEF u
  <1>3. \A a \in 1 .. Len(u) : u[a] = s[a + 1] /\ a + 1 \in 1 .. Len(s) /\ 1 < a + 1
    BY <1>1
  <1>4. NoClaimAfter(u, q)
    <2> SUFFICES ASSUME NEW a \in 1 .. Len(u), NEW b \in 1 .. Len(u), a < b
                 PROVE  ~ (u[a].type = "SEAL_ACCEPT" /\ u[a].id = q /\ u[b].type \in Pay)
      BY DEF NoClaimAfter
    <2>1. a + 1 < b + 1 /\ a + 1 \in 1 .. Len(s) /\ b + 1 \in 1 .. Len(s)
      BY <1>1
    <2> QED
      BY <1>3, <2>1 DEF NoClaimAfter
  <1>5. ASSUME Head(s).type = "SEAL_ACCEPT", Head(s).id = q, NEW a \in 1 .. Len(u)
        PROVE  u[a].type \notin Pay
    BY <1>2, <1>3, <1>5 DEF NoClaimAfter
  <1>6. DOMAIN u = 1 .. Len(u)
    BY <1>1
  <1> QED
    BY <1>4, <1>5, <1>6 DEF u, Range

LEMMA ClaimsConcat ==
  ASSUME NEW s \in Seq(BackFrames), NEW t \in Seq(BackFrames), NEW q, NoClaimAfter(s, q),
         \/ \A m \in Range(t) : m.type \notin Pay
         \/ /\ \A m \in Range(s) : ~ (m.type = "SEAL_ACCEPT" /\ m.id = q)
            /\ \A m \in Range(t) : m.type # "SEAL_ACCEPT"
  PROVE  NoClaimAfter(s \o t, q)
  <1> DEFINE u == s \o t
  <1>1. /\ Len(u) = Len(s) + Len(t) /\ Len(s) \in Nat /\ Len(t) \in Nat
        /\ \A i \in 1 .. Len(s) + Len(t) : u[i] = IF i <= Len(s) THEN s[i] ELSE t[i - Len(s)]
    BY ConcatRange
  <1>2. \A i \in 1 .. Len(s) + Len(t) : ~ (i <= Len(s)) => i - Len(s) \in 1 .. Len(t)
    BY <1>1
  <1> HIDE DEF u
  <1>3. \A i \in 1 .. Len(u) : \/ i \in 1 .. Len(s) /\ u[i] = s[i] /\ u[i] \in Range(s)
                               \/ i > Len(s) /\ u[i] \in Range(t)
    BY <1>1, <1>2, RangeIn
  <1> SUFFICES ASSUME NEW a \in 1 .. Len(u), NEW b \in 1 .. Len(u), a < b,
                      u[a].type = "SEAL_ACCEPT", u[a].id = q, u[b].type \in Pay
               PROVE  FALSE
    BY DEF NoClaimAfter, u
  <1>4. CASE \A m \in Range(t) : m.type \notin Pay
    <2>1. b \in 1 .. Len(s) /\ u[b] = s[b]
      BY <1>3, <1>4
    <2>2. a \in 1 .. Len(s) /\ u[a] = s[a]
      BY <1>1, <1>3, <2>1
    <2> QED
      BY <2>1, <2>2 DEF NoClaimAfter
  <1>5. CASE /\ \A m \in Range(s) : ~ (m.type = "SEAL_ACCEPT" /\ m.id = q)
             /\ \A m \in Range(t) : m.type # "SEAL_ACCEPT"
    BY <1>3, <1>5
  <1> QED
    BY <1>4, <1>5

LEMMA ClaimsConsumed ==
  ASSUME TypeInv, Consumed
  PROVE  Claims' \subseteq Claims /\ \A q : NoClaimAfter(back, q) => NoClaimAfter(back', q)
  <1>1. Range(back') \subseteq Range(back)
    BY ConsumedRange
  <1>2. Claims' \subseteq Claims
    BY <1>1, Zenon DEF Claims
  <1>3. back \in Seq(BackFrames)
    BY DEF TypeInv
  <1> QED
    BY <1>2, <1>3, ClaimsTail DEF Consumed

LEMMA ClaimsOfCopySide ==
  ASSUME TypeInv, TypeInv', NameInv, Few, Few', ClaimsBehind, CopySideForms
  PROVE  ClaimsBehind'
  <1>1. /\ copies \in Nat /\ copies' \in Nat /\ ID_MOD \in Nat /\ next_id \in Ids
        /\ copies < ID_MOD - 1 /\ copies' < ID_MOD - 1 /\ copies <= copies' /\ seals \in Nat
    BY Known, FewBefore DEF Few, TypeInv, CopiesOK
  <1>2. ASSUME UNCHANGED <<next_id, seal_tx>>, Consumed PROVE ClaimsBehind'
    <2>1. Claims' \subseteq Claims /\ (NoClaimAfter(back, seal_tx.id) => NoClaimAfter(back', seal_tx.id))
      BY <1>2, ClaimsConsumed
    <2>2. ASSUME seal_tx.live, NEW r \in Claims' PROVE r \in Ids /\ Steps(r, next_id) \in 1 .. copies'
      <3>1. r \in Ids /\ Steps(r, next_id) \in 1 .. copies
        BY <2>1, <2>2 DEF ClaimsBehind
      <3> QED
        BY <1>1, <3>1
    <2> QED
      BY <1>2, <2>1, <2>2 DEF ClaimsBehind, Steps, NoClaimAfter
  <1>3. CASE CopyStep
    BY <1>2, <1>3 DEF CopyStep
  <1>4. CASE SealStep
    <2>1. seal_tx'.id = seals + 1 /\ ~ seal_tx'.live /\ Consumed
      BY <1>4 DEF SealStep, dh_seal_tx_init
    <2>2. NoClaimAfter(back', seals + 1)
      <3>1. \A i \in 1 .. Len(back) : back[i].type = "SEAL_ACCEPT" => back[i].id # seals + 1
        <4>1. \A m \in Range(back) : m.type = "SEAL_ACCEPT" => m.id \in 1 .. seals
          BY DEF TypeInv, BackOK
        <4>2. back \in Seq(BackFrames)
          BY DEF TypeInv
        <4> QED
          BY <1>1, <4>1, <4>2, RangeIn
      <3>2. NoClaimAfter(back, seals + 1)
        BY <3>1 DEF NoClaimAfter
      <3> QED
        BY <2>1, <3>2, ClaimsConsumed
    <2> QED
      BY <2>1, <2>2 DEF ClaimsBehind, NoClaimAfter
  <1>5. CASE SealLost
    BY <1>5 DEF SealLost, ClaimsBehind, dh_seal_tx_init
  <1>6. CASE CopyOffered
    <2>1. /\ seal_tx.live /\ seal_tx' = seal_tx /\ back' = back /\ next_id' = Succ(next_id)
          /\ copies' = copies + 1
      BY <1>6 DEF CopyOffered, NewOffer
    <2>2. ~ seal_tx.offered
      BY <2>1, Known
    <2>3. ASSUME NEW r \in Claims PROVE r \in Ids /\ Steps(r, Succ(next_id)) \in 1 .. copies + 1
      <3>1. Steps(r, next_id) \in 1 .. copies /\ r \in Ids
        BY <2>1, <2>3 DEF ClaimsBehind
      <3>2. Steps(r, next_id) < ID_MOD - 2
        BY <1>1, <2>1, <3>1
      <3> QED
        BY <1>1, <3>1, <3>2, StepsOfIds
    <2>4. Claims' = Claims
      BY <2>1 DEF Claims
    <2> QED
      BY <2>1, <2>2, <2>3, <2>4 DEF ClaimsBehind, Steps
  <1>7. CASE SealAccepted
    <2>1. seal_tx \in [id : Nat, key : Nat, offered : BOOLEAN, live : BOOLEAN]
      BY DEF TypeInv, SealsOK
    <2>2. /\ seal_tx.offered /\ ~ seal_tx'.offered /\ back # <<>> /\ back' = Tail(back)
          /\ Head(back).type = "SEAL_ACCEPT" /\ Head(back).id = seal_tx.id
          /\ back \in Seq(BackFrames)
      BY <1>7, <2>1 DEF SealAccepted, TypeInv
    <2>3. \A m \in Range(back') : m.type \notin Pay
      BY <2>2, ClaimsTail DEF ClaimsBehind
    <2>4. Claims' = {}
      BY <2>3, Zenon DEF Claims
    <2> QED
      BY <2>2, <2>4 DEF ClaimsBehind
  <1> QED
    BY <1>3, <1>4, <1>5, <1>6, <1>7 DEF CopySideForms

\* The paste side claims credit for the offer it has, which is under the live seal or an older one.
LEMMA ClaimsAnswered ==
  ASSUME TypeInv, TypeInv', NameInv', Few', ClaimsBehind, NEW add, Answers(add),
         UNCHANGED <<next_id, seal_tx, copies>>
  PROVE  ClaimsBehind'
  <1>1. /\ RxNamed' /\ Unused' /\ Ascending' /\ Agreed'
    BY DEF NameInv, Few
  <1>2. /\ copies' \in Nat /\ (rx'.seen_offer => rx'.id \in Ids /\ rx'.copy \in 1 .. copies')
    BY XferAssumption DEF TypeInv, CopiesOK
  <1>3. /\ add \in Seq(BackFrames) /\ back \in Seq(BackFrames) /\ back' = back \o add
        /\ Range(back') = Range(back) \cup Range(add)
        /\ \A f \in Range(add) : f.type \in Pay => rx'.seen_offer /\ f.id = rx'.id
        /\ \A f \in Range(add) : f.type # "SEAL_ACCEPT"
    BY AnswersRange DEF TypeInv, Answers, Plain
  <1>4. ASSUME rx'.seen_offer, seal_tx.live
        PROVE  rx'.id \in Ids /\ Steps(rx'.id, next_id) \in 1 .. copies
    <2>1. seal_rx'.id \in {0, seal_tx.id} /\ seal_rx'.id > 0
      BY <1>1, <1>4 DEF Agreed, RxNamed
    <2>2. seal_rx'.id = seal_tx'.id /\ seal_tx'.live
      BY <1>4, <2>1
    <2>3. Steps(rx'.id, next_id) \in 1 .. (copies' - rx'.copy + 1)
      BY <1>1, <1>4, <2>2 DEF Ascending, Steps
    <2> QED
      BY <1>2, <1>4, <2>3
  <1>5. ASSUME seal_tx.live, NEW r \in Claims' PROVE r \in Ids /\ Steps(r, next_id) \in 1 .. copies
    <2>1. PICK m \in Range(back') : m.type \in Pay /\ r = m.id
      BY <1>5, Zenon DEF Claims
    <2>2. CASE m \in Range(back)
      <3>1. r \in Claims
        BY <2>1, <2>2, Zenon DEF Claims
      <3> QED
        BY <1>5, <3>1 DEF ClaimsBehind
    <2>3. CASE m \in Range(add)
      BY <1>3, <1>4, <1>5, <2>1, <2>3
    <2> QED
      BY <1>3, <2>1, <2>2, <2>3
  <1>6. ASSUME seal_tx.offered PROVE NoClaimAfter(back', seal_tx.id)
    <2>0. NoClaimAfter(back, seal_tx.id)
      BY <1>6 DEF ClaimsBehind
    <2>1. CASE seal_tx.id \in Accepts /\ rx'.seen_offer
      <3>1. ~ seal_tx'.live
        BY <1>6 DEF TypeInv, SealsOK
      <3>2. seal_tx'.id \in Accepts'
        BY <1>3, <2>1 DEF Accepts
      <3>3. seal_rx'.id \in {0, seal_tx'.id} /\ seal_rx'.id > 0
        BY <1>1, <2>1, <3>2 DEF Agreed, RxNamed
      <3>4. seal_rx'.id # seal_tx'.id
        BY <1>1, <2>1, <3>1 DEF Unused
      <3> QED
        BY <3>3, <3>4
    <2>2. CASE ~ rx'.seen_offer
      <3>1. \A f \in Range(add) : f.type \notin Pay
        BY <1>3, <2>2
      <3> QED
        BY <1>3, <2>0, <3>1, ClaimsConcat
    <2>3. CASE seal_tx.id \notin Accepts
      <3>1. \A m \in Range(back) : ~ (m.type = "SEAL_ACCEPT" /\ m.id = seal_tx.id)
        BY <2>3 DEF Accepts
      <3> QED
        BY <1>3, <2>0, <3>1, ClaimsConcat
    <2> QED
      BY <2>1, <2>2, <2>3
  <1> QED
    BY <1>5, <1>6 DEF ClaimsBehind, Steps, NoClaimAfter

LEMMA ClaimsOfPasteSide ==
  ASSUME TypeInv, TypeInv', NameInv', Few', ClaimsBehind, PasteSideForms
  PROVE  ClaimsBehind'
  <1>1. UNCHANGED <<next_id, seal_tx, copies>> /\ back \in Seq(BackFrames)
    BY DEF PasteSideForms, RxStep, RxOffered, SealAnswered, RxLost, PathStep, CopySideStays, TypeInv
  <1>2. CASE RxStep \/ RxOffered
    BY <1>1, <1>2, ClaimsAnswered DEF RxStep, RxOffered
  <1>3. ASSUME NEW f \in BackFrames, f.type \notin Pay, back' = Append(back, f)
        PROVE  ClaimsBehind'
    <2>1. <<f>> \in Seq(BackFrames) /\ Range(<<f>>) = {f} /\ back' = back \o <<f>>
      BY <1>1, <1>3, OneFrame, AppendIsConcat
    <2>2. \A m \in Range(<<f>>) : m.type \notin Pay
      BY <1>3, <2>1
    <2>3. \A q : NoClaimAfter(back, q) => NoClaimAfter(back', q)
      BY <1>1, <2>1, <2>2, ClaimsConcat
    <2>4. Range(back') = Range(back) \cup {f}
      BY <1>1, <1>3, AppendRange
    <2>5. Claims' \subseteq Claims
      BY <1>3, <2>4, Zenon DEF Claims
    <2> QED
      BY <1>1, <2>3, <2>5 DEF ClaimsBehind, Steps, NoClaimAfter
  <1>4. CASE Consumed
    <2>1. Claims' \subseteq Claims /\ \A q : NoClaimAfter(back, q) => NoClaimAfter(back', q)
      BY <1>4, ClaimsConsumed
    <2> QED
      BY <1>1, <2>1 DEF ClaimsBehind, Steps, NoClaimAfter
  <1>5. CASE SealAnswered
    <2>1. PICK i \in 1 .. Len(out) :
                 /\ out[i].type = "SEAL_OFFER"
                 /\ \/ back' = Append(back, SealAccept(out[i].id, seal_rx.key))
                    \/ back' = Append(back, SealAccept(out[i].id, seals + 1))
      BY <1>5 DEF SealAnswered
    <2>2. out[i] \in OutFrames /\ seal_rx.key \in Nat /\ seals + 1 \in Nat
      BY DEF TypeInv, SealsOK
    <2>3. out[i].id \in Nat
      BY <2>1, <2>2 DEF OutFrames, Offers, Chunks
    <2>4. \A k \in Nat : SealAccept(out[i].id, k) \in BackFrames /\ SealAccept(out[i].id, k).type \notin Pay
      BY <2>3 DEF SealAccept, BackFrames, Pay
    <2> QED
      BY <1>3, <2>1, <2>2, <2>4
  <1>6. CASE RxLost
    BY <1>4, <1>6 DEF RxLost, Consumed
  <1>7. CASE PathStep
    <2>1. \/ Consumed
          \/ \E f \in BackFrames : f.type = "CANCEL" /\ back' = Append(back, f)
      BY <1>7 DEF PathStep, Consumed
    <2>2. "CANCEL" \notin Pay
      BY DEF Pay
    <2> QED
      BY <1>3, <1>4, <2>1, <2>2
  <1> QED
    BY <1>2, <1>5, <1>6, <1>7 DEF PasteSideForms

-----------------------------------------------------------------------------
(* The transfer stays paced until one of its chunks is asked for again. *)

Burst == tx.active /\ <<tx.copy, tx.id>> \notin asked => Paced(tx, out, back, rx)

\* A new offer starts with the opening window and nothing on the paths.
LEMMA PacedAtFirst ==
  ASSUME NEW t \in TxRecords, Untouched(t), NEW o \in Seq(OutFrames), NEW s \in Seq(BackFrames),
         NEW r \in RxRecords, ~ Tracks(r, t), \A m \in Range(o) : ~ Own(t, m),
         \A m \in Range(s) : m.type \in Pay => m.id # t.id
  PROVE  Paced(t, o, s, r)
  <1>1. /\ ~ t.streaming /\ t.next_seq = 0 /\ t.retx = <<>> /\ ~ t.recovery_credit_due
        /\ WINDOW \in Nat
    BY XferAssumption DEF Untouched
  <1>2. Opened(t, s)
    BY <1>1 DEF Opened, Pay
  <1>3. InFlight(t, o, {})
    <2>1. \A i \in 1 .. Len(o) : ~ Own(t, o[i])
      BY RangeIn
    <2> QED
      BY <2>1 DEF InFlight
  <1>4. Reached(t) = WINDOW /\ Unpaid(r, t) = 0 /\ Cardinality({}) = 0
    BY <1>1, FS_EmptySet DEF Reached, Unpaid
  <1>5. \A m \in Range(s) : Grant(m, t.id) = 0
    BY DEF Grant, Pay
  <1>6. Room(t.id, WINDOW, s, WINDOW)
    BY <1>1, <1>5, RoomFlat
  <1>7. WINDOW + Cardinality({}) - Unpaid(r, t) = WINDOW
    BY <1>1, <1>4
  <1> QED
    BY <1>2, <1>3, <1>4, <1>6, <1>7 DEF Paced, Balanced

LEMMA BurstByOffer ==
  ASSUME TypeInv, TypeInv', NewOffer(seal_tx.id), rx' = rx,
         \A x \in Names : x[3] = tx'.copy => x[2] # next_id,
         \A m \in Range(back') : m.type \in Pay => m.id # next_id,
         rx.seen_offer => rx.id # next_id
  PROVE  Burst'
  <1>1. /\ tx' \in TxRecords /\ Untouched(tx') /\ tx'.id = next_id
        /\ out' \in Seq(OutFrames) /\ back' \in Seq(BackFrames) /\ rx' \in RxRecords
        /\ out \in Seq(OutFrames)
    BY DEF NewOffer, TypeInv, RxOK
  <1>2. ~ Tracks(rx', tx')
    BY <1>1 DEF Tracks
  <1>3. ASSUME NEW m \in Range(out') PROVE ~ Own(tx', m)
    <2>1. CASE m \in Range(out) /\ m.type = "CHUNK"
      <3> DEFINE x == <<m.seal, m.id, m.copy>>
      <3>1. x \in Names
        BY <2>1, NamedFrame DEF Sealed
      <3>2. x[2] = m.id /\ x[3] = m.copy
        OBVIOUS
      <3> HIDE DEF x
      <3> QED
        BY <1>1, <3>1, <3>2 DEF Own
    <2>2. CASE m.type # "CHUNK"
      BY <2>2 DEF Own
    <2>3. m \in Range(out) \/ m.type # "CHUNK"
      <3>1. ASSUME NEW f \in Offers, out' = Append(out, f) PROVE m \in Range(out) \/ m.type # "CHUNK"
        <4>1. f \in OutFrames /\ f.type # "CHUNK"
          BY DEF OutFrames, Offers
        <4>2. Range(out') = Range(out) \cup {f}
          BY <1>1, <3>1, <4>1, AppendRange
        <4> QED
          BY <1>3, <4>1, <4>2
      <3> QED
        BY <1>3, <3>1 DEF NewOffer
    <2> QED
      BY <2>1, <2>2, <2>3
  <1>4. Paced(tx', out', back', rx')
    BY <1>1, <1>2, <1>3, PacedAtFirst
  <1> QED
    BY <1>4 DEF Burst

LEMMA BurstByNewCopy ==
  ASSUME TypeInv, TypeInv', NameInv, Few, ClaimsBehind, CopyOffered
  PROVE  Burst'
  <1>1. /\ seal_tx.live /\ NewOffer(seal_tx.id) /\ tx'.copy = copies + 1
        /\ rx' = rx /\ back' = back
    BY DEF CopyOffered, PasteSideStays
  <1>2. /\ RxNamed /\ Ascending /\ Agreed /\ copies \in Nat /\ next_id \in Ids
    BY Known DEF NameInv, Few
  <1>3. \A x \in Names : x[3] # tx'.copy
    BY <1>1, <1>2, NamesTyped
  <1>4. Steps(next_id, next_id) = 0
    BY <1>2, StepsOfIds
  <1>5. ASSUME NEW m \in Range(back'), m.type \in Pay PROVE m.id # next_id
    <2>1. m.id \in Claims
      BY <1>1, <1>5, Zenon DEF Claims
    <2>2. Steps(m.id, next_id) \in 1 .. copies
      BY <1>1, <2>1 DEF ClaimsBehind
    <2> QED
      BY <1>2, <1>4, <2>2
  <1>6. ASSUME rx.seen_offer PROVE rx.id # next_id
    <2>1. seal_rx.id = seal_tx.id
      BY <1>1, <1>2, <1>6 DEF Agreed, RxNamed
    <2>2. Steps(rx.id, next_id) \in 1 .. (copies - rx.copy + 1)
      BY <1>1, <1>2, <1>6, <2>1 DEF Ascending
    <2>3. rx.copy \in 1 .. copies
      BY <1>6, Known
    <2> QED
      BY <1>2, <1>4, <2>2, <2>3
  <1> QED
    BY <1>1, <1>3, <1>5, <1>6, BurstByOffer

LEMMA BurstByAccept ==
  ASSUME TypeInv, TypeInv', NameInv, Few, ParkedUnused, OfferedSince, ClaimsBehind, SealAccepted,
         NewOffer(seal_tx.id),
         (pending # NoCopy /\ tx'.copy = pending.copy) \/ (tx.active /\ tx'.copy = tx.copy)
  PROVE  Burst'
  <1>1. /\ seal_tx.offered /\ back # <<>> /\ back' = Tail(back) /\ rx' = rx
        /\ Head(back).type = "SEAL_ACCEPT" /\ Head(back).id = seal_tx.id
        /\ back \in Seq(BackFrames)
    BY DEF SealAccepted, PasteSideStays, TypeInv
  <1>2. /\ RxNamed /\ Unused /\ Agreed /\ copies \in Nat /\ next_id \in Ids
        /\ ~ seal_tx.live /\ seal_tx.id \in 0 .. seals /\ seals \in Nat
    BY <1>1, Known DEF NameInv, Few
  <1>3. ASSUME NEW x \in Names, x[3] = tx'.copy PROVE x[2] # next_id
    <2>1. CASE pending # NoCopy /\ tx'.copy = pending.copy
      <3>1. pending.copy \in Int
        BY DEF TypeInv, CopiesOK
      <3> QED
        BY <1>3, <2>1, <3>1 DEF ParkedUnused
    <2>2. CASE tx.active /\ tx'.copy = tx.copy
      <3>1. Steps(x[2], next_id) \in 1 .. (seal_tx.id - x[1] + 0) /\ x[1] \in 1 .. seals
        BY <1>2, <1>3, <2>2, NamesTyped DEF OfferedSince
      <3>2. Steps(next_id, next_id) = 0
        BY <1>2, StepsOfIds
      <3> QED
        BY <1>2, <3>1, <3>2
    <2> QED
      BY <2>1, <2>2
  <1>4. \A m \in Range(back') : m.type \in Pay => m.id # next_id
    BY <1>1, ClaimsTail DEF ClaimsBehind
  <1>5. ~ rx.seen_offer
    <2>1. seal_tx.id \in Accepts
      <3>1. Head(back) \in Range(back)
        BY <1>1, RangeIn
      <3> QED
        BY <1>1, <3>1 DEF Accepts
    <2> QED
      BY <1>2, <2>1 DEF Agreed, RxNamed, Unused
  <1> QED
    BY <1>1, <1>3, <1>4, <1>5, BurstByOffer

\* Nothing happens to the transfer, and what is sent besides is no chunk.
LEMMA BurstSteady ==
  ASSUME TypeInv, Burst, tx' = tx, rx' = rx, asked \subseteq asked', Consumed,
         NEW add \in Seq(OutFrames), out' = out \o add, \A m \in Range(add) : m.type # "CHUNK"
  PROVE  Burst'
  <1> SUFFICES ASSUME tx.active, <<tx.copy, tx.id>> \notin asked
               PROVE  Paced(tx, out', back', rx)
    BY DEF Burst
  <1>1. /\ tx \in TxRecords /\ out \in Seq(OutFrames) /\ back \in Seq(BackFrames)
        /\ rx \in RxRecords
    BY DEF TypeInv, RxOK
  <1>2. Paced(tx, out, back, rx)
    BY DEF Burst
  <1>3. Paced(tx, out, back', rx)
    BY <1>1, <1>2, PacedTail DEF Consumed
  <1> QED
    BY <1>1, <1>3, PacedAdded

LEMMA BurstSilent ==
  ASSUME TypeInv, Burst, tx' = tx, rx' = rx, asked \subseteq asked', Consumed, out' = out
  PROVE  Burst'
  <1> DEFINE none == <<>>
  <1>1. none \in Seq(OutFrames) /\ Range(none) = {} /\ out' = out \o none
    BY NoFrame DEF TypeInv
  <1> HIDE DEF none
  <1> QED
    BY <1>1, BurstSteady

LEMMA BurstOneSent ==
  ASSUME TypeInv, Burst, tx' = tx, rx' = rx, asked \subseteq asked', Consumed,
         NEW f \in OutFrames, f.type # "CHUNK", out' = Append(out, f) \/ out' = out \o <<f>>
  PROVE  Burst'
  <1>1. <<f>> \in Seq(OutFrames) /\ Range(<<f>>) = {f} /\ out \in Seq(OutFrames)
    BY OneFrame DEF TypeInv
  <1>2. out' = out \o <<f>>
    BY <1>1, AppendIsConcat
  <1>3. \A m \in Range(<<f>>) : m.type # "CHUNK"
    BY <1>1
  <1> QED
    BY <1>1, <1>2, <1>3, BurstSteady

LEMMA BurstPumped ==
  ASSUME TypeInv, NEW t \in TxRecords, RingOK(t), Pump(t),
         t.active = tx.active, t.id = tx.id, t.copy = tx.copy, rx' = rx, asked \subseteq asked',
         back # <<>>, back' = Tail(back),
         tx.active /\ <<tx.copy, tx.id>> \notin asked => Paced(t, out, back', rx)
  PROVE  Burst'
  <1>1. tx'.active => tx.active /\ tx'.id = tx.id /\ tx'.copy = tx.copy
    BY PumpStep
  <1>2. rx \in RxRecords /\ back' \in Seq(BackFrames)
    BY TailRange DEF TypeInv, RxOK
  <1>3. Paced(t, out, back', rx) => Paced(tx', out', back', rx)
    BY <1>2, PacedPump
  <1> QED
    BY <1>1, <1>3 DEF Burst

LEMMA BurstByRequest ==
  ASSUME TypeInv, Burst, dh_xfer_handle_request
  PROVE  Burst'
  <1>1. /\ back # <<>> /\ back' = Tail(back) /\ rx' = rx /\ asked' = asked
    BY DEF dh_xfer_handle_request, FromBack, far
  <1>2. /\ tx \in TxRecords /\ RingOK(tx) /\ out \in Seq(OutFrames) /\ back \in Seq(BackFrames)
        /\ rx \in RxRecords /\ back' \in Seq(BackFrames)
    BY <1>1, TailRange DEF TypeInv, RxOK
  <1>3. tx.active /\ <<tx.copy, tx.id>> \notin asked => Paced(tx, out, back', rx)
    BY <1>1, <1>2, PacedTail DEF Burst
  <1>4. CASE Pump(tx_start_streaming(tx)) /\ ~ tx.streaming
    <2> DEFINE t == tx_start_streaming(tx)
    <2>1. /\ t \in TxRecords /\ RingOK(t)
          /\ t.active = tx.active /\ t.id = tx.id /\ t.copy = tx.copy
      BY StreamingOK
    <2>2. tx.active /\ <<tx.copy, tx.id>> \notin asked => Paced(t, out, back', rx)
      BY <1>2, <1>3, <1>4, PacedStart
    <2>3. Pump(t)
      BY <1>4
    <2> HIDE DEF t
    <2> QED
      BY <1>1, <2>1, <2>2, <2>3, BurstPumped
  <1>5. CASE Pump(tx)
    BY <1>1, <1>2, <1>3, <1>5, BurstPumped
  <1>6. CASE tx' = tx_reset
    BY <1>6, ResetOK DEF Burst
  <1> QED
    BY <1>4, <1>5, <1>6 DEF dh_xfer_handle_request

LEMMA BurstByRetransmit ==
  ASSUME TypeInv, Burst, dh_xfer_handle_retransmit
  PROVE  Burst'
  <1> DEFINE m == Head(back)
             ring == IF m.seq < tx.next_seq THEN tx_queue_retransmit(tx.retx, m.seq) ELSE tx.retx
             t == [tx EXCEPT !.recovery_credit_due = TRUE, !.need_done = TRUE, !.retx = ring]
  <1>1. /\ back # <<>> /\ back' = Tail(back) /\ rx' = rx /\ asked' = asked
        /\ m.type = "RETRANSMIT" /\ CopyStep
    BY RetransmitSteps DEF dh_xfer_handle_retransmit, FromBack, far, history
  <1>2. /\ tx \in TxRecords /\ RingOK(tx) /\ out \in Seq(OutFrames) /\ back \in Seq(BackFrames)
        /\ rx \in RxRecords /\ m \in Range(back)
    BY <1>1, RangeIn DEF TypeInv, RxOK
  <1>3. Pump(IF Mine(m) THEN t ELSE tx)
    BY DEF dh_xfer_handle_retransmit
  <1> HIDE DEF t, m
  <1>4. CASE Mine(m)
    <2>1. ASSUME tx.active, <<tx.copy, tx.id>> \notin asked PROVE FALSE
      <3>1. \A f \in Range(back) : f.type = "RETRANSMIT" => f.id # tx.id
        BY <2>1 DEF Burst, Paced, Opened
      <3> QED
        BY <1>1, <1>2, <1>4, <3>1 DEF Mine
    <2>2. tx'.active => tx.active /\ tx'.id = tx.id /\ tx'.copy = tx.copy
      BY <1>1 DEF CopyStep
    <2> QED
      BY <1>1, <2>1, <2>2 DEF Burst
  <1>5. CASE ~ Mine(m)
    <2>1. Pump(tx)
      BY <1>3, <1>5
    <2>2. tx.active /\ <<tx.copy, tx.id>> \notin asked => Paced(tx, out, back', rx)
      BY <1>1, <1>2, PacedTail DEF Burst
    <2> QED
      BY <1>1, <1>2, <2>1, <2>2, BurstPumped
  <1> QED
    BY <1>4, <1>5

LEMMA BurstByCredit ==
  ASSUME TypeInv, Burst, dh_xfer_handle_credit
  PROVE  Burst'
  <1> DEFINE m == Head(back)
             t == credited(tx, m.credits)
  <1>1. /\ back # <<>> /\ back' = Tail(back) /\ rx' = rx /\ asked' = asked /\ m.type = "CREDIT"
    BY DEF dh_xfer_handle_credit, FromBack, far, history
  <1>2. /\ tx \in TxRecords /\ RingOK(tx) /\ out \in Seq(OutFrames) /\ back \in Seq(BackFrames)
        /\ rx \in RxRecords /\ m \in BackFrames
    BY <1>1 DEF TypeInv, RxOK
  <1>3. Pump(IF Mine(m) THEN t ELSE tx)
    BY DEF dh_xfer_handle_credit
  <1>4. m.credits \in Nat
    BY <1>1, <1>2 DEF BackFrames
  <1>5. t \in TxRecords /\ RingOK(t) /\ t.active = tx.active /\ t.id = tx.id /\ t.copy = tx.copy
    BY <1>4, CreditedOK
  <1>6. CASE Mine(m)
    <2>1. ASSUME tx.active, <<tx.copy, tx.id>> \notin asked PROVE Paced(t, out, back', rx)
      <3>1. m.id = tx.id /\ Paced(tx, out, back, rx)
        BY <1>6, <2>1 DEF Mine, Burst
      <3> QED
        BY <1>1, <1>2, <3>1, PacedCredit
    <2>2. Pump(t)
      BY <1>3, <1>6
    <2> HIDE DEF t, m
    <2> QED
      BY <1>1, <1>5, <2>1, <2>2, BurstPumped
  <1>7. CASE ~ Mine(m)
    <2>1. Pump(tx)
      BY <1>3, <1>7
    <2>2. tx.active /\ <<tx.copy, tx.id>> \notin asked => Paced(tx, out, back', rx)
      BY <1>1, <1>2, PacedTail DEF Burst
    <2> QED
      BY <1>1, <1>2, <2>1, <2>2, BurstPumped
  <1> QED
    BY <1>6, <1>7

LEMMA BurstByEnding ==
  ASSUME TypeInv, Burst,
         dh_xfer_handle_received \/ CancelAtCopySide \/ dh_xfer_cancel_tx \/ dh_xfer_expire_tx
           \/ DropParked
  PROVE  Burst'
  <1>1. /\ tx' = tx_reset \/ (tx' = tx /\ out' = out)
        /\ rx' = rx /\ asked' = asked
    BY DEF dh_xfer_handle_received, CancelAtCopySide, dh_xfer_cancel_tx, dh_xfer_expire_tx,
           DropParked, far, path
  <1>2. Consumed
    BY EndingSteps DEF CopyStep
  <1>3. CASE tx' = tx_reset
    BY <1>3, ResetOK DEF Burst
  <1>4. CASE tx' = tx /\ out' = out
    BY <1>1, <1>2, <1>4, BurstSilent
  <1> QED
    BY <1>1, <1>3, <1>4

LEMMA BurstByRetry ==
  ASSUME TypeInv, Burst, RetryOffer \/ RetryDone \/ (RetrySeal /\ seal_tx.offered)
  PROVE  Burst'
  <1>1. UNCHANGED <<tx, rx, back, asked>> /\ Consumed
    BY DEF RetryOffer, RetryDone, RetrySeal, side, far, history, Consumed
  <1>2. tx.kind \in Kinds /\ seal_tx.id \in Nat /\ seal_tx.key \in Nat
    BY DEF TypeInv, TxRecords, SealsOK
  <1>3. CASE RetryOffer /\ seal_tx.live
    <2>1. tx.active /\ out' = out \o <<Offer(tx, seal_tx)>>
      BY <1>3 DEF RetryOffer, sealed_offer, dh_xfer_tx_awaiting_request
    <2>2. tx.id \in Ids /\ tx.copy \in Copies
      BY <2>1, XferAssumption DEF TypeInv, CopiesOK, Copies
    <2>3. Offer(tx, seal_tx) \in OutFrames /\ Offer(tx, seal_tx).type # "CHUNK"
      BY <1>2, <2>2 DEF Offer, OutFrames, Offers
    <2> QED
      BY <1>1, <2>1, <2>3, BurstOneSent
  <1>4. CASE RetryOffer /\ ~ seal_tx.live
    <2>1. out' = out
      BY <1>4 DEF RetryOffer, sealed_offer, TypeInv
    <2> QED
      BY <1>1, <2>1, BurstSilent
  <1>5. CASE RetryDone
    <2>1. tx.active /\ out' = Append(out, Frame("DONE", tx.id))
      BY <1>5 DEF RetryDone, dh_xfer_tx_awaiting_receipt
    <2>2. Frame("DONE", tx.id) \in OutFrames /\ Frame("DONE", tx.id).type # "CHUNK"
      BY <2>1, XferAssumption DEF TypeInv, CopiesOK, Frame, OutFrames, Ids
    <2> QED
      BY <1>1, <2>1, <2>2, BurstOneSent
  <1>6. CASE RetrySeal /\ seal_tx.offered
    <2>1. out' = Append(out, Frame("SEAL_OFFER", seal_tx.id))
      BY <1>6 DEF RetrySeal
    <2>2. /\ Frame("SEAL_OFFER", seal_tx.id) \in OutFrames
          /\ Frame("SEAL_OFFER", seal_tx.id).type # "CHUNK"
      BY <1>2 DEF Frame, OutFrames
    <2> QED
      BY <1>1, <2>1, <2>2, BurstOneSent
  <1> QED
    BY <1>3, <1>4, <1>5, <1>6

LEMMA BurstBySeal ==
  ASSUME TypeInv, Burst, SealStep \/ SealLost, asked' = asked
  PROVE  Burst'
  <1>1. CASE SealStep
    <2>1. /\ tx' = tx /\ rx' = rx /\ Consumed /\ out' = Append(out, Frame("SEAL_OFFER", seals + 1))
      BY <1>1 DEF SealStep, PasteSideStays
    <2>2. /\ Frame("SEAL_OFFER", seals + 1) \in OutFrames
          /\ Frame("SEAL_OFFER", seals + 1).type # "CHUNK"
      BY DEF TypeInv, SealsOK, Frame, OutFrames
    <2> QED
      BY <2>1, <2>2, BurstOneSent
  <1>2. CASE SealLost
    BY <1>2 DEF SealLost, Burst
  <1> QED
    BY <1>1, <1>2

LEMMA BurstByAnswer ==
  ASSUME TypeInv, TypeInv', NameInv, Few, ParkedUnused, OfferedSince, ClaimsBehind, Burst,
         on_seal_accepted
  PROVE  Burst'
  <1>1. /\ Consumed /\ asked' = asked /\ rx' = rx
    BY DEF on_seal_accepted, FromBack, Consumed, far
  <1>2. CASE seal_tx.offered /\ Head(back).id = seal_tx.id
    <2>1. SealAccepted
      BY <1>2, AcceptedSteps
    <2>2. CASE UNCHANGED <<tx, next_id, out>>
      BY <1>1, <2>2, BurstSilent
    <2>3. CASE ~ UNCHANGED <<tx, next_id, out>>
      <3>1. /\ NewOffer(seal_tx.id)
            /\ \/ pending # NoCopy /\ tx'.copy = pending.copy
               \/ tx.active /\ tx'.copy = tx.copy
        BY <2>1, <2>3 DEF SealAccepted
      <3> QED
        BY <2>1, <3>1, BurstByAccept
    <2> QED
      BY <2>2, <2>3
  <1>3. CASE ~ (seal_tx.offered /\ Head(back).id = seal_tx.id)
    <2>1. tx' = tx /\ out' = out
      BY <1>3 DEF on_seal_accepted, side
    <2> QED
      BY <1>1, <2>1, BurstSilent
  <1> QED
    BY <1>2, <1>3

LEMMA BurstByStale ==
  ASSUME TypeInv, Burst, on_seal_stale
  PROVE  Burst'
  <1>1. tx' = tx /\ rx' = rx /\ asked' = asked /\ Consumed
    BY DEF on_seal_stale, far, history, FromBack, Consumed
  <1>2. CASE (seal_tx.live \/ seal_tx.offered) /\ Head(back).id = seal_tx.id
    BY <1>1, <1>2, StaleSteps, BurstBySeal
  <1>3. CASE ~ ((seal_tx.live \/ seal_tx.offered) /\ Head(back).id = seal_tx.id)
    <2>1. out' = out
      BY <1>3 DEF on_seal_stale
    <2> QED
      BY <1>1, <2>1, BurstSilent
  <1> QED
    BY <1>2, <1>3

LEMMA BurstByCopy ==
  ASSUME TypeInv, TypeInv', NameInv, Few, ClaimsBehind, Burst, NEW kind \in CopyKinds, Copy(kind)
  PROVE  Burst'
  <1>1. asked' = asked /\ rx' = rx /\ back' = back
    BY DEF Copy, far
  <1>2. CASE seal_tx.live
    BY <1>2, OfferedSteps, BurstByNewCopy
  <1>3. CASE ~ seal_tx.live /\ seal_tx.offered
    <2>1. tx' = tx /\ out' = out
      BY <1>3 DEF Copy, offer_seal
    <2> QED
      BY <1>1, <2>1, BurstSilent DEF Consumed
  <1>4. CASE ~ seal_tx.live /\ ~ seal_tx.offered
    BY <1>1, <1>4, SealSteps, BurstBySeal
  <1> QED
    BY <1>2, <1>3, <1>4

\* Frames that do not pay for a chunk of t, nor ask for one.
Idle(add, t) ==
    \A f \in Range(add) : Grant(f, t.id) = 0 /\ (f.type = "RETRANSMIT" => f.id # t.id)

Fewer == out' = out \/ \E k \in 0 .. Len(out) : Thinned(out', out, k)

LEMMA TakenFewer ==
  ASSUME TypeInv, out' = out \/ \E i \in 1 .. Len(out) : Taken(i)
  PROVE  Fewer
  <1>1. ASSUME NEW i \in 1 .. Len(out), Taken(i) PROVE Fewer
    <2>1. Thinned(out', out, i)
      BY <1>1, RemoveThins DEF Taken, TypeInv
    <2>2. i \in 0 .. Len(out)
      BY DEF TypeInv
    <2> QED
      BY <2>1, <2>2 DEF Fewer
  <1> QED
    BY <1>1 DEF Fewer

\* The paste side answers, and its receive goes on as it was, begins, or is forgotten.
LEMMA BurstAnswered ==
  ASSUME TypeInv, TypeInv', Burst, tx' = tx, asked \subseteq asked', Fewer,
         NEW add \in Seq(BackFrames), back' = back \o add, Idle(add, tx),
         Tracks(rx', tx) => \/ rx'.received = {} /\ rx'.ungranted = 0
                            \/ /\ Tracks(rx, tx) /\ rx'.received = rx.received
                               /\ rx'.ungranted = rx.ungranted
  PROVE  Burst'
  <1> SUFFICES ASSUME tx.active, <<tx.copy, tx.id>> \notin asked
               PROVE  Paced(tx, out', back', rx')
    BY DEF Burst
  <1>1. /\ tx \in TxRecords /\ out \in Seq(OutFrames) /\ out' \in Seq(OutFrames)
        /\ back \in Seq(BackFrames) /\ rx \in RxRecords /\ rx' \in RxRecords
        /\ back' \in Seq(BackFrames)
    BY DEF TypeInv, RxOK
  <1>2. Paced(tx, out, back, rx)
    BY DEF Burst
  <1>3. Paced(tx, out', back, rx)
    BY <1>2, PacedThinned DEF Fewer
  <1>4. Paced(tx, out', back', rx)
    BY <1>1, <1>3, PacedAnswered DEF Idle
  <1>5. rx.ungranted <= rx.ungranted
    BY <1>1 DEF RxRecords
  <1>6. Tracks(rx', tx) => \/ rx'.received = {} /\ rx'.ungranted = 0
                           \/ /\ Tracks(rx, tx) /\ rx'.received = rx.received
                              /\ rx'.ungranted <= rx.ungranted
    BY <1>5
  <1> QED
    BY <1>1, <1>4, <1>6, PacedReceiver

LEMMA BurstUnanswered ==
  ASSUME TypeInv, TypeInv', Burst, tx' = tx, asked \subseteq asked', Fewer, back' = back,
         Tracks(rx', tx) => \/ rx'.received = {} /\ rx'.ungranted = 0
                            \/ /\ Tracks(rx, tx) /\ rx'.received = rx.received
                               /\ rx'.ungranted = rx.ungranted
  PROVE  Burst'
  <1> DEFINE none == <<>>
  <1>1. none \in Seq(BackFrames) /\ Range(none) = {} /\ back' = back \o none
    BY NoFrame DEF TypeInv
  <1> HIDE DEF none
  <1>2. Idle(none, tx)
    BY <1>1 DEF Idle
  <1> QED
    BY <1>1, <1>2, BurstAnswered

LEMMA BurstOneAnswer ==
  ASSUME TypeInv, TypeInv', Burst, tx' = tx, asked \subseteq asked', Fewer,
         NEW f \in BackFrames, f.type \notin Pay, back' = Append(back, f),
         Tracks(rx', tx) => \/ rx'.received = {} /\ rx'.ungranted = 0
                            \/ /\ Tracks(rx, tx) /\ rx'.received = rx.received
                               /\ rx'.ungranted = rx.ungranted
  PROVE  Burst'
  <1>1. <<f>> \in Seq(BackFrames) /\ Range(<<f>>) = {f} /\ back' = back \o <<f>>
    BY OneFrame, AppendIsConcat DEF TypeInv
  <1>2. Idle(<<f>>, tx)
    BY <1>1 DEF Idle, Grant, Pay
  <1> QED
    BY <1>1, <1>2, BurstAnswered

LEMMA BurstBySealOffer ==
  ASSUME TypeInv, TypeInv', Burst, NEW i \in {1, 2}, Arrives(i), on_seal_offered(out[i])
  PROVE  Burst'
  <1>1. tx' = tx /\ asked' = asked /\ out[i].type = "SEAL_OFFER"
    BY DEF on_seal_offered, side, history
  <1>2. Fewer /\ out[i] \in OutFrames
    <2>1. i \in 1 .. Len(out) /\ Taken(i) /\ out[i] \in OutFrames
      BY ArrivesTakes
    <2> QED
      BY <2>1, TakenFewer
  <1>3. out[i].id \in Nat /\ seal_rx.key \in Nat /\ seals + 1 \in Nat
    <2>1. seal_rx.key \in Nat /\ seals + 1 \in Nat
      BY DEF TypeInv, SealsOK
    <2>2. out[i].id \in Nat
      BY <1>1, <1>2 DEF OutFrames, Offers, Chunks
    <2> QED
      BY <2>1, <2>2
  <1>4. \A k \in Nat : SealAccept(out[i].id, k) \in BackFrames /\ SealAccept(out[i].id, k).type \notin Pay
    BY <1>3 DEF SealAccept, BackFrames, Pay
  <1>5. rx' = rx \/ rx' = rx_forget
    BY DEF on_seal_offered
  <1>6. Tracks(rx', tx) => \/ rx'.received = {} /\ rx'.ungranted = 0
                           \/ /\ Tracks(rx, tx) /\ rx'.received = rx.received
                              /\ rx'.ungranted = rx.ungranted
    BY <1>5 DEF Tracks, rx_forget
  <1>7. PICK k \in Nat : back' = Append(back, SealAccept(out[i].id, k))
    BY <1>3 DEF on_seal_offered
  <1> QED
    BY <1>1, <1>2, <1>4, <1>6, <1>7, BurstOneAnswer

LEMMA BurstByTakenOffer ==
  ASSUME TypeInv, TypeInv', Burst, NEW i \in {1, 2}, Arrives(i), on_offer(out[i])
  PROVE  Burst'
  <1> DEFINE m == out[i]
             h == handle_offer(rx, m)
  <1>1. tx' = tx /\ asked' = asked /\ m.type = "OFFER"
    BY DEF on_offer, side, history
  <1>2. Fewer /\ m \in OutFrames
    <2>1. i \in 1 .. Len(out) /\ Taken(i) /\ m \in OutFrames
      BY ArrivesTakes
    <2> QED
      BY <2>1, TakenFewer
  <1>3. m \in Offers
    BY <1>1, <1>2 DEF OutFrames, Chunks, Offers
  <1>4. CASE Opens(m)
    <2>1. rx' = h.rx /\ back' = back \o h.out
      BY <1>4 DEF on_offer
    <2>2. /\ h.out \in Seq(BackFrames)
          /\ \A f \in Range(h.out) : Opener(f, h.rx.id) /\ h.rx.seen_offer
          /\ \/ h.rx = rx
             \/ /\ h.rx.seen_offer /\ h.rx.id = m.id /\ h.rx.copy = m.copy
                /\ h.rx.received = {} /\ ~ h.rx.completed /\ h.rx.ungranted = 0
      <3>1. RxOK(rx)
        BY DEF TypeInv
      <3> QED
        BY <1>3, <3>1, HandleOfferEffect
    <2> HIDE DEF h, m
    <2>3. Idle(h.out, tx)
      BY <2>2 DEF Idle, Grant, Opener
    <2> QED
      BY <1>1, <1>2, <2>1, <2>2, <2>3, BurstAnswered
  <1>5. CASE ~ Opens(m)
    <2>1. rx' = rx /\ back' = back \o Stale(m)
      BY <1>5 DEF on_offer
    <2>2. m.seal \in Nat
      BY <1>3 DEF Offers
    <2>3. Stale(m) \in Seq(BackFrames) /\ Idle(Stale(m), tx)
      BY <2>2, StaleFrames DEF Idle, Grant, Pay
    <2> HIDE DEF h, m
    <2> QED
      BY <1>1, <1>2, <2>1, <2>3, BurstAnswered
  <1> QED
    BY <1>4, <1>5

\* A chunk is asked again, and that goes into the history; or the answer grants nothing.
LEMMA BurstAsked ==
  ASSUME TypeInv, TypeInv', NameInv, Few, Burst, tx' = tx, Fewer, rx.seen_offer,
         NEW add \in Seq(BackFrames), back' = back \o add, Asks(add),
         \A f \in Range(add) : f.id = rx.id, asked' = asked \cup Named(add), SameOffer(rx, rx')
  PROVE  Burst'
  <1>1. asked \subseteq asked'
    OBVIOUS
  <1>2. Tracks(rx', tx) => \/ rx'.received = {} /\ rx'.ungranted = 0
                           \/ /\ Tracks(rx, tx) /\ rx'.received = rx.received
                              /\ rx'.ungranted = rx.ungranted
    BY DEF Tracks, SameOffer
  <1>3. CASE rx.id # tx.id
    <2>1. Idle(add, tx)
      BY <1>3 DEF Idle, Grant
    <2> QED
      BY <1>1, <1>2, <2>1, BurstAnswered
  <1>4. CASE \A f \in Range(add) : f.type \notin Pay
    <2>1. Idle(add, tx)
      BY <1>4 DEF Idle, Grant, Pay
    <2> QED
      BY <1>1, <1>2, <2>1, BurstAnswered
  <1>5. CASE rx.id = tx.id /\ \E f \in Range(add) : f.type = "RETRANSMIT"
    <2>1. tx.active => rx.copy = tx.copy
      BY <1>5 DEF NameInv, TxNamed, Few
    <2>2. <<rx.copy, rx.id>> \in Named(add)
      BY <1>5 DEF Named
    <2> QED
      BY <1>5, <2>1, <2>2 DEF Burst
  <1> QED
    BY <1>3, <1>4, <1>5 DEF Asks, Pay

LEMMA BurstByDone ==
  ASSUME TypeInv, TypeInv', NameInv, Few, Burst, NEW i \in {1, 2}, Arrives(i), on_done(out[i])
  PROVE  Burst'
  <1> DEFINE m == out[i]
             h == handle_done(rx)
  <1>1. tx' = tx
    BY DEF on_done, side
  <1>2. Fewer
    <2>1. i \in 1 .. Len(out) /\ Taken(i)
      BY ArrivesTakes
    <2> QED
      BY <2>1, TakenFewer
  <1>3. RxOK(rx) /\ (rx.active => rx.seen_offer) /\ rx.id \in Nat
    <2>1. RxOK(rx) /\ (rx.active => rx.seen_offer)
      BY DEF TypeInv, CopiesOK
    <2>2. rx.id \in Nat
      BY <2>1, XferAssumption DEF RxOK, RxRecords
    <2> QED
      BY <2>1, <2>2
  <1>4. CASE /\ rx.id = m.id /\ back' = Append(back, Frame("RECEIVED", m.id))
             /\ UNCHANGED <<rx, asked>>
    <2>1. /\ Frame("RECEIVED", rx.id) \in BackFrames /\ Frame("RECEIVED", rx.id).type \notin Pay
      BY <1>3 DEF Frame, BackFrames, Pay
    <2> QED
      BY <1>1, <1>2, <1>4, <2>1, BurstOneAnswer
  <1>5. CASE rx.active /\ rx' = h.rx /\ back' = back \o h.out /\ asked' = asked \cup Named(h.out)
    <2>1. /\ RxOK(h.rx) /\ SameOffer(rx, h.rx) /\ h.out \in Seq(BackFrames)
          /\ \A f \in Range(h.out) : f.type \in {"RETRANSMIT", "CREDIT"} /\ f.id = rx.id
          /\ Asks(h.out)
      BY <1>3, HandleDoneEffect
    <2> HIDE DEF h
    <2> QED
      BY <1>1, <1>2, <1>3, <1>5, <2>1, BurstAsked
  <1>6. CASE UNCHANGED <<rx, back, asked>>
    BY <1>1, <1>2, <1>6, BurstUnanswered
  <1> QED
    BY <1>4, <1>5, <1>6 DEF on_done

LEMMA BurstBySweep ==
  ASSUME TypeInv, TypeInv', NameInv, Few, Burst, SweepRx
  PROVE  Burst'
  <1> DEFINE h == dh_xfer_sweep_rx(rx)
  <1>1. /\ tx' = tx /\ Fewer /\ rx' = h.rx /\ back' = back \o h.out /\ asked' = asked \cup Named(h.out)
    BY DEF SweepRx, side, Fewer
  <1>2. RxOK(rx) /\ rx.seen_offer
    BY DEF TypeInv, CopiesOK, SweepRx
  <1>3. /\ RxOK(h.rx) /\ SameOffer(rx, h.rx) /\ h.out \in Seq(BackFrames)
        /\ \A f \in Range(h.out) : f.type \in {"REQUEST", "RETRANSMIT", "CREDIT"} /\ f.id = rx.id
        /\ Asks(h.out)
    BY <1>2, SweepEffect
  <1> HIDE DEF h
  <1> QED
    BY <1>1, <1>2, <1>3, BurstAsked

LEMMA BurstByPasteCancel ==
  ASSUME TypeInv, TypeInv', Burst, NEW i \in {1, 2}, Arrives(i), CancelAtPasteSide(out[i])
  PROVE  Burst'
  <1>1. tx' = tx /\ asked' = asked /\ back' = back
    BY DEF CancelAtPasteSide, side
  <1>2. Fewer
    <2>1. i \in 1 .. Len(out) /\ Taken(i)
      BY ArrivesTakes
    <2> QED
      BY <2>1, TakenFewer
  <1>3. rx \in RxRecords
    BY DEF TypeInv, RxOK
  <1>4. /\ rx'.id = rx.id /\ rx'.seen_offer = rx.seen_offer /\ rx'.received = rx.received
        /\ rx'.ungranted = rx.ungranted
    BY <1>3 DEF CancelAtPasteSide, RxRecords
  <1> QED
    BY <1>1, <1>2, <1>4, BurstUnanswered DEF Tracks

LEMMA BurstByReceiver ==
  ASSUME TypeInv, TypeInv', Burst, dh_xfer_cancel_rx \/ dh_xfer_request_lazy
  PROVE  Burst'
  <1>1. tx' = tx /\ asked' = asked /\ Fewer
    BY DEF dh_xfer_cancel_rx, dh_xfer_request_lazy, side, history, Fewer
  <1>2. rx \in RxRecords /\ rx.id \in Nat
    BY XferAssumption DEF TypeInv, RxOK, RxRecords
  <1>3. rx' = [rx EXCEPT !.active = FALSE] \/ rx' = [rx EXCEPT !.lazy = FALSE]
    BY DEF dh_xfer_cancel_rx, dh_xfer_request_lazy
  <1>4. /\ rx'.id = rx.id /\ rx'.seen_offer = rx.seen_offer /\ rx'.received = rx.received
        /\ rx'.ungranted = rx.ungranted
    BY <1>2, <1>3 DEF RxRecords
  <1>5. Tracks(rx', tx) => \/ rx'.received = {} /\ rx'.ungranted = 0
                           \/ /\ Tracks(rx, tx) /\ rx'.received = rx.received
                              /\ rx'.ungranted = rx.ungranted
    BY <1>4 DEF Tracks
  <1>6. CASE dh_xfer_cancel_rx
    <2>1. back' = Append(back, Frame("CANCEL", rx.id))
      BY <1>6 DEF dh_xfer_cancel_rx
    <2>2. Frame("CANCEL", rx.id) \in BackFrames /\ Frame("CANCEL", rx.id).type \notin Pay
      BY <1>2 DEF Frame, BackFrames, Pay
    <2> QED
      BY <1>1, <1>5, <2>1, <2>2, BurstOneAnswer
  <1>7. CASE dh_xfer_request_lazy
    <2>1. back' = back \o Opening(rx.id)
      BY <1>7 DEF dh_xfer_request_lazy
    <2>2. Opening(rx.id) \in Seq(BackFrames) /\ \A f \in Range(Opening(rx.id)) : Opener(f, rx.id)
      BY <1>2, OpeningFrames
    <2>3. Idle(Opening(rx.id), tx)
      BY <2>2 DEF Idle, Grant, Opener
    <2> QED
      BY <1>1, <1>5, <2>1, <2>2, <2>3, BurstAnswered
  <1> QED
    BY <1>6, <1>7

LEMMA BurstByForgetting ==
  ASSUME TypeInv, TypeInv', Burst, PasteSideSessionEnded
  PROVE  Burst'
  <1>1. tx' = tx /\ asked' = asked /\ Fewer /\ back' = back /\ rx' = rx_forget
    BY DEF PasteSideSessionEnded, side, path, Fewer
  <1>2. ~ Tracks(rx', tx)
    BY <1>1 DEF Tracks, rx_forget
  <1> QED
    BY <1>1, <1>2, BurstUnanswered

LEMMA BurstOnPath ==
  ASSUME TypeInv, TypeInv', Burst, OppositeCancel \/ Lose
  PROVE  Burst'
  <1>1. tx' = tx /\ asked' = asked /\ rx' = rx
    BY DEF OppositeCancel, Lose, side, far, history
  <1>2. Tracks(rx', tx) => /\ Tracks(rx, tx) /\ rx'.received = rx.received
                           /\ rx'.ungranted = rx.ungranted
    BY <1>1
  <1>3. tx.id \in Nat /\ rx.id \in Nat /\ out \in Seq(OutFrames)
    BY XferAssumption DEF TypeInv, TxRecords, RxOK, RxRecords
  <1>4. CASE tx.active /\ back' = Append(back, Frame("CANCEL", tx.id)) /\ out' = out
    <2>1. Frame("CANCEL", tx.id) \in BackFrames /\ Frame("CANCEL", tx.id).type \notin Pay
      BY <1>3 DEF Frame, BackFrames, Pay
    <2>2. Fewer
      BY <1>4 DEF Fewer
    <2> QED
      BY <1>1, <1>2, <1>4, <2>1, <2>2, BurstOneAnswer
  <1>5. CASE out' = Append(out, Frame("CANCEL", rx.id)) /\ back' = back
    <2>1. Frame("CANCEL", rx.id) \in OutFrames /\ Frame("CANCEL", rx.id).type # "CHUNK"
      BY <1>3 DEF Frame, OutFrames
    <2> QED
      BY <1>1, <1>5, <2>1, BurstOneSent DEF Consumed
  <1>6. CASE out # <<>> /\ out' = Tail(out) /\ back' = back
    <2>1. Thinned(out', out, 1) /\ 1 \in 0 .. Len(out)
      BY <1>3, <1>6, TailThins
    <2> QED
      BY <1>1, <1>2, <1>6, <2>1, BurstUnanswered DEF Fewer
  <1>7. CASE back # <<>> /\ back' = Tail(back) /\ out' = out
    BY <1>1, <1>7, BurstSilent DEF Consumed
  <1>8. CASE /\ out # <<>> /\ Head(out).type = "CHUNK" /\ back' = back
             /\ out' = [out EXCEPT ![1].intact = FALSE]
    <2>1. Thinned([out EXCEPT ![1].intact = FALSE], out, 0)
      BY <1>3, <1>8, DamageThins
    <2>2. Thinned(out', out, 0)
      BY <1>8, <2>1, Zenon
    <2>3. 0 \in 0 .. Len(out)
      BY <1>3
    <2> QED
      BY <1>1, <1>2, <1>8, <2>2, <2>3, BurstUnanswered DEF Fewer
  <1> QED
    BY <1>4, <1>5, <1>6, <1>7, <1>8 DEF OppositeCancel, Lose

\* A chunk of the transfer is counted as it arrives, and its grant goes out within the count.
LEMMA BurstByChunk ==
  ASSUME TypeInv, TypeInv', NameInv, Few, Burst, NEW i \in {1, 2}, Arrives(i), on_chunk(out[i])
  PROVE  Burst'
  <1> DEFINE m == out[i]
             h == handle_chunk(rx, m)
             fills == m.intact /\ m.seq \notin rx.received
             last == fills /\ rx.received \cup {m.seq} = Seqs
  <1>1. tx' = tx /\ m.type = "CHUNK" /\ asked \subseteq asked'
    BY DEF on_chunk, side
  <1>2. i \in 1 .. Len(out) /\ Taken(i) /\ m \in OutFrames /\ m \in Range(out)
    BY ArrivesTakes
  <1>3. Fewer /\ Thinned(out', out, i)
    <2>1. Fewer
      BY <1>2, TakenFewer
    <2>2. Thinned(RemoveAt(out, i), out, i)
      BY <1>2, RemoveThins DEF TypeInv
    <2> QED
      BY <1>2, <2>1, <2>2 DEF Taken
  <1>4. m \in Chunks /\ Sealed(m)
    BY <1>1, <1>2 DEF OutFrames, Chunks, Offers, Sealed
  <1>5. RxOK(rx) /\ (rx.active => rx.seen_offer)
    BY DEF TypeInv, CopiesOK
  <1>6. ASSUME rx.active, rx.id = m.id, Opens(m), rx' = h.rx, back' = back \o h.out,
               asked' = asked \cup Named(h.out)
        PROVE  Burst'
    <2>1. /\ RxOK(h.rx) /\ h.out \in Seq(BackFrames)
          /\ h.rx.id = rx.id /\ h.rx.copy = rx.copy /\ h.rx.seen_offer = rx.seen_offer
          /\ h.rx.received = IF fills THEN rx.received \cup {m.seq} ELSE rx.received
          /\ h.rx.active <=> rx.active /\ ~ last
          /\ h.rx.completed <=> rx.completed \/ last
          /\ \A f \in Range(h.out) : \/ f.type \in {"RETRANSMIT", "CREDIT"} /\ f.id = rx.id
                                     \/ last /\ f.type = "RECEIVED" /\ f.id = rx.id
          /\ fills => Paid(rx, h.rx, h.out)
          /\ fills \/ m.seq \in rx.received \/ \E f \in Range(h.out) : f.type = "RETRANSMIT"
      BY <1>4, <1>5, HandleChunkEffect
    <2>2. \A f \in Range(h.out) : f.id = rx.id
      BY <2>1
    <2> DEFINE x == <<m.seal, m.id, m.copy>>
    <2>3. x \in Names /\ x[1] = seal_rx.id /\ x[2] = rx.id /\ x[3] = m.copy
      BY <1>2, <1>4, <1>6, NamedFrame DEF Opens
    <2> HIDE DEF h, m, fills, last, x
    <2>4. CASE rx.id # tx.id
      <3>1. Idle(h.out, tx)
        BY <2>2, <2>4 DEF Idle, Grant
      <3>2. ~ Tracks(rx', tx)
        BY <1>6, <2>1, <2>4 DEF Tracks
      <3> QED
        BY <1>1, <1>3, <1>6, <2>1, <3>1, <3>2, BurstAnswered
    <2>5. CASE rx.id = tx.id
      <3> SUFFICES ASSUME tx.active, <<tx.copy, tx.id>> \notin asked'
                   PROVE  Paced(tx, out', back', rx')
        BY <1>1 DEF Burst
      <3>1. rx.seen_offer /\ rx.copy = tx.copy /\ m.copy = rx.copy
        BY <1>5, <1>6, <2>3, <2>5 DEF NameInv, TxNamed, RxNamed, Few
      <3>2. Own(tx, m) /\ Tracks(rx, tx)
        BY <1>1, <1>6, <2>5, <3>1 DEF Own, Tracks
      <3>3. \A f \in Range(h.out) : f.type # "RETRANSMIT"
        <4> SUFFICES ASSUME NEW f \in Range(h.out), f.type = "RETRANSMIT" PROVE FALSE
          OBVIOUS
        <4>1. <<rx.copy, f.id>> \in Named(h.out)
          BY DEF Named
        <4> QED
          BY <1>6, <2>2, <2>5, <3>1, <4>1
      <3>4. /\ tx \in TxRecords /\ out \in Seq(OutFrames) /\ out' \in Seq(OutFrames)
            /\ back \in Seq(BackFrames) /\ rx \in RxRecords /\ rx' \in RxRecords
            /\ rx.ungranted \in Nat /\ rx.received \in SUBSET Seqs /\ m.seq \in Seqs
        BY <1>4 DEF TypeInv, RxOK, RxRecords, Chunks
      <3>5. Paced(tx, out, back, rx)
        BY <1>1 DEF Burst
      <3>6. ASSUME NEW q \in RxRecords, q.received = rx.received \cup {m.seq},
                   q.ungranted <= rx.ungranted + 1
            PROVE  Paced(tx, out', back, q) /\ m.seq \notin rx.received
        BY <1>2, <1>3, <3>2, <3>4, <3>5, <3>6, PacedArrived DEF m
      <3>7. m.seq \notin rx.received
        <4> DEFINE S == rx.received \cup {m.seq}
                   q == [rx EXCEPT !.received = S]
        <4>1. S \in SUBSET Seqs
          BY <3>4
        <4> HIDE DEF S
        <4>2. q \in RxRecords /\ q.received = S /\ q.ungranted = rx.ungranted
          BY <3>4, <4>1 DEF RxRecords
        <4>3. q.ungranted <= rx.ungranted + 1
          BY <3>4, <4>2
        <4> HIDE DEF q
        <4> QED
          BY <3>6, <4>2, <4>3 DEF S
      <3>8. rx'.received = rx.received \cup {m.seq} /\ Paid(rx, rx', h.out)
        BY <1>6, <2>1, <3>3, <3>7
      <3>9. CASE rx'.ungranted <= rx.ungranted + 1 /\ \A f \in Range(h.out) : f.type = "RECEIVED"
        <4>1. Paced(tx, out', back, rx')
          BY <3>4, <3>6, <3>8, <3>9
        <4>2. \A f \in Range(h.out) : Grant(f, tx.id) = 0 /\ (f.type = "RETRANSMIT" => f.id # tx.id)
          BY <3>9 DEF Grant
        <4> QED
          BY <1>6, <2>1, <3>4, <4>1, <4>2, PacedAnswered
      <3>10. ASSUME NEW k \in Nat, h.out = <<Credit(rx.id, k)>>,
                    rx'.ungranted + k <= rx.ungranted + 1
             PROVE  Paced(tx, out', back', rx')
        <4> DEFINE n == rx'
                   u == rx.ungranted + 1
                   q == [n EXCEPT !.ungranted = u]
                   f == Credit(rx.id, k)
        <4>0. n \in RxRecords /\ u \in Nat /\ n.received = rx.received \cup {m.seq}
          BY <3>4, <3>8
        <4> HIDE DEF n, u
        <4>1. /\ q \in RxRecords /\ q.received = rx.received \cup {m.seq}
              /\ q.ungranted = rx.ungranted + 1 /\ q.id = rx'.id /\ q.seen_offer = rx'.seen_offer
          <5>1. /\ q \in RxRecords /\ q.received = n.received /\ q.ungranted = u /\ q.id = n.id
                /\ q.seen_offer = n.seen_offer
            BY <4>0 DEF RxRecords
          <5> QED
            BY <4>0, <5>1 DEF n, u
        <4>2. q.ungranted <= rx.ungranted + 1
          BY <3>4, <4>1
        <4>3. f \in BackFrames /\ f.type = "CREDIT" /\ f.credits = k
          BY <3>4, XferAssumption DEF Credit, BackFrames, RxRecords
        <4>4. Tracks(q, tx) /\ rx'.received = q.received
          BY <1>6, <2>1, <3>2, <3>8, <4>1 DEF Tracks
        <4> HIDE DEF q, f
        <4>5. Paced(tx, out', back, q)
          BY <3>6, <4>1, <4>2
        <4>6. rx'.ungranted + Grant(f, tx.id) <= q.ungranted
          <5>1. rx'.ungranted \in Nat /\ Grant(f, tx.id) \in {0, k}
            BY <3>4, <4>3 DEF Grant, RxRecords
          <5> QED
            BY <3>4, <3>10, <4>1, <5>1
        <4>7. back' = Append(back, f)
          BY <1>6, <3>4, <3>10, <4>3, AppendIsConcat DEF f
        <4> QED
          BY <3>4, <4>1, <4>3, <4>4, <4>5, <4>6, <4>7, PacedGrant
      <3> QED
        BY <3>8, <3>9, <3>10 DEF Paid
    <2> QED
      BY <2>4, <2>5
  <1>7. CASE rx' = rx /\ back' = back
    BY <1>1, <1>3, <1>7, BurstUnanswered
  <1>8. CASE rx' = rx /\ back' = back \o Stale(m)
    <2>1. m.seal \in Nat
      BY <1>4 DEF Chunks
    <2>2. Stale(m) \in Seq(BackFrames) /\ Idle(Stale(m), tx)
      BY <2>1, StaleFrames DEF Idle, Grant, Pay
    <2> HIDE DEF m
    <2> QED
      BY <1>1, <1>3, <1>8, <2>2, BurstAnswered
  <1>9. \/ /\ rx.active /\ rx.id = m.id /\ Opens(m) /\ rx' = h.rx /\ back' = back \o h.out
           /\ asked' = asked \cup Named(h.out)
        \/ rx' = rx /\ (back' = back \/ back' = back \o Stale(m))
    BY DEF on_chunk
  <1> QED
    BY <1>6, <1>7, <1>8, <1>9

LEMMA BurstStep ==
  ASSUME TypeInv, TypeInv', NameInv, Few, ParkedUnused, OfferedSince, ClaimsBehind, Burst, Next
  PROVE  Burst'
  <1>1. CASE CopySide
    BY <1>1, BurstByRequest, BurstByRetransmit, BurstByCredit, BurstByEnding, BurstByAnswer,
       BurstByStale DEF CopySide
  <1>2. ASSUME NEW i \in {1, 2}, Arrives(i),
               \/ on_seal_offered(out[i]) \/ on_offer(out[i]) \/ on_chunk(out[i])
               \/ on_done(out[i]) \/ CancelAtPasteSide(out[i])
        PROVE  Burst'
    BY <1>2, BurstBySealOffer, BurstByTakenOffer, BurstByChunk, BurstByDone, BurstByPasteCancel
  <1>3. CASE CopyTick
    <2>1. CASE RetrySeal /\ ~ seal_tx.offered
      <3>1. asked' = asked
        BY <2>1 DEF RetrySeal, history
      <3> QED
        BY <2>1, <3>1, SealSteps, BurstBySeal
    <2> QED
      BY <1>3, <2>1, BurstByRetry DEF CopyTick
  <1>4. CASE Interrupted
    <2>1. CASE CopySideSessionEnded \/ CopySideRestarts
      <3>1. asked' = asked
        BY <2>1 DEF CopySideSessionEnded, CopySideRestarts
      <3> QED
        BY <2>1, <3>1, SealLostSteps, BurstBySeal
    <2> QED
      BY <1>4, <2>1, BurstByEnding, BurstByReceiver, BurstOnPath, BurstByForgetting DEF Interrupted
  <1> QED
    BY <1>1, <1>2, <1>3, <1>4, BurstByCopy, BurstByReceiver, BurstBySweep, BurstOnPath
       DEF Next, PasteSide

BurstInv == Few => SealHeld /\ ParkedUnused /\ OfferedSince /\ ClaimsBehind /\ Burst

LEMMA BurstAtFirst == Init => BurstInv
  <1> SUFFICES ASSUME Init PROVE BurstInv
    OBVIOUS
  <1>1. ~ tx.active /\ pending = NoCopy /\ ~ seal_tx.live /\ ~ seal_tx.offered
    BY DEF Init, tx_reset, dh_seal_tx_init
  <1> QED
    BY <1>1 DEF BurstInv, SealHeld, ParkedUnused, OfferedSince, ClaimsBehind, Burst

LEMMA BurstInvStep == XferInv /\ BurstInv /\ [Next]_vars => BurstInv'
  <1>1. ASSUME XferInv, BurstInv, Next, Few' PROVE BurstInv'
    <2>1. TypeInv /\ NameInv /\ TypeInv' /\ NameInv'
      BY <1>1, InvStep DEF XferInv
    <2>2. CopySideForms \/ PasteSideForms
      BY <1>1, <2>1, NextForms
    <2>3. Few /\ SealHeld /\ ParkedUnused /\ OfferedSince /\ ClaimsBehind /\ Burst
      BY <1>1, <2>1, <2>2, FewBefore DEF BurstInv
    <2>4. SealHeld' /\ ParkedUnused' /\ OfferedSince'
      BY <1>1, <2>1, <2>2, <2>3, SealHeldStep, ParkedStep, OfferedSinceStep
    <2>5. ClaimsBehind'
      BY <1>1, <2>1, <2>2, <2>3, ClaimsOfCopySide, ClaimsOfPasteSide
    <2>6. Burst'
      BY <1>1, <2>1, <2>3, BurstStep
    <2> QED
      BY <2>4, <2>5, <2>6 DEF BurstInv
  <1>2. ASSUME BurstInv, UNCHANGED vars PROVE BurstInv'
    <2>1. Names' = Names /\ Claims' = Claims
      BY <1>2 DEF vars, Names, Sealed, Claims
    <2>2. /\ SealHeld' <=> SealHeld
          /\ ParkedUnused' <=> ParkedUnused
          /\ OfferedSince' <=> OfferedSince
          /\ ClaimsBehind' <=> ClaimsBehind
          /\ Few' <=> Few
      BY <1>2, <2>1 DEF vars, SealHeld, ParkedUnused, OfferedSince, ClaimsBehind, NoClaimAfter,
            Steps, Few
    <2>3. Burst => Burst'
      BY <1>2 DEF vars, Burst
    <2> QED
      BY <1>2, <2>2, <2>3 DEF BurstInv
  <1> QED
    BY <1>1, <1>2 DEF BurstInv

LEMMA BurstWithin == XferInv /\ BurstInv => (Few => BurstFits)
  <1> SUFFICES ASSUME XferInv, BurstInv, Few, tx.active, tx.streaming,
                      <<tx.copy, tx.id>> \notin asked
               PROVE  LET mine == {i \in DOMAIN out : /\ out[i].type = "CHUNK"
                                                      /\ out[i].id = tx.id /\ out[i].copy = tx.copy}
                      IN  tx.credits + Cardinality(mine) <= WINDOW
    BY DEF BurstFits
  <1>1. tx \in TxRecords /\ out \in Seq(OutFrames) /\ back \in Seq(BackFrames) /\ rx \in RxRecords
    BY DEF XferInv, TypeInv, RxOK
  <1>2. PICK A : Balanced(tx, out, back, rx, A)
    BY DEF BurstInv, Burst, Paced
  <1> DEFINE mine == {i \in DOMAIN out : Own(tx, out[i])}
             hi == WINDOW + Cardinality(A) - Unpaid(rx, tx)
  <1>3. /\ Reached(tx) \in Nat /\ WINDOW \in Nat /\ tx.credits \in Nat /\ tx.next_seq \in Nat
        /\ tx.credits + tx.next_seq <= Reached(tx)
    BY <1>1, ReachedNat
  <1>4. /\ Cardinality(mine) \in Nat /\ Cardinality(A) \in Nat
        /\ Cardinality(mine) + Cardinality(A) <= tx.next_seq
    BY <1>1, <1>2, <1>3, FlightCount DEF Balanced
  <1>5. Unpaid(rx, tx) \in Nat /\ hi \in Int
    BY <1>1, <1>2, BalanceNat
  <1>6. Reached(tx) <= hi
    <2> HIDE DEF hi
    <2> QED
      BY <1>1, <1>2, <1>3, <1>5, RoomWithin DEF Balanced, hi
  <1>7. tx.credits + Cardinality(mine) <= WINDOW
    <2> DEFINE c == Cardinality(mine)
               a == Cardinality(A)
               u == Unpaid(rx, tx)
    <2>1. c \in Nat /\ a \in Nat /\ u \in Nat /\ c + a <= tx.next_seq /\ Reached(tx) <= WINDOW + a - u
      BY <1>4, <1>5, <1>6
    <2> HIDE DEF c, a, u
    <2>2. tx.credits + c <= WINDOW
      BY <1>3, <2>1
    <2> QED
      BY <2>2 DEF c
  <1> QED
    BY <1>7 DEF Own

(***************************************************************************)
(* Until a chunk of it is asked for again, the chunks of a transfer in     *)
(* flight and the credit to send more stay within one window, however many *)
(* times the offer, the request and its opening grant were repeated, lost  *)
(* or overtaken (tx_start_streaming, dh_xfer_handle_credit,                *)
(* dh_xfer_handle_chunk).  It holds while fewer copies were made and fewer *)
(* seals drawn than there are offer ids: a copy is offered again, under    *)
(* the next id, for every seal that it outlives.                           *)
(***************************************************************************)
THEOREM XferBurstFits ==
    Spec => [](copies < ID_MOD - 1 /\ seals < ID_MOD - 1 => BurstFits)
  BY InvAtFirst, InvStep, BurstAtFirst, BurstInvStep, BurstWithin, PTL DEF Spec, Few
=============================================================================
