--------------------------- MODULE CrossingProofs ---------------------------
(***************************************************************************)
(* Proofs about crossings: the placement owed last is where the cursor     *)
(* ends up, an arrival is told, and a placement's answer was read at that  *)
(* placement, whatever core 1 owes while core 0 has the lock released.     *)
(***************************************************************************)
EXTENDS Crossing, SequenceTheorems, TLAPS

Origins == {"NONE", "LOCAL", "PEER"}
CrossingStates ==
  [phase : {"IDLE", "WAITING", "REANCHORED", "FALLBACK", "CANCELLED"},
   kind : Kinds, id : Ids, sent : BOOLEAN]
OutPackets ==
  [type : {"SELECT", "QUERY", "PLACE"}, output : Outputs, body : Bodies, id : Ids]
BackPackets ==
  [type : {"POSITION", "UNAVAILABLE"}, output : {"H"}, body : Bodies, id : Ids]
ChStates ==
  [present : BOOLEAN, origin : {"NONE", "LOCAL", "PEER"}, query : Ids,
   owed : Bodies, sent : Bodies, body : Bodies, place_query : Ids,
   arrival : BOOLEAN, dropped : BOOLEAN, untold : BOOLEAN, raced : BOOLEAN]
CoreStates ==
  [at : {"idle", "place", "query", "owed", "clear"}, owed : Bodies,
   body : Bodies, id : Ids, origin : {"NONE", "LOCAL", "PEER"}]
Frames == [type : {"PLACE", "POS_QUERY", "ARRIVAL"}, body : Bodies, id : Ids]
Answers == [id : Ids, body : Bodies]

\* The placements among the packets of s are numbered in their order, above
\* low and up to high.
InOrder(s, low, high) ==
  \A i \in 1 .. Len(s) :
    s[i].type = "PLACE" =>
      /\ low < s[i].body /\ s[i].body <= high
      /\ \A j \in 1 .. Len(s) : s[j].type = "PLACE" /\ i < j => s[i].body < s[j].body

\* Placements cross the link in the order of their numbers, none of them owed yet.
OutOK == (~ remote => out = <<>>) /\ InOrder(out, ch.owed, moves)

\* What core 0 has looked at while the lock is released.
OwedOK ==
  /\ ch.owed <= moves /\ ch.sent <= ch.owed
  /\ core0.at = "place" => core0.owed <= ch.owed /\ lane = <<>>
  /\ core0.at = "owed" => Len(lane) < PRIORITY_SLOTS

TypeInv == TypeOK /\ OutOK /\ OwedOK
-----------------------------------------------------------------------------
(* The constants. *)
LEMMA Sizes ==
  /\ ID_MOD \in Nat /\ ID_MOD >= 2 /\ PRIORITY_SLOTS \in Nat /\ PRIORITY_SLOTS >= 2
  /\ MaxMoves \in Nat /\ MaxFaults \in Nat /\ 0 \in Bodies /\ 0 \in Ids
  /\ \A b \in Bodies : b \in Nat
  BY CrossingAssumption DEF Bodies, Ids

(* The types, by name. *)
LEMMA Types ==
  ASSUME TypeOK
  PROVE  /\ crossing \in CrossingStates /\ out \in Seq(OutPackets) /\ back \in Seq(BackPackets)
         /\ ch \in ChStates /\ core0 \in CoreStates /\ lane \in Seq(Frames)
         /\ answers \in Seq(Answers) /\ Len(lane) \in Nat /\ Len(out) \in Nat
         /\ moves \in 0 .. MaxMoves /\ faults \in 0 .. MaxFaults
         /\ remote \in BOOLEAN /\ active \in Outputs /\ h_active \in Outputs
         /\ (crossing.phase # "IDLE" => crossing.id # 0) /\ next_id \in Ids
         /\ Len(lane) <= PRIORITY_SLOTS /\ cursor \in Bodies /\ aims \in [Ids -> Bodies]
  BY DEF TypeOK, CrossingStates, OutPackets, BackPackets, ChStates, CoreStates, Frames, Answers

LEMMA TypesNext ==
  ASSUME remote' \in BOOLEAN, active' \in Outputs, h_active' \in Outputs,
         crossing' \in CrossingStates, crossing'.phase # "IDLE" => crossing'.id # 0,
         next_id' \in Ids, out' \in Seq(OutPackets), back' \in Seq(BackPackets),
         ch' \in ChStates, core0' \in CoreStates, lane' \in Seq(Frames),
         Len(lane') <= PRIORITY_SLOTS, cursor' \in Bodies, answers' \in Seq(Answers),
         moves' \in 0 .. MaxMoves, faults' \in 0 .. MaxFaults, aims' \in [Ids -> Bodies]
  PROVE  TypeOK'
  BY DEF TypeOK, CrossingStates, OutPackets, BackPackets, ChStates, CoreStates, Frames, Answers

(* A fresh query id is never 0. *)
LEMMA NextId ==
  ASSUME next_id \in Ids
  PROVE  next_cursor_query_id \in Ids /\ next_cursor_query_id # 0
  BY Sizes DEF next_cursor_query_id, Ids

(* Owing a placement. *)
LEMMA OweIs ==
  ASSUME NEW c \in ChStates, NEW body \in Bodies, NEW id \in Ids, c.owed + 1 \in Bodies
  PROVE  LET d == channel_lifecycle_owe_place(c, body, id) IN
         /\ d \in ChStates /\ d.present = c.present /\ d.sent = c.sent
         /\ d.origin = c.origin /\ d.query = c.query
         /\ d.arrival = c.arrival /\ d.untold = c.untold /\ d.raced = c.raced
         /\ c.present => /\ d.owed = c.owed + 1 /\ d.body = body /\ d.place_query = id
                         /\ d.dropped = FALSE
         /\ ~ c.present => d = c
  BY DEF channel_lifecycle_owe_place, ChStates

(* Noting an arrival. *)
LEMMA ArriveIs ==
  ASSUME NEW c \in ChStates, NEW o
  PROVE  LET d == channel_lifecycle_arrive(c, o) IN
         /\ d \in ChStates /\ d.present = c.present /\ d.sent = c.sent /\ d.owed = c.owed
         /\ d.body = c.body /\ d.place_query = c.place_query /\ d.dropped = c.dropped
         /\ d.origin = c.origin /\ d.query = c.query
         /\ d.untold = d.arrival /\ (d.untold /\ core0.at = "clear" => d.raced)
  <1> DEFINE here == o = "H" /\ c.present
             late == here /\ core0.at = "clear"
  <1>1. here \in BOOLEAN /\ late \in BOOLEAN
    BY Zenon
  <1>2. here /\ core0.at = "clear" => late
    OBVIOUS
  <1>3. channel_lifecycle_arrive(c, o)
          = [c EXCEPT !.arrival = here, !.untold = here, !.raced = late]
    BY DEF channel_lifecycle_arrive
  <1> HIDE DEF here, late
  <1>4. QED
    BY <1>1, <1>2, <1>3 DEF ChStates

(* Taking a query. *)
LEMMA TakeIs ==
  ASSUME NEW c \in ChStates, NEW origin \in Origins, NEW id \in Ids
  PROVE  LET d == take_query(c, origin, id) IN
         /\ d \in ChStates /\ d.present = c.present /\ d.sent = c.sent /\ d.owed = c.owed
         /\ d.body = c.body /\ d.place_query = c.place_query /\ d.dropped = c.dropped
         /\ d.arrival = c.arrival /\ d.untold = c.untold /\ d.raced = c.raced
         /\ d.origin = origin /\ d.query = id
  BY DEF take_query, ChStates, Origins

(* Letting a query go. *)
LEMMA ClearedIs ==
  ASSUME ch \in ChStates
  PROVE  /\ Cleared \in ChStates /\ Cleared.present = ch.present /\ Cleared.sent = ch.sent
         /\ Cleared.owed = ch.owed /\ Cleared.body = ch.body
         /\ Cleared.place_query = ch.place_query /\ Cleared.dropped = ch.dropped
         /\ Cleared.arrival = ch.arrival /\ Cleared.untold = ch.untold
         /\ Cleared.raced = ch.raced /\ Cleared.query = ch.query
  BY DEF Cleared, ChStates

(* Sequences. *)
LEMMA AppendIs ==
  ASSUME NEW S, NEW s \in Seq(S), NEW x \in S
  PROVE  /\ Append(s, x) \in Seq(S) /\ Len(Append(s, x)) = Len(s) + 1 /\ Len(s) \in Nat
         /\ Append(s, x)[Len(s) + 1] = x
         /\ \A i \in 1 .. Len(s) : Append(s, x)[i] = s[i]
  OBVIOUS

LEMMA TailIs ==
  ASSUME NEW S, NEW s \in Seq(S), s # <<>>
  PROVE  /\ Tail(s) \in Seq(S) /\ Len(Tail(s)) = Len(s) - 1 /\ Len(s) \in Nat /\ Len(s) >= 1
         /\ Head(s) = s[1] /\ Head(s) \in S
         /\ \A i \in 1 .. Len(Tail(s)) : i + 1 \in 1 .. Len(s) /\ Tail(s)[i] = s[i + 1]
  OBVIOUS

LEMMA PacketBodies ==
  /\ \A x \in OutPackets : x.body \in Nat
  /\ \A s \in Seq(OutPackets) : \A i \in 1 .. Len(s) : s[i].body \in Nat
  <1>1. \A x \in OutPackets : x.body \in Nat
    <2>1. \A x \in OutPackets : x.body \in Bodies
      BY DEF OutPackets
    <2>2. QED
      BY <2>1, Sizes
  <1>2. \A s \in Seq(OutPackets) : \A i \in 1 .. Len(s) : s[i] \in OutPackets
    OBVIOUS
  <1>3. QED
    BY <1>1, <1>2

(* A packet that is no placement, or the next placement, joins the link. *)
LEMMA OrderAppend ==
  ASSUME NEW s \in Seq(OutPackets), NEW x \in OutPackets, NEW low \in Nat, NEW high \in Nat,
         NEW top \in Nat, InOrder(s, low, high), low <= high, high <= top,
         x.type = "PLACE" => high < x.body /\ x.body <= top
  PROVE  InOrder(Append(s, x), low, top)
  <1> DEFINE t == Append(s, x)
  <1>1. /\ Len(t) = Len(s) + 1 /\ Len(s) \in Nat /\ t[Len(s) + 1] = x
        /\ \A i \in 1 .. Len(s) : t[i] = s[i]
    BY AppendIs
  <1>2. x.body \in Nat /\ \A i \in 1 .. Len(s) : s[i].body \in Nat
    BY PacketBodies
  <1> HIDE DEF t
  <1> SUFFICES ASSUME NEW i \in 1 .. Len(t), t[i].type = "PLACE"
               PROVE  /\ low < t[i].body /\ t[i].body <= top
                      /\ \A j \in 1 .. Len(t) : t[j].type = "PLACE" /\ i < j => t[i].body < t[j].body
    BY DEF InOrder, t
  <1>3. CASE i = Len(s) + 1
    BY <1>1, <1>2, <1>3
  <1>4. CASE i # Len(s) + 1
    <2>1. i \in 1 .. Len(s) /\ t[i] = s[i]
      BY <1>1, <1>4
    <2>2. /\ low < s[i].body /\ s[i].body <= high
          /\ \A j \in 1 .. Len(s) : s[j].type = "PLACE" /\ i < j => s[i].body < s[j].body
      BY <2>1 DEF InOrder
    <2>3. ASSUME NEW j \in 1 .. Len(t), t[j].type = "PLACE", i < j PROVE t[i].body < t[j].body
      <3>1. CASE j = Len(s) + 1
        BY <1>1, <1>2, <2>1, <2>2, <2>3, <3>1
      <3>2. CASE j # Len(s) + 1
        <4>1. j \in 1 .. Len(s) /\ t[j] = s[j]
          BY <1>1, <3>2
        <4>2. QED
          BY <2>1, <2>2, <2>3, <4>1
      <3>3. QED
        BY <3>1, <3>2
    <2>4. QED
      BY <1>2, <2>1, <2>2, <2>3
  <1>5. QED
    BY <1>3, <1>4

(* The first packet leaves the link; a placement may be owed with it. *)
LEMMA OrderTail ==
  ASSUME NEW s \in Seq(OutPackets), s # <<>>, NEW low \in Nat, NEW high \in Nat,
         InOrder(s, low, high)
  PROVE  /\ InOrder(Tail(s), low, high)
         /\ Head(s).type = "PLACE" => /\ low + 1 <= Head(s).body /\ Head(s).body <= high
                                      /\ InOrder(Tail(s), low + 1, high)
  <1> DEFINE t == Tail(s)
  <1>1. /\ Len(t) = Len(s) - 1 /\ Len(s) \in Nat /\ Len(s) >= 1 /\ Head(s) = s[1]
        /\ \A i \in 1 .. Len(t) : i + 1 \in 1 .. Len(s) /\ t[i] = s[i + 1]
    BY TailIs
  <1>2. \A i \in 1 .. Len(s) : s[i].body \in Nat
    BY PacketBodies
  <1> HIDE DEF t
  <1>3. ASSUME NEW i \in 1 .. Len(t), t[i].type = "PLACE"
        PROVE  /\ low < t[i].body /\ t[i].body <= high
               /\ s[1].type = "PLACE" => low + 1 < t[i].body
               /\ \A j \in 1 .. Len(t) : t[j].type = "PLACE" /\ i < j => t[i].body < t[j].body
    <2>1. i + 1 \in 1 .. Len(s) /\ t[i] = s[i + 1] /\ 1 \in 1 .. Len(s) /\ 1 < i + 1
      BY <1>1
    <2>2. /\ low < s[i + 1].body /\ s[i + 1].body <= high
          /\ \A j \in 1 .. Len(s) : s[j].type = "PLACE" /\ i + 1 < j => s[i + 1].body < s[j].body
      BY <1>3, <2>1 DEF InOrder
    <2>3. s[1].type = "PLACE" => low < s[1].body /\ s[1].body < s[i + 1].body
      BY <1>3, <2>1 DEF InOrder
    <2>4. ASSUME NEW j \in 1 .. Len(t), t[j].type = "PLACE", i < j PROVE t[i].body < t[j].body
      <3>1. j + 1 \in 1 .. Len(s) /\ t[j] = s[j + 1] /\ i + 1 < j + 1
        BY <1>1, <2>4
      <3>2. QED
        BY <2>1, <2>2, <2>4, <3>1
    <2>5. QED
      BY <1>2, <2>1, <2>2, <2>3, <2>4
  <1>4. InOrder(t, low, high)
    BY <1>3 DEF InOrder
  <1>5. ASSUME Head(s).type = "PLACE"
        PROVE  low + 1 <= Head(s).body /\ Head(s).body <= high /\ InOrder(t, low + 1, high)
    <2>1. 1 \in 1 .. Len(s)
      BY <1>1
    <2>2. low < s[1].body /\ s[1].body <= high
      BY <1>1, <1>5, <2>1 DEF InOrder
    <2>3. low + 1 <= Head(s).body /\ Head(s).body <= high
      BY <1>1, <1>2, <2>1, <2>2
    <2>4. InOrder(t, low + 1, high)
      BY <1>1, <1>3, <1>5 DEF InOrder
    <2>5. QED
      BY <2>3, <2>4
  <1>6. QED
    BY <1>4, <1>5 DEF t

(* Later moves and the same link. *)
LEMMA OrderMore ==
  ASSUME NEW s \in Seq(OutPackets), NEW low \in Nat, NEW high \in Nat, NEW top \in Nat,
         InOrder(s, low, high), high <= top
  PROVE  InOrder(s, low, top)
  <1>1. \A i \in 1 .. Len(s) : s[i].body \in Nat
    BY PacketBodies
  <1>2. QED
    BY <1>1 DEF InOrder
-----------------------------------------------------------------------------
(***************************************************************************)
(* The invariant.  A PLACE is the first frame of the lane or it is not     *)
(* there, so the cursor's resting place can be read off the lane; it is    *)
(* the placement owed last as soon as that one is marked sent, and core 0, *)
(* when it builds a frame, has either that placement or an older number.   *)
(***************************************************************************)

PlaceFirst == \A i \in 1 .. Len(lane) : lane[i].type = "PLACE" => i = 1

\* Where the cursor is once the helper has taken its frames.
Landing == IF lane # <<>> /\ lane[1].type = "PLACE" THEN lane[1].body ELSE cursor

LandOK == ch.present /\ ~ ch.dropped /\ ch.owed = ch.sent => Landing = ch.body

LookedOK == core0.at = "place" /\ core0.owed = ch.owed => core0.body = ch.body

ArrivalOK ==
  /\ ch.untold /\ ch.present => ch.arrival \/ ch.raced
  /\ core0.at = "clear" /\ ch.untold => ch.raced

IInv == TypeInv /\ PlaceFirst /\ LandOK /\ LookedOK /\ ArrivalOK

\* What a step may leave of the channel's placement and of its arrival.
SamePlace(c, d) ==
  /\ d.present = c.present /\ d.owed = c.owed /\ d.sent = c.sent
  /\ d.body = c.body /\ d.place_query = c.place_query /\ d.dropped = c.dropped
SameArrival(c, d) ==
  d.arrival = c.arrival /\ d.untold = c.untold /\ d.raced = c.raced
SameQuery(c, d) == d.origin = c.origin /\ d.query = c.query
Arrives(d) == d.untold = d.arrival /\ (d.untold /\ core0.at = "clear" => d.raced)

(* Core 1 leaves something with the channel while core 0 is anywhere. *)
LEMMA Core1Keeps ==
  ASSUME IInv, TypeOK', OutOK', UNCHANGED <<core0, lane, cursor>>, ch'.owed <= moves',
         ch'.present = ch.present, ch'.sent = ch.sent,
         SamePlace(ch, ch') \/ ch'.owed = ch.owed + 1,
         SameArrival(ch, ch') \/ Arrives(ch')
  PROVE  IInv'
  <1>1. ch \in ChStates /\ core0 \in CoreStates
    BY Types DEF IInv, TypeInv
  <1>2. ch.owed \in Nat /\ ch.sent \in Nat /\ core0.owed \in Nat
    <2>1. ch.owed \in Bodies /\ ch.sent \in Bodies /\ core0.owed \in Bodies
      BY <1>1 DEF ChStates, CoreStates
    <2>2. QED
      BY <2>1, Sizes
  <1>3. ch.sent <= ch.owed /\ (core0.at = "place" => core0.owed <= ch.owed /\ lane = <<>>)
        /\ (core0.at = "owed" => Len(lane) < PRIORITY_SLOTS)
    BY DEF IInv, TypeInv, OwedOK
  <1>4. OwedOK'
    BY <1>2, <1>3 DEF OwedOK, SamePlace
  <1>5. PlaceFirst' /\ Landing' = Landing
    BY DEF IInv, PlaceFirst, Landing
  <1>6. LandOK' /\ LookedOK'
    <2>1. CASE SamePlace(ch, ch')
      BY <1>5, <2>1 DEF IInv, LandOK, LookedOK, SamePlace
    <2>2. CASE ch'.owed = ch.owed + 1
      BY <1>2, <1>3, <2>2 DEF LandOK, LookedOK
    <2>3. QED
      BY <2>1, <2>2
  <1>7. ArrivalOK'
    BY DEF IInv, ArrivalOK, SameArrival, Arrives
  <1>8. QED
    BY <1>4, <1>5, <1>6, <1>7 DEF IInv, TypeInv

(* The numbers core 1 works with. *)
LEMMA Numbers ==
  ASSUME TypeInv
  PROVE  /\ ch \in ChStates /\ ch.owed \in Nat /\ ch.sent \in Nat /\ ch.owed <= moves
         /\ moves \in Nat /\ moves <= MaxMoves /\ MaxMoves \in Nat /\ moves \in Bodies
         /\ \A m \in Nat : m <= MaxMoves => m \in Bodies
         /\ out \in Seq(OutPackets) /\ InOrder(out, ch.owed, moves)
  <1>1. ch \in ChStates /\ moves \in 0 .. MaxMoves /\ out \in Seq(OutPackets)
    BY Types DEF TypeInv
  <1>2. ch.owed \in Bodies /\ ch.sent \in Bodies
    BY <1>1 DEF ChStates
  <1>3. ch.owed <= moves /\ InOrder(out, ch.owed, moves)
    BY DEF TypeInv, OwedOK, OutOK
  <1>4. QED
    BY <1>1, <1>2, <1>3, Sizes DEF Bodies

(* set_active_output, on either board. *)
LEMMA ActiveIs ==
  ASSUME TypeInv, NEW o \in Outputs, NEW places \in BOOLEAN, remote' = remote,
         moves' \in 0 .. MaxMoves, moves <= moves', places => moves' = moves + 1,
         set_active_output(o, places)
  PROVE  /\ active' = o /\ h_active' \in {h_active, o}
         /\ ch' \in ChStates /\ out' \in Seq(OutPackets) /\ OutOK' /\ ch'.owed <= moves'
         /\ ch'.present = ch.present /\ ch'.sent = ch.sent /\ SameQuery(ch, ch')
         /\ \/ SamePlace(ch, ch')
            \/ ch'.owed = ch.owed + 1 /\ ch'.body = moves' /\ ch'.place_query = 0
         /\ SameArrival(ch, ch') \/ Arrives(ch')
         /\ \A i \in 1 .. Len(out') :
              out'[i].id = 0 \/ (i \in 1 .. Len(out) /\ out'[i] = out[i])
  <1>0. /\ ch \in ChStates /\ ch.owed \in Nat /\ ch.sent \in Nat /\ ch.owed <= moves
        /\ moves \in Nat /\ MaxMoves \in Nat /\ \A m \in Nat : m <= MaxMoves => m \in Bodies
        /\ out \in Seq(OutPackets) /\ InOrder(out, ch.owed, moves)
    BY Numbers
  <1>1. moves' \in Nat /\ moves' \in Bodies
    BY <1>0
  <1>2. CASE remote
    <2> DEFINE x == Packet("SELECT", o, 0, 0)
               y == Packet("PLACE", "H", moves', 0)
               s == Append(out, x)
    <2>1. /\ x \in OutPackets /\ x.type = "SELECT" /\ x.id = 0
          /\ y \in OutPackets /\ y.type = "PLACE" /\ y.id = 0 /\ y.body = moves'
      BY <1>1, Sizes DEF OutPackets, Packet, Outputs
    <2>2. active' = o /\ h_active' = h_active /\ ch' = ch
          /\ out' = (out \o <<x>>) \o (IF places THEN <<y>> ELSE <<>>)
      BY <1>2 DEF set_active_output
    <2> HIDE DEF x, y
    <2>3. s \in Seq(OutPackets) /\ Len(s) = Len(out) + 1 /\ Len(out) \in Nat
          /\ s[Len(out) + 1] = x /\ \A i \in 1 .. Len(out) : s[i] = out[i]
      BY <1>0, <2>1, AppendIs
    <2>4. InOrder(s, ch.owed, moves)
      BY <1>0, <2>1, OrderAppend
    <2>5. out \o <<x>> = s
      BY <1>0, <2>1, AppendIsConcat
    <2> HIDE DEF s
    <2>6. CASE ~ places
      <3>1. out' = s
        BY <2>2, <2>3, <2>5, <2>6
      <3>2. InOrder(s, ch.owed, moves')
        BY <1>0, <1>1, <2>3, <2>4, OrderMore
      <3>3. OutOK'
        BY <1>2, <2>2, <3>1, <3>2 DEF OutOK
      <3>4. \A i \in 1 .. Len(out') :
              out'[i].id = 0 \/ (i \in 1 .. Len(out) /\ out'[i] = out[i])
        BY <2>1, <2>3, <3>1
      <3>5. QED
        BY <1>0, <1>1, <2>2, <2>3, <3>1, <3>3, <3>4 DEF SamePlace, SameArrival, SameQuery
    <2>7. CASE places
      <3> DEFINE t == Append(s, y)
      <3>1. out' = t
        BY <2>1, <2>2, <2>3, <2>5, <2>7, AppendIsConcat
      <3>2. t \in Seq(OutPackets) /\ Len(t) = Len(s) + 1 /\ t[Len(s) + 1] = y
            /\ \A i \in 1 .. Len(s) : t[i] = s[i]
        BY <2>1, <2>3, AppendIs
      <3>3. InOrder(t, ch.owed, moves')
        <4>1. moves' = moves + 1
          BY <2>7
        <4>2. QED
          BY <1>0, <1>1, <2>1, <2>3, <2>4, <4>1, OrderAppend
      <3> HIDE DEF t
      <3>4. OutOK'
        BY <1>2, <2>2, <3>1, <3>3 DEF OutOK
      <3>5. \A i \in 1 .. Len(out') :
              out'[i].id = 0 \/ (i \in 1 .. Len(out) /\ out'[i] = out[i])
        BY <2>1, <2>3, <3>1, <3>2
      <3>6. ch'.owed <= moves' /\ out' \in Seq(OutPackets)
        <4>1. ch' = ch /\ out' = t
          BY <2>2, <3>1
        <4>2. QED
          BY <1>0, <1>1, <3>2, <4>1
      <3>7. SamePlace(ch, ch') /\ SameArrival(ch, ch') /\ SameQuery(ch, ch')
        BY <2>2 DEF SamePlace, SameArrival, SameQuery
      <3>8. QED
        BY <1>0, <2>2, <3>4, <3>5, <3>6, <3>7
    <2>8. QED
      BY <2>6, <2>7
  <1>3. CASE ~ remote
    <2> DEFINE c == channel_lifecycle_arrive(ch, o)
    <2>1. active' = o /\ h_active' = o /\ out' = out
          /\ ch' = IF places THEN channel_lifecycle_owe_place(c, moves', 0) ELSE c
      BY <1>3 DEF set_active_output
    <2>2. /\ c \in ChStates /\ c.present = ch.present /\ c.sent = ch.sent /\ c.owed = ch.owed
          /\ c.body = ch.body /\ c.place_query = ch.place_query /\ c.dropped = ch.dropped
          /\ c.origin = ch.origin /\ c.query = ch.query
          /\ c.untold = c.arrival /\ (c.untold /\ core0.at = "clear" => c.raced)
      BY <1>0, ArriveIs
    <2> HIDE DEF c
    <2>3. out' = <<>> /\ OutOK'
      <3>1. out = <<>>
        BY <1>3 DEF TypeInv, OutOK
      <3>2. QED
        BY <2>1, <3>1 DEF OutOK, InOrder
    <2>4. CASE ~ places
      BY <1>0, <1>1, <2>1, <2>2, <2>3, <2>4 DEF SamePlace, SameArrival, SameQuery, Arrives
    <2>5. CASE places
      <3> DEFINE d == channel_lifecycle_owe_place(c, moves', 0)
      <3>1. c.owed + 1 \in Bodies /\ moves' = moves + 1
        BY <1>0, <1>1, <2>2, <2>5
      <3>2. /\ d \in ChStates /\ d.present = c.present /\ d.sent = c.sent
            /\ d.origin = c.origin /\ d.query = c.query
            /\ d.arrival = c.arrival /\ d.untold = c.untold /\ d.raced = c.raced
            /\ c.present => d.owed = c.owed + 1 /\ d.body = moves' /\ d.place_query = 0
            /\ ~ c.present => d = c
        <4>1. c \in ChStates /\ moves' \in Bodies /\ 0 \in Ids /\ c.owed + 1 \in Bodies
          BY <1>1, <2>2, <3>1, Sizes
        <4>2. QED
          BY <4>1 DEF channel_lifecycle_owe_place, ChStates
      <3>3. ch' = d
        BY <2>1, <2>5
      <3> HIDE DEF d
      <3>4. ch'.owed <= moves'
        BY <1>0, <2>2, <3>1, <3>2, <3>3
      <3>5. SamePlace(ch, ch') \/ (ch'.owed = ch.owed + 1 /\ ch'.body = moves' /\ ch'.place_query = 0)
        BY <2>2, <3>2, <3>3 DEF SamePlace
      <3>6. Arrives(ch') /\ SameQuery(ch, ch')
        BY <2>2, <3>2, <3>3 DEF Arrives, SameQuery
      <3>7. QED
        BY <2>1, <2>2, <2>3, <3>2, <3>3, <3>4, <3>5, <3>6
    <2>6. QED
      BY <2>4, <2>5
  <1>4. remote \in BOOLEAN
    BY DEF TypeInv, TypeOK
  <1>5. QED
    BY <1>2, <1>3, <1>4

(* channel_query_cursor, with its three results. *)
LEMMA QueryIs ==
  ASSUME TypeInv, NEW id \in Ids, NEW result, remote' = remote,
         moves' \in 0 .. MaxMoves, moves <= moves', channel_query_cursor(id, result)
  PROVE  /\ ch' \in ChStates /\ out' \in Seq(OutPackets) /\ OutOK' /\ ch'.owed <= moves'
         /\ faults' \in 0 .. MaxFaults
         /\ SamePlace(ch, ch') /\ SameArrival(ch, ch') /\ ch'.query \in {ch.query, id}
         /\ \A i \in 1 .. Len(out') :
              \/ i \in 1 .. Len(out) /\ out'[i] = out[i]
              \/ out'[i].type = "QUERY" /\ out'[i].id = id
  <1>0. /\ ch \in ChStates /\ ch.owed \in Nat /\ ch.owed <= moves
        /\ moves \in Nat /\ MaxMoves \in Nat
        /\ out \in Seq(OutPackets) /\ InOrder(out, ch.owed, moves)
    BY Numbers
  <1>f. faults \in 0 .. MaxFaults /\ MaxFaults \in Nat /\ moves' \in Nat
    BY <1>0, Types, Sizes DEF TypeInv
  <1>1. CASE /\ remote /\ out' = Append(out, Packet("QUERY", "H", 0, id))
             /\ UNCHANGED <<ch, faults>>
    <2> DEFINE x == Packet("QUERY", "H", 0, id)
    <2>1. x \in OutPackets /\ x.type = "QUERY" /\ x.id = id
      BY Sizes DEF OutPackets, Packet, Outputs
    <2> HIDE DEF x
    <2>2. out' = Append(out, x)
      BY <1>1 DEF x
    <2>3. out' \in Seq(OutPackets) /\ Len(out') = Len(out) + 1 /\ Len(out) \in Nat
          /\ out'[Len(out) + 1] = x /\ \A i \in 1 .. Len(out) : out'[i] = out[i]
      BY <1>0, <2>1, <2>2, AppendIs
    <2>4. InOrder(out', ch.owed, moves')
      BY <1>0, <1>f, <2>1, <2>2, OrderAppend
    <2>5. OutOK'
      BY <1>1, <2>4 DEF OutOK
    <2>6. \A i \in 1 .. Len(out') :
              \/ i \in 1 .. Len(out) /\ out'[i] = out[i]
              \/ out'[i].type = "QUERY" /\ out'[i].id = id
      BY <2>1, <2>3
    <2>7. QED
      BY <1>0, <1>f, <1>1, <2>3, <2>5, <2>6 DEF SamePlace, SameArrival
  <1>2. CASE remote /\ Fault /\ UNCHANGED <<out, ch>>
    <2>1. faults' \in 0 .. MaxFaults
      BY <1>f, <1>2 DEF Fault
    <2>2. InOrder(out, ch.owed, moves')
      BY <1>0, <1>f, OrderMore
    <2>3. OutOK'
      BY <1>2, <2>2 DEF OutOK
    <2>4. QED
      BY <1>0, <1>f, <1>2, <2>1, <2>3 DEF SamePlace, SameArrival
  <1>3. CASE /\ ~ remote /\ UNCHANGED <<out, faults>>
             /\ ch' = IF result = "SENT" THEN take_query(ch, "LOCAL", id) ELSE ch
    <2>1. out = <<>>
      BY <1>3 DEF TypeInv, OutOK
    <2>2. OutOK'
      BY <1>3, <2>1 DEF OutOK, InOrder
    <2>3. CASE result = "SENT"
      <3> DEFINE d == take_query(ch, "LOCAL", id)
      <3>1. /\ d \in ChStates /\ d.present = ch.present /\ d.sent = ch.sent /\ d.owed = ch.owed
            /\ d.body = ch.body /\ d.place_query = ch.place_query /\ d.dropped = ch.dropped
            /\ d.arrival = ch.arrival /\ d.untold = ch.untold /\ d.raced = ch.raced
            /\ d.query = id
        BY <1>0, TakeIs DEF Origins
      <3>2. ch' = d
        BY <1>3, <2>3
      <3> HIDE DEF d
      <3>3. QED
        BY <1>0, <1>f, <1>3, <2>2, <3>1, <3>2 DEF SamePlace, SameArrival
    <2>4. CASE result # "SENT"
      BY <1>0, <1>f, <1>3, <2>2, <2>4 DEF SamePlace, SameArrival
    <2>5. QED
      BY <2>3, <2>4
  <1>4. QED
    BY <1>1, <1>2, <1>3 DEF channel_query_cursor
-----------------------------------------------------------------------------
(* Core 1 of the mouse's board. *)

(* The link without a new placement. *)
LEMMA OutKeeps ==
  ASSUME TypeInv, remote' = remote, ch'.owed = ch.owed, moves' \in 0 .. MaxMoves, moves <= moves',
         out' = out \/ (out # <<>> /\ out' = Tail(out))
  PROVE  OutOK' /\ out' \in Seq(OutPackets) /\ ch'.owed <= moves'
  <1>0. /\ ch.owed \in Nat /\ ch.owed <= moves /\ moves \in Nat /\ MaxMoves \in Nat
        /\ out \in Seq(OutPackets) /\ InOrder(out, ch.owed, moves)
    BY Numbers
  <1>1. moves' \in Nat /\ ch'.owed <= moves'
    BY <1>0
  <1>2. ~ remote => out = <<>>
    BY DEF TypeInv, OutOK
  <1>3. CASE out' = out
    <2>1. InOrder(out, ch.owed, moves')
      BY <1>0, <1>1, OrderMore
    <2>2. QED
      BY <1>0, <1>1, <1>2, <1>3, <2>1 DEF OutOK
  <1>4. CASE out # <<>> /\ out' = Tail(out)
    <2>1. Tail(out) \in Seq(OutPackets) /\ InOrder(Tail(out), ch.owed, moves)
      BY <1>0, <1>4, OrderTail, TailIs
    <2>2. InOrder(Tail(out), ch.owed, moves')
      BY <1>0, <1>1, <2>1, OrderMore
    <2>3. QED
      BY <1>1, <1>2, <1>4, <2>1, <2>2 DEF OutOK
  <1>5. QED
    BY <1>3, <1>4

(* An answer moves a crossing on and never starts one. *)
LEMMA AppliedIs ==
  ASSUME TypeOK, NEW id, NEW c \in Applied(id)
  PROVE  /\ c \in CrossingStates /\ c.id = crossing.id /\ c.kind = crossing.kind
         /\ c.phase # "IDLE" => crossing.phase # "IDLE"
  <1>1. crossing \in CrossingStates
    BY Types
  <1>2. c = crossing \/ (crossing.phase # "IDLE" /\
          \E p \in {"REANCHORED", "CANCELLED"} : c = [crossing EXCEPT !.phase = p])
    BY DEF Applied
  <1>3. QED
    BY <1>1, <1>2 DEF CrossingStates

LEMMA SwitchesKeeps ==
  ASSUME IInv, SwitchesOutput
  PROVE  IInv'
  <1>0. TypeInv /\ TypeOK
    BY DEF IInv, TypeInv
  <1>1. PICK places \in BOOLEAN : set_active_output(IF active = "H" THEN "O" ELSE "H", places)
    BY DEF SwitchesOutput
  <1> DEFINE o == IF active = "H" THEN "O" ELSE "H"
  <1>2. o \in Outputs /\ set_active_output(o, places)
    BY <1>1 DEF Outputs
  <1> HIDE DEF o
  <1>3. /\ moves < MaxMoves /\ moves' = moves + 1
        /\ UNCHANGED <<remote, crossing, next_id, back, core0, lane, cursor, answers, faults, aims>>
    BY DEF SwitchesOutput
  <1>4. moves' \in 0 .. MaxMoves /\ moves <= moves'
    BY <1>0, <1>3, Numbers
  <1>5. /\ active' = o /\ h_active' \in {h_active, o}
        /\ ch' \in ChStates /\ out' \in Seq(OutPackets) /\ OutOK' /\ ch'.owed <= moves'
        /\ ch'.present = ch.present /\ ch'.sent = ch.sent
        /\ SamePlace(ch, ch') \/ ch'.owed = ch.owed + 1
        /\ SameArrival(ch, ch') \/ Arrives(ch')
    BY <1>0, <1>2, <1>3, <1>4, ActiveIs
  <1>6. TypeOK'
    BY <1>0, <1>2, <1>3, <1>4, <1>5, Types, TypesNext
  <1>7. QED
    BY <1>3, <1>5, <1>6, Core1Keeps

LEMMA QueryKeeps ==
  ASSUME IInv, NEW kind \in Kinds, query_source_cursor(kind)
  PROVE  IInv'
  <1>0. TypeInv /\ TypeOK
    BY DEF IInv, TypeInv
  <1> DEFINE id == next_cursor_query_id
  <1>1. /\ moves < MaxMoves /\ moves' = moves + 1 /\ next_id' = id
        /\ UNCHANGED <<remote, back, core0, lane, cursor, answers, aims>>
    BY DEF query_source_cursor
  <1>2. id \in Ids /\ id # 0
    BY <1>0, NextId, Types
  <1>3. moves' \in 0 .. MaxMoves /\ moves <= moves'
    BY <1>0, <1>1, Numbers
  <1>4. ASSUME NEW result \in {"SENT", "RETRY"}, channel_query_cursor(id, result),
               crossing' = [phase |-> "WAITING", kind |-> kind, id |-> id, sent |-> result = "SENT"],
               UNCHANGED <<active, h_active>>
        PROVE  IInv'
    <2>1. crossing' \in CrossingStates /\ crossing'.id # 0
      <3> DEFINE sent == result = "SENT"
      <3>1. sent \in BOOLEAN
        OBVIOUS
      <3> HIDE DEF id
      <3>2. crossing' = [phase |-> "WAITING", kind |-> kind, id |-> id, sent |-> sent]
        BY <1>4
      <3> HIDE DEF sent
      <3>3. QED
        BY <1>2, <3>1, <3>2 DEF CrossingStates
    <2>2. /\ ch' \in ChStates /\ out' \in Seq(OutPackets) /\ OutOK' /\ ch'.owed <= moves'
          /\ faults' \in 0 .. MaxFaults /\ SamePlace(ch, ch') /\ SameArrival(ch, ch')
      BY <1>0, <1>1, <1>2, <1>3, <1>4, QueryIs
    <2> HIDE DEF id
    <2>3. TypeOK'
      BY <1>0, <1>1, <1>2, <1>3, <1>4, <2>1, <2>2, Types, TypesNext
    <2>4. QED
      BY <1>1, <2>2, <2>3, Core1Keeps DEF SamePlace
  <1>5. ASSUME set_active_output("O", FALSE), UNCHANGED <<crossing, faults>>
        PROVE  IInv'
    <2>1. /\ active' = "O" /\ h_active' \in {h_active, "O"}
          /\ ch' \in ChStates /\ out' \in Seq(OutPackets) /\ OutOK' /\ ch'.owed <= moves'
          /\ ch'.present = ch.present /\ ch'.sent = ch.sent
          /\ SamePlace(ch, ch') \/ ch'.owed = ch.owed + 1
          /\ SameArrival(ch, ch') \/ Arrives(ch')
      BY <1>0, <1>1, <1>3, <1>5, ActiveIs DEF Outputs
    <2> HIDE DEF id
    <2>2. "O" \in Outputs
      BY DEF Outputs
    <2>3. TypeOK'
      BY <1>0, <1>1, <1>2, <1>3, <1>5, <2>1, <2>2, Types, TypesNext
    <2>4. QED
      BY <1>1, <2>1, <2>3, Core1Keeps
  <1>6. ASSUME UNCHANGED <<active, h_active, ch, out>>, UNCHANGED <<crossing, faults>>
        PROVE  IInv'
    <2>1. OutOK' /\ ch'.owed <= moves' /\ out' \in Seq(OutPackets)
      BY <1>0, <1>1, <1>3, <1>6, OutKeeps
    <2> HIDE DEF id
    <2>2. TypeOK'
      BY <1>0, <1>1, <1>2, <1>3, <1>6, <2>1, Types, TypesNext
    <2>3. QED
      BY <1>1, <1>6, <2>1, <2>2, Core1Keeps DEF SamePlace, SameArrival
  <1>7. QED
    BY <1>4, <1>5, <1>6 DEF query_source_cursor

LEMMA CorrelatedKeeps ==
  ASSUME IInv, PlacesCorrelated
  PROVE  IInv'
  <1>0. TypeInv /\ TypeOK
    BY DEF IInv, TypeInv
  <1> DEFINE id == next_cursor_query_id
             waits == [phase |-> "WAITING", kind |-> "MACOS_PLACEMENT", id |-> id, sent |-> FALSE]
  <1>1. /\ moves < MaxMoves /\ moves' = moves + 1 /\ next_id' = id
        /\ aims' = [aims EXCEPT ![id] = moves']
        /\ UNCHANGED <<remote, active, h_active, back, core0, lane, cursor, answers>>
    BY DEF PlacesCorrelated
  <1>2. id \in Ids /\ id # 0
    BY <1>0, NextId, Types
  <1>3. moves' \in 0 .. MaxMoves /\ moves <= moves' /\ moves' \in Nat /\ moves' \in Bodies
    BY <1>0, <1>1, Numbers
  <1> HIDE DEF id
  <1>4. waits \in CrossingStates /\ waits.id # 0
    BY <1>2 DEF CrossingStates, Kinds
  <1>5. aims' \in [Ids -> Bodies]
    BY <1>0, <1>1, <1>3, Types
  <1>n. /\ ch \in ChStates /\ ch.owed \in Nat /\ ch.owed <= moves /\ moves \in Nat
        /\ MaxMoves \in Nat /\ \A m \in Nat : m <= MaxMoves => m \in Bodies
        /\ out \in Seq(OutPackets) /\ InOrder(out, ch.owed, moves)
    BY <1>0, Numbers
  <1>6. CASE remote /\ out' = Append(out, Packet("PLACE", "H", moves', id)) /\ crossing' = waits
             /\ UNCHANGED <<ch, faults>>
    <2> DEFINE x == Packet("PLACE", "H", moves', id)
    <2>1. x \in OutPackets /\ x.type = "PLACE" /\ x.body = moves'
      BY <1>2, <1>3 DEF Packet, OutPackets, Outputs
    <2>2. out' = Append(out, x)
      BY <1>6
    <2> HIDE DEF x
    <2>3. out' \in Seq(OutPackets)
      BY <1>n, <2>1, <2>2, AppendIs
    <2>4. InOrder(out', ch.owed, moves')
      BY <1>1, <1>3, <1>n, <2>1, <2>2, OrderAppend
    <2>5. OutOK' /\ ch'.owed <= moves'
      BY <1>1, <1>3, <1>6, <1>n, <2>4 DEF OutOK
    <2> HIDE DEF waits
    <2>6. TypeOK'
      BY <1>0, <1>1, <1>2, <1>3, <1>4, <1>5, <1>6, <2>3, Types, TypesNext
    <2>7. QED
      BY <1>1, <1>6, <2>5, <2>6, Core1Keeps DEF SamePlace, SameArrival
  <1>7. CASE remote /\ Fault /\ UNCHANGED <<out, ch, crossing>>
    <2>1. OutOK' /\ ch'.owed <= moves' /\ out' \in Seq(OutPackets)
      BY <1>0, <1>1, <1>3, <1>7, OutKeeps
    <2>2. faults' \in 0 .. MaxFaults
      BY <1>0, <1>7, Types, Sizes DEF Fault
    <2>3. TypeOK'
      BY <1>0, <1>1, <1>2, <1>3, <1>5, <1>7, <2>1, <2>2, Types, TypesNext
    <2>4. QED
      BY <1>1, <1>7, <2>1, <2>3, Core1Keeps DEF SamePlace, SameArrival
  <1>8. CASE /\ ~ remote /\ ch' = channel_lifecycle_owe_place(ch, moves', id)
             /\ crossing' = (IF ch.present THEN waits ELSE crossing)
             /\ UNCHANGED <<out, faults>>
    <2>1. ch.owed + 1 \in Bodies
      BY <1>1, <1>3, <1>n
    <2>2. /\ ch' \in ChStates /\ ch'.present = ch.present /\ ch'.sent = ch.sent
          /\ ch'.arrival = ch.arrival /\ ch'.untold = ch.untold /\ ch'.raced = ch.raced
          /\ ch'.owed = ch.owed + 1 \/ ch' = ch
      BY <1>2, <1>3, <1>8, <1>n, <2>1 DEF channel_lifecycle_owe_place, ChStates
    <2>3. ch'.owed <= moves'
      BY <1>1, <1>n, <2>2
    <2>4. out = <<>>
      BY <1>0, <1>8 DEF TypeInv, OutOK
    <2>5. OutOK' /\ out' \in Seq(OutPackets)
      BY <1>1, <1>8, <1>n, <2>4 DEF OutOK, InOrder
    <2> HIDE DEF waits
    <2>6. crossing' \in {waits, crossing}
      BY <1>8
    <2>7. TypeOK'
      BY <1>0, <1>1, <1>2, <1>3, <1>4, <1>5, <1>8, <2>2, <2>5, <2>6, Types, TypesNext
    <2>8. QED
      BY <1>1, <2>2, <2>3, <2>5, <2>7, Core1Keeps DEF SamePlace, SameArrival
  <1>9. QED
    BY <1>6, <1>7, <1>8 DEF PlacesCorrelated, id

LEMMA CrossingTaskKeeps ==
  ASSUME IInv, CrossingRetries \/ CrossingCompletes
  PROVE  IInv'
  <1>0. TypeInv /\ TypeOK
    BY DEF IInv, TypeInv
  <1>1. /\ UNCHANGED <<remote, next_id, back, core0, lane, cursor, answers, moves, aims>>
    BY DEF CrossingRetries, CrossingCompletes
  <1>2. moves' \in 0 .. MaxMoves /\ moves <= moves'
    BY <1>0, <1>1, Numbers
  <1>3. Idle \in CrossingStates /\ Idle.phase = "IDLE" /\ "O" \in Outputs
    BY Sizes DEF Idle, CrossingStates, Kinds, Outputs
  <1>4. ASSUME CrossingRetries PROVE IInv'
    <2>1. PICK result \in {"SENT", "UNAVAILABLE"} : channel_query_cursor(crossing.id, result)
      BY <1>4 DEF CrossingRetries
    <2>2. crossing \in CrossingStates /\ crossing.id # 0
      BY <1>0, <1>4, Types DEF CrossingRetries
    <2>3. crossing.id \in Ids
      BY <2>2 DEF CrossingStates
    <2>4. crossing' \in CrossingStates /\ crossing'.id # 0 /\ UNCHANGED <<active, h_active>>
      <3>1. crossing' \in {[crossing EXCEPT !.sent = TRUE], [crossing EXCEPT !.phase = "FALLBACK"]}
            /\ UNCHANGED <<active, h_active>>
        BY <1>4 DEF CrossingRetries
      <3>2. QED
        BY <2>2, <3>1 DEF CrossingStates
    <2>5. /\ ch' \in ChStates /\ out' \in Seq(OutPackets) /\ OutOK' /\ ch'.owed <= moves'
          /\ faults' \in 0 .. MaxFaults /\ SamePlace(ch, ch') /\ SameArrival(ch, ch')
      BY <1>0, <1>1, <1>2, <2>1, <2>3, QueryIs
    <2>6. TypeOK'
      BY <1>0, <1>1, <1>2, <2>4, <2>5, Types, TypesNext
    <2>7. QED
      BY <1>1, <2>5, <2>6, Core1Keeps DEF SamePlace
  <1>5. ASSUME CrossingCompletes PROVE IInv'
    <2>1. crossing' = Idle /\ faults' = faults
      BY <1>5 DEF CrossingCompletes
    <2>2. CASE set_active_output("O", FALSE)
      <3>1. /\ active' = "O" /\ h_active' \in {h_active, "O"}
            /\ ch' \in ChStates /\ out' \in Seq(OutPackets) /\ OutOK' /\ ch'.owed <= moves'
            /\ ch'.present = ch.present /\ ch'.sent = ch.sent
            /\ SamePlace(ch, ch') \/ ch'.owed = ch.owed + 1
            /\ SameArrival(ch, ch') \/ Arrives(ch')
        BY <1>0, <1>1, <1>2, <1>3, <2>2, ActiveIs
      <3>2. TypeOK'
        BY <1>0, <1>1, <1>2, <1>3, <2>1, <3>1, Types, TypesNext
      <3>3. QED
        BY <1>1, <3>1, <3>2, Core1Keeps
    <2>3. CASE UNCHANGED <<active, h_active, out, ch>>
      <3>1. OutOK' /\ ch'.owed <= moves' /\ out' \in Seq(OutPackets)
        BY <1>0, <1>1, <1>2, <2>3, OutKeeps
      <3>2. TypeOK'
        BY <1>0, <1>1, <1>2, <1>3, <2>1, <2>3, <3>1, Types, TypesNext
      <3>3. QED
        BY <1>1, <2>3, <3>1, <3>2, Core1Keeps DEF SamePlace, SameArrival
    <2>4. QED
      BY <1>5, <2>2, <2>3 DEF CrossingCompletes
  <1>6. QED
    BY <1>4, <1>5

(* Steps that leave the channel alone. *)
LEMMA ChannelAlone ==
  ASSUME IInv, TypeOK', UNCHANGED <<remote, ch, core0, lane, cursor, moves>>,
         out' = out \/ (out # <<>> /\ out' = Tail(out))
  PROVE  IInv'
  <1>0. TypeInv /\ TypeOK
    BY DEF IInv, TypeInv
  <1>1. moves' \in 0 .. MaxMoves /\ moves <= moves' /\ remote' = remote /\ ch'.owed = ch.owed
    BY <1>0, Numbers
  <1>2. OutOK' /\ ch'.owed <= moves'
    BY <1>0, <1>1, OutKeeps
  <1>3. QED
    BY <1>2, Core1Keeps DEF SamePlace, SameArrival

LEMMA DroppedKeeps ==
  ASSUME IInv, NEW locked \in BOOLEAN, CrossingDropped(locked)
  PROVE  IInv'
  <1>0. TypeInv /\ TypeOK
    BY DEF IInv, TypeInv
  <1>1. crossing' = Idle
        /\ UNCHANGED <<remote, active, h_active, next_id, out, back, ch, core0, lane, cursor,
                       answers, moves, faults, aims>>
    BY DEF CrossingDropped, link, chan
  <1>2. Idle \in CrossingStates /\ Idle.phase = "IDLE"
    BY Sizes DEF Idle, CrossingStates, Kinds
  <1>3. TypeOK'
    BY <1>0, <1>1, <1>2, Types, TypesNext
  <1>4. QED
    BY <1>1, <1>3, ChannelAlone

LEMMA ReceivesKeeps ==
  ASSUME IInv, MouseBoardReceives
  PROVE  IInv'
  <1>0. TypeInv /\ TypeOK
    BY DEF IInv, TypeInv
  <1>1. back # <<>> /\ back' = Tail(back)
        /\ UNCHANGED <<remote, active, h_active, next_id, out, ch, core0, lane, cursor,
                       answers, moves, faults, aims>>
    BY DEF MouseBoardReceives, chan
  <1>2. back' \in Seq(BackPackets)
    BY <1>0, <1>1, Types, TailIs
  <1>3. crossing' \in CrossingStates /\ (crossing'.phase # "IDLE" => crossing'.id # 0)
    <2>1. crossing \in CrossingStates /\ (crossing.phase # "IDLE" => crossing.id # 0)
      BY <1>0, Types
    <2>2. CASE crossing' \in Applied(Head(back).id)
      BY <1>0, <2>1, <2>2, AppliedIs
    <2>3. CASE crossing' \in {[crossing EXCEPT !.phase =
                IF @ = "WAITING" /\ crossing.id = Head(back).id THEN "FALLBACK" ELSE @]}
      BY <2>1, <2>3 DEF CrossingStates
    <2>4. QED
      BY <2>2, <2>3 DEF MouseBoardReceives
  <1>4. TypeOK'
    BY <1>0, <1>1, <1>2, <1>3, Types, TypesNext
  <1>5. QED
    BY <1>1, <1>4, ChannelAlone

LEMMA LoseKeeps ==
  ASSUME IInv, Lose
  PROVE  IInv'
  <1>0. TypeInv /\ TypeOK
    BY DEF IInv, TypeInv
  <1>1. UNCHANGED <<remote, active, crossing, h_active, next_id, ch, core0, lane, cursor,
                    answers, moves, aims>>
    BY DEF Lose, chan, mouse
  <1>2. /\ out' = out \/ (out # <<>> /\ out' = Tail(out))
        /\ back' = back \/ (back # <<>> /\ back' = Tail(back))
    BY DEF Lose
  <1>3. faults' \in 0 .. MaxFaults
    BY <1>0, Types, Sizes DEF Lose, Fault
  <1>4. out' \in Seq(OutPackets) /\ back' \in Seq(BackPackets)
    BY <1>0, <1>2, Types, TailIs
  <1>5. TypeOK'
    BY <1>0, <1>1, <1>3, <1>4, Types, TypesNext
  <1>6. QED
    BY <1>1, <1>2, <1>5, ChannelAlone

LEMMA PositionKeeps ==
  ASSUME IInv, channel_lifecycle_position
  PROVE  IInv'
  <1>0. TypeInv /\ TypeOK
    BY DEF IInv, TypeInv
  <1> DEFINE a == Head(answers)
  <1>1. answers # <<>> /\ answers' = Tail(answers)
        /\ UNCHANGED <<remote, active, h_active, next_id, out, ch, core0, lane, cursor,
                       moves, faults, aims>>
    BY DEF channel_lifecycle_position
  <1>2. answers' \in Seq(Answers) /\ a \in Answers
    BY <1>0, <1>1, Types, TailIs
  <1>3. back' = back \/ back' = Append(back, Packet("POSITION", "H", a.body, a.id))
    BY DEF channel_lifecycle_position
  <1>4. crossing' = crossing \/ crossing' \in Applied(a.id)
    BY DEF channel_lifecycle_position
  <1> HIDE DEF a
  <1>5. back' \in Seq(BackPackets)
    <2> DEFINE x == Packet("POSITION", "H", a.body, a.id)
    <2>1. x \in BackPackets
      BY <1>2 DEF Answers, BackPackets, Packet
    <2> HIDE DEF x
    <2>2. back' = back \/ back' = Append(back, x)
      BY <1>3 DEF x
    <2>3. back \in Seq(BackPackets)
      BY <1>0, Types
    <2>4. Append(back, x) \in Seq(BackPackets)
      BY <2>1, <2>3
    <2>5. QED
      BY <2>2, <2>3, <2>4
  <1>6. crossing' \in CrossingStates /\ (crossing'.phase # "IDLE" => crossing'.id # 0)
    BY <1>0, <1>4, Types, AppliedIs
  <1>7. TypeOK'
    BY <1>0, <1>1, <1>2, <1>5, <1>6, Types, TypesNext
  <1>8. QED
    BY <1>1, <1>7, ChannelAlone
-----------------------------------------------------------------------------
(* Core 1 of the helper's board. *)

LEMMA ReplyIs ==
  ASSUME TypeOK, NEW id \in Ids, Reply(id)
  PROVE  back' \in Seq(BackPackets)
  <1> DEFINE x == Packet("UNAVAILABLE", "H", 0, id)
  <1>1. x \in BackPackets
    BY Sizes DEF BackPackets, Packet
  <1>2. back' = Append(back, x)
    BY DEF Reply
  <1> HIDE DEF x
  <1>3. QED
    BY <1>1, <1>2, Types, AppendIs

LEMMA SelectKeeps ==
  ASSUME IInv, handle_output_select_msg
  PROVE  IInv'
  <1>0. TypeInv /\ TypeOK
    BY DEF IInv, TypeInv
  <1> DEFINE o == Head(out).output
             d == channel_lifecycle_arrive(ch, o)
  <1>1. out # <<>> /\ out' = Tail(out) /\ h_active' = o /\ ch' = d
        /\ UNCHANGED <<remote, active, crossing, next_id, back, core0, lane, cursor, answers,
                       moves, faults, aims>>
    BY DEF handle_output_select_msg, mouse
  <1>2. Head(out) \in OutPackets
    BY <1>0, <1>1, Types, TailIs
  <1>3. o \in Outputs
    BY <1>2 DEF OutPackets
  <1>4. /\ d \in ChStates /\ d.present = ch.present /\ d.sent = ch.sent /\ d.owed = ch.owed
        /\ d.body = ch.body /\ d.place_query = ch.place_query /\ d.dropped = ch.dropped
        /\ d.untold = d.arrival /\ (d.untold /\ core0.at = "clear" => d.raced)
    BY <1>0, Types, ArriveIs
  <1> HIDE DEF o, d
  <1>5. moves' \in 0 .. MaxMoves /\ moves <= moves' /\ remote' = remote /\ ch'.owed = ch.owed
    BY <1>0, <1>1, <1>4, Numbers
  <1>6. OutOK' /\ out' \in Seq(OutPackets) /\ ch'.owed <= moves'
    BY <1>0, <1>1, <1>5, OutKeeps
  <1>7. TypeOK'
    BY <1>0, <1>1, <1>3, <1>4, <1>6, Types, TypesNext
  <1>8. SamePlace(ch, ch') /\ Arrives(ch')
    BY <1>1, <1>4 DEF SamePlace, Arrives
  <1>9. QED
    BY <1>1, <1>4, <1>6, <1>7, <1>8, Core1Keeps

LEMMA QueryMsgKeeps ==
  ASSUME IInv, handle_cursor_query_msg
  PROVE  IInv'
  <1>0. TypeInv /\ TypeOK
    BY DEF IInv, TypeInv
  <1> DEFINE id == Head(out).id
             d == take_query(ch, "PEER", id)
  <1>1. out # <<>> /\ out' = Tail(out)
        /\ UNCHANGED <<remote, active, crossing, h_active, next_id, core0, lane, cursor, answers,
                       moves, faults, aims>>
        /\ ((ch' = d /\ back' = back) \/ (ch' = ch /\ Reply(id)))
    BY DEF handle_cursor_query_msg, mouse
  <1>2. Head(out) \in OutPackets
    BY <1>0, <1>1, Types, TailIs
  <1>3. id \in Ids
    BY <1>2 DEF OutPackets
  <1>4. /\ d \in ChStates /\ d.present = ch.present /\ d.sent = ch.sent /\ d.owed = ch.owed
        /\ d.body = ch.body /\ d.place_query = ch.place_query /\ d.dropped = ch.dropped
        /\ d.arrival = ch.arrival /\ d.untold = ch.untold /\ d.raced = ch.raced
    <2>1. ch \in ChStates
      BY <1>0, Types
    <2> HIDE DEF id
    <2>2. QED
      BY <1>3, <2>1 DEF take_query, ChStates
  <1> HIDE DEF id, d
  <1>5. ch' \in ChStates /\ back' \in Seq(BackPackets)
    BY <1>0, <1>1, <1>3, <1>4, Types, ReplyIs
  <1>6. SamePlace(ch, ch') /\ SameArrival(ch, ch')
    BY <1>1, <1>4 DEF SamePlace, SameArrival
  <1>7. moves' \in 0 .. MaxMoves /\ moves <= moves' /\ remote' = remote /\ ch'.owed = ch.owed
    BY <1>0, <1>1, <1>6, Numbers DEF SamePlace
  <1>8. OutOK' /\ out' \in Seq(OutPackets) /\ ch'.owed <= moves'
    BY <1>0, <1>1, <1>7, OutKeeps
  <1>9. TypeOK'
    BY <1>0, <1>1, <1>5, <1>8, Types, TypesNext
  <1>10. QED
    BY <1>1, <1>6, <1>8, <1>9, Core1Keeps DEF SamePlace

LEMMA PlaceMsgKeeps ==
  ASSUME IInv, handle_cursor_place_msg
  PROVE  IInv'
  <1>0. TypeInv /\ TypeOK
    BY DEF IInv, TypeInv
  <1> DEFINE h == Head(out)
             d == channel_lifecycle_owe_place(ch, h.body, h.id)
  <1>1. remote /\ out # <<>> /\ h.type = "PLACE" /\ out' = Tail(out) /\ ch' = d
        /\ UNCHANGED <<remote, active, crossing, h_active, next_id, core0, lane, cursor, answers,
                       moves, faults, aims>>
        /\ (back' = back \/ Reply(h.id))
    BY DEF handle_cursor_place_msg, mouse
  <1>2. /\ ch \in ChStates /\ ch.owed \in Nat /\ ch.owed <= moves /\ moves \in Nat
        /\ MaxMoves \in Nat /\ moves <= MaxMoves /\ \A m \in Nat : m <= MaxMoves => m \in Bodies
        /\ out \in Seq(OutPackets) /\ InOrder(out, ch.owed, moves)
    BY <1>0, Numbers
  <1>3. h \in OutPackets /\ Tail(out) \in Seq(OutPackets)
    BY <1>1, <1>2, TailIs
  <1>4. h.id \in Ids /\ h.body \in Bodies /\ h.body \in Nat
    BY <1>3, PacketBodies DEF OutPackets
  <1>5. /\ InOrder(Tail(out), ch.owed, moves) /\ InOrder(Tail(out), ch.owed + 1, moves)
        /\ ch.owed + 1 <= h.body /\ h.body <= moves
    BY <1>1, <1>2, OrderTail
  <1> HIDE DEF h
  <1>6. ch.owed + 1 \in Bodies /\ ch.owed + 1 <= moves
    BY <1>2, <1>4, <1>5
  <1>7. /\ d \in ChStates /\ d.present = ch.present /\ d.sent = ch.sent
        /\ d.arrival = ch.arrival /\ d.untold = ch.untold /\ d.raced = ch.raced
        /\ d.owed = ch.owed + 1 \/ d = ch
    BY <1>2, <1>4, <1>6 DEF channel_lifecycle_owe_place, ChStates
  <1> HIDE DEF d
  <1>8. OutOK' /\ ch'.owed <= moves' /\ out' \in Seq(OutPackets)
    <2>1. ch'.owed \in {ch.owed, ch.owed + 1}
      BY <1>1, <1>7
    <2>2. InOrder(out', ch'.owed, moves') /\ ch'.owed <= moves'
      BY <1>1, <1>2, <1>5, <1>6, <2>1
    <2>3. QED
      BY <1>1, <1>3, <2>2 DEF OutOK
  <1>9. back' \in Seq(BackPackets)
    BY <1>0, <1>1, <1>4, Types, ReplyIs
  <1>10. TypeOK'
    BY <1>0, <1>1, <1>7, <1>8, <1>9, Types, TypesNext
  <1>11. SamePlace(ch, ch') \/ ch'.owed = ch.owed + 1
    BY <1>1, <1>7 DEF SamePlace
  <1>12. SameArrival(ch, ch')
    BY <1>1, <1>7 DEF SameArrival
  <1>13. QED
    BY <1>1, <1>7, <1>8, <1>10, <1>11, <1>12, Core1Keeps

-----------------------------------------------------------------------------
(* Core 0 of the helper's board. *)

LEMMA RestingIs ==
  Resting \in CoreStates /\ Resting.at = "idle"
  BY Sizes DEF Resting, CoreStates

(* The lane takes a frame that is no placement. *)
LEMMA LaneAppend ==
  ASSUME TypeOK, PlaceFirst, NEW x \in Frames, x.type # "PLACE", lane' = Append(lane, x),
         cursor' = cursor, Len(lane) < PRIORITY_SLOTS
  PROVE  /\ lane' \in Seq(Frames) /\ Len(lane') <= PRIORITY_SLOTS /\ Len(lane') = Len(lane) + 1
         /\ PlaceFirst' /\ Landing' = Landing /\ Len(lane) \in Nat
         /\ lane'[Len(lane) + 1] = x /\ \A i \in 1 .. Len(lane) : lane'[i] = lane[i]
  <1>0. lane \in Seq(Frames)
    BY Types
  <1>1. lane' \in Seq(Frames) /\ Len(lane') = Len(lane) + 1 /\ Len(lane) \in Nat
        /\ lane'[Len(lane) + 1] = x /\ \A i \in 1 .. Len(lane) : lane'[i] = lane[i]
    BY <1>0, AppendIs
  <1>2. Len(lane') <= PRIORITY_SLOTS
    BY <1>1, Sizes
  <1>3. PlaceFirst'
    <2>1. SUFFICES ASSUME NEW i \in 1 .. Len(lane'), lane'[i].type = "PLACE" PROVE i = 1
      BY DEF PlaceFirst
    <2>2. i \in 1 .. Len(lane)
      BY <1>1, <2>1
    <2>3. QED
      BY <1>1, <2>1, <2>2 DEF PlaceFirst
  <1>4. Landing' = Landing
    <2>1. lane' # <<>>
      BY <1>0, <1>1
    <2>2. CASE lane = <<>>
      <3>1. lane'[1] = x
        BY <1>1, <2>2
      <3>2. QED
        BY <2>1, <2>2, <3>1 DEF Landing
    <2>3. CASE lane # <<>>
      <3>1. 1 \in 1 .. Len(lane)
        BY <1>0, <1>1, <2>3
      <3>2. lane'[1] = lane[1]
        BY <1>1, <3>1
      <3>3. QED
        BY <2>1, <2>3, <3>2 DEF Landing
    <2>4. QED
      BY <2>2, <2>3
  <1>5. QED
    BY <1>1, <1>2, <1>3, <1>4

(* The parts of a core 0 step: no number changes on core 1's side. *)
LEMMA Core0Keeps ==
  ASSUME IInv, TypeOK', UNCHANGED <<remote, out, moves>>, ch'.owed = ch.owed,
         ch'.sent <= ch.owed,
         core0'.at = "place" => core0'.owed <= ch.owed /\ lane' = <<>>,
         core0'.at = "owed" => Len(lane') < PRIORITY_SLOTS,
         PlaceFirst', LandOK', LookedOK', ArrivalOK'
  PROVE  IInv'
  <1>0. TypeInv /\ TypeOK
    BY DEF IInv, TypeInv
  <1>1. moves' \in 0 .. MaxMoves /\ moves <= moves'
    BY <1>0, Numbers
  <1>2. OutOK' /\ ch'.owed <= moves'
    BY <1>0, <1>1, OutKeeps
  <1>3. OwedOK'
    BY <1>2 DEF OwedOK
  <1>4. QED
    BY <1>2, <1>3 DEF IInv, TypeInv

LEMMA LooksKeep ==
  ASSUME IInv, PlaceLooks \/ QueryLooks \/ OwedLooks
  PROVE  IInv'
  <1>0. TypeInv /\ TypeOK
    BY DEF IInv, TypeInv
  <1>1. UNCHANGED <<remote, active, crossing, h_active, next_id, out, back, ch, lane, cursor,
                    answers, moves, faults, aims>>
    BY DEF PlaceLooks, QueryLooks, OwedLooks, mouse, link
  <1>2. ch \in ChStates /\ ch.owed \in Nat /\ Len(lane) \in Nat
    BY <1>0, Types, Numbers
  <1>3. /\ core0' \in CoreStates /\ core0'.at # "clear"
        /\ core0'.at = "place" => /\ core0'.owed = ch.owed /\ core0'.body = ch.body
                                  /\ lane = <<>>
        /\ core0'.at = "owed" => Len(lane) < PRIORITY_SLOTS
    <2>1. CASE PlaceLooks
      BY <1>2, <2>1, Sizes DEF PlaceLooks, Resting, CoreStates, ChStates, pair_busy
    <2>2. CASE QueryLooks
      BY <1>2, <2>2, Sizes DEF QueryLooks, Resting, CoreStates, ChStates
    <2>3. CASE OwedLooks
      BY <1>2, <2>3, Sizes DEF OwedLooks, Resting, CoreStates, priority_full
    <2>4. QED
      BY <2>1, <2>2, <2>3
  <1>4. TypeOK'
    BY <1>0, <1>1, <1>3, Types, TypesNext
  <1>5. PlaceFirst' /\ LandOK'
    BY <1>1 DEF IInv, PlaceFirst, LandOK, Landing
  <1>6. LookedOK'
    BY <1>1, <1>3 DEF LookedOK
  <1>7. ArrivalOK'
    BY <1>1, <1>3 DEF IInv, ArrivalOK
  <1>8. ch'.owed = ch.owed /\ ch'.sent <= ch.owed
    BY <1>0, <1>1 DEF TypeInv, OwedOK
  <1>9. core0'.at = "place" => core0'.owed <= ch.owed /\ lane' = <<>>
    BY <1>1, <1>2, <1>3
  <1>10. core0'.at = "owed" => Len(lane') < PRIORITY_SLOTS
    BY <1>1, <1>3
  <1>11. QED
    BY <1>1, <1>4, <1>5, <1>6, <1>7, <1>8, <1>9, <1>10, Core0Keeps

LEMMA StaleKeeps ==
  ASSUME IInv, PlaceStale
  PROVE  IInv'
  <1>0. TypeInv /\ TypeOK
    BY DEF IInv, TypeInv
  <1>1. core0.at = "idle" /\ ch' = [ch EXCEPT !.sent = ch.owed, !.dropped = TRUE]
        /\ UNCHANGED <<remote, active, crossing, h_active, next_id, out, back, core0, lane, cursor,
                       answers, moves, aims>>
    BY DEF PlaceStale, mouse, link
  <1>2. ch \in ChStates /\ ch.owed \in Nat
    BY <1>0, Numbers
  <1>3. /\ ch' \in ChStates /\ ch'.owed = ch.owed /\ ch'.sent = ch.owed /\ ch'.dropped
        /\ ch'.present = ch.present
        /\ ch'.arrival = ch.arrival /\ ch'.untold = ch.untold /\ ch'.raced = ch.raced
    BY <1>1, <1>2 DEF ChStates
  <1>4. faults' \in 0 .. MaxFaults
    BY <1>0, Types, Sizes DEF PlaceStale, Fault
  <1>5. TypeOK'
    BY <1>0, <1>1, <1>3, <1>4, Types, TypesNext
  <1>6. PlaceFirst' /\ LandOK' /\ LookedOK' /\ ArrivalOK'
    BY <1>1, <1>3 DEF IInv, PlaceFirst, LandOK, LookedOK, ArrivalOK
  <1>7. ch'.sent <= ch.owed /\ core0'.at = "idle"
    BY <1>1, <1>2, <1>3
  <1>8. QED
    BY <1>1, <1>3, <1>5, <1>6, <1>7, Core0Keeps

LEMMA PlaceActsKeeps ==
  ASSUME IInv, PlaceActs
  PROVE  IInv'
  <1>0. TypeInv /\ TypeOK
    BY DEF IInv, TypeInv
  <1> DEFINE x == Frame("PLACE", core0.body, 0)
             y == Frame("POS_QUERY", 0, core0.id)
             drop == ch.dropped \/ (~ch.present /\ ch.owed = core0.owed)
  <1>1. core0.at = "place" /\ core0' = Resting
        /\ UNCHANGED <<remote, active, crossing, h_active, next_id, out, back, cursor,
                       answers, moves, faults, aims>>
    BY DEF PlaceActs, mouse, link
  <1>2. lane = <<>> /\ core0.owed <= ch.owed
    BY <1>0, <1>1 DEF TypeInv, OwedOK
  <1>3. ch \in ChStates /\ core0 \in CoreStates
    BY <1>0, Types
  <1>4. drop \in BOOLEAN
    BY <1>3, Zenon DEF ChStates
  <1>5. ~ drop => ~ ch.dropped
    OBVIOUS
  <1>6. ch' = [ch EXCEPT !.sent = core0.owed, !.dropped = drop]
    BY DEF PlaceActs, SentMark
  <1>7. x \in Frames /\ y \in Frames /\ x.type = "PLACE" /\ y.type = "POS_QUERY"
        /\ x.body = core0.body
    BY <1>3, Sizes DEF Frame, Frames, CoreStates
  <1>8. lane' = IF ch.present THEN lane \o <<x, y>> ELSE lane
    BY DEF PlaceActs, PlaceQuery
  <1> HIDE DEF x, y, drop
  <1>9. /\ ch' \in ChStates /\ ch'.owed = ch.owed /\ ch'.sent = core0.owed
        /\ ch'.present = ch.present /\ ch'.body = ch.body /\ (~ ch'.dropped => ~ ch.dropped)
        /\ ch'.arrival = ch.arrival /\ ch'.untold = ch.untold /\ ch'.raced = ch.raced
    BY <1>3, <1>4, <1>5, <1>6 DEF ChStates, CoreStates
  <1>10. /\ lane' \in Seq(Frames) /\ Len(lane') <= PRIORITY_SLOTS /\ PlaceFirst'
         /\ ch.present => Landing' = core0.body
    <2>1. CASE ch.present
      <3>1. lane' = <<x, y>>
        BY <1>2, <1>7, <1>8, <2>1
      <3>2. lane' \in Seq(Frames) /\ Len(lane') = 2 /\ lane'[1] = x /\ lane'[2] = y /\ lane' # <<>>
        BY <1>7, <3>1
      <3>3. PlaceFirst'
        BY <1>7, <3>2 DEF PlaceFirst
      <3>4. QED
        BY <1>7, <3>2, <3>3, Sizes DEF Landing
    <2>2. CASE ~ ch.present
      <3>1. lane' = lane
        BY <1>8, <2>2
      <3>2. QED
        BY <1>0, <2>2, <3>1, Types DEF IInv, PlaceFirst
    <2>3. QED
      BY <2>1, <2>2
  <1>11. TypeOK'
    BY <1>0, <1>1, <1>9, <1>10, RestingIs, Types, TypesNext
  <1>12. LandOK'
    BY <1>1, <1>9, <1>10 DEF IInv, LandOK, LookedOK
  <1>13. LookedOK' /\ ArrivalOK'
    BY <1>1, <1>9, RestingIs DEF IInv, LookedOK, ArrivalOK
  <1>14. ch'.sent <= ch.owed /\ core0'.at = "idle"
    BY <1>1, <1>2, <1>9, RestingIs
  <1>15. QED
    BY <1>1, <1>9, <1>10, <1>11, <1>12, <1>13, <1>14, Core0Keeps

LEMMA QueryActsKeeps ==
  ASSUME IInv, QueryActs
  PROVE  IInv'
  <1>0. TypeInv /\ TypeOK
    BY DEF IInv, TypeInv
  <1>1. core0' = Resting
        /\ UNCHANGED <<remote, active, crossing, h_active, next_id, out, cursor, answers, moves, aims>>
    BY DEF QueryActs, mouse
  <1>2. ch \in ChStates /\ core0 \in CoreStates /\ Len(lane) \in Nat
    BY <1>0, Types
  <1>3. core0.id \in Ids
    BY <1>2 DEF CoreStates
  <1>4. ch' \in ChStates /\ SamePlace(ch, ch') /\ SameArrival(ch, ch')
    <2>1. ch' = ch \/ ch' = Cleared
      BY DEF QueryActs
    <2>2. QED
      BY <1>2, <2>1, ClearedIs DEF SamePlace, SameArrival
  <1>5. faults' \in 0 .. MaxFaults
    BY <1>0, Types, Sizes DEF QueryActs, Fault
  <1>6. back' \in Seq(BackPackets)
    <2>1. back' = back \/ Reply(core0.id)
      BY DEF QueryActs
    <2>2. QED
      BY <1>0, <1>3, <2>1, Types, ReplyIs
  <1>7. lane' \in Seq(Frames) /\ Len(lane') <= PRIORITY_SLOTS /\ PlaceFirst' /\ Landing' = Landing
    <2> DEFINE x == Frame("POS_QUERY", 0, core0.id)
    <2>1. lane' = lane \/ (lane' = Append(lane, x) /\ Len(lane) < PRIORITY_SLOTS)
      BY <1>2, Sizes DEF QueryActs, priority_full
    <2>2. x \in Frames /\ x.type # "PLACE"
      BY <1>3, Sizes DEF Frame, Frames
    <2> HIDE DEF x
    <2>3. PlaceFirst
      BY DEF IInv
    <2>4. CASE lane' = lane
      BY <1>0, <1>1, <2>3, <2>4, Types DEF PlaceFirst, Landing
    <2>5. CASE lane' = Append(lane, x) /\ Len(lane) < PRIORITY_SLOTS
      BY <1>0, <1>1, <2>2, <2>3, <2>5, LaneAppend
    <2>6. QED
      BY <2>1, <2>4, <2>5
  <1>8. TypeOK'
    BY <1>0, <1>1, <1>4, <1>5, <1>6, <1>7, RestingIs, Types, TypesNext
  <1>9. LandOK' /\ LookedOK' /\ ArrivalOK'
    BY <1>1, <1>4, <1>7, RestingIs DEF IInv, LandOK, LookedOK, ArrivalOK, SamePlace, SameArrival
  <1>10. ch'.owed = ch.owed /\ ch'.sent <= ch.owed /\ core0'.at = "idle"
    BY <1>0, <1>1, <1>4, RestingIs DEF TypeInv, OwedOK, SamePlace
  <1>11. QED
    BY <1>1, <1>7, <1>8, <1>9, <1>10, Core0Keeps

LEMMA OwedActsKeeps ==
  ASSUME IInv, OwedActs
  PROVE  IInv'
  <1>0. TypeInv /\ TypeOK
    BY DEF IInv, TypeInv
  <1> DEFINE x == Frame("ARRIVAL", 0, 0)
  <1>1. core0.at = "owed" /\ core0' = [Resting EXCEPT !.at = "clear"]
        /\ ch' = [ch EXCEPT !.untold = FALSE, !.raced = FALSE]
        /\ (lane' = lane \/ lane' = Append(lane, x))
        /\ UNCHANGED <<remote, active, crossing, h_active, next_id, out, back, cursor, answers,
                       moves, faults, aims>>
    BY DEF OwedActs, mouse, link
  <1>2. ch \in ChStates
    BY <1>0, Types
  <1>3. /\ ch' \in ChStates /\ SamePlace(ch, ch') /\ ~ ch'.untold
    BY <1>1, <1>2 DEF ChStates, SamePlace
  <1>4. core0' \in CoreStates /\ core0'.at = "clear"
    BY <1>1, Sizes DEF Resting, CoreStates
  <1>5. Len(lane) < PRIORITY_SLOTS
    BY <1>0, <1>1 DEF TypeInv, OwedOK
  <1>6. x \in Frames /\ x.type # "PLACE"
    BY Sizes DEF Frame, Frames
  <1> HIDE DEF x
  <1>7. lane' \in Seq(Frames) /\ Len(lane') <= PRIORITY_SLOTS /\ PlaceFirst' /\ Landing' = Landing
    <2>1. PlaceFirst
      BY DEF IInv
    <2>2. CASE lane' = lane
      BY <1>0, <1>1, <2>1, <2>2, Types DEF PlaceFirst, Landing
    <2>3. CASE lane' = Append(lane, x)
      BY <1>0, <1>1, <1>5, <1>6, <2>1, <2>3, LaneAppend
    <2>4. QED
      BY <1>1, <2>2, <2>3
  <1>8. TypeOK'
    BY <1>0, <1>1, <1>3, <1>4, <1>7, Types, TypesNext
  <1>9. LandOK' /\ LookedOK' /\ ArrivalOK'
    BY <1>3, <1>4, <1>7 DEF IInv, LandOK, LookedOK, ArrivalOK, SamePlace
  <1>10. ch'.owed = ch.owed /\ ch'.sent <= ch.owed
    BY <1>0, <1>3 DEF TypeInv, OwedOK, SamePlace
  <1>11. QED
    BY <1>1, <1>4, <1>7, <1>8, <1>9, <1>10, Core0Keeps

LEMMA OwedClearsKeeps ==
  ASSUME IInv, OwedClears
  PROVE  IInv'
  <1>0. TypeInv /\ TypeOK
    BY DEF IInv, TypeInv
  <1>1. core0.at = "clear" /\ core0' = Resting /\ ch' = [ch EXCEPT !.arrival = FALSE]
        /\ UNCHANGED <<remote, active, crossing, h_active, next_id, out, back, lane, cursor, answers,
                       moves, faults, aims>>
    BY DEF OwedClears, mouse, link
  <1>2. ch \in ChStates
    BY <1>0, Types
  <1>3. /\ ch' \in ChStates /\ SamePlace(ch, ch') /\ ch'.untold = ch.untold /\ ch'.raced = ch.raced
    BY <1>1, <1>2 DEF ChStates, SamePlace
  <1>4. TypeOK'
    BY <1>0, <1>1, <1>3, RestingIs, Types, TypesNext
  <1>5. PlaceFirst' /\ LandOK' /\ LookedOK' /\ ArrivalOK'
    BY <1>1, <1>3, RestingIs DEF IInv, PlaceFirst, Landing, LandOK, LookedOK, ArrivalOK, SamePlace
  <1>6. ch'.owed = ch.owed /\ ch'.sent <= ch.owed /\ core0'.at = "idle"
    BY <1>0, <1>1, <1>3, RestingIs DEF TypeInv, OwedOK, SamePlace
  <1>7. QED
    BY <1>1, <1>4, <1>5, <1>6, Core0Keeps

LEMMA SessionKeeps ==
  ASSUME IInv, SessionEnds \/ LinkLost \/ HelloAck
  PROVE  IInv'
  <1>0. TypeInv /\ TypeOK
    BY DEF IInv, TypeInv
  <1>1. PICK present \in BOOLEAN, resets \in BOOLEAN : SessionChanges(present, resets)
    BY DEF SessionEnds, LinkLost, HelloAck
  <1>2. faults' \in 0 .. MaxFaults
    <2>1. (faults < MaxFaults /\ faults' = faults + 1) \/ faults' = faults
      BY DEF SessionEnds, LinkLost, HelloAck, Fault
    <2>2. faults \in 0 .. MaxFaults /\ MaxFaults \in Nat
      BY <1>0, Types, Sizes
    <2>3. QED
      BY <2>1, <2>2
  <1>3. core0.at = "idle" /\ (lane' = <<>> \/ lane' = lane) /\ answers' = <<>>
        /\ UNCHANGED <<remote, active, crossing, h_active, next_id, out, back, core0, cursor,
                       moves, aims>>
    BY <1>1 DEF SessionChanges, mouse, link
  <1>4. ch \in ChStates
    BY <1>0, Types
  <1>5. /\ ch' \in ChStates /\ ch'.owed = ch.owed /\ ch'.sent \in {ch.sent, ch.owed}
        /\ ch'.dropped /\ ~ ch'.untold
    <2> DEFINE origin == IF resets /\ ~present THEN "NONE" ELSE ch.origin
               query == IF resets /\ ~present THEN 0 ELSE ch.query
               sent == IF resets THEN ch.owed ELSE ch.sent
    <2>1. origin \in {"NONE", "LOCAL", "PEER"} /\ query \in Ids
          /\ sent \in {ch.sent, ch.owed}
      BY <1>4, Sizes DEF ChStates
    <2>2. ch' = [ch EXCEPT !.present = present, !.origin = origin, !.query = query,
                           !.sent = sent, !.dropped = TRUE, !.untold = FALSE]
      BY <1>1 DEF SessionChanges
    <2> HIDE DEF origin, query, sent
    <2>3. QED
      BY <1>4, <2>1, <2>2 DEF ChStates
  <1>6. lane' \in Seq(Frames) /\ Len(lane') <= PRIORITY_SLOTS /\ PlaceFirst'
        /\ answers' \in Seq(Answers)
    <2>1. <<>> \in Seq(Frames) /\ <<>> \in Seq(Answers) /\ Len(<<>>) = 0
      OBVIOUS
    <2>2. CASE lane' = <<>>
      BY <1>3, <2>1, <2>2, Sizes DEF PlaceFirst
    <2>3. CASE lane' = lane
      BY <1>0, <1>3, <2>1, <2>3, Types DEF IInv, PlaceFirst
    <2>4. QED
      BY <1>3, <2>2, <2>3
  <1>7. TypeOK'
    BY <1>0, <1>2, <1>3, <1>5, <1>6, Types, TypesNext
  <1>8. LandOK' /\ LookedOK' /\ ArrivalOK'
    BY <1>3, <1>5 DEF LandOK, LookedOK, ArrivalOK
  <1>9. ch'.sent <= ch.owed /\ core0'.at = "idle"
    BY <1>0, <1>3, <1>5, Numbers DEF TypeInv, OwedOK
  <1>10. QED
    BY <1>3, <1>5, <1>6, <1>7, <1>8, <1>9, Core0Keeps

(* The helper takes a frame: the cursor goes where it was to land. *)
LEMMA TakesIs ==
  ASSUME TypeOK, PlaceFirst, HelperTakes
  PROVE  /\ lane # <<>> /\ lane' = Tail(lane) /\ lane' \in Seq(Frames) /\ Len(lane) \in Nat
         /\ Len(lane') = Len(lane) - 1 /\ Head(lane) = lane[1] /\ Head(lane) \in Frames
         /\ \A i \in 1 .. Len(lane') : i + 1 \in 1 .. Len(lane) /\ lane'[i] = lane[i + 1]
         /\ cursor' \in Bodies /\ PlaceFirst' /\ Landing' = Landing
         /\ \A i \in 1 .. Len(lane') : lane'[i].type # "PLACE"
         /\ lane[1].type # "PLACE" => cursor = Landing
  <1>0. lane # <<>> /\ lane' = Tail(lane)
        /\ cursor' = IF Head(lane).type = "PLACE" THEN Head(lane).body ELSE cursor
    BY DEF HelperTakes
  <1>1. /\ lane' \in Seq(Frames) /\ Len(lane') = Len(lane) - 1 /\ Len(lane) \in Nat
        /\ Head(lane) = lane[1] /\ Head(lane) \in Frames
        /\ \A i \in 1 .. Len(lane') : i + 1 \in 1 .. Len(lane) /\ lane'[i] = lane[i + 1]
    BY <1>0, Types, TailIs
  <1>2. ASSUME NEW i \in 1 .. Len(lane') PROVE lane'[i].type # "PLACE"
    <2>1. i + 1 \in 1 .. Len(lane) /\ lane'[i] = lane[i + 1] /\ i + 1 # 1
      BY <1>1
    <2>2. QED
      BY <2>1 DEF PlaceFirst
  <1>3. PlaceFirst'
    BY <1>2 DEF PlaceFirst
  <1>4. Landing' = cursor'
    <2>1. CASE lane' = <<>>
      BY <2>1 DEF Landing
    <2>2. CASE lane' # <<>>
      <3>1. 1 \in 1 .. Len(lane')
        BY <1>1, <2>2
      <3>2. lane'[1].type # "PLACE"
        BY <1>2, <3>1
      <3>3. QED
        BY <3>2 DEF Landing
    <2>3. QED
      BY <2>1, <2>2
  <1>5. cursor' = Landing /\ (lane[1].type # "PLACE" => cursor = Landing)
    BY <1>0, <1>1 DEF Landing
  <1>6. cursor' \in Bodies
    BY <1>0, <1>1, Types DEF Frames
  <1>7. QED
    BY <1>0, <1>1, <1>2, <1>3, <1>4, <1>5, <1>6

LEMMA TakesKeeps ==
  ASSUME IInv, HelperTakes
  PROVE  IInv'
  <1>0. TypeInv /\ TypeOK /\ PlaceFirst
    BY DEF IInv, TypeInv
  <1>1. UNCHANGED <<remote, active, crossing, h_active, next_id, out, back, ch, core0, moves,
                    faults, aims>>
    BY DEF HelperTakes, mouse, link
  <1>2. /\ lane # <<>> /\ lane' \in Seq(Frames) /\ Len(lane) \in Nat /\ Len(lane') = Len(lane) - 1
        /\ Head(lane) \in Frames /\ cursor' \in Bodies /\ PlaceFirst' /\ Landing' = Landing
    BY <1>0, TakesIs
  <1>3. answers' \in Seq(Answers)
    <2> DEFINE x == [id |-> Head(lane).id, body |-> cursor]
    <2>1. x \in Answers
      BY <1>0, <1>2, Types DEF Frames, Answers
    <2>2. answers' = answers \/ answers' = Append(answers, x)
      BY DEF HelperTakes
    <2> HIDE DEF x
    <2>3. answers \in Seq(Answers)
      BY <1>0, Types
    <2>4. Append(answers, x) \in Seq(Answers)
      BY <2>1, <2>3
    <2>5. QED
      BY <2>2, <2>3, <2>4
  <1>4. Len(lane) <= PRIORITY_SLOTS
    BY <1>0, Types
  <1>5. Len(lane') <= PRIORITY_SLOTS /\ Len(lane') < PRIORITY_SLOTS
    BY <1>2, <1>4, Sizes
  <1>6. TypeOK'
    BY <1>0, <1>1, <1>2, <1>3, <1>5, Types, TypesNext
  <1>7. LandOK' /\ LookedOK' /\ ArrivalOK'
    BY <1>1, <1>2 DEF IInv, LandOK, LookedOK, ArrivalOK
  <1>8. core0.at # "place" /\ ch'.sent <= ch.owed
    BY <1>0, <1>1, <1>2 DEF TypeInv, OwedOK
  <1>9. QED
    BY <1>1, <1>2, <1>5, <1>6, <1>7, <1>8, Core0Keeps
-----------------------------------------------------------------------------
(* The invariant holds. *)
LEMMA InitIInv == Init => IInv
  <1> SUFFICES ASSUME Init PROVE IInv
    OBVIOUS
  <1>1. /\ out = <<>> /\ lane = <<>> /\ core0 = Resting /\ crossing = Idle /\ cursor = 0
        /\ back = <<>> /\ answers = <<>> /\ moves = 0 /\ faults = 0
        /\ remote \in BOOLEAN /\ active \in Outputs /\ h_active = active
        /\ next_id = ID_MOD - 2 /\ aims = [i \in Ids |-> 0]
        /\ ch = [present |-> TRUE, origin |-> "NONE", query |-> 0, owed |-> 0, sent |-> 0,
                 body |-> 0, place_query |-> 0, arrival |-> FALSE,
                 dropped |-> FALSE, untold |-> FALSE, raced |-> FALSE]
    BY DEF Init
  <1>2. /\ ch \in ChStates /\ ch.owed = 0 /\ ch.sent = 0 /\ ch.body = 0 /\ ~ ch.untold
        /\ ~ ch.arrival
    BY <1>1, Sizes DEF ChStates
  <1>3. crossing \in CrossingStates /\ crossing.phase = "IDLE"
    BY <1>1, Sizes DEF Idle, CrossingStates, Kinds
  <1>4. next_id \in Ids /\ aims \in [Ids -> Bodies] /\ cursor \in Bodies
        /\ moves \in 0 .. MaxMoves /\ faults \in 0 .. MaxFaults
    BY <1>1, Sizes DEF Ids
  <1>5. core0 \in CoreStates /\ core0.at = "idle"
    BY <1>1, RestingIs
  <1>6. /\ out \in Seq(OutPackets) /\ back \in Seq(BackPackets) /\ lane \in Seq(Frames)
        /\ answers \in Seq(Answers) /\ Len(lane) = 0 /\ Len(out) = 0
    BY <1>1
  <1>7. TypeOK
    BY <1>1, <1>2, <1>3, <1>4, <1>5, <1>6, Sizes
    DEF TypeOK, CrossingStates, OutPackets, BackPackets, ChStates, CoreStates, Frames, Answers
  <1>8. OutOK /\ OwedOK
    BY <1>1, <1>2, <1>5, <1>6, Sizes DEF OutOK, OwedOK, InOrder
  <1>9. PlaceFirst /\ LandOK /\ LookedOK /\ ArrivalOK
    BY <1>1, <1>2, <1>5, <1>6 DEF PlaceFirst, LandOK, Landing, LookedOK, ArrivalOK
  <1>10. QED
    BY <1>7, <1>8, <1>9 DEF IInv, TypeInv

LEMMA StutterKeeps ==
  ASSUME IInv, UNCHANGED vars
  PROVE  IInv'
  <1>1. UNCHANGED <<remote, active, crossing, h_active, next_id, out, back, ch, core0, lane,
                    cursor, answers, moves, faults, aims>>
    BY DEF vars, mouse, link, chan
  <1>2. TypeOK'
    BY <1>1, Types, TypesNext DEF IInv, TypeInv
  <1>3. QED
    BY <1>1, <1>2, ChannelAlone

LEMMA NextIInv == IInv /\ [Next]_vars => IInv'
  <1> SUFFICES ASSUME IInv, [Next]_vars PROVE IInv'
    OBVIOUS
  <1>1. CASE SwitchesOutput
    BY <1>1, SwitchesKeeps
  <1>2. CASE \E kind \in Kinds : query_source_cursor(kind)
    BY <1>2, QueryKeeps
  <1>3. CASE PlacesCorrelated
    BY <1>3, CorrelatedKeeps
  <1>4. CASE \E locked \in BOOLEAN : CrossingDropped(locked)
    BY <1>4, DroppedKeeps
  <1>5. CASE CrossingRetries \/ CrossingCompletes
    BY <1>5, CrossingTaskKeeps
  <1>6. CASE MouseBoardReceives
    BY <1>6, ReceivesKeeps
  <1>7. CASE handle_output_select_msg \/ handle_cursor_query_msg \/ handle_cursor_place_msg
    BY <1>7, SelectKeeps, QueryMsgKeeps, PlaceMsgKeeps
  <1>8. CASE PlaceLooks \/ QueryLooks \/ OwedLooks
    BY <1>8, LooksKeep
  <1>9. CASE PlaceStale \/ PlaceActs
    BY <1>9, StaleKeeps, PlaceActsKeeps
  <1>10. CASE QueryActs
    BY <1>10, QueryActsKeeps
  <1>11. CASE OwedActs \/ OwedClears
    BY <1>11, OwedActsKeeps, OwedClearsKeeps
  <1>12. CASE channel_lifecycle_position
    BY <1>12, PositionKeeps
  <1>13. CASE SessionEnds \/ LinkLost \/ HelloAck
    BY <1>13, SessionKeeps
  <1>14. CASE HelperTakes
    BY <1>14, TakesKeeps
  <1>15. CASE Lose
    BY <1>15, LoseKeeps
  <1>16. CASE Rests \/ UNCHANGED vars
    BY <1>16, StutterKeeps DEF Rests
  <1>17. QED
    BY <1>1, <1>2, <1>3, <1>4, <1>5, <1>6, <1>7, <1>8, <1>9, <1>10, <1>11, <1>12, <1>13,
       <1>14, <1>15, <1>16 DEF Next

LEMMA IInvImplies ==
  ASSUME IInv
  PROVE  TypeOK /\ PlacedLast /\ ArrivalTold
  <1>1. TypeOK /\ ArrivalTold
    BY DEF IInv, TypeInv, ArrivalOK, ArrivalTold
  <1>2. ASSUME ch.present, ch.owed = ch.sent, ~ ch.dropped,
               \A i \in 1 .. Len(lane) : lane[i].type # "PLACE"
        PROVE  cursor = ch.body
    <2>1. Landing = ch.body
      BY <1>2 DEF IInv, LandOK
    <2>2. lane # <<>> => 1 \in 1 .. Len(lane)
      BY <1>1, Types
    <2>3. Landing = cursor
      BY <1>2, <2>2 DEF Landing
    <2>4. QED
      BY <2>1, <2>3
  <1>3. QED
    BY <1>1, <1>2 DEF PlacedLast

LEMMA SpecIInv == Spec => []IInv
  BY InitIInv, NextIInv, PTL DEF Spec

(* Every value keeps its type: no ring, lane or counter of the crossing    *)
(* and of channel_lifecycle.c's pumps leaves its bounds, and a pending     *)
(* crossing always has a query id other than 0.                            *)
THEOREM CrossingTypeOK == Spec => []TypeOK
  BY SpecIInv, IInvImplies, PTL

(* The placement owed last is where the helper's cursor ends up, although  *)
(* pump_place releases the lock while it builds a frame and core 1 may owe *)
(* another placement meanwhile; unless it went stale or its session ended. *)
THEOREM CrossingPlacedLast == Spec => []PlacedLast
  BY SpecIInv, IInvImplies, PTL

(* A helper that was there when the user arrived is told, or the arrival   *)
(* fell into the gap between pump_owed's frame and its clearing.           *)
THEOREM CrossingArrivalTold == Spec => []ArrivalTold
  BY SpecIInv, IInvImplies, PTL

-----------------------------------------------------------------------------
(***************************************************************************)
(* A placement's answer was read at that placement.  Query ids travel from *)
(* the crossing over the link, the channel, core 0 and the lane into an    *)
(* answer: as a plain query, which aims at nothing (Asked), or paired with *)
(* the placement the cursor will have been put to when the helper reads it *)
(* (Aimed).  A fresh id is in none of those places, until ids come round.  *)
(***************************************************************************)

Asked(id) ==
  \/ id = 0 \/ id = ch.query
  \/ core0.at = "query" /\ id = core0.id
  \/ crossing.kind # "MACOS_PLACEMENT" /\ id = crossing.id
  \/ \E i \in 1 .. Len(out) : out[i].type = "QUERY" /\ id = out[i].id

Aimed(id, body) ==
  \/ id = ch.place_query /\ body = ch.body
  \/ core0.at = "place" /\ id = core0.id /\ body = core0.body
  \/ \E i \in 1 .. Len(out) : out[i].type = "PLACE" /\ id = out[i].id /\ body = out[i].body
  \/ \E i \in 1 .. Len(lane) : lane[i].type = "POS_QUERY" /\ id = lane[i].id /\ body = Landing
  \/ \E i \in 1 .. Len(answers) : id = answers[i].id /\ body = answers[i].body

\* How many ids have been counted when id is the last one: the first is ID_MOD - 1.
Rank(id) == IF id = 0 THEN 0 ELSE IF id = ID_MOD - 1 THEN 1 ELSE id + 1

Counted(n) ==
  /\ n = 0 => next_id = ID_MOD - 2
  /\ n > 0 => next_id # 0 /\ Rank(next_id) = n
  /\ \A id \in Ids : Rank(id) > n =>
       aims[id] = 0 /\ ~ Asked(id) /\ \A body \in Bodies : ~ Aimed(id, body)

CountOK == \E n \in 0 .. moves : Counted(n)

AimOK ==
  \A id \in Ids :
    /\ Asked(id) => aims[id] = 0
    /\ \A body \in Bodies : Aimed(id, body) => aims[id] \in {0, body}

RInv == IInv /\ (moves < ID_MOD => CountOK /\ AimOK)

\* A step adds at most the plain query f, and g aimed at m.
Flow(f, g, m) ==
  \A id \in Ids :
    /\ Asked(id)' => Asked(id) \/ id = f
    /\ \A body \in Bodies :
         Aimed(id, body)' => Aimed(id, body) \/ Asked(id) \/ (id = g /\ body = m)

\* The same, place by place.
ChFlow(f, g, m) ==
  /\ Asked(ch'.query) \/ ch'.query = f
  /\ \/ Aimed(ch'.place_query, ch'.body) \/ Asked(ch'.place_query)
     \/ ch'.place_query = g /\ ch'.body = m
CoreFlow ==
  /\ core0'.at = "query" => Asked(core0'.id)
  /\ core0'.at = "place" => Aimed(core0'.id, core0'.body) \/ Asked(core0'.id)
CrossingFlow(f) ==
  crossing'.kind # "MACOS_PLACEMENT" => Asked(crossing'.id) \/ crossing'.id = f
OutFlow(f, g, m) ==
  \A i \in 1 .. Len(out') :
    \/ \E j \in 1 .. Len(out) : out'[i] = out[j]
    \/ out'[i].id = 0
    \/ out'[i].type = "QUERY" /\ out'[i].id = f
    \/ out'[i].type = "PLACE" /\ out'[i].id = g /\ out'[i].body = m
LaneFlow ==
  \A i \in 1 .. Len(lane') :
    lane'[i].type = "POS_QUERY" => Aimed(lane'[i].id, Landing') \/ Asked(lane'[i].id)
AnswersFlow ==
  \A i \in 1 .. Len(answers') :
    Aimed(answers'[i].id, answers'[i].body) \/ Asked(answers'[i].id)

(* Place by place is enough. *)
LEMMA FlowOf ==
  ASSUME NEW f, NEW g, NEW m, ChFlow(f, g, m), CoreFlow, CrossingFlow(f), OutFlow(f, g, m),
         LaneFlow, AnswersFlow
  PROVE  Flow(f, g, m)
  <1>1. ASSUME NEW id \in Ids, Asked(id)' PROVE Asked(id) \/ id = f
    <2>1. CASE id = 0 \/ id = ch'.query
      BY <2>1 DEF ChFlow, Asked
    <2>2. CASE core0'.at = "query" /\ id = core0'.id
      BY <2>2 DEF CoreFlow
    <2>3. CASE crossing'.kind # "MACOS_PLACEMENT" /\ id = crossing'.id
      BY <2>3 DEF CrossingFlow
    <2>4. CASE \E i \in 1 .. Len(out') : out'[i].type = "QUERY" /\ id = out'[i].id
      <3>1. PICK i \in 1 .. Len(out') : out'[i].type = "QUERY" /\ id = out'[i].id
        BY <2>4
      <3>2. QED
        BY <3>1 DEF OutFlow, Asked
    <2>5. QED
      BY <1>1, <2>1, <2>2, <2>3, <2>4 DEF Asked
  <1>2. ASSUME NEW id \in Ids, NEW body \in Bodies, Aimed(id, body)'
        PROVE  Aimed(id, body) \/ Asked(id) \/ (id = g /\ body = m)
    <2>1. CASE id = ch'.place_query /\ body = ch'.body
      BY <2>1 DEF ChFlow
    <2>2. CASE core0'.at = "place" /\ id = core0'.id /\ body = core0'.body
      BY <2>2 DEF CoreFlow
    <2>3. CASE \E i \in 1 .. Len(out') :
                 out'[i].type = "PLACE" /\ id = out'[i].id /\ body = out'[i].body
      <3>1. PICK i \in 1 .. Len(out') :
              out'[i].type = "PLACE" /\ id = out'[i].id /\ body = out'[i].body
        BY <2>3
      <3>2. CASE \E j \in 1 .. Len(out) : out'[i] = out[j]
        BY <3>1, <3>2 DEF Aimed
      <3>3. CASE out'[i].id = 0
        BY <3>1, <3>3 DEF Asked
      <3>4. QED
        BY <3>1, <3>2, <3>3 DEF OutFlow
    <2>4. CASE \E i \in 1 .. Len(lane') :
                 lane'[i].type = "POS_QUERY" /\ id = lane'[i].id /\ body = Landing'
      BY <2>4 DEF LaneFlow
    <2>5. CASE \E i \in 1 .. Len(answers') : id = answers'[i].id /\ body = answers'[i].body
      BY <2>5 DEF AnswersFlow
    <2>6. QED
      BY <1>2, <2>1, <2>2, <2>3, <2>4, <2>5 DEF Aimed
  <1>3. QED
    BY <1>1, <1>2 DEF Flow

(* What is left alone adds nothing. *)
LEMMA Still ==
  /\ ch' = ch => \A f, g, m : ChFlow(f, g, m)
  /\ core0' = core0 => CoreFlow
  /\ crossing' = crossing => \A f : CrossingFlow(f)
  /\ out' = out => \A f, g, m : OutFlow(f, g, m)
  /\ lane' = lane /\ Landing' = Landing => LaneFlow
  /\ answers' = answers => AnswersFlow
  <1>1. ch' = ch => \A f, g, m : ChFlow(f, g, m)
    BY DEF ChFlow, Asked, Aimed
  <1>2. core0' = core0 => CoreFlow
    BY DEF CoreFlow, Asked, Aimed
  <1>3. crossing' = crossing => \A f : CrossingFlow(f)
    BY DEF CrossingFlow, Asked
  <1>4. out' = out => \A f, g, m : OutFlow(f, g, m)
    BY DEF OutFlow
  <1>5. lane' = lane /\ Landing' = Landing => LaneFlow
    BY DEF LaneFlow, Aimed
  <1>6. answers' = answers => AnswersFlow
    BY DEF AnswersFlow, Aimed
  <1>7. QED
    BY <1>1, <1>2, <1>3, <1>4, <1>5, <1>6

(* Packets, frames and answers that leave add nothing either. *)
LEMMA LeavesFlow ==
  ASSUME TypeOK
  PROVE  /\ out # <<>> /\ out' = Tail(out) => \A f, g, m : OutFlow(f, g, m)
         /\ answers # <<>> /\ answers' = Tail(answers) => AnswersFlow
  <1>1. ASSUME out # <<>>, out' = Tail(out), NEW f, NEW g, NEW m PROVE OutFlow(f, g, m)
    <2>1. \A i \in 1 .. Len(out') : i + 1 \in 1 .. Len(out) /\ out'[i] = out[i + 1]
      BY <1>1, Types, TailIs
    <2>2. QED
      BY <2>1 DEF OutFlow
  <1>2. ASSUME answers # <<>>, answers' = Tail(answers) PROVE AnswersFlow
    <2>1. \A i \in 1 .. Len(answers') : i + 1 \in 1 .. Len(answers) /\ answers'[i] = answers[i + 1]
      BY <1>2, Types, TailIs
    <2>2. QED
      BY <2>1 DEF AnswersFlow, Aimed
  <1>3. QED
    BY <1>1, <1>2
-----------------------------------------------------------------------------
(* A step that counts no id. *)
LEMMA OldIds ==
  ASSUME IInv, CountOK, AimOK, moves \in Nat, moves' \in Nat, moves <= moves',
         UNCHANGED <<next_id, aims>>, Flow(0, 0, 0)
  PROVE  CountOK' /\ AimOK'
  <1>1. ASSUME NEW id \in Ids, Asked(id)' PROVE Asked(id)
    BY <1>1 DEF Flow, Asked
  <1>2. ASSUME NEW id \in Ids, NEW body \in Bodies, Aimed(id, body)'
        PROVE  Aimed(id, body) \/ Asked(id)
    <2>1. Aimed(id, body) \/ Asked(id) \/ id = 0
      BY <1>2 DEF Flow
    <2>2. id = 0 => Asked(id)
      BY DEF Asked
    <2>3. QED
      BY <2>1, <2>2
  <1>3. PICK n \in 0 .. moves : Counted(n)
    BY DEF CountOK
  <1>4. n \in 0 .. moves'
    OBVIOUS
  <1>5. Counted(n)'
    BY <1>1, <1>2, <1>3 DEF Counted
  <1>6. CountOK'
    BY <1>4, <1>5 DEF CountOK
  <1>7. AimOK'
    BY <1>1, <1>2 DEF AimOK
  <1>8. QED
    BY <1>6, <1>7

(* The fresh id is the next of its rank, and nobody has it. *)
LEMMA FreshId ==
  ASSUME IInv, NEW n \in 0 .. moves, Counted(n), moves' = moves + 1, moves' < ID_MOD
  PROVE  LET id == next_cursor_query_id IN
         /\ id \in Ids /\ id # 0 /\ Rank(id) = n + 1 /\ aims[id] = 0
         /\ ~ Asked(id) /\ \A body \in Bodies : ~ Aimed(id, body)
  <1>0. next_id \in Ids /\ moves \in Nat
    BY Types, Numbers DEF IInv, TypeInv
  <1>1. next_cursor_query_id \in Ids /\ next_cursor_query_id # 0
    BY <1>0, NextId
  <1>2. n \in Nat /\ n + 1 < ID_MOD
    BY <1>0, Sizes
  <1>3. Rank(next_cursor_query_id) = n + 1
    <2>1. CASE n = 0
      <3>1. next_id = ID_MOD - 2
        BY <2>1 DEF Counted
      <3>2. QED
        BY <2>1, <3>1, Sizes DEF Rank, next_cursor_query_id
    <2>2. CASE n > 0
      <3>1. next_id # 0 /\ Rank(next_id) = n
        BY <2>2 DEF Counted
      <3>2. QED
        BY <1>0, <1>2, <2>2, <3>1, Sizes DEF Rank, next_cursor_query_id, Ids
    <2>3. QED
      BY <1>2, <2>1, <2>2
  <1>4. Rank(next_cursor_query_id) > n
    BY <1>2, <1>3
  <1>5. QED
    BY <1>1, <1>3, <1>4 DEF Counted

(* A step that counts one, for a plain query. *)
LEMMA QueryId ==
  ASSUME IInv, CountOK, AimOK, moves' = moves + 1, moves' < ID_MOD,
         next_id' = next_cursor_query_id, aims' = aims, Flow(next_cursor_query_id, 0, 0)
  PROVE  CountOK' /\ AimOK'
  <1> DEFINE f == next_cursor_query_id
  <1>0. moves \in Nat
    BY Numbers DEF IInv, TypeInv
  <1>1. PICK n \in 0 .. moves : Counted(n)
    BY DEF CountOK
  <1>2. f \in Ids /\ f # 0 /\ Rank(f) = n + 1 /\ aims[f] = 0
    BY <1>1, FreshId
  <1>3. next_id' = f /\ Flow(f, 0, 0)
    OBVIOUS
  <1> HIDE DEF f
  <1>4. ASSUME NEW id \in Ids, Asked(id)' PROVE Asked(id) \/ id = f
    BY <1>3, <1>4 DEF Flow
  <1>5. ASSUME NEW id \in Ids, NEW body \in Bodies, Aimed(id, body)'
        PROVE  Aimed(id, body) \/ Asked(id)
    <2>1. Aimed(id, body) \/ Asked(id) \/ id = 0
      BY <1>3, <1>5 DEF Flow
    <2>2. id = 0 => Asked(id)
      BY DEF Asked
    <2>3. QED
      BY <2>1, <2>2
  <1>6. n + 1 \in 0 .. moves' /\ n + 1 > 0 /\ n \in Nat
    BY <1>0
  <1>7. ASSUME NEW id \in Ids, Rank(id) > n + 1
        PROVE  aims'[id] = 0 /\ ~ Asked(id)' /\ \A body \in Bodies : ~ Aimed(id, body)'
    <2>1. Rank(id) \in Nat
      BY Sizes DEF Rank, Ids
    <2>2. Rank(id) > n /\ id # f
      BY <1>2, <1>6, <1>7, <2>1
    <2>3. aims[id] = 0 /\ ~ Asked(id) /\ \A body \in Bodies : ~ Aimed(id, body)
      BY <1>1, <2>2 DEF Counted
    <2>4. QED
      BY <1>4, <1>5, <2>2, <2>3
  <1>8. Counted(n + 1)'
    BY <1>2, <1>3, <1>6, <1>7 DEF Counted
  <1>9. CountOK'
    BY <1>6, <1>8 DEF CountOK
  <1>10. AimOK'
    BY <1>2, <1>4, <1>5 DEF AimOK
  <1>11. QED
    BY <1>9, <1>10

(* And for a placement. *)
LEMMA PlaceId ==
  ASSUME IInv, CountOK, AimOK, moves' = moves + 1, moves' < ID_MOD, moves' \in Bodies,
         next_id' = next_cursor_query_id,
         aims' = [aims EXCEPT ![next_cursor_query_id] = moves'],
         Flow(0, next_cursor_query_id, moves')
  PROVE  CountOK' /\ AimOK'
  <1> DEFINE g == next_cursor_query_id
             m == moves'
  <1>0. moves \in Nat /\ aims \in [Ids -> Bodies]
    BY Numbers, Types DEF IInv, TypeInv
  <1>1. PICK n \in 0 .. moves : Counted(n)
    BY DEF CountOK
  <1>2. /\ g \in Ids /\ g # 0 /\ Rank(g) = n + 1 /\ aims[g] = 0 /\ ~ Asked(g)
        /\ \A body \in Bodies : ~ Aimed(g, body)
    BY <1>1, FreshId
  <1>3. next_id' = g /\ Flow(0, g, m) /\ aims' = [aims EXCEPT ![g] = m]
    OBVIOUS
  <1> HIDE DEF g
  <1>4. ASSUME NEW id \in Ids, Asked(id)' PROVE Asked(id)
    BY <1>3, <1>4 DEF Flow, Asked
  <1>5. ASSUME NEW id \in Ids, NEW body \in Bodies, Aimed(id, body)'
        PROVE  Aimed(id, body) \/ Asked(id) \/ (id = g /\ body = m)
    BY <1>3, <1>5 DEF Flow
  <1> HIDE DEF m
  <1>6. n + 1 \in 0 .. moves' /\ n + 1 > 0 /\ n \in Nat
    BY <1>0
  <1>a. aims'[g] = m /\ \A id \in Ids : id # g => aims'[id] = aims[id]
    BY <1>0, <1>2, <1>3
  <1>7. ASSUME NEW id \in Ids, Rank(id) > n + 1
        PROVE  aims'[id] = 0 /\ ~ Asked(id)' /\ \A body \in Bodies : ~ Aimed(id, body)'
    <2>1. Rank(id) \in Nat
      BY Sizes DEF Rank, Ids
    <2>2. Rank(id) > n /\ id # g
      BY <1>2, <1>6, <1>7, <2>1
    <2>3. aims[id] = 0 /\ ~ Asked(id) /\ \A body \in Bodies : ~ Aimed(id, body)
      BY <1>1, <2>2 DEF Counted
    <2>4. QED
      BY <1>4, <1>5, <1>a, <2>2, <2>3
  <1>8. Counted(n + 1)'
    BY <1>2, <1>3, <1>6, <1>7 DEF Counted
  <1>9. CountOK'
    BY <1>6, <1>8 DEF CountOK
  <1>10. ASSUME NEW id \in Ids
         PROVE  /\ Asked(id)' => aims'[id] = 0
                /\ \A body \in Bodies : Aimed(id, body)' => aims'[id] \in {0, body}
    <2>1. CASE id = g
      BY <1>2, <1>4, <1>5, <1>a, <2>1
    <2>2. CASE id # g
      BY <1>4, <1>5, <1>a, <2>2 DEF AimOK
    <2>3. QED
      BY <2>1, <2>2
  <1>11. AimOK'
    BY <1>10 DEF AimOK
  <1>12. QED
    BY <1>9, <1>11

-----------------------------------------------------------------------------
(* What each step does with the ids. *)

LEMMA LandingStill ==
  ASSUME UNCHANGED <<lane, cursor>>
  PROVE  LaneFlow
  BY Still DEF Landing

(* Core 1 of the mouse's board. *)
LEMMA ActiveFlow ==
  ASSUME IInv, NEW f, NEW o \in Outputs, NEW places \in BOOLEAN, remote' = remote,
         moves' \in 0 .. MaxMoves, moves <= moves', places => moves' = moves + 1,
         set_active_output(o, places), CrossingFlow(f),
         UNCHANGED <<core0, lane, cursor, answers>>
  PROVE  Flow(f, 0, 0)
  <1>1. /\ SameQuery(ch, ch')
        /\ \/ SamePlace(ch, ch')
           \/ ch'.owed = ch.owed + 1 /\ ch'.body = moves' /\ ch'.place_query = 0
        /\ \A i \in 1 .. Len(out') :
              out'[i].id = 0 \/ (i \in 1 .. Len(out) /\ out'[i] = out[i])
    BY ActiveIs DEF IInv
  <1>2. ChFlow(f, 0, 0)
    BY <1>1 DEF ChFlow, SameQuery, SamePlace, Asked, Aimed
  <1>3. OutFlow(f, 0, 0)
    BY <1>1 DEF OutFlow
  <1>4. QED
    BY <1>2, <1>3, Still, LandingStill, FlowOf

LEMMA SwitchesFlow ==
  ASSUME IInv, SwitchesOutput
  PROVE  Flow(0, 0, 0)
  <1>1. PICK places \in BOOLEAN : set_active_output(IF active = "H" THEN "O" ELSE "H", places)
    BY DEF SwitchesOutput
  <1> DEFINE o == IF active = "H" THEN "O" ELSE "H"
  <1>2. o \in Outputs /\ set_active_output(o, places)
    BY <1>1 DEF Outputs
  <1> HIDE DEF o
  <1>3. /\ moves < MaxMoves /\ moves' = moves + 1
        /\ UNCHANGED <<remote, crossing, core0, lane, cursor, answers>>
    BY DEF SwitchesOutput
  <1>4. moves' \in 0 .. MaxMoves /\ moves <= moves'
    BY <1>3, Numbers DEF IInv
  <1>5. CrossingFlow(0)
    BY <1>3, Still
  <1>6. QED
    BY <1>2, <1>3, <1>4, <1>5, ActiveFlow

LEMMA QueryFlow ==
  ASSUME IInv, NEW kind \in Kinds, query_source_cursor(kind)
  PROVE  Flow(next_cursor_query_id, 0, 0)
  <1>0. TypeInv /\ TypeOK
    BY DEF IInv, TypeInv
  <1> DEFINE f == next_cursor_query_id
  <1>1. /\ moves < MaxMoves /\ moves' = moves + 1
        /\ UNCHANGED <<remote, core0, lane, cursor, answers>>
    BY DEF query_source_cursor
  <1>2. f \in Ids
    BY <1>0, NextId, Types
  <1>3. moves' \in 0 .. MaxMoves /\ moves <= moves'
    BY <1>0, <1>1, Numbers
  <1>4. ASSUME NEW result \in {"SENT", "RETRY"}, channel_query_cursor(f, result),
               crossing' = [phase |-> "WAITING", kind |-> kind, id |-> f, sent |-> result = "SENT"]
        PROVE  Flow(f, 0, 0)
    <2>1. /\ SamePlace(ch, ch') /\ ch'.query \in {ch.query, f}
          /\ \A i \in 1 .. Len(out') :
               \/ i \in 1 .. Len(out) /\ out'[i] = out[i]
               \/ out'[i].type = "QUERY" /\ out'[i].id = f
      BY <1>0, <1>1, <1>2, <1>3, <1>4, QueryIs
    <2>2. crossing'.id = f
      BY <1>4
    <2> HIDE DEF f
    <2>3. ChFlow(f, 0, 0)
      BY <2>1 DEF ChFlow, SamePlace, Asked, Aimed
    <2>4. OutFlow(f, 0, 0)
      BY <2>1 DEF OutFlow
    <2>5. CrossingFlow(f)
      BY <2>2 DEF CrossingFlow
    <2>6. QED
      BY <1>1, <2>3, <2>4, <2>5, Still, LandingStill, FlowOf
  <1>5. ASSUME set_active_output("O", FALSE), crossing' = crossing
        PROVE  Flow(f, 0, 0)
    <2> HIDE DEF f
    <2>1. CrossingFlow(f) /\ "O" \in Outputs
      BY <1>5, Still DEF Outputs
    <2>2. QED
      BY <1>1, <1>3, <1>5, <2>1, ActiveFlow
  <1>6. ASSUME UNCHANGED <<ch, out>>, crossing' = crossing
        PROVE  Flow(f, 0, 0)
    <2> HIDE DEF f
    <2>1. QED
      BY <1>1, <1>6, Still, LandingStill, FlowOf
  <1>7. QED
    BY <1>4, <1>5, <1>6 DEF query_source_cursor

LEMMA CorrelatedFlow ==
  ASSUME IInv, PlacesCorrelated
  PROVE  Flow(0, next_cursor_query_id, moves')
  <1>0. TypeInv /\ TypeOK
    BY DEF IInv, TypeInv
  <1> DEFINE g == next_cursor_query_id
             m == moves'
             waits == [phase |-> "WAITING", kind |-> "MACOS_PLACEMENT", id |-> g, sent |-> FALSE]
  <1>1. /\ moves < MaxMoves /\ moves' = moves + 1
        /\ UNCHANGED <<remote, core0, lane, cursor, answers>>
        /\ crossing' \in {waits, crossing}
    BY DEF PlacesCorrelated
  <1>2. g \in Ids
    BY <1>0, NextId, Types
  <1>3. out \in Seq(OutPackets) /\ ch \in ChStates
    BY <1>0, Types
  <1>4. waits.kind = "MACOS_PLACEMENT"
    OBVIOUS
  <1>m. m \in Bodies
    BY <1>0, <1>1, Numbers
  <1> HIDE DEF waits
  <1>5. CrossingFlow(0)
    BY <1>1, <1>4, Still DEF CrossingFlow
  <1>6. ASSUME out' = Append(out, Packet("PLACE", "H", m, g)), ch' = ch
        PROVE  Flow(0, g, m)
    <2> DEFINE x == Packet("PLACE", "H", m, g)
    <2> HIDE DEF g, m
    <2>1. x.type = "PLACE" /\ x.body = m /\ x.id = g /\ x \in OutPackets
      BY <1>2, <1>m DEF Packet, OutPackets, Outputs
    <2>2. out' = Append(out, x)
      BY <1>6
    <2> HIDE DEF x
    <2>3. /\ Len(out') = Len(out) + 1 /\ Len(out) \in Nat
          /\ out'[Len(out) + 1] = x /\ \A i \in 1 .. Len(out) : out'[i] = out[i]
      BY <1>3, <2>1, <2>2, AppendIs
    <2>4. \A i \in 1 .. Len(out') : i \in 1 .. Len(out) \/ i = Len(out) + 1
      BY <2>3
    <2>5. OutFlow(0, g, m)
      BY <2>1, <2>3, <2>4 DEF OutFlow
    <2>6. QED
      BY <1>1, <1>5, <1>6, <2>5, Still, LandingStill, FlowOf
  <1>7. ASSUME UNCHANGED <<out, ch>>
        PROVE  Flow(0, g, m)
    <2> HIDE DEF g, m
    <2>1. QED
      BY <1>1, <1>5, <1>7, Still, LandingStill, FlowOf
  <1>8. ASSUME ch' = channel_lifecycle_owe_place(ch, m, g), out' = out
        PROVE  Flow(0, g, m)
    <2> HIDE DEF g, m
    <2>1. ch' = ch \/ (ch'.query = ch.query /\ ch'.place_query = g /\ ch'.body = m)
      BY <1>3, <1>8 DEF channel_lifecycle_owe_place, ChStates
    <2>2. ChFlow(0, g, m)
      BY <2>1, Still DEF ChFlow, Asked
    <2>3. QED
      BY <1>1, <1>5, <1>8, <2>2, Still, LandingStill, FlowOf
  <1>9. QED
    BY <1>6, <1>7, <1>8 DEF PlacesCorrelated

LEMMA TaskFlow ==
  ASSUME IInv, CrossingRetries \/ CrossingCompletes
  PROVE  Flow(0, 0, 0)
  <1>0. TypeInv /\ TypeOK
    BY DEF IInv, TypeInv
  <1>1. UNCHANGED <<remote, core0, lane, cursor, answers, moves>>
    BY DEF CrossingRetries, CrossingCompletes
  <1>2. moves' \in 0 .. MaxMoves /\ moves <= moves'
    BY <1>0, <1>1, Numbers
  <1>3. ASSUME CrossingRetries PROVE Flow(0, 0, 0)
    <2>1. PICK result \in {"SENT", "UNAVAILABLE"} : channel_query_cursor(crossing.id, result)
      BY <1>3 DEF CrossingRetries
    <2>2. crossing \in CrossingStates /\ crossing.kind # "MACOS_PLACEMENT"
      BY <1>0, <1>3, Types DEF CrossingRetries
    <2>3. crossing.id \in Ids
      BY <2>2 DEF CrossingStates
    <2>4. crossing' \in {[crossing EXCEPT !.sent = TRUE], [crossing EXCEPT !.phase = "FALLBACK"]}
      BY <1>3 DEF CrossingRetries
    <2>5. crossing'.id = crossing.id
      BY <2>2, <2>4 DEF CrossingStates
    <2>6. Asked(crossing.id)
      BY <2>2 DEF Asked
    <2>7. /\ SamePlace(ch, ch') /\ ch'.query \in {ch.query, crossing.id}
          /\ \A i \in 1 .. Len(out') :
               \/ i \in 1 .. Len(out) /\ out'[i] = out[i]
               \/ out'[i].type = "QUERY" /\ out'[i].id = crossing.id
      BY <1>0, <1>1, <1>2, <2>1, <2>3, QueryIs
    <2> DEFINE f == crossing.id
    <2>8. ChFlow(f, 0, 0)
      BY <2>7 DEF ChFlow, SamePlace, Asked, Aimed
    <2>9. OutFlow(f, 0, 0)
      BY <2>7 DEF OutFlow
    <2>10. CrossingFlow(f)
      BY <2>5 DEF CrossingFlow
    <2> HIDE DEF f
    <2>11. Flow(f, 0, 0)
      BY <1>1, <2>8, <2>9, <2>10, Still, LandingStill, FlowOf
    <2>12. Asked(f)
      BY <2>6 DEF f
    <2>13. QED
      BY <2>11, <2>12 DEF Flow
  <1>4. ASSUME CrossingCompletes PROVE Flow(0, 0, 0)
    <2>1. crossing'.id = 0
      BY <1>4 DEF CrossingCompletes, Idle
    <2>2. CrossingFlow(0) /\ "O" \in Outputs
      BY <2>1 DEF CrossingFlow, Outputs
    <2>3. CASE set_active_output("O", FALSE)
      BY <1>1, <1>2, <2>2, <2>3, ActiveFlow
    <2>4. CASE UNCHANGED <<out, ch>>
      BY <1>1, <2>2, <2>4, Still, LandingStill, FlowOf
    <2>5. QED
      BY <1>4, <2>3, <2>4 DEF CrossingCompletes
  <1>5. QED
    BY <1>3, <1>4

(* Answers, refusals, losses, a dropped crossing. *)
LEMMA QuietFlow ==
  ASSUME IInv,
         \/ \E locked \in BOOLEAN : CrossingDropped(locked)
         \/ MouseBoardReceives \/ channel_lifecycle_position \/ Lose \/ UNCHANGED vars
  PROVE  Flow(0, 0, 0)
  <1>0. TypeOK
    BY DEF IInv, TypeInv
  <1>1. UNCHANGED <<ch, core0, lane, cursor>>
    BY DEF CrossingDropped, MouseBoardReceives, channel_lifecycle_position, Lose, vars, chan
  <1>2. OutFlow(0, 0, 0)
    <2>1. out' = out \/ (out # <<>> /\ out' = Tail(out))
      BY DEF CrossingDropped, MouseBoardReceives, channel_lifecycle_position, Lose, vars, link
    <2>2. QED
      BY <1>0, <2>1, Still, LeavesFlow
  <1>3. AnswersFlow
    <2>1. answers' = answers \/ (answers # <<>> /\ answers' = Tail(answers))
      BY DEF CrossingDropped, MouseBoardReceives, channel_lifecycle_position, Lose, vars, chan
    <2>2. QED
      BY <1>0, <2>1, Still, LeavesFlow
  <1>4. CrossingFlow(0)
    <2>1. crossing \in CrossingStates
      BY <1>0, Types
    <2>2. \/ crossing' = crossing \/ crossing' = Idle
          \/ \E id : crossing' \in Applied(id)
          \/ crossing' = [crossing EXCEPT !.phase =
                IF @ = "WAITING" /\ crossing.id = Head(back).id THEN "FALLBACK" ELSE @]
      BY DEF CrossingDropped, MouseBoardReceives, channel_lifecycle_position, Lose, vars, mouse
    <2>3. (crossing'.id = crossing.id /\ crossing'.kind = crossing.kind) \/ crossing'.id = 0
      <3>1. CASE crossing' = Idle
        BY <3>1 DEF Idle
      <3>2. CASE \E id : crossing' \in Applied(id)
        BY <1>0, <3>2, AppliedIs
      <3>3. CASE crossing' = [crossing EXCEPT !.phase =
                IF @ = "WAITING" /\ crossing.id = Head(back).id THEN "FALLBACK" ELSE @]
        BY <2>1, <3>3 DEF CrossingStates
      <3>4. QED
        BY <2>2, <3>1, <3>2, <3>3
    <2>4. QED
      BY <2>3 DEF CrossingFlow, Asked
  <1>5. QED
    BY <1>1, <1>2, <1>3, <1>4, Still, LandingStill, FlowOf

(* Core 1 of the helper's board. *)
LEMMA MessageFlow ==
  ASSUME IInv,
         handle_output_select_msg \/ handle_cursor_query_msg \/ handle_cursor_place_msg
  PROVE  Flow(0, 0, 0)
  <1>0. TypeOK /\ ch \in ChStates
    BY Types DEF IInv, TypeInv
  <1>1. out # <<>> /\ out' = Tail(out) /\ UNCHANGED <<crossing, core0, lane, cursor, answers>>
    BY DEF handle_output_select_msg, handle_cursor_query_msg, handle_cursor_place_msg, mouse
  <1>2. OutFlow(0, 0, 0)
    BY <1>0, <1>1, LeavesFlow
  <1>3. 1 \in 1 .. Len(out) /\ Head(out) = out[1]
    <2>1. out \in Seq(OutPackets)
      BY <1>0, Types
    <2>2. Len(out) \in Nat /\ Len(out) >= 1 /\ Head(out) = out[1]
      BY <1>1, <2>1, TailIs
    <2>3. QED
      BY <2>2
  <1>4. ChFlow(0, 0, 0)
    <2>1. CASE handle_output_select_msg
      <3> DEFINE d == channel_lifecycle_arrive(ch, Head(out).output)
      <3>1. ch' = d
        BY <2>1 DEF handle_output_select_msg
      <3>2. d.query = ch.query /\ d.place_query = ch.place_query /\ d.body = ch.body
        BY <1>0, ArriveIs
      <3> HIDE DEF d
      <3>3. QED
        BY <3>1, <3>2 DEF ChFlow, Asked, Aimed
    <2>2. CASE handle_cursor_query_msg
      <3>1. out[1].type = "QUERY" /\ (ch' = ch \/ ch' = take_query(ch, "PEER", out[1].id))
        BY <1>3, <2>2 DEF handle_cursor_query_msg
      <3>2. Asked(out[1].id)
        BY <1>3, <3>1 DEF Asked
      <3>3. /\ ch'.query \in {ch.query, out[1].id}
            /\ ch'.place_query = ch.place_query /\ ch'.body = ch.body
        BY <1>0, <3>1 DEF take_query, ChStates
      <3>4. QED
        BY <3>2, <3>3 DEF ChFlow, Asked, Aimed
    <2>3. CASE handle_cursor_place_msg
      <3>1. out[1].type = "PLACE"
            /\ ch' = channel_lifecycle_owe_place(ch, out[1].body, out[1].id)
        BY <1>3, <2>3 DEF handle_cursor_place_msg
      <3>2. Aimed(out[1].id, out[1].body)
        BY <1>3, <3>1 DEF Aimed
      <3>3. \/ ch' = ch
            \/ ch'.query = ch.query /\ ch'.place_query = out[1].id /\ ch'.body = out[1].body
        BY <1>0, <3>1 DEF channel_lifecycle_owe_place, ChStates
      <3>4. QED
        BY <3>2, <3>3, Still DEF ChFlow, Asked
    <2>4. QED
      BY <2>1, <2>2, <2>3
  <1>5. QED
    BY <1>1, <1>2, <1>4, Still, LandingStill, FlowOf

(* Core 0 of the helper's board. *)
LEMMA LooksFlow ==
  ASSUME IInv, PlaceLooks \/ QueryLooks \/ OwedLooks \/ PlaceStale \/ OwedClears
  PROVE  Flow(0, 0, 0)
  <1>0. ch \in ChStates
    BY Types DEF IInv, TypeInv
  <1>1. UNCHANGED <<crossing, out, lane, cursor, answers>>
    BY DEF PlaceLooks, QueryLooks, OwedLooks, PlaceStale, OwedClears, mouse, link
  <1>2. ch'.query = ch.query /\ ch'.place_query = ch.place_query /\ ch'.body = ch.body
    BY <1>0 DEF PlaceLooks, QueryLooks, OwedLooks, PlaceStale, OwedClears, ChStates
  <1>3. ChFlow(0, 0, 0)
    BY <1>2 DEF ChFlow, Asked, Aimed
  <1>4. CoreFlow
    <2>1. CASE PlaceLooks
      <3>1. core0'.at = "place" /\ core0'.id = ch.place_query /\ core0'.body = ch.body
        BY <2>1 DEF PlaceLooks, Resting
      <3>2. QED
        BY <3>1 DEF CoreFlow, Aimed
    <2>2. CASE QueryLooks
      <3>1. core0'.at = "query" /\ core0'.id = ch.query
        BY <2>2 DEF QueryLooks, Resting
      <3>2. QED
        BY <3>1 DEF CoreFlow, Asked
    <2>3. CASE OwedLooks
      BY <2>3 DEF OwedLooks, Resting, CoreFlow
    <2>4. CASE PlaceStale
      BY <2>4, Still DEF PlaceStale
    <2>5. CASE OwedClears
      BY <2>5 DEF OwedClears, Resting, CoreFlow
    <2>6. QED
      BY <2>1, <2>2, <2>3, <2>4, <2>5
  <1>5. QED
    BY <1>1, <1>3, <1>4, Still, LandingStill, FlowOf

LEMMA PlaceActsFlow ==
  ASSUME IInv, PlaceActs
  PROVE  Flow(0, 0, 0)
  <1>0. TypeInv /\ TypeOK
    BY DEF IInv, TypeInv
  <1> DEFINE x == Frame("PLACE", core0.body, 0)
             y == Frame("POS_QUERY", 0, core0.id)
  <1>1. core0.at = "place" /\ core0' = Resting /\ UNCHANGED <<crossing, out, cursor, answers>>
    BY DEF PlaceActs, mouse, link
  <1>2. lane = <<>>
    BY <1>0, <1>1 DEF TypeInv, OwedOK
  <1>3. ch \in ChStates
    BY <1>0, Types
  <1>4. ch'.query = ch.query /\ ch'.place_query = ch.place_query /\ ch'.body = ch.body
    BY <1>3 DEF PlaceActs, ChStates
  <1>5. ChFlow(0, 0, 0)
    BY <1>4 DEF ChFlow, Asked, Aimed
  <1>6. CoreFlow
    BY <1>1 DEF CoreFlow, Resting
  <1>7. lane' = IF ch.present THEN lane \o <<x, y>> ELSE lane
    BY DEF PlaceActs, PlaceQuery
  <1>8. x.type = "PLACE" /\ x.body = core0.body /\ y.type = "POS_QUERY" /\ y.id = core0.id
    BY DEF Frame
  <1> HIDE DEF x, y
  <1>9. LaneFlow
    <2>1. CASE ch.present
      <3>1. lane' = <<x, y>>
        BY <1>2, <1>7, <2>1
      <3>2. Len(lane') = 2 /\ lane'[1] = x /\ lane'[2] = y /\ lane' # <<>>
        BY <3>1
      <3>3. Landing' = core0.body
        BY <1>8, <3>2 DEF Landing
      <3>4. Aimed(core0.id, core0.body)
        BY <1>1 DEF Aimed
      <3>5. ASSUME NEW i \in 1 .. Len(lane'), lane'[i].type = "POS_QUERY"
            PROVE  Aimed(lane'[i].id, Landing')
        <4>1. i = 2
          BY <1>8, <3>2, <3>5
        <4>2. QED
          BY <1>8, <3>2, <3>3, <3>4, <4>1
      <3>6. QED
        BY <3>5 DEF LaneFlow
    <2>2. CASE ~ ch.present
      BY <1>1, <1>7, <2>2, LandingStill
    <2>3. QED
      BY <2>1, <2>2
  <1>10. QED
    BY <1>1, <1>5, <1>6, <1>9, Still, FlowOf

LEMMA QueryActsFlow ==
  ASSUME IInv, QueryActs
  PROVE  Flow(0, 0, 0)
  <1>0. TypeOK /\ PlaceFirst
    BY DEF IInv, TypeInv
  <1> DEFINE x == Frame("POS_QUERY", 0, core0.id)
  <1>1. core0.at = "query" /\ core0' = Resting /\ UNCHANGED <<crossing, out, cursor, answers>>
    BY DEF QueryActs, mouse
  <1>2. ch \in ChStates /\ core0 \in CoreStates /\ Len(lane) \in Nat
    BY <1>0, Types
  <1>3. ChFlow(0, 0, 0)
    <2>1. ch' = ch \/ ch' = Cleared
      BY DEF QueryActs
    <2>2. ch'.query = ch.query /\ ch'.place_query = ch.place_query /\ ch'.body = ch.body
      BY <1>2, <2>1, ClearedIs
    <2>3. QED
      BY <2>2 DEF ChFlow, Asked, Aimed
  <1>4. CoreFlow
    BY <1>1 DEF CoreFlow, Resting
  <1>5. x \in Frames /\ x.type = "POS_QUERY" /\ x.id = core0.id
    BY <1>2, Sizes DEF Frame, Frames, CoreStates
  <1>6. lane' = lane \/ (lane' = Append(lane, x) /\ Len(lane) < PRIORITY_SLOTS)
    BY <1>2, Sizes DEF QueryActs, priority_full
  <1> HIDE DEF x
  <1>7. LaneFlow
    <2>1. CASE lane' = lane
      BY <1>1, <2>1, LandingStill
    <2>2. CASE lane' = Append(lane, x) /\ Len(lane) < PRIORITY_SLOTS
      <3>1. /\ Len(lane') = Len(lane) + 1 /\ Landing' = Landing
            /\ lane'[Len(lane) + 1] = x /\ \A i \in 1 .. Len(lane) : lane'[i] = lane[i]
        BY <1>0, <1>1, <1>5, <2>2, LaneAppend
      <3>2. ASSUME NEW i \in 1 .. Len(lane'), lane'[i].type = "POS_QUERY"
            PROVE  Aimed(lane'[i].id, Landing') \/ Asked(lane'[i].id)
        <4>1. CASE i = Len(lane) + 1
          BY <1>1, <1>5, <3>1, <4>1 DEF Asked
        <4>2. CASE i # Len(lane) + 1
          <5>1. i \in 1 .. Len(lane)
            BY <1>2, <3>1, <4>2
          <5>2. QED
            BY <3>1, <3>2, <5>1 DEF Aimed
        <4>3. QED
          BY <4>1, <4>2
      <3>3. QED
        BY <3>2 DEF LaneFlow
    <2>3. QED
      BY <1>6, <2>1, <2>2
  <1>8. QED
    BY <1>1, <1>3, <1>4, <1>7, Still, FlowOf

LEMMA OwedActsFlow ==
  ASSUME IInv, OwedActs
  PROVE  Flow(0, 0, 0)
  <1>0. TypeOK /\ PlaceFirst /\ TypeInv
    BY DEF IInv, TypeInv
  <1> DEFINE x == Frame("ARRIVAL", 0, 0)
  <1>1. core0.at = "owed" /\ core0' = [Resting EXCEPT !.at = "clear"]
        /\ (lane' = lane \/ lane' = Append(lane, x))
        /\ UNCHANGED <<crossing, out, cursor, answers>>
    BY DEF OwedActs, mouse, link
  <1>2. ch \in ChStates /\ Len(lane) \in Nat
    BY <1>0, Types
  <1>3. ch'.query = ch.query /\ ch'.place_query = ch.place_query /\ ch'.body = ch.body
    BY <1>2 DEF OwedActs, ChStates
  <1>4. ChFlow(0, 0, 0)
    BY <1>3 DEF ChFlow, Asked, Aimed
  <1>5. CoreFlow
    BY <1>1 DEF CoreFlow, Resting
  <1>6. x \in Frames /\ x.type = "ARRIVAL"
    BY Sizes DEF Frame, Frames
  <1>7. Len(lane) < PRIORITY_SLOTS
    BY <1>0, <1>1 DEF TypeInv, OwedOK
  <1> HIDE DEF x
  <1>8. LaneFlow
    <2>1. CASE lane' = lane
      BY <1>1, <2>1, LandingStill
    <2>2. CASE lane' = Append(lane, x)
      <3>1. /\ Len(lane') = Len(lane) + 1 /\ Landing' = Landing
            /\ lane'[Len(lane) + 1] = x /\ \A i \in 1 .. Len(lane) : lane'[i] = lane[i]
        BY <1>0, <1>1, <1>6, <1>7, <2>2, LaneAppend
      <3>2. ASSUME NEW i \in 1 .. Len(lane'), lane'[i].type = "POS_QUERY"
            PROVE  Aimed(lane'[i].id, Landing')
        <4>1. i \in 1 .. Len(lane)
          BY <1>2, <1>6, <3>1, <3>2
        <4>2. QED
          BY <3>1, <3>2, <4>1 DEF Aimed
      <3>3. QED
        BY <3>2 DEF LaneFlow
    <2>3. QED
      BY <1>1, <2>1, <2>2
  <1>9. QED
    BY <1>1, <1>4, <1>5, <1>8, Still, FlowOf

LEMMA SessionFlow ==
  ASSUME IInv, SessionEnds \/ LinkLost \/ HelloAck
  PROVE  Flow(0, 0, 0)
  <1>0. ch \in ChStates
    BY Types DEF IInv, TypeInv
  <1>1. PICK present \in BOOLEAN, resets \in BOOLEAN : SessionChanges(present, resets)
    BY DEF SessionEnds, LinkLost, HelloAck
  <1>2. (lane' = <<>> \/ lane' = lane) /\ answers' = <<>>
        /\ UNCHANGED <<crossing, out, core0, cursor>>
    BY <1>1 DEF SessionChanges, mouse, link
  <1>3. ch'.query \in {0, ch.query} /\ ch'.place_query = ch.place_query /\ ch'.body = ch.body
    BY <1>0, <1>1 DEF SessionChanges, ChStates
  <1>4. ChFlow(0, 0, 0)
    BY <1>3 DEF ChFlow, Asked, Aimed
  <1>5. AnswersFlow
    BY <1>2 DEF AnswersFlow
  <1>6. LaneFlow
    <2>1. CASE lane' = <<>>
      BY <2>1 DEF LaneFlow
    <2>2. CASE lane' = lane
      BY <1>2, <2>2, LandingStill
    <2>3. QED
      BY <1>2, <2>1, <2>2
  <1>7. QED
    BY <1>2, <1>4, <1>5, <1>6, Still, FlowOf

(* The helper reads the cursor where the placement before the query put it. *)
LEMMA TakesFlow ==
  ASSUME IInv, HelperTakes
  PROVE  Flow(0, 0, 0)
  <1>0. TypeOK /\ PlaceFirst
    BY DEF IInv, TypeInv
  <1>1. UNCHANGED <<crossing, out, ch, core0>>
    BY DEF HelperTakes, mouse, link
  <1>2. /\ lane # <<>> /\ Len(lane) \in Nat /\ Head(lane) = lane[1] /\ Head(lane) \in Frames
        /\ \A i \in 1 .. Len(lane') : i + 1 \in 1 .. Len(lane) /\ lane'[i] = lane[i + 1]
        /\ Landing' = Landing /\ (lane[1].type # "PLACE" => cursor = Landing)
        /\ Len(lane') = Len(lane) - 1 /\ lane' \in Seq(Frames)
    BY <1>0, TakesIs
  <1>3. LaneFlow
    BY <1>2 DEF LaneFlow, Aimed
  <1>4. AnswersFlow
    <2> DEFINE x == [id |-> lane[1].id, body |-> cursor]
    <2>1. \/ answers' = answers
          \/ answers' = Append(answers, x) /\ lane[1].type = "POS_QUERY"
      BY <1>2 DEF HelperTakes
    <2>2. CASE answers' = answers
      BY <2>2, Still
    <2>3. CASE answers' = Append(answers, x) /\ lane[1].type = "POS_QUERY"
      <3>1. x \in Answers /\ x.id = lane[1].id /\ x.body = cursor
        BY <1>0, <1>2, Types DEF Frames, Answers
      <3> HIDE DEF x
      <3>2. answers \in Seq(Answers)
        BY <1>0, Types
      <3>3. /\ Len(answers') = Len(answers) + 1 /\ Len(answers) \in Nat
            /\ answers'[Len(answers) + 1] = x
            /\ \A i \in 1 .. Len(answers) : answers'[i] = answers[i]
        BY <2>3, <3>1, <3>2, AppendIs
      <3>4. 1 \in 1 .. Len(lane) /\ cursor = Landing
        <4>1. Len(lane') \in Nat
          BY <1>2
        <4>2. QED
          BY <1>2, <2>3, <4>1
      <3>5. Aimed(x.id, x.body)
        BY <2>3, <3>1, <3>4 DEF Aimed
      <3>6. ASSUME NEW i \in 1 .. Len(answers')
            PROVE  Aimed(answers'[i].id, answers'[i].body)
        <4>1. CASE i = Len(answers) + 1
          BY <3>3, <3>5, <4>1
        <4>2. CASE i # Len(answers) + 1
          <5>1. i \in 1 .. Len(answers)
            BY <3>3, <4>2
          <5>2. QED
            BY <3>3, <5>1 DEF Aimed
        <4>3. QED
          BY <4>1, <4>2
      <3>7. QED
        BY <3>6 DEF AnswersFlow
    <2>4. QED
      BY <2>1, <2>2, <2>3
  <1>5. QED
    BY <1>1, <1>3, <1>4, Still, FlowOf
-----------------------------------------------------------------------------
LEMMA InitRInv == Init => RInv
  <1> SUFFICES ASSUME Init PROVE RInv
    OBVIOUS
  <1>1. /\ out = <<>> /\ lane = <<>> /\ core0 = Resting /\ crossing = Idle
        /\ answers = <<>> /\ moves = 0 /\ next_id = ID_MOD - 2 /\ aims = [i \in Ids |-> 0]
        /\ ch.query = 0 /\ ch.place_query = 0
    BY DEF Init
  <1>2. IInv
    BY InitIInv
  <1>3. core0.at = "idle" /\ crossing.id = 0
    BY <1>1 DEF Resting, Idle
  <1>4. Len(out) = 0 /\ Len(lane) = 0 /\ Len(answers) = 0
    BY <1>1
  <1>5. \A id \in Ids : (Asked(id) => id = 0) /\ \A body \in Bodies : Aimed(id, body) => id = 0
    BY <1>1, <1>3, <1>4 DEF Asked, Aimed
  <1>6. AimOK
    BY <1>1, Sizes DEF AimOK
  <1>7. Counted(0)
    BY <1>1, <1>5, Sizes DEF Counted, Rank
  <1>8. CountOK
    BY <1>1, <1>7 DEF CountOK
  <1>9. QED
    BY <1>2, <1>6, <1>8 DEF RInv

LEMMA NextRInv == RInv /\ [Next]_vars => RInv'
  <1> SUFFICES ASSUME RInv, [Next]_vars PROVE RInv'
    OBVIOUS
  <1>0. IInv /\ IInv'
    BY NextIInv DEF RInv
  <1>1. moves \in Nat /\ moves' \in Nat /\ moves' \in Bodies
    BY <1>0, Types, Sizes DEF IInv, TypeInv, TypeOK, Bodies
  <1> SUFFICES ASSUME moves' < ID_MOD PROVE CountOK' /\ AimOK'
    BY <1>0 DEF RInv
  <1>2. CASE \E kind \in Kinds : query_source_cursor(kind)
    <2>1. PICK kind \in Kinds : query_source_cursor(kind)
      BY <1>2
    <2>2. moves' = moves + 1 /\ next_id' = next_cursor_query_id /\ aims' = aims
      BY <2>1 DEF query_source_cursor
    <2>3. CountOK /\ AimOK
      BY <1>1, <2>2, Sizes DEF RInv
    <2>4. Flow(next_cursor_query_id, 0, 0)
      BY <1>0, <2>1, QueryFlow
    <2>5. QED
      BY <1>0, <2>2, <2>3, <2>4, QueryId
  <1>3. CASE PlacesCorrelated
    <2>1. moves' = moves + 1 /\ next_id' = next_cursor_query_id
          /\ aims' = [aims EXCEPT ![next_cursor_query_id] = moves']
      BY <1>3 DEF PlacesCorrelated
    <2>2. CountOK /\ AimOK
      BY <1>1, <2>1, Sizes DEF RInv
    <2>3. Flow(0, next_cursor_query_id, moves')
      BY <1>0, <1>3, CorrelatedFlow
    <2>4. QED
      BY <1>0, <1>1, <2>1, <2>2, <2>3, PlaceId
  <1>4. ASSUME moves' \in {moves, moves + 1}, UNCHANGED <<next_id, aims>>, Flow(0, 0, 0)
        PROVE  CountOK' /\ AimOK'
    <2>1. moves <= moves' /\ moves < ID_MOD
      BY <1>1, <1>4, Sizes
    <2>2. CountOK /\ AimOK
      BY <2>1 DEF RInv
    <2>3. QED
      BY <1>0, <1>1, <1>4, <2>1, <2>2, OldIds
  <1>5. CASE SwitchesOutput
    <2>1. moves' = moves + 1 /\ UNCHANGED <<next_id, aims>>
      BY <1>5 DEF SwitchesOutput
    <2>2. QED
      BY <1>0, <1>4, <1>5, <2>1, SwitchesFlow
  <1>6. CASE CrossingRetries \/ CrossingCompletes
    <2>1. UNCHANGED <<moves, next_id, aims>>
      BY <1>6 DEF CrossingRetries, CrossingCompletes
    <2>2. QED
      BY <1>0, <1>4, <1>6, <2>1, TaskFlow
  <1>7. CASE \/ \E locked \in BOOLEAN : CrossingDropped(locked)
             \/ MouseBoardReceives \/ channel_lifecycle_position \/ Lose \/ UNCHANGED vars
    <2>1. UNCHANGED <<moves, next_id, aims>>
      BY <1>7 DEF CrossingDropped, MouseBoardReceives, channel_lifecycle_position, Lose, vars, mouse
    <2>2. QED
      BY <1>0, <1>4, <1>7, <2>1, QuietFlow
  <1>8. CASE handle_output_select_msg \/ handle_cursor_query_msg \/ handle_cursor_place_msg
    <2>1. UNCHANGED <<moves, next_id, aims>>
      BY <1>8 DEF handle_output_select_msg, handle_cursor_query_msg, handle_cursor_place_msg, mouse
    <2>2. QED
      BY <1>0, <1>4, <1>8, <2>1, MessageFlow
  <1>9. CASE PlaceLooks \/ QueryLooks \/ OwedLooks \/ PlaceStale \/ OwedClears
    <2>1. UNCHANGED <<moves, next_id, aims>>
      BY <1>9 DEF PlaceLooks, QueryLooks, OwedLooks, PlaceStale, OwedClears, mouse
    <2>2. QED
      BY <1>0, <1>4, <1>9, <2>1, LooksFlow
  <1>10. CASE PlaceActs \/ QueryActs \/ OwedActs
    <2>1. UNCHANGED <<moves, next_id, aims>>
      BY <1>10 DEF PlaceActs, QueryActs, OwedActs, mouse
    <2>2. QED
      BY <1>0, <1>4, <1>10, <2>1, PlaceActsFlow, QueryActsFlow, OwedActsFlow
  <1>11. CASE SessionEnds \/ LinkLost \/ HelloAck
    <2>1. UNCHANGED <<moves, next_id, aims>>
      BY <1>11 DEF SessionEnds, LinkLost, HelloAck, SessionChanges, mouse
    <2>2. QED
      BY <1>0, <1>4, <1>11, <2>1, SessionFlow
  <1>12. CASE HelperTakes
    <2>1. UNCHANGED <<moves, next_id, aims>>
      BY <1>12 DEF HelperTakes, mouse
    <2>2. QED
      BY <1>0, <1>4, <1>12, <2>1, TakesFlow
  <1>13. QED
    BY <1>2, <1>3, <1>5, <1>6, <1>7, <1>8, <1>9, <1>10, <1>11, <1>12 DEF Next, Rests

(* As long as the query ids have not come round, the answer that carries a *)
(* placement's query id was read with the cursor where that placement put  *)
(* it: pump_place takes the id together with the placement it copies, and  *)
(* queues the two frames as a pair.                                        *)
THEOREM CrossingReadsItsOwn == Spec => [](moves < ID_MOD => ReadsItsOwn)
  <1>1. RInv => (moves < ID_MOD => ReadsItsOwn)
    <2> SUFFICES ASSUME RInv, moves < ID_MOD, NEW i \in 1 .. Len(answers)
                 PROVE  aims[answers[i].id] \in {0, answers[i].body}
      BY DEF ReadsItsOwn
    <2>1. answers \in Seq(Answers)
      BY Types DEF RInv, IInv, TypeInv
    <2>2. answers[i] \in Answers
      BY <2>1
    <2>3. answers[i].id \in Ids /\ answers[i].body \in Bodies
      BY <2>2 DEF Answers
    <2>4. Aimed(answers[i].id, answers[i].body)
      BY DEF Aimed
    <2>5. QED
      BY <2>3, <2>4 DEF RInv, AimOK
  <1>2. QED
    BY <1>1, InitRInv, NextRInv, PTL DEF Spec
=============================================================================
