---------------------------- MODULE SeatHoldProofs ----------------------------
(***************************************************************************)
(* TLAPS proofs about SeatHold, for every set of users and seats and every  *)
(* TTL and grace: the waiting room's positions, the agreement of rows and   *)
(* holds, that paying in time is enough, and that the inventory implements  *)
(* SeatSale.                                                                *)
(***************************************************************************)
EXTENDS SeatHold, FiniteSetTheorems, SequenceTheorems, FunctionTheorems, TLAPS

Row == [status : {"available", "held", "booked"}, version : Nat, hold : HoldId \cup {None}]

HoldRecord == [user : User, seats : Wanted, expiresAt : 0..(MaxTime + HoldTTL),
               versions : UNION {[w -> Nat] : w \in Wanted},
               status : {"active", "confirmed", "released", "expired"}]

------------------------------------------------------------------------------
(* The inductive invariant *)

\* The queue holds those with a ticket, in the order of the tickets, and the
\* tickets given out are those served and those in the queue.
RoomInv ==
    /\ queue \in Seq(User)
    /\ ticketOf \in [User -> 1..MaxTickets \cup {None}]
    /\ nextTicket \in 1..(MaxTickets + 1) /\ served \in 0..MaxTickets
    /\ admitted \in [User -> 0..(MaxTime + TokenTTL) \cup {None}]
    /\ admitAt \in 0..(MaxTime + TokenTTL) \cup {None}
    /\ nextTicket = served + Len(queue) + 1
    /\ \A i \in 1..Len(queue) : ticketOf[queue[i]] # None /\ ticketOf[queue[i]] - served = i
    /\ \A u \in User : ticketOf[u] # None => \E i \in 1..Len(queue) : queue[i] = u

\* A call of hold judges by a clock that has been read.
CallInv ==
    /\ now \in 0..MaxTime
    /\ deadline \in (0 - Grace)..MaxTime \cup {None}
    /\ DOMAIN calls = User
    /\ \A u \in User : calls[u] # None =>
          calls[u].seats \in Wanted /\ calls[u].at \in 0..MaxTime /\ calls[u].at <= now

\* The rows and the holds have their types, and a row names a hold there is.
SaleTypes ==
    /\ seats \in [Seat -> Row]
    /\ holds \in Seq(HoldRecord) /\ Len(holds) <= MaxHolds
    /\ \A h \in 1..Len(holds) : holds[h].versions \in [holds[h].seats -> Nat]
    /\ \A s \in Seat : seats[s].hold # None => seats[s].hold \in 1..Len(holds)

\* A confirmed hold keeps all its seats, booked.
SoldStaysSold ==
    \A h \in 1..Len(holds) : holds[h].status = "confirmed" =>
        \A s \in holds[h].seats : seats[s].status = "booked" /\ seats[s].hold = h

SaleInv == SaleTypes /\ RowsMatchHolds /\ SoldStaysSold /\ PayingInTimeIsEnough

Inv == RoomInv /\ CallInv /\ SaleInv

------------------------------------------------------------------------------
(* The waiting room *)

LEMMA RoomTypes ==
    ASSUME RoomInv
    PROVE  /\ Len(queue) \in Nat /\ served \in Nat /\ nextTicket \in Nat
           /\ \A i \in 1..Len(queue) : /\ queue[i] \in User
                                       /\ ticketOf[queue[i]] \in Int
                                       /\ ticketOf[queue[i]] = served + i
           /\ \A u \in User : ticketOf[u] # None => ticketOf[u] \in 1..MaxTickets
<1>1. queue \in Seq(User) /\ served \in 0..MaxTickets /\ nextTicket \in 1..(MaxTickets + 1)
  BY DEF RoomInv
<1>2. Len(queue) \in Nat /\ \A i \in 1..Len(queue) : queue[i] \in User
  BY <1>1, LenProperties, ElementOfSeq
<1>3. \A u \in User : ticketOf[u] # None => ticketOf[u] \in 1..MaxTickets
  BY DEF RoomInv
<1>4. ASSUME NEW i \in 1..Len(queue)
      PROVE  ticketOf[queue[i]] \in Int /\ ticketOf[queue[i]] = served + i
  <2>1. ticketOf[queue[i]] # None /\ ticketOf[queue[i]] - served = i
    BY DEF RoomInv
  <2>2. ticketOf[queue[i]] \in 1..MaxTickets
    BY <1>2, <1>3, <2>1
  <2> QED BY <1>1, <2>1, <2>2
<1> QED BY <1>1, <1>2, <1>3, <1>4

\* The number of those who have a ticket is the length of the queue.
LEMMA QueueCounts ==
    ASSUME RoomInv
    PROVE  Cardinality({u \in User : ticketOf[u] # None}) = Len(queue)
<1> DEFINE waiting == {u \in User : ticketOf[u] # None}
           at == [i \in 1..Len(queue) |-> queue[i]]
<1>1. /\ Len(queue) \in Nat /\ served \in Nat
      /\ \A i \in 1..Len(queue) : queue[i] \in User /\ ticketOf[queue[i]] = served + i
  BY RoomTypes
<1>2. \A i \in 1..Len(queue) : at[i] \in waiting
  BY <1>1 DEF RoomInv
<1>3. \A i, j \in 1..Len(queue) : at[i] = at[j] => i = j
  BY <1>1
<1>4. \A u \in waiting : \E i \in 1..Len(queue) : at[i] = u
  BY DEF RoomInv
<1>5. at \in [1..Len(queue) -> waiting]
  BY <1>2
<1>6. at \in Bijection(1..Len(queue), waiting)
  <2> HIDE DEF at, waiting
  <2> QED BY <1>3, <1>4, <1>5, Fun_IsBij
<1>7. ExistsBijection(1..Len(queue), waiting)
  BY <1>6 DEF ExistsBijection
<1> HIDE DEF waiting
<1>8. Cardinality(waiting) = Len(queue)
  BY <1>1, <1>7, FS_CountingElements
<1> QED BY <1>8 DEF waiting

LEMMA JoinKeeps ==
    ASSUME RoomInv, NEW u \in User, Join(u)
    PROVE  RoomInv'
<1>1. /\ Len(queue) \in Nat /\ served \in Nat /\ nextTicket \in Nat
      /\ \A i \in 1..Len(queue) : /\ queue[i] \in User
                                  /\ ticketOf[queue[i]] \in Int
                                  /\ ticketOf[queue[i]] = served + i
  BY RoomTypes
<1>2. /\ ticketOf[u] = None /\ nextTicket <= MaxTickets
      /\ ticketOf' = [ticketOf EXCEPT ![u] = nextTicket]
      /\ nextTicket' = nextTicket + 1 /\ queue' = Append(queue, u)
      /\ UNCHANGED <<served, admitted, admitAt>>
  BY DEF Join
<1>3. /\ queue' \in Seq(User) /\ Len(queue') = Len(queue) + 1
      /\ \A i \in 1..Len(queue) : queue'[i] = queue[i]
      /\ queue'[Len(queue) + 1] = u
  <2>1. queue \in Seq(User)
    BY DEF RoomInv
  <2> QED BY <1>2, <2>1, AppendProperties
<1>4. /\ ticketOf \in [User -> 1..MaxTickets \cup {None}]
      /\ nextTicket \in 1..(MaxTickets + 1) /\ nextTicket = served + Len(queue) + 1
      /\ MaxTickets \in Nat /\ None \notin Int
  BY SeatAssumption DEF RoomInv
<1>5. nextTicket \in 1..MaxTickets /\ nextTicket # None
  BY <1>1, <1>2, <1>4
<1>6. /\ ticketOf' \in [User -> 1..MaxTickets \cup {None}] /\ ticketOf'[u] = nextTicket
      /\ \A v \in User : v # u => ticketOf'[v] = ticketOf[v]
  BY <1>2, <1>4, <1>5
<1>7. nextTicket' \in 1..(MaxTickets + 1) /\ nextTicket' = served' + Len(queue') + 1
  BY <1>1, <1>2, <1>3, <1>4, <1>5
<1>8. ASSUME NEW i \in 1..Len(queue')
      PROVE  ticketOf'[queue'[i]] # None /\ ticketOf'[queue'[i]] - served' = i
  <2>1. CASE i = Len(queue) + 1
    BY <1>1, <1>2, <1>3, <1>4, <1>5, <1>6, <2>1
  <2>2. CASE i # Len(queue) + 1
    <3>1. i \in 1..Len(queue)
      BY <1>1, <1>3, <2>2
    <3>2. queue'[i] = queue[i] /\ queue[i] \in User /\ ticketOf[queue[i]] = served + i
      BY <1>1, <1>3, <3>1
    <3>3. ticketOf[queue[i]] # None
      BY <3>1 DEF RoomInv
    <3>4. queue[i] # u
      BY <1>2, <3>3
    <3> QED BY <1>1, <1>2, <1>6, <3>1, <3>2, <3>3, <3>4
  <2> QED BY <2>1, <2>2
<1>9. ASSUME NEW v \in User, ticketOf'[v] # None
      PROVE  \E i \in 1..Len(queue') : queue'[i] = v
  <2>1. CASE v = u
    <3>1. Len(queue) + 1 \in 1..Len(queue')
      BY <1>1, <1>3
    <3> QED BY <1>3, <2>1, <3>1
  <2>2. CASE v # u
    <3>1. PICK i \in 1..Len(queue) : queue[i] = v
      BY <1>6, <1>9, <2>2 DEF RoomInv
    <3>2. i \in 1..Len(queue') /\ queue'[i] = v
      BY <1>1, <1>3, <3>1
    <3> QED BY <3>2
  <2> QED BY <2>1, <2>2
<1> QED BY <1>2, <1>3, <1>6, <1>7, <1>8, <1>9 DEF RoomInv

LEMMA AdmitKeeps ==
    ASSUME RoomInv, NEW count \in 1..2, Admit(count)
    PROVE  RoomInv'
<1> DEFINE n == IF count <= Len(queue) THEN count ELSE Len(queue)
           leaving == {queue[i] : i \in 1..n}
           L == Len(queue)
<1>1. /\ L \in Nat /\ served \in Nat /\ nextTicket \in Nat
      /\ \A i \in 1..L : /\ queue[i] \in User
                         /\ ticketOf[queue[i]] \in Int
                         /\ ticketOf[queue[i]] = served + i
      /\ \A i \in 1..L : ticketOf[queue[i]] # None
      /\ queue \in Seq(User)
  BY RoomTypes DEF RoomInv
<1>2. /\ queue' = SubSeq(queue, n + 1, L)
      /\ ticketOf' = [u \in User |-> IF u \in leaving THEN None ELSE ticketOf[u]]
      /\ served' = served + n
      /\ admitted' = [u \in User |-> IF u \in leaving THEN admitAt ELSE admitted[u]]
      /\ admitAt' = None /\ nextTicket' = nextTicket /\ admitAt # None
  BY DEF Admit
<1>3. n \in 0..L
  BY <1>1
<1>4. \A u \in User : u \in leaving <=> \E i \in 1..n : queue[i] = u
  OBVIOUS
<1> HIDE DEF n, leaving
<1>5. /\ queue' \in Seq(User) /\ Len(queue') = L - n
      /\ \A i \in 1..(L - n) : queue'[i] = queue[n + i]
  <2>1. \A i \in (n + 1)..L : queue[i] \in User
    BY <1>1, <1>3
  <2> DEFINE rest == SubSeq(queue, n + 1, L)
  <2>2. /\ rest \in Seq(User)
        /\ Len(rest) = IF n + 1 <= L THEN L - (n + 1) + 1 ELSE 0
        /\ \A i \in 1..(L - (n + 1) + 1) : rest[i] = queue[n + 1 + i - 1]
    BY <1>1, <1>3, <2>1, SubSeqProperties
  <2>3. queue' = rest
    BY <1>2
  <2> HIDE DEF rest, L
  <2>4. Len(rest) = L - n
    BY <1>1, <1>3, <2>2
  <2>5. ASSUME NEW i \in 1..(L - n)
        PROVE  rest[i] = queue[n + i]
    <3>1. i \in 1..(L - (n + 1) + 1) /\ n + 1 + i - 1 = n + i
      BY <1>1, <1>3
    <3> QED BY <2>2, <3>1
  <2> QED BY <2>2, <2>3, <2>4, <2>5
<1>6. \A i \in (n + 1)..L : queue[i] \notin leaving
  <2> SUFFICES ASSUME NEW i \in (n + 1)..L, NEW j \in 1..n, queue[i] = queue[j]
               PROVE  FALSE
    BY <1>1, <1>3, <1>4
  <2>1. i \in 1..L /\ j \in 1..L /\ i # j
    BY <1>1, <1>3
  <2> QED BY <1>1, <2>1
<1>7. /\ ticketOf \in [User -> 1..MaxTickets \cup {None}]
      /\ admitted \in [User -> 0..(MaxTime + TokenTTL) \cup {None}]
      /\ admitAt \in 0..(MaxTime + TokenTTL) \cup {None}
      /\ nextTicket \in 1..(MaxTickets + 1) /\ nextTicket = served + L + 1
  BY DEF RoomInv
<1>8. /\ ticketOf' \in [User -> 1..MaxTickets \cup {None}]
      /\ admitted' \in [User -> 0..(MaxTime + TokenTTL) \cup {None}]
      /\ admitAt' \in 0..(MaxTime + TokenTTL) \cup {None}
  BY <1>2, <1>7
<1>9. served' \in 0..MaxTickets /\ nextTicket' = served' + Len(queue') + 1
  <2> HIDE DEF L
  <2>1. served + n \in 0..MaxTickets /\ nextTicket = served + n + (L - n) + 1
    BY <1>1, <1>3, <1>7, SeatAssumption
  <2> QED BY <1>2, <1>5, <2>1
<1>10. ASSUME NEW i \in 1..Len(queue')
       PROVE  ticketOf'[queue'[i]] # None /\ ticketOf'[queue'[i]] - served' = i
  <2>1. n + i \in (n + 1)..L /\ n + i \in 1..L /\ i \in 1..(L - n)
    BY <1>1, <1>3, <1>5
  <2>2. queue'[i] = queue[n + i] /\ queue[n + i] \in User /\ queue[n + i] \notin leaving
    BY <1>1, <1>5, <1>6, <2>1
  <2>3. ticketOf'[queue'[i]] = ticketOf[queue[n + i]]
    BY <1>2, <2>2
  <2>4. ticketOf[queue[n + i]] = served + (n + i) /\ ticketOf[queue[n + i]] # None
    BY <1>1, <2>1
  <2> QED BY <1>1, <1>2, <1>3, <2>3, <2>4
<1>11. ASSUME NEW u \in User, ticketOf'[u] # None
       PROVE  \E i \in 1..Len(queue') : queue'[i] = u
  <2>1. u \notin leaving /\ ticketOf[u] # None
    BY <1>2, <1>11
  <2>2. PICK i \in 1..L : queue[i] = u
    BY <2>1 DEF RoomInv
  <2>3. ~(i \in 1..n)
    BY <1>4, <2>1, <2>2
  <2>4. i - n \in 1..(L - n) /\ n + (i - n) = i
    BY <1>1, <1>3, <2>3
  <2> QED BY <1>5, <2>2, <2>4
<1> QED BY <1>2, <1>5, <1>7, <1>8, <1>9, <1>10, <1>11 DEF RoomInv

------------------------------------------------------------------------------
(* Rows and holds *)

LEMMA RowFacts ==
    ASSUME SaleTypes, NEW s \in Seat
    PROVE  /\ DOMAIN seats[s] = {"status", "version", "hold"}
           /\ seats[s].status \in {"available", "held", "booked"}
           /\ seats[s].version \in Nat /\ seats[s].hold \in HoldId \cup {None}
<1>1. seats[s] \in Row
  BY DEF SaleTypes
<1> QED BY <1>1 DEF Row

\* A row that changes hands, and a row that is booked.
LEMMA RowMade ==
    ASSUME NEW st \in {"available", "held", "booked"}, NEW v \in Nat,
           NEW h \in HoldId \cup {None}, NEW r, r = [status |-> st, version |-> v, hold |-> h]
    PROVE  r \in Row /\ r.status = st /\ r.version = v /\ r.hold = h
  BY DEF Row

LEMMA RowBooked ==
    ASSUME NEW r \in Row, NEW q, q = [r EXCEPT !.status = "booked", !.version = @ + 1]
    PROVE  q \in Row /\ q.status = "booked" /\ q.hold = r.hold
<1>1. /\ r = [status |-> r.status, version |-> r.version, hold |-> r.hold]
      /\ r.version \in Nat /\ r.hold \in HoldId \cup {None}
  BY DEF Row
<1>2. q = [status |-> "booked", version |-> r.version + 1, hold |-> r.hold]
  BY <1>1
<1>3. "booked" \in {"available", "held", "booked"} /\ r.version + 1 \in Nat
  BY <1>1
<1>4. q \in Row /\ q.status = "booked" /\ q.version = r.version + 1 /\ q.hold = r.hold
  BY <1>1, <1>2, <1>3 DEF Row
<1> QED BY <1>4

LEMMA HoldFacts ==
    ASSUME SaleTypes, NEW h \in 1..Len(holds)
    PROVE  /\ holds[h] \in HoldRecord /\ h \in HoldId /\ h \in Nat /\ h # None
           /\ holds[h].user \in User /\ holds[h].seats \in Wanted
           /\ holds[h].expiresAt \in 0..(MaxTime + HoldTTL) /\ holds[h].expiresAt \in Int
           /\ holds[h].status \in {"active", "confirmed", "released", "expired"}
           /\ holds[h].versions \in [holds[h].seats -> Nat]
<1>1. holds \in Seq(HoldRecord) /\ Len(holds) <= MaxHolds
  BY DEF SaleTypes
<1>2. holds[h] \in HoldRecord /\ Len(holds) \in Nat
  BY <1>1, LenProperties, ElementOfSeq
<1>3. /\ holds[h].user \in User /\ holds[h].seats \in Wanted
      /\ holds[h].expiresAt \in 0..(MaxTime + HoldTTL)
      /\ holds[h].status \in {"active", "confirmed", "released", "expired"}
  BY <1>2 DEF HoldRecord
<1>4. h \in HoldId /\ h \in Nat /\ h # None /\ holds[h].expiresAt \in Int
  BY <1>1, <1>2, <1>3, SeatAssumption DEF HoldId
<1>5. holds[h].versions \in [holds[h].seats -> Nat]
  BY DEF SaleTypes
<1> QED BY <1>2, <1>3, <1>4, <1>5

LEMMA HoldsLength ==
    ASSUME SaleTypes
    PROVE  /\ Len(holds) \in Nat /\ DOMAIN holds = 1..Len(holds) /\ Len(holds) <= MaxHolds
           /\ MaxHolds \in Nat
<1>1. holds \in Seq(HoldRecord) /\ Len(holds) <= MaxHolds
  BY DEF SaleTypes
<1> QED BY <1>1, LenProperties, SeatAssumption

LEMMA WantedFacts ==
    ASSUME NEW w \in Wanted
    PROVE  w \subseteq Seat /\ w # {}
  BY DEF Wanted

\* A hold that changes its status alone.
LEMMA StatusChanged ==
    ASSUME NEW r \in HoldRecord, NEW st \in {"active", "confirmed", "released", "expired"},
           NEW q, q = [r EXCEPT !.status = st]
    PROVE  /\ q \in HoldRecord /\ q.status = st /\ q.user = r.user /\ q.seats = r.seats
           /\ q.expiresAt = r.expiresAt /\ q.versions = r.versions
<1> DEFINE V == UNION {[w -> Nat] : w \in Wanted}
           E == 0..(MaxTime + HoldTTL)
           W == Wanted
<1> HIDE DEF V, E, W
<1>1. HoldRecord = [user : User, seats : W, expiresAt : E, versions : V,
                    status : {"active", "confirmed", "released", "expired"}]
  BY DEF HoldRecord, V, E, W
<1> QED BY <1>1

\* The only status a row has while its hold is active is held.
LEMMA ActiveIsHeld ==
    ASSUME SaleTypes, RowsMatchHolds, NEW s \in Seat, seats[s].hold # None,
           holds[seats[s].hold].status # "confirmed"
    PROVE  /\ seats[s].status = "held" /\ s \in holds[seats[s].hold].seats
           /\ holds[seats[s].hold].status = "active"
  BY RowFacts DEF RowsMatchHolds

------------------------------------------------------------------------------
(* The steps of a sale *)

\* The holds confirmed before a step are those confirmed after it.
SameSold ==
    /\ Len(holds) <= Len(holds')
    /\ \A h \in 1..Len(holds') :
          /\ holds'[h].status = "confirmed" => h <= Len(holds) /\ holds[h].status = "confirmed"
          /\ h <= Len(holds) /\ holds[h].status = "confirmed" =>
                holds'[h].status = "confirmed"
          /\ h <= Len(holds) => holds'[h].user = holds[h].user /\ holds'[h].seats = holds[h].seats

\* All the same, and h confirmed.
SameSoldBut(h) ==
    /\ Len(holds') = Len(holds) /\ holds'[h].status = "confirmed"
    /\ \A g \in 1..Len(holds) :
          /\ g # h => (holds'[g].status = "confirmed" <=> holds[g].status = "confirmed")
          /\ holds'[g].user = holds[g].user /\ holds'[g].seats = holds[g].seats

\* hold: the rows it takes are free, or their hold had run out when it looked.
LEMMA HoldKeeps ==
    ASSUME SaleInv, CallInv, NEW u \in User, Hold(u)
    PROVE  SaleInv' /\ SameSold
<1> DEFINE at == calls[u].at
           wanted == calls[u].seats
           N == Len(holds)
           id == N + 1
           fresh == [user |-> u, seats |-> wanted, expiresAt |-> at + HoldTTL,
                     versions |-> [s \in wanted |-> seats[s].version + 1],
                     status |-> "active"]
<1>0. SaleTypes /\ RowsMatchHolds /\ SoldStaysSold /\ PayingInTimeIsEnough /\ now' = now
  BY DEF SaleInv, Hold
<1>1. /\ N \in Nat /\ DOMAIN holds = 1..N /\ N <= MaxHolds /\ MaxHolds \in Nat
      /\ holds \in Seq(HoldRecord)
  BY <1>0, HoldsLength DEF SaleTypes
<1>2. CASE UNCHANGED saleVars
  <2>1. seats' = seats /\ holds' = holds
    BY <1>2 DEF saleVars
  <2> QED BY <1>0, <1>1, <2>1
          DEF SaleInv, SaleTypes, RowsMatchHolds, SoldStaysSold, PayingInTimeIsEnough,
              Untouched, SameSold
<1>3. CASE ~UNCHANGED saleVars
  <2>1. /\ wanted \in Wanted /\ at \in 0..MaxTime /\ at <= now /\ now \in 0..MaxTime
    BY DEF CallInv, Hold
  <2>2. /\ \A s \in wanted : Takeable(s, at)
        /\ N < MaxHolds
        /\ seats' = [s \in Seat |->
                IF s \in wanted
                THEN [status |-> "held", version |-> seats[s].version + 1, hold |-> id]
                ELSE seats[s]]
        /\ holds' = Append(holds, fresh)
    BY <1>3 DEF Hold
  <2>3. /\ id \in HoldId /\ id \in Nat /\ id # None /\ wanted \subseteq Seat /\ wanted # {}
        /\ MaxTime \in Nat /\ HoldTTL \in Nat
    <3>1. id \in HoldId /\ id \in Nat
      BY <1>1, <2>2 DEF HoldId
    <3>2. id # None /\ MaxTime \in Nat /\ HoldTTL \in Nat
      BY <3>1, SeatAssumption
    <3>3. wanted \subseteq Seat /\ wanted # {}
      BY <2>1, WantedFacts
    <3> QED BY <3>1, <3>2, <3>3
  <2>4. /\ fresh.user = u /\ fresh.seats = wanted /\ fresh.status = "active"
        /\ fresh.versions = [s \in wanted |-> seats[s].version + 1]
        /\ fresh.versions \in [wanted -> Nat]
        /\ fresh \in HoldRecord
    <3>1. [s \in wanted |-> seats[s].version + 1] \in [wanted -> Nat]
      BY <1>0, <2>3, RowFacts
    <3>2. at + HoldTTL \in 0..(MaxTime + HoldTTL)
      BY <2>1, <2>3
    <3>3. [s \in wanted |-> seats[s].version + 1] \in UNION {[w -> Nat] : w \in Wanted}
      BY <2>1, <3>1
    <3> QED BY <2>1, <3>1, <3>2, <3>3 DEF HoldRecord
  <2> HIDE DEF fresh, wanted, at
  <2>5. /\ holds' \in Seq(HoldRecord) /\ Len(holds') = id /\ holds'[id] = fresh
        /\ \A h \in 1..N : holds'[h] = holds[h]
    BY <1>1, <2>2, <2>4, AppendProperties
  <2>6. \A s \in Seat : s \notin wanted => seats'[s] = seats[s]
    BY <2>2
  <2>7. ASSUME NEW s \in wanted
        PROVE  /\ seats'[s] \in Row /\ seats'[s].status = "held" /\ seats'[s].hold = id
               /\ seats'[s].version = fresh.versions[s] /\ seats[s].status # "booked"
    <3>1. s \in Seat /\ seats[s].version + 1 \in Nat
      BY <1>0, <2>3, RowFacts
    <3>2. seats'[s] = [status |-> "held", version |-> seats[s].version + 1, hold |-> id]
      BY <2>2, <3>1
    <3>3. /\ seats'[s] \in Row /\ seats'[s].status = "held" /\ seats'[s].hold = id
          /\ seats'[s].version = seats[s].version + 1
      BY <2>3, <3>1, <3>2, RowMade
    <3>4. seats[s].status # "booked"
      BY <2>2 DEF Takeable
    <3>5. fresh.versions[s] = seats[s].version + 1
      BY <2>4
    <3> QED BY <3>3, <3>4, <3>5
  <2>8. \A h \in 1..id : h # id => h \in 1..N
    BY <1>1
  <2>9. SaleTypes'
    <3>1. seats' \in [Seat -> Row]
      BY <1>0, <2>2, <2>6, <2>7 DEF SaleTypes
    <3>2. \A h \in 1..id : holds'[h].versions \in [holds'[h].seats -> Nat]
      BY <1>0, <2>4, <2>5, <2>8 DEF SaleTypes
    <3>3. ASSUME NEW s \in Seat, seats'[s].hold # None
          PROVE  seats'[s].hold \in 1..id
      <4>1. CASE s \in wanted
        BY <1>1, <2>7, <4>1
      <4>2. CASE s \notin wanted
        <5>1. seats[s].hold \in 1..N
          BY <1>0, <2>6, <3>3, <4>2 DEF SaleTypes
        <5>2. 1..N \subseteq 1..id
          BY <1>1
        <5> QED BY <2>6, <4>2, <5>1, <5>2
      <4> QED BY <4>1, <4>2
    <3>4. Len(holds') <= MaxHolds
      BY <1>1, <2>2, <2>5
    <3> QED BY <2>5, <3>1, <3>2, <3>3, <3>4 DEF SaleTypes
  <2>10. RowsMatchHolds'
    <3> SUFFICES ASSUME NEW s \in Seat
                 PROVE  /\ seats'[s].hold = None <=> seats'[s].status = "available"
                        /\ seats'[s].status = "held" =>
                              /\ s \in holds'[seats'[s].hold].seats
                              /\ holds'[seats'[s].hold].status = "active"
                              /\ seats'[s].version = holds'[seats'[s].hold].versions[s]
                        /\ seats'[s].status = "booked" =>
                              /\ s \in holds'[seats'[s].hold].seats
                              /\ holds'[seats'[s].hold].status = "confirmed"
      BY DEF RowsMatchHolds
    <3>1. CASE s \in wanted
      BY <2>3, <2>4, <2>5, <2>7, <3>1
    <3>2. CASE s \notin wanted
      <4>1. CASE seats[s].hold = None
        <5>1. seats[s].status = "available"
          BY <1>0, <4>1 DEF RowsMatchHolds
        <5> QED BY <2>6, <3>2, <4>1, <5>1
      <4>2. CASE seats[s].hold # None
        <5>1. seats[s].hold \in 1..N
          BY <1>0, <4>2 DEF SaleTypes
        <5>2. holds'[seats[s].hold] = holds[seats[s].hold] /\ seats'[s] = seats[s]
          BY <2>5, <2>6, <3>2, <5>1
        <5> QED BY <1>0, <5>2 DEF RowsMatchHolds
      <4> QED BY <4>1, <4>2
    <3> QED BY <3>1, <3>2
  <2>11. SoldStaysSold'
    <3> SUFFICES ASSUME NEW h \in 1..id, holds'[h].status = "confirmed",
                        NEW s \in holds'[h].seats
                 PROVE  seats'[s].status = "booked" /\ seats'[s].hold = h
      BY <2>5 DEF SoldStaysSold
    <3>1. h \in 1..N
      BY <2>4, <2>5, <2>8
    <3>2. seats[s].status = "booked" /\ seats[s].hold = h /\ s \in Seat
      BY <1>0, <2>5, <3>1, HoldFacts DEF SoldStaysSold, Wanted
    <3> QED BY <2>6, <2>7, <3>2
  <2>12. PayingInTimeIsEnough'
    <3> SUFFICES ASSUME NEW h \in 1..id, holds'[h].status = "active"
                 PROVE  /\ holds'[h].expiresAt > now =>
                              \A s \in holds'[h].seats :
                                  seats'[s].hold = h /\ seats'[s].version = holds'[h].versions[s]
                        /\ \A s \in holds'[h].seats :
                              \/ seats'[s].hold = h /\ seats'[s].version = holds'[h].versions[s]
                              \/ \E g \in (h + 1)..id : s \in holds'[g].seats
      <4>1. DOMAIN holds' = 1..id
        BY <2>5, LenProperties
      <4> QED BY <1>0, <2>5, <4>1 DEF PayingInTimeIsEnough, Untouched
    <3>1. CASE h = id
      BY <2>4, <2>5, <2>7, <3>1
    <3>2. CASE h # id
      <4>1. /\ h \in 1..N /\ holds'[h] = holds[h] /\ h # None /\ holds[h].seats \subseteq Seat
            /\ holds[h].expiresAt \in Int /\ id \in (h + 1)..id
        <5>1. h \in 1..N /\ holds'[h] = holds[h]
          BY <2>5, <2>8, <3>2
        <5> QED BY <1>0, <1>1, <5>1, HoldFacts DEF Wanted
      <4>2. /\ holds[h].expiresAt > now => Untouched(h)
            /\ \A s \in holds[h].seats :
                  \/ seats[s].hold = h /\ seats[s].version = holds[h].versions[s]
                  \/ \E g \in (h + 1)..N : s \in holds[g].seats
        BY <1>0, <1>1, <4>1 DEF PayingInTimeIsEnough
      <4>3. ASSUME holds[h].expiresAt > now, NEW s \in holds[h].seats
            PROVE  seats'[s].hold = h /\ seats'[s].version = holds[h].versions[s]
        <5>1. seats[s].hold = h /\ seats[s].version = holds[h].versions[s] /\ s \in Seat
          BY <4>1, <4>2, <4>3 DEF Untouched
        <5>2. seats[s].status # "available"
          BY <1>0, <4>1, <5>1 DEF RowsMatchHolds
        <5>3. ASSUME s \in wanted
              PROVE  FALSE
          <6>1. holds[h].expiresAt <= at
            BY <2>2, <5>1, <5>2, <5>3 DEF Takeable
          <6> QED BY <2>1, <4>1, <4>3, <6>1
        <5> QED BY <2>6, <5>1, <5>3
      <4>4. ASSUME NEW s \in holds[h].seats
            PROVE  \/ seats'[s].hold = h /\ seats'[s].version = holds[h].versions[s]
                   \/ \E g \in (h + 1)..id : s \in holds'[g].seats
        <5>1. CASE s \in wanted
          BY <2>4, <2>5, <4>1, <5>1
        <5>2. CASE s \notin wanted /\ seats[s].hold = h /\ seats[s].version = holds[h].versions[s]
          BY <2>6, <4>1, <5>2
        <5>3. ASSUME NEW g \in (h + 1)..N, s \in holds[g].seats
              PROVE  \E k \in (h + 1)..id : s \in holds'[k].seats
          <6>1. g \in 1..N /\ g \in (h + 1)..id
            BY <1>1, <4>1
          <6>2. holds'[g] = holds[g]
            BY <2>5, <6>1
          <6> QED BY <5>3, <6>1, <6>2
        <5> QED BY <4>2, <5>1, <5>2, <5>3
      <4> QED BY <4>1, <4>3, <4>4
    <3> QED BY <3>1, <3>2
  <2>13. SameSold
    <3>1. N <= id
      BY <1>1
    <3>2. ASSUME NEW h \in 1..id
          PROVE  /\ holds'[h].status = "confirmed" => h <= N /\ holds[h].status = "confirmed"
                 /\ h <= N /\ holds[h].status = "confirmed" => holds'[h].status = "confirmed"
                 /\ h <= N => holds'[h].user = holds[h].user /\ holds'[h].seats = holds[h].seats
      <4>1. CASE h = id
        BY <1>1, <2>4, <2>5, <4>1
      <4>2. CASE h # id
        BY <1>1, <2>5, <2>8, <4>2
      <4> QED BY <4>1, <4>2
    <3> QED BY <2>5, <3>1, <3>2 DEF SameSold
  <2> QED BY <2>9, <2>10, <2>11, <2>12, <2>13 DEF SaleInv
<1> QED BY <1>2, <1>3

\* confirm: the rows booked are exactly those the hold still had.
LEMMA BookKeeps ==
    ASSUME SaleInv, NEW h \in DOMAIN holds, Book(h)
    PROVE  SaleInv' /\ SameSoldBut(h)
<1> DEFINE N == Len(holds)
           mine == holds[h].seats
<1>0. /\ SaleTypes /\ RowsMatchHolds /\ SoldStaysSold /\ PayingInTimeIsEnough /\ now' = now
  BY DEF SaleInv, Book
<1>1. /\ N \in Nat /\ DOMAIN holds = 1..N /\ h \in 1..N /\ N <= MaxHolds
      /\ holds \in Seq(HoldRecord)
  BY <1>0, HoldsLength DEF SaleTypes
<1>2. /\ holds[h].status = "active"
      /\ \A s \in mine : seats[s].hold = h /\ seats[s].version = holds[h].versions[s]
      /\ seats' = [s \in Seat |->
             IF s \in mine
             THEN [seats[s] EXCEPT !.status = "booked", !.version = @ + 1] ELSE seats[s]]
      /\ holds' = [holds EXCEPT ![h].status = "confirmed"]
  BY DEF Book, Untouched
<1>3. /\ mine \subseteq Seat /\ holds[h] \in HoldRecord
  BY <1>0, <1>1, HoldFacts DEF Wanted
<1>4. \A g \in 1..N : g \in Nat /\ g # None
  BY <1>0, HoldFacts
<1> DEFINE q == [holds[h] EXCEPT !.status = "confirmed"]
<1>5. /\ q \in HoldRecord /\ q.status = "confirmed" /\ q.user = holds[h].user
      /\ q.seats = holds[h].seats /\ q.expiresAt = holds[h].expiresAt
      /\ q.versions = holds[h].versions
  BY <1>3, StatusChanged
<1>6. holds' = [holds EXCEPT ![h] = q]
  BY <1>2
<1> HIDE DEF q, mine
<1>7. /\ holds' \in Seq(HoldRecord) /\ Len(holds') = N
      /\ \A g \in 1..N : holds'[g] = IF g = h THEN q ELSE holds[g]
  <2>1. h \in 1..Len(holds) /\ q \in HoldRecord
    BY <1>1, <1>5
  <2>2. /\ [holds EXCEPT ![h] = q] \in Seq(HoldRecord)
        /\ Len([holds EXCEPT ![h] = q]) = Len(holds)
        /\ \A g \in 1..Len(holds) :
              [holds EXCEPT ![h] = q][g] = IF g = h THEN q ELSE holds[g]
    BY <1>1, <2>1, ExceptSeq
  <2> QED BY <1>6, <2>2
<1>8. /\ \A s \in mine : /\ seats'[s] \in Row /\ seats'[s].status = "booked"
                         /\ seats'[s].hold = h
      /\ \A s \in Seat : s \notin mine => seats'[s] = seats[s]
  <2>1. ASSUME NEW s \in mine
        PROVE  /\ seats'[s] \in Row /\ seats'[s].status = "booked" /\ seats'[s].hold = h
    <3>1. seats[s] \in Row /\ s \in Seat /\ seats[s].hold = h
      BY <1>0, <1>2, <1>3 DEF SaleTypes, mine
    <3>2. seats'[s] = [seats[s] EXCEPT !.status = "booked", !.version = @ + 1]
      BY <1>2, <3>1 DEF mine
    <3> QED BY <3>1, <3>2, RowBooked
  <2> QED BY <1>2, <2>1 DEF mine
<1>9. \A s \in Seat : seats[s].hold = h => s \in mine
  <2> SUFFICES ASSUME NEW s \in Seat, seats[s].hold = h
               PROVE  s \in mine
    OBVIOUS
  <2>1. seats[s].hold # None /\ holds[seats[s].hold].status # "confirmed"
    BY <1>1, <1>2, <1>4
  <2>2. s \in holds[seats[s].hold].seats
    BY <1>0, <2>1, ActiveIsHeld
  <2> QED BY <2>2 DEF mine
<1>10. SaleTypes'
  <2>1. seats' \in [Seat -> Row]
    <3>1. \A s \in Seat : seats'[s] \in Row
      BY <1>0, <1>8 DEF SaleTypes
    <3> QED BY <1>2, <3>1
  <2>2. \A g \in 1..N : holds'[g].versions \in [holds'[g].seats -> Nat]
    BY <1>0, <1>1, <1>5, <1>7 DEF SaleTypes
  <2>3. \A s \in Seat : seats'[s].hold # None => seats'[s].hold \in 1..N
    BY <1>0, <1>1, <1>8 DEF SaleTypes
  <2> QED BY <1>1, <1>7, <2>1, <2>2, <2>3 DEF SaleTypes
<1>11. RowsMatchHolds'
  <2> SUFFICES ASSUME NEW s \in Seat
               PROVE  /\ seats'[s].hold = None <=> seats'[s].status = "available"
                      /\ seats'[s].status = "held" =>
                            /\ s \in holds'[seats'[s].hold].seats
                            /\ holds'[seats'[s].hold].status = "active"
                            /\ seats'[s].version = holds'[seats'[s].hold].versions[s]
                      /\ seats'[s].status = "booked" =>
                            /\ s \in holds'[seats'[s].hold].seats
                            /\ holds'[seats'[s].hold].status = "confirmed"
    BY DEF RowsMatchHolds
  <2>1. CASE s \in mine
    BY <1>1, <1>4, <1>5, <1>7, <1>8, <2>1 DEF mine
  <2>2. CASE s \notin mine
    <3>1. CASE seats[s].hold = None
      <4>1. seats[s].status = "available"
        BY <1>0, <3>1 DEF RowsMatchHolds
      <4> QED BY <1>8, <2>2, <3>1, <4>1
    <3>2. CASE seats[s].hold # None
      <4>1. seats[s].hold \in 1..N /\ seats[s].hold # h
        BY <1>0, <1>9, <2>2, <3>2 DEF SaleTypes
      <4>2. holds'[seats[s].hold] = holds[seats[s].hold] /\ seats'[s] = seats[s]
        BY <1>7, <1>8, <2>2, <4>1
      <4> QED BY <1>0, <4>2 DEF RowsMatchHolds
    <3> QED BY <3>1, <3>2
  <2> QED BY <2>1, <2>2
<1>12. SoldStaysSold'
  <2> SUFFICES ASSUME NEW g \in 1..N, holds'[g].status = "confirmed",
                      NEW s \in holds'[g].seats
               PROVE  seats'[s].status = "booked" /\ seats'[s].hold = g
    BY <1>7 DEF SoldStaysSold
  <2>1. CASE g = h
    <3>1. s \in mine
      BY <1>1, <1>5, <1>7, <2>1 DEF mine
    <3> QED BY <1>8, <2>1, <3>1
  <2>2. CASE g # h
    <3>1. seats[s].status = "booked" /\ seats[s].hold = g /\ s \in Seat
      BY <1>0, <1>7, <2>2, HoldFacts DEF SoldStaysSold, Wanted
    <3> QED BY <1>2, <1>8, <2>2, <3>1 DEF mine
  <2> QED BY <2>1, <2>2
<1>13. PayingInTimeIsEnough'
  <2> SUFFICES ASSUME NEW g \in 1..N, holds'[g].status = "active"
               PROVE  /\ holds'[g].expiresAt > now =>
                            \A s \in holds'[g].seats :
                                seats'[s].hold = g /\ seats'[s].version = holds'[g].versions[s]
                      /\ \A s \in holds'[g].seats :
                            \/ seats'[s].hold = g /\ seats'[s].version = holds'[g].versions[s]
                            \/ \E k \in (g + 1)..N : s \in holds'[k].seats
    <3>1. DOMAIN holds' = 1..N
      BY <1>7, LenProperties
    <3> QED BY <1>0, <1>7, <3>1 DEF PayingInTimeIsEnough, Untouched
  <2>1. g # h /\ holds'[g] = holds[g] /\ holds[g].seats \subseteq Seat
    BY <1>0, <1>5, <1>7, HoldFacts DEF Wanted
  <2>2. /\ holds[g].expiresAt > now =>
              \A s \in holds[g].seats :
                  seats[s].hold = g /\ seats[s].version = holds[g].versions[s]
        /\ \A s \in holds[g].seats :
              \/ seats[s].hold = g /\ seats[s].version = holds[g].versions[s]
              \/ \E k \in (g + 1)..N : s \in holds[k].seats
    BY <1>0, <1>1, <2>1 DEF PayingInTimeIsEnough, Untouched
  <2>3. \A s \in holds[g].seats : seats[s].hold = g => seats'[s] = seats[s]
    BY <1>2, <1>8, <2>1 DEF mine
  <2>4. \A k \in (g + 1)..N : holds'[k].seats = holds[k].seats
    <3>1. \A k \in (g + 1)..N : k \in 1..N
      BY <1>1
    <3> QED BY <1>5, <1>7, <3>1
  <2> QED BY <2>1, <2>2, <2>3, <2>4
<1>14. SameSoldBut(h)
  BY <1>1, <1>2, <1>5, <1>7 DEF SameSoldBut
<1> QED BY <1>10, <1>11, <1>12, <1>13, <1>14 DEF SaleInv

\* _release_seats for holds that are not confirmed: the rows freed are theirs.
LEMMA ReleaseKeeps ==
    ASSUME SaleInv, NEW H, H \subseteq DOMAIN holds, \A h \in H : holds[h].status # "confirmed",
           NEW st \in {"expired", "released"}, ReleaseSeats(H, st), now' = now
    PROVE  SaleInv' /\ SameSold
<1> DEFINE N == Len(holds)
<1>0. /\ SaleTypes /\ RowsMatchHolds /\ SoldStaysSold /\ PayingInTimeIsEnough
  BY DEF SaleInv
<1>1. /\ N \in Nat /\ DOMAIN holds = 1..N /\ N <= MaxHolds /\ holds \in Seq(HoldRecord)
  BY <1>0, HoldsLength DEF SaleTypes
<1>2. /\ seats' = [s \in Seat |->
             IF seats[s].status = "held" /\ seats[s].hold \in H
             THEN [status |-> "available", version |-> seats[s].version + 1, hold |-> None]
             ELSE seats[s]]
      /\ holds' = [h \in 1..N |->
             IF h \in H THEN [holds[h] EXCEPT !.status = st] ELSE holds[h]]
  BY <1>1 DEF ReleaseSeats
<1>3. \A h \in 1..N : h \in Nat /\ h # None /\ holds[h] \in HoldRecord
  BY <1>0, HoldFacts
<1>4. ASSUME NEW h \in H
      PROVE  /\ h \in 1..N /\ holds'[h] \in HoldRecord /\ holds'[h].status = st
             /\ holds'[h].user = holds[h].user /\ holds'[h].seats = holds[h].seats
             /\ holds'[h].versions = holds[h].versions
  <2>1. /\ h \in 1..N /\ holds[h] \in HoldRecord
        /\ st \in {"active", "confirmed", "released", "expired"}
    BY <1>1, <1>3
  <2>2. holds'[h] = [holds[h] EXCEPT !.status = st]
    BY <1>2, <2>1
  <2> QED BY <2>1, <2>2, StatusChanged
<1>5. \A h \in 1..N : h \notin H => holds'[h] = holds[h]
  BY <1>2
<1>6. /\ holds' \in Seq(HoldRecord) /\ Len(holds') = N /\ DOMAIN holds' = 1..N
  <2>1. holds' \in [1..N -> HoldRecord]
    BY <1>2, <1>3, <1>4, <1>5
  <2>2. holds' \in Seq(HoldRecord)
    BY <1>1, <2>1, SeqDef
  <2> QED BY <1>1, <2>1, <2>2, LenProperties
<1>7. \A h \in 1..N : /\ holds'[h].user = holds[h].user /\ holds'[h].seats = holds[h].seats
                      /\ holds'[h].versions = holds[h].versions
  BY <1>4, <1>5
<1>8. ASSUME NEW s \in Seat
      PROVE  /\ seats[s].hold \in H =>
                   /\ seats'[s] \in Row /\ seats'[s].status = "available"
                   /\ seats'[s].hold = None
             /\ seats[s].hold \notin H => seats'[s] = seats[s]
  <2>1. ASSUME seats[s].hold \in H
        PROVE  /\ seats'[s] \in Row /\ seats'[s].status = "available" /\ seats'[s].hold = None
    <3>1. seats[s].hold # None /\ holds[seats[s].hold].status # "confirmed"
      BY <1>1, <1>3, <2>1
    <3>2. seats[s].status = "held" /\ seats[s].version + 1 \in Nat
      BY <1>0, <3>1, ActiveIsHeld, RowFacts
    <3>3. seats'[s] = [status |-> "available", version |-> seats[s].version + 1, hold |-> None]
      BY <1>2, <2>1, <3>2
    <3> QED BY <3>2, <3>3, RowMade
  <2> QED BY <1>2, <2>1
<1>9. SaleTypes'
  <2>1. seats' \in [Seat -> Row]
    <3>1. \A s \in Seat : seats'[s] \in Row
      BY <1>0, <1>8 DEF SaleTypes
    <3> QED BY <1>2, <3>1
  <2>2. \A g \in 1..N : holds'[g].versions \in [holds'[g].seats -> Nat]
    BY <1>0, <1>7 DEF SaleTypes
  <2>3. \A s \in Seat : seats'[s].hold # None => seats'[s].hold \in 1..N
    BY <1>0, <1>8 DEF SaleTypes
  <2> QED BY <1>1, <1>6, <2>1, <2>2, <2>3 DEF SaleTypes
<1>10. RowsMatchHolds'
  <2> SUFFICES ASSUME NEW s \in Seat
               PROVE  /\ seats'[s].hold = None <=> seats'[s].status = "available"
                      /\ seats'[s].status = "held" =>
                            /\ s \in holds'[seats'[s].hold].seats
                            /\ holds'[seats'[s].hold].status = "active"
                            /\ seats'[s].version = holds'[seats'[s].hold].versions[s]
                      /\ seats'[s].status = "booked" =>
                            /\ s \in holds'[seats'[s].hold].seats
                            /\ holds'[seats'[s].hold].status = "confirmed"
    BY DEF RowsMatchHolds
  <2>1. CASE seats[s].hold \in H
    BY <1>8, <2>1
  <2>2. CASE seats[s].hold \notin H
    <3>1. CASE seats[s].hold = None
      <4>1. seats[s].status = "available"
        BY <1>0, <3>1 DEF RowsMatchHolds
      <4> QED BY <1>8, <2>2, <3>1, <4>1
    <3>2. CASE seats[s].hold # None
      <4>1. seats[s].hold \in 1..N
        BY <1>0, <3>2 DEF SaleTypes
      <4>2. holds'[seats[s].hold] = holds[seats[s].hold] /\ seats'[s] = seats[s]
        BY <1>5, <1>8, <2>2, <4>1
      <4> QED BY <1>0, <4>2 DEF RowsMatchHolds
    <3> QED BY <3>1, <3>2
  <2> QED BY <2>1, <2>2
<1>11. SoldStaysSold'
  <2> SUFFICES ASSUME NEW g \in 1..N, holds'[g].status = "confirmed",
                      NEW s \in holds'[g].seats
               PROVE  seats'[s].status = "booked" /\ seats'[s].hold = g
    BY <1>6 DEF SoldStaysSold
  <2>1. g \notin H
    BY <1>4
  <2>2. seats[s].status = "booked" /\ seats[s].hold = g /\ s \in Seat
    BY <1>0, <1>5, <2>1, HoldFacts DEF SoldStaysSold, Wanted
  <2> QED BY <1>8, <2>1, <2>2
<1>12. PayingInTimeIsEnough'
  <2> SUFFICES ASSUME NEW g \in 1..N, holds'[g].status = "active"
               PROVE  /\ holds'[g].expiresAt > now =>
                            \A s \in holds'[g].seats :
                                seats'[s].hold = g /\ seats'[s].version = holds'[g].versions[s]
                      /\ \A s \in holds'[g].seats :
                            \/ seats'[s].hold = g /\ seats'[s].version = holds'[g].versions[s]
                            \/ \E k \in (g + 1)..N : s \in holds'[k].seats
    BY <1>6 DEF PayingInTimeIsEnough, Untouched
  <2>1. g \notin H /\ holds'[g] = holds[g] /\ holds[g].seats \subseteq Seat
    BY <1>0, <1>4, <1>5, HoldFacts DEF Wanted
  <2>2. /\ holds[g].expiresAt > now =>
              \A s \in holds[g].seats :
                  seats[s].hold = g /\ seats[s].version = holds[g].versions[s]
        /\ \A s \in holds[g].seats :
              \/ seats[s].hold = g /\ seats[s].version = holds[g].versions[s]
              \/ \E k \in (g + 1)..N : s \in holds[k].seats
    BY <1>0, <1>1, <2>1 DEF PayingInTimeIsEnough, Untouched
  <2>3. \A s \in holds[g].seats : seats[s].hold = g => seats'[s] = seats[s]
    BY <1>8, <2>1
  <2>4. \A k \in (g + 1)..N : holds'[k].seats = holds[k].seats
    <3>1. \A k \in (g + 1)..N : k \in 1..N
      BY <1>1
    <3> QED BY <1>7, <3>1
  <2> QED BY <2>1, <2>2, <2>3, <2>4
<1>13. SameSold
  <2>1. \A h \in 1..N : h <= N
    BY <1>1
  <2>2. \A h \in 1..N : holds'[h].status = "confirmed" <=> holds[h].status = "confirmed"
    BY <1>4, <1>5
  <2> QED BY <1>1, <1>6, <1>7, <2>1, <2>2 DEF SameSold
<1> QED BY <1>9, <1>10, <1>11, <1>12, <1>13 DEF SaleInv

------------------------------------------------------------------------------
(* The invariant *)

LEMMA InvInit == Init => Inv
<1> SUFFICES ASSUME Init PROVE Inv
  OBVIOUS
<1>1. /\ HoldTTL \in Nat \ {0} /\ TokenTTL \in Nat \ {0} /\ Grace \in Nat
      /\ MaxTime \in Nat /\ MaxHolds \in Nat /\ MaxTickets \in Nat /\ None \notin Int
  BY SeatAssumption
<1>2. RoomInv
  <2>1. queue = <<>> /\ queue \in Seq(User) /\ Len(queue) = 0
    BY EmptySeq DEF Init
  <2> QED BY <1>1, <2>1 DEF Init, RoomInv
<1>3. CallInv
  BY <1>1 DEF Init, CallInv
<1>4. SaleInv
  <2>1. holds = <<>> /\ holds \in Seq(HoldRecord) /\ Len(holds) = 0 /\ DOMAIN holds = {}
    BY EmptySeq DEF Init
  <2>2. ASSUME NEW s \in Seat
        PROVE  seats[s] \in Row /\ seats[s].status = "available" /\ seats[s].hold = None
    <3>1. seats[s] = [status |-> "available", version |-> 0, hold |-> None]
      BY DEF Init
    <3> QED BY <3>1, RowMade
  <2>3. seats \in [Seat -> Row]
    <3>1. seats = [s \in Seat |-> [status |-> "available", version |-> 0, hold |-> None]]
      BY DEF Init
    <3> QED BY <2>2, <3>1
  <2> QED BY <1>1, <2>1, <2>2, <2>3
          DEF SaleInv, SaleTypes, RowsMatchHolds, SoldStaysSold, PayingInTimeIsEnough
<1> QED BY <1>2, <1>3, <1>4 DEF Inv

\* A step of the clock leaves the sale as it was, and less is still in time.
LEMMA TickKeeps ==
    ASSUME SaleInv, CallInv, Tick
    PROVE  SaleInv' /\ SameSold /\ CallInv'
<1>1. /\ now < MaxTime /\ now' = now + 1 /\ seats' = seats /\ holds' = holds
      /\ calls' = calls /\ deadline' = deadline /\ now \in 0..MaxTime /\ MaxTime \in Nat
  BY SeatAssumption DEF Tick, saleVars, CallInv
<1>2. SaleTypes /\ SaleTypes' /\ RowsMatchHolds' /\ SoldStaysSold'
  BY <1>1 DEF SaleInv, SaleTypes, RowsMatchHolds, SoldStaysSold
<1>3. DOMAIN holds = 1..Len(holds) /\ Len(holds) \in Nat
  BY <1>2, HoldsLength
<1>4. PayingInTimeIsEnough'
  <2> SUFFICES ASSUME NEW h \in DOMAIN holds, holds[h].status = "active"
               PROVE  /\ holds[h].expiresAt > now' => Untouched(h)
                      /\ \A s \in holds[h].seats :
                            \/ seats[s].hold = h /\ seats[s].version = holds[h].versions[s]
                            \/ \E g \in (h + 1)..Len(holds) : s \in holds[g].seats
    BY <1>1 DEF PayingInTimeIsEnough, Untouched
  <2>1. holds[h].expiresAt \in Int
    BY <1>2, <1>3, HoldFacts
  <2>2. holds[h].expiresAt > now' => holds[h].expiresAt > now
    BY <1>1, <2>1
  <2> QED BY <2>2 DEF SaleInv, PayingInTimeIsEnough
<1>5. SameSold
  BY <1>1, <1>3 DEF SameSold
<1>6. CallInv'
  BY <1>1 DEF CallInv
<1> QED BY <1>2, <1>4, <1>5, <1>6 DEF SaleInv

\* A step that touches neither rows nor holds nor the clock.
LEMMA SaleUntouched ==
    ASSUME SaleInv, UNCHANGED <<seats, holds, now>>
    PROVE  SaleInv' /\ SameSold
<1>1. DOMAIN holds = 1..Len(holds) /\ Len(holds) \in Nat
  BY HoldsLength DEF SaleInv
<1> QED BY <1>1 DEF SaleInv, SaleTypes, RowsMatchHolds, SoldStaysSold, PayingInTimeIsEnough,
                    Untouched, SameSold

LEMMA RoomUntouched ==
    ASSUME RoomInv, UNCHANGED roomVars
    PROVE  RoomInv'
  BY DEF RoomInv, roomVars

LEMMA CallsUntouched ==
    ASSUME CallInv, UNCHANGED <<now, calls, deadline>>
    PROVE  CallInv'
  BY DEF CallInv

\* Every step keeps the invariant, and confirms nothing or one hold by Book.
LEMMA InvStep ==
    ASSUME Inv, [Next]_vars
    PROVE  Inv' /\ (SameSold \/ \E h \in DOMAIN holds : Book(h) /\ SameSoldBut(h))
<1>0. RoomInv /\ CallInv /\ SaleInv
  BY DEF Inv
<1>1. ASSUME NEW u \in User, Join(u)
      PROVE  Inv' /\ SameSold
  BY <1>0, <1>1, JoinKeeps, SaleUntouched, CallsUntouched DEF Join, saleVars, Inv
<1>2. CASE AdmitStart
  <2>1. /\ admitAt' = now + TokenTTL
        /\ UNCHANGED <<queue, ticketOf, nextTicket, served, admitted>>
        /\ UNCHANGED <<seats, holds, now>> /\ UNCHANGED <<now, calls, deadline>>
    BY <1>2 DEF AdmitStart, saleVars
  <2>2. now + TokenTTL \in 0..(MaxTime + TokenTTL)
    BY <1>0, SeatAssumption DEF CallInv
  <2>3. RoomInv'
    BY <1>0, <2>1, <2>2 DEF RoomInv
  <2> QED BY <1>0, <2>1, <2>3, SaleUntouched, CallsUntouched DEF Inv
<1>3. ASSUME NEW count \in 1..2, Admit(count)
      PROVE  Inv' /\ SameSold
  BY <1>0, <1>3, AdmitKeeps, SaleUntouched, CallsUntouched DEF Admit, saleVars, Inv
<1>4. ASSUME NEW u \in User, NEW wanted \in Wanted, HoldStart(u, wanted)
      PROVE  Inv' /\ SameSold
  <2>1. /\ calls' = [calls EXCEPT ![u] = [seats |-> wanted, at |-> now]]
        /\ UNCHANGED roomVars /\ UNCHANGED <<seats, holds, now>> /\ UNCHANGED <<now, deadline>>
    BY <1>4 DEF HoldStart, saleVars
  <2>2. CallInv'
    BY <1>0, <2>1 DEF CallInv
  <2> QED BY <1>0, <2>1, <2>2, SaleUntouched, RoomUntouched DEF Inv
<1>5. ASSUME NEW u \in User, Hold(u)
      PROVE  Inv' /\ SameSold
  <2>1. /\ calls' = [calls EXCEPT ![u] = None]
        /\ UNCHANGED roomVars /\ UNCHANGED <<now, deadline>>
    BY <1>5 DEF Hold
  <2>2. CallInv'
    BY <1>0, <2>1 DEF CallInv
  <2>3. SaleInv' /\ SameSold
    BY <1>0, <1>5, HoldKeeps
  <2> QED BY <1>0, <2>1, <2>2, <2>3, RoomUntouched DEF Inv
<1>6. ASSUME NEW h \in DOMAIN holds, Book(h)
      PROVE  Inv' /\ SameSoldBut(h)
  BY <1>0, <1>6, BookKeeps, RoomUntouched, CallsUntouched DEF Book, Inv
<1>7. ASSUME NEW h \in DOMAIN holds, ConfirmFails(h) \/ Release(h)
      PROVE  Inv' /\ SameSold
  <2>1. PICK st \in {"expired", "released"} : ReleaseSeats({h}, st)
    BY <1>7 DEF ConfirmFails, Release
  <2>2. /\ holds[h].status # "confirmed" /\ UNCHANGED roomVars
        /\ UNCHANGED <<now, calls, deadline>> /\ now' = now
    BY <1>7 DEF ConfirmFails, Release
  <2>3. {h} \subseteq DOMAIN holds /\ \A g \in {h} : holds[g].status # "confirmed"
    BY <2>2
  <2>4. SaleInv' /\ SameSold
    BY <1>0, <2>1, <2>2, <2>3, ReleaseKeeps
  <2> QED BY <1>0, <2>2, <2>4, RoomUntouched, CallsUntouched DEF Inv
<1>8. CASE SweepStart
  <2>1. /\ deadline' = now - Grace /\ UNCHANGED roomVars
        /\ UNCHANGED <<seats, holds, now>> /\ UNCHANGED <<now, calls>>
    BY <1>8 DEF SweepStart, saleVars
  <2>2. CallInv'
    BY <1>0, <2>1, SeatAssumption DEF CallInv
  <2> QED BY <1>0, <2>1, <2>2, SaleUntouched, RoomUntouched DEF Inv
<1>9. CASE Sweep
  <2>1. /\ ReleaseSeats(Overdue, "expired") /\ deadline' = None /\ UNCHANGED roomVars
        /\ UNCHANGED <<now, calls>> /\ now' = now
    BY <1>9 DEF Sweep
  <2>2. CallInv'
    BY <1>0, <2>1 DEF CallInv
  <2>3. /\ Overdue \subseteq DOMAIN holds /\ "expired" \in {"expired", "released"}
        /\ \A g \in Overdue : holds[g].status # "confirmed"
    BY DEF Overdue
  <2>4. SaleInv' /\ SameSold
    BY <1>0, <2>1, <2>3, ReleaseKeeps
  <2> QED BY <1>0, <2>1, <2>2, <2>4, RoomUntouched DEF Inv
<1>10. CASE Tick
  BY <1>0, <1>10, TickKeeps, RoomUntouched DEF Tick, Inv
<1>11. CASE UNCHANGED vars
  BY <1>0, <1>11, RoomUntouched, CallsUntouched, SaleUntouched DEF vars, saleVars, Inv
<1> QED BY <1>1, <1>2, <1>3, <1>4, <1>5, <1>6, <1>7, <1>8, <1>9, <1>10, <1>11 DEF Next

------------------------------------------------------------------------------
(* The theorems *)

LEMMA InvIsSeatInv == Inv => SeatInv /\ PayingInTimeIsEnough
<1> SUFFICES ASSUME Inv PROVE SeatInv /\ PayingInTimeIsEnough
  OBVIOUS
<1>1. RoomInv /\ CallInv /\ SaleTypes /\ RowsMatchHolds /\ PayingInTimeIsEnough
  BY DEF Inv, SaleInv
<1>2. PositionIsTrue
  BY <1>1, QueueCounts DEF PositionIsTrue, RoomInv
<1>3. TypeOK
  <2>1. DOMAIN holds \subseteq HoldId
    BY <1>1, HoldsLength DEF HoldId
  <2>2. ASSUME NEW h \in DOMAIN holds
        PROVE  /\ holds[h].user \in User /\ holds[h].seats \in Wanted
               /\ holds[h].expiresAt \in 0..(MaxTime + HoldTTL)
               /\ holds[h].versions \in [holds[h].seats -> Nat]
               /\ holds[h].status \in {"active", "confirmed", "released", "expired"}
    BY <1>1, HoldsLength, HoldFacts
  <2>3. \A s \in Seat :
           /\ DOMAIN seats[s] = {"status", "version", "hold"}
           /\ seats[s].status \in {"available", "held", "booked"}
           /\ seats[s].version \in Nat
           /\ seats[s].hold \in HoldId \cup {None}
    BY <1>1, RowFacts
  <2>4. \A u \in User : calls[u] # None => calls[u].seats \in Wanted /\ calls[u].at \in 0..MaxTime
    BY <1>1 DEF CallInv
  <2>5. now \in 0..MaxTime /\ deadline \in (0 - Grace)..MaxTime \cup {None}
    BY <1>1 DEF CallInv
  <2>6. /\ queue \in Seq(User) /\ ticketOf \in [User -> 1..MaxTickets \cup {None}]
        /\ nextTicket \in 1..(MaxTickets + 1) /\ served \in 0..MaxTickets
        /\ admitted \in [User -> 0..(MaxTime + TokenTTL) \cup {None}]
        /\ admitAt \in 0..(MaxTime + TokenTTL) \cup {None}
    BY <1>1 DEF RoomInv
  <2> QED BY <2>1, <2>2, <2>3, <2>4, <2>5, <2>6 DEF TypeOK
<1> QED BY <1>1, <1>2, <1>3 DEF SeatInv

LEMMA AlwaysInv == Spec => []Inv
<1>1. Inv /\ [Next]_vars => Inv'
  BY InvStep
<1> QED BY <1>1, InvInit, PTL DEF Spec

\* seat_hold.py: rows and holds agree after any interleaving of holds, takeovers,
\* payments and sweeps, and join tells everybody his place in the queue.
THEOREM SeatsAgree == Spec => []SeatInv
<1> QED BY AlwaysInv, InvIsSeatInv, PTL

\* hold, confirm: until its TTL an active hold owns all its seats as it took them.
THEOREM PayInTime == Spec => []PayingInTimeIsEnough
<1> QED BY AlwaysInv, InvIsSeatInv, PTL

Confirmed == {g \in DOMAIN holds : holds[g].status = "confirmed"}
Booking(h) == [id |-> h, user |-> holds[h].user, seats |-> holds[h].seats]
Bookings == {Booking(h) : h \in Confirmed}

LEMMA SaleStep ==
    ASSUME Inv, [Next]_vars
    PROVE  [Sale!Next]_Bookings
<1>1. /\ Inv' /\ (SameSold \/ \E h \in DOMAIN holds : Book(h) /\ SameSoldBut(h))
      /\ SaleTypes /\ SaleTypes' /\ SoldStaysSold
  BY InvStep DEF Inv, SaleInv
<1>2. /\ DOMAIN holds = 1..Len(holds) /\ Len(holds) \in Nat
      /\ DOMAIN holds' = 1..Len(holds') /\ Len(holds') \in Nat
  <2>1. holds \in Seq(HoldRecord) /\ holds' \in Seq(HoldRecord)
    BY <1>1 DEF SaleTypes
  <2> QED BY <2>1, LenProperties
<1>3. CASE SameSold
  <2>1. Confirmed' = Confirmed
    <3>1. \A h : h \in 1..Len(holds') /\ h <= Len(holds) => h \in 1..Len(holds)
      BY <1>2
    <3>2. \A h : h \in 1..Len(holds) => h \in 1..Len(holds') /\ h <= Len(holds)
      BY <1>2, <1>3 DEF SameSold
    <3> QED BY <1>2, <1>3, <3>1, <3>2 DEF Confirmed, SameSold
  <2>2. \A h \in Confirmed : holds'[h].user = holds[h].user /\ holds'[h].seats = holds[h].seats
    <3>1. \A h \in 1..Len(holds) : h \in 1..Len(holds') /\ h <= Len(holds)
      BY <1>2, <1>3 DEF SameSold
    <3> QED BY <1>2, <1>3, <3>1 DEF Confirmed, SameSold
  <2>3. Bookings' = Bookings
    BY <2>1, <2>2 DEF Bookings, Booking
  <2> QED BY <2>3
<1>4. ASSUME NEW h \in DOMAIN holds, Book(h), SameSoldBut(h)
      PROVE  Sale!Next
  <2>1. /\ holds[h].status = "active" /\ h \notin Confirmed
        /\ \A s \in holds[h].seats : seats[s].hold = h
    BY <1>4 DEF Book, Untouched, Confirmed
  <2>2. /\ h \in HoldId /\ holds[h].user \in User
        /\ holds[h].seats \subseteq Seat /\ holds[h].seats # {}
    BY <1>1, <1>2, <1>4, HoldFacts, WantedFacts
  <2>3. Confirmed' = Confirmed \cup {h}
    BY <1>2, <1>4 DEF Confirmed, SameSoldBut
  <2>4. \A g \in Confirmed \cup {h} :
            holds'[g].user = holds[g].user /\ holds'[g].seats = holds[g].seats
    BY <1>2, <1>4 DEF Confirmed, SameSoldBut
  <2>5. Bookings' = Bookings \cup {Booking(h)}
    BY <2>3, <2>4 DEF Bookings, Booking
  <2>6. \A b \in Bookings : b.id # h
    BY <2>1 DEF Bookings, Booking
  <2>7. holds[h].seats \cap UNION {b.seats : b \in Bookings} = {}
    <3> SUFFICES ASSUME NEW g \in Confirmed, NEW s \in holds[g].seats, s \in holds[h].seats
                 PROVE  FALSE
      BY DEF Bookings, Booking
    <3>1. g \in 1..Len(holds) /\ holds[g].status = "confirmed"
      BY <1>2 DEF Confirmed
    <3>2. seats[s].hold = g
      BY <1>1, <3>1 DEF SoldStaysSold
    <3> QED BY <2>1, <3>2
  <2>8. PICK user \in User : user = holds[h].user
    BY <2>2
  <2>9. PICK some \in SUBSET Seat : some = holds[h].seats
    BY <2>2
  <2>10. Sale!Sell(h, user, some)
    BY <2>2, <2>5, <2>6, <2>7, <2>8, <2>9
       DEF Sale!Sell, Sale!Sold, Bookings, Booking, Confirmed
  <2> QED BY <2>2, <2>10 DEF Sale!Next
<1> QED BY <1>1, <1>3, <1>4

\* seat_hold.py implements SeatSale: every booking is made whole, of seats nobody
\* else has booked, and stands.
THEOREM ImplementsSeatSale == Spec => ImplementsSale
<1>1. Init => Bookings = {}
  BY DEF Init, Bookings, Confirmed
<1>2. Init => Sale!Init
  BY <1>1 DEF Sale!Init, Bookings, Booking, Confirmed
<1>3. Inv /\ [Next]_vars => [Sale!Next]_Bookings
  BY SaleStep
<1>4. Spec => Sale!Init /\ [][Sale!Next]_Bookings
  BY <1>2, <1>3, AlwaysInv, PTL DEF Spec
<1> QED BY <1>4, PTL DEF ImplementsSale, Sale!Spec, Bookings, Booking, Confirmed
=============================================================================
