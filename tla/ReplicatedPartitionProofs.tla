----------------------- MODULE ReplicatedPartitionProofs -----------------------
(***************************************************************************)
(* TLAPS proofs about ReplicatedPartition while it is Attended: an in-sync  *)
(* replica is left, and recover is not called for a leader with a tail; for *)
(* every set of at least two replicas, every lag and every bound on records *)
(* and failures.                                                            *)
(***************************************************************************)
EXTENDS ReplicatedPartition, SequenceTheorems, WellFoundedInduction, TLAPS

Record == 1..MaxRecords
Logs == [Replica -> Seq(Record)]

------------------------------------------------------------------------------
(* The operators *)

Below == {ss \in Nat \X Nat : ss[1] < ss[2]}

\* A set of naturals has a least element, and Min is it.
LEMMA MinFacts ==
    ASSUME NEW S, S \subseteq Nat, S # {}
    PROVE  Min(S) \in S /\ \A x \in S : Min(S) <= x
<1>1. IsWellFoundedOn(Below, Nat)
  BY NatLessThanWellFounded DEF OpToRel, Below
<1>2. PICK m \in S : \A x \in S : ~(<<x, m>> \in Below)
  BY <1>1, WFMin
<1>3. ASSUME NEW x \in Nat, NEW y \in Nat, <<x, y>> \notin Below
      PROVE  ~(x < y)
  BY <1>3, Zenon DEF Below
<1>4. \A x \in S : m <= x
  <2>1. \A x \in S : ~(x < m)
    BY <1>2, <1>3, Zenon
  <2> QED BY <2>1
<1> QED BY <1>4 DEF Min

LEMMA LowestFacts ==
    ASSUME NEW S, S \subseteq Nat, S # {}
    PROVE  Lowest(S) \in S /\ \A x \in S : Lowest(S) <= x
  BY MinFacts DEF Lowest

\* A follower that fetches keeps what it has and takes the rest from the source.
LEMMA ExtendedFacts ==
    ASSUME NEW f \in Seq(Record), NEW s \in Seq(Record), Len(f) <= Len(s)
    PROVE  /\ Extended(f, s) \in Seq(Record) /\ Len(Extended(f, s)) = Len(s)
           /\ \A i \in 1..Len(s) : Extended(f, s)[i] = IF i <= Len(f) THEN f[i] ELSE s[i]
<1> DEFINE rest == SubSeq(s, Len(f) + 1, Len(s))
<1>1. Len(f) \in Nat /\ Len(s) \in Nat /\ \A i \in 1..Len(s) : s[i] \in Record
  BY LenProperties, ElementOfSeq
<1>2. \A i \in (Len(f) + 1)..Len(s) : s[i] \in Record
  BY <1>1
<1>3. /\ rest \in Seq(Record)
      /\ Len(rest) = IF Len(f) + 1 <= Len(s) THEN Len(s) - (Len(f) + 1) + 1 ELSE 0
      /\ \A i \in 1..(Len(s) - (Len(f) + 1) + 1) : rest[i] = s[Len(f) + 1 + i - 1]
  BY <1>1, <1>2, SubSeqProperties
<1>4. Len(rest) = Len(s) - Len(f)
  BY <1>1, <1>3
<1> HIDE DEF rest
<1>5. /\ f \o rest \in Seq(Record) /\ Len(f \o rest) = Len(s)
      /\ \A i \in 1..Len(s) : (f \o rest)[i] = IF i <= Len(f) THEN f[i] ELSE rest[i - Len(f)]
  BY <1>1, <1>3, <1>4, ConcatProperties
<1>6. ASSUME NEW i \in 1..Len(s), i > Len(f)
      PROVE  rest[i - Len(f)] = s[i]
  <2>1. i - Len(f) \in 1..(Len(s) - (Len(f) + 1) + 1) /\ Len(f) + 1 + (i - Len(f)) - 1 = i
    BY <1>1, <1>6
  <2> QED BY <1>3, <2>1
<1>7. \A i \in 1..Len(s) : (f \o rest)[i] = IF i <= Len(f) THEN f[i] ELSE s[i]
  BY <1>1, <1>5, <1>6
<1> QED BY <1>5, <1>7 DEF Extended, rest

\* A log cut to its first k records.
LEMMA CutFacts ==
    ASSUME NEW f \in Seq(Record), NEW k \in 0..Len(f)
    PROVE  /\ SubSeq(f, 1, k) \in Seq(Record) /\ Len(SubSeq(f, 1, k)) = k
           /\ \A i \in 1..k : SubSeq(f, 1, k)[i] = f[i]
<1>1. Len(f) \in Nat /\ \A i \in 1..k : f[i] \in Record
  BY LenProperties, ElementOfSeq
<1>2. /\ SubSeq(f, 1, k) \in Seq(Record)
      /\ Len(SubSeq(f, 1, k)) = IF 1 <= k THEN k - 1 + 1 ELSE 0
      /\ \A i \in 1..(k - 1 + 1) : SubSeq(f, 1, k)[i] = f[1 + i - 1]
  BY <1>1, SubSeqProperties
<1> QED BY <1>1, <1>2

\* A sequence is a prefix of one at least as long that agrees with it.
LEMMA PrefixFacts ==
    ASSUME NEW s \in Seq(Record), NEW t \in Seq(Record), Len(s) <= Len(t),
           \A i \in 1..Len(s) : s[i] = t[i]
    PROVE  IsPrefix(s, t)
<1>1. Len(s) \in Nat /\ Len(t) \in Nat /\ Len(s) \in 0..Len(s) /\ Len(s) \in 0..Len(t)
  BY LenProperties
<1>2. /\ SubSeq(s, 1, Len(s)) \in Seq(Record) /\ Len(SubSeq(s, 1, Len(s))) = Len(s)
      /\ \A i \in 1..Len(s) : SubSeq(s, 1, Len(s))[i] = s[i]
  BY <1>1, CutFacts
<1>3. /\ SubSeq(t, 1, Len(s)) \in Seq(Record) /\ Len(SubSeq(t, 1, Len(s))) = Len(s)
      /\ \A i \in 1..Len(s) : SubSeq(t, 1, Len(s))[i] = t[i]
  BY <1>1, CutFacts
<1>4. SubSeq(s, 1, Len(s)) = SubSeq(t, 1, Len(s))
  BY <1>2, <1>3, SeqEqual
<1> QED BY <1>4 DEF IsPrefix

\* The replicas are those of Order, and the first of some of them is one of them.
LEMMA FirstFacts ==
    ASSUME NEW S, S \subseteq Replica, S # {}
    PROVE  Order[Min({i \in DOMAIN Order : Order[i] \in S})] \in S
<1> DEFINE at == {i \in DOMAIN Order : Order[i] \in S}
<1>1. DOMAIN Order = 1..Len(Order) /\ Len(Order) \in Nat
  BY ReplicaAssumption, LenProperties
<1>2. at \subseteq Nat /\ at # {}
  BY <1>1 DEF Replica, Range
<1>3. Min(at) \in at
  BY <1>2, MinFacts
<1> QED BY <1>3
------------------------------------------------------------------------------
(* The inductive invariant *)

\* No live replica is ahead of the leader.
NooneAhead == \A n \in Replica \ down : End(n) <= End(leader)

\* A live replica that fell out of the ISR is behind everyone in it.
OutIsBehind == \A n \in Replica \ (isr \cup down), m \in isr : End(n) <= End(m)

\* Of two followers in sync the one that caught up longer ago is not ahead: an
\* eviction by age keeps the longer logs.
OlderIsShorter == \A m, n \in isr \ {leader} : age[m] < age[n] => End(n) <= End(m)

\* A record has one offset, and it was produced.
RecordsAreNew == \A n \in Replica : \A i \in 1..End(n) : log[n][i] <= produced
SameOffset ==
    \A n, p \in Replica : \A i \in 1..End(n), j \in 1..End(p) :
        log[n][i] = log[p][j] => i = j

\* An acknowledged record is in some log below the high watermark.
AckedIsCommitted ==
    \A r \in acked : \E n \in Replica : \E i \in 1..End(n) :
        i <= HighWatermark /\ log[n][i] = r

\* While recoveries are prompt two logs differ only in length.
AgreeWhilePrompt ==
    prompt => \A n, p \in Replica : \A i \in 1..End(n) : i <= End(p) => log[n][i] = log[p][i]

Inv ==
    /\ PartitionInv /\ NooneAhead /\ OutIsBehind /\ OlderIsShorter
    /\ RecordsAreNew /\ SameOffset /\ AckedIsCommitted /\ AgreeWhilePrompt

------------------------------------------------------------------------------
(* The high watermark *)

LEMMA LogFacts ==
    ASSUME NEW L \in Logs, NEW n \in Replica
    PROVE  /\ L[n] \in Seq(Record) /\ Len(L[n]) \in Nat
           /\ \A i \in 1..Len(L[n]) : L[n][i] \in Record
<1>1. L[n] \in Seq(Record)
  BY DEF Logs
<1> QED BY <1>1, LenProperties, ElementOfSeq

LEMMA LowestEnd ==
    ASSUME NEW I, I \subseteq Replica, I # {}, NEW L \in Logs
    PROVE  /\ Lowest({Len(L[n]) : n \in I}) \in Nat
           /\ \A m \in I : Lowest({Len(L[n]) : n \in I}) <= Len(L[m])
           /\ \E m \in I : Lowest({Len(L[n]) : n \in I}) = Len(L[m])
<1> DEFINE ends == {Len(L[n]) : n \in I}
<1>1. ends \subseteq Nat /\ ends # {}
  BY LogFacts
<1>2. Lowest(ends) \in ends /\ \A x \in ends : Lowest(ends) <= x
  BY <1>1, LowestFacts
<1> QED BY <1>1, <1>2

LEMMA Watermark ==
    ASSUME TypeOK, isr # {}
    PROVE  /\ HighWatermark \in Nat
           /\ \A n \in isr : HighWatermark <= Len(log[n])
           /\ \E n \in isr : HighWatermark = Len(log[n])
<1>1. log \in Logs /\ isr \subseteq Replica
  BY DEF TypeOK, Logs, Record
<1> QED BY <1>1, LowestEnd DEF HighWatermark, End

LEMMA WatermarkNext ==
    ASSUME TypeOK', isr' # {}
    PROVE  /\ HighWatermark' \in Nat
           /\ \A n \in isr' : HighWatermark' <= Len(log'[n])
           /\ \E n \in isr' : HighWatermark' = Len(log'[n])
<1>1. log' \in Logs /\ isr' \subseteq Replica
  BY DEF TypeOK, Logs, Record
<1> QED BY <1>1, LowestEnd DEF HighWatermark, End

------------------------------------------------------------------------------
(* What a step does to the logs *)

\* What is below the high watermark stays where it is, in every log.
Kept ==
    \A n \in Replica : \A i \in 1..HighWatermark :
        i <= Len(log[n]) => i <= Len(log'[n]) /\ log'[n][i] = log[n][i]

\* A record in a log was in some log at that offset, or is new and comes after
\* all the leader had.
Origin ==
    \A n \in Replica : \A i \in 1..Len(log'[n]) :
        \/ \E p \in Replica : i <= Len(log[p]) /\ log'[n][i] = log[p][i]
        \/ /\ produced' = produced + 1
           /\ i = Len(log[leader]) + 1
           /\ log'[n][i] = produced + 1

\* A record acknowledged now is the new one, and it is committed.
AckedNow ==
    \/ acked' = acked
    \/ /\ acked' = acked \cup {produced + 1}
       /\ Len(log[leader]) + 1 \in 1..Len(log'[leader])
       /\ Len(log[leader]) + 1 <= HighWatermark'
       /\ log'[leader][Len(log[leader]) + 1] = produced + 1

Shape == LeaderIsAhead /\ NooneAhead /\ OutIsBehind /\ OlderIsShorter

StepFacts ==
    /\ TypeOK' /\ Shape' /\ HighWatermark <= HighWatermark'
    /\ Kept /\ Origin /\ AckedNow
    /\ produced' \in {produced, produced + 1}

\* The high watermark does not fall if every in-sync replica is above it.
LEMMA WatermarkGrows ==
    ASSUME TypeOK, isr # {}, TypeOK', isr' # {},
           \A n \in isr' : HighWatermark <= Len(log'[n])
    PROVE  HighWatermark <= HighWatermark'
  BY Watermark, WatermarkNext

\* A step that leaves the logs alone.
LEMMA SameLogs ==
    ASSUME TypeOK, UNCHANGED <<log, acked, produced>>
    PROVE  Kept /\ Origin /\ AckedNow /\ produced' \in {produced, produced + 1}
<1>1. \A n \in Replica : Len(log[n]) \in Nat
  BY LogFacts DEF TypeOK, Logs, Record
<1> QED BY <1>1 DEF Kept, Origin, AckedNow

\* What each log and each replica's standing is after a fetch by the nodes of S.
LEMMA PullFacts ==
    ASSUME TypeOK, Shape, NEW S, S \subseteq Replica, NEW source \in Seq(Record),
           Len(log[leader]) <= Len(source), Pull(S, source),
           NEW F, F = S \ (down \cup {leader})
    PROVE  /\ log' \in Logs /\ isr' = isr \cup F
           /\ age' = [n \in Replica |-> IF n \in F THEN 0 ELSE age[n]]
           /\ log'[leader] = source
           /\ \A n \in F : /\ Len(log'[n]) = Len(source)
                           /\ \A i \in 1..Len(source) :
                                  log'[n][i] = IF i <= Len(log[n]) THEN log[n][i] ELSE source[i]
           /\ \A n \in Replica \ (F \cup {leader}) : log'[n] = log[n]
<1>1. /\ log \in Logs /\ leader \in Replica /\ F \subseteq Replica /\ leader \notin F
      /\ Len(source) \in Nat
  BY LenProperties DEF TypeOK, Logs, Record
<1>2. ASSUME NEW n \in F
      PROVE  /\ Extended(log[n], source) \in Seq(Record)
             /\ Len(Extended(log[n], source)) = Len(source)
             /\ \A i \in 1..Len(source) :
                    Extended(log[n], source)[i] = IF i <= Len(log[n]) THEN log[n][i] ELSE source[i]
  <2>1. n \in Replica /\ n \notin down
    BY <1>1
  <2>2. log[n] \in Seq(Record) /\ Len(log[n]) \in Nat /\ Len(log[leader]) \in Nat
    BY <1>1, <2>1, LogFacts
  <2>3. Len(log[n]) <= Len(source)
    BY <1>1, <2>1, <2>2 DEF Shape, NooneAhead, End
  <2> QED BY <2>2, <2>3, ExtendedFacts
<1>3. log' = [n \in Replica |-> IF n = leader THEN source
                                ELSE IF n \in F THEN Extended(log[n], source)
                                ELSE log[n]]
  BY DEF Pull
<1>4. {n \in F : Len(Extended(log[n], source)) = Len(source)} = F
  BY <1>2
<1>5. /\ isr' = isr \cup F
      /\ age' = [n \in Replica |-> IF n \in F THEN 0 ELSE age[n]]
  BY <1>4 DEF Pull
<1>6. log' \in Logs
  BY <1>1, <1>2, <1>3 DEF Logs
<1> QED BY <1>1, <1>2, <1>3, <1>5, <1>6

\* A fetch keeps the leader in front and everything committed in place.
LEMMA PullKeeps ==
    ASSUME TypeOK, Shape, NEW S, S \subseteq Replica, NEW source \in Seq(Record),
           Len(log[leader]) <= Len(source),
           \A i \in 1..Len(log[leader]) : source[i] = log[leader][i],
           Pull(S, source), UNCHANGED <<leader, down>>
    PROVE  /\ log' \in Logs /\ age' \in [Replica -> 0..(MaxLag + 1)]
           /\ isr' \subseteq Replica /\ isr' # {}
           /\ Shape' /\ Kept
           /\ \A n \in isr' : HighWatermark <= Len(log'[n])
           /\ \A n \in Replica : \A i \in 1..Len(log'[n]) :
                 \/ i <= Len(log[n]) /\ log'[n][i] = log[n][i]
                 \/ i <= Len(source) /\ log'[n][i] = source[i]
<1> DEFINE F == S \ (down \cup {leader})
<1>1. /\ log' \in Logs /\ isr' = isr \cup F
      /\ age' = [n \in Replica |-> IF n \in F THEN 0 ELSE age[n]]
      /\ log'[leader] = source
      /\ \A n \in F : /\ Len(log'[n]) = Len(source)
                      /\ \A i \in 1..Len(source) :
                             log'[n][i] = IF i <= Len(log[n]) THEN log[n][i] ELSE source[i]
      /\ \A n \in Replica \ (F \cup {leader}) : log'[n] = log[n]
  BY PullFacts
<1>2. /\ F \subseteq Replica /\ leader \notin F /\ F \cap down = {}
      /\ leader \in isr /\ isr \cap down = {} /\ isr \subseteq Replica /\ leader \in Replica
      /\ leader' = leader /\ down' = down
  BY DEF TypeOK, Shape, LeaderIsAhead
<1> HIDE DEF F
<1>3. /\ \A n \in Replica : Len(log[n]) \in Nat /\ Len(log'[n]) \in Nat
      /\ Len(source) \in Nat
  BY <1>1, LogFacts, LenProperties DEF TypeOK, Logs, Record
<1>4. \A n \in Replica \ down : Len(log[n]) <= Len(log[leader])
  BY DEF Shape, NooneAhead, End
<1>5. \A n \in Replica : Len(log[n]) <= Len(log'[n])
  <2> TAKE n \in Replica
  <2>1. CASE n = leader
    BY <1>1, <1>3, <2>1
  <2>2. CASE n \in F
    BY <1>1, <1>2, <1>3, <1>4, <2>2
  <2>3. CASE n \in Replica \ (F \cup {leader})
    BY <1>1, <1>3, <2>3
  <2> QED BY <2>1, <2>2, <2>3
<1>6. \A n \in Replica \ down : Len(log'[n]) <= Len(source)
  BY <1>1, <1>2, <1>3, <1>4
<1>7. age' \in [Replica -> 0..(MaxLag + 1)]
  <2>1. 0 \in 0..(MaxLag + 1) /\ age \in [Replica -> 0..(MaxLag + 1)]
    BY ReplicaAssumption DEF TypeOK
  <2> QED BY <1>1, <2>1
<1>8. HighWatermark \in Nat /\ \A n \in isr : HighWatermark <= Len(log[n])
  BY <1>2, Watermark
<1>9. \A n \in isr' : HighWatermark <= Len(log'[n])
  BY <1>1, <1>2, <1>3, <1>5, <1>8
<1>10. Shape'
  <2>1. LeaderIsAhead'
    BY <1>1, <1>2, <1>6 DEF LeaderIsAhead, End
  <2>2. NooneAhead'
    BY <1>1, <1>2, <1>6 DEF NooneAhead, End
  <2>3. OutIsBehind'
    <3> SUFFICES ASSUME NEW n \in Replica, n \notin isr', n \notin down, NEW m \in isr'
                 PROVE  Len(log'[n]) <= Len(log'[m])
      BY <1>2 DEF OutIsBehind, End
    <3>1. log'[n] = log[n]
      BY <1>1, <1>2
    <3>2. CASE m \in F
      BY <1>1, <1>2, <1>6, <3>2
    <3>3. CASE m \in isr
      <4>1. Len(log[n]) <= Len(log[m])
        BY <1>1, <3>3 DEF Shape, OutIsBehind, End
      <4> QED BY <1>2, <1>3, <1>5, <3>1, <3>3, <4>1
    <3> QED BY <1>1, <3>2, <3>3
  <2>4. OlderIsShorter'
    <3> SUFFICES ASSUME NEW m \in isr', NEW n \in isr', m # leader, n # leader,
                        age'[m] < age'[n]
                 PROVE  Len(log'[n]) <= Len(log'[m])
      BY <1>2 DEF OlderIsShorter, End
    <3>1. m \in Replica /\ n \in Replica
      BY <1>1, <1>2
    <3>2. n \notin F
      BY <1>1, <1>7, <3>1
    <3>3. CASE m \in F
      BY <1>1, <1>2, <1>6, <3>1, <3>2, <3>3
    <3>4. CASE m \notin F
      <4>1. m \in isr /\ n \in isr /\ log'[m] = log[m] /\ log'[n] = log[n]
        BY <1>1, <3>1, <3>2, <3>4
      <4>2. age[m] < age[n]
        BY <1>1, <3>1, <3>2, <3>4
      <4> QED BY <4>1, <4>2 DEF Shape, OlderIsShorter, End
    <3> QED BY <3>3, <3>4
  <2> QED BY <2>1, <2>2, <2>3, <2>4 DEF Shape
<1>11. \A n \in Replica : \A i \in 1..Len(log[n]) : i <= Len(log'[n]) /\ log'[n][i] = log[n][i]
  <2> TAKE n \in Replica
  <2> TAKE i \in 1..Len(log[n])
  <2>1. CASE n = leader
    BY <1>1, <1>3, <2>1
  <2>2. CASE n \in F
    <3>1. i \in 1..Len(source) /\ i <= Len(log[n])
      BY <1>1, <1>3, <1>5, <2>2
    <3> QED BY <1>1, <2>2, <3>1
  <2>3. CASE n \in Replica \ (F \cup {leader})
    BY <1>1, <1>3, <2>3
  <2> QED BY <2>1, <2>2, <2>3
<1>12. Kept
  BY <1>3, <1>8, <1>11 DEF Kept
<1>13. ASSUME NEW n \in Replica, NEW i \in 1..Len(log'[n])
       PROVE  \/ i <= Len(log[n]) /\ log'[n][i] = log[n][i]
              \/ i <= Len(source) /\ log'[n][i] = source[i]
  <2>1. CASE n = leader
    BY <1>1, <1>3, <2>1
  <2>2. CASE n \in F
    BY <1>1, <1>3, <2>2
  <2>3. CASE n \in Replica \ (F \cup {leader})
    BY <1>1, <1>3, <2>3
  <2> QED BY <2>1, <2>2, <2>3
<1> QED BY <1>1, <1>2, <1>7, <1>9, <1>10, <1>12, <1>13

------------------------------------------------------------------------------
(* The actions *)

LEMMA AppendedFacts ==
    ASSUME TypeOK, produced < MaxRecords
    PROVE  /\ Appended \in Seq(Record) /\ Len(Appended) = Len(log[leader]) + 1
           /\ \A i \in 1..Len(log[leader]) : Appended[i] = log[leader][i]
           /\ Appended[Len(log[leader]) + 1] = produced + 1
           /\ Len(log[leader]) \in Nat
<1>1. log[leader] \in Seq(Record) /\ Len(log[leader]) \in Nat
  BY LogFacts DEF TypeOK, Logs, Record
<1>2. produced + 1 \in Record
  BY ReplicaAssumption DEF TypeOK, Record
<1> QED BY <1>1, <1>2, AppendProperties DEF Appended

\* produce, to the leader's log alone or to all that is in sync (S).
LEMMA ProduceFacts ==
    ASSUME TypeOK, Shape, NEW S, S \subseteq Replica, produced < MaxRecords,
           Pull(S, Appended), produced' = produced + 1,
           UNCHANGED <<leader, down, faults>>, Remember,
           \/ acked' = acked
           \/ acked' = acked \cup {produced + 1} /\ S = isr
    PROVE  StepFacts
<1> DEFINE N == Len(log[leader])
<1>1. /\ Appended \in Seq(Record) /\ Len(Appended) = N + 1 /\ N \in Nat
      /\ \A i \in 1..N : Appended[i] = log[leader][i]
      /\ Appended[N + 1] = produced + 1
  BY AppendedFacts
<1>2. N <= Len(Appended)
  BY <1>1
<1>3. /\ log' \in Logs /\ age' \in [Replica -> 0..(MaxLag + 1)]
      /\ isr' \subseteq Replica /\ isr' # {}
      /\ Shape' /\ Kept
      /\ \A n \in isr' : HighWatermark <= Len(log'[n])
      /\ \A n \in Replica : \A i \in 1..Len(log'[n]) :
            \/ i <= Len(log[n]) /\ log'[n][i] = log[n][i]
            \/ i <= Len(Appended) /\ log'[n][i] = Appended[i]
  BY <1>1, <1>2, PullKeeps
<1>4. TypeOK'
  <2>1. produced' \in 0..MaxRecords /\ acked' \subseteq 1..produced'
    <3>1. produced \in Nat /\ MaxRecords \in Nat /\ acked' \subseteq acked \cup {produced + 1}
      <4>1. acked' \subseteq acked \cup {produced + 1}
        OBVIOUS
      <4>2. produced \in 0..MaxRecords
        BY DEF TypeOK
      <4> QED BY <4>1, <4>2, ReplicaAssumption
    <3>2. 1..produced \cup {produced + 1} \subseteq 1..(produced + 1)
      BY <3>1
    <3>3. acked \subseteq 1..produced
      BY DEF TypeOK
    <3> QED BY <3>1, <3>2, <3>3
  <2>2. prompt' \in BOOLEAN
    BY DEF TypeOK, Remember
  <2> QED BY <1>3, <2>1, <2>2 DEF TypeOK, Logs, Record
<1>5. HighWatermark <= HighWatermark'
  <2>1. isr # {}
    BY DEF Shape, LeaderIsAhead
  <2> QED BY <1>3, <1>4, <2>1, WatermarkGrows
<1>6. Origin
  <2> SUFFICES ASSUME NEW n \in Replica, NEW i \in 1..Len(log'[n])
               PROVE  \/ \E p \in Replica : i <= Len(log[p]) /\ log'[n][i] = log[p][i]
                      \/ i = N + 1 /\ log'[n][i] = produced + 1
    BY DEF Origin
  <2>1. CASE i <= Len(log[n]) /\ log'[n][i] = log[n][i]
    BY <2>1
  <2>2. CASE i <= Len(Appended) /\ log'[n][i] = Appended[i]
    <3>1. leader \in Replica /\ Len(log'[n]) \in Nat
      BY <1>3, LogFacts DEF TypeOK
    <3>2. CASE i <= N
      <4>1. i \in 1..N
        BY <1>1, <3>1, <3>2
      <4> QED BY <1>1, <2>2, <3>1, <3>2, <4>1
    <3>3. CASE i = N + 1
      BY <1>1, <2>2, <3>3
    <3> QED BY <1>1, <2>2, <3>1, <3>2, <3>3
  <2> QED BY <1>3, <2>1, <2>2
<1>7. AckedNow
  <2>1. CASE acked' = acked
    BY <2>1 DEF AckedNow
  <2>2. CASE acked' = acked \cup {produced + 1} /\ S = isr
    <3> DEFINE F == S \ (down \cup {leader})
    <3>1. /\ log' \in Logs /\ isr' = isr \cup F
          /\ age' = [n \in Replica |-> IF n \in F THEN 0 ELSE age[n]]
          /\ log'[leader] = Appended
          /\ \A n \in F : /\ Len(log'[n]) = Len(Appended)
                          /\ \A i \in 1..Len(Appended) :
                                 log'[n][i] = IF i <= Len(log[n]) THEN log[n][i]
                                                                  ELSE Appended[i]
          /\ \A n \in Replica \ (F \cup {leader}) : log'[n] = log[n]
      BY <1>1, <1>2, PullFacts
    <3>2. isr' \subseteq F \cup {leader}
      BY <2>2, <3>1 DEF Shape, LeaderIsAhead
    <3>3. HighWatermark' = N + 1
      BY <1>1, <1>3, <1>4, <3>1, <3>2, WatermarkNext
    <3> QED BY <1>1, <2>2, <3>1, <3>3 DEF AckedNow
  <2> QED BY <2>1, <2>2
<1> QED BY <1>3, <1>4, <1>5, <1>6, <1>7 DEF StepFacts

LEMMA ReplicateFacts ==
    ASSUME TypeOK, Shape, NEW S, S \subseteq Replica, Replicate(S), Remember
    PROVE  StepFacts
<1>1. /\ log[leader] \in Seq(Record) /\ Len(log[leader]) \in Nat /\ leader \in Replica
      /\ \A n \in Replica : Len(log[n]) \in Nat
  BY LogFacts DEF TypeOK, Logs, Record
<1>2. /\ Pull(S, log[leader]) /\ UNCHANGED <<leader, down>>
      /\ UNCHANGED <<acked, produced, faults>>
  BY DEF Replicate
<1>3. Len(log[leader]) <= Len(log[leader])
  BY <1>1
<1>4. /\ log' \in Logs /\ age' \in [Replica -> 0..(MaxLag + 1)]
      /\ isr' \subseteq Replica /\ isr' # {}
      /\ Shape' /\ Kept
      /\ \A n \in isr' : HighWatermark <= Len(log'[n])
      /\ \A n \in Replica : \A i \in 1..Len(log'[n]) :
            \/ i <= Len(log[n]) /\ log'[n][i] = log[n][i]
            \/ i <= Len(log[leader]) /\ log'[n][i] = log[leader][i]
  BY <1>1, <1>2, <1>3, PullKeeps
<1>5. TypeOK'
  <2>1. prompt' \in BOOLEAN
    BY DEF TypeOK, Remember
  <2> QED BY <1>2, <1>4, <2>1 DEF TypeOK, Logs, Record
<1>6. HighWatermark <= HighWatermark'
  <2>1. isr # {}
    BY DEF Shape, LeaderIsAhead
  <2> QED BY <1>4, <1>5, <2>1, WatermarkGrows
<1>7. Origin
  BY <1>1, <1>4 DEF Origin
<1> QED BY <1>2, <1>4, <1>5, <1>6, <1>7 DEF StepFacts, AckedNow

LEMMA CheckIsrFacts ==
    ASSUME TypeOK, Shape, CheckIsr, Remember, isr' # {}
    PROVE  StepFacts
<1>1. /\ UNCHANGED <<log, leader, down, age, acked, produced, faults>>
      /\ isr' = {n \in isr : n = leader \/ age[n] <= MaxLag}
  BY DEF CheckIsr
<1>2. /\ isr' \subseteq isr /\ isr \subseteq Replica /\ leader \in isr
      /\ \A n \in Replica : age[n] \in 0..(MaxLag + 1) /\ Len(log[n]) \in Nat
      /\ MaxLag \in Nat
  BY <1>1, LogFacts, ReplicaAssumption DEF TypeOK, Logs, Record, Shape, LeaderIsAhead
<1>3. TypeOK'
  <2>1. prompt' \in BOOLEAN
    BY DEF TypeOK, Remember
  <2> QED BY <1>1, <1>2, <2>1 DEF TypeOK
<1>4. Shape'
  <2>1. LeaderIsAhead' /\ NooneAhead'
    BY <1>1, <1>2 DEF Shape, LeaderIsAhead, NooneAhead, End
  <2>2. OutIsBehind'
    <3> SUFFICES ASSUME NEW n \in Replica, n \notin isr', n \notin down, NEW m \in isr'
                 PROVE  Len(log[n]) <= Len(log[m])
      BY <1>1 DEF OutIsBehind, End
    <3>1. CASE n \notin isr
      BY <1>2, <3>1 DEF Shape, OutIsBehind, End
    <3>2. CASE n \in isr
      <4>1. n # leader /\ ~(age[n] <= MaxLag)
        BY <1>1, <3>2
      <4>2. CASE m = leader
        BY <4>2 DEF Shape, NooneAhead, End
      <4>3. CASE m # leader
        <5>1. m \in isr /\ age[m] <= MaxLag
          BY <1>1, <4>3
        <5>2. age[m] < age[n]
          BY <1>2, <4>1, <5>1
        <5> QED BY <3>2, <4>1, <4>3, <5>1, <5>2 DEF Shape, OlderIsShorter, End
      <4> QED BY <4>2, <4>3
    <3> QED BY <3>1, <3>2
  <2>3. OlderIsShorter'
    BY <1>1, <1>2 DEF Shape, OlderIsShorter, End
  <2> QED BY <2>1, <2>2, <2>3 DEF Shape
<1>5. \A n \in isr' : HighWatermark <= Len(log'[n])
  BY <1>1, <1>2, Watermark
<1>6. HighWatermark <= HighWatermark'
  BY <1>2, <1>3, <1>5, WatermarkGrows
<1> QED BY <1>1, <1>3, <1>4, <1>6, SameLogs DEF StepFacts

LEMMA TickFacts ==
    ASSUME TypeOK, Shape, Tick, Remember
    PROVE  StepFacts
<1>1. /\ UNCHANGED <<log, leader, isr, down, acked, produced, faults>>
      /\ age' = [n \in Replica |-> Min({age[n] + 1, MaxLag + 1})]
  BY DEF Tick
<1>2. ASSUME NEW n \in Replica
      PROVE  /\ age[n] \in 0..(MaxLag + 1)
             /\ age'[n] = IF age[n] <= MaxLag THEN age[n] + 1 ELSE MaxLag + 1
  <2>1. age[n] \in 0..(MaxLag + 1) /\ MaxLag \in Nat
    BY ReplicaAssumption DEF TypeOK
  <2>2. {age[n] + 1, MaxLag + 1} \subseteq Nat
    BY <2>1
  <2>3. /\ Min({age[n] + 1, MaxLag + 1}) \in {age[n] + 1, MaxLag + 1}
        /\ \A x \in {age[n] + 1, MaxLag + 1} : Min({age[n] + 1, MaxLag + 1}) <= x
    BY <2>2, MinFacts
  <2>4. age'[n] = Min({age[n] + 1, MaxLag + 1})
    BY <1>1
  <2> QED BY <2>1, <2>3, <2>4
<1>3. MaxLag \in Nat /\ isr \subseteq Replica
  BY ReplicaAssumption DEF TypeOK
<1>4. age' \in [Replica -> 0..(MaxLag + 1)]
  <2>1. \A n \in Replica : age'[n] \in 0..(MaxLag + 1)
    BY <1>2, <1>3
  <2> QED BY <1>1, <2>1
<1>5. TypeOK'
  <2>1. prompt' \in BOOLEAN
    BY DEF TypeOK, Remember
  <2> QED BY <1>1, <1>4, <2>1 DEF TypeOK
<1>6. Shape'
  <2>1. LeaderIsAhead' /\ NooneAhead' /\ OutIsBehind'
    BY <1>1 DEF Shape, LeaderIsAhead, NooneAhead, OutIsBehind, End
  <2>2. OlderIsShorter'
    <3> SUFFICES ASSUME NEW m \in isr, NEW n \in isr, m # leader, n # leader,
                        age'[m] < age'[n]
                 PROVE  Len(log[n]) <= Len(log[m])
      BY <1>1 DEF OlderIsShorter, End
    <3>1. age[m] < age[n]
      BY <1>2, <1>3
    <3> QED BY <3>1 DEF Shape, OlderIsShorter, End
  <2> QED BY <2>1, <2>2 DEF Shape
<1>7. HighWatermark <= HighWatermark'
  <2>1. HighWatermark' = HighWatermark
    BY <1>1 DEF HighWatermark, End
  <2>2. isr # {}
    BY DEF Shape, LeaderIsAhead
  <2> QED BY <2>1, <2>2, Watermark
<1> QED BY <1>1, <1>5, <1>6, <1>7, SameLogs DEF StepFacts

\* An election picks one of the longest logs.
LEMMA LongestFacts ==
    ASSUME TypeOK, NEW S, S \subseteq Replica, S # {},
           \A m \in S : Len(log[m]) <= Len(log[leader])
    PROVE  /\ Longest(S) \in S
           /\ \A m \in S : Len(log[m]) <= Len(log[Longest(S)])
<1> DEFINE best == {n \in S : \A m \in S : End(m) <= End(n)}
           short(n) == Len(log[leader]) - Len(log[n])
           gaps == {short(n) : n \in S}
<1>1. \A n \in Replica : Len(log[n]) \in Nat
  BY LogFacts DEF TypeOK, Logs, Record
<1>2. leader \in Replica
  BY DEF TypeOK
<1>3. \A n \in S : short(n) \in Nat
  BY <1>1, <1>2
<1>4. gaps \subseteq Nat /\ gaps # {}
  BY <1>3
<1>5. PICK n \in S : \A m \in S : short(n) <= short(m)
  <2>1. Min(gaps) \in gaps /\ \A x \in gaps : Min(gaps) <= x
    BY <1>4, MinFacts
  <2> QED BY <2>1
<1>6. n \in best
  BY <1>1, <1>2, <1>5 DEF End
<1>7. Order[Min({i \in DOMAIN Order : Order[i] \in best})] \in best
  <2>1. best \subseteq Replica /\ best # {}
    BY <1>6
  <2> QED BY <2>1, FirstFacts
<1> QED BY <1>7 DEF Longest, End

LEMMA FailFacts ==
    ASSUME TypeOK, Shape, NEW n \in Replica, Fail(n), Remember, isr' # {}
    PROVE  StepFacts
<1>1. /\ UNCHANGED <<log, acked, produced>>
      /\ faults < MaxFaults /\ faults' = faults + 1
      /\ down' = down \cup {n} /\ isr' = isr \ {n}
      /\ \/ n # leader /\ UNCHANGED <<leader, age>>
         \/ /\ n = leader /\ leader' = Longest(isr')
            /\ age' = [age EXCEPT ![leader'] = 0]
  BY DEF Fail
<1>2. /\ isr' \subseteq isr /\ isr \subseteq Replica /\ leader \in isr /\ isr \cap down = {}
      /\ \A m \in Replica : age[m] \in 0..(MaxLag + 1) /\ Len(log[m]) \in Nat
      /\ age \in [Replica -> 0..(MaxLag + 1)] /\ MaxLag \in Nat /\ 0 \in 0..(MaxLag + 1)
  <2>1. isr \subseteq Replica /\ leader \in isr /\ isr \cap down = {}
    BY DEF TypeOK, Shape, LeaderIsAhead
  <2>2. age \in [Replica -> 0..(MaxLag + 1)] /\ log \in Logs
    BY DEF TypeOK, Logs, Record
  <2>3. MaxLag \in Nat /\ 0 \in 0..(MaxLag + 1)
    BY ReplicaAssumption
  <2> QED BY <1>1, <2>1, <2>2, <2>3, LogFacts
<1>3. /\ leader' \in isr' /\ \A m \in isr' : Len(log[m]) <= Len(log[leader'])
      /\ age' \in [Replica -> 0..(MaxLag + 1)]
      /\ \A m \in isr' \ {leader'} : age'[m] = age[m] /\ m # leader
  <2>1. \A m \in isr' : Len(log[m]) <= Len(log[leader])
    BY <1>2 DEF Shape, LeaderIsAhead, End
  <2>2. CASE n # leader /\ UNCHANGED <<leader, age>>
    BY <1>1, <1>2, <2>1, <2>2
  <2>3. CASE n = leader /\ leader' = Longest(isr') /\ age' = [age EXCEPT ![leader'] = 0]
    <3>1. Longest(isr') \in isr' /\ \A m \in isr' : Len(log[m]) <= Len(log[Longest(isr')])
      <4> DEFINE S == isr'
      <4>1. S \subseteq Replica /\ S # {} /\ \A m \in S : Len(log[m]) <= Len(log[leader])
        BY <1>2, <2>1
      <4> HIDE DEF S
      <4>2. Longest(S) \in S /\ \A m \in S : Len(log[m]) <= Len(log[Longest(S)])
        BY <4>1, LongestFacts
      <4> QED BY <4>2 DEF S
    <3> QED BY <1>1, <1>2, <2>3, <3>1
  <2> QED BY <1>1, <2>2, <2>3
<1>4. TypeOK'
  <2>1. prompt' \in BOOLEAN
    BY DEF TypeOK, Remember
  <2>2. faults' \in 0..MaxFaults
    BY <1>1, ReplicaAssumption DEF TypeOK
  <2>3. /\ log' \in [Replica -> Seq(1..MaxRecords)] /\ down' \subseteq Replica
        /\ acked' \subseteq 1..produced' /\ produced' \in 0..MaxRecords
    BY <1>1 DEF TypeOK
  <2> QED BY <1>2, <1>3, <2>1, <2>2, <2>3 DEF TypeOK
<1>5. Shape'
  <2>1. LeaderIsAhead'
    BY <1>1, <1>2, <1>3 DEF LeaderIsAhead, End
  <2>2. \A p \in Replica : p \notin isr' /\ p \notin down' => p \notin isr /\ p \notin down
    BY <1>1
  <2>3. NooneAhead'
    <3> SUFFICES ASSUME NEW p \in Replica, p \notin down'
                 PROVE  Len(log[p]) <= Len(log[leader'])
      BY <1>1 DEF NooneAhead, End
    <3>1. CASE p \in isr'
      BY <1>3, <3>1
    <3>2. CASE p \notin isr'
      BY <1>2, <1>3, <2>2, <3>2 DEF Shape, OutIsBehind, End
    <3> QED BY <3>1, <3>2
  <2>4. OutIsBehind'
    BY <1>1, <1>2, <2>2 DEF Shape, OutIsBehind, End
  <2>5. OlderIsShorter'
    BY <1>1, <1>2, <1>3 DEF Shape, OlderIsShorter, End
  <2> QED BY <2>1, <2>3, <2>4, <2>5 DEF Shape
<1>6. \A m \in isr' : HighWatermark <= Len(log'[m])
  BY <1>1, <1>2, Watermark
<1>7. HighWatermark <= HighWatermark'
  BY <1>2, <1>4, <1>6, WatermarkGrows
<1> QED BY <1>1, <1>4, <1>5, <1>7, SameLogs DEF StepFacts

\* recover of the leader, without a tail, leaves every log as it is.
LEMMA RecoverLeaderFacts ==
    ASSUME TypeOK, Shape, Recover(leader), Remember, End(leader) = HighWatermark
    PROVE  StepFacts
<1> DEFINE old == log[leader]
           N == Len(old)
<1>1. /\ leader \in Replica /\ leader \in isr /\ isr \subseteq Replica /\ leader \notin down
      /\ log \in Logs /\ old \in Seq(Record) /\ N \in Nat
      /\ age \in [Replica -> 0..(MaxLag + 1)] /\ 0 \in 0..(MaxLag + 1)
  <2>1. leader \in Replica /\ log \in Logs /\ age \in [Replica -> 0..(MaxLag + 1)]
    BY DEF TypeOK, Logs, Record
  <2>2. leader \in isr /\ isr \subseteq Replica /\ leader \notin down
    BY DEF TypeOK, Shape, LeaderIsAhead
  <2>3. 0 \in 0..(MaxLag + 1)
    BY ReplicaAssumption
  <2> QED BY <2>1, <2>2, <2>3, LogFacts
<1>2. Min({End(leader), HighWatermark}) = N
  <2>1. {End(leader), HighWatermark} = {N} /\ {N} \subseteq Nat
    BY <1>1 DEF End
  <2>2. Min({N}) \in {N}
    BY <2>1, MinFacts
  <2> QED BY <2>1, <2>2
<1>3. Truncated(leader) = old
  <2> HIDE DEF N
  <2>1. N \in 0..Len(old) /\ N = Len(old)
    BY <1>1 DEF N
  <2> HIDE DEF old
  <2>2. /\ SubSeq(old, 1, N) \in Seq(Record) /\ Len(SubSeq(old, 1, N)) = N
        /\ \A i \in 1..N : SubSeq(old, 1, N)[i] = old[i]
    BY <1>1, <2>1, CutFacts
  <2>3. SubSeq(old, 1, N) = old
    BY <1>1, <2>1, <2>2, SeqEqual
  <2> QED BY <1>2, <2>3 DEF Truncated, old
<1>4. /\ down' = down \ {leader} /\ log' = [log EXCEPT ![leader] = Truncated(leader)]
      /\ age' = [age EXCEPT ![leader] = 0] /\ isr' = isr
      /\ UNCHANGED <<leader, acked, produced, faults>>
  BY DEF Recover
<1>5. log' = log /\ down' = down
  BY <1>1, <1>3, <1>4 DEF Logs
<1>6. /\ age' \in [Replica -> 0..(MaxLag + 1)]
      /\ \A m \in Replica : m # leader => age'[m] = age[m]
  BY <1>1, <1>4
<1>7. TypeOK'
  <2>1. prompt' \in BOOLEAN
    BY DEF TypeOK, Remember
  <2> QED BY <1>4, <1>5, <1>6, <2>1 DEF TypeOK
<1>8. Shape'
  <2>1. LeaderIsAhead' /\ NooneAhead' /\ OutIsBehind'
    BY <1>4, <1>5 DEF Shape, LeaderIsAhead, NooneAhead, OutIsBehind, End
  <2>2. OlderIsShorter'
    BY <1>1, <1>4, <1>5, <1>6 DEF Shape, OlderIsShorter, End
  <2> QED BY <2>1, <2>2 DEF Shape
<1>9. HighWatermark <= HighWatermark'
  <2>1. HighWatermark' = HighWatermark
    BY <1>4, <1>5 DEF HighWatermark, End
  <2> QED BY <1>1, <2>1, Watermark
<1> QED BY <1>4, <1>5, <1>7, <1>8, <1>9, SameLogs DEF StepFacts

\* recover of any other replica, down or up.
LEMMA RecoverFacts ==
    ASSUME TypeOK, Shape, NEW n \in Replica, n # leader, Recover(n), Remember
    PROVE  StepFacts
<1> DEFINE source == log[leader]
           mine == Extended(Truncated(n), source)
           k == Min({End(n), HighWatermark})
<1>1. /\ leader \in isr /\ isr \subseteq Replica
      /\ leader \in Replica /\ isr \cap down = {}
      /\ down' = down \ {n} /\ age' = [age EXCEPT ![n] = 0] /\ log' = [log EXCEPT ![n] = mine]
      /\ UNCHANGED <<leader, acked, produced, faults>>
      /\ isr' = IF Len(mine) = Len(source) THEN isr \cup {n} ELSE isr
  BY DEF Recover, Shape, LeaderIsAhead, TypeOK
<1>2. /\ \A m \in Replica : log[m] \in Seq(Record) /\ Len(log[m]) \in Nat
      /\ log \in Logs /\ source \in Seq(Record) /\ Len(source) \in Nat
  BY <1>1, LogFacts DEF TypeOK, Logs, Record
<1>3. /\ HighWatermark \in Nat /\ \A m \in isr : HighWatermark <= Len(log[m])
  BY <1>1, Watermark
<1>4. k \in 0..Len(log[n]) /\ k <= HighWatermark /\ k \in {Len(log[n]), HighWatermark}
  <2>1. {End(n), HighWatermark} \subseteq Nat
    BY <1>2, <1>3 DEF End
  <2>2. k \in {End(n), HighWatermark} /\ \A x \in {End(n), HighWatermark} : k <= x
    BY <2>1, MinFacts
  <2> QED BY <1>2, <1>3, <2>2 DEF End
<1>5. /\ Truncated(n) \in Seq(Record) /\ Len(Truncated(n)) = k
      /\ \A i \in 1..k : Truncated(n)[i] = log[n][i]
  <2> HIDE DEF k
  <2>1. /\ SubSeq(log[n], 1, k) \in Seq(Record) /\ Len(SubSeq(log[n], 1, k)) = k
        /\ \A i \in 1..k : SubSeq(log[n], 1, k)[i] = log[n][i]
    BY <1>2, <1>4, CutFacts
  <2> QED BY <2>1 DEF Truncated, k
<1> HIDE DEF k
<1>6. Len(Truncated(n)) <= Len(source)
  BY <1>1, <1>2, <1>3, <1>4, <1>5
<1>7. /\ mine \in Seq(Record) /\ Len(mine) = Len(source)
      /\ \A i \in 1..Len(source) :
             mine[i] = IF i <= Len(Truncated(n)) THEN Truncated(n)[i] ELSE source[i]
  BY <1>2, <1>5, <1>6, ExtendedFacts
<1>8. \A i \in 1..Len(source) : mine[i] = IF i <= k THEN log[n][i] ELSE source[i]
  BY <1>2, <1>4, <1>5, <1>7
<1> HIDE DEF mine
<1>9. /\ isr' = isr \cup {n} /\ log' \in Logs
      /\ log'[n] = mine /\ \A m \in Replica : m # n => log'[m] = log[m]
  BY <1>1, <1>2, <1>7 DEF Logs
<1>10. /\ 0 \in 0..(MaxLag + 1) /\ age \in [Replica -> 0..(MaxLag + 1)] /\ MaxLag \in Nat
  BY ReplicaAssumption DEF TypeOK
<1>11. /\ age' \in [Replica -> 0..(MaxLag + 1)] /\ age'[n] = 0
       /\ \A m \in Replica : m # n => age'[m] = age[m]
  BY <1>1, <1>10
<1>12. TypeOK'
  <2>1. prompt' \in BOOLEAN
    BY DEF TypeOK, Remember
  <2>2. /\ leader' \in Replica /\ isr' \subseteq Replica /\ down' \subseteq Replica
    BY <1>1, <1>9 DEF TypeOK
  <2>3. acked' \subseteq 1..produced' /\ produced' \in 0..MaxRecords /\ faults' \in 0..MaxFaults
    BY <1>1 DEF TypeOK
  <2> QED BY <1>9, <1>11, <2>1, <2>2, <2>3 DEF TypeOK, Logs, Record
<1>13. Shape'
  <2>1. /\ \A m \in isr : Len(log[m]) <= Len(source)
        /\ \A m \in Replica \ down : Len(log[m]) <= Len(source)
    BY DEF Shape, LeaderIsAhead, NooneAhead, End
  <2>2. LeaderIsAhead'
    <3>1. \A m \in isr' : Len(log'[m]) <= Len(log'[leader'])
      BY <1>1, <1>2, <1>7, <1>9, <2>1
    <3> QED BY <1>1, <1>9, <3>1 DEF LeaderIsAhead, End
  <2>3. NooneAhead'
    <3>1. \A m \in Replica \ down' : Len(log'[m]) <= Len(log'[leader'])
      BY <1>1, <1>2, <1>7, <1>9, <2>1
    <3> QED BY <3>1 DEF NooneAhead, End
  <2>4. OutIsBehind'
    <3>1. ASSUME NEW p \in Replica, p \notin isr', p \notin down', NEW m \in isr'
          PROVE  Len(log'[p]) <= Len(log'[m])
      <4>1. p # n /\ p \notin isr /\ p \notin down
        BY <1>1, <1>9, <3>1
      <4>2. CASE m = n
        BY <1>1, <1>7, <1>9, <2>1, <4>1, <4>2
      <4>3. CASE m # n
        BY <1>1, <1>9, <4>1, <4>3 DEF Shape, OutIsBehind, End
      <4> QED BY <4>2, <4>3
    <3> QED BY <3>1 DEF OutIsBehind, End
  <2>5. OlderIsShorter'
    <3>1. ASSUME NEW m \in isr', NEW p \in isr', m # leader, p # leader, age'[m] < age'[p]
          PROVE  Len(log'[p]) <= Len(log'[m])
      <4>1. m \in Replica /\ p \in Replica
        BY <1>1, <1>9
      <4>2. p # n
        BY <1>11, <4>1, <3>1
      <4>3. CASE m = n
        BY <1>7, <1>9, <2>1, <4>1, <4>2, <4>3
      <4>4. CASE m # n
        BY <1>9, <1>11, <3>1, <4>1, <4>2, <4>4 DEF Shape, OlderIsShorter, End
      <4> QED BY <4>3, <4>4
    <3> QED BY <1>1, <3>1 DEF OlderIsShorter, End
  <2> QED BY <2>2, <2>3, <2>4, <2>5 DEF Shape
<1>14. HighWatermark <= HighWatermark'
  <2>1. \A m \in isr' : HighWatermark <= Len(log'[m])
    BY <1>1, <1>3, <1>7, <1>9
  <2> QED BY <1>1, <1>9, <1>12, <2>1, WatermarkGrows
<1>15. Kept
  <2> SUFFICES ASSUME NEW m \in Replica, NEW i \in 1..HighWatermark, i <= Len(log[m])
               PROVE  i <= Len(log'[m]) /\ log'[m][i] = log[m][i]
    BY DEF Kept
  <2>1. CASE m # n
    BY <1>9, <2>1
  <2>2. CASE m = n
    <3>1. i <= k /\ HighWatermark <= Len(source)
      BY <1>1, <1>2, <1>3, <1>4, <2>2
    <3>2. i \in 1..Len(source)
      BY <1>2, <1>3, <3>1
    <3> QED BY <1>7, <1>8, <1>9, <2>2, <3>1, <3>2
  <2> QED BY <2>1, <2>2
<1>16. Origin
  <2> SUFFICES ASSUME NEW m \in Replica, NEW i \in 1..Len(log'[m])
               PROVE  \E p \in Replica : i <= Len(log[p]) /\ log'[m][i] = log[p][i]
    BY DEF Origin
  <2>1. CASE m # n
    BY <1>2, <1>9, <2>1
  <2>2. CASE m = n
    <3>1. i \in 1..Len(source)
      BY <1>7, <1>9, <2>2
    <3>2. CASE i <= k
      <4>1. i <= Len(log[n]) /\ log'[n][i] = log[n][i]
        BY <1>2, <1>4, <1>8, <1>9, <3>1, <3>2
      <4> QED BY <2>2, <4>1
    <3>3. CASE ~(i <= k)
      <4>1. i <= Len(log[leader]) /\ log'[n][i] = log[leader][i]
        BY <1>2, <1>8, <1>9, <3>1, <3>3
      <4> QED BY <1>1, <2>2, <4>1
    <3> QED BY <3>2, <3>3
  <2> QED BY <2>1, <2>2
<1> QED BY <1>1, <1>12, <1>13, <1>14, <1>15, <1>16 DEF StepFacts, AckedNow

\* A step of the attended partition.
LEMMA StepIsGood ==
    ASSUME TypeOK, Shape, Next, Attended
    PROVE  StepFacts
<1>1. Step /\ Remember /\ isr' # {} /\ (Recover(leader) => End(leader) = HighWatermark)
  BY DEF Next, Attended
<1>2. isr \subseteq Replica
  BY DEF TypeOK
<1>3. CASE ProduceAll
  BY <1>1, <1>2, <1>3, ProduceFacts DEF ProduceAll
<1>4. CASE ProduceLeader
  <2>1. {} \subseteq Replica
    OBVIOUS
  <2> QED BY <1>1, <1>4, <2>1, ProduceFacts DEF ProduceLeader
<1>5. ASSUME NEW n \in Replica, Replicate({n})
      PROVE  StepFacts
  <2>1. {n} \subseteq Replica
    OBVIOUS
  <2> QED BY <1>1, <1>5, <2>1, ReplicateFacts
<1>6. ASSUME NEW n \in Replica, Fail(n)
      PROVE  StepFacts
  BY <1>1, <1>6, FailFacts
<1>7. ASSUME NEW n \in Replica, Recover(n)
      PROVE  StepFacts
  <2>1. CASE n = leader
    BY <1>1, <1>7, <2>1, RecoverLeaderFacts
  <2>2. CASE n # leader
    BY <1>1, <1>7, <2>2, RecoverFacts
  <2> QED BY <2>1, <2>2
<1>8. CASE Replicate(Replica)
  BY <1>1, <1>8, ReplicateFacts
<1>9. CASE CheckIsr
  BY <1>1, <1>9, CheckIsrFacts
<1>10. CASE Tick
  BY <1>1, <1>10, TickFacts
<1> QED BY <1>1, <1>3, <1>4, <1>5, <1>6, <1>7, <1>8, <1>9, <1>10 DEF Step

------------------------------------------------------------------------------
(* The records *)

Records == RecordsAreNew /\ SameOffset /\ AckedIsCommitted /\ AgreeWhilePrompt

\* Where records may come from and what stays in place keep a record at one
\* offset, an acknowledged one committed, and the logs in agreement.
LEMMA RecordsStay ==
    ASSUME TypeOK, Shape, Records, StepFacts, Remember
    PROVE  Records'
<1> DEFINE N == Len(log[leader])
           New(n, i) == produced' = produced + 1 /\ i = N + 1 /\ log'[n][i] = produced + 1
           Old(n, i, p) == i <= Len(log[p]) /\ log'[n][i] = log[p][i]
<1>1. /\ \A n \in Replica : Len(log[n]) \in Nat /\ Len(log'[n]) \in Nat
      /\ leader \in Replica /\ produced \in Nat /\ isr # {} /\ isr \subseteq Replica
  BY LogFacts DEF TypeOK, StepFacts, Logs, Record, Shape, LeaderIsAhead
<1>2. \A n \in Replica : \A i \in 1..Len(log'[n]) : New(n, i) \/ \E p \in Replica : Old(n, i, p)
  BY DEF StepFacts, Origin
<1>3. \A n \in Replica : \A i \in 1..Len(log[n]) : log[n][i] <= produced /\ log[n][i] \in Nat
  <2>1. \A n \in Replica : \A i \in 1..Len(log[n]) : log[n][i] \in Nat
    <3>1. log \in Logs
      BY DEF TypeOK, Logs, Record
    <3>2. \A r \in Record : r \in Nat
      BY DEF Record
    <3> QED BY <3>1, <3>2, LogFacts
  <2> QED BY <2>1 DEF Records, RecordsAreNew, End
<1>4. produced' \in {produced, produced + 1}
  BY DEF StepFacts
<1>5. RecordsAreNew'
  <2> SUFFICES ASSUME NEW n \in Replica, NEW i \in 1..Len(log'[n])
               PROVE  log'[n][i] <= produced'
    BY DEF RecordsAreNew, End
  <2>1. CASE New(n, i)
    BY <1>1, <2>1
  <2>2. ASSUME NEW p \in Replica, Old(n, i, p)
        PROVE  log'[n][i] <= produced'
    <3>1. i \in 1..Len(log[p])
      BY <1>1, <2>2
    <3> QED BY <1>1, <1>3, <1>4, <2>2, <3>1
  <2> QED BY <1>2, <2>1, <2>2
<1>6. SameOffset'
  <2> SUFFICES ASSUME NEW n \in Replica, NEW m \in Replica,
                      NEW i \in 1..Len(log'[n]), NEW j \in 1..Len(log'[m]),
                      log'[n][i] = log'[m][j]
               PROVE  i = j
    BY DEF SameOffset, End
  <2>1. CASE New(n, i) /\ New(m, j)
    BY <2>1
  <2>2. ASSUME NEW p \in Replica, New(n, i), Old(m, j, p)
        PROVE  FALSE
    <3>1. j \in 1..Len(log[p])
      BY <1>1, <2>2
    <3>2. log[p][j] = produced + 1
      BY <2>2
    <3> QED BY <1>1, <1>3, <3>1, <3>2
  <2>3. ASSUME NEW p \in Replica, Old(n, i, p), New(m, j)
        PROVE  FALSE
    <3>1. i \in 1..Len(log[p])
      BY <1>1, <2>3
    <3>2. log[p][i] = produced + 1
      BY <2>3
    <3> QED BY <1>1, <1>3, <3>1, <3>2
  <2>4. ASSUME NEW p \in Replica, NEW q \in Replica, Old(n, i, p), Old(m, j, q)
        PROVE  i = j
    <3>1. i \in 1..Len(log[p]) /\ j \in 1..Len(log[q])
      BY <1>1, <2>4
    <3> QED BY <2>4, <3>1 DEF Records, SameOffset, End
  <2> QED BY <1>2, <2>1, <2>2, <2>3, <2>4
<1>7. AckedIsCommitted'
  <2> SUFFICES ASSUME NEW r \in acked'
               PROVE  \E n \in Replica : \E i \in 1..Len(log'[n]) :
                          i <= HighWatermark' /\ log'[n][i] = r
    BY DEF AckedIsCommitted, End
  <2>0. /\ HighWatermark \in Nat /\ HighWatermark <= HighWatermark'
        /\ HighWatermark' \in Nat
    <3>1. isr' # {} /\ TypeOK'
      BY DEF StepFacts, Shape, LeaderIsAhead
    <3> QED BY <1>1, <3>1, Watermark, WatermarkNext DEF StepFacts
  <2>1. CASE r \in acked
    <3>1. PICK n \in Replica : \E i \in 1..Len(log[n]) : i <= HighWatermark /\ log[n][i] = r
      BY <2>1 DEF Records, AckedIsCommitted, End
    <3>2. PICK i \in 1..Len(log[n]) : i <= HighWatermark /\ log[n][i] = r
      BY <3>1
    <3>3. i \in 1..HighWatermark
      BY <1>1, <2>0, <3>2
    <3>4. i <= Len(log'[n]) /\ log'[n][i] = log[n][i]
      BY <1>1, <3>2, <3>3 DEF StepFacts, Kept
    <3>5. i \in 1..Len(log'[n]) /\ i <= HighWatermark'
      BY <1>1, <2>0, <3>2, <3>4
    <3> QED BY <3>2, <3>4, <3>5
  <2>2. CASE r \notin acked
    <3>1. /\ r = produced + 1 /\ N + 1 \in 1..Len(log'[leader])
          /\ N + 1 <= HighWatermark' /\ log'[leader][N + 1] = produced + 1
      BY <2>2 DEF StepFacts, AckedNow
    <3> QED BY <1>1, <3>1
  <2> QED BY <2>1, <2>2
<1>8. AgreeWhilePrompt'
  <2> SUFFICES ASSUME prompt', NEW n \in Replica, NEW m \in Replica,
                      NEW i \in 1..Len(log'[n]), i <= Len(log'[m])
               PROVE  log'[n][i] = log'[m][i]
    BY DEF AgreeWhilePrompt, End
  <2>1. prompt /\ (produced' # produced => down = {})
    BY DEF Remember
  <2>2. i \in 1..Len(log'[m])
    BY <1>1
  <2>3. ASSUME NEW p \in Replica, i <= Len(log[p]), produced' = produced + 1
        PROVE  i # N + 1
    <3>1. p \notin down
      BY <1>1, <2>1, <2>3
    <3>2. Len(log[p]) <= N
      BY <3>1 DEF Shape, NooneAhead, End
    <3> QED BY <1>1, <2>3, <3>2
  <2>4. CASE New(n, i) /\ New(m, i)
    BY <2>4
  <2>5. ASSUME NEW p \in Replica, New(n, i), Old(m, i, p)
        PROVE  FALSE
    BY <2>3, <2>5
  <2>6. ASSUME NEW p \in Replica, Old(n, i, p), New(m, i)
        PROVE  FALSE
    BY <2>3, <2>6
  <2>7. ASSUME NEW p \in Replica, NEW q \in Replica, Old(n, i, p), Old(m, i, q)
        PROVE  log'[n][i] = log'[m][i]
    <3>1. i \in 1..Len(log[p])
      BY <1>1, <2>7
    <3> QED BY <2>1, <2>7, <3>1 DEF Records, AgreeWhilePrompt, End
  <2> QED BY <1>2, <2>2, <2>4, <2>5, <2>6, <2>7
<1> QED BY <1>5, <1>6, <1>7, <1>8 DEF Records

------------------------------------------------------------------------------
(* The theorems *)

LEMMA InvInit == Init => Inv
<1> SUFFICES ASSUME Init PROVE Inv
  OBVIOUS
<1>1. /\ log = [n \in Replica |-> <<>>] /\ isr = Replica /\ down = {} /\ acked = {}
      /\ produced = 0 /\ faults = 0 /\ prompt = TRUE /\ leader = FirstLeader
      /\ age = [n \in Replica |-> 0]
  BY DEF Init
<1>2. /\ FirstLeader \in Replica /\ MaxLag \in Nat /\ MaxRecords \in Nat /\ MaxFaults \in Nat
  BY ReplicaAssumption
<1>3. \A n \in Replica : log[n] \in Seq(1..MaxRecords) /\ Len(log[n]) = 0
  BY <1>1, EmptySeq
<1>4. TypeOK
  <2>1. log \in [Replica -> Seq(1..MaxRecords)]
    BY <1>1, <1>3
  <2>2. age \in [Replica -> 0..(MaxLag + 1)]
    BY <1>1, <1>2
  <2> QED BY <1>1, <1>2, <2>1, <2>2 DEF TypeOK
<1>5. Shape
  BY <1>1, <1>2, <1>3 DEF Shape, LeaderIsAhead, NooneAhead, OutIsBehind, OlderIsShorter, End
<1>6. Records
  BY <1>1, <1>3 DEF Records, RecordsAreNew, SameOffset, AckedIsCommitted, AgreeWhilePrompt, End
<1> QED BY <1>4, <1>5, <1>6 DEF Inv, PartitionInv, Shape, Records

\* Every step of the attended partition keeps the invariant.
LEMMA InvStep == Inv /\ [Next /\ Attended]_vars => Inv'
<1> SUFFICES ASSUME Inv, [Next /\ Attended]_vars
             PROVE  Inv'
  OBVIOUS
<1>1. TypeOK /\ Shape /\ Records
  BY DEF Inv, PartitionInv, Shape, Records
<1>2. CASE Next /\ Attended
  <2>1. StepFacts /\ Remember
    BY <1>1, <1>2, StepIsGood DEF Next
  <2>2. Records'
    BY <1>1, <2>1, RecordsStay
  <2> QED BY <2>1, <2>2 DEF StepFacts, Inv, PartitionInv, Shape, Records
<1>3. CASE UNCHANGED vars
  <2>0. /\ log' = log /\ leader' = leader /\ isr' = isr /\ down' = down /\ age' = age
        /\ acked' = acked /\ produced' = produced /\ faults' = faults /\ prompt' = prompt
    BY <1>3 DEF vars
  <2>1. TypeOK'
    BY <1>1, <2>0 DEF TypeOK
  <2>2. Shape'
    BY <1>1, <2>0
       DEF Shape, LeaderIsAhead, NooneAhead, OutIsBehind, OlderIsShorter, End
  <2>3. HighWatermark' = HighWatermark
    BY <2>0 DEF HighWatermark, End
  <2>4. RecordsAreNew' /\ SameOffset'
    BY <1>1, <2>0 DEF Records, RecordsAreNew, SameOffset, End
  <2>5. AckedIsCommitted'
    BY <1>1, <2>0, <2>3 DEF Records, AckedIsCommitted, End
  <2>6. AgreeWhilePrompt'
    BY <1>1, <2>0 DEF Records, AgreeWhilePrompt, End
  <2> QED BY <2>1, <2>2, <2>4, <2>5, <2>6 DEF Inv, PartitionInv, Shape
<1> QED BY <1>2, <1>3

\* partitioned_log.py, ReplicatedPartition: the leader stays in sync and no in-sync
\* replica gets ahead of it, whatever fails, recovers or is evicted, while the
\* partition is Attended: recover does not cut a tail off the leader.
THEOREM LeaderStaysAhead == OnlineSpec => []PartitionInv
<1>1. Inv => PartitionInv
  BY DEF Inv
<1> QED BY <1>1, InvInit, InvStep, PTL DEF OnlineSpec

LEMMA KeepsAcked == Inv => AckedIsKept
<1> SUFFICES ASSUME Inv PROVE AckedIsKept
  OBVIOUS
<1>1. /\ log \in Logs /\ isr # {} /\ isr \subseteq Replica /\ leader \in isr
      /\ \A n \in Replica : Len(log[n]) \in Nat /\ DOMAIN log[n] = 1..Len(log[n])
  <2>1. /\ log \in Logs /\ isr # {} /\ isr \subseteq Replica /\ leader \in isr
    BY DEF Inv, PartitionInv, TypeOK, LeaderIsAhead, Logs, Record
  <2>2. \A n \in Replica : log[n] \in Seq(Record)
    BY <2>1, LogFacts
  <2> QED BY <2>1, <2>2, LenProperties
<1>2. HighWatermark \in Nat /\ \A n \in isr : HighWatermark <= Len(log[n])
  BY <1>1, Watermark DEF Inv, PartitionInv
<1>3. ASSUME NEW r \in acked
      PROVE  \E n \in Replica : \E i \in 1..Len(log[n]) : i <= HighWatermark /\ log[n][i] = r
  BY DEF Inv, AckedIsCommitted, End
<1>4. AckedIsSomewhere
  <2> SUFFICES ASSUME NEW r \in acked
               PROVE  \E n \in Replica : r \in Range(log[n])
    BY DEF AckedIsSomewhere
  <2>1. PICK n \in Replica : \E i \in 1..Len(log[n]) : i <= HighWatermark /\ log[n][i] = r
    BY <1>3
  <2> QED BY <1>1, <2>1 DEF Range
<1>5. ASSUME prompt
      PROVE  acked \subseteq Range(log[leader]) /\ InSyncHaveRecord
  <2>0. \A n, p \in Replica : \A i \in 1..Len(log[n]) : i <= Len(log[p]) => log[n][i] = log[p][i]
    BY <1>5 DEF Inv, AgreeWhilePrompt, End
  <2>1. ASSUME NEW r \in acked
        PROVE  r \in Range(log[leader])
    <3>1. PICK n \in Replica : \E i \in 1..Len(log[n]) : i <= HighWatermark /\ log[n][i] = r
      BY <1>3
    <3>2. PICK i \in 1..Len(log[n]) : i <= HighWatermark /\ log[n][i] = r
      BY <3>1
    <3>3. i <= Len(log[leader]) /\ i \in 1..Len(log[leader])
      BY <1>1, <1>2, <3>2
    <3>4. log[leader][i] = r
      BY <1>1, <2>0, <3>2, <3>3
    <3> QED BY <1>1, <3>3, <3>4 DEF Range
  <2>2. ASSUME NEW n \in isr, NEW i \in 1..HighWatermark
        PROVE  i <= Len(log[leader]) /\ log[n][i] = log[leader][i]
    <3>1. i \in 1..Len(log[n]) /\ i <= Len(log[leader])
      BY <1>1, <1>2
    <3> QED BY <1>1, <2>0, <3>1
  <2> QED BY <2>1, <2>2 DEF InSyncHaveRecord, End
<1> QED BY <1>4, <1>5 DEF AckedIsKept

\* produce(acks="all"), of an Attended partition: a record its producer was told of
\* is never gone from all the replicas, and while recoveries are prompt every later
\* leader has it.
THEOREM AckedStays == OnlineSpec => []AckedIsKept
<1> QED BY InvInit, InvStep, KeepsAcked, PTL DEF OnlineSpec

\* fail, of an Attended partition: the records an election gives up were acknowledged
\* to no acks=all producer.
THEOREM ElectionsLoseUnacked == OnlineSpec => LossIsUnacked
<1>1. ASSUME Inv, Inv', [Next /\ Attended]_vars
      PROVE  [leader' # leader =>
                \A i \in (Len(log[leader']) + 1)..End(leader) : log[leader][i] \notin acked]_vars
  <2> SUFFICES ASSUME Next, Attended, leader' # leader,
                      NEW i \in (Len(log[leader']) + 1)..Len(log[leader]),
                      log[leader][i] \in acked
               PROVE  FALSE
    BY <1>1 DEF End, vars
  <2>1. PICK n \in Replica : Fail(n)
    BY DEF Next, Step, ProduceAll, ProduceLeader, Replicate, Recover, CheckIsr, Tick
  <2>2. isr' \subseteq isr /\ leader' \in isr'
    BY <1>1, <2>1 DEF Fail, Inv, PartitionInv, LeaderIsAhead
  <2>3. isr # {} /\ isr \subseteq Replica /\ leader \in Replica /\ TypeOK
    BY <1>1 DEF Inv, PartitionInv, LeaderIsAhead, TypeOK
  <2>4. HighWatermark \in Nat /\ HighWatermark <= Len(log[leader'])
    BY <2>2, <2>3, Watermark
  <2>5. \A m \in Replica : Len(log[m]) \in Nat
    BY <2>3, LogFacts DEF TypeOK, Logs, Record
  <2>6. i \in 1..Len(log[leader]) /\ i > HighWatermark
    BY <2>2, <2>3, <2>4, <2>5
  <2>7. PICK m \in Replica : \E j \in 1..Len(log[m]) :
            j <= HighWatermark /\ log[m][j] = log[leader][i]
    BY <1>1 DEF Inv, AckedIsCommitted, End
  <2>8. PICK j \in 1..Len(log[m]) : j <= HighWatermark /\ log[m][j] = log[leader][i]
    BY <2>7
  <2>9. j = i
    BY <1>1, <2>3, <2>6, <2>8 DEF Inv, SameOffset, End
  <2> QED BY <2>4, <2>6, <2>8, <2>9
<1> QED BY <1>1, InvInit, InvStep, PTL DEF OnlineSpec, LossIsUnacked

\* fetch, of an Attended partition: what a consumer may have read stays where it was
\* read, through elections, evictions and recoveries, while recoveries are prompt.
THEOREM ReadsAreStable == OnlineSpec => VisibleIsStable
<1>1. ASSUME Inv, Inv', [Next /\ Attended]_vars
      PROVE  [prompt' => IsPrefix(Visible, Visible')]_vars
  <2> SUFFICES ASSUME Next, Attended, prompt'
               PROVE  IsPrefix(Visible, Visible')
    BY <1>1 DEF vars
  <2> DEFINE h == HighWatermark
             hh == HighWatermark'
             old == log[leader]
             new == log'[leader']
  <2>1. /\ leader \in isr /\ leader' \in isr' /\ isr # {} /\ isr \subseteq Replica
        /\ isr' \subseteq Replica /\ TypeOK /\ TypeOK' /\ Shape
    BY <1>1 DEF Inv, PartitionInv, LeaderIsAhead, TypeOK, Shape
  <2>2. /\ h \in Nat /\ hh \in Nat /\ h <= Len(old) /\ hh <= Len(new)
    BY <2>1, Watermark, WatermarkNext
  <2>3. h <= hh /\ Kept
    BY <2>1, StepIsGood DEF StepFacts
  <2>4. /\ old \in Seq(Record) /\ new \in Seq(Record) /\ log' \in Logs
        /\ \A n \in Replica : Len(log'[n]) \in Nat
        /\ Len(old) \in Nat /\ Len(new) \in Nat
    BY <2>1, LogFacts DEF TypeOK, Logs, Record
  <2>5. Min({h, Len(old)}) = h /\ Min({hh, Len(new)}) = hh
    <3>1. /\ {h, Len(old)} \subseteq Nat /\ {hh, Len(new)} \subseteq Nat
      BY <2>2, <2>4
    <3>2. /\ Min({h, Len(old)}) \in {h, Len(old)}
          /\ \A x \in {h, Len(old)} : Min({h, Len(old)}) <= x
      BY <3>1, MinFacts
    <3>3. /\ Min({hh, Len(new)}) \in {hh, Len(new)}
          /\ \A x \in {hh, Len(new)} : Min({hh, Len(new)}) <= x
      BY <3>1, MinFacts
    <3>4. Min({h, Len(old)}) = h
      BY <2>2, <2>4, <3>2
    <3>5. Min({hh, Len(new)}) = hh
      BY <2>2, <2>4, <3>3
    <3> QED BY <3>4, <3>5
  <2>6. Visible = SubSeq(old, 1, h) /\ Visible' = SubSeq(new, 1, hh)
    BY <2>5 DEF Visible, End
  <2>7. \A i \in 1..h : old[i] = new[i]
    <3> TAKE i \in 1..h
    <3>1. i <= Len(log'[leader]) /\ log'[leader][i] = old[i]
      BY <2>1, <2>2, <2>3, <2>4 DEF Kept
    <3>2. i \in 1..Len(log'[leader]) /\ i <= Len(new)
      BY <2>1, <2>2, <2>3, <2>4, <3>1
    <3>3. log'[leader][i] = log'[leader'][i]
      BY <1>1, <2>1, <3>2 DEF Inv, AgreeWhilePrompt, End
    <3> QED BY <3>1, <3>3
  <2> HIDE DEF h, hh, old, new
  <2>8. /\ SubSeq(old, 1, h) \in Seq(Record) /\ Len(SubSeq(old, 1, h)) = h
        /\ \A i \in 1..h : SubSeq(old, 1, h)[i] = old[i]
        /\ SubSeq(new, 1, hh) \in Seq(Record) /\ Len(SubSeq(new, 1, hh)) = hh
        /\ \A i \in 1..hh : SubSeq(new, 1, hh)[i] = new[i]
    BY <2>2, <2>4, CutFacts
  <2>9. \A i \in 1..h : SubSeq(old, 1, h)[i] = SubSeq(new, 1, hh)[i]
    <3>1. \A i \in 1..h : i \in 1..hh
      BY <2>2, <2>3
    <3> QED BY <2>7, <2>8, <3>1
  <2>10. IsPrefix(SubSeq(old, 1, h), SubSeq(new, 1, hh))
    <3> DEFINE s == SubSeq(old, 1, h)
               t == SubSeq(new, 1, hh)
    <3>1. /\ s \in Seq(Record) /\ t \in Seq(Record) /\ Len(s) <= Len(t)
          /\ \A i \in 1..Len(s) : s[i] = t[i]
      BY <2>3, <2>8, <2>9
    <3> HIDE DEF s, t
    <3>2. IsPrefix(s, t)
      BY <3>1, PrefixFacts
    <3> QED BY <3>2 DEF s, t
  <2> QED BY <2>6, <2>10
<1> QED BY <1>1, InvInit, InvStep, PTL DEF OnlineSpec, VisibleIsStable
=============================================================================
