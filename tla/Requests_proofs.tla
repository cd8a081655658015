---------------------------- MODULE Requests_proofs ----------------------------
(***************************************************************************)
(* Proofs about what the user asks for and what is shown of it: the plans  *)
(* that go to the mower and come back, the targets of the commands, the    *)
(* pictures of the lawns, the replay of the work log and the requests of   *)
(* the cloud client.                                                       *)
(***************************************************************************)
EXTENDS Schedules, Commands, Pictures, WorkLog, CloudClient, Data_proofs

-----------------------------------------------------------------------------
(***************************************************************************)
(* The records of a plan.                                                  *)
(***************************************************************************)
\* Plans that the service may be asked for and the encoder does not refuse.
GoodPlan(plan) ==
    /\ plan.time \in 0 .. 1439 /\ plan.action \in 0 .. 2
    /\ plan.action # 0 => plan.zone \in Int
    /\ plan.action = 2 => plan.extra[1] \in Byte8

\* The minutes of a time in byte 3 and the lower half of byte 4.
LEMMA TimeIsSplit ==
    ASSUME NEW t \in 0 .. 1439, NEW a \in 0 .. 2
    PROVE  /\ (t % 256) + 256 * ((16 * a + t \div 256) % 16) = t
           /\ t % 256 \in Byte8 /\ 16 * a + t \div 256 \in Byte8
  BY SMT DEF Byte8

\* Day and action in the halves of byte 2.
LEMMA DayIsSplit ==
    ASSUME NEW d \in 1 .. 7, NEW a \in 0 .. 2
    PROVE  (16 * d + a) % 16 = a /\ (16 * d + a) \div 16 = d /\ 16 * d + a \in Byte8
  BY SMT DEF Byte8

\* The six bytes that every record begins with, and those that follow.
Head6(day, plan) ==
    <<170, 7 + plan.action, 16 * day + plan.action, plan.time % 256,
      16 * plan.action + plan.time \div 256, 0>>
Rest(plan) ==
    CASE plan.action = 0 -> <<237>>
      [] plan.action = 1 -> <<plan.zone % 256, 237>>
      [] plan.action = 2 -> <<plan.zone % 256, plan.extra[1], 237>>

\* The bytes of two sequences that are joined.
LEMMA Joined ==
    ASSUME NEW s \in Seq(Byte8), NEW t \in Seq(Byte8), Len(s) = 6, Len(t) \in 1 .. 3
    PROVE  /\ s \o t \in Seq(Byte8) /\ Len(s \o t) = 6 + Len(t)
           /\ \A i \in 1 .. 6 : (s \o t)[i] = s[i]
           /\ \A i \in 1 .. Len(t) : (s \o t)[6 + i] = t[i]
<1>1. /\ s \o t \in Seq(Byte8) /\ Len(s \o t) = Len(s) + Len(t)
      /\ \A i \in 1 .. Len(s) + Len(t) :
            (s \o t)[i] = IF i <= Len(s) THEN s[i] ELSE t[i - Len(s)]
  BY ConcatProperties
<1> DEFINE st == s \o t
<1> HIDE DEF st
<1>2. \A i \in 1 .. 6 : st[i] = s[i]
  BY <1>1, SMT DEF st
<1>3. ASSUME NEW i \in 1 .. Len(t)
      PROVE  st[6 + i] = t[i]
  <2>1. 6 + i \in 1 .. Len(s) + Len(t) /\ ~(6 + i <= Len(s)) /\ (6 + i) - Len(s) = i
    BY SMT
  <2> QED
    BY <1>1, <2>1 DEF st
<1> QED
  BY <1>1, <1>2, <1>3 DEF st

\* Zone and extra are bytes, and there are as many as the length byte says.
LEMMA RestIsBytes ==
    ASSUME NEW plan, GoodPlan(plan)
    PROVE  Rest(plan) \in Seq(Byte8) /\ Len(Rest(plan)) = 1 + plan.action
<1>1. CASE plan.action = 0
  BY <1>1, SMT DEF Rest, Byte8
<1>2. CASE plan.action = 1
  <2>1. plan.zone % 256 \in Byte8
    BY <1>2, SMT DEF GoodPlan, Byte8
  <2> QED
    BY <1>2, <2>1, SMT DEF Rest, Byte8
<1>3. CASE plan.action = 2
  <2>1. plan.zone \in Int /\ plan.extra[1] \in Byte8
    BY <1>3 DEF GoodPlan
  <2>2. plan.zone % 256 \in Byte8
    BY <2>1, SMT DEF Byte8
  <2> QED
    BY <1>3, <2>1, <2>2, SMT DEF Rest, Byte8
<1> QED
  BY <1>1, <1>2, <1>3, SMT DEF GoodPlan

\* A record is its head and the rest.
LEMMA RecordIsJoined ==
    ASSUME NEW day \in 1 .. 7, NEW plan, GoodPlan(plan)
    PROVE  Record(day, plan) = Head6(day, plan) \o Rest(plan)
  BY DEF Record, Head6, Rest

\* What encode_schedule_blob emits for a day of a plan is bytes, and
\* _decode_one_record accepts it and finds the same day, time, action, extra byte,
\* and the zone's lower eight bits: at every minute of the day, on both sides of
\* 256, where the time spills into the byte that repeats the action.
THEOREM RecordsAreRead ==
    ASSUME NEW day \in 1 .. 7, NEW plan, GoodPlan(plan)
    PROVE  LET rec == Record(day, plan)
           IN  /\ rec \in Seq(Byte8) /\ Readable(rec)
               /\ DayOf(rec) = day /\ TimeOf(rec) = plan.time /\ ActionOf(rec) = plan.action
               /\ plan.action # 0 => rec[7] = plan.zone % 256
               /\ plan.action = 2 => rec[8] = plan.extra[1]
<1> DEFINE head == Head6(day, plan)
           rest == Rest(plan)
           rec == Record(day, plan)
<1>1. /\ (16 * day + plan.action) % 16 = plan.action
      /\ (16 * day + plan.action) \div 16 = day
      /\ 16 * day + plan.action \in Byte8
  BY DayIsSplit DEF GoodPlan
<1>2. /\ (plan.time % 256) + 256 * ((16 * plan.action + plan.time \div 256) % 16) = plan.time
      /\ plan.time % 256 \in Byte8 /\ 16 * plan.action + plan.time \div 256 \in Byte8
  <2> DEFINE t == plan.time
             a == plan.action
  <2>1. t \in 0 .. 1439 /\ a \in 0 .. 2
    BY DEF GoodPlan
  <2> HIDE DEF t, a
  <2>2. /\ (t % 256) + 256 * ((16 * a + t \div 256) % 16) = t
        /\ t % 256 \in Byte8 /\ 16 * a + t \div 256 \in Byte8
    BY <2>1, TimeIsSplit
  <2> QED
    BY <2>2 DEF t, a
<1>3. plan.time \in 0 .. 1439 /\ plan.action \in 0 .. 2
  BY DEF GoodPlan
<1>4. head \in Seq(Byte8) /\ Len(head) = 6
  BY <1>1, <1>2, <1>3, SMT DEF Head6, Byte8
<1>5. rest \in Seq(Byte8) /\ Len(rest) = 1 + plan.action
  BY RestIsBytes
<1>6. /\ rec \in Seq(Byte8) /\ Len(rec) = 7 + plan.action
      /\ \A i \in 1 .. 6 : rec[i] = head[i]
      /\ \A i \in 1 .. Len(rest) : rec[6 + i] = rest[i]
  <2>1. rec = head \o rest
    BY RecordIsJoined
  <2>2. Len(rest) \in 1 .. 3
    BY <1>3, <1>5, SMT
  <2> HIDE DEF head, rest, rec
  <2>3. /\ rec \in Seq(Byte8) /\ Len(rec) = 6 + Len(rest)
        /\ \A i \in 1 .. 6 : rec[i] = head[i]
        /\ \A i \in 1 .. Len(rest) : rec[6 + i] = rest[i]
    BY <1>4, <1>5, <2>1, <2>2, Joined
  <2>4. Len(rec) = 7 + plan.action
    BY <1>3, <1>5, <2>3, SMT
  <2> QED
    BY <2>3, <2>4
<1>7. /\ rec[1] = 170 /\ rec[2] = 7 + plan.action /\ rec[3] = 16 * day + plan.action
      /\ rec[4] = plan.time % 256 /\ rec[5] = 16 * plan.action + plan.time \div 256
  <2>1. /\ head[1] = 170 /\ head[2] = 7 + plan.action /\ head[3] = 16 * day + plan.action
        /\ head[4] = plan.time % 256 /\ head[5] = 16 * plan.action + plan.time \div 256
    BY DEF Head6
  <2> HIDE DEF head, rest, rec
  <2> QED
    BY <1>6, <2>1, SMT
<1>8. /\ rec[7 + plan.action] = 237
      /\ plan.action # 0 => rec[7] = plan.zone % 256
      /\ plan.action = 2 => rec[8] = plan.extra[1]
  <2>1. /\ rest[1 + plan.action] = 237
        /\ plan.action # 0 => rest[1] = plan.zone % 256
        /\ plan.action = 2 => rest[2] = plan.extra[1]
    BY <1>3, SMT DEF Rest
  <2> HIDE DEF head, rest, rec
  <2>2. rec[6 + (1 + plan.action)] = rest[1 + plan.action]
    <3>1. 1 + plan.action \in 1 .. Len(rest)
      BY <1>3, <1>5, SMT
    <3> QED
      BY <1>6, <3>1
  <2>3. plan.action # 0 => rec[6 + 1] = rest[1]
    BY <1>3, <1>5, <1>6, SMT
  <2>4. plan.action = 2 => rec[6 + 2] = rest[2]
    BY <1>3, <1>5, <1>6, SMT
  <2>5. 6 + (1 + plan.action) = 7 + plan.action /\ 6 + 1 = 7 /\ 6 + 2 = 8
    BY <1>3, SMT
  <2> QED
    BY <2>1, <2>2, <2>3, <2>4, <2>5
<1>9. /\ DayOf(rec) = day /\ TimeOf(rec) = plan.time /\ ActionOf(rec) = plan.action
  <2> HIDE DEF head, rest, rec
  <2> QED
    BY <1>1, <1>2, <1>7 DEF DayOf, TimeOf, ActionOf
<1>10. Readable(rec)
  <2> HIDE DEF head, rest, rec
  <2>1. Len(rec) = 7 + plan.action /\ plan.action \in 0 .. 2 /\ rec[7 + plan.action] = 237
    BY <1>3, <1>6, <1>8
  <2>2. Len(rec) \in 7 .. 9 /\ plan.action = Len(rec) - 7 /\ rec[Len(rec)] = 237
    BY <2>1
  <2> QED
    BY <1>3, <1>7, <1>9, <2>1, <2>2 DEF Readable
<1> QED
  BY <1>6, <1>8, <1>9, <1>10

\* The encoder is asked for plans that it does not refuse, which are good ones.
Writable == {plan \in Entered : ~Unwritable(plan)}

LEMMA WritableIsGood ==
    ASSUME NEW plan \in Writable
    PROVE  GoodPlan(plan)
<1>1. /\ plan.time \in 0 .. 1439 /\ plan.action \in 0 .. 2
      /\ plan.zone \in Int \cup {None} /\ plan.extra \in Seq(Byte8) /\ ~Unwritable(plan)
  BY DEF Writable, Entered
<1>2. plan.action # 0 => plan.zone \in Int
  BY <1>1 DEF Unwritable
<1>3. plan.action = 2 => plan.extra[1] \in Byte8
  <2>1. plan.action = 2 => Len(plan.extra) = 1
    BY <1>1 DEF Unwritable
  <2>2. Len(plan.extra) = 1 => 1 \in 1 .. Len(plan.extra)
    OBVIOUS
  <2>3. QED BY <1>1, <2>1, <2>2
<1>4. QED BY <1>1, <1>2, <1>3 DEF GoodPlan

\* The records of two plans that agree in all but their days are the same.
LEMMA SameRecord ==
    ASSUME NEW day, NEW p, NEW q, p.time = q.time, p.action = q.action, p.action \in 0 .. 2,
           p.action # 0 => p.zone % 256 = q.zone % 256,
           p.action = 2 => p.extra[1] = q.extra[1]
    PROVE  Record(day, p) = Record(day, q)
<1>1. Head6(day, p) = Head6(day, q)
  BY DEF Head6
<1>2. Rest(p) = Rest(q)
  <2>1. CASE p.action = 0 BY <2>1 DEF Rest
  <2>2. CASE p.action = 1 BY <2>2 DEF Rest
  <2>3. CASE p.action = 2 BY <2>3 DEF Rest
  <2>4. QED BY <2>1, <2>2, <2>3
<1>3. Record(day, p) = Head6(day, p) \o Rest(p) /\ Record(day, q) = Head6(day, q) \o Rest(q)
  BY DEF Record, Head6, Rest
<1>4. QED BY <1>1, <1>2, <1>3

\* A record the encoder emits sets no bit that is not read: it is what the encoder
\* emits for what the decoder makes of it.
LEMMA RecordIsLawful ==
    ASSUME NEW day \in 1 .. 7, NEW plan, GoodPlan(plan)
    PROVE  LET rec == Record(day, plan)
           IN  /\ rec \in Seq(Byte8) /\ Readable(rec)
               /\ rec = Record(DayOf(rec), PlanOn({}, rec))
<1> DEFINE rec == Record(day, plan)
           read == PlanOn({}, rec)
<1>1. /\ rec \in Seq(Byte8) /\ Readable(rec)
      /\ DayOf(rec) = day /\ TimeOf(rec) = plan.time /\ ActionOf(rec) = plan.action
      /\ plan.action # 0 => rec[7] = plan.zone % 256
      /\ plan.action = 2 => rec[8] = plan.extra[1]
  BY RecordsAreRead
<1> HIDE DEF rec
<1>2. /\ read.time = plan.time /\ read.action = plan.action
      /\ plan.action # 0 => read.zone = plan.zone % 256
      /\ plan.action = 2 => read.extra = <<plan.extra[1]>>
  BY <1>1 DEF PlanOn, ZoneOf, ExtraOf
<1>3. plan.action # 0 => (plan.zone % 256) % 256 = plan.zone % 256
  <2>1. \A z \in Int : (z % 256) % 256 = z % 256
    BY SMT
  <2>2. QED BY <2>1 DEF GoodPlan
<1> HIDE DEF read
<1>4. Record(day, plan) = Record(day, read)
  BY <1>2, <1>3, SameRecord DEF GoodPlan
<1>5. QED BY <1>1, <1>4 DEF rec, read

-----------------------------------------------------------------------------
(***************************************************************************)
(* The blob of a slot's plans.                                             *)
(***************************************************************************)
\* In a strict order of finitely many things each has a place of its own, and no
\* place is left empty.
LEMMA PlacesAreTaken ==
    ASSUME NEW S, IsFiniteSet(S), NEW before \in [S -> SUBSET S],
           \A x \in S : x \notin before[x],
           \A x, y \in S : x = y \/ x \in before[y] \/ y \in before[x],
           \A x, y, z \in S : x \in before[y] /\ y \in before[z] => x \in before[z],
           NEW place, \A x \in S : place[x] = Cardinality(before[x]) + 1
    PROVE  /\ Cardinality(S) \in Nat
           /\ \A x \in S : place[x] \in 1 .. Cardinality(S)
           /\ \A x, y \in S : place[x] = place[y] => x = y
           /\ \A n \in 1 .. Cardinality(S) : \E x \in S : place[x] = n
<1> DEFINE those(x) == before[x]
           at(x) == place[x]
           N == Cardinality(S)
<1>1. N \in Nat
  BY FS_CardinalityType
<1>2. ASSUME NEW x \in S
      PROVE  IsFiniteSet(those(x)) /\ Cardinality(those(x)) \in Nat /\ at(x) \in 1 .. N
  <2> DEFINE rest == S \ {x}
  <2>1. those(x) \in SUBSET rest /\ at(x) = Cardinality(those(x)) + 1
    OBVIOUS
  <2>2. IsFiniteSet(rest) /\ Cardinality(rest) = N - 1
    BY FS_RemoveElement
  <2> HIDE DEF rest, those, at, N
  <2>3. IsFiniteSet(those(x)) /\ Cardinality(those(x)) <= N - 1
    BY <2>1, <2>2, FS_Subset
  <2>4. Cardinality(those(x)) \in Nat
    BY <2>3, FS_CardinalityType
  <2>5. QED BY <1>1, <2>1, <2>3, <2>4
<1>3. ASSUME NEW x \in S, NEW y \in S, x \in before[y] PROVE at(x) < at(y)
  <2>1. those(x) \cup {x} \in SUBSET those(y) /\ x \notin those(x)
    BY <1>3
  <2>2. IsFiniteSet(those(x)) /\ IsFiniteSet(those(y)) /\ Cardinality(those(x)) \in Nat /\ Cardinality(those(y)) \in Nat
    BY <1>2
  <2>6. at(x) = Cardinality(those(x)) + 1 /\ at(y) = Cardinality(those(y)) + 1
    OBVIOUS
  <2> HIDE DEF those, at
  <2>3. Cardinality(those(x) \cup {x}) = Cardinality(those(x)) + 1
    BY <2>1, <2>2, FS_AddElement
  <2>4. Cardinality(those(x) \cup {x}) <= Cardinality(those(y))
    BY <2>1, <2>2, FS_Subset
  <2>5. QED BY <2>2, <2>3, <2>4, <2>6
<1>4. ASSUME NEW x \in S, NEW y \in S, at(x) = at(y) PROVE x = y
  <2>1. at(x) \in 1 .. N /\ at(y) \in 1 .. N
    BY <1>2
  <2> HIDE DEF at, N
  <2>2. ~(at(x) < at(y)) /\ ~(at(y) < at(x))
    BY <1>1, <1>4, <2>1
  <2>3. QED BY <1>3, <2>2
<1>5. \A n \in 1 .. N : \E x \in S : at(x) = n
  <2> DEFINE f == [x \in S |-> at(x)]
  <2>1. f \in [S -> 1 .. N]
    BY <1>2
  <2>2. \A x \in S : f[x] = at(x)
    OBVIOUS
  <2>3. IsFiniteSet(1 .. N) /\ Cardinality(1 .. N) = N
    <3>1. IsFiniteSet(1 .. N) /\ Cardinality(1 .. N) = IF 1 > N THEN 0 ELSE N - 1 + 1
      <4>1. 1 \in Int /\ N \in Int
        BY <1>1
      <4> HIDE DEF N
      <4>2. QED BY <4>1, FS_Interval
    <3> HIDE DEF N
    <3>2. QED BY <1>1, <3>1
  <2> HIDE DEF f, at
  <2>4. f \in Injection(S, 1 .. N)
    BY <1>4, <2>1, <2>2 DEF Injection, IsInjective
  <2>5. f \in Surjection(S, 1 .. N)
    <3>1. Cardinality(S) = Cardinality(1 .. N)
      BY <2>3
    <3> HIDE DEF N
    <3>2. QED BY <2>3, <2>4, <3>1, FS_Injection
  <2>6. QED BY <2>2, <2>5 DEF Surjection
<1>6. QED BY <1>1, <1>2, <1>4, <1>5

\* build_schedule_set_value: the blob has the records of all days of all plans, and
\* no other.
LEMMA BlobRecords ==
    ASSUME NEW plans \in Seq(Writable)
    PROVE  /\ BlobOf(plans) \in Seq(Seq(Byte8))
           /\ \A rec : rec \in ToSet(BlobOf(plans)) <=>
                  \E i \in DOMAIN plans : \E day \in plans[i].days : rec = Record(day, plans[i])
<1> DEFINE len == Len(plans)
           mows == {mow \in (1 .. 7) \X DOMAIN plans : mow[1] \in plans[mow[2]].days}
           before == [mow \in mows |-> {a \in mows : Earlier(plans, a, mow)}]
           place == [mow \in mows |-> Cardinality({a \in mows : Earlier(plans, a, mow)}) + 1]
           N == Cardinality(mows)
           At(n) == CHOOSE mow \in mows : place[mow] = n
           blob == [n \in 1 .. N |-> Record(At(n)[1], plans[At(n)[2]])]
<1>1. /\ len \in Nat /\ DOMAIN plans = 1 .. len
      /\ \A i \in 1 .. len : plans[i] \in Writable /\ plans[i].time \in Int /\ plans[i].days \in SUBSET (1 .. 7)
  <2>1. len \in Nat /\ DOMAIN plans = 1 .. len /\ \A i \in 1 .. len : plans[i] \in Writable
    OBVIOUS
  <2>2. \A plan \in Writable : plan.time \in Int /\ plan.days \in SUBSET (1 .. 7)
    <3> SUFFICES ASSUME NEW plan \in Writable PROVE plan.time \in Int /\ plan.days \in SUBSET (1 .. 7)
      OBVIOUS
    <3>1. plan.time \in 0 .. 1439
      BY DEF Writable, Entered
    <3>2. plan.days \in (SUBSET (1 .. 7)) \ {{}}
      BY DEF Writable, Entered
    <3>3. plan.days \in SUBSET (1 .. 7)
      BY <3>2, Zenon
    <3>4. plan.time \in Int
      <4> DEFINE t == plan.time
      <4>1. t \in 0 .. 1439
        BY <3>1
      <4> HIDE DEF t
      <4>2. t \in Int
        BY <4>1
      <4>3. QED BY <4>2 DEF t
    <3>5. QED BY <3>3, <3>4
  <2>3. QED BY <2>1, <2>2
<1>2. \A x : x \in mows => /\ x[1] \in 1 .. 7 /\ x[2] \in 1 .. len /\ x = <<x[1], x[2]>>
                           /\ x[1] \in plans[x[2]].days /\ x[1] \in Int /\ x[2] \in Int
                           /\ plans[x[2]].time \in Int
  BY <1>1
<1>3. IsFiniteSet(mows)
  <2>1. IsFiniteSet(1 .. 7) /\ IsFiniteSet(1 .. len)
    <3>1. 1 \in Int /\ 7 \in Int /\ len \in Int
      BY <1>1
    <3> HIDE DEF len
    <3>2. QED BY <3>1, FS_Interval
  <2>2. IsFiniteSet((1 .. 7) \X (1 .. len))
    BY <2>1, FS_Product
  <2>3. mows \in SUBSET ((1 .. 7) \X (1 .. len))
    BY <1>1
  <2>4. QED BY <2>2, <2>3, FS_Subset
<1>4. BlobOf(plans) = blob
  BY DEF BlobOf
<1>5. /\ \A x, y \in mows : x \in before[y] <=> Earlier(plans, x, y)
      /\ before \in [mows -> SUBSET mows]
      /\ \A x \in mows : place[x] = Cardinality(before[x]) + 1
  OBVIOUS
<1> HIDE DEF mows, before, place
<1>6. /\ \A x \in mows : x \notin before[x]
      /\ \A x, y \in mows : x = y \/ x \in before[y] \/ y \in before[x]
      /\ \A x, y, z \in mows : x \in before[y] /\ y \in before[z] => x \in before[z]
  <2>1. \A x \in mows : ~Earlier(plans, x, x)
    BY <1>2 DEF Earlier
  <2>2. \A x, y \in mows : x = y \/ Earlier(plans, x, y) \/ Earlier(plans, y, x)
    <3> SUFFICES ASSUME NEW x \in mows, NEW y \in mows, ~Earlier(plans, x, y), ~Earlier(plans, y, x)
                 PROVE  x = y
      OBVIOUS
    <3>1. x[1] = y[1] /\ x[2] = y[2]
      BY <1>2 DEF Earlier
    <3>2. QED BY <1>2, <3>1
  <2>3. \A x, y, z \in mows : Earlier(plans, x, y) /\ Earlier(plans, y, z) => Earlier(plans, x, z)
    BY <1>2 DEF Earlier
  <2>4. QED BY <1>5, <2>1, <2>2, <2>3
<1>7. /\ N \in Nat
      /\ \A x \in mows : place[x] \in 1 .. N
      /\ \A x, y \in mows : place[x] = place[y] => x = y
      /\ \A n \in 1 .. N : \E x \in mows : place[x] = n
  BY <1>3, <1>5, <1>6, PlacesAreTaken
<1> HIDE DEF N
<1>8. \A n \in 1 .. N : At(n) \in mows
  BY <1>7
<1>9. \A x \in mows : \E n \in 1 .. N : At(n) = x
  BY <1>7
<1> HIDE DEF At
<1>10. \A n \in 1 .. N : Record(At(n)[1], plans[At(n)[2]]) \in Seq(Byte8)
  <2> TAKE n \in 1 .. N
  <2>1. At(n)[1] \in 1 .. 7 /\ GoodPlan(plans[At(n)[2]])
    BY <1>1, <1>2, <1>8, WritableIsGood
  <2>2. QED BY <2>1, RecordIsLawful
<1>11. blob \in Seq(Seq(Byte8))
  BY <1>7, <1>10
<1>12. ASSUME NEW rec
       PROVE  rec \in ToSet(blob) <=> \E i \in DOMAIN plans : \E day \in plans[i].days : rec = Record(day, plans[i])
  <2>1. rec \in ToSet(blob) <=> \E n \in 1 .. N : rec = Record(At(n)[1], plans[At(n)[2]])
    BY DEF ToSet
  <2>2. ASSUME NEW n \in 1 .. N, rec = Record(At(n)[1], plans[At(n)[2]])
        PROVE  \E i \in DOMAIN plans : \E day \in plans[i].days : rec = Record(day, plans[i])
    <3>1. At(n)[2] \in DOMAIN plans /\ At(n)[1] \in plans[At(n)[2]].days
      BY <1>1, <1>2, <1>8
    <3>2. QED BY <2>2, <3>1
  <2>3. ASSUME NEW i \in DOMAIN plans, NEW day \in plans[i].days, rec = Record(day, plans[i])
        PROVE  \E n \in 1 .. N : rec = Record(At(n)[1], plans[At(n)[2]])
    <3>1. <<day, i>> \in mows
      BY <1>1 DEF mows
    <3>2. PICK n \in 1 .. N : At(n) = <<day, i>>
      BY <1>9, <3>1
    <3>3. QED BY <2>3, <3>2
  <2>4. QED BY <2>1, <2>2, <2>3
<1> HIDE DEF blob
<1>13. QED BY <1>4, <1>11, <1>12

-----------------------------------------------------------------------------
(***************************************************************************)
(* The plans of a blob.                                                    *)
(***************************************************************************)
\* Records that are read and are what the encoder makes of what is read.
ReadRecords == {rec \in Seq(Byte8) : Readable(rec) /\ rec = Record(DayOf(rec), PlanOn({}, rec))}

\* What is read of a record.
LEMMA RecordTyped ==
    ASSUME NEW rec \in ReadRecords
    PROVE  /\ DayOf(rec) \in 1 .. 7 /\ TimeOf(rec) \in 0 .. 1439 /\ ActionOf(rec) \in 0 .. 2
           /\ ZoneOf(rec) \in Byte8 \cup {None} /\ ExtraOf(rec) \in Seq(Byte8)
           /\ ActionOf(rec) # 0 => ZoneOf(rec) \in Byte8
           /\ ActionOf(rec) = 2 => Len(ExtraOf(rec)) = 1
           /\ ActionOf(rec) # 2 => ExtraOf(rec) = <<>>
<1>1. /\ rec \in Seq(Byte8) /\ Len(rec) \in 7 .. 9 /\ ActionOf(rec) = Len(rec) - 7
      /\ DayOf(rec) \in 1 .. 7 /\ TimeOf(rec) \in 0 .. 1439
  BY DEF ReadRecords, Readable
<1>2. ActionOf(rec) \in 0 .. 2
  BY <1>1
<1>3. rec[7] \in Byte8
  <2>1. \A n \in 7 .. 9 : 7 \in 1 .. n
    OBVIOUS
  <2>2. QED BY <1>1, <2>1
<1>4. ActionOf(rec) = 2 => rec[8] \in Byte8
  <2>1. ActionOf(rec) = 2 => 8 \in 1 .. Len(rec)
    BY <1>1
  <2>2. QED BY <1>1, <2>1
<1>5. ZoneOf(rec) \in Byte8 \cup {None} /\ (ActionOf(rec) # 0 => ZoneOf(rec) \in Byte8)
  BY <1>3, Zenon DEF ZoneOf
<1>6. /\ ActionOf(rec) = 2 => ExtraOf(rec) \in Seq(Byte8) /\ Len(ExtraOf(rec)) = 1
      /\ ActionOf(rec) # 2 => ExtraOf(rec) \in Seq(Byte8) /\ ExtraOf(rec) = <<>>
  BY <1>4 DEF ExtraOf
<1>7. QED BY <1>1, <1>2, <1>5, <1>6

\* A plan that a record begins can be written.
LEMMA PlanTyped ==
    ASSUME SchedulesAssumption, NEW rec \in ReadRecords, NEW days \in (SUBSET (1 .. 7)) \ {{}}
    PROVE  PlanOn(days, rec) \in Writable
<1> DEFINE plan == PlanOn(days, rec)
<1>1. /\ TimeOf(rec) \in 0 .. 1439 /\ ActionOf(rec) \in 0 .. 2
      /\ ZoneOf(rec) \in Byte8 \cup {None} /\ ExtraOf(rec) \in Seq(Byte8)
      /\ ActionOf(rec) # 0 => ZoneOf(rec) \in Byte8
      /\ ActionOf(rec) = 2 => Len(ExtraOf(rec)) = 1
  BY RecordTyped
<1>2. \A z \in Byte8 : z \in Int /\ z # None
  <2>1. \A z \in Byte8 : z \in Int
    BY DEF Byte8
  <2>2. QED BY <2>1, Zenon DEF SchedulesAssumption
<1>3. ZoneOf(rec) \in Int \cup {None}
  <2>1. CASE ZoneOf(rec) = None BY <2>1
  <2>2. CASE ZoneOf(rec) \in Byte8 BY <1>2, <2>2
  <2>3. QED BY <1>1, <2>1, <2>2
<1>4. plan \in Entered
  BY <1>1, <1>3 DEF Entered, PlanOn
<1>5. ~Unwritable(plan)
  <2>1. plan.action = ActionOf(rec) /\ plan.zone = ZoneOf(rec) /\ plan.extra = ExtraOf(rec)
    BY DEF PlanOn
  <2> HIDE DEF plan
  <2>2. plan.action # 0 => plan.zone # None
    <3>1. ActionOf(rec) # 0 => ZoneOf(rec) \in Byte8
      BY <1>1
    <3>2. ActionOf(rec) # 0 => ZoneOf(rec) # None
      BY <1>2, <3>1
    <3>3. QED BY <2>1, <3>2
  <2>3. plan.action = 2 => Len(plan.extra) = 1
    BY <1>1, <2>1
  <2>4. QED BY <2>2, <2>3, Zenon DEF Unwritable
<1>6. QED BY <1>4, <1>5, Zenon DEF Writable

\* Of records with one key each is the record of its day of the plan of any other.
LEMMA SamePlan ==
    ASSUME NEW a \in ReadRecords, NEW b \in ReadRecords, PlanKey(a) = PlanKey(b), NEW days
    PROVE  b = Record(DayOf(b), PlanOn(days, a))
<1> DEFINE p == PlanOn({}, b)
           q == PlanOn(days, a)
<1>1. /\ ActionOf(a) = ActionOf(b) /\ TimeOf(a) = TimeOf(b)
      /\ ZoneOf(a) = ZoneOf(b) /\ ExtraOf(a) = ExtraOf(b)
  BY DEF PlanKey
<1>2. p.time = q.time /\ p.action = q.action /\ p.zone = q.zone /\ p.extra = q.extra
  BY <1>1 DEF PlanOn
<1>3. p.action \in 0 .. 2
  BY RecordTyped DEF PlanOn
<1> HIDE DEF p, q
<1>4. Record(DayOf(b), p) = Record(DayOf(b), q)
  BY <1>2, <1>3, SameRecord
<1>5. b = Record(DayOf(b), p)
  BY DEF ReadRecords, p
<1>6. QED BY <1>4, <1>5 DEF q

SameButDays(p, q) == p.time = q.time /\ p.action = q.action /\ p.zone = q.zone /\ p.extra = q.extra

\* What a plan that was read has besides: its zone is a byte, and no more is
\* kept than its action has.
AsRead(plan) ==
    /\ plan.zone \in Byte8 \cup {None}
    /\ plan.action = 0 => plan.zone = None
    /\ plan.action # 2 => plan.extra = <<>>

\* _decode_blob: its plans can be written, stand for the records and no other, and
\* no two of them agree in all but their days.
LEMMA PlansRecords ==
    ASSUME SchedulesAssumption, NEW records \in Seq(ReadRecords)
    PROVE  LET plans == PlansOf(records)
           IN  /\ plans \in Seq(Writable)
               /\ \A rec : rec \in ToSet(records) <=>
                      \E i \in DOMAIN plans : \E day \in plans[i].days : rec = Record(day, plans[i])
               /\ \A i, k \in DOMAIN plans :
                      SameButDays(plans[i], plans[k]) => i = k
               /\ \A i \in DOMAIN plans : AsRead(plans[i])
<1> DEFINE len == Len(records)
           Same(i) == {k \in DOMAIN records : PlanKey(records[k]) = PlanKey(records[i])}
           firsts == {i \in DOMAIN records : \A k \in Same(i) : i <= k}
           DaysAt(i) == {DayOf(records[k]) : k \in Same(i)}
           N == Cardinality(firsts)
           at(n) == NthOf(firsts, n)
           plans == [n \in 1 .. N |-> PlanOn(DaysAt(at(n)), records[at(n)])]
<1>1. len \in Nat /\ DOMAIN records = 1 .. len /\ \A i \in 1 .. len : records[i] \in ReadRecords
  OBVIOUS
<1>2. PlansOf(records) = plans
  <2>1. \A i \in DOMAIN records : Readable(records[i])
    BY <1>1 DEF ReadRecords
  <2>2. QED BY <2>1 DEF PlansOf
<1>3. firsts \in SUBSET (1 .. len)
  BY <1>1
<1>4. \A i, k \in 1 .. len : k \in Same(i) <=> PlanKey(records[k]) = PlanKey(records[i])
  BY <1>1
<1>5. \A i \in 1 .. len : Same(i) \in SUBSET (1 .. len) /\ i \in Same(i)
  BY <1>1
<1>6. \A i : i \in firsts <=> i \in 1 .. len /\ \A k \in Same(i) : i <= k
  BY <1>1
<1>7. \A i, day : day \in DaysAt(i) <=> \E k \in Same(i) : day = DayOf(records[k])
  OBVIOUS
<1> HIDE DEF Same, firsts, DaysAt
<1>8. N \in Nat
  BY <1>1, <1>3, Positions
<1>9. \A n \in 1 .. N : at(n) \in firsts /\ Cardinality({k \in firsts : k < at(n)}) = n - 1
  BY <1>1, <1>3, NthIsThere
<1>10. \A i \in firsts : \E n \in 1 .. N : at(n) = i
  BY <1>1, <1>3, NthIsAll
<1>11. \A n, m \in 1 .. N : at(n) = at(m) => n = m
  <2> SUFFICES ASSUME NEW n \in 1 .. N, NEW m \in 1 .. N, at(n) = at(m)
               PROVE  n = m
    OBVIOUS
  <2>1. n - 1 = m - 1
    BY <1>9
  <2> HIDE DEF N
  <2>2. QED BY <2>1, <1>8
<1> HIDE DEF at, N
<1>12. \A i \in firsts : DaysAt(i) \in (SUBSET (1 .. 7)) \ {{}}
  <2> SUFFICES ASSUME NEW i \in firsts PROVE DaysAt(i) \in (SUBSET (1 .. 7)) \ {{}}
    OBVIOUS
  <2>1. \A k \in Same(i) : DayOf(records[k]) \in 1 .. 7
    BY <1>1, <1>5, <1>6, RecordTyped
  <2>2. DayOf(records[i]) \in DaysAt(i)
    BY <1>5, <1>6, <1>7
  <2>3. \A day \in DaysAt(i) : day \in 1 .. 7
    <3> TAKE day \in DaysAt(i)
    <3>1. PICK k \in Same(i) : day = DayOf(records[k])
      BY <1>7
    <3>2. QED BY <2>1, <3>1
  <2>4. QED BY <2>2, <2>3, Zenon
<1>13. ASSUME NEW n \in 1 .. N PROVE plans[n] \in Writable
  <2>1. at(n) \in firsts /\ records[at(n)] \in ReadRecords
    BY <1>1, <1>6, <1>9
  <2>2. DaysAt(at(n)) \in (SUBSET (1 .. 7)) \ {{}}
    BY <1>12, <2>1
  <2>3. plans[n] = PlanOn(DaysAt(at(n)), records[at(n)])
    OBVIOUS
  <2> HIDE DEF plans
  <2>4. QED BY <2>1, <2>2, <2>3, PlanTyped
<1>14. plans \in Seq(Writable)
  BY <1>8, <1>13
<1>15. DOMAIN plans = 1 .. N /\ \A n \in 1 .. N :
          /\ plans[n].days = DaysAt(at(n)) /\ plans[n] = PlanOn(plans[n].days, records[at(n)])
          /\ plans[n].time = TimeOf(records[at(n)]) /\ plans[n].action = ActionOf(records[at(n)])
          /\ plans[n].zone = ZoneOf(records[at(n)]) /\ plans[n].extra = ExtraOf(records[at(n)])
  BY DEF PlanOn
<1> HIDE DEF plans
\* Every record has its key's first, which is the least position.
<1>16. \A k \in 1 .. len : \E n \in 1 .. N : k \in Same(at(n))
  <2> SUFFICES ASSUME NEW k \in 1 .. len PROVE \E n \in 1 .. N : k \in Same(at(n))
    OBVIOUS
  <2>1. Same(k) \in SUBSET (1 .. len) /\ Same(k) # {}
    BY <1>5
  <2>2. PICK i \in Same(k) : \A j \in Same(k) : i <= j
    <3>1. Min(Same(k)) \in Same(k) /\ \A j \in Same(k) : Min(Same(k)) <= j
      BY <1>1, <2>1, PositionsHaveEnds
    <3>2. QED BY <3>1
  <2>3. i \in 1 .. len /\ Same(i) = Same(k) /\ k \in Same(i)
    <3>1. i \in 1 .. len
      BY <2>1, <2>2
    <3>2. PlanKey(records[i]) = PlanKey(records[k])
      BY <1>4, <2>2, <3>1
    <3>3. \A j \in 1 .. len : j \in Same(i) <=> j \in Same(k)
      BY <1>4, <3>1, <3>2
    <3>4. Same(i) \in SUBSET (1 .. len)
      BY <1>5, <3>1
    <3>5. Same(i) = Same(k)
      BY <2>1, <3>3, <3>4, Zenon
    <3>6. QED BY <1>5, <3>1, <3>5
  <2>4. i \in firsts
    BY <1>6, <2>2, <2>3
  <2>5. QED BY <1>10, <2>3, <2>4
<1>17. ASSUME NEW n \in 1 .. N, NEW k \in Same(at(n))
       PROVE  records[k] = Record(DayOf(records[k]), plans[n])
  <2>1. at(n) \in 1 .. len /\ k \in 1 .. len
    BY <1>5, <1>6, <1>9
  <2>2. PlanKey(records[at(n)]) = PlanKey(records[k])
    BY <1>4, <2>1
  <2>3. records[k] = Record(DayOf(records[k]), PlanOn(plans[n].days, records[at(n)]))
    BY <1>1, <2>1, <2>2, SamePlan
  <2>4. QED BY <1>15, <2>3
<1>18. ASSUME NEW rec
       PROVE  rec \in ToSet(records) <=>
                  \E n \in DOMAIN plans : \E day \in plans[n].days : rec = Record(day, plans[n])
  <2>1. rec \in ToSet(records) <=> \E k \in 1 .. len : rec = records[k]
    BY <1>1 DEF ToSet
  <2>2. ASSUME NEW k \in 1 .. len, rec = records[k]
        PROVE  \E n \in DOMAIN plans : \E day \in plans[n].days : rec = Record(day, plans[n])
    <3>1. PICK n \in 1 .. N : k \in Same(at(n))
      BY <1>16
    <3>2. DayOf(records[k]) \in plans[n].days
      BY <1>7, <1>15, <3>1
    <3>3. QED BY <1>15, <1>17, <2>2, <3>1, <3>2
  <2>3. ASSUME NEW n \in DOMAIN plans, NEW day \in plans[n].days, rec = Record(day, plans[n])
        PROVE  \E k \in 1 .. len : rec = records[k]
    <3>1. PICK k \in Same(at(n)) : day = DayOf(records[k])
      BY <1>7, <1>15
    <3>2. k \in 1 .. len
      BY <1>5, <1>6, <1>9, <1>15
    <3>3. QED BY <1>15, <1>17, <2>3, <3>1, <3>2
  <2>4. QED BY <2>1, <2>2, <2>3
<1>19. \A i, k \in DOMAIN plans :
           SameButDays(plans[i], plans[k]) => i = k
  <2> TAKE n, m \in DOMAIN plans
  <2> HAVE SameButDays(plans[n], plans[m])
  <2>1. at(n) \in firsts /\ at(m) \in firsts /\ at(n) \in 1 .. len /\ at(m) \in 1 .. len
    BY <1>6, <1>9, <1>15
  <2>2. PlanKey(records[at(n)]) = PlanKey(records[at(m)])
    BY <1>15 DEF PlanKey, SameButDays
  <2>3. at(n) \in Same(at(m)) /\ at(m) \in Same(at(n))
    BY <1>4, <2>1, <2>2
  <2>4. at(n) <= at(m) /\ at(m) <= at(n)
    BY <1>6, <2>1, <2>3
  <2>5. at(n) = at(m)
    BY <2>1, <2>4
  <2>6. QED BY <1>11, <1>15, <2>5
<1>20. \A n \in DOMAIN plans : AsRead(plans[n])
  <2> TAKE n \in DOMAIN plans
  <2>1. n \in 1 .. N /\ records[at(n)] \in ReadRecords
    BY <1>1, <1>6, <1>9, <1>15
  <2>2. /\ ZoneOf(records[at(n)]) \in Byte8 \cup {None}
        /\ ActionOf(records[at(n)]) # 2 => ExtraOf(records[at(n)]) = <<>>
    BY <2>1, RecordTyped
  <2>3. ActionOf(records[at(n)]) = 0 => ZoneOf(records[at(n)]) = None
    BY DEF ZoneOf
  <2>4. QED BY <1>15, <2>1, <2>2, <2>3, Zenon DEF AsRead
<1>22. \A rec : rec \in ToSet(records) <=>
           \E i \in DOMAIN plans : \E day \in plans[i].days : rec = Record(day, plans[i])
  BY <1>18
<1> DEFINE made == PlansOf(records)
<1>23. made = plans
  BY <1>2
<1> HIDE DEF made
<1>24. made \in Seq(Writable) /\ \A i \in DOMAIN made : AsRead(made[i])
  BY <1>14, <1>20, <1>23
<1>25. \A i, k \in DOMAIN made :
           SameButDays(made[i], made[k]) => i = k
  BY <1>19, <1>23
<1>26. \A rec : rec \in ToSet(records) <=>
             \E i \in DOMAIN made : \E day \in made[i].days : rec = Record(day, made[i])
  BY <1>22, <1>23
<1>27. QED BY <1>24, <1>25, <1>26 DEF made

-----------------------------------------------------------------------------
(***************************************************************************)
(* Texts and slots.                                                        *)
(***************************************************************************)
GoodTexts == {text \in Texts : Lawful(text)}
Chunks == [text : GoodTexts, part : Nat]
Slots == [id : Int, mode : Int, name : Seq(Letters), plans : Seq(Writable)]
Numbered(slots) == \A i, k \in DOMAIN slots : slots[i].id = slots[k].id => i = k

SchedulesInv ==
    /\ wire \in Seq(Chunks)
    /\ schedule.version \in Int /\ schedule.slots \in Seq(Slots) /\ Numbered(schedule.slots)

\* What of a text its parser and the encoder agree on.
LEMMA TextTyped ==
    ASSUME NEW text \in GoodTexts
    PROVE  /\ text.v \in Int /\ text.entries \in Seq(Entries)
           /\ \A i \in DOMAIN text.entries :
                 LET entry == text.entries[i]
                 IN  /\ entry.id \in Int \cup {None} /\ entry.mode \in Int \cup {None}
                     /\ entry.name \in Seq(Letters) /\ Amp \notin ToSet(entry.name)
                     /\ entry.blob \in Seq(Seq(Byte8))
                     /\ \A rec \in ToSet(entry.blob) : Readable(rec) => rec \in ReadRecords
                     /\ \A k \in DOMAIN text.entries :
                           entry.id # None /\ entry.id = text.entries[k].id => i = k
<1>1. text.v \in Int /\ text.entries \in Seq(Entries) /\ Lawful(text)
  BY DEF GoodTexts, Texts
<1>2. SUFFICES ASSUME NEW i \in DOMAIN text.entries, NEW entry, entry = text.entries[i]
               PROVE  /\ entry.id \in Int \cup {None} /\ entry.mode \in Int \cup {None}
                      /\ entry.name \in Seq(Letters) /\ Amp \notin ToSet(entry.name)
                      /\ entry.blob \in Seq(Seq(Byte8))
                      /\ \A rec \in ToSet(entry.blob) : Readable(rec) => rec \in ReadRecords
                      /\ \A k \in DOMAIN text.entries :
                            entry.id # None /\ entry.id = text.entries[k].id => i = k
  BY <1>1
<1>3. entry \in Entries
  BY <1>1, <1>2
<1>4. /\ entry.id \in Int \cup {None} /\ entry.mode \in Int \cup {None}
      /\ entry.name \in Seq(Letters) /\ entry.blob \in Seq(Seq(Byte8))
  BY <1>3 DEF Entries
<1>5. /\ Amp \notin ToSet(entry.name)
      /\ \A rec \in ToSet(entry.blob) : Readable(rec) => rec = Record(DayOf(rec), PlanOn({}, rec))
      /\ \A k \in DOMAIN text.entries : entry.id # None /\ entry.id = text.entries[k].id => i = k
  BY <1>1, <1>2, Zenon DEF Lawful
<1>6. \A rec \in ToSet(entry.blob) : rec \in Seq(Byte8)
  BY <1>4 DEF ToSet
<1>7. \A rec \in ToSet(entry.blob) : Readable(rec) => rec \in ReadRecords
  BY <1>5, <1>6, Zenon DEF ReadRecords
<1>8. QED BY <1>4, <1>5, <1>7

\* A list is one of whatever all its elements are.
LEMMA RetypedList ==
    ASSUME NEW S, NEW T, NEW list \in Seq(S), \A i \in DOMAIN list : list[i] \in T
    PROVE  list \in Seq(T)
<1>1. Len(list) \in Nat /\ DOMAIN list = 1 .. Len(list) /\ list = [i \in 1 .. Len(list) |-> list[i]]
  OBVIOUS
<1>2. QED BY <1>1

\* The plans of a slot can be written, whatever is in its blob.
LEMMA PlansWritable ==
    ASSUME SchedulesAssumption, NEW blob \in Seq(Seq(Byte8)),
           \A rec \in ToSet(blob) : Readable(rec) => rec \in ReadRecords
    PROVE  PlansOf(blob) \in Seq(Writable)
<1>1. CASE \E i \in DOMAIN blob : ~Readable(blob[i])
  <2>1. PlansOf(blob) = <<>>
    BY <1>1 DEF PlansOf
  <2>2. QED BY <2>1
<1>2. CASE \A i \in DOMAIN blob : Readable(blob[i])
  <2>1. \A i \in DOMAIN blob : blob[i] \in ReadRecords
    BY <1>2 DEF ToSet
  <2>2. blob \in Seq(ReadRecords)
    BY <2>1, RetypedList, Zenon
  <2>3. QED BY <2>2, PlansRecords
<1>3. QED BY <1>1, <1>2

\* A list all of which is chosen is kept as it is.
LEMMA FilteredAll ==
    ASSUME NEW S, NEW rows0 \in Seq(S), NEW chosen, \A i \in DOMAIN rows0 : rows0[i] \in chosen
    PROVE  Filtered(rows0, chosen) = rows0
<1> DEFINE len == Len(rows0)
<1>1. len \in Nat /\ DOMAIN rows0 = 1 .. len /\ rows0 = [n \in 1 .. len |-> rows0[n]]
  OBVIOUS
<1>2. KeptAt(rows0, chosen) = 1 .. len
  BY <1>1 DEF KeptAt
<1> HIDE DEF len
<1>3. Cardinality(1 .. len) = len
  <2>1. 1 \in Int /\ len \in Int
    BY <1>1
  <2>2. Cardinality(1 .. len) = IF 1 > len THEN 0 ELSE len - 1 + 1
    BY <2>1, FS_Interval
  <2>3. QED BY <1>1, <2>2
<1>4. ASSUME NEW n \in 1 .. len PROVE NthOf(1 .. len, n) = n
  <2> DEFINE x == NthOf(1 .. len, n)
  <2>1. x \in 1 .. len /\ Cardinality({k \in 1 .. len : k < x}) = n - 1
    BY <1>1, <1>3, NthIsThere
  <2> HIDE DEF x
  <2>2. {k \in 1 .. len : k < x} = 1 .. x - 1
    BY <1>1, <2>1
  <2>3. Cardinality(1 .. x - 1) = x - 1
    <3>1. 1 \in Int /\ x \in Int /\ 1 <= x
      BY <2>1
    <3>2. QED BY <3>1, SizeOfInterval
  <2>4. x - 1 = n - 1
    BY <2>1, <2>2, <2>3
  <2>5. x = n
    BY <1>1, <2>1, <2>4
  <2>6. QED BY <2>5 DEF x
<1>5. Filtered(rows0, chosen) = [n \in 1 .. len |-> rows0[NthOf(1 .. len, n)]]
  BY <1>2, <1>3 DEF Filtered
<1>6. QED BY <1>1, <1>4, <1>5

\* An entry with an id, as a slot.
SlotOf(entry) ==
    [id |-> entry.id, mode |-> Or(entry.mode, 0), name |-> Unescaped(entry.name), plans |-> PlansOf(entry.blob)]

LEMMA SlotTyped ==
    ASSUME SchedulesAssumption, NEW text \in GoodTexts, NEW i \in DOMAIN text.entries,
           text.entries[i].id # None
    PROVE  SlotOf(text.entries[i]) \in Slots
<1> DEFINE entry == text.entries[i]
<1>1. /\ entry.id \in Int \cup {None} /\ entry.mode \in Int \cup {None}
      /\ entry.name \in Seq(Letters) /\ entry.blob \in Seq(Seq(Byte8))
      /\ \A rec \in ToSet(entry.blob) : Readable(rec) => rec \in ReadRecords
  BY TextTyped
<1>2. entry.id # None
  OBVIOUS
<1> HIDE DEF entry
<1>3. entry.id \in Int /\ Or(entry.mode, 0) \in Int
  BY <1>1, <1>2 DEF Or
<1>4. Unescaped(entry.name) \in Seq(Letters)
  <2>1. /\ Len(entry.name) \in Nat /\ DOMAIN entry.name = 1 .. Len(entry.name)
        /\ \A n \in 1 .. Len(entry.name) : entry.name[n] \in Letters
    BY <1>1
  <2>2. Amp \in Letters
    BY DEF SchedulesAssumption
  <2>3. QED BY <2>1, <2>2 DEF Unescaped
<1>5. PlansOf(entry.blob) \in Seq(Writable)
  BY <1>1, PlansWritable
<1>6. SlotOf(entry) \in Slots
  BY <1>3, <1>4, <1>5 DEF SlotOf, Slots
<1>7. QED BY <1>6 DEF entry

LEMMA ParsedIsGood ==
    ASSUME SchedulesAssumption, NEW text \in GoodTexts
    PROVE  LET parsed == ParseSchedule(text)
           IN  parsed.version \in Int /\ parsed.slots \in Seq(Slots) /\ Numbered(parsed.slots)
<1> DEFINE entries == text.entries
           chosen == {entry \in ToSet(entries) : entry.id # None}
           kept == Filtered(entries, chosen)
           at(n) == NthOf(KeptAt(entries, chosen), n)
           slots == [n \in DOMAIN kept |-> SlotOf(kept[n])]
<1>1. entries \in Seq(Entries) /\ text.v \in Int
  BY TextTyped
<1>2. ParseSchedule(text) = [version |-> text.v, slots |-> slots]
  BY DEF ParseSchedule, SlotOf
<1>4. \A e \in chosen : e.id # None
  OBVIOUS
<1> HIDE DEF chosen, entries
<1>5. /\ kept \in Seq(Entries)
      /\ \A n \in DOMAIN kept : at(n) \in DOMAIN entries /\ entries[at(n)] \in chosen /\ kept[n] = entries[at(n)]
      /\ \A n, m \in DOMAIN kept : at(n) = at(m) => n = m
  BY <1>1, FilteredRows
<1> USE DEF entries
<1> HIDE DEF kept, at
<1>3. \A n \in DOMAIN kept : kept[n].id # None /\ SlotOf(kept[n]) \in Slots
  BY <1>5, <1>4, SlotTyped
<1>6. Len(kept) \in Nat /\ DOMAIN kept = 1 .. Len(kept)
  BY <1>5
<1>7. slots \in Seq(Slots)
  BY <1>3, <1>6
<1>8. Numbered(slots)
  <2>1. SUFFICES ASSUME NEW n \in DOMAIN kept, NEW m \in DOMAIN kept, slots[n].id = slots[m].id
                 PROVE  n = m
    BY DEF Numbered
  <2>2. kept[n].id = kept[m].id
    BY <2>1 DEF SlotOf
  <2>3. at(n) = at(m)
    BY <1>3, <1>5, <2>2, TextTyped
  <2>4. QED BY <1>5, <2>3
<1> HIDE DEF slots
<1>9. QED BY <1>1, <1>2, <1>7, <1>8

\* Where all entries have ids, no slot is left out.
LEMMA ParsedWhole ==
    ASSUME NEW text \in GoodTexts, \A i \in DOMAIN text.entries : text.entries[i].id # None
    PROVE  ParseSchedule(text) = [version |-> text.v,
                                  slots |-> [i \in DOMAIN text.entries |-> SlotOf(text.entries[i])]]
<1> DEFINE entries == text.entries
           chosen == {entry \in ToSet(entries) : entry.id # None}
<1>1. entries \in Seq(Entries)
  BY TextTyped
<1>2. \A i \in DOMAIN entries : entries[i] \in chosen
  BY DEF ToSet
<1> HIDE DEF chosen
<1>3. Filtered(entries, chosen) = entries
  BY <1>1, <1>2, FilteredAll
<1>4. QED BY <1>3 DEF ParseSchedule, SlotOf, chosen

\* What the encoder writes of slots.
LEMMA TextIsGood ==
    ASSUME SchedulesAssumption, NEW slots \in Seq(Slots), Numbered(slots), NEW version \in Int
    PROVE  TextOf(slots, version) \in GoodTexts
<1> DEFINE Name(name) == [n \in DOMAIN name |-> IF name[n] = Amp THEN Escaped ELSE name[n]]
           Line(slot) == [id |-> slot.id, mode |-> slot.mode, name |-> Name(slot.name), blob |-> BlobOf(slot.plans)]
           entries == [i \in DOMAIN slots |-> Line(slots[i])]
           text == TextOf(slots, version)
<1>1. text = [v |-> version, entries |-> entries]
  BY DEF TextOf
<1>2. /\ Len(slots) \in Nat /\ DOMAIN slots = 1 .. Len(slots)
      /\ \A i \in 1 .. Len(slots) : slots[i] \in Slots
  OBVIOUS
<1>3. ASSUME NEW slot \in Slots
      PROVE  /\ Line(slot) \in Entries /\ Amp \notin ToSet(Line(slot).name) /\ Line(slot).id = slot.id
             /\ \A rec \in ToSet(Line(slot).blob) : Readable(rec) => rec = Record(DayOf(rec), PlanOn({}, rec))
             /\ slot.id \in Int
  <2>1. slot.id \in Int /\ slot.mode \in Int /\ slot.name \in Seq(Letters) /\ slot.plans \in Seq(Writable)
    BY DEF Slots
  <2>2. Name(slot.name) \in Seq(Letters) /\ Amp \notin ToSet(Name(slot.name))
    <3>1. /\ Len(slot.name) \in Nat /\ DOMAIN slot.name = 1 .. Len(slot.name)
          /\ \A n \in 1 .. Len(slot.name) : slot.name[n] \in Letters
      BY <2>1
    <3>2. Escaped \in Letters /\ Escaped # Amp
      BY DEF SchedulesAssumption
    <3>3. Name(slot.name) \in Seq(Letters)
      BY <3>1, <3>2
    <3>4. \A n \in DOMAIN Name(slot.name) : Name(slot.name)[n] # Amp
      BY <3>2
    <3> HIDE DEF Name
    <3>5. QED BY <3>3, <3>4 DEF ToSet
  <2>3. BlobOf(slot.plans) \in Seq(Seq(Byte8))
    BY <2>1, BlobRecords
  <2>4. \A rec \in ToSet(BlobOf(slot.plans)) : rec = Record(DayOf(rec), PlanOn({}, rec))
    <3> TAKE rec \in ToSet(BlobOf(slot.plans))
    <3>1. PICK i \in DOMAIN slot.plans : \E day \in slot.plans[i].days : rec = Record(day, slot.plans[i])
      BY <2>1, BlobRecords
    <3>2. PICK day \in slot.plans[i].days : rec = Record(day, slot.plans[i])
      BY <3>1
    <3>3. slot.plans[i] \in Writable
      BY <2>1
    <3>4. GoodPlan(slot.plans[i])
      BY <3>3, WritableIsGood
    <3>5. day \in 1 .. 7
      <4>1. slot.plans[i].days \in (SUBSET (1 .. 7)) \ {{}}
        BY <3>3 DEF Writable, Entered
      <4>2. QED BY <3>2, <4>1, Zenon
    <3>6. QED BY <3>2, <3>4, <3>5, RecordIsLawful
  <2> HIDE DEF Name
  <2>5. Line(slot) \in Entries
    BY <2>1, <2>2, <2>3 DEF Entries
  <2>6. QED BY <2>1, <2>2, <2>4, <2>5
<1> HIDE DEF Line
<1>4. entries \in Seq(Entries) /\ DOMAIN entries = DOMAIN slots
  BY <1>2, <1>3
<1>5. text \in Texts
  BY <1>1, <1>4 DEF Texts
<1>6. Lawful(text)
  <2>1. SUFFICES ASSUME NEW i \in DOMAIN entries
                 PROVE  /\ \A k \in DOMAIN entries : entries[i].id # None /\ entries[i].id = entries[k].id => i = k
                        /\ Amp \notin ToSet(entries[i].name)
                        /\ \A rec \in ToSet(entries[i].blob) :
                              Readable(rec) => rec = Record(DayOf(rec), PlanOn({}, rec))
    BY <1>1 DEF Lawful
  <2>2. entries[i] = Line(slots[i]) /\ slots[i] \in Slots
    BY <1>2, <1>4
  <2>3. \A k \in DOMAIN entries : entries[i].id = entries[k].id => i = k
    <3> TAKE k \in DOMAIN entries
    <3> HAVE entries[i].id = entries[k].id
    <3>1. entries[k] = Line(slots[k]) /\ slots[k] \in Slots /\ i \in DOMAIN slots /\ k \in DOMAIN slots
      BY <1>2, <1>4
    <3>2. slots[i].id = slots[k].id
      BY <1>3, <2>2, <3>1
    <3>3. QED BY <3>1, <3>2 DEF Numbered
  <2>4. QED BY <1>3, <2>2, <2>3
<1>7. QED BY <1>5, <1>6 DEF GoodTexts

-----------------------------------------------------------------------------
(***************************************************************************)
(* Chunks and writes.                                                      *)
(***************************************************************************)
LEMMA ChunksCounted ==
    ASSUME SchedulesAssumption, NEW text \in GoodTexts
    PROVE  ChunksOf(text) \in Nat \ {0}
<1> DEFINE entries == text.entries
           lens == [i \in DOMAIN entries |-> Len(entries[i].blob)]
           records == SumFunctionOnSet(lens, DOMAIN entries)
<1>1. /\ Len(entries) \in Nat /\ DOMAIN entries = 1 .. Len(entries)
      /\ \A i \in DOMAIN entries : entries[i].blob \in Seq(Seq(Byte8))
  BY TextTyped
<1>2. IsFiniteSet(DOMAIN entries)
  <2>1. \A n \in Nat : IsFiniteSet(1 .. n)
    BY FS_Interval
  <2>2. QED BY <1>1, <2>1
<1>3. \A i \in DOMAIN entries : lens[i] \in Nat
  BY <1>1
<1>4. records \in Nat
  <2> HIDE DEF lens, entries
  <2>1. QED BY <1>2, <1>3, SumOfNaturals
<1>5. ChunksOf(text) = Max({1, (records + ChunkRecords - 1) \div ChunkRecords})
  BY DEF ChunksOf
<1>6. ChunkRecords \in Nat \ {0}
  BY DEF SchedulesAssumption
<1> HIDE DEF records
<1> DEFINE n == (records + ChunkRecords - 1) \div ChunkRecords
<1>7. n \in Int
  <2>1. \A a \in Int, b \in Nat \ {0} : a \div b \in Int
    BY SMT
  <2>2. records + ChunkRecords - 1 \in Int
    BY <1>4, <1>6
  <2>3. QED BY <1>6, <2>1, <2>2
<1> HIDE DEF n
<1>8. Max({1, n}) = IF 1 >= n THEN 1 ELSE n
  BY <1>7, GreaterOfTwo
<1>9. QED BY <1>5, <1>7, <1>8 DEF n

LEMMA CutIsGood ==
    ASSUME SchedulesAssumption, NEW text \in GoodTexts
    PROVE  /\ Cut(text) \in Seq(Chunks) /\ Len(Cut(text)) = ChunksOf(text)
           /\ Len(Cut(text)) \in Nat \ {0} /\ Cut(text)[1].text = text
<1>1. ChunksOf(text) \in Nat \ {0}
  BY ChunksCounted
<1> DEFINE n == ChunksOf(text)
<1>2. Cut(text) = [k \in 1 .. n |-> [text |-> text, part |-> k]]
  BY DEF Cut
<1> HIDE DEF n
<1>3. n \in Nat \ {0}
  BY <1>1 DEF n
<1>4. \A k \in 1 .. n : [text |-> text, part |-> k] \in Chunks
  BY <1>3 DEF Chunks
<1>5. Cut(text) \in Seq(Chunks) /\ Len(Cut(text)) = n
  BY <1>2, <1>3, <1>4
<1>6. Cut(text)[1] = [text |-> text, part |-> 1]
  BY <1>2, <1>3
<1>7. QED BY <1>3, <1>5, <1>6 DEF n

\* write_chunked_key: the first chunk is the text's, and if there are enough of them
\* they are all there is.
LEMMA OverwrittenIsGood ==
    ASSUME SchedulesAssumption, SchedulesInv, NEW text \in GoodTexts
    PROVE  /\ Overwritten(text) \in Seq(Chunks) /\ Overwritten(text) # <<>>
           /\ Overwritten(text)[1].text = text
           /\ ChunksOf(text) >= Len(wire) => Overwritten(text) = Cut(text)
<1> DEFINE n == ChunksOf(text)
           cut == Cut(text)
           more == SubSeq(wire, n + 1, Len(wire))
<1>1. cut \in Seq(Chunks) /\ Len(cut) = n /\ n \in Nat \ {0} /\ cut[1].text = text
  BY CutIsGood, ChunksCounted
<1>2. wire \in Seq(Chunks) /\ Len(wire) \in Nat
  BY DEF SchedulesInv
<1>3. Overwritten(text) = cut \o more
  BY DEF Overwritten
<1>4. more \in Seq(Chunks)
  <2>1. \A i \in n + 1 .. Len(wire) : wire[i] \in Chunks
    BY <1>1, <1>2
  <2>2. n + 1 \in Int /\ Len(wire) \in Int
    BY <1>1, <1>2
  <2>3. QED BY <2>1, <2>2, SubSeqProperties
<1>5. n >= Len(wire) => more = <<>>
  <2>1. n + 1 \in Int /\ Len(wire) \in Int /\ (n >= Len(wire) => Len(wire) < n + 1)
    BY <1>1, <1>2
  <2>2. QED BY <2>1, SubSeqEmpty
<1> HIDE DEF n, cut, more
<1>6. cut \o more \in Seq(Chunks) /\ Len(cut \o more) = n + Len(more) /\ Len(more) \in Nat
  BY <1>1, <1>4
<1>7. (cut \o more)[1] = cut[1]
  BY <1>1, <1>4
<1>8. cut \o <<>> = cut
  BY <1>1
<1>9. cut \o more # <<>>
  BY <1>1, <1>6
<1>10. QED BY <1>1, <1>3, <1>5, <1>6, <1>7, <1>8, <1>9 DEF n, cut

LEMMA ReadIsGood ==
    ASSUME SchedulesAssumption, NEW chunks \in Seq(Chunks)
    PROVE  LET read == ReadSchedule(chunks)
           IN  read.version \in Int /\ read.slots \in Seq(Slots) /\ Numbered(read.slots)
<1>1. CASE Whole(chunks)
  <2>1. chunks[1] \in Chunks
    BY <1>1 DEF Whole
  <2>2. chunks[1].text \in GoodTexts
    BY <2>1 DEF Chunks
  <2>3. ReadSchedule(chunks) = ParseSchedule(chunks[1].text)
    BY <1>1 DEF ReadSchedule
  <2>4. QED BY <2>2, <2>3, ParsedIsGood
<1>2. CASE ~Whole(chunks)
  <2>1. ReadSchedule(chunks) = [version |-> 0, slots |-> <<>>]
    BY <1>2 DEF ReadSchedule, NoSchedule
  <2>2. <<>> \in Seq(Slots) /\ Numbered(<<>>)
    BY DEF Numbered
  <2>3. QED BY <2>1, <2>2
<1>3. QED BY <1>1, <1>2

-----------------------------------------------------------------------------
(***************************************************************************)
(* The service.                                                            *)
(***************************************************************************)
\* Plans none of which is refused can be written.
LEMMA NoneRefused ==
    ASSUME NEW plans \in Seq(Entered), \A i \in DOMAIN plans : ~Unwritable(plans[i])
    PROVE  plans \in Seq(Writable)
<1>1. \A i \in DOMAIN plans : plans[i] \in Writable
  BY DEF Writable
<1>2. QED BY <1>1, RetypedList, Zenon

\* A slot that has got new plans.
LEMMA SlotReplaced ==
    ASSUME NEW slot \in Slots, NEW plans \in Seq(Writable)
    PROVE  [slot EXCEPT !.plans = plans] \in Slots
  BY DEF Slots

LEMMA ReplacedIsGood ==
    ASSUME SchedulesAssumption, SchedulesInv, NEW id \in Int, NEW plans \in Seq(Writable)
    PROVE  Replaced(id, plans) \in Seq(Slots) /\ Numbered(Replaced(id, plans))
<1> DEFINE slots == schedule.slots
           New(slot) == IF slot.id = id THEN [slot EXCEPT !.plans = plans] ELSE slot
           changed == [i \in DOMAIN slots |-> New(slots[i])]
           added == [id |-> id, name |-> <<>>, plans |-> plans, mode |-> IF plans = <<>> THEN 0 ELSE 1]
<1>1. /\ slots \in Seq(Slots) /\ Numbered(slots)
      /\ Len(slots) \in Nat /\ DOMAIN slots = 1 .. Len(slots) /\ \A i \in 1 .. Len(slots) : slots[i] \in Slots
  BY DEF SchedulesInv
<1>2. ASSUME NEW slot \in Slots PROVE New(slot) \in Slots /\ New(slot).id = slot.id
  <2>1. [slot EXCEPT !.plans = plans] \in Slots
    BY SlotReplaced
  <2>2. [slot EXCEPT !.plans = plans].id = slot.id
    BY DEF Slots
  <2>3. QED BY <2>1, <2>2
<1>3. CASE \E i \in DOMAIN slots : slots[i].id = id
  <2>1. Replaced(id, plans) = changed
    BY <1>3 DEF Replaced
  <2>2. \A i \in 1 .. Len(slots) : New(slots[i]) \in Slots /\ New(slots[i]).id = slots[i].id
    BY <1>1, <1>2
  <2> HIDE DEF New, slots
  <2>3. changed \in Seq(Slots) /\ DOMAIN changed = DOMAIN slots
    BY <1>1, <2>2
  <2>4. Numbered(changed)
    BY <1>1, <2>2 DEF Numbered
  <2>5. QED BY <2>1, <2>3, <2>4
<1>4. CASE \A i \in DOMAIN slots : slots[i].id # id
  <2>1. Replaced(id, plans) = Append(slots, added)
    BY <1>4 DEF Replaced
  <2>2. added \in Slots /\ added.id = id
    <3>1. <<>> \in Seq(Letters)
      OBVIOUS
    <3>2. QED BY <3>1 DEF Slots
  <2> HIDE DEF added, slots
  <2> DEFINE more == Append(slots, added)
  <2>3. /\ more \in Seq(Slots) /\ DOMAIN more = 1 .. Len(slots) + 1
        /\ more[Len(slots) + 1] = added /\ \A i \in 1 .. Len(slots) : more[i] = slots[i]
    BY <1>1, <2>2
  <2> HIDE DEF more
  <2>4. Numbered(more)
    <3>1. SUFFICES ASSUME NEW i \in DOMAIN more, NEW k \in DOMAIN more, more[i].id = more[k].id
                   PROVE  i = k
      BY DEF Numbered
    <3>2. CASE i \in 1 .. Len(slots) /\ k \in 1 .. Len(slots)
      <4>1. slots[i].id = slots[k].id
        BY <2>3, <3>1, <3>2
      <4>2. QED BY <1>1, <3>2, <4>1 DEF Numbered
    <3>3. CASE i \in 1 .. Len(slots) /\ k = Len(slots) + 1
      BY <1>1, <1>4, <2>2, <2>3, <3>1, <3>3
    <3>4. CASE k \in 1 .. Len(slots) /\ i = Len(slots) + 1
      BY <1>1, <1>4, <2>2, <2>3, <3>1, <3>4
    <3>5. CASE i = Len(slots) + 1 /\ k = Len(slots) + 1
      BY <3>5
    <3>6. QED BY <1>1, <2>3, <3>2, <3>3, <3>4, <3>5
  <2>5. QED BY <2>1, <2>3, <2>4 DEF more
<1>5. QED BY <1>3, <1>4

\* _handle_set_schedule_plans: what it writes, if it writes at all.
LEMMA WriteIsGood ==
    ASSUME SchedulesAssumption, SchedulesInv, NEW id \in Int, NEW plans \in Seq(Entered),
           SetSchedulePlans(id, plans), wire' # wire
    PROVE  LET text == TextOf(Replaced(id, plans), schedule.version + 1)
           IN  plans \in Seq(Writable) /\ text \in GoodTexts /\ wire' = Overwritten(text)
<1>1. ~\E i \in DOMAIN plans : Unwritable(plans[i])
  BY DEF SetSchedulePlans
<1>2. plans \in Seq(Writable)
  BY <1>1, NoneRefused
<1>3. wire' = Overwritten(TextOf(Replaced(id, plans), schedule.version + 1))
  BY <1>1 DEF SetSchedulePlans
<1>4. Replaced(id, plans) \in Seq(Slots) /\ Numbered(Replaced(id, plans))
  BY <1>2, ReplacedIsGood
<1>5. schedule.version + 1 \in Int
  BY DEF SchedulesInv
<1>6. QED BY <1>2, <1>3, <1>4, <1>5, TextIsGood

LEMMA SetKeepsInv ==
    ASSUME SchedulesAssumption, SchedulesInv, NEW id \in Int, NEW plans \in Seq(Entered),
           SetSchedulePlans(id, plans)
    PROVE  SchedulesInv'
<1>1. wire' \in Seq(Chunks)
  <2>1. CASE wire' = wire
    BY <2>1 DEF SchedulesInv
  <2>2. CASE wire' # wire
    BY <2>2, WriteIsGood, OverwrittenIsGood
  <2>3. QED BY <2>1, <2>2
<1>2. schedule' \in {schedule, ReadSchedule(wire')}
  BY DEF SetSchedulePlans
<1>3. CASE schedule' = schedule
  BY <1>1, <1>3 DEF SchedulesInv
<1>4. CASE schedule' = ReadSchedule(wire')
  BY <1>1, <1>4, ReadIsGood DEF SchedulesInv
<1>5. QED BY <1>2, <1>3, <1>4

-----------------------------------------------------------------------------
(***************************************************************************)
(* The card.                                                               *)
(***************************************************************************)
\* A plan as the card has it, without its extra bytes.
Shown(plan) == [plan EXCEPT !.extra = <<>>]

LEMMA ShownTyped ==
    ASSUME NEW plan \in Writable
    PROVE  /\ Shown(plan) \in Entered /\ MowsOf(Shown(plan)) = MowsOf(plan)
           /\ Shown(plan).action = plan.action /\ Shown(plan).zone = plan.zone
           /\ plan.action = 2 => Unwritable(Shown(plan))
<1>1. plan \in Entered
  BY DEF Writable
<1>2. /\ Shown(plan).time = plan.time /\ Shown(plan).days = plan.days /\ Shown(plan).action = plan.action
      /\ Shown(plan).zone = plan.zone /\ Shown(plan).extra = <<>>
  BY <1>1 DEF Shown, Entered
<1>3. Shown(plan) \in Entered
  <2> DEFINE times == 0 .. 1439
             days == (SUBSET (1 .. 7)) \ {{}}
             actions == 0 .. 2
             zones == Int \cup {None}
  <2>1. Entered = [time : times, days : days, action : actions, zone : zones, extra : Seq(Byte8)]
    BY DEF Entered
  <2> HIDE DEF times, days, actions, zones
  <2>2. <<>> \in Seq(Byte8)
    OBVIOUS
  <2>3. QED BY <1>1, <2>1, <2>2 DEF Shown
<1>4. MowsOf(Shown(plan)) = MowsOf(plan)
  BY <1>2 DEF MowsOf
<1>5. plan.action = 2 => Unwritable(Shown(plan))
  BY <1>2 DEF Unwritable
<1>6. QED BY <1>2, <1>3, <1>4, <1>5

LEMMA PlansShownTyped ==
    ASSUME SchedulesInv, NEW s \in DOMAIN schedule.slots
    PROVE  LET plans == schedule.slots[s].plans
           IN  /\ plans \in Seq(Writable) /\ Len(plans) \in Nat /\ DOMAIN plans = 1 .. Len(plans)
               /\ PlansShown(s) \in Seq(Entered) /\ Len(PlansShown(s)) = Len(plans)
               /\ \A i \in 1 .. Len(plans) : PlansShown(s)[i] = Shown(plans[i])
               /\ schedule.slots[s].id \in Int
<1> DEFINE slot == schedule.slots[s]
           plans == slot.plans
<1>1. slot \in Slots
  BY DEF SchedulesInv
<1>2. slot.id \in Int /\ plans \in Seq(Writable)
  BY <1>1 DEF Slots
<1>3. PlansShown(s) = [i \in DOMAIN plans |-> Shown(plans[i])]
  BY DEF PlansShown, Shown
<1> HIDE DEF slot, plans
<1>4. /\ Len(plans) \in Nat /\ DOMAIN plans = 1 .. Len(plans)
      /\ \A i \in 1 .. Len(plans) : plans[i] \in Writable
  BY <1>2
<1>5. \A i \in 1 .. Len(plans) : Shown(plans[i]) \in Entered
  BY <1>4, ShownTyped
<1>6. QED BY <1>2, <1>3, <1>4, <1>5 DEF slot, plans

\* The plans that are sent when one has been edited, added or deleted.
LEMMA EditedTyped ==
    ASSUME NEW plans \in Seq(Entered), NEW plan \in Entered, NEW at
    PROVE  /\ Append(plans, plan) \in Seq(Entered)
           /\ [i \in DOMAIN plans |-> IF i = at THEN plan ELSE plans[i]] \in Seq(Entered)
<1>1. /\ Len(plans) \in Nat /\ DOMAIN plans = 1 .. Len(plans)
      /\ \A i \in 1 .. Len(plans) : plans[i] \in Entered
  OBVIOUS
<1>2. QED BY <1>1

LEMMA RemovedAt ==
    ASSUME NEW S, NEW list \in Seq(S), NEW i \in 1 .. Len(list)
    PROVE  LET less == RemoveAt(list, i)
           IN  /\ less \in Seq(S) /\ DOMAIN less = 1 .. Len(list) - 1
               /\ \A k \in 1 .. Len(list) - 1 : less[k] = IF k < i THEN list[k] ELSE list[k + 1]
<1> DEFINE n == Len(list)
           a == SubSeq(list, 1, i - 1)
           b == SubSeq(list, i + 1, n)
<1>1. n \in Nat /\ i \in 1 .. n /\ \A k \in 1 .. n : list[k] \in S
  OBVIOUS
<1> HIDE DEF n
<1>2. 1 \in Int /\ i - 1 \in Int /\ i + 1 \in Int /\ n \in Int
  BY <1>1
<1>3. a \in Seq(S) /\ Len(a) = i - 1 /\ \A k \in 1 .. i - 1 : a[k] = list[k]
  <2>1. \A k \in 1 .. i - 1 : list[k] \in S
    BY <1>1
  <2>2. /\ a \in Seq(S) /\ Len(a) = IF 1 <= i - 1 THEN i - 1 - 1 + 1 ELSE 0
        /\ \A k \in 1 .. i - 1 - 1 + 1 : a[k] = list[1 + k - 1]
    BY <1>2, <2>1, SubSeqProperties
  <2> HIDE DEF a
  <2>3. i - 1 - 1 + 1 = i - 1 /\ \A k \in 1 .. i - 1 : 1 + k - 1 = k
    BY <1>1
  <2>4. Len(a) = i - 1
    BY <1>1, <2>2
  <2>5. QED BY <2>2, <2>3, <2>4
<1>4. b \in Seq(S) /\ Len(b) = n - i /\ \A k \in 1 .. n - i : b[k] = list[i + k]
  <2>1. \A k \in i + 1 .. n : list[k] \in S
    BY <1>1
  <2>2. /\ b \in Seq(S) /\ Len(b) = IF i + 1 <= n THEN n - (i + 1) + 1 ELSE 0
        /\ \A k \in 1 .. n - (i + 1) + 1 : b[k] = list[(i + 1) + k - 1]
    BY <1>2, <2>1, SubSeqProperties
  <2> HIDE DEF b
  <2>3. n - (i + 1) + 1 = n - i /\ \A k \in 1 .. n - i : (i + 1) + k - 1 = i + k
    BY <1>1
  <2>4. Len(b) = n - i
    BY <1>1, <2>2
  <2>5. QED BY <2>2, <2>3, <2>4
<1>5. RemoveAt(list, i) = a \o b
  BY DEF RemoveAt, n
<1> HIDE DEF a, b
<1> DEFINE less == a \o b
<1>6. less \in Seq(S) /\ Len(less) = Len(a) + Len(b)
      /\ \A k \in 1 .. Len(a) + Len(b) : less[k] = IF k <= Len(a) THEN a[k] ELSE b[k - Len(a)]
  BY <1>3, <1>4, ConcatProperties
<1> HIDE DEF less
<1>7. Len(less) = n - 1 /\ DOMAIN less = 1 .. n - 1
  BY <1>1, <1>3, <1>4, <1>6
<1>8. ASSUME NEW k \in 1 .. n - 1 PROVE less[k] = IF k < i THEN list[k] ELSE list[k + 1]
  <2>1. k \in 1 .. Len(a) + Len(b) /\ k \in Int
    BY <1>1, <1>3, <1>4
  <2>2. CASE k < i
    <3>1. k <= Len(a) /\ k \in 1 .. i - 1
      BY <1>1, <1>3, <2>1, <2>2
    <3>2. QED BY <1>3, <1>6, <2>1, <2>2, <3>1
  <2>3. CASE ~(k < i)
    <3>1. ~(k <= Len(a)) /\ k - Len(a) = k - i + 1 /\ k - i + 1 \in 1 .. n - i /\ i + (k - i + 1) = k + 1
      <4>1. Len(a) = i - 1
        BY <1>3
      <4>2. i \in Int /\ k \in Int /\ n \in Int /\ k >= i /\ k <= n - 1
        BY <1>1, <2>1, <2>3
      <4>3. /\ ~(k <= i - 1) /\ k - (i - 1) = k - i + 1
            /\ k - i + 1 \in 1 .. n - i /\ i + (k - i + 1) = k + 1
        BY <4>2
      <4>4. QED BY <4>1, <4>3
    <3>2. less[k] = b[k - i + 1]
      BY <1>6, <2>1, <3>1
    <3>3. QED BY <1>4, <2>3, <3>1, <3>2
  <2>4. QED BY <2>2, <2>3
<1>9. QED BY <1>5, <1>6, <1>7, <1>8 DEF n, less

-----------------------------------------------------------------------------
(***************************************************************************)
(* What the cloud and the view have.                                       *)
(***************************************************************************)
LEMMA SaveKeepsInv ==
    ASSUME SchedulesAssumption, SchedulesInv, NEW plan \in CardPlans, SavePlan(plan)
    PROVE  SchedulesInv'
<1> DEFINE s == modal.slot
           plans == PlansShown(s)
           edited == [i \in DOMAIN plans |-> IF i = modal.at THEN plan ELSE plans[i]]
           new == IF modal.at = None THEN Append(plans, plan) ELSE edited
<1>1. s \in DOMAIN schedule.slots /\ SetSchedulePlans(schedule.slots[s].id, new)
  BY DEF SavePlan
<1>2. plans \in Seq(Entered) /\ schedule.slots[s].id \in Int
  BY <1>1, PlansShownTyped
<1>3. plan \in Entered
  BY DEF SchedulesAssumption
<1> HIDE DEF plans, s
<1>4. new \in Seq(Entered)
  BY <1>2, <1>3, EditedTyped
<1> HIDE DEF new
<1>5. QED BY <1>1, <1>2, <1>4, SetKeepsInv

LEMMA DeleteKeepsInv ==
    ASSUME SchedulesAssumption, SchedulesInv, NEW s \in DOMAIN schedule.slots,
           NEW i \in DOMAIN schedule.slots[s].plans, DeletePlan(s, i)
    PROVE  SchedulesInv'
<1> DEFINE new == RemoveAt(PlansShown(s), i)
<1>1. SetSchedulePlans(schedule.slots[s].id, new)
  BY DEF DeletePlan
<1>2. /\ PlansShown(s) \in Seq(Entered) /\ i \in 1 .. Len(PlansShown(s))
      /\ schedule.slots[s].id \in Int
  BY PlansShownTyped
<1>3. new \in Seq(Entered)
  BY <1>2, RemovedAt
<1> HIDE DEF new
<1>4. QED BY <1>1, <1>2, <1>3, SetKeepsInv

LEMMA SchedulesInductive ==
    ASSUME SchedulesAssumption, SchedulesInv, [SchedulesNext]_schedules
    PROVE  SchedulesInv'
<1>1. CASE UNCHANGED schedules
  BY <1>1 DEF schedules, SchedulesInv
<1>2. ASSUME NEW text \in AppTexts, AppWrites(text) PROVE SchedulesInv'
  <2>1. text \in GoodTexts
    BY DEF SchedulesAssumption, GoodTexts
  <2>2. wire' \in Seq(Chunks) /\ schedule' = schedule
    BY <1>2, <2>1, CutIsGood DEF AppWrites
  <2>3. QED BY <2>2 DEF SchedulesInv
<1>3. CASE RefreshSchedule
  <2>1. wire \in Seq(Chunks) /\ wire' = wire /\ schedule' = ReadSchedule(wire)
    BY <1>3 DEF RefreshSchedule, SchedulesInv
  <2>2. QED BY <2>1, ReadIsGood DEF SchedulesInv
<1>4. CASE CloseModal
  BY <1>4 DEF CloseModal, SchedulesInv
<1>5. ASSUME NEW s, OpenAddModal(s) PROVE SchedulesInv'
  BY <1>5 DEF OpenAddModal, SchedulesInv
<1>6. ASSUME NEW s, NEW i, OpenEditModal(s, i) PROVE SchedulesInv'
  BY <1>6 DEF OpenEditModal, SchedulesInv
<1>7. ASSUME NEW asked \in Calls, CallService(asked.id, asked.plans) PROVE SchedulesInv'
  <2>1. asked.id \in Int /\ asked.plans \in Seq(Entered)
    BY DEF SchedulesAssumption
  <2>2. SetSchedulePlans(asked.id, asked.plans)
    BY <1>7 DEF CallService
  <2>3. QED BY <2>1, <2>2, SetKeepsInv
<1>8. QED BY <1>1, <1>2, <1>3, <1>4, <1>5, <1>6, <1>7, SaveKeepsInv, DeleteKeepsInv DEF SchedulesNext

LEMMA SchedulesInvHolds == SchedulesSpec => []SchedulesInv
<1>1. SchedulesInit => SchedulesInv
  <2>1. <<>> \in Seq(Chunks) /\ <<>> \in Seq(Slots) /\ Numbered(<<>>)
    BY DEF Numbered
  <2>2. QED BY <2>1 DEF SchedulesInit, SchedulesInv, NoSchedule
<1>2. SchedulesInv /\ [SchedulesNext]_schedules => SchedulesInv'
  BY SchedulesAssumption, SchedulesInductive
<1>3. QED BY <1>1, <1>2, PTL DEF SchedulesSpec

-----------------------------------------------------------------------------
(***************************************************************************)
(* What the mower does on account of plans.                                *)
(***************************************************************************)
AllMows(plans) == UNION {MowsOf(plans[i]) : i \in DOMAIN plans}

LEMMA MowOfRecord ==
    ASSUME NEW plan \in Writable, plan.zone \in Byte8 \cup {None}, NEW day \in plan.days
    PROVE  /\ Mow(Record(day, plan)) \in MowsOf(plan)
           /\ Mow(Record(day, plan)) = [day |-> day, time |-> plan.time, action |-> plan.action,
                                        zone |-> IF plan.action = 0 THEN None ELSE plan.zone]
<1> DEFINE rec == Record(day, plan)
<1>1. day \in 1 .. 7
  <2>1. plan.days \in (SUBSET (1 .. 7)) \ {{}}
    BY DEF Writable, Entered
  <2>2. QED BY <2>1, Zenon
<1>2. GoodPlan(plan)
  BY WritableIsGood
<1>3. /\ DayOf(rec) = day /\ TimeOf(rec) = plan.time /\ ActionOf(rec) = plan.action
      /\ plan.action # 0 => rec[7] = plan.zone % 256
  BY <1>1, <1>2, RecordsAreRead
<1>4. plan.action # 0 => plan.zone \in Byte8
  <2>1. plan.action # 0 => plan.zone # None
    BY DEF Writable, Unwritable
  <2>2. QED BY <2>1, Zenon
<1>5. plan.action # 0 => plan.zone % 256 = plan.zone
  <2>1. \A z \in Byte8 : z % 256 = z
    BY SMT DEF Byte8
  <2>2. QED BY <1>4, <2>1
<1> HIDE DEF rec
<1>6. ZoneOf(rec) = IF plan.action = 0 THEN None ELSE plan.zone
  BY <1>3, <1>5 DEF ZoneOf
<1>7. Mow(rec) = [day |-> day, time |-> plan.time, action |-> plan.action,
                  zone |-> IF plan.action = 0 THEN None ELSE plan.zone]
  BY <1>3, <1>6 DEF Mow
<1>8. Mow(rec) \in MowsOf(plan)
  BY <1>7 DEF MowsOf
<1>9. QED BY <1>7, <1>8 DEF rec

LEMMA MowsOfBlob ==
    ASSUME NEW plans \in Seq(Writable), \A i \in DOMAIN plans : plans[i].zone \in Byte8 \cup {None}
    PROVE  {Mow(rec) : rec \in ToSet(BlobOf(plans))} = AllMows(plans)
<1> DEFINE blob == BlobOf(plans)
           mows == {Mow(rec) : rec \in ToSet(blob)}
<1>1. \A rec : rec \in ToSet(blob) <=> \E i \in DOMAIN plans : \E day \in plans[i].days : rec = Record(day, plans[i])
  BY BlobRecords
<1>2. \A i \in DOMAIN plans : plans[i] \in Writable
  OBVIOUS
<1> HIDE DEF blob
<1>3. ASSUME NEW m \in mows PROVE m \in AllMows(plans)
  <2>1. PICK rec \in ToSet(blob) : m = Mow(rec)
    OBVIOUS
  <2>2. PICK i \in DOMAIN plans : \E day \in plans[i].days : rec = Record(day, plans[i])
    BY <1>1, <2>1
  <2>3. m \in MowsOf(plans[i])
    BY <1>2, <2>1, <2>2, MowOfRecord
  <2>4. QED BY <2>3 DEF AllMows
<1>4. ASSUME NEW m \in AllMows(plans) PROVE m \in mows
  <2>1. PICK i \in DOMAIN plans : m \in MowsOf(plans[i])
    BY DEF AllMows
  <2>2. PICK day \in plans[i].days :
           m = [day |-> day, time |-> plans[i].time, action |-> plans[i].action,
                zone |-> IF plans[i].action = 0 THEN None ELSE plans[i].zone]
    BY <2>1 DEF MowsOf
  <2>3. m = Mow(Record(day, plans[i]))
    BY <1>2, <2>2, MowOfRecord
  <2>4. Record(day, plans[i]) \in ToSet(blob)
    BY <1>1
  <2>5. QED BY <2>3, <2>4
<1>5. mows = AllMows(plans)
  BY <1>3, <1>4
<1>6. QED BY <1>5 DEF blob

\* The plans of a blob of records that are read, written again.
LEMMA BlobRewritten ==
    ASSUME SchedulesAssumption, NEW blob \in Seq(ReadRecords)
    PROVE  /\ ToSet(BlobOf(PlansOf(blob))) = ToSet(blob)
           /\ {Mow(rec) : rec \in ToSet(blob)} = AllMows(PlansOf(blob))
<1> DEFINE plans == PlansOf(blob)
<1>1. /\ plans \in Seq(Writable)
      /\ \A rec : rec \in ToSet(blob) <=>
             \E i \in DOMAIN plans : \E day \in plans[i].days : rec = Record(day, plans[i])
      /\ \A i \in DOMAIN plans : AsRead(plans[i])
  BY PlansRecords
<1> HIDE DEF plans
<1>2. \A rec : rec \in ToSet(BlobOf(plans)) <=>
          \E i \in DOMAIN plans : \E day \in plans[i].days : rec = Record(day, plans[i])
  BY <1>1, BlobRecords
<1>3. ToSet(BlobOf(plans)) = ToSet(blob)
  BY <1>1, <1>2, Zenon
<1>4. \A i \in DOMAIN plans : plans[i].zone \in Byte8 \cup {None}
  BY <1>1 DEF AsRead
<1>5. {Mow(rec) : rec \in ToSet(BlobOf(plans))} = AllMows(plans)
  BY <1>1, <1>4, MowsOfBlob
<1>6. QED BY <1>3, <1>5 DEF plans

\* No two plans of a slot that the card can send have a mow in common.
LEMMA PlansApart ==
    ASSUME NEW p \in Writable, NEW q \in Writable, AsRead(p), AsRead(q), p.action # 2,
           ~SameButDays(p, q)
    PROVE  MowsOf(p) \cap MowsOf(q) = {}
<1> SUFFICES ASSUME NEW m \in MowsOf(p), m \in MowsOf(q) PROVE FALSE
  OBVIOUS
<1>1. /\ m.time = p.time /\ m.action = p.action /\ m.zone = IF p.action = 0 THEN None ELSE p.zone
      /\ m.time = q.time /\ m.action = q.action /\ m.zone = IF q.action = 0 THEN None ELSE q.zone
  BY DEF MowsOf
<1>2. p.time = q.time /\ p.action = q.action
  BY <1>1
<1>3. p.zone = q.zone
  BY <1>1, <1>2 DEF AsRead
<1>4. p.extra = q.extra
  BY <1>2 DEF AsRead
<1>5. QED BY <1>2, <1>3, <1>4 DEF SameButDays

-----------------------------------------------------------------------------
(***************************************************************************)
(* An edit in the card.                                                    *)
(***************************************************************************)
\* html.escape.
NameOf(name) == [i \in DOMAIN name |-> IF name[i] = Amp THEN Escaped ELSE name[i]]

LEMMA NameRestored ==
    ASSUME NEW name \in Seq(Letters), Amp \notin ToSet(name)
    PROVE  NameOf(Unescaped(name)) = name
<1>1. DOMAIN Unescaped(name) = DOMAIN name
  BY DEF Unescaped
<1>2. ASSUME NEW i \in DOMAIN name
      PROVE  (IF Unescaped(name)[i] = Amp THEN Escaped ELSE Unescaped(name)[i]) = name[i]
  <2>1. name[i] # Amp
    BY DEF ToSet
  <2>2. Unescaped(name)[i] = IF name[i] = Escaped THEN Amp ELSE name[i]
    BY DEF Unescaped
  <2>3. QED BY <2>1, <2>2
<1>3. NameOf(Unescaped(name)) = [i \in DOMAIN name |-> name[i]]
  BY <1>1, <1>2 DEF NameOf
<1>4. name = [i \in DOMAIN name |-> name[i]]
  OBVIOUS
<1>5. QED BY <1>3, <1>4

\* The view of a text all of which can be read.
LEMMA ScheduleRead ==
    ASSUME SchedulesAssumption, SchedulesInv, Fresh, Legible
    PROVE  LET old == wire[1].text
           IN  /\ old \in GoodTexts /\ schedule.version = old.v
               /\ schedule.slots = [i \in DOMAIN old.entries |-> SlotOf(old.entries[i])]
               /\ \A i \in DOMAIN old.entries :
                     /\ old.entries[i].mode \in Int /\ old.entries[i].blob \in Seq(ReadRecords)
                     /\ old.entries[i].name \in Seq(Letters) /\ Amp \notin ToSet(old.entries[i].name)
<1> DEFINE old == wire[1].text
<1>1. wire # <<>> /\ schedule = ParseSchedule(old)
  BY DEF Fresh, Whole, ReadSchedule
<1>2. old \in GoodTexts
  <2>1. wire[1] \in Chunks
    BY <1>1 DEF SchedulesInv
  <2>2. QED BY <2>1 DEF Chunks
<1>3. \A i \in DOMAIN old.entries :
         /\ old.entries[i].id # None /\ old.entries[i].mode # None
         /\ \A n \in DOMAIN old.entries[i].blob : Readable(old.entries[i].blob[n])
  BY DEF Legible
<1> HIDE DEF old
<1>4. ParseSchedule(old) = [version |-> old.v,
                            slots |-> [i \in DOMAIN old.entries |-> SlotOf(old.entries[i])]]
  BY <1>2, <1>3, ParsedWhole
<1>5. ASSUME NEW i \in DOMAIN old.entries
      PROVE  /\ old.entries[i].mode \in Int /\ old.entries[i].blob \in Seq(ReadRecords)
             /\ old.entries[i].name \in Seq(Letters) /\ Amp \notin ToSet(old.entries[i].name)
  <2> DEFINE entry == old.entries[i]
  <2>1. /\ entry.mode \in Int \cup {None} /\ entry.blob \in Seq(Seq(Byte8))
        /\ entry.name \in Seq(Letters) /\ Amp \notin ToSet(entry.name)
        /\ \A rec \in ToSet(entry.blob) : Readable(rec) => rec \in ReadRecords
    BY <1>2, TextTyped
  <2>2. entry.mode # None /\ \A n \in DOMAIN entry.blob : Readable(entry.blob[n])
    BY <1>3
  <2> HIDE DEF entry
  <2>3. \A n \in DOMAIN entry.blob : entry.blob[n] \in ReadRecords
    BY <2>1, <2>2 DEF ToSet
  <2>4. entry.blob \in Seq(ReadRecords)
    BY <2>1, <2>3, RetypedList, Zenon
  <2>5. entry.mode \in Int
    BY <2>1, <2>2
  <2>6. QED BY <2>1, <2>4, <2>5 DEF entry
<1>6. QED BY <1>1, <1>2, <1>4, <1>5 DEF old

\* The service replaces the plans of one slot, since no two have one id.
LEMMA ReplacedOne ==
    ASSUME SchedulesInv, NEW s \in DOMAIN schedule.slots, NEW new
    PROVE  Replaced(schedule.slots[s].id, new)
             = [i \in DOMAIN schedule.slots |->
                   IF i = s THEN [schedule.slots[i] EXCEPT !.plans = new] ELSE schedule.slots[i]]
<1> DEFINE slots == schedule.slots
           id == slots[s].id
<1>1. Replaced(id, new) = [i \in DOMAIN slots |->
                             IF slots[i].id = id THEN [slots[i] EXCEPT !.plans = new] ELSE slots[i]]
  BY DEF Replaced
<1>2. \A i \in DOMAIN slots : slots[i].id = id <=> i = s
  BY DEF SchedulesInv, Numbered
<1> HIDE DEF slots, id
<1>3. QED BY <1>1, <1>2 DEF slots, id

LEMMA SameLength ==
    ASSUME NEW a \in Nat, NEW b \in Nat, 1 .. a = 1 .. b
    PROVE  a = b
<1>1. a \in 1 .. b \/ a = 0
  OBVIOUS
<1>2. b \in 1 .. a \/ b = 0
  OBVIOUS
<1>3. QED BY <1>1, <1>2

\* What the service writes for plans of slot s whose mows are those of the slot
\* without "gone" and with "come".
LEMMA SlotLands ==
    ASSUME SchedulesAssumption, SchedulesInv, Fresh, Legible, wire' # wire,
           NEW s \in DOMAIN schedule.slots, NEW new \in Seq(Entered),
           SetSchedulePlans(schedule.slots[s].id, new),
           \A i \in DOMAIN new : new[i].zone \in Byte8 \cup {None},
           NEW gone, NEW come, AllMows(new) = (AllMows(schedule.slots[s].plans) \ gone) \cup come
    PROVE  Lands(s, gone, come)
<1> DEFINE old == wire[1].text
           slots == schedule.slots
           id == slots[s].id
           version == schedule.version + 1
           text == TextOf(Replaced(id, new), version)
           MowsIn(entry) == {Mow(rec) : rec \in ToSet(entry.blob)}
<1>1. /\ old \in GoodTexts /\ schedule.version = old.v
      /\ slots = [i \in DOMAIN old.entries |-> SlotOf(old.entries[i])]
      /\ \A i \in DOMAIN old.entries :
            /\ old.entries[i].mode \in Int /\ old.entries[i].blob \in Seq(ReadRecords)
            /\ old.entries[i].name \in Seq(Letters) /\ Amp \notin ToSet(old.entries[i].name)
  BY ScheduleRead
<1>2. id \in Int
  BY PlansShownTyped
<1>3. new \in Seq(Writable) /\ text \in GoodTexts /\ wire' = Overwritten(text)
  BY <1>2, WriteIsGood
<1>4. Replaced(id, new) = [i \in DOMAIN slots |-> IF i = s THEN [slots[i] EXCEPT !.plans = new] ELSE slots[i]]
  BY ReplacedOne
<1>5. /\ text.v = version
      /\ text.entries = [i \in DOMAIN Replaced(id, new) |->
            [id |-> Replaced(id, new)[i].id, mode |-> Replaced(id, new)[i].mode,
             name |-> NameOf(Replaced(id, new)[i].name), blob |-> BlobOf(Replaced(id, new)[i].plans)]]
  BY DEF TextOf, NameOf
<1>6. wire'[1].text = text /\ (ChunksOf(text) >= Len(wire) => wire' = Cut(text))
  BY <1>3, OverwrittenIsGood
<1>7. version = old.v + 1
  BY <1>1
<1>8. \A i \in DOMAIN old.entries : slots[i] = SlotOf(old.entries[i])
  BY <1>1
<1>9. DOMAIN slots = DOMAIN old.entries
  BY <1>1
<1>10. s \in DOMAIN old.entries
  BY <1>9
<1>20. AllMows(new) = (AllMows(slots[s].plans) \ gone) \cup come
  OBVIOUS
<1> HIDE DEF old, slots, id, version, text
<1>11. ASSUME NEW i \in DOMAIN old.entries
       PROVE  /\ text.entries[i].id = old.entries[i].id
              /\ text.entries[i].mode = old.entries[i].mode
              /\ text.entries[i].name = old.entries[i].name
              /\ text.entries[i].blob = BlobOf(IF i = s THEN new ELSE PlansOf(old.entries[i].blob))
  <2> DEFINE entry == old.entries[i]
             slot == slots[i]
             now == Replaced(id, new)[i]
  <2>1. slot = SlotOf(entry)
    BY <1>8
  <2>2. /\ slot.id = entry.id /\ slot.mode = Or(entry.mode, 0)
        /\ slot.name = Unescaped(entry.name) /\ slot.plans = PlansOf(entry.blob)
    BY <2>1 DEF SlotOf
  <2>3. now = IF i = s THEN [slot EXCEPT !.plans = new] ELSE slot
    BY <1>4, <1>9
  <2>4. /\ text.entries[i].id = now.id /\ text.entries[i].mode = now.mode
        /\ text.entries[i].name = NameOf(now.name) /\ text.entries[i].blob = BlobOf(now.plans)
    <3>1. i \in DOMAIN Replaced(id, new)
      BY <1>4, <1>9
    <3>2. QED BY <1>5, <3>1
  <2>5. /\ [slot EXCEPT !.plans = new].id = slot.id /\ [slot EXCEPT !.plans = new].mode = slot.mode
        /\ [slot EXCEPT !.plans = new].name = slot.name /\ [slot EXCEPT !.plans = new].plans = new
    BY <2>1 DEF SlotOf
  <2>6. entry.mode \in Int /\ entry.name \in Seq(Letters) /\ Amp \notin ToSet(entry.name)
    BY <1>1
  <2> HIDE DEF entry, slot, now
  <2>7. /\ now.id = slot.id /\ now.mode = slot.mode /\ now.name = slot.name
        /\ now.plans = IF i = s THEN new ELSE slot.plans
    BY <2>3, <2>5
  <2>8. Or(entry.mode, 0) = entry.mode
    BY <2>6 DEF SchedulesAssumption, Or
  <2>9. NameOf(now.name) = entry.name
    BY <2>2, <2>6, <2>7, NameRestored
  <2>10. QED BY <2>2, <2>4, <2>7, <2>8, <2>9 DEF entry
<1>12. \A i \in DOMAIN old.entries :
           /\ ToSet(BlobOf(PlansOf(old.entries[i].blob))) = ToSet(old.entries[i].blob)
           /\ MowsIn(old.entries[i]) = AllMows(PlansOf(old.entries[i].blob))
  BY <1>1, BlobRewritten
<1>13. MowsIn(text.entries[s]) = AllMows(new)
  <2>1. text.entries[s].blob = BlobOf(new)
    BY <1>10, <1>11
  <2>2. {Mow(rec) : rec \in ToSet(BlobOf(new))} = AllMows(new)
    BY <1>3, MowsOfBlob
  <2>3. QED BY <2>1, <2>2
<1>14. MowsIn(old.entries[s]) = AllMows(slots[s].plans)
  <2>1. slots[s].plans = PlansOf(old.entries[s].blob)
    <3>1. slots[s] = SlotOf(old.entries[s])
      BY <1>8, <1>10
    <3>2. QED BY <3>1 DEF SlotOf
  <2>2. QED BY <1>10, <1>12, <2>1
<1> HIDE DEF MowsIn
<1>15. MowsIn(text.entries[s]) = (MowsIn(old.entries[s]) \ gone) \cup come
  BY <1>13, <1>14, <1>20
<1>16. Len(text.entries) = Len(old.entries)
  <2>1. DOMAIN text.entries = DOMAIN old.entries
    BY <1>4, <1>5, <1>9
  <2>2. /\ DOMAIN text.entries = 1 .. Len(text.entries) /\ Len(text.entries) \in Nat
        /\ DOMAIN old.entries = 1 .. Len(old.entries) /\ Len(old.entries) \in Nat
    <3>1. text.entries \in Seq(Entries) /\ old.entries \in Seq(Entries)
      BY <1>1, <1>3, TextTyped
    <3>2. QED BY <3>1
  <2>3. QED BY <2>1, <2>2, SameLength
<1>17. \A i \in DOMAIN old.entries :
          LET a == old.entries[i]
              b == text.entries[i]
          IN  /\ a.id = b.id /\ a.mode = b.mode /\ a.name = b.name
              /\ i # s => ToSet(a.blob) = ToSet(b.blob)
  <2> TAKE i \in DOMAIN old.entries
  <2>1. i # s => text.entries[i].blob = BlobOf(PlansOf(old.entries[i].blob))
    BY <1>11
  <2>2. QED BY <1>11, <1>12, <2>1
<1>18. /\ ChunksOf(text) >= Len(wire) => wire' = Cut(text)
       /\ text.v = old.v + 1 /\ Len(text.entries) = Len(old.entries)
  BY <1>5, <1>6, <1>7, <1>16
<1>19. QED BY <1>6, <1>15, <1>17, <1>18 DEF Lands, MowsIn, old

\* What the card has of a slot.
LEMMA SlotShown ==
    ASSUME SchedulesAssumption, SchedulesInv, Fresh, Legible, NEW s \in DOMAIN schedule.slots
    PROVE  LET plans == schedule.slots[s].plans
           IN  \A i, k \in DOMAIN plans :
                  AsRead(plans[i]) /\ (SameButDays(plans[i], plans[k]) => i = k)
<1>1. PICK blob \in Seq(ReadRecords) : schedule.slots[s].plans = PlansOf(blob)
  <2> DEFINE old == wire[1].text
  <2>1. /\ schedule.slots = [i \in DOMAIN old.entries |-> SlotOf(old.entries[i])]
        /\ \A i \in DOMAIN old.entries : old.entries[i].blob \in Seq(ReadRecords)
    BY ScheduleRead
  <2> HIDE DEF old
  <2>2. s \in DOMAIN old.entries /\ schedule.slots[s] = SlotOf(old.entries[s])
    BY <2>1
  <2>3. schedule.slots[s].plans = PlansOf(old.entries[s].blob)
    BY <2>2 DEF SlotOf
  <2>4. QED BY <2>1, <2>2, <2>3
<1>2. QED BY <1>1, PlansRecords

\* The plan is added to those of the slot.
LEMMA AddedLands ==
    ASSUME SchedulesAssumption, SchedulesInv, Fresh, Legible, wire' # wire,
           NEW s \in DOMAIN schedule.slots, NEW plan \in CardPlans, plan.zone \in Byte8 \cup {None},
           SetSchedulePlans(schedule.slots[s].id, Append(PlansShown(s), plan))
    PROVE  Lands(s, {}, MowsOf(plan))
<1> DEFINE plans == schedule.slots[s].plans
           n == Len(plans)
           shown == PlansShown(s)
           new == Append(shown, plan)
<1>1. /\ n \in Nat /\ DOMAIN plans = 1 .. n /\ \A i \in 1 .. n : plans[i] \in Writable
      /\ shown \in Seq(Entered) /\ Len(shown) = n /\ \A i \in 1 .. n : shown[i] = Shown(plans[i])
  BY PlansShownTyped
<1>2. plan \in Entered /\ plan.zone \in Byte8 \cup {None}
  BY DEF SchedulesAssumption
<1>3. \A i \in 1 .. n : AsRead(plans[i])
  BY <1>1, SlotShown
<1> HIDE DEF plans, n, shown
<1>4. /\ new \in Seq(Entered) /\ DOMAIN new = 1 .. n + 1 /\ new[n + 1] = plan
      /\ \A i \in 1 .. n : new[i] = Shown(plans[i])
  BY <1>1, <1>2
<1> HIDE DEF new
<1>5. \A i \in 1 .. n : /\ Shown(plans[i]).zone \in Byte8 \cup {None}
                        /\ MowsOf(Shown(plans[i])) = MowsOf(plans[i])
  BY <1>1, <1>3, ShownTyped DEF AsRead
<1>6. \A i \in DOMAIN new : new[i].zone \in Byte8 \cup {None}
  <2> TAKE i \in DOMAIN new
  <2>1. i \in 1 .. n \/ i = n + 1
    BY <1>1, <1>4
  <2>2. QED BY <1>2, <1>4, <1>5, <2>1
<1>7. AllMows(new) = (AllMows(plans) \ {}) \cup MowsOf(plan)
  <2>1. ASSUME NEW m PROVE m \in AllMows(new) <=> m \in AllMows(plans) \/ m \in MowsOf(plan)
    <3>1. m \in AllMows(new) <=> \E i \in 1 .. n + 1 : m \in MowsOf(new[i])
      BY <1>4 DEF AllMows
    <3>2. m \in AllMows(plans) <=> \E i \in 1 .. n : m \in MowsOf(plans[i])
      BY <1>1 DEF AllMows
    <3>3. \A i \in 1 .. n : MowsOf(new[i]) = MowsOf(plans[i])
      BY <1>4, <1>5
    <3>4. MowsOf(new[n + 1]) = MowsOf(plan)
      BY <1>4
    <3>5. \A i : i \in 1 .. n + 1 <=> i \in 1 .. n \/ i = n + 1
      BY <1>1
    <3>6. QED BY <3>1, <3>2, <3>3, <3>4, <3>5
  <2>2. QED BY <2>1
<1>8. SetSchedulePlans(schedule.slots[s].id, new)
  BY DEF new, shown
<1>9. QED BY <1>4, <1>6, <1>7, <1>8, SlotLands DEF plans

\* Plan at takes the place of the one that was there.
LEMMA EditedLands ==
    ASSUME SchedulesAssumption, SchedulesInv, Fresh, Legible, wire' # wire,
           NEW s \in DOMAIN schedule.slots, NEW plan \in CardPlans, plan.zone \in Byte8 \cup {None},
           NEW at \in DOMAIN PlansShown(s),
           SetSchedulePlans(schedule.slots[s].id,
               [i \in DOMAIN PlansShown(s) |-> IF i = at THEN plan ELSE PlansShown(s)[i]])
    PROVE  Lands(s, MowsOf(PlansShown(s)[at]), MowsOf(plan))
<1> DEFINE plans == schedule.slots[s].plans
           n == Len(plans)
           shown == PlansShown(s)
           new == [i \in DOMAIN shown |-> IF i = at THEN plan ELSE shown[i]]
<1>1. /\ n \in Nat /\ DOMAIN plans = 1 .. n /\ \A i \in 1 .. n : plans[i] \in Writable
      /\ shown \in Seq(Entered) /\ Len(shown) = n /\ \A i \in 1 .. n : shown[i] = Shown(plans[i])
      /\ schedule.slots[s].id \in Int
  BY PlansShownTyped
<1>2. plan \in Entered /\ plan.zone \in Byte8 \cup {None}
  BY DEF SchedulesAssumption
<1>3. \A i, k \in 1 .. n : AsRead(plans[i]) /\ (SameButDays(plans[i], plans[k]) => i = k)
  BY <1>1, SlotShown
<1>10. at \in DOMAIN shown
  OBVIOUS
<1> HIDE DEF plans, n, shown
<1>4. /\ new \in Seq(Entered) /\ DOMAIN new = 1 .. n /\ at \in 1 .. n /\ new[at] = plan
      /\ \A i \in 1 .. n : i # at => new[i] = Shown(plans[i])
  <2>1. new \in Seq(Entered)
    <3>1. Len(shown) \in Nat /\ DOMAIN shown = 1 .. Len(shown) /\ \A i \in 1 .. Len(shown) : shown[i] \in Entered
      BY <1>1
    <3>2. QED BY <1>2, <3>1
  <2>2. DOMAIN shown = 1 .. n
    BY <1>1
  <2>3. QED BY <1>1, <1>10, <2>1, <2>2
<1>8. SetSchedulePlans(schedule.slots[s].id, new)
  BY DEF shown
<1> HIDE DEF new
<1>5. \A i \in 1 .. n : /\ Shown(plans[i]).zone \in Byte8 \cup {None}
                        /\ MowsOf(Shown(plans[i])) = MowsOf(plans[i])
  BY <1>1, <1>3, ShownTyped DEF AsRead
<1>6. \A i \in DOMAIN new : new[i].zone \in Byte8 \cup {None}
  BY <1>2, <1>4, <1>5
<1>11. \A i \in 1 .. n : i # at => plans[i].action # 2
  <2>1. ~\E i \in DOMAIN new : Unwritable(new[i])
    BY <1>8 DEF SetSchedulePlans
  <2> SUFFICES ASSUME NEW i \in 1 .. n, i # at, plans[i].action = 2 PROVE FALSE
    OBVIOUS
  <2>2. plans[i] \in Writable /\ i \in DOMAIN new /\ new[i] = Shown(plans[i])
    BY <1>1, <1>4
  <2>3. Unwritable(Shown(plans[i]))
    BY <2>2, ShownTyped
  <2>4. QED BY <2>1, <2>2, <2>3
<1>12. ASSUME NEW i \in 1 .. n, i # at PROVE MowsOf(plans[i]) \cap MowsOf(plans[at]) = {}
  BY <1>1, <1>3, <1>4, <1>11, <1>12, PlansApart
<1>7. AllMows(new) = (AllMows(plans) \ MowsOf(shown[at])) \cup MowsOf(plan)
  <2>1. ASSUME NEW m
        PROVE  m \in AllMows(new) <=>
                  (m \in AllMows(plans) /\ m \notin MowsOf(plans[at])) \/ m \in MowsOf(plan)
    <3>1. m \in AllMows(new) <=> \E i \in 1 .. n : m \in MowsOf(new[i])
      BY <1>4 DEF AllMows
    <3>2. m \in AllMows(plans) <=> \E i \in 1 .. n : m \in MowsOf(plans[i])
      BY <1>1 DEF AllMows
    <3>3. \A i \in 1 .. n : i # at => MowsOf(new[i]) = MowsOf(plans[i])
      BY <1>4, <1>5
    <3>4. MowsOf(new[at]) = MowsOf(plan)
      BY <1>4
    <3>5. \A i \in 1 .. n : i # at => (m \in MowsOf(plans[i]) => m \notin MowsOf(plans[at]))
      BY <1>12
    <3>6. at \in 1 .. n
      BY <1>4
    <3>7. QED BY <3>1, <3>2, <3>3, <3>4, <3>5, <3>6
  <2>2. MowsOf(shown[at]) = MowsOf(plans[at])
    BY <1>1, <1>4, <1>5
  <2>3. QED BY <2>1, <2>2
<1>9. QED BY <1>4, <1>6, <1>7, <1>8, SlotLands DEF plans, shown

\* The plan at i is left out.
LEMMA DeletedLands ==
    ASSUME SchedulesAssumption, SchedulesInv, Fresh, Legible, wire' # wire,
           NEW s \in DOMAIN schedule.slots, NEW at \in DOMAIN schedule.slots[s].plans,
           SetSchedulePlans(schedule.slots[s].id, RemoveAt(PlansShown(s), at))
    PROVE  Lands(s, MowsOf(PlansShown(s)[at]), {})
<1> DEFINE plans == schedule.slots[s].plans
           n == Len(plans)
           shown == PlansShown(s)
           new == RemoveAt(shown, at)
<1>1. /\ n \in Nat /\ DOMAIN plans = 1 .. n /\ \A i \in 1 .. n : plans[i] \in Writable
      /\ shown \in Seq(Entered) /\ Len(shown) = n /\ \A i \in 1 .. n : shown[i] = Shown(plans[i])
  BY PlansShownTyped
<1>3. \A i, k \in 1 .. n : AsRead(plans[i]) /\ (SameButDays(plans[i], plans[k]) => i = k)
  BY <1>1, SlotShown
<1>10. at \in 1 .. n
  BY <1>1
<1>8. SetSchedulePlans(schedule.slots[s].id, new)
  OBVIOUS
<1> HIDE DEF plans, n, shown
<1> DEFINE from(k) == IF k < at THEN k ELSE k + 1
<1>4. /\ new \in Seq(Entered) /\ DOMAIN new = 1 .. n - 1
      /\ \A k \in 1 .. n - 1 : new[k] = Shown(plans[from(k)]) /\ from(k) \in 1 .. n /\ from(k) # at
  <2>1. /\ new \in Seq(Entered) /\ DOMAIN new = 1 .. n - 1
        /\ \A k \in 1 .. n - 1 : new[k] = IF k < at THEN shown[k] ELSE shown[k + 1]
    BY <1>1, <1>10, RemovedAt
  <2> HIDE DEF new
  <2>2. \A k \in 1 .. n - 1 : from(k) \in 1 .. n /\ from(k) # at
    BY <1>1, <1>10
  <2>3. \A k \in 1 .. n - 1 : new[k] = shown[from(k)]
    BY <2>1
  <2> HIDE DEF from
  <2>4. QED BY <1>1, <2>1, <2>2, <2>3
<1>13. \A i \in 1 .. n : i # at => \E k \in 1 .. n - 1 : from(k) = i
  <2> SUFFICES ASSUME NEW i \in 1 .. n, i # at PROVE \E k \in 1 .. n - 1 : from(k) = i
    OBVIOUS
  <2>1. CASE i < at
    <3>1. i \in 1 .. n - 1 /\ from(i) = i
      BY <1>1, <1>10, <2>1
    <3>2. QED BY <3>1
  <2>2. CASE i > at
    <3>1. i - 1 \in 1 .. n - 1 /\ from(i - 1) = i
      BY <1>1, <1>10, <2>2
    <3>2. QED BY <3>1
  <2>3. QED BY <1>10, <2>1, <2>2
<1> HIDE DEF new, from
<1>5. \A i \in 1 .. n : /\ Shown(plans[i]).zone \in Byte8 \cup {None}
                        /\ MowsOf(Shown(plans[i])) = MowsOf(plans[i])
  BY <1>1, <1>3, ShownTyped DEF AsRead
<1>6. \A i \in DOMAIN new : new[i].zone \in Byte8 \cup {None}
  BY <1>4, <1>5
<1>11. \A i \in 1 .. n : i # at => plans[i].action # 2
  <2>1. ~\E k \in DOMAIN new : Unwritable(new[k])
    BY <1>8 DEF SetSchedulePlans
  <2> SUFFICES ASSUME NEW i \in 1 .. n, i # at, plans[i].action = 2 PROVE FALSE
    OBVIOUS
  <2>2. PICK k \in 1 .. n - 1 : from(k) = i
    BY <1>13
  <2>3. plans[i] \in Writable /\ k \in DOMAIN new /\ new[k] = Shown(plans[i])
    BY <1>1, <1>4, <2>2
  <2>4. Unwritable(Shown(plans[i]))
    BY <2>3, ShownTyped
  <2>5. QED BY <2>1, <2>3, <2>4
<1>12. ASSUME NEW i \in 1 .. n, i # at PROVE MowsOf(plans[i]) \cap MowsOf(plans[at]) = {}
  BY <1>1, <1>3, <1>10, <1>11, <1>12, PlansApart
<1>7. AllMows(new) = (AllMows(plans) \ MowsOf(shown[at])) \cup {}
  <2>1. ASSUME NEW m PROVE m \in AllMows(new) <=> m \in AllMows(plans) /\ m \notin MowsOf(plans[at])
    <3>1. m \in AllMows(new) <=> \E k \in 1 .. n - 1 : m \in MowsOf(new[k])
      BY <1>4 DEF AllMows
    <3>2. m \in AllMows(plans) <=> \E i \in 1 .. n : m \in MowsOf(plans[i])
      BY <1>1 DEF AllMows
    <3>3. \A k \in 1 .. n - 1 : MowsOf(new[k]) = MowsOf(plans[from(k)]) /\ from(k) \in 1 .. n /\ from(k) # at
      BY <1>4, <1>5
    <3>5. \A i \in 1 .. n : i # at => (m \in MowsOf(plans[i]) => m \notin MowsOf(plans[at]))
      BY <1>12
    <3>6. at \in 1 .. n
      BY <1>10
    <3>7. QED BY <1>13, <3>1, <3>2, <3>3, <3>5, <3>6, Zenon
  <2>2. MowsOf(shown[at]) = MowsOf(plans[at])
    BY <1>1, <1>5, <1>10
  <2>3. QED BY <2>1, <2>2
<1>9. QED BY <1>4, <1>6, <1>7, <1>8, SlotLands DEF plans, shown

\* In every behaviour of the schedules, of the app, the card and automations, an
\* edit in the card of a schedule that is shown as it is changes the mows of the
\* edited plan and no other.
THEOREM CardEditsLand == SchedulesSpec => PlanEditsLand
<1> DEFINE Edit ==
        Fresh /\ Legible /\ wire' # wire =>
        /\ \A plan \in CardPlans : plan.zone \in Byte8 \cup {None} /\ SavePlan(plan) =>
              IF modal.at = None THEN Lands(modal.slot, {}, MowsOf(plan))
              ELSE ModalIsTrue => Lands(modal.slot, MowsOf(modal.plan), MowsOf(plan))
        /\ \A s \in DOMAIN schedule.slots : \A i \in DOMAIN schedule.slots[s].plans :
              DeletePlan(s, i) => Lands(s, MowsOf(PlansShown(s)[i]), {})
<1>1. SchedulesInv => Edit
  <2> SUFFICES ASSUME SchedulesInv, Fresh, Legible, wire' # wire
               PROVE  /\ \A plan \in CardPlans : plan.zone \in Byte8 \cup {None} /\ SavePlan(plan) =>
                            IF modal.at = None THEN Lands(modal.slot, {}, MowsOf(plan))
                            ELSE ModalIsTrue => Lands(modal.slot, MowsOf(modal.plan), MowsOf(plan))
                      /\ \A s \in DOMAIN schedule.slots : \A i \in DOMAIN schedule.slots[s].plans :
                            DeletePlan(s, i) => Lands(s, MowsOf(PlansShown(s)[i]), {})
    OBVIOUS
  <2>1. ASSUME NEW plan \in CardPlans, plan.zone \in Byte8 \cup {None}, SavePlan(plan), modal.at = None
        PROVE  Lands(modal.slot, {}, MowsOf(plan))
    <3>1. /\ modal.slot \in DOMAIN schedule.slots
          /\ SetSchedulePlans(schedule.slots[modal.slot].id, Append(PlansShown(modal.slot), plan))
      BY <2>1 DEF SavePlan
    <3>2. QED BY <2>1, <3>1, SchedulesAssumption, AddedLands
  <2>2. ASSUME NEW plan \in CardPlans, plan.zone \in Byte8 \cup {None}, SavePlan(plan), modal.at # None, ModalIsTrue
        PROVE  Lands(modal.slot, MowsOf(modal.plan), MowsOf(plan))
    <3>1. /\ modal.slot \in DOMAIN schedule.slots
          /\ SetSchedulePlans(schedule.slots[modal.slot].id,
                [i \in DOMAIN PlansShown(modal.slot) |->
                    IF i = modal.at THEN plan ELSE PlansShown(modal.slot)[i]])
      BY <2>2 DEF SavePlan
    <3>2. modal.at \in DOMAIN PlansShown(modal.slot) /\ PlansShown(modal.slot)[modal.at] = modal.plan
      BY <2>2 DEF ModalIsTrue
    <3>3. Lands(modal.slot, MowsOf(PlansShown(modal.slot)[modal.at]), MowsOf(plan))
      BY <2>2, <3>1, <3>2, SchedulesAssumption, EditedLands
    <3>4. QED BY <3>2, <3>3
  <2>3. ASSUME NEW s \in DOMAIN schedule.slots, NEW i \in DOMAIN schedule.slots[s].plans, DeletePlan(s, i)
        PROVE  Lands(s, MowsOf(PlansShown(s)[i]), {})
    <3>1. SetSchedulePlans(schedule.slots[s].id, RemoveAt(PlansShown(s), i))
      BY <2>3 DEF DeletePlan
    <3>2. QED BY <3>1, SchedulesAssumption, DeletedLands
  <2>4. QED BY <2>1, <2>2, <2>3
<1>2. []SchedulesInv => PlanEditsLand
  BY <1>1, PTL DEF PlanEditsLand
<1>3. QED BY <1>2, SchedulesInvHolds, PTL

-----------------------------------------------------------------------------
(***************************************************************************)
(* The targets of the commands, for every map and number of commands.      *)
(* TargetsAreOnMap is not inductive: what the start button sends is what   *)
(* is selected, so the selection has to be on the map as it was last       *)
(* refreshed, and no contour that was ever selected is one of a seam.      *)
(***************************************************************************)
Table(t) == t.zones \in Seq(Int) /\ t.spots \in Seq(Int)

IsData(d) ==
    /\ d = [mode |-> d.mode, zones |-> d.zones, spots |-> d.spots, contours |-> d.contours,
            point |-> d.point, lock |-> d.lock]
    /\ d.mode \in Modes /\ d.zones \in Seq(Int) /\ d.spots \in Seq(Int)
    /\ \A c \in d.contours : c[2] = 0

FirstIn(ids, entries) == entries # <<>> => ids # <<>> /\ ids[1] \in ToSet(entries)

OnTable(d, t) ==
    /\ FirstIn(d.zones, t.zones) /\ FirstIn(d.spots, t.spots)
    /\ Outers(t) # {} => d.contours # {} /\ d.contours \subseteq Outers(t)

\* What TargetsAreOnMap says of the requests rs, as who gives them.
Sendable(who, r) ==
    /\ r.op \in {"101", "102", "103", "109", "200"} => r.target # {}
    /\ r.op = "101" /\ who # "service" => \A c \in r.target : c[2] = 0
Pressable(r) ==
    /\ r.op = "101" /\ Outers(table) # {} => r.target \subseteq Outers(table)
    /\ r.op = "102" /\ table.zones # <<>> => r.target \cap ToSet(table.zones) # {}
    /\ r.op = "103" /\ table.spots # <<>> => r.target \cap ToSet(table.spots) # {}
RightFor(who, rs) ==
    /\ \A i \in DOMAIN rs : Sendable(who, rs[i])
    /\ who = "button" /\ rs # <<>> => Pressable(rs[1])

CommandsInv ==
    /\ Table(table) /\ IsData(data) /\ OnTable(data, table)
    /\ TargetsAreOnMap

\* An id that is listed first is one of those listed.
LEMMA ListedFirst ==
    ASSUME NEW S, NEW ids \in Seq(S), ids # <<>>
    PROVE  ids[1] \in S /\ ids[1] \in ToSet(ids)
BY DEF ToSet

\* A picker selects what is among its entries.
LEMMA FoundIsListed ==
    ASSUME NEW entries \in Seq(Int), NEW ids \in Seq(Int)
    PROVE  Found(entries, ids) \in Seq(Int) /\ FirstIn(Found(entries, ids), entries)
<1>1. CASE entries = <<>> \/ (ids # <<>> /\ ids[1] \in ToSet(entries))
  BY <1>1 DEF Found, FirstIn
<1>2. CASE ~(entries = <<>> \/ (ids # <<>> /\ ids[1] \in ToSet(entries)))
  <2>1. entries[1] \in Int /\ entries[1] \in ToSet(entries)
    BY <1>2, ListedFirst
  <2>2. Found(entries, ids) = <<entries[1]>>
    BY <1>2 DEF Found
  <2>3. QED BY <2>1, <2>2 DEF FirstIn
<1>3. QED BY <1>1, <1>2

\* The edge picker selects perimeters, and some if there are any.
LEMMA FoundEdgesAreOuter ==
    ASSUME NEW t, NEW contours, \A c \in contours : c[2] = 0
    PROVE  /\ \A c \in FoundEdges(t, contours) : c[2] = 0
           /\ Outers(t) # {} => FoundEdges(t, contours) # {} /\ FoundEdges(t, contours) \subseteq Outers(t)
<1>1. \A label \in Labels(t) : label # {} /\ label \subseteq Outers(t)
  BY DEF Labels
<1>2. Outers(t) # {} => Labels(t) # {}
  BY DEF Labels
<1>3. \A c \in Outers(t) : c[2] = 0
  BY DEF Outers
<1>4. QED BY <1>1, <1>2, <1>3 DEF FoundEdges

\* After an update the selection is on the map.
LEMMA SettledIsOnMap ==
    ASSUME NEW d, NEW t, IsData(d), Table(t)
    PROVE  IsData(Settled(d, t)) /\ OnTable(Settled(d, t), t)
<1>1. PICK zones : zones = Found(t.zones, d.zones)
  OBVIOUS
<1>2. PICK spots : spots = Found(t.spots, d.spots)
  OBVIOUS
<1>3. PICK contours : contours = FoundEdges(t, d.contours)
  OBVIOUS
<1>4. PICK x : x = [d EXCEPT !.zones = zones, !.spots = spots, !.contours = contours]
  OBVIOUS
<1>5. d = [mode |-> d.mode, zones |-> d.zones, spots |-> d.spots, contours |-> d.contours,
           point |-> d.point, lock |-> d.lock]
  BY DEF IsData
<1>6. x = [mode |-> d.mode, zones |-> zones, spots |-> spots, contours |-> contours,
           point |-> d.point, lock |-> d.lock]
  BY <1>4, <1>5
<1>7. zones \in Seq(Int) /\ FirstIn(zones, t.zones) /\ spots \in Seq(Int) /\ FirstIn(spots, t.spots)
  BY <1>1, <1>2, FoundIsListed DEF Table, IsData
<1>8. /\ \A c \in contours : c[2] = 0
      /\ Outers(t) # {} => contours # {} /\ contours \subseteq Outers(t)
  BY <1>3, FoundEdgesAreOuter DEF IsData
<1>9. d.mode \in Modes
  BY DEF IsData
<1>10. IsData(x)
  BY <1>6, <1>7, <1>8, <1>9 DEF IsData
<1>11. OnTable(x, t)
  BY <1>6, <1>7, <1>8 DEF OnTable
<1>12. Settled(d, t) = x
  BY <1>1, <1>2, <1>3, <1>4 DEF Settled
<1>13. QED BY <1>10, <1>11, <1>12

\* Nothing is asked for, and the selection is settled on the table.
LEMMA SettleStep ==
    ASSUME NEW d, NEW t, IsData(d), Table(t), table' = t, data' = Settled(d, t), sent' = <<>>
    PROVE  CommandsInv'
<1>1. PICK x : x = Settled(d, t)
  OBVIOUS
<1>2. IsData(x) /\ OnTable(x, t) /\ data' = x
  BY <1>1, SettledIsOnMap
<1>3. Table(table)' /\ IsData(data)' /\ OnTable(data, table)'
  BY <1>2 DEF Table, IsData, OnTable, FirstIn, Outers
<1>4. TargetsAreOnMap'
  BY DEF TargetsAreOnMap
<1>5. QED BY <1>3, <1>4 DEF CommandsInv

\* Something is asked for.
LEMMA SentStep ==
    ASSUME CommandsInv, NEW d, data' = d, IsData(d), OnTable(d, table), table' = table,
           NEW who, by' = who, NEW rs, sent' = rs, RightFor(who, rs)
    PROVE  CommandsInv'
<1>1. Table(table)' /\ IsData(data)' /\ OnTable(data, table)'
  BY DEF CommandsInv, Table, IsData, OnTable, FirstIn, Outers
<1>2. \A i \in DOMAIN rs : Sendable(who, rs[i])
  BY DEF RightFor
<1>3. who = "button" /\ rs # <<>> => Pressable(rs[1])
  BY DEF RightFor
<1>4. TargetsAreOnMap'
  BY <1>2, <1>3 DEF TargetsAreOnMap, Sendable, Pressable, Outers
<1>5. QED BY <1>1, <1>4 DEF CommandsInv

\* One request, or none.
LEMMA OneIsRight ==
    ASSUME NEW who, NEW r, Sendable(who, r), who = "button" => Pressable(r)
    PROVE  RightFor(who, <<r>>)
BY DEF RightFor

\* Nothing asked for is right.
LEMMA NoneIsRight == \A who : RightFor(who, <<>>)
BY DEF RightFor

\* The requests without targets.
Plain == {"START_MOWING", "FIND_BOT", "GENERATE_3D_MAP", "SUPPRESS_FAULT", "LOCK_BOT", "PAUSE", "DOCK",
          "RECHARGE", "STOP", "REQUEST_WIFI_MAP", "FINALIZE_SESSION"}
\* Such a request asks for no mow of a target.
LEMMA PlainIsRight ==
    ASSUME NEW action \in Plain, NEW ids, NEW who
    PROVE  RightFor(who, Request(action, ids))
<1>1. ASSUME NEW r, r.op \notin {"101", "102", "103", "109", "200"}
      PROVE  RightFor(who, <<r>>)
  <2>1. Sendable(who, r) /\ Pressable(r)
    BY <1>1 DEF Sendable, Pressable
  <2>2. QED BY <2>1, OneIsRight
<1>2. \/ Request(action, ids) = <<>>
      \/ \E op \in {"100", "9", "10", "11", "12", "5.4", "5.3", "5.2", "6.4"} : \E target :
             Request(action, ids) = <<[op |-> op, target |-> target]>>
  BY DEF Plain, Request, Routed, Direct
<1>3. CASE Request(action, ids) = <<>>
  BY <1>3, NoneIsRight
<1>4. ASSUME NEW op \in {"100", "9", "10", "11", "12", "5.4", "5.3", "5.2", "6.4"}, NEW target,
             Request(action, ids) = <<[op |-> op, target |-> target]>>
      PROVE  RightFor(who, Request(action, ids))
  <2>1. PICK r : r = [op |-> op, target |-> target]
    OBVIOUS
  <2>2. r.op \notin {"101", "102", "103", "109", "200"}
    BY <2>1
  <2>3. QED BY <1>1, <1>4, <2>1, <2>2
<1>5. QED BY <1>2, <1>3, <1>4

\* A mow of edges.
LEMMA EdgeIsRight ==
    ASSUME NEW contours, NEW who,
           who # "service" => \A c \in contours : c[2] = 0,
           who = "button" /\ Outers(table) # {} => contours # {} /\ contours \subseteq Outers(table)
    PROVE  RightFor(who, Request("START_EDGE_MOW", contours))
<1>1. PICK edges : edges = Contours(contours)
  OBVIOUS
<1>2. PICK r : r = [op |-> "101", target |-> edges]
  OBVIOUS
<1>3. r.op = "101" /\ r.target = edges
  BY <1>2
<1>4. Request("START_EDGE_MOW", contours) = <<r>>
  BY <1>1, <1>2 DEF Request, Routed
<1>5. /\ edges # {} /\ (contours # {} => edges = contours)
      /\ \A c \in edges : c \in contours \/ c[2] = 0
  <2>1. PICK known : known = IF belief = Home THEN Outers(table) ELSE {}
    OBVIOUS
  <2>2. edges = IF contours # {} THEN contours ELSE IF known # {} THEN known ELSE {<<1, 0>>}
    BY <1>1, <2>1 DEF Contours
  <2>3. \A c \in known : c[2] = 0
    BY <2>1 DEF Outers
  <2>4. \A c \in {<<1, 0>>} : c[2] = 0
    OBVIOUS
  <2>5. QED BY <2>2, <2>3, <2>4
<1>6. Sendable(who, r)
  BY <1>3, <1>5 DEF Sendable
<1>7. who = "button" => Pressable(r)
  BY <1>3, <1>5 DEF Pressable
<1>8. QED BY <1>4, <1>6, <1>7, OneIsRight

\* A mow of zones.
LEMMA ZonesAreRight ==
    ASSUME NEW ids, NEW who, who = "button" /\ table.zones # <<>> => ids \cap ToSet(table.zones) # {}
    PROVE  RightFor(who, Request("START_ZONE_MOW", ids))
<1>1. PICK r : r = [op |-> "102", target |-> ids]
  OBVIOUS
<1>2. r.op = "102" /\ r.target = ids
  BY <1>1
<1>3. Request("START_ZONE_MOW", ids) = IF ids = {} THEN <<>> ELSE <<r>>
  BY <1>1 DEF Request, Routed
<1>4. ids # {} => Sendable(who, r)
  BY <1>2 DEF Sendable
<1>5. who = "button" => Pressable(r)
  BY <1>2 DEF Pressable
<1>6. QED BY <1>3, <1>4, <1>5, OneIsRight, NoneIsRight

\* A mow of spots.
LEMMA SpotsAreRight ==
    ASSUME NEW ids, NEW who, who = "button" /\ table.spots # <<>> => ids \cap ToSet(table.spots) # {}
    PROVE  RightFor(who, Request("START_SPOT_MOW", ids))
<1>1. PICK r : r = [op |-> "103", target |-> ids]
  OBVIOUS
<1>2. r.op = "103" /\ r.target = ids
  BY <1>1
<1>3. Request("START_SPOT_MOW", ids) = IF ids = {} THEN <<>> ELSE <<r>>
  BY <1>1 DEF Request, Routed
<1>4. ids # {} => Sendable(who, r)
  BY <1>2 DEF Sendable
<1>5. who = "button" => Pressable(r)
  BY <1>2 DEF Pressable
<1>6. QED BY <1>3, <1>4, <1>5, OneIsRight, NoneIsRight

\* The selection stays as it is, or is chosen and settled.
LEMMA DataIsSettled == CommandsInv => IsData(data) /\ OnTable(data, table) /\ Table(table)
BY DEF CommandsInv

\* A request, and another one after it.
LEMMA Pair ==
    ASSUME NEW r, NEW q
    PROVE  <<>> \o <<q>> = <<q>> /\ <<r>> \o <<>> = <<r>> /\ <<>> \o <<>> = <<>> /\ <<r>> \o <<q>> = <<r, q>>
<1>1. <<r>> \in Seq({q, r}) /\ <<q>> \in Seq({q, r})
  OBVIOUS
<1>2. PICK s : s = <<r>> \o <<q>>
  OBVIOUS
<1>3. s \in Seq({q, r}) /\ Len(s) = 2 /\ s[1] = r /\ s[2] = q
  BY <1>1, <1>2
<1>4. s = <<r, q>>
  BY <1>3
<1>5. <<>> \o <<q>> = <<q>>
  OBVIOUS
<1>6. <<r>> \o <<>> = <<r>>
  OBVIOUS
<1>7. <<>> \o <<>> = <<>>
  OBVIOUS
<1>8. QED BY <1>2, <1>4, <1>5, <1>6, <1>7

\* A request to switch the map may come first.
LEMMA PairIsRight ==
    ASSUME NEW who, NEW r, NEW rs, Sendable(who, r), RightFor(who, rs), who # "button",
           rs = <<>> \/ \E q : rs = <<q>>
    PROVE  RightFor(who, <<>> \o rs) /\ RightFor(who, <<r>> \o rs)
<1>1. CASE rs = <<>>
  BY <1>1, Pair, OneIsRight, NoneIsRight
<1>2. ASSUME NEW q, rs = <<q>> PROVE RightFor(who, <<>> \o rs) /\ RightFor(who, <<r>> \o rs)
  <2>1. Sendable(who, q)
    <3>1. DOMAIN <<q>> = {1} /\ <<q>>[1] = q
      OBVIOUS
    <3>2. QED BY <1>2, <3>1 DEF RightFor
  <2>2. DOMAIN <<r, q>> = {1, 2} /\ <<r, q>>[1] = r /\ <<r, q>>[2] = q
    OBVIOUS
  <2>3. RightFor(who, <<r, q>>)
    BY <2>1, <2>2 DEF RightFor
  <2>4. RightFor(who, <<q>>)
    BY <2>1, OneIsRight
  <2>5. QED BY <1>2, <2>3, <2>4, Pair
<1>3. QED BY <1>1, <1>2

\* The active map is switched before a command of another map.
LEMMA OnMapStep ==
    ASSUME CommandsInv, NEW who \in {"mode select", "point button"}, NEW m, NEW action, NEW ids,
           RightFor(who, Request(action, ids)), OnMap(who, m, action, ids),
           \/ Request(action, ids) = <<>>
           \/ \E r : Request(action, ids) = <<r>>
    PROVE  CommandsInv'
<1>1. PICK rs : rs = Request(action, ids)
  OBVIOUS
<1>2. PICK r : r = [op |-> "200", target |-> {m}]
  OBVIOUS
<1>3. Request("SET_ACTIVE_MAP", {m}) = <<r>>
  BY <1>2 DEF Request, Routed
<1>4. Sendable(who, r)
  BY <1>2 DEF Sendable
<1>5. PICK all : all = sent'
  OBVIOUS
<1>6. \/ all = <<>> \o rs
      \/ all = <<r>> \o rs
  BY <1>1, <1>3, <1>5 DEF OnMap, Send
<1>7. RightFor(who, <<>> \o rs) /\ RightFor(who, <<r>> \o rs)
  BY <1>1, <1>4, PairIsRight
<1>8. RightFor(who, all)
  BY <1>6, <1>7
<1>9. PICK d : d = data
  OBVIOUS
<1>10. data' = d /\ table' = table /\ by' = who
  BY <1>9 DEF OnMap, Send
<1>11. QED BY <1>5, <1>8, <1>9, <1>10, DataIsSettled, SentStep

\* A request has a target or is none.
LEMMA OneRequest ==
    ASSUME NEW action, NEW ids,
           action \in {"START_MOWING", "START_EDGE_MOW", "START_ZONE_MOW", "START_SPOT_MOW", "GO_TO_POINT"}
    PROVE  Request(action, ids) = <<>> \/ \E r : Request(action, ids) = <<r>>
BY DEF Request, Routed

\* What is sent without a change of the selection.
LEMMA DispatchStep ==
    ASSUME CommandsInv, NEW who, NEW action, NEW ids, Dispatch(who, action, ids),
           RightFor(who, Request(action, ids))
    PROVE  CommandsInv'
<1>1. PICK d : d = data
  OBVIOUS
<1>2. PICK rs : rs = Request(action, ids)
  OBVIOUS
<1>3. data' = d /\ table' = table /\ by' = who /\ sent' = rs
  BY <1>1, <1>2 DEF Dispatch, Send
<1>4. QED BY <1>1, <1>2, <1>3, DataIsSettled, SentStep

\* The start button and the entity.
LEMMA StartCommandStep ==
    ASSUME CommandsInv, NEW who \in {"button", "entity"}, Start(who)
    PROVE  CommandsInv'
<1>1. IsData(data) /\ OnTable(data, table) /\ Table(table) /\ data.mode \in Modes
  BY DEF CommandsInv, IsData
<1>2. CASE data.mode = "all_areas"
  BY <1>2, PlainIsRight, DispatchStep DEF Start, Plain
<1>3. CASE data.mode = "edge"
  <2>1. PICK contours : contours = IF who = "entity" THEN {} ELSE data.contours
    OBVIOUS
  <2>2. Dispatch(who, "START_EDGE_MOW", contours)
    BY <1>3, <2>1 DEF Start
  <2>3. RightFor(who, Request("START_EDGE_MOW", contours))
    <3>1. \A c \in contours : c[2] = 0
      BY <1>1, <2>1 DEF IsData
    <3>2. who = "button" /\ Outers(table) # {} => contours # {} /\ contours \subseteq Outers(table)
      BY <1>1, <2>1 DEF OnTable
    <3>3. QED BY <3>1, <3>2, EdgeIsRight
  <2>4. QED BY <2>2, <2>3, DispatchStep
<1>4. CASE data.mode = "zone"
  <2>1. data.zones # <<>> /\ Dispatch(who, "START_ZONE_MOW", ToSet(data.zones))
    BY <1>4 DEF Start
  <2>2. data.zones[1] \in ToSet(data.zones)
    BY <1>1, <2>1, ListedFirst DEF IsData
  <2>3. table.zones # <<>> => ToSet(data.zones) \cap ToSet(table.zones) # {}
    BY <1>1, <2>2 DEF OnTable, FirstIn
  <2>4. QED BY <2>1, <2>3, ZonesAreRight, DispatchStep
<1>5. CASE data.mode = "spot"
  <2>1. data.spots # <<>> /\ Dispatch(who, "START_SPOT_MOW", ToSet(data.spots))
    BY <1>5 DEF Start
  <2>2. data.spots[1] \in ToSet(data.spots)
    BY <1>1, <2>1, ListedFirst DEF IsData
  <2>3. table.spots # <<>> => ToSet(data.spots) \cap ToSet(table.spots) # {}
    BY <1>1, <2>2 DEF OnTable, FirstIn
  <2>4. QED BY <2>1, <2>3, SpotsAreRight, DispatchStep
<1>6. QED BY <1>1, <1>2, <1>3, <1>4, <1>5 DEF Modes

\* The mowing-mode select and the point button.
LEMMA OnMapsStep ==
    ASSUME CommandsInv, NEW m \in {Home, Away}, MowingMode(m) \/ HeadToPoint(m)
    PROVE  CommandsInv'
<1>0. "mode select" # "button" /\ "mode select" \in {"mode select", "point button"}
  OBVIOUS
<1>1. ASSUME NEW action \in {"START_MOWING", "START_EDGE_MOW", "START_ZONE_MOW", "START_SPOT_MOW"}, NEW ids,
             RightFor("mode select", Request(action, ids)), OnMap("mode select", m, action, ids)
      PROVE  CommandsInv'
  <2>1. Request(action, ids) = <<>> \/ \E r : Request(action, ids) = <<r>>
    BY OneRequest
  <2>2. QED BY <1>0, <1>1, <2>1, OnMapStep
<1>2. RightFor("mode select", Request("START_MOWING", {}))
  BY PlainIsRight DEF Plain
<1>3. RightFor("mode select", Request("START_EDGE_MOW", {}))
  BY <1>0, EdgeIsRight
<1>4. ASSUME NEW x
      PROVE  /\ RightFor("mode select", Request("START_ZONE_MOW", {x}))
             /\ RightFor("mode select", Request("START_SPOT_MOW", {x}))
  BY <1>0, ZonesAreRight, SpotsAreRight
<1>5. CASE HeadToPoint(m)
  <2>1. PICK p : p = data.point[2]
    OBVIOUS
  <2>2. OnMap("point button", m, "GO_TO_POINT", {p})
    BY <1>5, <2>1 DEF HeadToPoint
  <2>3. PICK r : r = [op |-> "109", target |-> {p}]
    OBVIOUS
  <2>4. Request("GO_TO_POINT", {p}) = <<r>>
    BY <2>3 DEF Request, Routed
  <2>5. Sendable("point button", r)
    BY <2>3 DEF Sendable
  <2>6. RightFor("point button", <<r>>)
    BY <2>5, OneIsRight
  <2>7. QED BY <2>2, <2>4, <2>6, OneRequest, OnMapStep
<1>6. QED BY <1>1, <1>2, <1>3, <1>4, <1>5 DEF MowingMode

\* The selection is changed and something is asked for.
LEMMA ServiceStep ==
    ASSUME CommandsInv, NEW d, IsData(d), data' = Settled(d, table), NEW rs, RightFor("service", rs),
           Send("service", rs)
    PROVE  CommandsInv'
<1>1. PICK x : x = Settled(d, table)
  OBVIOUS
<1>2. IsData(x) /\ OnTable(x, table)
  BY <1>1, SettledIsOnMap, DataIsSettled
<1>3. data' = x /\ table' = table /\ by' = "service" /\ sent' = rs
  BY <1>1 DEF Send
<1>4. QED BY <1>2, <1>3, SentStep

\* A selection or a lock is set.
LEMMA SelectionIsData ==
    ASSUME CommandsInv
    PROVE  /\ \A m \in Modes : IsData([data EXCEPT !.mode = m])
           /\ \A zs \in Seq(Int) : IsData([data EXCEPT !.zones = zs])
           /\ \A ss \in Seq(Int) : IsData([data EXCEPT !.spots = ss])
           /\ \A zs, ss \in Seq(Int) : IsData([data EXCEPT !.zones = zs, !.spots = ss])
           /\ \A m \in Modes, zs \in Seq(Int) : IsData([data EXCEPT !.mode = m, !.zones = zs])
           /\ \A m \in Modes, ss \in Seq(Int) : IsData([data EXCEPT !.mode = m, !.spots = ss])
           /\ \A label \in Labels(table) : IsData([data EXCEPT !.contours = label])
           /\ \A p : IsData([data EXCEPT !.point = p])
           /\ \A on : IsData([data EXCEPT !.lock = on])
<1>1. IsData(data)
  BY DEF CommandsInv
<1>2. \A label \in Labels(table) : \A c \in label : c[2] = 0
  BY DEF Labels, Outers
<1>3. PICK d : d = data
  OBVIOUS
<1>4. IsData(d)
  BY <1>1, <1>3
<1>5. ASSUME NEW m \in Modes PROVE IsData([d EXCEPT !.mode = m])
  <2>1. PICK x : x = [d EXCEPT !.mode = m]
    OBVIOUS
  <2>2. IsData(x)
    BY <1>4, <2>1 DEF IsData
  <2>3. QED BY <2>1, <2>2
<1>6. ASSUME NEW zs \in Seq(Int) PROVE IsData([d EXCEPT !.zones = zs])
  <2>1. PICK x : x = [d EXCEPT !.zones = zs]
    OBVIOUS
  <2>2. IsData(x)
    BY <1>4, <2>1 DEF IsData
  <2>3. QED BY <2>1, <2>2
<1>7. ASSUME NEW ss \in Seq(Int) PROVE IsData([d EXCEPT !.spots = ss])
  <2>1. PICK x : x = [d EXCEPT !.spots = ss]
    OBVIOUS
  <2>2. IsData(x)
    BY <1>4, <2>1 DEF IsData
  <2>3. QED BY <2>1, <2>2
<1>8. ASSUME NEW zs \in Seq(Int), NEW ss \in Seq(Int) PROVE IsData([d EXCEPT !.zones = zs, !.spots = ss])
  <2>1. PICK x : x = [d EXCEPT !.zones = zs]
    OBVIOUS
  <2>2. IsData(x)
    BY <1>4, <2>1 DEF IsData
  <2>3. PICK y : y = [x EXCEPT !.spots = ss]
    OBVIOUS
  <2>4. IsData(y)
    BY <2>2, <2>3 DEF IsData
  <2>5. QED BY <2>1, <2>3, <2>4
<1>9. ASSUME NEW m \in Modes, NEW zs \in Seq(Int) PROVE IsData([d EXCEPT !.mode = m, !.zones = zs])
  <2>1. PICK x : x = [d EXCEPT !.mode = m]
    OBVIOUS
  <2>2. IsData(x)
    BY <1>4, <2>1 DEF IsData
  <2>3. PICK y : y = [x EXCEPT !.zones = zs]
    OBVIOUS
  <2>4. IsData(y)
    BY <2>2, <2>3 DEF IsData
  <2>5. QED BY <2>1, <2>3, <2>4
<1>10. ASSUME NEW m \in Modes, NEW ss \in Seq(Int) PROVE IsData([d EXCEPT !.mode = m, !.spots = ss])
  <2>1. PICK x : x = [d EXCEPT !.mode = m]
    OBVIOUS
  <2>2. IsData(x)
    BY <1>4, <2>1 DEF IsData
  <2>3. PICK y : y = [x EXCEPT !.spots = ss]
    OBVIOUS
  <2>4. IsData(y)
    BY <2>2, <2>3 DEF IsData
  <2>5. QED BY <2>1, <2>3, <2>4
<1>11. ASSUME NEW label \in Labels(table) PROVE IsData([d EXCEPT !.contours = label])
  <2>1. PICK x : x = [d EXCEPT !.contours = label]
    OBVIOUS
  <2>2. IsData(x)
    BY <1>4, <2>1, <1>2 DEF IsData
  <2>3. QED BY <2>1, <2>2
<1>12. ASSUME NEW p PROVE IsData([d EXCEPT !.point = p])
  <2>1. PICK x : x = [d EXCEPT !.point = p]
    OBVIOUS
  <2>2. IsData(x)
    BY <1>4, <2>1 DEF IsData
  <2>3. QED BY <2>1, <2>2
<1>13. ASSUME NEW on PROVE IsData([d EXCEPT !.lock = on])
  <2>1. PICK x : x = [d EXCEPT !.lock = on]
    OBVIOUS
  <2>2. IsData(x)
    BY <1>4, <2>1 DEF IsData
  <2>3. QED BY <2>1, <2>2
<1>14. QED BY <1>3, <1>4, <1>5, <1>6, <1>7, <1>8, <1>9, <1>10, <1>11, <1>12, <1>13

\* The ids that are given are lists.
LEMMA GivenAreIds == \A ids \in GivenIds : ids \in Seq(Int)
<1>1. <<>> \in Seq(Int)
  OBVIOUS
<1>2. <<1>> \in Seq(Int)
  OBVIOUS
<1>3. <<2>> \in Seq(Int)
  OBVIOUS
<1>4. <<2, 1>> \in Seq(Int)
  OBVIOUS
<1>5. QED BY <1>1, <1>2, <1>3, <1>4, Zenon DEF GivenIds

\* A selection is made, or a map arrives.
LEMMA PickStep ==
    ASSUME CommandsInv, CommandsAssumption,
           \/ \E t \in Tables : MapArrives(t) \/ Restart(t)
           \/ \E m \in {None, Home, Away} : Believe(m)
           \/ \E m \in Modes : PickMode(m)
           \/ \E z \in ToSet(table.zones) : PickZone(z)
           \/ \E s \in ToSet(table.spots) : PickSpot(s)
           \/ \E label \in Labels(table) : PickEdge(label)
           \/ \E p \in table.points \cup {None} : PickPoint(p)
           \/ \E zs, ss \in GivenIds : SetActiveSelection(zs, ss)
           \/ \E on \in BOOLEAN : ReadLock(on)
    PROVE  CommandsInv'
<1>1. IsData(data) /\ OnTable(data, table) /\ Table(table) /\ TargetsAreOnMap
  BY DEF CommandsInv
<1>2. \A t \in Tables : Table(t)
  BY DEF CommandsAssumption, Table
<1>3. ASSUME NEW d, IsData(d), Quiet(d) PROVE CommandsInv'
  BY <1>1, <1>3, SettleStep DEF Quiet
<1>4. ASSUME NEW t \in Tables, MapArrives(t) PROVE CommandsInv'
  BY <1>1, <1>2, <1>4, SettleStep DEF MapArrives
<1>5. ASSUME NEW t \in Tables, Restart(t) PROVE CommandsInv'
  <2>1. PICK d : d = [Nothing EXCEPT !.mode = data.mode,
                                     !.zones = First(data.zones), !.spots = First(data.spots)]
    OBVIOUS
  <2>2. d = [mode |-> data.mode, zones |-> First(data.zones), spots |-> First(data.spots), contours |-> {},
             point |-> None, lock |-> None]
    BY <2>1 DEF Nothing
  <2>3. \A ids \in Seq(Int) : First(ids) \in Seq(Int)
    BY DEF First
  <2>4. IsData(d)
    BY <1>1, <2>2, <2>3 DEF IsData
  <2>5. QED BY <1>2, <1>5, <2>1, <2>4, SettleStep DEF Restart
<1>6. ASSUME NEW m, Believe(m) PROVE CommandsInv'
  <2>1. PICK d : d = data
    OBVIOUS
  <2>2. data' = d /\ table' = table /\ sent' = <<>> /\ by' = None
    BY <1>6, <2>1 DEF Believe
  <2>3. QED BY <1>1, <2>1, <2>2, NoneIsRight, SentStep
<1>7. ASSUME NEW m \in Modes, PickMode(m) PROVE CommandsInv'
  BY <1>3, <1>7, SelectionIsData DEF PickMode
<1>8. ASSUME NEW z \in ToSet(table.zones), PickZone(z) PROVE CommandsInv'
  <2>1. z \in Int
    BY <1>1 DEF Table, ToSet
  <2>2. <<z>> \in Seq(Int)
    BY <2>1
  <2>3. QED BY <1>3, <1>8, <2>2, SelectionIsData DEF PickZone
<1>9. ASSUME NEW z \in ToSet(table.spots), PickSpot(z) PROVE CommandsInv'
  <2>1. z \in Int
    BY <1>1 DEF Table, ToSet
  <2>2. <<z>> \in Seq(Int)
    BY <2>1
  <2>3. QED BY <1>3, <1>9, <2>2, SelectionIsData DEF PickSpot
<1>10. ASSUME NEW label \in Labels(table), PickEdge(label) PROVE CommandsInv'
  BY <1>3, <1>10, SelectionIsData DEF PickEdge
<1>11. ASSUME NEW p, PickPoint(p) PROVE CommandsInv'
  <2>1. PICK point : point = IF p = None THEN None ELSE <<Home, p>>
    OBVIOUS
  <2>2. Quiet([data EXCEPT !.point = point])
    BY <1>11, <2>1 DEF PickPoint
  <2>3. QED BY <1>3, <2>2, SelectionIsData
<1>12. ASSUME NEW zs \in GivenIds, NEW ss \in GivenIds, SetActiveSelection(zs, ss) PROVE CommandsInv'
  <2>1. zs \in Seq(Int) /\ ss \in Seq(Int)
    BY GivenAreIds
  <2>2. QED BY <1>3, <1>12, <2>1, SelectionIsData DEF SetActiveSelection
<1>13. ASSUME NEW on, ReadLock(on) PROVE CommandsInv'
  BY <1>3, <1>13, SelectionIsData DEF ReadLock
<1>14. QED BY <1>4, <1>5, <1>6, <1>7, <1>8, <1>9, <1>10, <1>11, <1>12, <1>13

\* The services and the buttons.
LEMMA ServicesStep ==
    ASSUME CommandsInv,
           \/ \E zs \in GivenIds : MowZone(zs) \/ MowSpot(zs)
           \/ \E contours \in {{}, {<<1, 1>>}} : MowEdge(contours)
           \/ \E a \in {"PAUSE", "STOP", "RECHARGE", "FIND_BOT", "LOCK_BOT", "GENERATE_3D_MAP",
                        "FINALIZE_SESSION"} : Press(a)
           \/ \E a \in {"RECHARGE", "FIND_BOT", "SUPPRESS_FAULT", "FINALIZE_SESSION", "DOCK"} : Simple(a)
           \/ ToggleLock
    PROVE  CommandsInv'
<1>1. "service" # "button" /\ "zone" \in Modes /\ "spot" \in Modes
  BY DEF Modes
<1>2. \A zs \in GivenIds : zs \in Seq(Int)
  BY GivenAreIds
<1>3. ASSUME NEW zs \in GivenIds, MowZone(zs) PROVE CommandsInv'
  <2>1. IsData([data EXCEPT !.mode = "zone", !.zones = zs])
    BY <1>1, <1>2, SelectionIsData
  <2>2. RightFor("service", Request("START_ZONE_MOW", ToSet(zs)))
    BY <1>1, ZonesAreRight
  <2>3. QED BY <1>3, <2>1, <2>2, ServiceStep DEF MowZone
<1>4. ASSUME NEW ss \in GivenIds, MowSpot(ss) PROVE CommandsInv'
  <2>1. IsData([data EXCEPT !.mode = "spot", !.spots = ss])
    BY <1>1, <1>2, SelectionIsData
  <2>2. RightFor("service", Request("START_SPOT_MOW", ToSet(ss)))
    BY <1>1, SpotsAreRight
  <2>3. QED BY <1>4, <2>1, <2>2, ServiceStep DEF MowSpot
<1>5. ASSUME NEW contours, MowEdge(contours) PROVE CommandsInv'
  <2>1. RightFor("service", Request("START_EDGE_MOW", contours))
    BY <1>1, EdgeIsRight
  <2>2. QED BY <1>5, <2>1, DispatchStep DEF MowEdge
<1>6. ASSUME NEW a \in Plain, Press(a) \/ Simple(a) PROVE CommandsInv'
  BY <1>6, PlainIsRight, DispatchStep DEF Press, Simple
<1>7. CASE ToggleLock
  <2>1. PICK locked : locked = (data.lock # TRUE)
    OBVIOUS
  <2>2. /\ data' = Settled([data EXCEPT !.lock = locked], table)
        /\ Send("service", Routed("CLS", {locked}))
    BY <1>7, <2>1 DEF ToggleLock
  <2>3. IsData([data EXCEPT !.lock = locked])
    BY SelectionIsData
  <2>4. RightFor("service", Routed("CLS", {locked}))
    <3>1. PICK r : r = [op |-> "CLS", target |-> {locked}]
      OBVIOUS
    <3>2. Sendable("service", r)
      BY <3>1 DEF Sendable
    <3>3. QED BY <1>1, <3>1, <3>2, OneIsRight DEF Routed
  <2>5. QED BY <2>2, <2>3, <2>4, ServiceStep
<1>8. QED BY <1>3, <1>4, <1>5, <1>6, <1>7 DEF Plain

\* No command has been given, and the map is not there yet.
LEMMA InitCommands == CommandsInit => CommandsInv
<1>1. SUFFICES ASSUME CommandsInit PROVE CommandsInv
  OBVIOUS
<1>2. Table(table) /\ Outers(table) = {} /\ table.zones = <<>> /\ table.spots = <<>>
  BY <1>1 DEF CommandsInit, Table, Empty, Outers
<1>3. IsData(data)
  BY <1>1 DEF CommandsInit, IsData, Nothing, Modes
<1>4. OnTable(data, table)
  BY <1>2 DEF OnTable, FirstIn
<1>5. TargetsAreOnMap
  BY <1>1 DEF CommandsInit, TargetsAreOnMap
<1>6. QED BY <1>2, <1>3, <1>4, <1>5 DEF CommandsInv

\* What the start button sends is on the map as it was last refreshed, and no
\* mow is asked for without a target or, but by a service, of a seam
\* (dispatch_action, _DreameA2DynamicTargetSelect).
THEOREM TargetsAreRight == CommandsSpec => []TargetsAreOnMap
<1>1. CommandsInv /\ [CommandsNext]_commandsVars => CommandsInv'
  <2>1. SUFFICES ASSUME CommandsInv, [CommandsNext]_commandsVars PROVE CommandsInv'
    OBVIOUS
  <2>2. CASE UNCHANGED commandsVars
    <3>1. UNCHANGED <<data, table, sent, by>>
      BY <2>2 DEF commandsVars
    <3>2. QED BY <2>1, <3>1 DEF CommandsInv, Table, IsData, OnTable, FirstIn, Outers, TargetsAreOnMap
  <2>3. CASE CommandsNext
    BY <2>1, <2>3, CommandsAssumption, PickStep, ServicesStep, StartCommandStep, OnMapsStep DEF CommandsNext
  <2>4. QED BY <2>1, <2>2, <2>3
<1>2. CommandsInv => TargetsAreOnMap
  BY DEF CommandsInv
<1>3. QED BY <1>1, <1>2, InitCommands, PTL DEF CommandsSpec

-----------------------------------------------------------------------------
(***************************************************************************)
(* The pictures of the lawns, for every number of drawings at once and     *)
(* every bound.  The invariant follows a refresh that nothing disturbs: it *)
(* says of each drawing under way, the refresh and the one that a new      *)
(* active map has started, that what it carries is true, and so whatever   *)
(* order they end in leaves the view and its base true.                    *)
(***************************************************************************)
IsTask(k) ==
    k = [kind |-> k.kind, pc |-> k.pc, todo |-> k.todo, picture |-> k.picture]

\* A session that is being loaded is archived, of its map.
LoadsArchived(k) ==
    k.pc = "load" => /\ k.picture.map \in TheMaps
                     /\ k.picture.obstacles \in 1 .. sessions[k.picture.map]
TaskOK(k) == IsTask(k) /\ (k.pc = "idle" => k = NoTask) /\ LoadsArchived(k)
\* A drawing that has begun, or none.
LoadsNothing(k) == IsTask(k) /\ k.pc # "load" /\ (k.pc = "idle" => k = NoTask)

PicturesTyped ==
    /\ mowerMap \in TheMaps
    /\ sessions \in [TheMaps -> Nat]
    /\ cloudLots \in [TheMaps -> Lots]
    /\ DOMAIN held \subseteq TheMaps
    /\ DOMAIN obstacles \subseteq TheMaps
    /\ \A m \in DOMAIN obstacles : obstacles[m] \in 0 .. sessions[m]
    /\ tasks = [t \in Tasks |-> tasks[t]]
    /\ \A t \in Tasks : TaskOK(tasks[t])

TruePicture(p) ==
    \E n \in {None} \cup 1 .. sessions[mowerMap] :
        p = [map |-> mowerMap, lot |-> cloudLots[mowerMap], scene |-> scene,
             obstacles |-> IF scene.phase = "mowing" THEN None ELSE n, width |-> scene.width]
StaticIsTrue(m) == m \in DOMAIN pictures /\ pictures[m].print = cloudLots[m].print
StaticsAreTrue == \A m \in TheMaps : StaticIsTrue(m)

\* What a drawing carries, in a calm.
Carries(k) ==
    /\ k.pc \in {"fetch", "statics", "main", "load", "draw", "base", "base again"}
    /\ k.kind \in {"refresh", "view"}
    /\ k.pc \in {"fetch", "statics", "base again"} => k.kind = "refresh"
    /\ k.pc # "fetch" => held = cloudLots /\ activeMap = mowerMap
    /\ k.pc = "statics" => \E D \in SUBSET TheMaps :
           /\ k.todo = [m \in D |-> cloudLots[m]]
           /\ \A m \in TheMaps \ D : StaticIsTrue(m)
    /\ k.kind = "refresh" /\ k.pc \notin {"fetch", "statics"} => StaticsAreTrue
    /\ k.pc = "load" => \E o \in 1 .. sessions[mowerMap] :
           /\ scene.phase # "mowing"
           /\ k.picture = [map |-> mowerMap, lot |-> cloudLots[mowerMap], scene |-> scene,
                           obstacles |-> o, width |-> None]
    /\ k.pc = "draw" => TruePicture(k.picture)
    /\ k.pc \in {"base", "base again"} => k.picture = [map |-> mowerMap, lot |-> cloudLots[mowerMap]]
    /\ k.kind = "refresh" /\ k.pc \in {"base", "base again"} => IsTrue(mainView)

Calm ==
    calm # "no" =>
        /\ \A t \in Tasks : ~Free(t) => Carries(tasks[t])
        /\ \A t \in Tasks : tasks[t].pc = "fetch" => \A s \in Tasks : s # t => Free(s)
        /\ \A t \in Tasks : ~Free(t) /\ tasks[t].kind = "refresh" =>
               /\ calm = "refreshing"
               /\ \A s \in Tasks : ~Free(s) /\ tasks[s].kind = "refresh" => s = t

AllTrue ==
    /\ held = cloudLots /\ activeMap = mowerMap /\ StaticsAreTrue
    /\ IsTrue(mainView) /\ IsTrue(seen)
    /\ base.lot.print = cloudLots[mowerMap].print
Refreshed == calm = "refreshed" => AllTrue

PicturesInv == PicturesTyped /\ Calm /\ Refreshed

\* No drawing is under way at first.
LEMMA InitPictures == PicturesInit => PicturesInv
<1>1. SUFFICES ASSUME PicturesInit PROVE PicturesInv
  OBVIOUS
<1>2. \A t \in Tasks : TaskOK(tasks[t])
  BY <1>1 DEF PicturesInit, TaskOK, IsTask, LoadsArchived, NoTask
<1>3. PicturesTyped
  BY <1>1, <1>2, PicturesAssumption DEF PicturesInit, PicturesTyped, TheMaps, NoMaps
<1>4. QED BY <1>1, <1>3 DEF PicturesInv, PicturesInit, Calm, Refreshed

\* What the invariant is for.
LEMMA TruthCatchesUp == PicturesInv => PicturesCatchUp
  BY DEF PicturesInv, Refreshed, AllTrue, PicturesCatchUp, StaticsAreTrue, StaticIsTrue

(* What a drawing becomes.                                                 *)
LEMMA TaskUpdates ==
    ASSUME NEW k, IsTask(k), NEW a, NEW x
    PROVE  /\ x = [k EXCEPT !.pc = a] =>
                  IsTask(x) /\ x.pc = a /\ x.kind = k.kind /\ x.todo = k.todo /\ x.picture = k.picture
           /\ x = [k EXCEPT !.todo = a] =>
                  IsTask(x) /\ x.pc = k.pc /\ x.kind = k.kind /\ x.todo = a
<1>1. ASSUME x = [k EXCEPT !.pc = a]
      PROVE  IsTask(x) /\ x.pc = a /\ x.kind = k.kind /\ x.todo = k.todo /\ x.picture = k.picture
  BY <1>1 DEF IsTask
<1>2. ASSUME x = [k EXCEPT !.todo = a]
      PROVE  IsTask(x) /\ x.pc = k.pc /\ x.kind = k.kind /\ x.todo = a
  BY <1>2 DEF IsTask
<1>3. QED BY <1>1, <1>2

\* A drawing that is not under way.
LEMMA FreeTask == IsTask(NoTask) /\ NoTask.pc = "idle" /\ TaskOK(NoTask)
  BY DEF IsTask, NoTask, TaskOK, LoadsArchived

\* A drawing that begins.
LEMMA BegunTask ==
    ASSUME NEW kind, NEW pc \in {"fetch", "main", "trail"}, NEW x, x = Begun(kind, pc)
    PROVE  TaskOK(x) /\ x.kind = kind /\ x.pc = pc
BY DEF Begun, IsTask, NoTask, TaskOK, LoadsArchived

(* What stays true of a drawing when another one moves on.                 *)
LEMMA CarriesStill ==
    ASSUME NEW k, Carries(k), UNCHANGED <<cloudLots, mowerMap, scene, sessions, held, activeMap>>,
           \A m \in TheMaps : StaticIsTrue(m) => StaticIsTrue(m)',
           IsTrue(mainView) => IsTrue(mainView)'
    PROVE  Carries(k)'
BY DEF Carries, StaticsAreTrue, TruePicture

(* A step of one drawing: it is enough to look at what it has become.      *)
LEMMA StepOfTask ==
    ASSUME PicturesInv, NEW t \in Tasks, ~Free(t), NEW x, Becomes(t, x), TaskOK(x)',
           x.pc # "fetch", x.pc # "idle" => x.kind = tasks[t].kind,
           UNCHANGED <<cloudLots, mowerMap, scene, sessions, held, activeMap>>,
           DOMAIN obstacles' \subseteq TheMaps,
           \A m \in DOMAIN obstacles' : obstacles'[m] \in 0 .. sessions[m],
           calm # "no" => /\ \A m \in TheMaps : StaticIsTrue(m) => StaticIsTrue(m)'
                          /\ IsTrue(mainView) => IsTrue(mainView)'
                          /\ x.pc # "idle" => Carries(x)',
           \/ calm' = calm
           \/ calm = "refreshing" /\ calm' = "refreshed" /\ x.pc = "idle" /\ tasks[t].kind = "refresh"
    PROVE  PicturesTyped' /\ Calm'
<1>1. tasks'[t] = x /\ (\A s \in Tasks : s # t => tasks'[s] = tasks[s])
      /\ tasks' = [s \in Tasks |-> tasks'[s]]
  BY DEF PicturesInv, PicturesTyped, Becomes
<1>2. PicturesTyped'
  <2>1. \A s \in Tasks : TaskOK(tasks[s])'
    BY <1>1 DEF PicturesInv, PicturesTyped, TaskOK, LoadsArchived
  <2>2. QED BY <1>1, <2>1 DEF PicturesInv, PicturesTyped
<1>3. Calm'
  <2>1. SUFFICES ASSUME calm' # "no" PROVE Calm'
    BY DEF Calm
  <2>2. calm # "no"
    BY <2>1
  <2>3. ASSUME NEW s \in Tasks, ~Free(s)' PROVE Carries(tasks[s])'
    <3>1. CASE s = t
      BY <1>1, <2>2, <2>3, <3>1 DEF Free, Carries, StaticsAreTrue, StaticIsTrue, TruePicture
    <3>2. CASE s # t
      <4>1. Carries(tasks[s])
        BY <1>1, <2>2, <2>3, <3>2 DEF PicturesInv, Calm, Free
      <4>2. PICK k : k = tasks[s]
        OBVIOUS
      <4>3. Carries(k)'
        BY <2>2, <4>1, <4>2, CarriesStill
      <4>4. tasks'[s] = k
        BY <1>1, <3>2, <4>2
      <4>5. QED BY <4>3, <4>4 DEF Carries, StaticsAreTrue, StaticIsTrue, TruePicture
    <3>3. QED BY <3>1, <3>2
  <2>4. ASSUME NEW s \in Tasks, (tasks[s].pc = "fetch")', NEW q \in Tasks, q # s PROVE Free(q)'
    <3>1. s # t
      BY <1>1, <2>4
    <3>2. FALSE
      BY <1>1, <2>2, <2>4, <3>1 DEF PicturesInv, Calm, Free
    <3>3. QED BY <3>2
  <2>5. ASSUME NEW s \in Tasks, ~Free(s)', (tasks[s].kind = "refresh")'
        PROVE  /\ calm' = "refreshing"
               /\ \A q \in Tasks : ~Free(q)' /\ (tasks[q].kind = "refresh")' => q = s
    <3>1. \A q \in Tasks : ~Free(q)' /\ (tasks[q].kind = "refresh")' => ~Free(q) /\ tasks[q].kind = "refresh"
      BY <1>1 DEF Free
    <3>2. /\ ~Free(s) /\ tasks[s].kind = "refresh"
          /\ calm = "refreshing" /\ \A q \in Tasks : ~Free(q) /\ tasks[q].kind = "refresh" => q = s
      BY <2>2, <2>5, <3>1 DEF PicturesInv, Calm
    <3>3. calm' = "refreshing"
      BY <1>1, <2>5, <3>2 DEF Free
    <3>4. QED BY <3>1, <3>2, <3>3
  <2>6. QED BY <2>3, <2>4, <2>5 DEF Calm
<1>4. QED BY <1>2, <1>3

(* An event, or a drawing that begins, ends a calm; then only what is      *)
(* typed is at stake.                                                      *)
LEMMA Disturbance ==
    ASSUME PicturesInv, calm' = "no",
           mowerMap' \in TheMaps, cloudLots' \in [TheMaps -> Lots], DOMAIN held' \subseteq TheMaps,
           sessions' \in [TheMaps -> Nat], \A m \in TheMaps : sessions[m] <= sessions'[m],
           DOMAIN obstacles' \subseteq DOMAIN obstacles,
           \A m \in DOMAIN obstacles' : obstacles'[m] = obstacles[m],
           tasks' = [t \in Tasks |-> tasks'[t]],
           \A t \in Tasks : tasks'[t] = tasks[t] \/ LoadsNothing(tasks'[t])
    PROVE  PicturesInv'
<1>1. \A t \in Tasks : TaskOK(tasks[t])'
  <2>1. TAKE t \in Tasks
  <2>2. TaskOK(tasks[t])
    BY DEF PicturesInv, PicturesTyped
  <2>3. \A m \in TheMaps : \A o \in 1 .. sessions[m] : o \in 1 .. sessions'[m]
    BY DEF PicturesInv, PicturesTyped
  <2>4. CASE tasks'[t] = tasks[t]
    BY <2>2, <2>3, <2>4 DEF TaskOK, LoadsArchived
  <2>5. CASE LoadsNothing(tasks'[t])
    BY <2>5 DEF LoadsNothing, TaskOK, LoadsArchived
  <2>6. QED BY <2>4, <2>5
<1>2. \A m \in DOMAIN obstacles' : obstacles'[m] \in 0 .. sessions'[m]
  <2>1. SUFFICES ASSUME NEW m \in DOMAIN obstacles' PROVE obstacles'[m] \in 0 .. sessions'[m]
    OBVIOUS
  <2>2. m \in TheMaps /\ obstacles'[m] \in 0 .. sessions[m]
    BY DEF PicturesInv, PicturesTyped
  <2>3. sessions[m] \in Nat /\ sessions'[m] \in Nat /\ sessions[m] <= sessions'[m]
    BY <2>2 DEF PicturesInv, PicturesTyped
  <2>4. QED BY <2>2, <2>3
<1>3. PicturesTyped'
  BY <1>1, <1>2 DEF PicturesInv, PicturesTyped
<1>4. QED BY <1>3 DEF PicturesInv, Calm, Refreshed

(* The tasks of an event: one of them begins, or none does.                *)
LEMMA StartsOne ==
    ASSUME PicturesInv, NEW kind, NEW pc \in {"main", "trail"},
           Starts(kind, pc) \/ UNCHANGED tasks
    PROVE  /\ tasks' = [t \in Tasks |-> tasks'[t]]
           /\ \A t \in Tasks : tasks'[t] = tasks[t] \/ LoadsNothing(tasks'[t])
<1>1. CASE UNCHANGED tasks
  BY <1>1 DEF PicturesInv, PicturesTyped
<1>2. CASE Starts(kind, pc)
  <2>0. PICK x : x = Begun(kind, pc)
    OBVIOUS
  <2>1. PICK s \in Tasks : x = Begun(kind, pc) /\ tasks' = [tasks EXCEPT ![s] = x]
    BY <1>2, <2>0 DEF Starts, Becomes
  <2>2. LoadsNothing(x)
    BY <2>1, BegunTask DEF TaskOK, LoadsNothing
  <2>3. tasks = [t \in Tasks |-> tasks[t]]
    BY DEF PicturesInv, PicturesTyped
  <2>4. tasks' = [t \in Tasks |-> tasks'[t]] /\ tasks'[s] = x /\ (\A t \in Tasks : t # s => tasks'[t] = tasks[t])
    BY <2>1, <2>3
  <2>5. QED BY <2>2, <2>4
<1>3. QED BY <1>1, <1>2

\* What happens to the mower, the cloud and the user.
LEMMA EventStep ==
    ASSUME PicturesInv,
           \/ AppEdits \/ PollMapl \/ Telemetry \/ Undock \/ TaskStarts \/ SessionEnds
           \/ \E m \in TheMaps, fromCloud \in BOOLEAN : ArchiveSession(m, fromCloud)
           \/ ArchiveLoads \/ SetOption
    PROVE  PicturesInv'
<1> USE DEF outside, cache
<1>0. /\ mowerMap \in TheMaps /\ cloudLots \in [TheMaps -> Lots] /\ DOMAIN held \subseteq TheMaps
      /\ sessions \in [TheMaps -> Nat] /\ \A m \in TheMaps : sessions[m] <= sessions[m]
      /\ tasks = [t \in Tasks |-> tasks[t]]
  BY DEF PicturesInv, PicturesTyped
<1>1. CASE AppEdits
  <2>1. mowerMap' \in TheMaps /\ cloudLots' \in [TheMaps -> Lots]
    BY <1>0, <1>1 DEF AppEdits
  <2>2. calm' = "no" /\ UNCHANGED <<held, sessions, obstacles, tasks>>
    BY <1>1 DEF AppEdits, Event
  <2>3. QED BY <1>0, <2>1, <2>2, Disturbance
<1>2. CASE PollMapl
  <2>1. calm' = "no" /\ UNCHANGED <<mowerMap, cloudLots, held, sessions, obstacles>>
    BY <1>2 DEF PollMapl, Event
  <2>2. Starts("view", "main") \/ UNCHANGED tasks
    BY <1>2 DEF PollMapl, ApplyMapl, Starts, Becomes
  <2>3. QED BY <1>0, <2>1, <2>2, StartsOne, Disturbance
<1>3. CASE Telemetry
  <2>1. calm' = "no" /\ UNCHANGED <<mowerMap, cloudLots, held, sessions, obstacles>>
    BY <1>3 DEF Telemetry, Event
  <2>2. \/ Starts("view", "trail") \/ UNCHANGED tasks
        \/ Starts("view", "main")
    BY <1>3 DEF Telemetry, MayStart
  <2>3. QED BY <1>0, <2>1, <2>2, StartsOne, Disturbance
<1>4. CASE Undock \/ TaskStarts \/ SessionEnds
  <2>1. calm' = "no" /\ UNCHANGED <<mowerMap, cloudLots, held, sessions, obstacles>>
    BY <1>4 DEF Undock, TaskStarts, SessionEnds, Leaves, Event
  <2>2. Starts("view", "main") \/ UNCHANGED tasks
    BY <1>4 DEF Undock, TaskStarts, SessionEnds, Leaves, MayStart
  <2>3. QED BY <1>0, <2>1, <2>2, StartsOne, Disturbance
<1>5. CASE \E m \in TheMaps, fromCloud \in BOOLEAN : ArchiveSession(m, fromCloud)
  <2>1. PICK m \in TheMaps, fromCloud \in BOOLEAN : ArchiveSession(m, fromCloud)
    BY <1>5
  <2>2. calm' = "no" /\ UNCHANGED <<mowerMap, cloudLots, held, tasks>>
    BY <2>1 DEF ArchiveSession, Event
  <2>3. sessions' \in [TheMaps -> Nat] /\ \A k \in TheMaps : sessions[k] <= sessions'[k]
    BY <1>0, <2>1 DEF ArchiveSession
  <2>4. DOMAIN obstacles' \subseteq DOMAIN obstacles /\ \A k \in DOMAIN obstacles' : obstacles'[k] = obstacles[k]
    BY <2>1 DEF ArchiveSession
  <2>5. QED BY <1>0, <2>2, <2>3, <2>4, Disturbance
<1>6. CASE ArchiveLoads
  <2>1. calm' = "no" /\ UNCHANGED <<mowerMap, cloudLots, held, sessions, obstacles>> /\ Starts("view", "main")
    BY <1>6 DEF ArchiveLoads
  <2>2. QED BY <1>0, <2>1, StartsOne, Disturbance
<1>7. CASE SetOption
  <2>1. calm' = "no" /\ UNCHANGED <<mowerMap, cloudLots, held, sessions, obstacles>> /\ Starts("option", "main")
    BY <1>7 DEF SetOption, Event
  <2>2. QED BY <1>0, <2>1, StartsOne, Disturbance
<1>8. QED BY <1>1, <1>2, <1>3, <1>4, <1>5, <1>6, <1>7

(* A refresh begins: in a calm of its own, if nothing is under way.        *)
LEMMA StartStep ==
    ASSUME PicturesInv, NEW t \in Tasks, StartRefresh(t)
    PROVE  PicturesInv'
<1>1. PICK x : x = Begun("refresh", "fetch")
  OBVIOUS
<1>2. IsTask(x) /\ x.kind = "refresh" /\ x.pc = "fetch" /\ LoadsNothing(x)
  BY <1>1, BegunTask DEF TaskOK, LoadsNothing
<1>3. /\ tasks'[t] = x /\ (\A s \in Tasks : s # t => tasks'[s] = tasks[s])
      /\ tasks' = [s \in Tasks |-> tasks'[s]]
  BY <1>1 DEF StartRefresh, Becomes, PicturesInv, PicturesTyped
<1>4. UNCHANGED <<mowerMap, cloudLots, held, sessions, obstacles>>
  BY DEF StartRefresh, outside, cache
<1>5. CASE ~AllFree
  <2>1. calm' = "no"
    BY <1>5 DEF StartRefresh
  <2>2. \A m \in TheMaps : sessions[m] <= sessions[m]
    BY DEF PicturesInv, PicturesTyped
  <2>3. mowerMap \in TheMaps /\ cloudLots \in [TheMaps -> Lots] /\ DOMAIN held \subseteq TheMaps
        /\ sessions \in [TheMaps -> Nat]
    BY DEF PicturesInv, PicturesTyped
  <2>4. QED BY <1>2, <1>3, <1>4, <2>1, <2>2, <2>3, Disturbance
<1>6. CASE AllFree
  <2>1. calm' = "refreshing"
    BY <1>6 DEF StartRefresh
  <2>2. PicturesTyped'
    <3>1. \A s \in Tasks : TaskOK(tasks[s])'
      BY <1>2, <1>3, <1>4 DEF PicturesInv, PicturesTyped, TaskOK, LoadsArchived, LoadsNothing
    <3>2. QED BY <1>3, <1>4, <3>1 DEF PicturesInv, PicturesTyped
  <2>3. \A s \in Tasks : ~Free(s)' => s = t
    BY <1>3, <1>6 DEF AllFree, Free
  <2>4. Carries(tasks[t])'
    BY <1>2, <1>3 DEF Carries
  <2>5. Calm'
    BY <2>1, <2>3, <2>4 DEF Calm, Free
  <2>6. QED BY <2>1, <2>2, <2>5 DEF PicturesInv, Refreshed
<1>7. QED BY <1>5, <1>6

\* The map cannot be fetched.
LEMMA FetchFailsStep ==
    ASSUME PicturesInv, NEW t \in Tasks, FetchFails(t)
    PROVE  PicturesInv'
<1>1. PICK x : x = NoTask
  OBVIOUS
<1>2. LoadsNothing(x)
  BY <1>1, FreeTask DEF LoadsNothing
<1>4. /\ tasks'[t] = x /\ (\A s \in Tasks : s # t => tasks'[s] = tasks[s])
      /\ tasks' = [s \in Tasks |-> tasks'[s]]
  BY <1>1 DEF FetchFails, Becomes, PicturesInv, PicturesTyped
<1>5. \A s \in Tasks : tasks'[s] = tasks[s] \/ LoadsNothing(tasks'[s])
  BY <1>2, <1>4
<1>6. UNCHANGED <<mowerMap, cloudLots, held, sessions, obstacles>> /\ calm' = "no"
  BY DEF FetchFails, outside, cache
<1>7. mowerMap \in TheMaps /\ cloudLots \in [TheMaps -> Lots] /\ DOMAIN held \subseteq TheMaps
      /\ sessions \in [TheMaps -> Nat] /\ \A m \in TheMaps : sessions[m] <= sessions[m]
  BY DEF PicturesInv, PicturesTyped
<1>8. QED BY <1>4, <1>5, <1>6, <1>7, Disturbance

(* The fetch ends: what the refresh goes on with are the lots as they are, *)
(* and a new active map gets a drawing of its own.                         *)
LEMMA FetchedStep ==
    ASSUME PicturesInv, NEW t \in Tasks, Fetched(t)
    PROVE  PicturesInv'
<1>1. PICK answer \in {cloudLots, NoMaps} :
          /\ held' = answer
          /\ ApplyMapl(Tasks \ {t}, [tasks EXCEPT ![t].pc = "statics", ![t].todo = answer])
          /\ calm' = IF answer = cloudLots THEN calm ELSE "no"
  BY DEF Fetched
<1>2. tasks[t].pc = "fetch" /\ IsTask(tasks[t]) /\ tasks = [s \in Tasks |-> tasks[s]]
      /\ UNCHANGED <<mowerMap, cloudLots, scene, sessions, obstacles, pictures>>
  BY DEF Fetched, PicturesInv, PicturesTyped, TaskOK, outside
<1>3. PICK x : x = [tasks[t] EXCEPT !.pc = "statics", !.todo = answer]
  OBVIOUS
<1>4. IsTask(x) /\ x.pc = "statics" /\ x.kind = tasks[t].kind /\ x.todo = answer
  BY <1>2, <1>3 DEF IsTask
<1>5. PICK y : y = Begun("view", "main")
  OBVIOUS
<1>6. IsTask(y) /\ y.pc = "main" /\ y.kind = "view"
  BY <1>5, BegunTask DEF TaskOK
<1>7. /\ tasks'[t] = x /\ tasks' = [s \in Tasks |-> tasks'[s]]
      /\ \A s \in Tasks : s # t => tasks'[s] = tasks[s] \/ tasks'[s] = y
  <2>1. PICK task : task = [tasks EXCEPT ![t] = x]
    OBVIOUS
  <2>2. task = [tasks EXCEPT ![t].pc = "statics", ![t].todo = answer]
    BY <1>2, <1>3, <2>1
  <2>3. task = [s \in Tasks |-> task[s]] /\ task[t] = x /\ \A s \in Tasks : s # t => task[s] = tasks[s]
    BY <1>2, <2>1
  <2>4. tasks' = task \/ \E s \in Tasks \ {t} : tasks' = [task EXCEPT ![s] = y]
    BY <1>1, <1>5, <2>2 DEF ApplyMapl
  <2>5. CASE tasks' = task
    BY <2>3, <2>5
  <2>6. CASE \E s \in Tasks \ {t} : tasks' = [task EXCEPT ![s] = y]
    BY <2>3, <2>6
  <2>7. QED BY <2>4, <2>5, <2>6
<1>8. activeMap' = mowerMap
  BY <1>1 DEF ApplyMapl
<1>9. DOMAIN held' \subseteq TheMaps
  BY <1>1 DEF PicturesInv, PicturesTyped, NoMaps
<1>10. PicturesTyped'
  <2>1. \A s \in Tasks : TaskOK(tasks[s])'
    BY <1>2, <1>4, <1>6, <1>7 DEF PicturesInv, PicturesTyped, TaskOK, LoadsArchived
  <2>2. QED BY <1>2, <1>7, <1>9, <2>1 DEF PicturesInv, PicturesTyped
<1>11. CASE calm' = "no"
  BY <1>10, <1>11 DEF PicturesInv, Calm, Refreshed
<1>12. CASE calm' # "no"
  <2>1. calm' = calm /\ calm # "no" /\ held' = cloudLots
    BY <1>1, <1>12
  <2>2. tasks[t].kind = "refresh" /\ calm = "refreshing" /\ \A s \in Tasks : s # t => tasks[s].pc = "idle"
    BY <1>2, <2>1 DEF PicturesInv, Calm, Free, Carries
  <2>3. Carries(x)'
    <3>1. x.todo = [m \in TheMaps |-> cloudLots[m]]
      <4>1. answer = cloudLots
        BY <1>1, <2>1
      <4>2. cloudLots = [m \in TheMaps |-> cloudLots[m]]
        BY DEF PicturesInv, PicturesTyped, Fetched, outside
      <4>3. QED BY <1>4, <4>1, <4>2
    <3>2. QED BY <1>2, <1>4, <1>8, <2>1, <2>2, <3>1 DEF Carries
  <2>4. Carries(y)'
    BY <1>2, <1>6, <1>8, <2>1 DEF Carries
  <2>5. \A s \in Tasks : ~Free(s)' => Carries(tasks[s])'
    <3>1. TAKE s \in Tasks
    <3>2. CASE s = t
      BY <1>7, <2>3, <3>2 DEF Carries, StaticsAreTrue, StaticIsTrue, TruePicture
    <3>3. CASE tasks'[s] = y
      BY <2>4, <3>3 DEF Carries, StaticsAreTrue, StaticIsTrue, TruePicture
    <3>4. CASE s # t /\ tasks'[s] = tasks[s]
      BY <2>2, <3>4 DEF Free
    <3>5. QED BY <1>7, <3>2, <3>3, <3>4
  <2>6. \A s \in Tasks : tasks'[s].pc # "fetch" /\ (s # t => tasks'[s].pc = "idle" \/ tasks'[s].kind = "view")
    BY <1>4, <1>6, <1>7, <2>2
  <2>7. Calm'
    BY <2>1, <2>2, <2>5, <2>6 DEF Calm, Free
  <2>8. QED BY <1>10, <2>1, <2>2, <2>7 DEF PicturesInv, Refreshed
<1>13. QED BY <1>11, <1>12

(* The next shot of the refresh is drawn, or the last was.              *)
LEMMA StaticsStep ==
    ASSUME PicturesInv, NEW t \in Tasks, DrawStatics(t)
    PROVE  PicturesInv'
<1>1. PICK k : k = tasks[t]
  OBVIOUS
<1>2. /\ IsTask(k) /\ k.pc = "statics" /\ ~Free(t)
      /\ UNCHANGED <<cloudLots, mowerMap, scene, sessions, held, activeMap, obstacles, base, mainView, seen, calm>>
  BY <1>1 DEF DrawStatics, PicturesInv, PicturesTyped, TaskOK, Free, outside
<1>3. DOMAIN obstacles' \subseteq TheMaps /\ \A m \in DOMAIN obstacles' : obstacles'[m] \in 0 .. sessions[m]
  BY <1>2 DEF PicturesInv, PicturesTyped
<1>4. calm # "no" => Carries(k)
  BY <1>1, <1>2 DEF PicturesInv, Calm
<1>5. CASE k.todo = NoMaps
  <2>1. PICK x : x = [k EXCEPT !.pc = "main"]
    OBVIOUS
  <2>2. IsTask(x) /\ x.pc = "main" /\ x.kind = k.kind
    BY <1>2, <2>1, TaskUpdates
  <2>3. Becomes(t, x) /\ UNCHANGED pictures
    BY <1>1, <1>2, <1>5, <2>1 DEF DrawStatics, Becomes, PicturesInv, PicturesTyped
  <2>4. TaskOK(x)'
    BY <2>2 DEF TaskOK, LoadsArchived
  <2>5. ASSUME calm # "no" PROVE Carries(x)'
    <3>1. PICK D \in SUBSET TheMaps : k.todo = [m \in D |-> cloudLots[m]] /\ \A m \in TheMaps \ D : StaticIsTrue(m)
      BY <1>2, <1>4, <2>5 DEF Carries
    <3>2. D = {}
      <4>1. DOMAIN k.todo = D
        BY <3>1
      <4>2. QED BY <1>5, <4>1 DEF NoMaps
    <3>3. StaticsAreTrue'
      BY <1>2, <2>3, <3>1, <3>2 DEF StaticsAreTrue, StaticIsTrue
    <3>4. QED BY <1>2, <1>4, <2>2, <2>5, <3>3 DEF Carries
  <2>6. PicturesTyped' /\ Calm'
    BY <1>1, <1>2, <1>3, <2>2, <2>3, <2>4, <2>5, StepOfTask DEF StaticIsTrue, IsTrue
  <2>7. Refreshed'
    BY <1>2, <2>3 DEF PicturesInv, Refreshed, AllTrue, StaticsAreTrue, StaticIsTrue, IsTrue
  <2>8. QED BY <2>6, <2>7 DEF PicturesInv
<1>6. CASE k.todo # NoMaps
  <2>1. PICK m \in DOMAIN k.todo :
            /\ tasks' = [tasks EXCEPT ![t].todo = [n \in DOMAIN k.todo \ {m} |-> k.todo[n]]]
            /\ pictures' = IF m \in DOMAIN pictures /\ pictures[m].print = k.todo[m].print THEN pictures
                           ELSE [n \in DOMAIN pictures \cup {m} |-> IF n = m THEN k.todo[m] ELSE pictures[n]]
    BY <1>1, <1>6 DEF DrawStatics
  <2>2. PICK todo : todo = [n \in DOMAIN k.todo \ {m} |-> k.todo[n]]
    OBVIOUS
  <2>3. PICK x : x = [k EXCEPT !.todo = todo]
    OBVIOUS
  <2>4. IsTask(x) /\ x.pc = "statics" /\ x.kind = k.kind /\ x.todo = todo
    BY <1>2, <2>3, TaskUpdates
  <2>5. Becomes(t, x)
    BY <1>1, <2>1, <2>2, <2>3 DEF Becomes, PicturesInv, PicturesTyped
  <2>6. TaskOK(x)'
    BY <2>4 DEF TaskOK, LoadsArchived
  <2>7. /\ m \in DOMAIN pictures' /\ pictures'[m].print = k.todo[m].print
        /\ \A n \in DOMAIN pictures : n # m => n \in DOMAIN pictures' /\ pictures'[n] = pictures[n]
    BY <2>1
  <2>8. ASSUME calm # "no"
        PROVE  (\A n \in TheMaps : StaticIsTrue(n) => StaticIsTrue(n)') /\ Carries(x)'
    <3>1. PICK D \in SUBSET TheMaps : k.todo = [n \in D |-> cloudLots[n]] /\ \A n \in TheMaps \ D : StaticIsTrue(n)
      BY <1>2, <1>4, <2>8 DEF Carries
    <3>2. m \in D /\ k.todo[m] = cloudLots[m] /\ todo = [n \in D \ {m} |-> cloudLots[n]]
      <4>1. DOMAIN k.todo = D /\ \A n \in D : k.todo[n] = cloudLots[n]
        BY <3>1
      <4>2. QED BY <2>1, <2>2, <4>1
    <3>3. StaticIsTrue(m)' /\ \A n \in TheMaps : StaticIsTrue(n) => StaticIsTrue(n)'
      BY <1>2, <2>7, <3>2 DEF StaticIsTrue
    <3>4. \A n \in TheMaps \ (D \ {m}) : StaticIsTrue(n)'
      BY <3>1, <3>3
    <3>5. \E C \in SUBSET TheMaps : x.todo = [n \in C |-> cloudLots[n]] /\ \A n \in TheMaps \ C : StaticIsTrue(n)'
      BY <2>4, <3>2, <3>4
    <3>6. Carries(x)'
      BY <1>2, <1>4, <2>4, <2>8, <3>5 DEF Carries
    <3>7. QED BY <3>3, <3>6
  <2>9. PicturesTyped' /\ Calm'
    BY <1>1, <1>2, <1>3, <2>4, <2>5, <2>6, <2>8, StepOfTask DEF IsTrue
  <2>10. Refreshed'
    BY <1>2, <2>8 DEF PicturesInv, Refreshed, AllTrue, StaticsAreTrue, IsTrue
  <2>11. QED BY <2>9, <2>10 DEF PicturesInv
<1>7. QED BY <1>5, <1>6

(* In a calm nothing draws a trail.                                        *)
LEMMA DrawTrailStep ==
    ASSUME PicturesInv, NEW t \in Tasks, DrawTrail(t)
    PROVE  PicturesInv'
<1>1. PICK k : k = tasks[t]
  OBVIOUS
<1>2. /\ IsTask(k) /\ k.pc = "trail" /\ ~Free(t)
      /\ UNCHANGED <<cloudLots, mowerMap, scene, sessions, held, activeMap, obstacles, pictures, base, mainView, seen, calm>>
  BY <1>1 DEF DrawTrail, PicturesInv, PicturesTyped, TaskOK, Free, outside, cache
<1>3. DOMAIN obstacles' \subseteq TheMaps /\ \A m \in DOMAIN obstacles' : obstacles'[m] \in 0 .. sessions[m]
  BY <1>2 DEF PicturesInv, PicturesTyped
<1>4. calm = "no"
  BY <1>1, <1>2 DEF PicturesInv, Calm, Carries
<1>5. PICK x : Becomes(t, x) /\ (x = [k EXCEPT !.pc = "main"] \/ x = NoTask)
  BY <1>1 DEF DrawTrail, Becomes, PicturesInv, PicturesTyped
<1>6. LoadsNothing(x) /\ x.pc # "fetch" /\ (x.pc # "idle" => x.kind = k.kind)
  BY <1>2, <1>5, TaskUpdates, FreeTask DEF LoadsNothing
<1>7. TaskOK(x)'
  BY <1>6 DEF TaskOK, LoadsNothing, LoadsArchived
<1>8. PicturesTyped' /\ Calm'
  BY <1>1, <1>2, <1>3, <1>4, <1>5, <1>6, <1>7, StepOfTask
<1>9. QED BY <1>2, <1>4, <1>8 DEF PicturesInv, Refreshed

(* A drawing has what it draws: in a calm, what is true.                   *)
LEMMA DrawStep ==
    ASSUME PicturesInv, NEW t \in Tasks, NEW k, k = tasks[t], k.pc \in {"main", "load"},
           NEW p, NEW found, ToDraw(t, p, found),
           UNCHANGED <<cloudLots, mowerMap, scene, sessions, held, activeMap, pictures, base, mainView, seen, calm>>,
           DOMAIN obstacles' \subseteq TheMaps,
           \A m \in DOMAIN obstacles' : obstacles'[m] \in 0 .. sessions[m],
           calm # "no" => TruePicture([p EXCEPT !.obstacles = found, !.width = scene.width])
    PROVE  PicturesInv'
<1>1. IsTask(k) /\ ~Free(t)
  BY DEF PicturesInv, PicturesTyped, TaskOK, Free
<1>2. PICK shot : shot = [p EXCEPT !.obstacles = found, !.width = scene.width]
  OBVIOUS
<1>3. PICK x : x = [k EXCEPT !.pc = "draw", !.picture = shot]
  OBVIOUS
<1>4. IsTask(x) /\ x.pc = "draw" /\ x.kind = k.kind /\ x.picture = shot
  BY <1>1, <1>3 DEF IsTask
<1>5. Becomes(t, x)
  BY <1>2, <1>3 DEF ToDraw
<1>6. TaskOK(x)'
  BY <1>4 DEF TaskOK, LoadsArchived
<1>7. ASSUME calm # "no" PROVE Carries(x)'
  <2>1. Carries(k)
    BY <1>1, <1>7 DEF PicturesInv, Calm
  <2>2. TruePicture(x.picture)'
    <3>1. TruePicture(shot)
      BY <1>2, <1>7
    <3>2. TruePicture(shot)'
      BY <3>1 DEF TruePicture
    <3>3. QED BY <1>4, <3>2 DEF TruePicture
  <2>3. StaticsAreTrue => StaticsAreTrue'
    BY DEF StaticsAreTrue, StaticIsTrue
  <2>4. QED BY <1>4, <2>1, <2>2, <2>3 DEF Carries
<1>8. PicturesTyped' /\ Calm'
  BY <1>1, <1>4, <1>5, <1>6, <1>7, StepOfTask DEF StaticIsTrue, IsTrue
<1>9. QED BY <1>8 DEF PicturesInv, Refreshed, AllTrue, StaticsAreTrue, StaticIsTrue, IsTrue

\* The main view is drawn.
LEMMA MainViewStep ==
    ASSUME PicturesInv, NEW t \in Tasks, MainView(t)
    PROVE  PicturesInv'
<1>1. PICK k : k = tasks[t]
  OBVIOUS
<1>2. PICK m : m = activeMap
  OBVIOUS
<1>3. PICK p : p = [map |-> m, lot |-> held[m], scene |-> scene, obstacles |-> None, width |-> None]
  OBVIOUS
<1>4. /\ IsTask(k) /\ k.pc = "main" /\ ~Free(t)
      /\ UNCHANGED <<cloudLots, mowerMap, scene, sessions, held, activeMap, pictures, base, mainView>>
  BY <1>1 DEF MainView, PicturesInv, PicturesTyped, TaskOK, Free, outside
<1>5. calm # "no" => Carries(k) /\ held = cloudLots /\ m = mowerMap
  BY <1>1, <1>2, <1>4 DEF PicturesInv, Calm, Carries
<1>6. ASSUME calm # "no", NEW found \in {None} \cup 1 .. sessions[m], scene.phase = "mowing" => found = None
      PROVE  TruePicture([p EXCEPT !.obstacles = found, !.width = scene.width])
  <2>1. [p EXCEPT !.obstacles = found, !.width = scene.width] =
            [map |-> mowerMap, lot |-> cloudLots[mowerMap], scene |-> scene, obstacles |-> found, width |-> scene.width]
    <3>1. PICK q : q = [p EXCEPT !.obstacles = found, !.width = scene.width]
      OBVIOUS
    <3>2. q = [map |-> q.map, lot |-> q.lot, scene |-> q.scene, obstacles |-> q.obstacles, width |-> q.width]
      BY <1>3, <1>5, <1>6, <3>1
    <3>3. /\ q.map = mowerMap /\ q.lot = cloudLots[mowerMap] /\ q.scene = scene
          /\ q.obstacles = found /\ q.width = scene.width
      BY <1>3, <1>5, <1>6, <3>1
    <3>4. QED BY <3>1, <3>2, <3>3
  <2>2. QED BY <1>5, <1>6, <2>1 DEF TruePicture
<1>7. /\ DOMAIN obstacles \subseteq TheMaps
      /\ \A n \in DOMAIN obstacles : obstacles[n] \in 0 .. sessions[n]
      /\ sessions \in [TheMaps -> Nat]
  BY DEF PicturesInv, PicturesTyped
<1>8. CASE m \notin DOMAIN held
  <2>1. calm = "no"
    BY <1>5, <1>8 DEF PicturesInv, PicturesTyped
  <2>2. PICK x : x = NoTask
    OBVIOUS
  <2>3. LoadsNothing(x) /\ x.pc = "idle"
    BY <2>2, FreeTask DEF LoadsNothing
  <2>4. Becomes(t, x) /\ calm' = calm /\ UNCHANGED obstacles
    BY <1>2, <1>8, <2>1, <2>2 DEF MainView, Done
  <2>5. TaskOK(x)'
    BY <2>3 DEF TaskOK, LoadsNothing, LoadsArchived
  <2>6. PicturesTyped' /\ Calm'
    BY <1>4, <1>7, <2>1, <2>3, <2>4, <2>5, StepOfTask
  <2>7. QED BY <2>1, <2>4, <2>6 DEF PicturesInv, Refreshed
<1>9. CASE m \in DOMAIN held
  <2>1. m \in TheMaps /\ sessions[m] \in Nat /\ UNCHANGED <<seen, calm>>
    BY <1>2, <1>7, <1>9 DEF MainView, PicturesInv, PicturesTyped
  <2>2. CASE UNCHANGED obstacles /\ ToDraw(t, p, None)
    BY <1>1, <1>4, <1>6, <1>7, <2>1, <2>2, DrawStep
  <2>3. CASE scene.phase # "mowing" /\ m \in DOMAIN obstacles /\ UNCHANGED obstacles /\ ToDraw(t, p, OrNone(obstacles[m]))
    <3>1. OrNone(obstacles[m]) \in {None} \cup 1 .. sessions[m]
      <4>1. obstacles[m] \in 0 .. sessions[m]
        BY <1>7, <2>3
      <4>2. QED BY <2>1, <4>1 DEF OrNone
    <3>2. PICK found : found = OrNone(obstacles[m])
      OBVIOUS
    <3>3. calm # "no" => TruePicture([p EXCEPT !.obstacles = found, !.width = scene.width])
      BY <1>6, <2>3, <3>1, <3>2
    <3>4. QED BY <1>1, <1>4, <1>7, <2>1, <2>3, <3>2, <3>3, DrawStep
  <2>4. CASE ToDraw(t, p, None) /\ Cached(m, 0)
    <3>1. DOMAIN obstacles' \subseteq TheMaps /\ \A n \in DOMAIN obstacles' : obstacles'[n] \in 0 .. sessions[n]
      BY <1>7, <2>1, <2>4 DEF Cached
    <3>2. QED BY <1>1, <1>4, <1>6, <2>1, <2>4, <3>1, DrawStep
  <2>5. CASE /\ scene.phase # "mowing" /\ sessions[m] # 0 /\ UNCHANGED obstacles
             /\ Becomes(t, [k EXCEPT !.pc = "load", !.picture = [p EXCEPT !.obstacles = sessions[m]]])
    <3>1. PICK shot : shot = [p EXCEPT !.obstacles = sessions[m]]
      OBVIOUS
    <3>2. shot = [map |-> m, lot |-> held[m], scene |-> scene, obstacles |-> sessions[m], width |-> None]
      BY <1>3, <3>1
    <3>3. PICK x : x = [k EXCEPT !.pc = "load", !.picture = shot]
      OBVIOUS
    <3>4. IsTask(x) /\ x.pc = "load" /\ x.kind = k.kind /\ x.picture = shot
      BY <1>4, <3>3 DEF IsTask
    <3>5. Becomes(t, x)
      BY <2>5, <3>1, <3>3
    <3>6. sessions[m] \in 1 .. sessions[m]
      BY <2>1, <2>5
    <3>7. TaskOK(x)'
      BY <1>4, <2>1, <3>2, <3>4, <3>6 DEF TaskOK, LoadsArchived
    <3>8. ASSUME calm # "no" PROVE Carries(x)'
      <4>1. StaticsAreTrue => StaticsAreTrue'
        BY <1>4 DEF StaticsAreTrue, StaticIsTrue
      <4>2. \E o \in 1 .. sessions[mowerMap] :
                shot = [map |-> mowerMap, lot |-> cloudLots[mowerMap], scene |-> scene, obstacles |-> o, width |-> None]
        BY <1>5, <3>2, <3>6, <3>8
      <4>3. QED BY <1>4, <1>5, <2>5, <3>4, <3>8, <4>1, <4>2 DEF Carries
    <3>9. PicturesTyped' /\ Calm'
      BY <1>1, <1>4, <1>7, <2>1, <2>5, <3>4, <3>5, <3>7, <3>8, StepOfTask DEF StaticIsTrue, IsTrue
    <3>10. QED BY <1>4, <2>1, <3>9 DEF PicturesInv, Refreshed, AllTrue, StaticsAreTrue, StaticIsTrue, IsTrue
  <2>6. QED BY <1>1, <1>2, <1>3, <1>9, <2>2, <2>3, <2>4, <2>5 DEF MainView
<1>10. QED BY <1>8, <1>9

\* A session has been loaded.
LEMMA LoadedStep ==
    ASSUME PicturesInv, NEW t \in Tasks, Loaded(t)
    PROVE  PicturesInv'
<1>1. PICK k : k = tasks[t]
  OBVIOUS
<1>2. PICK p : p = k.picture
  OBVIOUS
<1>3. PICK o \in {p.obstacles, 0} : Cached(p.map, o) /\ ToDraw(t, p, OrNone(o))
  BY <1>1, <1>2 DEF Loaded
<1>4. k.pc = "load" /\ UNCHANGED <<cloudLots, mowerMap, scene, sessions, held, activeMap, pictures, base, mainView, seen, calm>>
  BY <1>1 DEF Loaded, outside
<1>5. p.map \in TheMaps /\ p.obstacles \in 1 .. sessions[p.map] /\ sessions[p.map] \in Nat
  BY <1>1, <1>2, <1>4 DEF PicturesInv, PicturesTyped, TaskOK, LoadsArchived
<1>6. o \in 0 .. sessions[p.map] /\ OrNone(o) \in {None} \cup 1 .. sessions[p.map]
  BY <1>3, <1>5 DEF OrNone
<1>7. DOMAIN obstacles' \subseteq TheMaps /\ \A m \in DOMAIN obstacles' : obstacles'[m] \in 0 .. sessions[m]
  BY <1>3, <1>5, <1>6 DEF Cached, PicturesInv, PicturesTyped
<1>8. PICK found : found = OrNone(o)
  OBVIOUS
<1>9. ASSUME calm # "no" PROVE TruePicture([p EXCEPT !.obstacles = found, !.width = scene.width])
  <2>1. Carries(k) /\ k.kind \in {"refresh", "view"}
    BY <1>1, <1>4, <1>9 DEF PicturesInv, Calm, Free, Carries
  <2>2. PICK n \in 1 .. sessions[mowerMap] :
            /\ scene.phase # "mowing"
            /\ p = [map |-> mowerMap, lot |-> cloudLots[mowerMap], scene |-> scene, obstacles |-> n, width |-> None]
    BY <1>2, <1>4, <2>1 DEF Carries
  <2>3. [p EXCEPT !.obstacles = found, !.width = scene.width] =
            [map |-> mowerMap, lot |-> cloudLots[mowerMap], scene |-> scene, obstacles |-> found, width |-> scene.width]
    <3>1. PICK q : q = [p EXCEPT !.obstacles = found, !.width = scene.width]
      OBVIOUS
    <3>2. q = [map |-> q.map, lot |-> q.lot, scene |-> q.scene, obstacles |-> q.obstacles, width |-> q.width]
      BY <2>2, <3>1
    <3>3. /\ q.map = mowerMap /\ q.lot = cloudLots[mowerMap] /\ q.scene = scene
          /\ q.obstacles = found /\ q.width = scene.width
      BY <2>2, <3>1
    <3>4. QED BY <3>1, <3>2, <3>3
  <2>4. p.map = mowerMap
    BY <2>2
  <2>5. QED BY <1>6, <1>8, <2>2, <2>3, <2>4 DEF TruePicture
<1>10. QED BY <1>1, <1>3, <1>4, <1>7, <1>8, <1>9, DrawStep

(* The end of a drawing: of a refresh, all that is drawn is then true.     *)
LEMMA EndStep ==
    ASSUME PicturesInv, NEW t \in Tasks, ~Free(t), NEW view, Done(t, view),
           UNCHANGED <<cloudLots, mowerMap, scene, sessions, held, activeMap, obstacles, pictures>>,
           calm # "no" => /\ IsTrue(mainView) => IsTrue(mainView)'
                          /\ tasks[t].kind = "refresh" => AllTrue' /\ calm = "refreshing"
                          /\ AllTrue /\ seen' = seen => AllTrue'
    PROVE  PicturesInv'
<1>1. PICK x : x = NoTask
  OBVIOUS
<1>2. LoadsNothing(x) /\ x.pc = "idle" /\ Becomes(t, x)
  BY <1>1, FreeTask DEF LoadsNothing, Done
<1>3. TaskOK(x)'
  BY <1>2 DEF TaskOK, LoadsNothing, LoadsArchived
<1>4. DOMAIN obstacles' \subseteq TheMaps /\ \A m \in DOMAIN obstacles' : obstacles'[m] \in 0 .. sessions[m]
  BY DEF PicturesInv, PicturesTyped
<1>5. \/ calm' = calm /\ (calm # "refreshing" \/ tasks[t].kind # "refresh")
      \/ calm = "refreshing" /\ calm' = "refreshed" /\ tasks[t].kind = "refresh"
  BY DEF Done
<1>6. PicturesTyped' /\ Calm'
  BY <1>2, <1>3, <1>4, <1>5, StepOfTask DEF StaticIsTrue
<1>7. ASSUME calm' = "refreshed" PROVE AllTrue'
  <2>1. CASE calm = "refreshed"
    <3>1. Carries(tasks[t]) /\ tasks[t].kind # "refresh"
      BY <2>1 DEF PicturesInv, Calm
    <3>2. seen' = seen
      BY <3>1 DEF Done, Carries
    <3>3. QED BY <2>1, <3>2 DEF PicturesInv, Refreshed
  <2>2. CASE calm # "refreshed"
    BY <1>5, <1>7, <2>2
  <2>3. QED BY <2>1, <2>2
<1>8. QED BY <1>6, <1>7 DEF PicturesInv, Refreshed

\* The trail is drawn.
LEMMA DrawnStep ==
    ASSUME PicturesInv, NEW t \in Tasks, Drawn(t)
    PROVE  PicturesInv'
<1>1. PICK k : k = tasks[t]
  OBVIOUS
<1>2. /\ IsTask(k) /\ k.pc = "draw" /\ ~Free(t) /\ mainView' = ViewOf(k.picture)
      /\ UNCHANGED <<cloudLots, mowerMap, scene, sessions, held, activeMap, obstacles, pictures, base>>
  BY <1>1 DEF Drawn, PicturesInv, PicturesTyped, TaskOK, Free, outside, cache
<1>3. /\ DOMAIN obstacles' \subseteq TheMaps /\ \A m \in DOMAIN obstacles' : obstacles'[m] \in 0 .. sessions[m]
      /\ held = cloudLots /\ activeMap = mowerMap => activeMap \in DOMAIN held
  BY <1>2 DEF PicturesInv, PicturesTyped
<1>4. calm # "no" => Carries(k)
  BY <1>1, <1>2 DEF PicturesInv, Calm
<1>5. ASSUME calm # "no" PROVE IsTrue(mainView)'
  <2>1. PICK n \in {None} \cup 1 .. sessions[mowerMap] :
            k.picture = [map |-> mowerMap, lot |-> cloudLots[mowerMap], scene |-> scene,
                         obstacles |-> IF scene.phase = "mowing" THEN None ELSE n, width |-> scene.width]
    BY <1>2, <1>4, <1>5 DEF Carries, TruePicture
  <2>2. [map |-> mowerMap, lot |-> cloudLots[mowerMap], scene |-> scene,
         obstacles |-> IF scene.phase = "mowing" THEN None ELSE n, width |-> scene.width] =
        [map |-> mowerMap, lot |-> cloudLots[mowerMap], scene |-> scene, width |-> scene.width,
         obstacles |-> IF scene.phase = "mowing" THEN None ELSE n]
    OBVIOUS
  <2>3. QED BY <1>2, <2>1, <2>2 DEF IsTrue
<1>6. CASE BaseIsStale(base)
  <2>1. PICK shot : shot = [map |-> activeMap, lot |-> held[activeMap]]
    OBVIOUS
  <2>2. PICK x : x = [k EXCEPT !.pc = "base", !.picture = shot]
    OBVIOUS
  <2>3. IsTask(x) /\ x.pc = "base" /\ x.kind = k.kind /\ x.picture = shot
    BY <1>2, <2>2 DEF IsTask
  <2>4. Becomes(t, x) /\ UNCHANGED <<seen, calm>>
    <3>1. tasks' = [tasks EXCEPT ![t].pc = "base", ![t].picture = [map |-> activeMap, lot |-> held[activeMap]]]
          /\ UNCHANGED <<seen, calm>>
      BY <1>6 DEF Drawn
    <3>2. QED BY <1>1, <2>1, <2>2, <3>1 DEF Becomes, PicturesInv, PicturesTyped
  <2>5. TaskOK(x)'
    BY <2>3 DEF TaskOK, LoadsArchived
  <2>6. StaticsAreTrue => StaticsAreTrue'
    BY <1>2 DEF StaticsAreTrue, StaticIsTrue
  <2>7. ASSUME calm # "no" PROVE Carries(x)'
    BY <1>2, <1>4, <1>5, <2>1, <2>3, <2>6, <2>7 DEF Carries
  <2>8. PicturesTyped' /\ Calm'
    BY <1>1, <1>2, <1>3, <1>5, <2>3, <2>4, <2>5, <2>7, StepOfTask DEF StaticIsTrue
  <2>9. Refreshed'
    BY <1>2, <1>5, <2>4, <2>6 DEF PicturesInv, Refreshed, AllTrue, IsTrue
  <2>10. QED BY <2>8, <2>9 DEF PicturesInv
<1>7. CASE ~BaseIsStale(base)
  <2>1. Done(t, mainView')
    BY <1>7 DEF Drawn
  <2>2. ASSUME calm # "no", k.kind = "refresh" PROVE AllTrue' /\ calm = "refreshing"
    <3>1. StaticsAreTrue /\ held = cloudLots /\ activeMap = mowerMap /\ calm = "refreshing"
      BY <1>1, <1>2, <1>4, <2>2 DEF Carries, PicturesInv, Calm
    <3>2. base.lot.print = cloudLots[mowerMap].print
      BY <1>3, <1>7, <3>1 DEF BaseIsStale
    <3>3. seen' = mainView'
      BY <1>1, <2>1, <2>2 DEF Done
    <3>4. QED BY <1>2, <1>5, <2>2, <3>1, <3>2, <3>3 DEF AllTrue, StaticsAreTrue, StaticIsTrue, IsTrue
  <2>3. ASSUME calm # "no", AllTrue, seen' = seen PROVE AllTrue'
    BY <1>2, <1>5, <2>3 DEF AllTrue, StaticsAreTrue, StaticIsTrue, IsTrue
  <2>4. QED BY <1>1, <1>2, <1>5, <2>1, <2>2, <2>3, EndStep
<1>8. QED BY <1>6, <1>7

\* The base is drawn.
LEMMA BaseDrawnStep ==
    ASSUME PicturesInv, NEW t \in Tasks, BaseDrawn(t)
    PROVE  PicturesInv'
<1>1. PICK k : k = tasks[t]
  OBVIOUS
<1>2. /\ IsTask(k) /\ k.pc \in {"base", "base again"} /\ ~Free(t) /\ base' = k.picture
      /\ UNCHANGED <<cloudLots, mowerMap, scene, sessions, held, activeMap, obstacles, pictures, mainView>>
  BY <1>1 DEF BaseDrawn, PicturesInv, PicturesTyped, TaskOK, Free, outside
<1>3. DOMAIN obstacles' \subseteq TheMaps /\ \A m \in DOMAIN obstacles' : obstacles'[m] \in 0 .. sessions[m]
  BY <1>2 DEF PicturesInv, PicturesTyped
<1>4. ASSUME calm # "no"
      PROVE  /\ Carries(k) /\ held = cloudLots /\ activeMap = mowerMap
             /\ base' = [map |-> mowerMap, lot |-> cloudLots[mowerMap]]
             /\ base'.lot.print = cloudLots[mowerMap].print
             /\ k.kind = "refresh" => StaticsAreTrue /\ IsTrue(mainView) /\ calm = "refreshing"
  <2>1. Carries(k)
    BY <1>1, <1>2, <1>4 DEF PicturesInv, Calm
  <2>2. k.kind = "refresh" => calm = "refreshing"
    <3>1. ASSUME tasks[t].kind = "refresh" PROVE calm = "refreshing"
      BY <1>2, <1>4, <3>1 DEF PicturesInv, Calm
    <3>2. QED BY <1>1, <3>1
  <2>3. base' = [map |-> mowerMap, lot |-> cloudLots[mowerMap]]
    BY <1>2, <2>1 DEF Carries
  <2>4. base'.lot.print = cloudLots[mowerMap].print
    BY <2>3
  <2>5. held = cloudLots /\ activeMap = mowerMap
    BY <1>2, <2>1 DEF Carries
  <2>6. k.kind = "refresh" => StaticsAreTrue /\ IsTrue(mainView)
    BY <1>2, <2>1 DEF Carries
  <2>7. QED BY <2>1, <2>2, <2>3, <2>4, <2>5, <2>6
<1>5. (IsTrue(mainView) => IsTrue(mainView)') /\ (StaticsAreTrue => StaticsAreTrue')
  BY <1>2 DEF IsTrue, StaticsAreTrue, StaticIsTrue
<1>6. CASE k.kind = "refresh" /\ k.pc = "base" /\ BaseIsStale(base')
  <2>1. PICK shot : shot = [map |-> activeMap, lot |-> held[activeMap]]
    OBVIOUS
  <2>2. PICK x : x = [k EXCEPT !.pc = "base again", !.picture = shot]
    OBVIOUS
  <2>3. IsTask(x) /\ x.pc = "base again" /\ x.kind = k.kind /\ x.picture = shot
    BY <1>2, <2>2 DEF IsTask
  <2>4. Becomes(t, x) /\ UNCHANGED <<seen, calm>>
    <3>1. tasks' = [tasks EXCEPT ![t].pc = "base again", ![t].picture = [map |-> activeMap, lot |-> held[activeMap]]]
          /\ UNCHANGED <<seen, calm>>
      BY <1>1, <1>6 DEF BaseDrawn
    <3>2. QED BY <1>1, <2>1, <2>2, <3>1 DEF Becomes, PicturesInv, PicturesTyped
  <2>5. TaskOK(x)'
    BY <2>3 DEF TaskOK, LoadsArchived
  <2>6. ASSUME calm # "no" PROVE FALSE
    <3>1. base' # None
      BY <1>4, <2>6, PicturesAssumption DEF PicturesInv, PicturesTyped, TheMaps
    <3>2. base'.lot.print = held[activeMap].print
      BY <1>4, <2>6
    <3>3. base' = None
      BY <1>6, <3>2 DEF BaseIsStale
    <3>4. QED BY <3>1, <3>3
  <2>7. PicturesTyped' /\ Calm'
    BY <1>1, <1>2, <1>3, <2>3, <2>4, <2>5, <2>6, StepOfTask
  <2>8. QED BY <2>4, <2>6, <2>7 DEF PicturesInv, Refreshed
<1>7. CASE ~(k.kind = "refresh" /\ k.pc = "base" /\ BaseIsStale(base'))
  <2>1. Done(t, mainView)
    BY <1>1, <1>7 DEF BaseDrawn
  <2>2. ASSUME calm # "no", k.kind = "refresh" PROVE AllTrue' /\ calm = "refreshing"
    <3>1. seen' = mainView
      BY <1>1, <2>1, <2>2 DEF Done
    <3>2. QED BY <1>2, <1>4, <1>5, <2>2, <3>1 DEF AllTrue, IsTrue
  <2>3. ASSUME calm # "no", AllTrue, seen' = seen PROVE AllTrue'
    BY <1>2, <1>4, <1>5, <2>3 DEF AllTrue, IsTrue
  <2>4. QED BY <1>1, <1>2, <1>5, <2>1, <2>2, <2>3, EndStep
<1>8. QED BY <1>6, <1>7

\* Every step keeps it.
LEMMA PicturesStep == PicturesInv /\ [PicturesNext]_picturesVars => PicturesInv'
<1>1. SUFFICES ASSUME PicturesInv, [PicturesNext]_picturesVars PROVE PicturesInv'
  OBVIOUS
<1>2. ASSUME NEW t \in Tasks, StartRefresh(t) PROVE PicturesInv'
  BY <1>1, <1>2, StartStep
<1>3. ASSUME NEW t \in Tasks, FetchFails(t) PROVE PicturesInv'
  BY <1>1, <1>3, FetchFailsStep
<1>4. ASSUME NEW t \in Tasks, Fetched(t) PROVE PicturesInv'
  BY <1>1, <1>4, FetchedStep
<1>5. ASSUME NEW t \in Tasks, DrawStatics(t) PROVE PicturesInv'
  BY <1>1, <1>5, StaticsStep
<1>6. ASSUME NEW t \in Tasks, DrawTrail(t) PROVE PicturesInv'
  BY <1>1, <1>6, DrawTrailStep
<1>7. ASSUME NEW t \in Tasks, MainView(t) PROVE PicturesInv'
  BY <1>1, <1>7, MainViewStep
<1>8. ASSUME NEW t \in Tasks, Loaded(t) PROVE PicturesInv'
  BY <1>1, <1>8, LoadedStep
<1>9. ASSUME NEW t \in Tasks, Drawn(t) PROVE PicturesInv'
  BY <1>1, <1>9, DrawnStep
<1>10. ASSUME NEW t \in Tasks, BaseDrawn(t) PROVE PicturesInv'
  BY <1>1, <1>10, BaseDrawnStep
<1>11. CASE UNCHANGED picturesVars
  <2>1. PicturesTyped'
    BY <1>1, <1>11 DEF picturesVars, outside, cache, PicturesInv, PicturesTyped, TaskOK, LoadsArchived
  <2>2. ASSUME NEW k, Carries(k) PROVE Carries(k)'
    BY <1>11, <2>2 DEF picturesVars, outside, cache, Carries, StaticsAreTrue, StaticIsTrue, TruePicture, IsTrue
  <2>3. UNCHANGED <<tasks, calm>>
    BY <1>11 DEF picturesVars
  <2>4. ASSUME NEW s \in Tasks, Carries(tasks[s]) PROVE Carries(tasks[s])'
    <3>1. PICK k : k = tasks[s]
      OBVIOUS
    <3>2. Carries(k)'
      BY <2>2, <2>4, <3>1
    <3>3. tasks'[s] = k
      BY <2>3, <3>1
    <3>4. QED BY <3>2, <3>3 DEF Carries, StaticsAreTrue, StaticIsTrue, TruePicture
  <2>5. Calm'
    BY <1>1, <2>3, <2>4 DEF PicturesInv, Calm, Free
  <2>6. Refreshed'
    BY <1>1, <1>11 DEF picturesVars, outside, cache, PicturesInv, Refreshed, AllTrue, StaticsAreTrue, StaticIsTrue, IsTrue
  <2>7. QED BY <2>1, <2>5, <2>6 DEF PicturesInv
<1>12. QED BY <1>1, <1>2, <1>3, <1>4, <1>5, <1>6, <1>7, <1>8, <1>9, <1>10, <1>11, EventStep DEF PicturesNext

\* After a refresh that nothing disturbs every picture shows what it is of,
\* whatever drawings were under way (_render_maps_from_cloud_state,
\* _render_main_view).
THEOREM PicturesAreRight == PicturesSpec => []PicturesCatchUp
BY InitPictures, PicturesStep, TruthCatchesUp, PTL DEF PicturesSpec

-----------------------------------------------------------------------------
(***************************************************************************)
(* The replay of the work log, for every number of replays, logs, options  *)
(* and widths.  ReplayIsOfPick speaks of the moments at which nothing is   *)
(* under way; between them a replay that runs alone keeps what it will     *)
(* show in step with what was asked, and one that does not leaves no       *)
(* trust.  Agree says what holds of the rest as long as none has drawn.    *)
(***************************************************************************)
IsReplay(p) ==
    /\ p = [by |-> p.by, pc |-> p.pc, option |-> p.option, key |-> p.key,
            log |-> p.log, map |-> p.map, width |-> p.width, alone |-> p.alone]
    /\ p.alone \in BOOLEAN

Drew(r) == replays[r].pc \in {"draw", "base"}
Alone(r) == ~AtRest(r) /\ replays[r].alone

OfOption(l, label) ==
    label # Placeholder /\ FormatSessionLabel(l) = [label EXCEPT !.tag = None]

\* What a replay that runs alone has in its hands.
OfSelect(p) ==
    p.by = "select" =>
        /\ p.pc = "find" => \E l \in Logs : l.end = p.key /\ OfOption(l, p.option)
        /\ p.pc \in {"load", "draw", "base"} => OfOption(p.log, p.option)
OfSlider(p) ==
    p.by = "slider" =>
        /\ p.pc = "find" => card # None /\ p.key = card.log.end
        /\ p.pc = "load" => card # None /\ p.log = card.log
        /\ p.pc \in {"draw", "base"} /\ trust = "select" => OfOption(p.log, option)
OfDrawing(p) ==
    /\ p.pc \in {"draw", "base"} =>
           /\ card \in {[log |-> p.log, map |-> p.map], None}
           /\ p.width = width /\ p.log \in Logs /\ p.map \in {0, 1}
    /\ p.pc = "base" => picture = [of |-> Drawing(p), width |-> p.width]
Way(p) == OfSelect(p) /\ OfSlider(p) /\ OfDrawing(p)

WorkLogTyped ==
    /\ logs \subseteq Logs /\ loadedMaps \subseteq {0, 1} /\ width \in Widths
    /\ card # None => card.log \in Logs
    /\ replays = [r \in Replays |-> replays[r]]
    /\ \A r \in Replays :
           /\ IsReplay(replays[r])
           /\ replays[r].pc = "idle" => replays[r] = NoReplay
           /\ replays[r].pc # "idle" => replays[r].by \in {"select", "service", "slider"}
           /\ replays[r].pc = "options" => replays[r].by = "select"
           /\ replays[r].pc = "main" => replays[r].by = "slider"

ShownAgrees ==
    /\ token = ResolvePng(picture)
    /\ picture = None => backdrop = None /\ card = None
    /\ picture # None => backdrop \in {picture.of, None}
    /\ card # None => [log |-> picture.of.log, map |-> picture.of.map] = card
    /\ trust = "select" => IF option = Placeholder THEN picture = None
                           ELSE picture # None /\ OfOption(picture.of.log, option)
WidthAgrees == card # None => picture.width = width

Agree ==
    /\ trust # "none" /\ (\A r \in Replays : ~Drew(r)) => ShownAgrees
    /\ trust # "none" /\ (\A r \in Replays : ~Drew(r) /\ replays[r].by # "slider") => WidthAgrees

OnItsWay(r) == (\A s \in Replays : s # r => AtRest(s)) /\ Way(replays[r])

WorkLogInv == WorkLogTyped /\ Agree /\ \A r \in Replays : Alone(r) => OnItsWay(r)

\* No replay is under way at first.
LEMMA InitWorkLog == WorkLogInit => WorkLogInv
<1>1. SUFFICES ASSUME WorkLogInit PROVE WorkLogInv
  OBVIOUS
<1>2. \A r \in Replays : replays[r] = NoReplay
  BY <1>1 DEF WorkLogInit
<1>3. WorkLogTyped
  BY <1>1, <1>2 DEF WorkLogInit, WorkLogTyped, IsReplay, NoReplay
<1>4. Agree
  BY <1>1 DEF WorkLogInit, Agree, ShownAgrees, WidthAgrees
<1>5. \A r \in Replays : ~Alone(r)
  BY <1>2 DEF Alone, AtRest, NoReplay
<1>6. QED BY <1>3, <1>4, <1>5 DEF WorkLogInv

(* The invariant says what ReplayIsOfPick does when nothing is under way.  *)
LEMMA RestAgrees == WorkLogInv => ReplayIsOfPick
<1>1. SUFFICES ASSUME WorkLogInv, NoneUnderWay, trust # "none"
               PROVE  ShownAgrees /\ WidthAgrees
  BY DEF ReplayIsOfPick, ShownAgrees, WidthAgrees, OfOption
<1>2. \A r \in Replays : ~Drew(r) /\ replays[r].by # "slider"
  BY <1>1, WorkLogAssumption DEF WorkLogInv, WorkLogTyped, NoneUnderWay, AtRest, Drew, NoReplay
<1>3. QED BY <1>1, <1>2 DEF WorkLogInv, Agree

(* What the updates of a replay make of it.                                *)
LEMMA DisturbedUpdate ==
    ASSUME NEW p, IsReplay(p), NEW x, x = [p EXCEPT !.alone = FALSE]
    PROVE  IsReplay(x) /\ ~x.alone /\ x.pc = p.pc /\ x.by = p.by
BY DEF IsReplay

\* A replay that only goes on.
LEMMA PcUpdate ==
    ASSUME NEW p, IsReplay(p), NEW a, NEW x, x = [p EXCEPT !.pc = a]
    PROVE  /\ IsReplay(x) /\ x.pc = a
           /\ x.by = p.by /\ x.alone = p.alone /\ x.option = p.option
           /\ x.log = p.log /\ x.map = p.map /\ x.width = p.width
BY DEF IsReplay

(* While one replay is under way no other one is alone.                    *)
LEMMA OnlyOneAlone ==
    ASSUME WorkLogInv, NEW r \in Replays, ~AtRest(r)
    PROVE  \A s \in Replays : s # r => ~Alone(s) /\ (Alone(r) => AtRest(s))
BY DEF WorkLogInv, Alone, OnItsWay

(* A step of one replay: it is enough to look at what it has become.       *)
LEMMA StepOfOne ==
    ASSUME WorkLogInv, NEW r \in Replays, ~AtRest(r), NEW x, IsReplay(x), Advance(r, x),
           x.pc = "idle" => x = NoReplay,
           x.pc # "idle" => x.by \in {"select", "service", "slider"},
           x.pc = "options" => x.by = "select",
           x.pc = "main" => x.by = "slider",
           x.pc # "idle" => x.alone = replays[r].alone,
           UNCHANGED <<logs, loadedMaps, width>>,
           card' # None => card'.log \in Logs,
           Alone(r) /\ x.pc # "idle" => Way(x)'
    PROVE  /\ WorkLogTyped' /\ (\A s \in Replays : Alone(s)' => OnItsWay(s)')
           /\ replays'[r] = x /\ \A s \in Replays : s # r => replays'[s] = replays[s]
<1>1. replays'[r] = x /\ (\A s \in Replays : s # r => replays'[s] = replays[s])
      /\ replays' = [s \in Replays |-> replays'[s]]
  BY DEF WorkLogInv, WorkLogTyped, Advance
<1>2. WorkLogTyped'
  BY <1>1 DEF WorkLogInv, WorkLogTyped
<1>3. ASSUME NEW s \in Replays, Alone(s)' PROVE OnItsWay(s)'
  <2>1. s = r
    BY <1>1, <1>3, OnlyOneAlone DEF Alone, AtRest
  <2>2. Alone(r) /\ x.pc # "idle"
    BY <1>1, <1>3, <2>1 DEF Alone, AtRest
  <2>3. Way(replays[r])'
    BY <1>1, <2>2 DEF Way, OfSelect, OfSlider, OfDrawing, Drawing
  <2>4. \A q \in Replays : q # s => AtRest(q)'
    BY <1>1, <2>1, <2>2, OnlyOneAlone DEF AtRest
  <2>5. QED BY <2>1, <2>3, <2>4 DEF OnItsWay
<1>4. QED BY <1>1, <1>2, <1>3

(* What is shown agrees as before if it is as before, and so is what has   *)
(* drawn and what the slider asked for.                                    *)
LEMMA AgreeKept ==
    ASSUME WorkLogInv, UNCHANGED <<logShown, width, token, trust>>,
           \A s \in Replays : /\ Drew(s) => Drew(s)'
                              /\ replays[s].by = "slider" => replays'[s].by = "slider"
    PROVE  Agree'
<1>1. ShownAgrees => ShownAgrees'
  BY DEF ShownAgrees, logShown, ResolvePng
<1>2. WidthAgrees => WidthAgrees'
  BY DEF WidthAgrees, logShown
<1>3. (\A s \in Replays : ~Drew(s)') => (\A s \in Replays : ~Drew(s))
  BY Zenon
<1>4. (\A s \in Replays : ~Drew(s)' /\ replays'[s].by # "slider")
          => (\A s \in Replays : ~Drew(s) /\ replays[s].by # "slider")
  BY Zenon
<1>5. QED BY <1>1, <1>2, <1>3, <1>4, Zenon DEF WorkLogInv, Agree

\* A replay that is not under way.
LEMMA NothingIsNoReplay == IsReplay(NoReplay) /\ NoReplay.pc = "idle" /\ NoReplay.by = None
  BY DEF IsReplay, NoReplay

(* A request, or a clearing, leaves no replay of those under way alone.    *)
LEMMA DisturbedIs ==
    ASSUME WorkLogTyped, NEW s \in Replays, NEW d, d = Disturbed(s)
    PROVE  /\ IsReplay(d) /\ d.pc = replays[s].pc /\ d.by = replays[s].by
           /\ d.pc = "idle" => d = NoReplay
           /\ d.pc # "idle" => ~d.alone
<1>1. CASE AtRest(s)
  BY <1>1, NothingIsNoReplay DEF WorkLogTyped, Disturbed, AtRest
<1>2. CASE ~AtRest(s)
  <2>1. IsReplay(replays[s]) /\ d = [replays[s] EXCEPT !.alone = FALSE]
    BY <1>2 DEF WorkLogTyped, Disturbed
  <2>2. IsReplay(d) /\ ~d.alone /\ d.pc = replays[s].pc /\ d.by = replays[s].by
    BY <2>1, DisturbedUpdate
  <2>3. QED BY <1>2, <2>2 DEF AtRest
<1>3. QED BY <1>1, <1>2

\* A replay that was asked for just now.
FreshReplay(x, who, pc, alone) == IsReplay(x) /\ (x.alone => alone) /\ x.by = who /\ x.pc = pc

\* A replay that has been asked for.
LEMMA Asked ==
    ASSUME NEW alone \in BOOLEAN, NEW who, NEW pc, NEW given
    PROVE  /\ \A x : x = [[NoReplay EXCEPT !.by = who, !.pc = pc] EXCEPT !.alone = alone]
                     => FreshReplay(x, who, pc, alone)
           /\ \A x : x = [[NoReplay EXCEPT !.by = who, !.pc = pc, !.option = given] EXCEPT !.alone = alone]
                     => FreshReplay(x, who, pc, alone)
           /\ \A x : x = [[NoReplay EXCEPT !.by = who, !.pc = pc, !.key = given] EXCEPT !.alone = alone]
                     => FreshReplay(x, who, pc, alone)
<1>1. ASSUME NEW x, x = [[NoReplay EXCEPT !.by = who, !.pc = pc] EXCEPT !.alone = alone]
      PROVE  FreshReplay(x, who, pc, alone)
  BY <1>1 DEF IsReplay, NoReplay, FreshReplay
<1>2. ASSUME NEW x, x = [[NoReplay EXCEPT !.by = who, !.pc = pc, !.option = given] EXCEPT !.alone = alone]
      PROVE  FreshReplay(x, who, pc, alone)
  BY <1>2 DEF IsReplay, NoReplay, FreshReplay
<1>3. ASSUME NEW x, x = [[NoReplay EXCEPT !.by = who, !.pc = pc, !.key = given] EXCEPT !.alone = alone]
      PROVE  FreshReplay(x, who, pc, alone)
  BY <1>3 DEF IsReplay, NoReplay, FreshReplay
<1>4. QED BY <1>1, <1>2, <1>3

\* A replay is asked for.
LEMMA RequestStep ==
    ASSUME WorkLogInv, NEW r \in Replays,
           (\E label \in DOMAIN choices : Pick(r, label)) \/ (\E l \in Logs : ReplaySession(r, l.md5))
               \/ (\E w \in Widths : SetWidth(r, w))
    PROVE  WorkLogInv'
<1>0. PICK alone \in BOOLEAN : alone = NoneUnderWay
  BY Zenon DEF NoneUnderWay
<1>1. PICK x : /\ IsReplay(x) /\ (x.alone => alone)
               /\ <<x.by, x.pc>> \in {<<"select", "options">>, <<"service", "find">>, <<"slider", "main">>}
               /\ replays' = [s \in Replays |-> IF s = r THEN x ELSE Disturbed(s)]
  <2>1. CASE \E label \in DOMAIN choices : Pick(r, label)
    <3>1. PICK label : Pick(r, label) BY <2>1
    <3>0. PICK x : x = [[NoReplay EXCEPT !.by = "select", !.pc = "options", !.option = label] EXCEPT !.alone = alone]
      OBVIOUS
    <3>2. FreshReplay(x, "select", "options", alone)
      BY <3>0, Asked
    <3>3. replays' = [s \in Replays |-> IF s = r THEN x ELSE Disturbed(s)]
      BY <1>0, <3>0, <3>1 DEF Pick, Ask
    <3>4. QED BY <3>2, <3>3 DEF FreshReplay
  <2>2. CASE \E l \in Logs : ReplaySession(r, l.md5)
    <3>1. PICK key : ReplaySession(r, key) BY <2>2
    <3>0. PICK x : x = [[NoReplay EXCEPT !.by = "service", !.pc = "find", !.key = key] EXCEPT !.alone = alone]
      OBVIOUS
    <3>2. FreshReplay(x, "service", "find", alone)
      BY <3>0, Asked
    <3>3. replays' = [s \in Replays |-> IF s = r THEN x ELSE Disturbed(s)]
      BY <1>0, <3>0, <3>1 DEF ReplaySession, Ask
    <3>4. QED BY <3>2, <3>3 DEF FreshReplay
  <2>3. CASE \E w \in Widths : SetWidth(r, w)
    <3>1. PICK w : SetWidth(r, w) BY <2>3
    <3>0. PICK x : x = [[NoReplay EXCEPT !.by = "slider", !.pc = "main"] EXCEPT !.alone = alone]
      OBVIOUS
    <3>2. FreshReplay(x, "slider", "main", alone)
      BY <3>0, Asked
    <3>3. replays' = [s \in Replays |-> IF s = r THEN x ELSE Disturbed(s)]
      BY <1>0, <3>0, <3>1 DEF SetWidth, Ask
    <3>4. QED BY <3>2, <3>3 DEF FreshReplay
  <2>4. QED BY <2>1, <2>2, <2>3
<1>2. /\ UNCHANGED <<logs, loadedMaps, option, picture, backdrop, card, token, trust>>
      /\ AtRest(r)
      /\ width' = width \/ (width' \in Widths /\ x.by = "slider")
  <2>1. CASE (\E label \in DOMAIN choices : Pick(r, label)) \/ (\E l \in Logs : ReplaySession(r, l.md5))
    BY <2>1 DEF Pick, ReplaySession, Ask, logOutside, logShown
  <2>2. CASE \E w \in Widths : SetWidth(r, w)
    <3>1. PICK w \in Widths : SetWidth(r, w) BY <2>2
    <3>2. replays'[r].by = "slider"
      BY <3>1 DEF SetWidth, Ask, NoReplay
    <3>3. replays'[r] = x
      BY <1>1
    <3>4. QED BY <3>1, <3>2, <3>3 DEF SetWidth, Ask, logOutside, logShown
  <2>3. QED BY <2>1, <2>2
<1>3. replays'[r] = x /\ \A s \in Replays : s # r => replays'[s] = Disturbed(s)
  BY <1>1
<1>4. \A s \in Replays : s # r => /\ IsReplay(replays'[s])
                                  /\ replays'[s].pc = replays[s].pc /\ replays'[s].by = replays[s].by
                                  /\ replays'[s].pc = "idle" => replays'[s] = NoReplay
                                  /\ replays'[s].pc # "idle" => ~replays'[s].alone
  BY <1>3, DisturbedIs DEF WorkLogInv
<1>5. WorkLogTyped'
  <2>1. replays' = [s \in Replays |-> replays'[s]] BY <1>1
  <2>2. QED BY <1>1, <1>2, <1>3, <1>4, <2>1 DEF WorkLogInv, WorkLogTyped
<1>6. \A s \in Replays : /\ Drew(s) => Drew(s)'
                         /\ replays[s].by = "slider" => replays'[s].by = "slider"
  BY <1>2, <1>4, WorkLogAssumption DEF WorkLogInv, WorkLogTyped, AtRest, NoReplay, Drew
<1>7. Agree'
  <2>1. CASE width' = width
    BY <1>2, <1>6, <2>1, AgreeKept DEF logShown
  <2>2. CASE x.by = "slider"
    <3>1. ShownAgrees => ShownAgrees'
      BY <1>2 DEF ShownAgrees, ResolvePng
    <3>2. QED BY <1>2, <1>3, <1>6, <2>2, <3>1 DEF WorkLogInv, Agree
  <2>3. QED BY <1>2, <2>1, <2>2
<1>8. ASSUME NEW s \in Replays, Alone(s)' PROVE OnItsWay(s)'
  <2>1. s = r /\ NoneUnderWay
    BY <1>0, <1>1, <1>3, <1>4, <1>8 DEF Alone, AtRest
  <2>2. \A q \in Replays : q # s => AtRest(q)'
    BY <1>4, <2>1 DEF NoneUnderWay, AtRest
  <2>3. Way(replays[s])'
    BY <1>1, <1>3, <2>1 DEF Way, OfSelect, OfSlider, OfDrawing
  <2>4. QED BY <2>2, <2>3 DEF OnItsWay
<1>9. QED BY <1>5, <1>7, <1>8 DEF WorkLogInv

\* The placeholder is picked, or the picture cleared.
LEMMA ClearingStep ==
    ASSUME WorkLogInv, PickPlaceholder
    PROVE  WorkLogInv'
<1>1. \A s \in Replays : replays'[s] = Disturbed(s)
  BY DEF PickPlaceholder
<1>2. \A s \in Replays : /\ IsReplay(replays'[s])
                         /\ replays'[s].pc = replays[s].pc /\ replays'[s].by = replays[s].by
                         /\ replays'[s].pc = "idle" => replays'[s] = NoReplay
                         /\ replays'[s].pc # "idle" => ~replays'[s].alone
  BY <1>1, DisturbedIs DEF WorkLogInv
<1>3. WorkLogTyped'
  BY <1>2 DEF WorkLogInv, WorkLogTyped, PickPlaceholder, logOutside
<1>4. Agree'
  BY DEF PickPlaceholder, Agree, ShownAgrees, WidthAgrees
<1>5. \A s \in Replays : ~Alone(s)'
  BY <1>2 DEF Alone, AtRest
<1>6. QED BY <1>3, <1>4, <1>5 DEF WorkLogInv

(* What the select, the archive and the maps do in between.                *)
LEMMA OutsideStep ==
    ASSUME WorkLogInv, RefreshOptions \/ ArchiveTurns \/ MapsTurn
    PROVE  WorkLogInv'
<1>1. UNCHANGED <<option, picture, backdrop, card, width, token, replays, trust>>
  BY DEF RefreshOptions, ArchiveTurns, MapsTurn, logShown
<1>2. logs' \subseteq Logs /\ loadedMaps' \subseteq {0, 1}
  BY DEF WorkLogInv, WorkLogTyped, RefreshOptions, ArchiveTurns, MapsTurn, logOutside
<1>3. WorkLogTyped'
  BY <1>1, <1>2 DEF WorkLogInv, WorkLogTyped
<1>4. Agree'
  BY <1>1, AgreeKept DEF logShown, Drew
<1>5. ASSUME NEW r \in Replays, Alone(r)' PROVE OnItsWay(r)'
  <2>1. OnItsWay(r)
    BY <1>1, <1>5 DEF WorkLogInv, Alone, AtRest
  <2>2. QED BY <1>1, <2>1 DEF OnItsWay, AtRest, Way, OfSelect, OfSlider, OfDrawing, Drawing
<1>6. QED BY <1>3, <1>4, <1>5 DEF WorkLogInv

(* An option of the select stands for a log with its label.                *)
LEMMA OptionIsOfLog ==
    ASSUME logs \subseteq Logs, NEW label \in DOMAIN BuildOptions(logs)
    PROVE  \E l \in Logs : l.end = BuildOptions(logs)[label] /\ OfOption(l, label)
<1> DEFINE eligible == {l \in logs : Cardinality(Newer(logs, l)) < MaxOptions}
           Of(l) == LabelAmong(eligible, l) = label
           Oldest0(l) == \A m \in eligible : LabelAmong(eligible, m) = label => m.end >= l.end
           chosen == CHOOSE l \in eligible : Of(l) /\ Oldest0(l)
<1>1. BuildOptions(logs)[label] = chosen.end /\ \E l \in eligible : Of(l)
  BY DEF BuildOptions
<1>2. \E l \in eligible : Of(l) /\ Oldest0(l)
  <2> DEFINE ends == {l.end : l \in {l \in eligible : Of(l)}}
  <2>0. \A l \in eligible : l.end \in Nat
    BY WorkLogAssumption
  <2>1. ends \in SUBSET Nat /\ ends # {}
    BY <1>1, <2>0
  <2>2. PICK e \in ends : \A f \in ends : e <= f
    <3> HIDE DEF ends
    <3>1. QED BY <2>1, LeastNumber
  <2>3. PICK l \in eligible : Of(l) /\ l.end = e
    BY <2>2
  <2>4. \A m \in eligible : Of(m) => l.end <= m.end
    BY <2>2, <2>3
  <2>5. \A m \in eligible : m.end \in Nat
    BY WorkLogAssumption
  <2>6. Oldest0(l)
    BY <2>3, <2>4, <2>5
  <2>7. QED BY <2>3, <2>6
<1>3. chosen \in eligible /\ Of(chosen)
  <2> HIDE DEF eligible, Of, Oldest0
  <2>1. QED BY <1>2
<1>4. chosen \in Logs
  BY <1>3
<1> HIDE DEF chosen
<1>5. OfOption(chosen, label)
  <2>1. /\ label.at = chosen.at
        /\ [label EXCEPT !.tag = None] = FormatSessionLabel(chosen)
    BY <1>3 DEF LabelAmong, FormatSessionLabel
  <2>2. chosen.at # None
    BY <1>4, WorkLogAssumption
  <2>3. QED BY <2>1, <2>2 DEF OfOption, Placeholder
<1>6. QED BY <1>1, <1>4, <1>5

(* A file is found, or it is gone.                                         *)
LEMMA FileIsFound ==
    ASSUME logs \subseteq Logs, NEW l \in Logs
    PROVE  EntryOf(l.end) \in {None, l}
<1>1. \A m \in logs : m.md5 # l.end /\ (m.end = l.end => m = l)
  BY WorkLogAssumption
<1>2. {m \in logs : m.md5 = l.end} = {} /\ {m \in logs : m.end = l.end} \in SUBSET {l}
  BY <1>1
<1>3. QED BY <1>2 DEF EntryOf

\* The map of a log that is drawn has been loaded.
LEMMA MapIsLoaded ==
    ASSUME loadedMaps \subseteq {0, 1}, loadedMaps # {}, NEW l
    PROVE  ReplayMap(l) \in {0, 1}
<1>1. PICK m \in loadedMaps : \A n \in loadedMaps : m <= n
  <2>1. loadedMaps \in SUBSET Nat
    OBVIOUS
  <2>2. QED BY <2>1, LeastNumber
<1>2. (CHOOSE k \in loadedMaps : \A n \in loadedMaps : k <= n) \in loadedMaps
  BY <1>1
<1>3. QED BY <1>2 DEF ReplayMap

(* What breaks off, or did not run alone, leaves no trust.                 *)
LEMMA EndedBadly ==
    ASSUME WorkLogInv, NEW r \in Replays, ~AtRest(r), NEW complete \in BOOLEAN, Ended(r, complete),
           ~complete \/ ~replays[r].alone,
           UNCHANGED <<logs, loadedMaps, width, card>>
    PROVE  WorkLogInv'
<1>1. Advance(r, NoReplay) /\ trust' = "none"
  BY DEF Ended
<1>2. PICK x : x = NoReplay
  OBVIOUS
<1>3. IsReplay(x) /\ x.pc = "idle"
  BY <1>2, NothingIsNoReplay
<1>4. Advance(r, x)
  BY <1>1, <1>2
<1>5. card' # None => card'.log \in Logs
  BY DEF WorkLogInv, WorkLogTyped
<1>6. WorkLogTyped' /\ (\A s \in Replays : Alone(s)' => OnItsWay(s)')
  BY <1>2, <1>3, <1>4, <1>5, StepOfOne
<1>7. Agree'
  BY <1>1 DEF Agree
<1>8. QED BY <1>6, <1>7 DEF WorkLogInv

(* What ends well ends alone: nothing is under way after it.               *)
LEMMA EndedWell ==
    ASSUME WorkLogInv, NEW r \in Replays, ~AtRest(r), replays[r].alone, Advance(r, NoReplay),
           UNCHANGED <<logs, loadedMaps, width, card>>,
           trust' # "none" => ShownAgrees' /\ WidthAgrees'
    PROVE  WorkLogInv'
<1>2. PICK x : x = NoReplay
  OBVIOUS
<1>3. IsReplay(x) /\ x.pc = "idle"
  BY <1>2, NothingIsNoReplay
<1>5. card' # None => card'.log \in Logs
  BY DEF WorkLogInv, WorkLogTyped
<1>6. WorkLogTyped' /\ (\A s \in Replays : Alone(s)' => OnItsWay(s)')
  BY <1>2, <1>3, <1>5, StepOfOne
<1>7. Agree'
  BY DEF Agree
<1>8. QED BY <1>6, <1>7 DEF WorkLogInv

\* The log of the option is looked for.
LEMMA OptionsStep ==
    ASSUME WorkLogInv, NEW r \in Replays, OptionsListed(r)
    PROVE  WorkLogInv'
<1> DEFINE p == replays[r]
<1>1. p.pc = "options" /\ p.by = "select" /\ IsReplay(p) /\ ~AtRest(r) /\ ~Drew(r)
  BY DEF OptionsListed, WorkLogInv, WorkLogTyped, AtRest, Drew
<1>2. choices' = BuildOptions(logs) /\ UNCHANGED <<logs, loadedMaps, logShown, option, picture, backdrop, card, width, token, trust>>
  BY DEF OptionsListed, logOutside, logShown
<1>3. PICK x : Advance(r, x) /\ x = IF p.option \in DOMAIN choices'
                                   THEN [p EXCEPT !.pc = "find", !.key = choices'[p.option]]
                                   ELSE NoReplay
  BY DEF OptionsListed
<1>4. /\ IsReplay(x)
      /\ \/ x = NoReplay
         \/ /\ p.option \in DOMAIN choices' /\ x.pc = "find" /\ x.key = choices'[p.option]
            /\ x.by = p.by /\ x.alone = p.alone /\ x.option = p.option
  <2>1. CASE p.option \in DOMAIN choices'
    <3>1. x = [p EXCEPT !.pc = "find", !.key = choices'[p.option]]
      BY <1>3, <2>1
    <3>2. PICK key : key = choices'[p.option]
      OBVIOUS
    <3>3. x = [p EXCEPT !.pc = "find", !.key = key]
      BY <3>1, <3>2
    <3>4. /\ IsReplay(x) /\ x.pc = "find" /\ x.key = key
          /\ x.by = p.by /\ x.alone = p.alone /\ x.option = p.option
      <4> HIDE DEF p
      <4>1. QED BY <1>1, <3>3 DEF IsReplay
    <3>5. QED BY <2>1, <3>2, <3>4
  <2>2. CASE p.option \notin DOMAIN choices'
    BY <1>3, <2>2, NothingIsNoReplay
  <2>3. QED BY <2>1, <2>2
<1>5. card' # None => card'.log \in Logs
  BY <1>2 DEF WorkLogInv, WorkLogTyped
<1>6. x.pc # "idle" => Way(x)'
  <2>1. SUFFICES ASSUME x.pc # "idle" PROVE Way(x)'
    OBVIOUS
  <2>2. p.option \in DOMAIN BuildOptions(logs) /\ x.key = BuildOptions(logs)[p.option]
    BY <1>2, <1>4, <2>1, NothingIsNoReplay
  <2>3. \E l \in Logs : l.end = x.key /\ OfOption(l, x.option)
    BY <1>4, <2>1, <2>2, OptionIsOfLog, NothingIsNoReplay DEF WorkLogInv, WorkLogTyped
  <2>4. QED BY <1>1, <1>4, <2>1, <2>3, NothingIsNoReplay DEF Way, OfSelect, OfSlider, OfDrawing, OfOption
<1>7. WorkLogTyped' /\ (\A s \in Replays : Alone(s)' => OnItsWay(s)')
      /\ replays'[r] = x /\ (\A s \in Replays : s # r => replays'[s] = replays[s])
  BY <1>1, <1>2, <1>3, <1>4, <1>5, <1>6, NothingIsNoReplay, StepOfOne
<1>8. Agree'
  BY <1>1, <1>2, <1>7, AgreeKept DEF Drew
<1>9. QED BY <1>7, <1>8 DEF WorkLogInv

\* The log of the card is drawn again.
LEMMA MainStep ==
    ASSUME WorkLogInv, NEW r \in Replays, MainDrawn(r)
    PROVE  WorkLogInv'
<1> DEFINE p == replays[r]
<1>1. p.pc = "main" /\ p.by = "slider" /\ IsReplay(p) /\ ~AtRest(r) /\ ~Drew(r)
  BY DEF MainDrawn, WorkLogInv, WorkLogTyped, AtRest, Drew
<1>2. UNCHANGED <<logs, loadedMaps, picture, backdrop, card, width>>
  BY DEF MainDrawn, logOutside
<1>3. CASE card = None
  <2>1. Ended(r, TRUE)
    BY <1>3 DEF MainDrawn
  <2>2. CASE ~p.alone
    BY <1>1, <1>2, <2>1, <2>2, EndedBadly
  <2>3. CASE p.alone
    <3>1. Advance(r, NoReplay) /\ trust' = trust /\ option' = option /\ token' = ResolvePng(picture)
      BY <1>1, <2>1, <2>3 DEF Ended
    <3>2. \A s \in Replays : ~Drew(s)
      BY <1>1, <2>3, OnlyOneAlone DEF Alone, AtRest, Drew
    <3>3. trust' # "none" => ShownAgrees' /\ WidthAgrees'
      BY <1>2, <1>3, <3>1, <3>2 DEF WorkLogInv, Agree, ShownAgrees, WidthAgrees, ResolvePng
    <3>4. QED BY <1>1, <1>2, <2>3, <3>1, <3>3, EndedWell
  <2>4. QED BY <2>2, <2>3
<1>4. CASE card # None
  <2>1. PICK x : x = [p EXCEPT !.pc = "find", !.key = card.log.end]
    OBVIOUS
  <2>2. Advance(r, x) /\ UNCHANGED <<option, token, trust>>
    BY <1>4, <2>1 DEF MainDrawn
  <2>3. /\ IsReplay(x) /\ x.pc = "find" /\ x.key = card.log.end
        /\ x.by = p.by /\ x.alone = p.alone /\ x.option = p.option
    <3>1. PICK key : key = card.log.end
      OBVIOUS
    <3>2. x = [p EXCEPT !.pc = "find", !.key = key]
      BY <2>1, <3>1
    <3> HIDE DEF p
    <3>3. QED BY <1>1, <3>1, <3>2 DEF IsReplay
  <2>4. card' # None => card'.log \in Logs
    BY <1>2 DEF WorkLogInv, WorkLogTyped
  <2>5. Way(x)'
    BY <1>1, <1>2, <1>4, <2>3 DEF Way, OfSelect, OfSlider, OfDrawing
  <2>6. WorkLogTyped' /\ (\A s \in Replays : Alone(s)' => OnItsWay(s)')
        /\ replays'[r] = x /\ (\A s \in Replays : s # r => replays'[s] = replays[s])
    BY <1>1, <1>2, <2>2, <2>3, <2>4, <2>5, StepOfOne
  <2>7. Agree'
    BY <1>1, <1>2, <2>2, <2>3, <2>6, AgreeKept DEF Drew, logShown
  <2>8. QED BY <2>6, <2>7 DEF WorkLogInv
<1>5. QED BY <1>3, <1>4

\* The entry of the archive is looked up.
LEMMA EntryStep ==
    ASSUME WorkLogInv, NEW r \in Replays, EntryFound(r)
    PROVE  WorkLogInv'
<1> DEFINE p == replays[r]
<1>1. p.pc = "find" /\ IsReplay(p) /\ ~AtRest(r) /\ ~Drew(r) /\ p.by \in {"select", "service", "slider"}
  BY DEF EntryFound, WorkLogInv, WorkLogTyped, AtRest, Drew
<1>2. UNCHANGED <<logs, loadedMaps, picture, backdrop, card, width>>
  BY DEF EntryFound, logOutside
<1>3. CASE EntryOf(p.key) = None
  <2>1. Ended(r, FALSE)
    BY <1>3 DEF EntryFound
  <2>2. QED BY <1>1, <1>2, <2>1, EndedBadly
<1>4. CASE EntryOf(p.key) # None
  <2>1. PICK entry : entry = EntryOf(p.key)
    OBVIOUS
  <2>2. PICK x : x = [p EXCEPT !.pc = "load", !.log = entry]
    OBVIOUS
  <2>3. Advance(r, x) /\ UNCHANGED <<option, token, trust>>
    BY <1>4, <2>1, <2>2 DEF EntryFound
  <2>4. /\ IsReplay(x) /\ x.pc = "load" /\ x.log = entry
        /\ x.by = p.by /\ x.alone = p.alone /\ x.option = p.option
    <3> HIDE DEF p
    <3>1. QED BY <1>1, <2>2 DEF IsReplay
  <2>5. card' # None => card'.log \in Logs
    BY <1>2 DEF WorkLogInv, WorkLogTyped
  <2>6. ASSUME Alone(r) PROVE Way(x)'
    <3>1. Way(p) /\ logs \subseteq Logs /\ (card # None => card.log \in Logs)
      BY <2>6 DEF WorkLogInv, WorkLogTyped, OnItsWay
    <3>2. OfSelect(x)'
      <4>1. SUFFICES ASSUME p.by = "select" PROVE OfOption(entry, p.option)
        BY <2>4 DEF OfSelect, OfOption
      <4>2. PICK l \in Logs : l.end = p.key /\ OfOption(l, p.option)
        BY <1>1, <3>1, <4>1 DEF Way, OfSelect
      <4>3. EntryOf(p.key) \in {None, l}
        BY <3>1, <4>2, FileIsFound
      <4>4. QED BY <1>4, <2>1, <4>2, <4>3
    <3>3. OfSlider(x)'
      <4>1. SUFFICES ASSUME p.by = "slider" PROVE card # None /\ entry = card.log
        BY <1>2, <2>4 DEF OfSlider
      <4>2. card # None /\ p.key = card.log.end
        BY <1>1, <3>1, <4>1 DEF Way, OfSlider
      <4>3. EntryOf(p.key) \in {None, card.log}
        BY <3>1, <4>2, FileIsFound
      <4>4. QED BY <1>4, <2>1, <4>2, <4>3
    <3>4. OfDrawing(x)'
      BY <2>4 DEF OfDrawing
    <3>5. QED BY <3>2, <3>3, <3>4 DEF Way
  <2>7. WorkLogTyped' /\ (\A s \in Replays : Alone(s)' => OnItsWay(s)')
        /\ replays'[r] = x /\ (\A s \in Replays : s # r => replays'[s] = replays[s])
    BY <1>1, <1>2, <2>3, <2>4, <2>5, <2>6, StepOfOne
  <2>8. Agree'
    BY <1>1, <1>2, <2>3, <2>4, <2>7, AgreeKept DEF Drew, logShown
  <2>9. QED BY <2>7, <2>8 DEF WorkLogInv
<1>5. QED BY <1>3, <1>4

\* The log is read.
LEMMA BodyStep ==
    ASSUME WorkLogInv, NEW r \in Replays, BodyRead(r)
    PROVE  WorkLogInv'
<1> DEFINE p == replays[r]
           fails == p.log \notin logs \/ ~p.log.parses \/ loadedMaps = {}
<1>1. p.pc = "load" /\ IsReplay(p) /\ ~AtRest(r) /\ ~Drew(r) /\ p.by \in {"select", "service", "slider"}
  BY DEF BodyRead, WorkLogInv, WorkLogTyped, AtRest, Drew
<1>2. UNCHANGED <<logs, loadedMaps, picture, backdrop, width>>
  BY DEF BodyRead, logOutside
<1>3. CASE fails
  <2>1. Ended(r, FALSE) /\ card' = card
    BY <1>3 DEF BodyRead
  <2>2. QED BY <1>1, <1>2, <2>1, EndedBadly
<1>4. CASE ~fails
  <2>1. PICK map : map = ReplayMap(p.log)
    OBVIOUS
  <2>2. PICK x : x = [p EXCEPT !.pc = "draw", !.map = map, !.width = width]
    OBVIOUS
  <2>3. /\ Advance(r, x) /\ UNCHANGED <<option, token, trust>>
        /\ card' \in {[log |-> p.log, map |-> map], None}
    BY <1>4, <2>1, <2>2 DEF BodyRead
  <2>4. /\ IsReplay(x) /\ x.pc = "draw" /\ x.map = map /\ x.width = width
        /\ x.by = p.by /\ x.alone = p.alone /\ x.option = p.option /\ x.log = p.log
    <3>1. PICK w : w = width
      OBVIOUS
    <3> HIDE DEF p
    <3>2. QED BY <1>1, <2>2, <3>1 DEF IsReplay
  <2>5. p.log \in Logs /\ map \in {0, 1}
    BY <1>4, <2>1, MapIsLoaded DEF WorkLogInv, WorkLogTyped
  <2>6. card' # None => card'.log \in Logs
    BY <2>3, <2>5
  <2>7. ASSUME Alone(r) PROVE Way(x)'
    <3>1. Way(p)
      BY <2>7 DEF WorkLogInv, OnItsWay
    <3>2. OfSelect(x)'
      BY <1>1, <2>4, <3>1 DEF Way, OfSelect, OfOption
    <3>3. OfSlider(x)'
      <4>1. SUFFICES ASSUME p.by = "slider", trust = "select" PROVE OfOption(p.log, option)
        BY <2>3, <2>4 DEF OfSlider, OfOption
      <4>2. card # None /\ p.log = card.log
        BY <1>1, <3>1, <4>1 DEF Way, OfSlider
      <4>3. \A s \in Replays : ~Drew(s)
        BY <1>1, <2>7, OnlyOneAlone DEF AtRest, Drew
      <4>4. ShownAgrees
        BY <4>1, <4>3 DEF WorkLogInv, Agree
      <4>5. picture.of.log = card.log
        BY <4>2, <4>4 DEF ShownAgrees
      <4>6. QED BY <4>1, <4>2, <4>4, <4>5 DEF ShownAgrees
    <3>4. OfDrawing(x)'
      BY <1>2, <2>3, <2>4, <2>5 DEF OfDrawing
    <3>5. QED BY <3>2, <3>3, <3>4 DEF Way
  <2>8. WorkLogTyped' /\ (\A s \in Replays : Alone(s)' => OnItsWay(s)')
        /\ replays'[r] = x /\ (\A s \in Replays : s # r => replays'[s] = replays[s])
    BY <1>1, <1>2, <2>3, <2>4, <2>6, <2>7, StepOfOne
  <2>9. Agree'
    BY <2>4, <2>8 DEF Agree, Drew
  <2>10. QED BY <2>8, <2>9 DEF WorkLogInv
<1>5. QED BY <1>3, <1>4

\* The trail is drawn.
LEMMA TrailStep ==
    ASSUME WorkLogInv, NEW r \in Replays, TrailDrawn(r)
    PROVE  WorkLogInv'
<1> DEFINE p == replays[r]
<1>1. p.pc = "draw" /\ IsReplay(p) /\ ~AtRest(r) /\ p.by \in {"select", "service", "slider"}
  BY DEF TrailDrawn, WorkLogInv, WorkLogTyped, AtRest
<1>2. UNCHANGED <<logs, loadedMaps, backdrop, card, width>>
  BY DEF TrailDrawn, logOutside
<1>3. CASE Ended(r, FALSE)
  BY <1>1, <1>2, <1>3, EndedBadly
<1>4. CASE ~Ended(r, FALSE)
  <2>1. PICK x : x = [p EXCEPT !.pc = "base"]
    OBVIOUS
  <2>2. /\ Advance(r, x) /\ UNCHANGED <<option, token, trust>>
        /\ picture' = [of |-> Drawing(p), width |-> p.width]
    BY <1>4, <2>1 DEF TrailDrawn
  <2>3. /\ IsReplay(x) /\ x.pc = "base"
        /\ x.by = p.by /\ x.alone = p.alone /\ x.option = p.option
        /\ x.log = p.log /\ x.map = p.map /\ x.width = p.width
    BY <1>1, <2>1, PcUpdate
  <2>4. card' # None => card'.log \in Logs
    BY <1>2 DEF WorkLogInv, WorkLogTyped
  <2>5. ASSUME Alone(r) PROVE Way(x)'
    <3>1. Way(p)
      BY <2>5 DEF WorkLogInv, OnItsWay
    <3>2. OfSelect(x)'
      BY <1>1, <2>3, <3>1 DEF Way, OfSelect, OfOption
    <3>3. OfSlider(x)'
      BY <1>1, <2>2, <2>3, <3>1 DEF Way, OfSlider, OfOption
    <3>4. OfDrawing(x)'
      BY <1>1, <1>2, <2>2, <2>3, <3>1 DEF Way, OfDrawing, Drawing
    <3>5. QED BY <3>2, <3>3, <3>4 DEF Way
  <2>6. WorkLogTyped' /\ (\A s \in Replays : Alone(s)' => OnItsWay(s)')
        /\ replays'[r] = x /\ (\A s \in Replays : s # r => replays'[s] = replays[s])
    BY <1>1, <1>2, <2>2, <2>3, <2>4, <2>5, StepOfOne
  <2>7. Agree'
    BY <2>3, <2>6 DEF Agree, Drew
  <2>8. QED BY <2>6, <2>7 DEF WorkLogInv
<1>5. QED BY <1>3, <1>4

\* The backdrop is drawn.
LEMMA BackdropStep ==
    ASSUME WorkLogInv, NEW r \in Replays, BackdropDrawn(r)
    PROVE  WorkLogInv'
<1> DEFINE p == replays[r]
<1>1. p.pc = "base" /\ ~AtRest(r) /\ p.by \in {"select", "service", "slider"}
  BY DEF BackdropDrawn, WorkLogInv, WorkLogTyped, AtRest
<1>2. /\ UNCHANGED <<logs, loadedMaps, picture, card, width>>
      /\ backdrop' \in {Drawing(p), None} /\ Ended(r, TRUE)
  BY DEF BackdropDrawn, logOutside
<1>3. CASE ~p.alone
  BY <1>1, <1>2, <1>3, EndedBadly
<1>4. CASE p.alone
  <2>1. /\ Advance(r, NoReplay) /\ token' = ResolvePng(picture)
        /\ option' = IF p.by = "select" THEN p.option ELSE option
        /\ p.by = "select" => trust' = "select"
        /\ p.by = "service" => trust' = "shown"
        /\ p.by = "slider" => trust' = trust
    BY <1>1, <1>2, <1>4 DEF Ended
  <2>2. Way(p) /\ width \in Widths
    BY <1>1, <1>4 DEF WorkLogInv, WorkLogTyped, OnItsWay, Alone
  <2>3. /\ picture = [of |-> Drawing(p), width |-> width]
        /\ card \in {[log |-> p.log, map |-> p.map], None}
        /\ p.log \in Logs /\ p.map \in {0, 1}
    BY <1>1, <2>2 DEF Way, OfDrawing
  <2>4. picture # None
    BY <2>2, <2>3, WorkLogAssumption DEF Drawing
  <2>5. picture.of.log = p.log /\ picture.of.map = p.map /\ picture.of = Drawing(p) /\ picture.width = width
    BY <2>3 DEF Drawing
  <2>6. trust' = "select" => OfOption(p.log, option')
    BY <1>1, <2>1, <2>2 DEF Way, OfSelect, OfSlider
  <2>7. ShownAgrees'
    <3>1. token' = ResolvePng(picture') /\ picture' # None /\ backdrop' \in {picture'.of, None}
      BY <1>2, <2>1, <2>4, <2>5 DEF ResolvePng
    <3>2. card' # None => [log |-> picture'.of.log, map |-> picture'.of.map] = card'
      BY <1>2, <2>3, <2>5
    <3>3. trust' = "select" => option' # Placeholder /\ OfOption(picture'.of.log, option')
      BY <1>2, <2>5, <2>6 DEF OfOption
    <3>4. QED BY <3>1, <3>2, <3>3 DEF ShownAgrees, ResolvePng, OfOption
  <2>8. WidthAgrees'
    BY <1>2, <2>5 DEF WidthAgrees
  <2>9. QED BY <1>1, <1>2, <1>4, <2>1, <2>7, <2>8, EndedWell
<1>5. QED BY <1>3, <1>4

\* Every step keeps it.
LEMMA WorkLogStep == WorkLogInv /\ [WorkLogNext]_workLog => WorkLogInv'
<1>1. CASE UNCHANGED workLog
  <2>1. UNCHANGED <<logs, loadedMaps, option, picture, backdrop, card, width, token, replays, trust>>
    BY <1>1 DEF workLog, logOutside, logShown
  <2>2. QED BY <2>1 DEF WorkLogInv, WorkLogTyped, Agree, ShownAgrees, WidthAgrees, Drew, Alone, AtRest,
                        OnItsWay, Way, OfSelect, OfSlider, OfDrawing, Drawing, ResolvePng
<1>2. QED BY <1>1, OutsideStep, ClearingStep, RequestStep, OptionsStep, MainStep, EntryStep,
             BodyStep, TrailStep, BackdropStep DEF WorkLogNext

\* What is shown of the work log is what was picked, at the width that was
\* asked, for any number of replays that overlapped before and however sessions
\* were archived and pruned meanwhile (render_work_log_session).
THEOREM ReplayIsPicked == WorkLogSpec => []ReplayIsOfPick
BY InitWorkLog, WorkLogStep, RestAgrees, PTL DEF WorkLogSpec

-----------------------------------------------------------------------------
(***************************************************************************)
(* CloudClient keeps the promise of RoutedAction, and its state is typed,  *)
(* for any number of threads, commands, attempts and faults.  The mapping  *)
(* reads the phase of a command from endpoint_log and from the thread that *)
(* has it; the invariant says that this is one thread, that the attempts   *)
(* it counts are those the mower was sent, and that a result stands for a  *)
(* run.                                                                    *)
(***************************************************************************)
(* Whose login is over goes on to send, or to the end of a request.        *)
BeforePost(k) == k.pc \in {"ready", "post"} \/ (k.pc \in {"login", "granted"} /\ k.after = "post")
AfterPost(k)  == k.pc = "answered" \/ (k.pc \in {"login", "granted"} /\ k.after = "count")

(* What a thread knows in each of its waits.                               *)
CallOK(k) ==
    /\ k.pc = "idle" => k.command = None
    /\ k.pc = "returned" => k.command # None
    /\ k.command # None =>
          /\ log[k.command] = None
          /\ BeforePost(k) => posts[k.command] < k.tries
          /\ AfterPost(k) => posts[k.command] <= k.tries
          /\ k.pc \in {"answered", "returned"} /\ k.answer = "done" => runs[k.command] > 0
    /\ k.pc = "answered" /\ k.command = None => k.answer \in {"lost", "refused", "http"}
    /\ k.pc = "granted" /\ k.answer = "ok" => k.key \in Tokens

CallsOK == \A t \in Threads : CallOK(call[t])

OneThreadEach ==
    \A t, u \in Threads : call[t].command # None /\ call[t].command = call[u].command => t = u

(* The mower runs what was sent, and a report of success is of a run.      *)
CommandsOK ==
    \A c \in Commands :
        /\ runs[c] + flight[c] <= posts[c]
        /\ log[c] = "accepted" => runs[c] > 0
        /\ log[c] = None /\ (\A t \in Threads : call[t].command # c) => posts[c] = 0

IInv == TypeOK /\ CallsOK /\ OneThreadEach /\ CommandsOK

Phases == [c \in Commands |-> Phase(c)]

-----------------------------------------------------------------------------
LEMMA IdleIsCall == Idle \in ThreadCalls
BY CloudClientAssumption DEF Idle, ThreadCalls, Tokens

LEMMA InitInv == Init => IInv
<1> SUFFICES ASSUME Init PROVE IInv
  OBVIOUS
<1>2. TypeOK
  BY IdleIsCall, CloudClientAssumption DEF Init, TypeOK, Clients, Tokens, Outcomes
<1>3. CallsOK
  BY DEF Init, CallsOK, CallOK, Idle
<1>4. OneThreadEach /\ CommandsOK
  BY CloudClientAssumption DEF Init, OneThreadEach, CommandsOK, Idle, Outcomes
<1>5. QED BY <1>2, <1>3, <1>4 DEF IInv

LEMMA CallFacts ==
    ASSUME IInv, NEW t \in Threads
    PROVE  call[t] \in ThreadCalls /\ CallOK(call[t])
BY DEF IInv, TypeOK, CallsOK

(* A step of one thread that sends, starts and reports nothing.            *)
LEMMA LocalStep ==
    ASSUME IInv, NEW t \in Threads, NEW k \in ThreadCalls, call' = [call EXCEPT ![t] = k],
           k.command = call[t].command, CallOK(k),
           client' \in Clients, faults' \in 0..MaxFaults, UNCHANGED <<log, mower>>
    PROVE  IInv' /\ UNCHANGED <<Phases, posts, runs>>
<1>1. /\ call' \in [Threads -> ThreadCalls] /\ call'[t] = k
      /\ \A u \in Threads : u # t => call'[u] = call[u]
  BY DEF IInv, TypeOK
<1>2. \A u \in Threads : call'[u].command = call[u].command
  BY <1>1
<1>3. TypeOK'
  BY <1>1 DEF IInv, TypeOK, mower
<1>4. CallsOK'
  BY <1>1 DEF IInv, CallsOK, CallOK, mower
<1>5. OneThreadEach' /\ CommandsOK'
  BY <1>2 DEF IInv, OneThreadEach, CommandsOK, mower
<1>6. UNCHANGED Phases
  BY <1>2 DEF Phases, Phase
<1>7. QED BY <1>3, <1>4, <1>5, <1>6 DEF IInv, mower

-----------------------------------------------------------------------------
(* Where a login leads to.                                                 *)
LEMMA LoginStep ==
    ASSUME IInv, NEW t \in Threads, NEW after \in {"post", "count"}, StartLogin(t, after),
           call[t].pc = IF after = "post" THEN "ready" ELSE "answered",
           client' \in Clients, faults' \in 0..MaxFaults, UNCHANGED <<log, mower>>
    PROVE  IInv' /\ UNCHANGED <<Phases, posts, runs>>
<1> DEFINE k == [call[t] EXCEPT !.pc = "login", !.after = after, !.token = client.secondary]
<1>1. call[t] \in ThreadCalls /\ CallOK(call[t]) /\ client \in Clients
  BY CallFacts DEF IInv, TypeOK
<1>2. call' = [call EXCEPT ![t] = k]
  BY DEF StartLogin
<1>3. k \in ThreadCalls /\ k.command = call[t].command
  BY <1>1 DEF ThreadCalls, Clients
<1>4. CallOK(k)
  BY <1>1 DEF CallOK, BeforePost, AfterPost, ThreadCalls
<1> HIDE DEF k
<1>5. QED BY <1>2, <1>3, <1>4, LocalStep

(* What a thread is given when it is not repeated, or done.                *)
LEMMA RestartedCall ==
    ASSUME IInv, NEW t \in Threads, AfterPost(call[t]),
           \/ call[t].command = None /\ call' = [call EXCEPT ![t] = Idle]
           \/ call[t].command # None /\ (Again(t) \/ Return(t, "none") \/ Return(t, "garbled")),
           client' \in Clients, faults' \in 0..MaxFaults, UNCHANGED <<log, mower>>
    PROVE  IInv' /\ UNCHANGED <<Phases, posts, runs>>
<1>1. call[t] \in ThreadCalls /\ CallOK(call[t])
  BY CallFacts
<1>2. CASE Again(t) /\ call[t].command # None /\ call[t].tries < MaxTries
  <2> DEFINE k == [Idle EXCEPT !.pc = "ready", !.tries = call[t].tries + 1,
                               !.command = call[t].command]
  <2>1. call' = [call EXCEPT ![t] = k]
    BY <1>2 DEF Again
  <2>2. k \in ThreadCalls /\ k.command = call[t].command
    <3>1. call[t].tries + 1 \in 0..MaxTries /\ call[t].command \in Commands
      BY <1>1, <1>2, CloudClientAssumption DEF ThreadCalls
    <3>2. QED BY <3>1 DEF ThreadCalls, Idle
  <2>3. CallOK(k)
    <3>1. posts[k.command] < k.tries
      <4>1. posts[call[t].command] <= call[t].tries /\ call[t].command \in Commands
        BY <1>1, <1>2 DEF CallOK, ThreadCalls
      <4>2. posts[call[t].command] \in Nat /\ call[t].tries \in Nat
        BY <1>1, <4>1, CloudClientAssumption DEF IInv, TypeOK, ThreadCalls
      <4>3. QED BY <4>1, <4>2 DEF Idle
    <3>2. QED BY <1>1, <1>2, <3>1 DEF CallOK, BeforePost, AfterPost, Idle
  <2> HIDE DEF k
  <2>4. QED BY <2>1, <2>2, <2>3, LocalStep
<1>3. CASE call[t].command # None
             /\ \E a \in {"none", "garbled"} :
                    call' = [call EXCEPT ![t] = [Idle EXCEPT !.pc = "returned",
                                       !.command = call[t].command, !.answer = a]]
  <2> PICK a \in {"none", "garbled"} :
             call' = [call EXCEPT ![t] = [Idle EXCEPT !.pc = "returned",
                                       !.command = call[t].command, !.answer = a]]
    BY <1>3
  <2> DEFINE k == [Idle EXCEPT !.pc = "returned", !.command = call[t].command, !.answer = a]
  <2>1. k \in ThreadCalls /\ k.command = call[t].command
    BY <1>1, IdleIsCall DEF ThreadCalls, Idle
  <2>2. CallOK(k)
    BY <1>1, <1>3 DEF CallOK, BeforePost, AfterPost, Idle
  <2> HIDE DEF k
  <2>3. call' = [call EXCEPT ![t] = k]
    BY DEF k
  <2>4. QED BY <2>1, <2>2, <2>3, LocalStep
<1>4. CASE call[t].command = None /\ call' = [call EXCEPT ![t] = Idle]
  <2>1. Idle.command = call[t].command /\ CallOK(Idle)
    BY <1>4 DEF Idle, CallOK
  <2>2. QED BY <1>4, <2>1, IdleIsCall, LocalStep
<1>5. QED BY <1>2, <1>3, <1>4 DEF Again, Return

(* A request without result: the failure is counted, and it is tried again *)
(* or over.                                                                *)
LEMMA NoResponseStep ==
    ASSUME IInv, NEW t \in Threads, AfterPost(call[t]), NoResponse(t),
           client' \in Clients, faults' \in 0..MaxFaults, UNCHANGED <<log, mower>>
    PROVE  IInv' /\ UNCHANGED <<Phases, posts, runs>>
BY RestartedCall DEF NoResponse

LEMMA FailureIsClient ==
    ASSUME NEW cl \in Clients, NEW e \in {None, "80001", "other"}
    PROVE  /\ Failure(cl) \in Clients /\ Answer200(cl) \in Clients
           /\ [Failure(cl) EXCEPT !.error = e] \in Clients
           /\ [Answer200(cl) EXCEPT !.error = e] \in Clients
<1>1. Failure(cl) \in Clients
  <2>1. CASE cl.fail = FailLimit
    BY <2>1 DEF Failure, Clients
  <2>2. CASE cl.fail # FailLimit
    <3>1. cl.fail + 1 \in 0..FailLimit
      BY <2>2, CloudClientAssumption DEF Clients
    <3>2. QED BY <2>2, <3>1 DEF Failure, Clients
  <2>3. QED BY <2>1, <2>2
<1>2. Answer200(cl) \in Clients
  <2>1. 0 \in 0..FailLimit
    BY CloudClientAssumption
  <2>2. QED BY <2>1 DEF Answer200, Clients
<1>3. \A c \in Clients : [c EXCEPT !.error = e] \in Clients
  BY DEF Clients
<1>4. QED BY <1>1, <1>2, <1>3

-----------------------------------------------------------------------------
(* A request that reaches the mower, or its answer; the promise's Send.    *)
LEMMA SendStep ==
    ASSUME IInv, NEW t \in Threads, NEW c \in Commands, NEW answer,
           call[t].command = c, Posting(t), Answered(t, answer),
           answer \in {"lost", "refused", "http", "garbled", "other", "80001", "done"},
           posts' = [posts EXCEPT ![c] = @ + 1], faults' \in 0..MaxFaults,
           \/ runs' = [runs EXCEPT ![c] = @ + 1] /\ UNCHANGED flight
           \/ answer # "done" /\ UNCHANGED <<runs, flight>>
           \/ answer # "done" /\ UNCHANGED runs /\ flight' = [flight EXCEPT ![c] = @ + 1],
           UNCHANGED <<client, log>>
    PROVE  IInv' /\ Promise!Send(c)
<1> DEFINE k == [call[t] EXCEPT !.pc = "answered", !.answer = answer]
<1>1. call[t] \in ThreadCalls /\ CallOK(call[t]) /\ BeforePost(call[t])
  BY CallFacts DEF Posting, BeforePost
<1>2. c # None
  BY CloudClientAssumption
<1>3. log[c] = None /\ posts[c] < call[t].tries
  BY <1>1, <1>2 DEF CallOK
<1>4. /\ posts[c] \in 0..MaxTries /\ runs[c] \in 0..MaxTries /\ flight[c] \in 0..MaxTries
      /\ call[t].tries \in 0..MaxTries /\ runs[c] + flight[c] <= posts[c] /\ MaxTries \in Nat
  BY <1>1, CloudClientAssumption DEF IInv, TypeOK, ThreadCalls, CommandsOK
<1>5. /\ call' \in [Threads -> ThreadCalls] /\ call'[t] = k /\ k.command = c
      /\ \A u \in Threads : u # t => call'[u] = call[u]
  BY <1>1 DEF Answered, IInv, TypeOK, ThreadCalls
<1>6. \A u \in Threads : call'[u].command = call[u].command
  BY <1>5
<1>7. /\ posts'[c] = posts[c] + 1
      /\ runs'[c] + flight'[c] <= posts'[c] /\ runs'[c] >= runs[c]
      /\ answer = "done" => runs'[c] > 0
      /\ runs'[c] \in 0..MaxTries /\ flight'[c] \in 0..MaxTries /\ posts'[c] \in 0..MaxTries
      /\ posts'[c] <= call[t].tries
  BY <1>3, <1>4 DEF IInv, TypeOK
<1>8. /\ \A d \in Commands : d # c => posts'[d] = posts[d] /\ runs'[d] = runs[d] /\ flight'[d] = flight[d]
      /\ posts' \in [Commands -> 0..MaxTries] /\ runs' \in [Commands -> 0..MaxTries]
      /\ flight' \in [Commands -> 0..MaxTries]
  BY <1>7 DEF IInv, TypeOK
<1>9. TypeOK'
  BY <1>5, <1>8 DEF IInv, TypeOK
<1>10. CallsOK'
  <2>1. CallOK(call[t])'
    BY <1>1, <1>2, <1>3, <1>5, <1>7 DEF CallOK, BeforePost, AfterPost, ThreadCalls
  <2>2. ASSUME NEW u \in Threads, u # t PROVE CallOK(call[u])'
    <3>1. call'[u] = call[u] /\ CallOK(call[u]) /\ call[u].command # c
      BY <1>2, <1>5, <2>2, CallFacts DEF IInv, OneThreadEach
    <3>2. call[u].command # None => call[u].command \in Commands
      BY <2>2 DEF IInv, TypeOK, ThreadCalls
    <3>3. QED BY <1>8, <3>1, <3>2 DEF CallOK, BeforePost, AfterPost
  <2>3. QED BY <2>1, <2>2 DEF CallsOK
<1>11. OneThreadEach'
  BY <1>6 DEF IInv, OneThreadEach
<1>12. CommandsOK'
  BY <1>3, <1>6, <1>7, <1>8, CloudClientAssumption DEF IInv, CommandsOK, Outcomes
<1>13. Phase(c) = "open" /\ UNCHANGED Phases
  BY <1>3, <1>6, CloudClientAssumption DEF Phases, Phase, Outcomes
<1>14. Promise!Send(c)
  BY <1>3, <1>4, <1>13 DEF Promise!Send, Phases
<1>15. QED BY <1>9, <1>10, <1>11, <1>12, <1>14 DEF IInv

(* A request whose answer was lost reaches the mower.                      *)
LEMMA LateStep ==
    ASSUME IInv, NEW c \in Commands, ArriveLate(c)
    PROVE  IInv' /\ Promise!Arrive(c)
<1>1. /\ runs[c] \in 0..MaxTries /\ flight[c] \in 0..MaxTries /\ posts[c] \in 0..MaxTries
      /\ flight[c] > 0 /\ runs[c] + flight[c] <= posts[c] /\ MaxTries \in Nat
  BY CloudClientAssumption DEF ArriveLate, IInv, TypeOK, CommandsOK
<1>2. /\ runs'[c] = runs[c] + 1 /\ flight'[c] = flight[c] - 1
      /\ \A d \in Commands : d # c => runs'[d] = runs[d] /\ flight'[d] = flight[d]
  BY DEF ArriveLate, IInv, TypeOK
<1>3. runs[c] + 1 \in 0..MaxTries /\ flight[c] - 1 \in 0..MaxTries
  BY <1>1
<1>4. TypeOK'
  BY <1>3 DEF ArriveLate, IInv, TypeOK
<1>5. \A d \in Commands : runs[d] > 0 => runs'[d] > 0
  BY <1>1, <1>2
<1>6. CallsOK'
  <2>1. \A u \in Threads : call[u].command # None => call[u].command \in Commands
    BY DEF IInv, TypeOK, ThreadCalls
  <2>2. QED BY <1>5, <2>1 DEF ArriveLate, IInv, CallsOK, CallOK, BeforePost, AfterPost
<1>7. OneThreadEach'
  BY DEF ArriveLate, IInv, OneThreadEach
<1>8. CommandsOK'
  <2>1. runs'[c] + flight'[c] <= posts[c]
    BY <1>1, <1>2
  <2>2. QED BY <1>2, <1>5, <2>1 DEF ArriveLate, IInv, CommandsOK
<1>9. UNCHANGED Phases
  BY DEF ArriveLate, Phases, Phase
<1>10. Promise!Arrive(c)
  BY <1>1, <1>9 DEF Promise!Arrive, ArriveLate, Phases
<1>11. QED BY <1>4, <1>6, <1>7, <1>8, <1>10 DEF IInv

-----------------------------------------------------------------------------
(* A command is opened by one thread.                                      *)
LEMMA OpenStep ==
    ASSUME IInv, NEW t \in Threads, Command(t)
    PROVE  IInv' /\ \E c \in Commands : Promise!Open(c)
<1> PICK c \in Commands :
        /\ call[t].pc = "idle" /\ log[c] = None /\ \A u \in Threads : call[u].command # c
        /\ client' = [client EXCEPT !.error = None]
        /\ call' = [call EXCEPT ![t] = [Idle EXCEPT !.pc = "ready", !.tries = 1, !.command = c]]
        /\ UNCHANGED <<log, mower, faults>>
  BY DEF Command
<1> DEFINE k == [Idle EXCEPT !.pc = "ready", !.tries = 1, !.command = c]
<1>1. k \in ThreadCalls
  <2>1. 1 \in 0..MaxTries
    BY CloudClientAssumption
  <2>2. QED BY <2>1, IdleIsCall DEF ThreadCalls, Idle
<1>2. /\ call' \in [Threads -> ThreadCalls] /\ call'[t] = k
      /\ \A u \in Threads : u # t => call'[u] = call[u]
  BY <1>1 DEF IInv, TypeOK
<1>3. call[t].command = None /\ c # None /\ posts[c] = 0
  BY CallFacts, CloudClientAssumption DEF CallOK, IInv, CommandsOK
<1>4. TypeOK'
  BY <1>2, CloudClientAssumption DEF IInv, TypeOK, mower, Clients
<1>5. CallOK(call[t])'
  BY <1>2, <1>3 DEF CallOK, BeforePost, AfterPost, Idle, mower
<1>6. CallsOK'
  BY <1>2, <1>5 DEF IInv, CallsOK, CallOK, BeforePost, AfterPost, mower
<1>7. k.command = c
  BY DEF Idle
<1>8. OneThreadEach'
  BY <1>2, <1>7 DEF IInv, OneThreadEach
<1>9. CommandsOK'
  BY <1>2, <1>3, <1>7, CloudClientAssumption DEF IInv, CommandsOK, mower
<1>10. Phase(c) = "new" /\ Phase(c)' = "open"
  BY <1>2, <1>7, CloudClientAssumption DEF Phase, Outcomes
<1>11. \A d \in Commands : d # c => Phase(d)' = Phase(d)
  BY <1>2, <1>3, <1>7, CloudClientAssumption DEF Phase
<1>12. Phases' = [Phases EXCEPT ![c] = "open"]
  BY <1>10, <1>11 DEF Phases
<1>13. Promise!Open(c)
  BY <1>10, <1>12 DEF Promise!Open, Phases, mower
<1>14. QED BY <1>4, <1>6, <1>8, <1>9, <1>13 DEF IInv

(* routed_action ends: accepted only if it has run.                        *)
LEMMA ReportStep ==
    ASSUME IInv, NEW t \in Threads, Report(t)
    PROVE  IInv' /\ \E c \in Commands : Promise!Report(c)
<1>1. call[t] \in ThreadCalls /\ CallOK(call[t])
  BY CallFacts
<1>2. PICK c \in Commands : c = call[t].command /\ c # None /\ log[c] = None
  BY <1>1 DEF Report, CallOK, ThreadCalls
<1>0. PICK outcome \in Outcomes :
        /\ log' = [log EXCEPT ![c] = outcome]
        /\ outcome = "accepted" <=> call[t].answer = "done"
  BY <1>2 DEF Report, Outcomes
<1>3. /\ call' \in [Threads -> ThreadCalls] /\ call'[t] = Idle
      /\ \A u \in Threads : u # t => call'[u] = call[u] /\ call[u].command # c
  BY <1>2, IdleIsCall DEF Report, IInv, TypeOK, OneThreadEach
<1>4. log' \in [Commands -> Outcomes \cup {None}] /\ log'[c] = outcome
      /\ \A d \in Commands : d # c => log'[d] = log[d]
  BY <1>0, <1>2 DEF IInv, TypeOK
<1>5. outcome = "accepted" => runs[c] > 0
  BY <1>0, <1>1, <1>2 DEF Report, CallOK
<1>6. TypeOK'
  BY <1>3, <1>4 DEF Report, IInv, TypeOK, mower
<1>7. CallsOK'
  <2>1. CallOK(call[t])'
    BY <1>3, IdleIsCall DEF CallOK, Idle
  <2>2. ASSUME NEW u \in Threads, u # t PROVE CallOK(call[u])'
    <3>1. CallOK(call[u]) /\ (call[u].command # None => call[u].command \in Commands)
      BY CallFacts DEF ThreadCalls
    <3>2. QED BY <1>3, <1>4, <2>2, <3>1 DEF Report, mower, CallOK, BeforePost, AfterPost
  <2>3. QED BY <2>1, <2>2 DEF CallsOK
<1>8. OneThreadEach'
  BY <1>3 DEF IInv, OneThreadEach, Idle
<1>9. outcome # None
  BY CloudClientAssumption
<1>10. CommandsOK'
  BY <1>2, <1>3, <1>4, <1>5, <1>9 DEF Report, IInv, CommandsOK, mower
<1> DEFINE end == IF outcome = "accepted" THEN "accepted" ELSE "failed"
<1>11. Phase(c) = "open" /\ Phase(c)' = end
  <2>1. Phase(c) = "open"
    BY <1>2, CloudClientAssumption DEF Phase, Outcomes
  <2>2. CASE outcome = "accepted"
    BY <1>2, <1>4, <2>1, <2>2 DEF Phase
  <2>3. CASE outcome # "accepted"
    BY <1>2, <1>4, <1>9, <2>1, <2>3 DEF Phase
  <2>4. QED BY <2>1, <2>2, <2>3
<1>12. \A d \in Commands : d # c => Phase(d)' = Phase(d)
  BY <1>2, <1>3, <1>4, CloudClientAssumption DEF Phase, Idle
<1>13. Phases' = [Phases EXCEPT ![c] = end]
  <2> HIDE DEF end
  <2>1. QED BY <1>2, <1>11, <1>12 DEF Phases
<1>14. Promise!Report(c)
  BY <1>2, <1>5, <1>11, <1>13 DEF Promise!Report, Phases, Report, mower
<1>15. QED BY <1>2, <1>6, <1>7, <1>8, <1>10, <1>14 DEF IInv

-----------------------------------------------------------------------------
(* The key expires, or is withdrawn.                                       *)
LEMMA FaultIsBounded == IInv /\ Fault => faults' \in 0..MaxFaults
BY CloudClientAssumption DEF IInv, TypeOK, Fault

LEMMA CloudStep ==
    ASSUME IInv, Expire \/ Revoke
    PROVE  IInv' /\ UNCHANGED <<Phases, posts, runs>>
<1>1. CASE Expire
  <2>1. client' \in Clients
    BY <1>1 DEF Expire, IInv, TypeOK, Clients
  <2>2. QED BY <1>1, <2>1 DEF Expire, IInv, TypeOK, CallsOK, CallOK, BeforePost, AfterPost,
        OneThreadEach, CommandsOK, Phases, Phase, mower
<1>2. CASE Revoke
  <2>0. PICK keys \in BOOLEAN, tokens \in BOOLEAN :
        LET Key(k) == IF keys THEN Withdrawn(k) ELSE k
            Token(k) == IF tokens THEN Withdrawn(k) ELSE k
        IN  /\ client' = [client EXCEPT !.key = Key(@), !.secondary = Token(@)]
            /\ call' = [t \in Threads |->
                          [call[t] EXCEPT !.key = Key(@), !.token = Token(@)]]
    BY <1>2 DEF Revoke
  <2>1. \A k \in Tokens : Withdrawn(k) \in Tokens
    BY DEF Withdrawn, Tokens
  <2>2. \A k \in Tokens \cup {None} : Withdrawn(k) \in Tokens \cup {None}
    BY <2>1 DEF Withdrawn, Tokens
  <2>3. client' \in Clients
    BY <2>0, <2>1, <2>2 DEF IInv, TypeOK, Clients
  <2>4. ASSUME NEW t \in Threads
        PROVE  /\ call'[t] \in ThreadCalls /\ call'[t].command = call[t].command
               /\ call'[t].pc = call[t].pc /\ call'[t].tries = call[t].tries
               /\ call'[t].after = call[t].after /\ call'[t].answer = call[t].answer
               /\ call[t].key \in Tokens => call'[t].key \in Tokens
    BY <2>0, <2>1, <2>2, CallFacts DEF ThreadCalls
  <2>5. faults' \in 0..MaxFaults
    BY <1>2, FaultIsBounded DEF Revoke
  <2>6. call' \in [Threads -> ThreadCalls]
    BY <2>0, <2>4
  <2>7. UNCHANGED <<log, flight, posts, runs>>
    BY <1>2 DEF Revoke, mower
  <2>8. TypeOK'
    BY <2>3, <2>5, <2>6, <2>7 DEF IInv, TypeOK
  <2>9. CallsOK'
    BY <2>4, <2>7 DEF IInv, CallsOK, CallOK, BeforePost, AfterPost
  <2>10. OneThreadEach' /\ CommandsOK'
    BY <2>4, <2>7 DEF IInv, OneThreadEach, CommandsOK
  <2>11. UNCHANGED Phases
    BY <2>4, <2>7 DEF Phases, Phase
  <2>12. QED BY <2>7, <2>8, <2>9, <2>10, <2>11 DEF IInv
<1>3. QED BY <1>1, <1>2

-----------------------------------------------------------------------------
(* The other steps of a thread.                                            *)
LEMMA FetchStep ==
    ASSUME IInv, NEW t \in Threads, Fetch(t) \/ PostFetch(t)
    PROVE  IInv' /\ UNCHANGED <<Phases, posts, runs>>
<1>1. call[t] \in ThreadCalls /\ CallOK(call[t]) /\ client \in Clients /\ faults \in 0..MaxFaults
  BY CallFacts DEF IInv, TypeOK
<1>2. CASE Fetch(t)
  <2> DEFINE k == [Idle EXCEPT !.pc = "ready", !.tries = 1]
  <2>1. k \in ThreadCalls
    <3>1. 1 \in 0..MaxTries
      BY CloudClientAssumption
    <3>2. QED BY <3>1, IdleIsCall DEF ThreadCalls, Idle
  <2>2. k.command = call[t].command /\ CallOK(k)
    BY <1>1, <1>2 DEF Fetch, CallOK, Idle
  <2>3. call' = [call EXCEPT ![t] = k]
    BY <1>2 DEF Fetch
  <2> HIDE DEF k
  <2>4. QED BY <1>1, <1>2, <2>1, <2>2, <2>3, LocalStep DEF Fetch
<1>3. CASE PostFetch(t) /\ call' = [call EXCEPT ![t] = Idle] /\ client' = Answer200(client)
  <2>1. client' \in Clients
    BY <1>1, <1>3, FailureIsClient
  <2>2. Idle.command = call[t].command /\ CallOK(Idle)
    BY <1>3 DEF PostFetch, Idle, CallOK
  <2>3. faults' \in 0..MaxFaults
    BY <1>1, <1>3, FaultIsBounded DEF PostFetch
  <2>4. QED BY <1>3, <2>1, <2>2, <2>3, IdleIsCall, LocalStep DEF PostFetch
<1>4. CASE /\ PostFetch(t) /\ UNCHANGED client
           /\ \E a \in {"refused", "lost", "http"} : Answered(t, a)
  <2>1. PICK a \in {"refused", "lost", "http"} : Answered(t, a)
    BY <1>4
  <2> DEFINE k == [call[t] EXCEPT !.pc = "answered", !.answer = a]
  <2>2. call' = [call EXCEPT ![t] = k] /\ k \in ThreadCalls /\ k.command = call[t].command
    BY <1>1, <2>1 DEF Answered, ThreadCalls
  <2>3. CallOK(k)
    BY <1>1, <1>4 DEF PostFetch, CallOK, ThreadCalls
  <2>4. faults' \in 0..MaxFaults
    BY <1>1, <1>4, FaultIsBounded DEF PostFetch
  <2> HIDE DEF k
  <2>5. QED BY <1>1, <1>4, <2>2, <2>3, <2>4, LocalStep DEF PostFetch
<1>5. QED BY <1>2, <1>3, <1>4 DEF PostFetch

LEMMA CommandStep ==
    ASSUME IInv, NEW t \in Threads, PostCommand(t)
    PROVE  IInv' /\ \E c \in Commands : Promise!Send(c)
<1>1. PICK c \in Commands :
        /\ call[t].command = c /\ posts' = [posts EXCEPT ![c] = @ + 1]
        /\ \/ /\ client.key = "bad" /\ Answered(t, "refused")
              /\ UNCHANGED <<flight, runs, faults>>
           \/ /\ client.key = "good" /\ UNCHANGED flight
              /\ \/ Answered(t, "done") /\ runs' = [runs EXCEPT ![c] = @ + 1] /\ UNCHANGED faults
                 \/ Answered(t, "80001") /\ UNCHANGED <<runs, faults>>
                 \/ Answered(t, "garbled") /\ runs' = [runs EXCEPT ![c] = @ + 1] /\ Fault
                 \/ UNCHANGED runs /\ Fault /\ \E a \in {"other", "http"} : Answered(t, a)
           \/ /\ client.key = "good" /\ Answered(t, "lost") /\ Fault
              /\ flight' = [flight EXCEPT ![c] = @ + 1] /\ UNCHANGED runs
  BY DEF PostCommand
<1>2. faults' \in 0..MaxFaults
  <2>1. faults \in 0..MaxFaults
    BY DEF IInv, TypeOK
  <2>2. Fault \/ UNCHANGED faults
    BY <1>1
  <2>3. QED BY <2>1, <2>2, FaultIsBounded
<1>3. PICK answer \in {"lost", "refused", "http", "garbled", "other", "80001", "done"} :
        /\ Answered(t, answer)
        /\ \/ runs' = [runs EXCEPT ![c] = @ + 1] /\ UNCHANGED flight
           \/ answer # "done" /\ UNCHANGED <<runs, flight>>
           \/ answer # "done" /\ UNCHANGED runs /\ flight' = [flight EXCEPT ![c] = @ + 1]
  BY <1>1
<1>4. Posting(t) /\ UNCHANGED <<client, log>> /\ call[t].command = c
      /\ posts' = [posts EXCEPT ![c] = @ + 1]
  BY <1>1 DEF PostCommand
<1>5. IInv' /\ Promise!Send(c)
  BY <1>2, <1>3, <1>4, SendStep
<1>6. QED BY <1>5

LEMMA AnswerStep ==
    ASSUME IInv, NEW t \in Threads, RenewExpired(t) \/ OnLost(t) \/ OnRefused(t) \/ OnAnswer(t)
    PROVE  IInv' /\ UNCHANGED <<Phases, posts, runs>>
<1>1. /\ call[t] \in ThreadCalls /\ CallOK(call[t]) /\ client \in Clients /\ faults \in 0..MaxFaults
      /\ client.error \in {None, "80001", "other"}
  BY CallFacts DEF IInv, TypeOK, Clients
<1>2. /\ [Failure(client) EXCEPT !.error = IF call[t].command = None THEN @ ELSE None] \in Clients
  <2>1. [Failure(client) EXCEPT !.error = None] \in Clients
    BY <1>1, FailureIsClient
  <2>2. [Failure(client) EXCEPT !.error = @] = Failure(client)
    BY <1>1, FailureIsClient DEF Clients
  <2>3. Failure(client) \in Clients
    BY <1>1, FailureIsClient
  <2>4. CASE call[t].command = None
    BY <2>2, <2>3, <2>4
  <2>5. CASE call[t].command # None
    BY <2>1, <2>5
  <2>6. QED BY <2>4, <2>5
<1>3. CASE RenewExpired(t)
  <2>1. client' \in Clients
    BY <1>1, <1>3 DEF RenewExpired, Clients
  <2>2. StartLogin(t, "post") /\ call[t].pc = "ready"
    BY <1>3 DEF RenewExpired
  <2>3. faults' \in 0..MaxFaults /\ UNCHANGED <<log, mower>>
    BY <1>1, <1>3 DEF RenewExpired
  <2>4. QED BY <2>1, <2>2, <2>3, LoginStep
<1>4. CASE OnLost(t) /\ call[t].command = None /\ call[t].tries < MaxTries
  <2> DEFINE k == [Idle EXCEPT !.pc = "ready", !.tries = call[t].tries + 1]
  <2>1. call[t].tries + 1 \in 0..MaxTries
    BY <1>1, <1>4, CloudClientAssumption DEF ThreadCalls
  <2>2. k \in ThreadCalls /\ k.command = call[t].command /\ CallOK(k)
    BY <1>4, <2>1, IdleIsCall DEF ThreadCalls, Idle, CallOK
  <2>3. call' = [call EXCEPT ![t] = k]
    BY <1>4 DEF OnLost
  <2> HIDE DEF k
  <2>4. QED BY <1>1, <1>4, <2>2, <2>3, LocalStep DEF OnLost
<1>5. CASE OnLost(t) /\ ~(call[t].command = None /\ call[t].tries < MaxTries)
  BY <1>1, <1>2, <1>5, NoResponseStep DEF OnLost, AfterPost
<1>6. CASE OnRefused(t) /\ call[t].answer = "refused" /\ client.secondary # None
  <2>1. client' \in Clients
    BY <1>1, <1>6 DEF OnRefused, Clients
  <2>2. QED BY <1>1, <1>6, <2>1, LoginStep DEF OnRefused
<1>7. CASE OnRefused(t) /\ ~(call[t].answer = "refused" /\ client.secondary # None)
  BY <1>1, <1>2, <1>7, NoResponseStep DEF OnRefused, AfterPost
<1>8. CASE OnAnswer(t)
  <2>1. client' \in Clients
    BY <1>1, <1>8, FailureIsClient DEF OnAnswer
  <2>2. /\ call[t].pc = "answered" /\ UNCHANGED <<log, mower, faults>>
        /\ \/ call[t].answer = "done" /\ Return(t, "done")
           \/ call[t].answer # "done" /\ (Again(t) \/ Return(t, "none") \/ Return(t, "garbled"))
    BY <1>8 DEF OnAnswer
  <2>3. call[t].command # None
    BY <1>1, <1>8 DEF OnAnswer, CallOK
  <2>4. CASE call[t].answer = "done"
    <3> DEFINE k == [Idle EXCEPT !.pc = "returned", !.command = call[t].command, !.answer = "done"]
    <3>1. call' = [call EXCEPT ![t] = k]
      BY <2>2, <2>4 DEF Return
    <3>2. k \in ThreadCalls /\ k.command = call[t].command
      BY <1>1, IdleIsCall DEF ThreadCalls, Idle
    <3>3. CallOK(k)
      BY <1>1, <2>2, <2>3, <2>4 DEF CallOK, BeforePost, AfterPost, Idle
    <3> HIDE DEF k
    <3>4. QED BY <1>1, <2>1, <2>2, <3>1, <3>2, <3>3, LocalStep
  <2>5. CASE call[t].answer # "done"
    BY <1>1, <2>1, <2>2, <2>3, <2>5, RestartedCall DEF AfterPost
  <2>6. QED BY <2>4, <2>5
<1>9. QED BY <1>3, <1>4, <1>5, <1>6, <1>7, <1>8

(* A login ends in a request or in the end of one, or starts again with    *)
(* the password.                                                           *)
LEMMA AfterLoginStep ==
    ASSUME IInv, NEW t \in Threads, NEW cl \in Clients, call[t].pc = "granted", AfterLogin(t, cl),
           UNCHANGED <<log, mower, faults>>
    PROVE  IInv' /\ UNCHANGED <<Phases, posts, runs>>
<1>1. call[t] \in ThreadCalls /\ CallOK(call[t]) /\ faults' \in 0..MaxFaults
  BY CallFacts DEF IInv, TypeOK
<1>2. CASE call[t].after = "post"
  <2> DEFINE k == [call[t] EXCEPT !.pc = "post", !.key = None, !.token = None, !.answer = "none"]
  <2>1. call' = [call EXCEPT ![t] = k] /\ client' \in Clients
    BY <1>2 DEF AfterLogin
  <2>2. k \in ThreadCalls /\ k.command = call[t].command
    BY <1>1 DEF ThreadCalls
  <2>3. CallOK(k)
    BY <1>1, <1>2 DEF CallOK, BeforePost, AfterPost, ThreadCalls
  <2> HIDE DEF k
  <2>4. QED BY <1>1, <2>1, <2>2, <2>3, LocalStep
<1>3. CASE call[t].after # "post"
  <2>1. AfterPost(call[t]) /\ NoResponse(t)
    BY <1>1, <1>3 DEF AfterPost, AfterLogin, ThreadCalls
  <2>2. client' \in Clients
    <3>1. Failure(cl) \in Clients /\ [Failure(cl) EXCEPT !.error = None] \in Clients
      BY FailureIsClient
    <3>2. [Failure(cl) EXCEPT !.error = @] = Failure(cl)
      BY <3>1 DEF Clients
    <3>3. CASE call[t].command = None
      BY <1>3, <3>1, <3>2, <3>3 DEF AfterLogin
    <3>4. CASE call[t].command # None
      BY <1>3, <3>1, <3>4 DEF AfterLogin
    <3>5. QED BY <3>3, <3>4
  <2>3. QED BY <1>1, <2>1, <2>2, NoResponseStep
<1>4. QED BY <1>2, <1>3

LEMMA LoginEnds ==
    ASSUME IInv, NEW t \in Threads, LoginAnswer(t) \/ LoginResume(t)
    PROVE  IInv' /\ UNCHANGED <<Phases, posts, runs>>
<1>1. /\ call[t] \in ThreadCalls /\ CallOK(call[t]) /\ client \in Clients /\ faults \in 0..MaxFaults
  BY CallFacts DEF IInv, TypeOK
<1>2. CASE LoginAnswer(t)
  <2>1. PICK k \in {[call[t] EXCEPT !.pc = "granted", !.key = "good", !.token = "good", !.answer = "ok"],
                    [call[t] EXCEPT !.pc = "granted", !.answer = "refused"],
                    [call[t] EXCEPT !.pc = "granted", !.answer = "http"]} :
           call' = [call EXCEPT ![t] = k]
    BY <1>2 DEF LoginAnswer
  <2>2. k \in ThreadCalls /\ k.command = call[t].command
    BY <1>1, <2>1 DEF ThreadCalls, Tokens
  <2>3. CallOK(k)
    BY <1>1, <1>2, <2>1 DEF LoginAnswer, CallOK, BeforePost, AfterPost, ThreadCalls, Tokens
  <2>4. /\ faults' \in 0..MaxFaults /\ client' \in Clients /\ UNCHANGED <<log, mower>>
    BY <1>1, <1>2, FaultIsBounded DEF LoginAnswer
  <2>5. QED BY <2>1, <2>2, <2>3, <2>4, LocalStep
<1>3. CASE LoginResume(t) /\ call[t].answer = "ok"
  <2>1. call[t].key \in Tokens /\ call[t].token \in Tokens \cup {None}
    BY <1>1, <1>3 DEF LoginResume, CallOK, ThreadCalls
  <2>2. 0 \in 0..FailLimit
    BY CloudClientAssumption
  <2>3. Granted(t) \in Clients
    BY <1>1, <2>1, <2>2 DEF Granted, Clients
  <2>4. QED BY <1>3, <2>3, AfterLoginStep DEF LoginResume
<1>4. CASE LoginResume(t) /\ call[t].answer = "refused"
  <2> DEFINE k == [call[t] EXCEPT !.pc = "login", !.token = None, !.answer = "none"]
  <2>1. /\ call[t].pc = "granted" /\ call' = [call EXCEPT ![t] = k]
        /\ client' = [client EXCEPT !.secondary = None, !.logged_in = FALSE]
        /\ UNCHANGED <<log, mower, faults>>
    BY <1>4 DEF LoginResume
  <2>2. k \in ThreadCalls /\ k.command = call[t].command
    BY <1>1 DEF ThreadCalls
  <2>3. CallOK(k)
    BY <1>1, <2>1 DEF CallOK, BeforePost, AfterPost, ThreadCalls
  <2>4. client' \in Clients /\ faults' \in 0..MaxFaults
    BY <1>1, <2>1 DEF Clients
  <2> HIDE DEF k
  <2>5. QED BY <2>1, <2>2, <2>3, <2>4, LocalStep
<1>5. CASE LoginResume(t) /\ call[t].answer \notin {"ok", "refused"}
  <2>1. [client EXCEPT !.fail = 0, !.connected = TRUE] \in Clients
    <3>1. 0 \in 0..FailLimit
      BY CloudClientAssumption
    <3>2. QED BY <1>1, <3>1 DEF Clients
  <2>2. PICK cl \in Clients : AfterLogin(t, cl)
    BY <1>1, <1>5, <2>1 DEF LoginResume
  <2>3. QED BY <1>5, <2>2, AfterLoginStep DEF LoginResume
<1>6. QED BY <1>2, <1>3, <1>4, <1>5

-----------------------------------------------------------------------------
(* Every step keeps the invariant, and is one of the promise or none.      *)
LEMMA NextKeeps ==
    IInv /\ [Next]_vars => IInv' /\ [Promise!Next]_(Promise!vars)
<1> SUFFICES ASSUME IInv, [Next]_vars PROVE IInv' /\ [Promise!Next]_(Promise!vars)
  OBVIOUS
<1>1. CASE UNCHANGED vars
  BY <1>1 DEF vars, mower, IInv, TypeOK, CallsOK, CallOK, BeforePost, AfterPost, OneThreadEach,
     CommandsOK, Promise!vars, Phase
<1>2. CASE Next
  <2>1. \/ IInv' /\ UNCHANGED <<Phases, posts, runs>>
        \/ IInv' /\ \E c \in Commands : Promise!Open(c) \/ Promise!Send(c) \/ Promise!Arrive(c)
                                          \/ Promise!Report(c)
    BY <1>2, FetchStep, OpenStep, CommandStep, AnswerStep, ReportStep, LoginEnds, LateStep, CloudStep
       DEF Next, Proceed
  <2>2. QED BY <2>1 DEF Promise!Next, Promise!vars, Phases
<1>3. QED BY <1>1, <1>2

LEMMA InitIsPromise == Init => Promise!Init
BY CloudClientAssumption DEF Init, Promise!Init, Phase, Idle, Outcomes

LEMMA InvHolds == Spec => []IInv
BY InitInv, NextKeeps, PTL DEF Spec

(* The types of the client, the threads' calls and the log.                *)
THEOREM TypeCorrect == Spec => []TypeOK
<1>1. IInv => TypeOK
  BY DEF IInv
<1>2. QED BY <1>1, InvHolds, PTL

(* However threads share one client, keys expire and answers are lost, a   *)
(* command is sent at most MaxTries times, runs only for a request, and is *)
(* logged as accepted only if it ran.                                      *)
THEOREM PromiseIsKept == Spec => KeepsPromise
BY InitIsPromise, InitInv, NextKeeps, PTL DEF Spec, KeepsPromise, Promise!Spec
=============================================================================
