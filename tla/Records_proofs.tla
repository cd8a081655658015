----------------------------- MODULE Records_proofs -----------------------------
(***************************************************************************)
(* Proofs about what is recorded: the notifications, and the track and the *)
(* samples of a session with what its card derives of them.                *)
(***************************************************************************)
EXTENDS Notifications, Tracks, Data_proofs

(* The ids a resolver may still find: on a page to come, or on its way.    *)
Fresh(x) == \/ x > Len(posted) - Page
            \/ \E j \in Jobs : /\ job[j].pc = "resolve" /\ job[j].upto # None
                               /\ x \in PageAt(job[j].upto)

Typed ==
    /\ posted \in Seq(Codes) /\ Len(posted) <= MaxPosted
    /\ DOMAIN seen \subseteq 1..Len(posted)
    /\ baselined \in BOOLEAN
    /\ job \in [Jobs -> [pc : {"free", "baseline", "resolve"},
                         code : Codes \cup {None}, upto : Nat \cup {None}]]
    /\ shown \in [Ids -> Nat]
    /\ boot \in 0..Len(posted)

(* A page on its way is from after the boot, and not too old.              *)
PagesRecent ==
    \A j \in Jobs : job[j].upto # None =>
        /\ job[j].upto \in boot..Len(posted)
        /\ Len(posted) - job[j].upto <= MaxLag

ResolversFollowBaseline ==
    \A j \in Jobs : job[j].pc = "resolve" => baselined

(* Ids are marked roughly in the order of the records: those after x are   *)
(* not much older than x.                                                  *)
SeenInOrder ==
    \A x \in DOMAIN seen :
        seen[x] \subseteq {y \in 1..Len(posted) : y # x /\ y > x - Page - MaxLag}

(* What was fired is seen as long as a resolver may find it ...            *)
ShownIsSeen ==
    \A x \in 1..Len(posted) :
        shown[x] > 0 /\ Fresh(x) => x \in DOMAIN seen \/ (~baselined /\ x <= boot)

(* ... and so is, after the baseline, what was there at the boot.          *)
OldIsSeen ==
    baselined => \A x \in 1..boot : Fresh(x) => x \in DOMAIN seen

OnlyPostedShown == \A x \in Ids : shown[x] > 0 => x <= Len(posted)

IInv == /\ Typed /\ PagesRecent /\ ResolversFollowBaseline /\ SeenInOrder
        /\ ShownIsSeen /\ OldIsSeen /\ OnlyPostedShown /\ NothingShownTwice

-----------------------------------------------------------------------------
(* A set of ids around x that leaves x out is smaller than the cap.        *)
LEMMA CapSuffices ==
    ASSUME NEW x \in Nat, NEW S,
           S \subseteq {y \in Nat : /\ y # x /\ y > x - Page - MaxLag
                                    /\ y < x + Page + MaxLag}
    PROVE  IsFiniteSet(S) /\ Cardinality(S) < SeenCap
<1> DEFINE P == Page + MaxLag
           I == (x - P + 1)..(x + P - 1)
<1>0. P \in Nat \ {0} /\ SeenCap \in Nat /\ SeenCap >= 2 * P - 1
  BY NotificationsAssumption
<1> HIDE DEF P
<1>1. IsFiniteSet(I) /\ Cardinality(I) = 2 * P - 1
  BY <1>0, FS_Interval
<1>2. x \in I
  BY <1>0
<1> HIDE DEF I
<1>3. IsFiniteSet(I \ {x}) /\ Cardinality(I \ {x}) = 2 * P - 2
  <2>1. /\ IsFiniteSet(I \ {x})
        /\ Cardinality(I \ {x}) = Cardinality(I) - 1
    BY <1>1, <1>2, FS_RemoveElement
  <2>2. QED BY <1>0, <1>1, <2>1
<1>4. S \subseteq I \ {x}
  BY NotificationsAssumption DEF P, I
<1>5. IsFiniteSet(S) /\ Cardinality(S) <= 2 * P - 2
  <2>1. IsFiniteSet(S) /\ Cardinality(S) <= Cardinality(I \ {x})
    BY <1>3, <1>4, FS_Subset
  <2>2. QED BY <1>3, <2>1
<1>6. Cardinality(S) \in Nat
  BY <1>5, FS_CardinalityType
<1>7. QED BY <1>0, <1>5, <1>6

(* Marking ids of a page keeps the order, and evicts nothing fresh.        *)
LEMMA MarkKeeps ==
    ASSUME IInv, NEW ids, ids \subseteq 1..Len(posted),
           \A x \in ids : x > Len(posted) - Page - MaxLag
    PROVE  /\ DOMAIN Mark(ids) \subseteq 1..Len(posted)
           /\ \A x \in DOMAIN Mark(ids) : Mark(ids)[x]
                  \subseteq {y \in 1..Len(posted) : y # x /\ y > x - Page - MaxLag}
           /\ \A x \in DOMAIN seen \cup ids :
                  x > Len(posted) - Page - MaxLag => x \in DOMAIN Mark(ids)
<1> DEFINE After(x) == IF x \in ids THEN {y \in ids : y < x} ELSE seen[x] \cup ids
           D == {x \in DOMAIN seen \cup ids : Cardinality(After(x)) < SeenCap}
<1>1. Mark(ids) = [x \in D |-> After(x)]
  BY DEF Mark
<1>2. Len(posted) \in Nat /\ Page \in Nat \ {0} /\ MaxLag \in Nat
  BY NotificationsAssumption, LenProperties DEF IInv, Typed
<1>3. DOMAIN seen \cup ids \subseteq 1..Len(posted)
  BY DEF IInv, Typed
<1>4. ASSUME NEW x \in DOMAIN seen \cup ids
      PROVE  After(x) \subseteq {y \in 1..Len(posted) : y # x /\ y > x - Page - MaxLag}
  <2>1. x \in 1..Len(posted)
    BY <1>3
  <2>2. CASE x \in ids
    BY <1>2, <2>1, <2>2
  <2>3. CASE x \notin ids
    <3>1. seen[x] \subseteq {y \in 1..Len(posted) : y # x /\ y > x - Page - MaxLag}
      BY <2>3 DEF IInv, SeenInOrder
    <3>2. ids \subseteq {y \in 1..Len(posted) : y # x /\ y > x - Page - MaxLag}
      BY <1>2, <2>1, <2>3
    <3>3. QED BY <2>3, <3>1, <3>2
  <2>4. QED BY <2>2, <2>3
<1>5. ASSUME NEW x \in DOMAIN seen \cup ids, x > Len(posted) - Page - MaxLag
      PROVE  x \in D
  <2>1. x \in 1..Len(posted) /\ x \in Nat
    BY <1>2, <1>3
  <2>2. After(x) \subseteq {y \in Nat : /\ y # x /\ y > x - Page - MaxLag
                                        /\ y < x + Page + MaxLag}
    BY <1>2, <1>4, <1>5, <2>1
  <2> HIDE DEF After
  <2>3. Cardinality(After(x)) < SeenCap
    BY <2>1, <2>2, CapSuffices
  <2>4. QED BY <2>3
<1> HIDE DEF After
<1>6. DOMAIN Mark(ids) = D /\ \A x \in D : Mark(ids)[x] = After(x)
  BY <1>1
<1>7. QED BY <1>3, <1>4, <1>5, <1>6

-----------------------------------------------------------------------------
(* What a resolver finds is fresh, was posted after the boot, and has not  *)
(* been fired.                                                             *)
LEMMA UnseenIsNew ==
    ASSUME IInv, NEW j \in Jobs, job[j].pc = "resolve", job[j].upto # None,
           NEW x \in Unseen(j)
    PROVE  /\ x \in Ids /\ x \in 1..Len(posted) /\ Fresh(x)
           /\ x > Len(posted) - Page - MaxLag
           /\ x > boot /\ shown[x] = 0
<1>1. Len(posted) \in Nat /\ Page \in Nat \ {0} /\ MaxLag \in Nat /\ MaxPosted \in Nat
  BY NotificationsAssumption, LenProperties DEF IInv, Typed
<1>2. /\ job[j].upto \in boot..Len(posted) /\ Len(posted) - job[j].upto <= MaxLag
      /\ boot \in 0..Len(posted)
  BY DEF IInv, PagesRecent, Typed
<1>3. x \in PageAt(job[j].upto) /\ x \notin DOMAIN seen
  BY DEF Unseen
<1>4. x \in 1..Len(posted) /\ x > Len(posted) - Page - MaxLag
  BY <1>1, <1>2, <1>3 DEF PageAt
<1>5. x \in Ids
  BY <1>1, <1>4 DEF IInv, Typed, Ids
<1>6. Fresh(x)
  BY <1>3 DEF Fresh
<1>7. baselined
  BY DEF IInv, ResolversFollowBaseline
<1>8. x > boot
  BY <1>1, <1>2, <1>3, <1>4, <1>6, <1>7 DEF IInv, OldIsSeen
<1>9. shown[x] \in Nat /\ ~(shown[x] > 0)
  BY <1>3, <1>4, <1>5, <1>6, <1>7 DEF IInv, ShownIsSeen, Typed
<1>10. QED BY <1>4, <1>5, <1>6, <1>8, <1>9

(* The first state satisfies the invariant.                                *)
LEMMA InitInv == Init => IInv
<1> SUFFICES ASSUME Init PROVE IInv
  OBVIOUS
<1>1. MaxPosted \in Nat /\ None \notin Nat
  BY NotificationsAssumption
<1>2. posted = <<>> /\ posted \in Seq(Codes) /\ Len(posted) = 0
  BY DEF Init
<1>3. seen = [x \in {} |-> {}] /\ DOMAIN seen = {}
  BY DEF Init
<1>4. job = [j \in Jobs |-> Free] /\ \A j \in Jobs : job[j] = Free
  BY DEF Init
<1>5. Typed
  <2>1. boot \in 0..Len(posted) /\ baselined \in BOOLEAN
    <3>1. boot = 0 /\ baselined = FALSE
      BY DEF Init
    <3>2. boot \in 0..Len(posted)
      BY <1>2, <3>1
    <3>3. baselined \in BOOLEAN
      BY <3>1
    <3>4. QED BY <3>2, <3>3
  <2>2. job \in [Jobs -> [pc : {"free", "baseline", "resolve"},
                         code : Codes \cup {None}, upto : Nat \cup {None}]]
    BY <1>4 DEF Free
  <2>3. shown \in [Ids -> Nat]
    <3>1. shown = [x \in Ids |-> 0]
      BY DEF Init
    <3>2. QED BY <3>1
  <2>4. QED BY <1>1, <1>2, <1>3, <2>1, <2>2, <2>3 DEF Typed
<1>6. /\ PagesRecent /\ ResolversFollowBaseline /\ SeenInOrder
      /\ OnlyPostedShown /\ NothingShownTwice
  BY <1>1, <1>2, <1>3, <1>4 DEF Init, PagesRecent, ResolversFollowBaseline,
     SeenInOrder, OnlyPostedShown, NothingShownTwice, Free
<1>7. ShownIsSeen /\ OldIsSeen
  BY <1>2 DEF Init, ShownIsSeen, OldIsSeen
<1>8. QED BY <1>5, <1>6, <1>7 DEF IInv

(* A step that neither posts, marks nor fires keeps the invariant when it  *)
(* frees jobs, starts them or gives them the latest page.                  *)
LEMMA JobsKeep ==
    ASSUME IInv, UNCHANGED <<posted, seen, baselined, shown, boot>>,
           job' \in [Jobs -> [pc : {"free", "baseline", "resolve"},
                              code : Codes \cup {None}, upto : Nat \cup {None}]],
           \A j \in Jobs :
               \/ job'[j] = job[j]
               \/ /\ job'[j].pc = "resolve" => baselined
                  /\ job'[j].upto \in {None, Len(posted)}
    PROVE  IInv'
<1>1. Len(posted) \in Nat /\ Page \in Nat \ {0} /\ MaxLag \in Nat
      /\ None \notin Nat /\ boot \in 0..Len(posted)
  BY NotificationsAssumption, LenProperties DEF IInv, Typed
<1>2. \A x \in 1..Len(posted) : Fresh(x)' => Fresh(x)
  BY <1>1 DEF Fresh, PageAt
<1>3. Typed'
  BY DEF IInv, Typed
<1>4. PagesRecent'
  BY <1>1 DEF IInv, PagesRecent
<1>5. ResolversFollowBaseline'
  BY DEF IInv, ResolversFollowBaseline
<1>6. ShownIsSeen'
  BY <1>2 DEF IInv, ShownIsSeen
<1>7. OldIsSeen'
  BY <1>1, <1>2 DEF IInv, OldIsSeen
<1>8. SeenInOrder' /\ OnlyPostedShown' /\ NothingShownTwice'
  BY DEF IInv, SeenInOrder, OnlyPostedShown, NothingShownTwice
<1>9. QED BY <1>3, <1>4, <1>5, <1>6, <1>7, <1>8 DEF IInv

(* What is fresh is among the latest records.                              *)
LEMMA FreshIsRecent ==
    ASSUME IInv, NEW x \in 1..Len(posted), Fresh(x)
    PROVE  x > Len(posted) - Page - MaxLag
<1>1. Len(posted) \in Nat /\ Page \in Nat \ {0} /\ MaxLag \in Nat
  BY NotificationsAssumption, LenProperties DEF IInv, Typed
<1>2. \A j \in Jobs : job[j].upto # None =>
          /\ job[j].upto \in Int /\ Len(posted) - job[j].upto <= MaxLag
  BY <1>1 DEF IInv, PagesRecent, Typed
<1>3. QED BY <1>1, <1>2 DEF Fresh, PageAt

(* Every step keeps the invariant: the pages on their way are recent, the  *)
(* ids marked after an id are near it, so the cap evicts no fresh id.      *)
THEOREM Inductive == IInv /\ [Next]_vars => IInv'
<1> SUFFICES ASSUME IInv, [Next]_vars PROVE IInv'
  OBVIOUS
<1>1. /\ Len(posted) \in Nat /\ Page \in Nat \ {0} /\ MaxLag \in Nat
      /\ MaxPosted \in Nat /\ None \notin Nat /\ None \notin Codes
      /\ boot \in 0..Len(posted) /\ boot \in Nat
      /\ job \in [Jobs -> [pc : {"free", "baseline", "resolve"},
                           code : Codes \cup {None}, upto : Nat \cup {None}]]
  BY NotificationsAssumption, LenProperties DEF IInv, Typed
<1>2. CASE Post
  <2>1. PICK code \in Codes : posted' = Append(posted, code)
    BY <1>2 DEF Post
  <2>2. /\ posted' \in Seq(Codes) /\ Len(posted') = Len(posted) + 1
        /\ Len(posted') <= MaxPosted
    BY <1>1, <1>2, <2>1 DEF Post, IInv, Typed
  <2>3. UNCHANGED <<seen, baselined, job, shown, boot>>
    BY <1>2 DEF Post
  <2>4. \A x \in 1..Len(posted) : Fresh(x)' => Fresh(x)
    BY <1>1, <2>2, <2>3 DEF Fresh, PageAt
  <2>5. Typed'
    BY <1>1, <2>2, <2>3 DEF IInv, Typed
  <2>6. PagesRecent'
    BY <1>1, <1>2, <2>2, <2>3 DEF Post, IInv, PagesRecent
  <2>7. ResolversFollowBaseline' /\ NothingShownTwice'
    BY <2>3 DEF IInv, ResolversFollowBaseline, NothingShownTwice
  <2>8. SeenInOrder'
    BY <1>1, <2>2, <2>3 DEF IInv, SeenInOrder
  <2>9. OnlyPostedShown'
    BY <1>1, <2>2, <2>3 DEF IInv, OnlyPostedShown, Ids
  <2>10. ~(shown[Len(posted) + 1] > 0)
    BY <1>1, <2>2 DEF IInv, OnlyPostedShown, Ids
  <2>11. ShownIsSeen'
    <3> SUFFICES ASSUME NEW x \in 1..Len(posted'), shown'[x] > 0, Fresh(x)'
                 PROVE  x \in DOMAIN seen' \/ (~baselined' /\ x <= boot')
      BY DEF ShownIsSeen
    <3>1. x \in 1..Len(posted)
      BY <1>1, <2>2, <2>3, <2>10
    <3>2. QED BY <2>3, <2>4, <3>1 DEF IInv, ShownIsSeen
  <2>12. OldIsSeen'
    BY <1>1, <2>3, <2>4 DEF IInv, OldIsSeen
  <2>13. QED BY <2>5, <2>6, <2>7, <2>8, <2>9, <2>11, <2>12 DEF IInv
<1>3. CASE SetupBaseline
  <2>1. PICK j \in Jobs :
            job' = [job EXCEPT ![j] = [pc |-> "baseline", code |-> None, upto |-> None]]
    BY <1>3 DEF SetupBaseline, Start
  <2>2. UNCHANGED <<posted, seen, baselined, shown, boot>>
    BY <1>3 DEF SetupBaseline
  <2>3. QED BY <1>1, <2>1, <2>2, JobsKeep
<1>4. CASE Transition
  <2>1. UNCHANGED <<posted, seen, baselined, shown, boot>>
    BY <1>4 DEF Transition
  <2>2. CASE UNCHANGED job
    BY <1>1, <2>1, <2>2, JobsKeep
  <2>3. CASE \E j \in Jobs, code \in Codes :
                 baselined /\ job' = [job EXCEPT ![j] =
                     [pc |-> "resolve", code |-> code, upto |-> None]]
    BY <1>1, <2>1, <2>3, JobsKeep
  <2>4. CASE \E j \in Jobs : job' = [job EXCEPT ![j] =
                     [pc |-> "baseline", code |-> None, upto |-> None]]
    BY <1>1, <2>1, <2>4, JobsKeep
  <2>5. QED BY <1>4, <2>2, <2>3, <2>4 DEF Transition, Start
<1>5. ASSUME NEW j \in Jobs, Answer(j) PROVE IInv'
  <2>1. UNCHANGED <<posted, seen, baselined, shown, boot>>
    BY <1>5 DEF Answer
  <2>2. job' = [job EXCEPT ![j].upto = Len(posted)]
    BY <1>5 DEF Answer
  <2>3. job'[j].pc = job[j].pc /\ job'[j].upto = Len(posted)
    BY <1>1, <2>2
  <2>4. job'[j].pc = "resolve" => baselined
    BY <2>3 DEF IInv, ResolversFollowBaseline
  <2>5. job' \in [Jobs -> [pc : {"free", "baseline", "resolve"},
                           code : Codes \cup {None}, upto : Nat \cup {None}]]
    BY <1>1, <2>2
  <2>6. \A i \in Jobs : i # j => job'[i] = job[i]
    BY <1>1, <2>2
  <2>7. QED BY <2>1, <2>3, <2>4, <2>5, <2>6, JobsKeep
<1>6. ASSUME NEW j \in Jobs, FetchFails(j) PROVE IInv'
  <2>1. UNCHANGED <<posted, seen, baselined, shown, boot>>
    BY <1>6 DEF FetchFails
  <2>2. job' = [job EXCEPT ![j] = [pc |-> "free", code |-> None, upto |-> None]]
    BY <1>6 DEF FetchFails, Free
  <2>3. QED BY <1>1, <2>1, <2>2, JobsKeep
<1>7. ASSUME NEW j \in Jobs, FinishBaseline(j) PROVE IInv'
  <2> DEFINE ids == PageAt(job[j].upto)
  <2>1. /\ UNCHANGED <<posted, shown, boot>>
        /\ seen' = Mark(ids) /\ baselined' = TRUE
        /\ job' = [job EXCEPT ![j] = [pc |-> "free", code |-> None, upto |-> None]]
    BY <1>7 DEF FinishBaseline, Free
  <2>2. /\ job[j].upto \in boot..Len(posted) /\ Len(posted) - job[j].upto <= MaxLag
        /\ job[j].upto \in Int
    BY <1>1, <1>7 DEF FinishBaseline, IInv, PagesRecent
  <2>3. /\ ids \subseteq 1..Len(posted)
        /\ \A x \in ids : x > Len(posted) - Page - MaxLag
    BY <1>1, <2>2 DEF PageAt
  <2>4. \A x \in 1..Len(posted) : Fresh(x)' => Fresh(x)
    BY <1>1, <2>1 DEF Fresh
  <2>5. ASSUME ~baselined, NEW x \in 1..boot, Fresh(x) PROVE x \in ids
    BY <1>1, <2>2, <2>5 DEF Fresh, PageAt, IInv, ResolversFollowBaseline
  <2> HIDE DEF ids
  <2>6. ASSUME NEW x \in DOMAIN seen \cup ids, x \in 1..Len(posted), Fresh(x)
        PROVE  x \in DOMAIN seen'
    BY <2>1, <2>3, <2>6, FreshIsRecent, MarkKeeps
  <2>7. Typed'
    BY <1>1, <2>1, <2>3, MarkKeeps DEF IInv, Typed
  <2>8. PagesRecent' /\ ResolversFollowBaseline'
    BY <1>1, <2>1 DEF IInv, PagesRecent, ResolversFollowBaseline
  <2>9. SeenInOrder'
    BY <2>1, <2>3, MarkKeeps DEF SeenInOrder
  <2>10. ShownIsSeen'
    <3> SUFFICES ASSUME NEW x \in 1..Len(posted), shown[x] > 0, Fresh(x)'
                 PROVE  x \in DOMAIN seen'
      BY <2>1 DEF ShownIsSeen
    <3>1. Fresh(x)
      BY <2>4
    <3>2. x \in DOMAIN seen \/ (~baselined /\ x <= boot)
      BY <3>1 DEF IInv, ShownIsSeen
    <3>3. x \in DOMAIN seen \cup ids
      BY <1>1, <2>5, <3>1, <3>2
    <3>4. QED BY <2>6, <3>1, <3>3
  <2>11. OldIsSeen'
    <3> SUFFICES ASSUME NEW x \in 1..boot, Fresh(x)'
                 PROVE  x \in DOMAIN seen'
      BY <2>1 DEF OldIsSeen
    <3>1. x \in 1..Len(posted) /\ Fresh(x)
      BY <1>1, <2>4
    <3>2. x \in DOMAIN seen \cup ids
      BY <1>1, <2>5, <3>1 DEF IInv, OldIsSeen, Typed
    <3>3. QED BY <2>6, <3>1, <3>2
  <2>12. OnlyPostedShown' /\ NothingShownTwice'
    BY <2>1 DEF IInv, OnlyPostedShown, NothingShownTwice
  <2>13. QED BY <2>7, <2>8, <2>9, <2>10, <2>11, <2>12 DEF IInv
<1>8. ASSUME NEW j \in Jobs, FinishResolve(j) PROVE IInv'
  <2>1. /\ UNCHANGED <<posted, baselined, boot>>
        /\ job[j].pc = "resolve" /\ job[j].upto # None
        /\ job' = [job EXCEPT ![j] = [pc |-> "free", code |-> None, upto |-> None]]
    BY <1>8 DEF FinishResolve, Free
  <2>2. CASE UNCHANGED <<seen, shown>>
    BY <1>1, <2>1, <2>2, JobsKeep
  <2>3. ASSUME NEW x \in Unseen(j), seen' = Mark({x}),
               shown' = [shown EXCEPT ![x] = @ + 1]
        PROVE  IInv'
    <3>1. /\ x \in Ids /\ x \in 1..Len(posted) /\ Fresh(x) /\ shown[x] = 0
          /\ x > Len(posted) - Page - MaxLag
      BY <2>1, UnseenIsNew
    <3>2. shown' \in [Ids -> Nat] /\ shown'[x] = 1
          /\ \A y \in Ids : y # x => shown'[y] = shown[y]
      BY <2>3, <3>1 DEF IInv, Typed
    <3>3. \A y \in 1..Len(posted) : Fresh(y)' => Fresh(y)
      BY <1>1, <2>1 DEF Fresh
    <3>4. {x} \subseteq 1..Len(posted) /\ \A y \in {x} : y > Len(posted) - Page - MaxLag
      BY <3>1
    <3>5. ASSUME NEW y \in DOMAIN seen \cup {x}, y \in 1..Len(posted), Fresh(y)
          PROVE  y \in DOMAIN seen'
      BY <2>3, <3>4, <3>5, FreshIsRecent, MarkKeeps
    <3>6. Typed'
      BY <1>1, <2>1, <2>3, <3>2, <3>4, MarkKeeps DEF IInv, Typed
    <3>7. PagesRecent' /\ ResolversFollowBaseline'
      BY <1>1, <2>1 DEF IInv, PagesRecent, ResolversFollowBaseline
    <3>8. SeenInOrder'
      BY <2>1, <2>3, <3>4, MarkKeeps DEF SeenInOrder
    <3>9. ShownIsSeen'
      <4> SUFFICES ASSUME NEW y \in 1..Len(posted), shown'[y] > 0, Fresh(y)'
                   PROVE  y \in DOMAIN seen' \/ (~baselined /\ y <= boot)
        BY <2>1 DEF ShownIsSeen
      <4>1. CASE y = x
        BY <3>1, <3>5, <4>1
      <4>2. CASE y # x
        <5>1. y \in Ids /\ Fresh(y) /\ shown[y] > 0
          BY <1>1, <3>2, <3>3, <4>2 DEF IInv, Typed, Ids
        <5>2. QED BY <3>5, <5>1 DEF IInv, ShownIsSeen
      <4>3. QED BY <4>1, <4>2
    <3>10. OldIsSeen'
      <4> SUFFICES ASSUME baselined, NEW y \in 1..boot, Fresh(y)'
                   PROVE  y \in DOMAIN seen'
        BY <2>1 DEF OldIsSeen
      <4>1. y \in 1..Len(posted) /\ Fresh(y)
        BY <1>1, <3>3
      <4>2. QED BY <3>5, <4>1 DEF IInv, OldIsSeen
    <3>11. OnlyPostedShown'
      BY <1>1, <2>1, <3>1, <3>2 DEF IInv, OnlyPostedShown
    <3>12. NothingShownTwice'
      BY <3>2 DEF IInv, NothingShownTwice
    <3>13. QED BY <3>6, <3>7, <3>8, <3>9, <3>10, <3>11, <3>12 DEF IInv
  <2>4. QED BY <1>8, <2>2, <2>3 DEF FinishResolve
<1>9. CASE Restart
  <2>1. /\ UNCHANGED <<posted, shown>> /\ boot' = Len(posted) /\ baselined' = FALSE
        /\ job' = [j \in Jobs |-> [pc |-> "free", code |-> None, upto |-> None]]
        /\ DOMAIN seen' = {}
    BY <1>9 DEF Restart, Free
  <2>2. Typed'
    <3>1. job' \in [Jobs -> [pc : {"free", "baseline", "resolve"},
                            code : Codes \cup {None}, upto : Nat \cup {None}]]
      BY <2>1
    <3>2. posted' = posted /\ shown' = shown /\ boot' \in 0..Len(posted')
      BY <1>1, <2>1
    <3>3. QED BY <2>1, <3>1, <3>2 DEF IInv, Typed
  <2>3. PagesRecent' /\ ResolversFollowBaseline' /\ SeenInOrder' /\ OldIsSeen'
    BY <2>1 DEF PagesRecent, ResolversFollowBaseline, SeenInOrder, OldIsSeen
  <2>4. ShownIsSeen' /\ OnlyPostedShown' /\ NothingShownTwice'
    BY <1>1, <2>1 DEF IInv, ShownIsSeen, OnlyPostedShown, NothingShownTwice
  <2>5. QED BY <2>2, <2>3, <2>4 DEF IInv
<1>10. CASE UNCHANGED vars
  BY <1>1, <1>10, JobsKeep DEF vars
<1>11. QED
  BY <1>2, <1>3, <1>4, <1>5, <1>6, <1>7, <1>8, <1>9, <1>10 DEF Next

-----------------------------------------------------------------------------
(* The invariant holds in every reachable state.                           *)
LEMMA InvariantHolds == Spec => []IInv
BY InitInv, Inductive, PTL DEF Spec

(* No record is fired as an event twice, over restarts, overlapping        *)
(* resolvers and late pages, when the cap is at least twice what a page    *)
(* and its delay can span.                                                 *)
THEOREM FiredOnce == Spec => []NothingShownTwice
<1>1. IInv => NothingShownTwice
  BY DEF IInv
<1>2. QED BY <1>1, InvariantHolds, PTL

(* No record from before the last start is fired.                          *)
THEOREM OldQuiet == Spec => OldStaysQuiet
<1> DEFINE A == \A x \in Ids : shown'[x] # shown[x] => x > boot
<1>1. IInv /\ [Next]_vars => [A]_vars
  <2> SUFFICES ASSUME IInv, Next, NEW x \in Ids, shown'[x] # shown[x]
               PROVE  x > boot
    BY DEF vars
  <2>1. PICK j \in Jobs : FinishResolve(j)
    BY DEF Next, Post, SetupBaseline, Transition, Answer, FetchFails,
           FinishBaseline, Restart
  <2>2. PICK y \in Unseen(j) : shown' = [shown EXCEPT ![y] = @ + 1]
    BY <2>1 DEF FinishResolve
  <2>3. y = x
    BY <2>2 DEF IInv, Typed
  <2>4. QED BY <2>1, <2>2, <2>3, UnseenIsNew DEF FinishResolve
<1>2. QED BY <1>1, InvariantHolds, PTL DEF Spec, OldStaysQuiet

(* What is seen was marked by a baseline or fired.                         *)
SeenForAReason ==
    /\ base \in Nat
    /\ \A x \in DOMAIN seen : x <= base \/ shown[x] > 0

\* Only a baseline and a resolver mark ids: the one raises base to the end of
\* its page, the other fires what it marks.
LEMMA SeenForAReasonStep ==
    ASSUME IInv, SeenForAReason, [Next]_vars
    PROVE  SeenForAReason'
<1>1. \A ids : DOMAIN Mark(ids) \subseteq DOMAIN seen \cup ids
  BY DEF Mark
<1>2. /\ shown \in [Ids -> Nat] /\ DOMAIN seen \subseteq 1 .. Len(posted)
      /\ posted \in Seq(Codes) /\ Len(posted) <= MaxPosted
  BY DEF IInv, Typed
<1>3. CASE UNCHANGED <<seen, base, shown>>
  BY <1>3 DEF SeenForAReason
<1>4. CASE Restart
  BY <1>4 DEF Restart, SeenForAReason
<1>5. ASSUME NEW j \in Jobs, FinishBaseline(j) PROVE SeenForAReason'
  <2>1. job[j].upto \in Nat
    BY <1>2, <1>5, LenProperties DEF FinishBaseline, IInv, PagesRecent, Typed
  <2>2. base \in Nat
    BY DEF SeenForAReason
  <2>3. base' \in Nat /\ base <= base' /\ job[j].upto <= base'
    BY <1>5, <2>1, <2>2 DEF FinishBaseline
  <2>4. ASSUME NEW x \in DOMAIN seen' PROVE x <= base' \/ shown'[x] > 0
    <3>1. x \in DOMAIN seen \/ x \in PageAt(job[j].upto)
      BY <1>1, <1>5 DEF FinishBaseline
    <3>2. CASE x \in DOMAIN seen
      <4>1. x \in Int
        BY <1>2, <3>2
      <4>2. x <= base \/ shown[x] > 0
        BY <3>2 DEF SeenForAReason
      <4>3. shown' = shown
        BY <1>5 DEF FinishBaseline
      <4>4. QED BY <2>2, <2>3, <4>1, <4>2, <4>3
    <3>3. CASE x \in PageAt(job[j].upto)
      BY <2>1, <2>3, <3>3 DEF PageAt
    <3>4. QED BY <3>1, <3>2, <3>3
  <2>5. QED BY <2>3, <2>4 DEF SeenForAReason
<1>6. ASSUME NEW j \in Jobs, FinishResolve(j), NEW y \in Unseen(j),
             seen' = Mark({y}), shown' = [shown EXCEPT ![y] = @ + 1]
      PROVE  SeenForAReason'
  <2>1. y \in Ids
    BY <1>6, UnseenIsNew DEF FinishResolve
  <2>2. shown'[y] = shown[y] + 1 /\ shown[y] \in Nat
    BY <1>2, <1>6, <2>1
  <2>3. base' = base
    BY <1>6 DEF FinishResolve
  <2>4. ASSUME NEW x \in DOMAIN seen' PROVE x <= base \/ shown'[x] > 0
    <3>1. x \in DOMAIN seen \/ x = y
      BY <1>1, <1>6
    <3>2. CASE x = y
      BY <2>2, <3>2
    <3>3. CASE x # y /\ x \in DOMAIN seen
      <4>1. shown'[x] = shown[x]
        BY <1>2, <1>6, <3>3
      <4>2. QED BY <3>3, <4>1 DEF SeenForAReason
    <3>4. QED BY <3>1, <3>2, <3>3
  <2>5. QED BY <2>3, <2>4 DEF SeenForAReason
<1>7. ASSUME NEW j \in Jobs, FinishResolve(j) PROVE SeenForAReason'
  BY <1>3, <1>6, <1>7 DEF FinishResolve
<1>8. QED BY <1>3, <1>4, <1>5, <1>7
          DEF Next, vars, Post, SetupBaseline, Transition, Answer, FetchFails

(* No resolver that ends without an event passes a record of its code by,  *)
(* but those that a baseline has marked, whatever other resolvers did      *)
(* since its request (_resolve_s2p2_notification).                     *)
THEOREM NoneSwallowedEver == Spec => NoneSwallowed
<1> DEFINE A == \A j \in Jobs :
                    FinishResolve(j) /\ shown' = shown =>
                        \A x \in PageAt(job[j].upto) :
                            posted[x] = job[j].code => x <= base \/ shown[x] > 0
<1>1. IInv /\ SeenForAReason /\ [Next]_vars => [A]_vars
  <2>1. SUFFICES ASSUME IInv, SeenForAReason, NEW j \in Jobs, FinishResolve(j), shown' = shown,
                        NEW x \in PageAt(job[j].upto), posted[x] = job[j].code
                 PROVE  x <= base \/ shown[x] > 0
    OBVIOUS
  <2>2. Unseen(j) = {}
    <3>1. SUFFICES ASSUME NEW y \in Unseen(j), shown' = [shown EXCEPT ![y] = @ + 1] PROVE FALSE
      BY <2>1 DEF FinishResolve
    <3>2. y \in Ids /\ shown \in [Ids -> Nat]
      BY <2>1, UnseenIsNew DEF FinishResolve, IInv, Typed
    <3>3. shown'[y] = shown[y] + 1 /\ shown[y] \in Nat
      BY <3>1, <3>2
    <3>4. QED BY <2>1, <3>3
  <2>3. x \in DOMAIN seen
    BY <2>1, <2>2 DEF Unseen
  <2>4. QED BY <2>1, <2>3 DEF SeenForAReason
<1>2. Init => SeenForAReason
  BY DEF Init, SeenForAReason
<1>3. Spec => []SeenForAReason
  BY <1>2, InvariantHolds, SeenForAReasonStep, PTL DEF Spec
<1>4. QED BY <1>1, <1>3, InvariantHolds, PTL DEF Spec, NoneSwallowed

-----------------------------------------------------------------------------
(***************************************************************************)
(* The legs of a track.                                                    *)
(***************************************************************************)
(* The legs of a role are as long together as the way that ends in points  *)
(* of the role: each point that ends a stroke is of one leg.               *)
LEMMA LegsMeasureUp ==
    ASSUME NEW track \in Seq(TrackPoints), NEW role \in Roles
    PROVE  LET legs == DeriveRenderLegs(track)
               long == [leg \in legs |-> SumFunctionOnSet(Way(track), leg.from + 1 .. leg.to)]
           IN  SumFunctionOnSet(long, {leg \in legs : leg.role = role})
                   = ComputeTrackDistances(track)[role]
<1> DEFINE n == Len(track)
           Flip(i) == track[i].role # track[i - 1].role
           starts == {i \in DOMAIN track : i = 1 \/ PenUp(track, i) \/ Flip(i)}
           Ends(i) == {j - 1 : j \in {k \in starts : k > i}} \cup {n}
           End(i) == Min(Ends(i))
           first(i) == IF i > 1 /\ ~PenUp(track, i) THEN i - 1 ELSE i
           Leg(i) == [role |-> track[i].role, from |-> first(i), to |-> End(i)]
           legs == {leg \in {Leg(i) : i \in starts} : leg.to > leg.from}
           long == [leg \in legs |-> SumFunctionOnSet(Way(track), leg.from + 1 .. leg.to)]
           chosen == {leg \in legs : leg.role = role}
           strokes == [leg \in legs |-> leg.from + 1 .. leg.to]
           way == {i \in 2 .. n : ~PenUp(track, i) /\ track[i].role = role}
<1>1. DeriveRenderLegs(track) = legs
  BY DEF DeriveRenderLegs
<1>2. /\ n \in Nat /\ DOMAIN track = 1 .. n /\ starts \in SUBSET (1 .. n)
      /\ 1 \in 1 .. n => 1 \in starts
  OBVIOUS
<1>0. \A i \in 1 .. n : track[i].x \in Int
  <2>1. \A i \in 1 .. n : track[i] \in TrackPoints
    OBVIOUS
  <2>2. \A p \in TrackPoints : p.x \in Int
    BY DEF TrackPoints
  <2>3. QED BY <2>1, <2>2
<1> HIDE DEF n
<1>3. ASSUME NEW i \in 1 .. n
      PROVE  End(i) \in Ends(i) /\ \A e \in Ends(i) : End(i) <= e
  <2> HIDE DEF starts
  <2>1. Ends(i) \in SUBSET (0 .. n)
    <3>1. \A j \in starts : j - 1 \in 0 .. n
      BY <1>2
    <3>2. n \in 0 .. n
      BY <1>2
    <3>3. QED BY <3>1, <3>2
  <2>2. IsFiniteSet(0 .. n)
    BY <1>2, FS_Interval
  <2> HIDE DEF Ends
  <2>3. IsFiniteSet(Ends(i))
    BY <2>1, <2>2, FS_Subset
  <2>4. Ends(i) # {} /\ Ends(i) \in SUBSET Int
    BY <2>1 DEF Ends
  <2>5. QED BY <2>3, <2>4, MinIsThere
<1>4. ASSUME NEW i \in starts
      PROVE  /\ End(i) \in i .. n
             /\ \A j \in starts : j > i => End(i) < j
             /\ End(i) = n \/ \E j \in starts : j > i /\ End(i) = j - 1
  <2> HIDE DEF starts, End
  <2>1. End(i) \in Ends(i) /\ \A e \in Ends(i) : End(i) <= e
    BY <1>2, <1>3
  <2>2. \A j \in starts : j \in Int /\ j <= n /\ j >= 1
    BY <1>2
  <2>3. i \in Int /\ i >= 1 /\ n \in Nat /\ i <= n
    BY <1>2, <2>2
  <2>4. \A j \in starts : j > i => j - 1 \in Ends(i)
    OBVIOUS
  <2>5. n \in Ends(i) /\ \A e \in Ends(i) : e = n \/ \E j \in starts : j > i /\ e = j - 1
    OBVIOUS
  <2> HIDE DEF Ends
  <2>6. End(i) = n \/ \E j \in starts : j > i /\ End(i) = j - 1
    BY <2>1, <2>5
  <2>7. End(i) \in Int /\ End(i) >= i /\ End(i) <= n
    BY <2>1, <2>2, <2>3, <2>5, <2>6
  <2>8. ASSUME NEW j \in starts, j > i PROVE End(i) < j
    <3>1. End(i) <= j - 1
      BY <2>1, <2>4, <2>8
    <3>2. QED BY <2>2, <2>7, <3>1
  <2>9. QED BY <2>3, <2>6, <2>7, <2>8
<1>5. ASSUME NEW i \in starts, NEW k \in i .. End(i), k # i
      PROVE  k \notin starts /\ k \in 2 .. n /\ ~PenUp(track, k) /\ track[k].role = track[k - 1].role
  <2> HIDE DEF End
  <2>1. i \in 1 .. n /\ End(i) \in i .. n
    BY <1>2, <1>4
  <2> HIDE DEF starts
  <2>2. k \in 2 .. n /\ k > i /\ ~(End(i) < k)
    <3>1. /\ i \in Int /\ End(i) \in Int /\ n \in Int /\ k \in Int /\ i >= 1 /\ End(i) <= n
          /\ k >= i /\ k <= End(i)
      BY <1>2, <2>1
    <3>3. k > i
      BY <1>5, <3>1
    <3>4. ~(End(i) < k)
      BY <3>1
    <3>2. QED BY <3>1, <3>3, <3>4
  <2> USE DEF starts
  <2>3. k \notin starts
    BY <1>4, <2>2
  <2>4. QED BY <1>2, <2>2, <2>3
<1>6. ASSUME NEW i \in starts, NEW k \in i .. End(i) PROVE track[k].role = track[i].role
  <2> DEFINE A == {m \in Nat : i + m <= End(i) => track[i + m].role = track[i].role}
  <2>1. i \in 1 .. n /\ End(i) \in i .. n
    BY <1>2, <1>4
  <2> HIDE DEF starts, End
  <2>2. 0 \in A
    BY <2>1
  <2>3. ASSUME NEW m \in Nat, m \in A PROVE m + 1 \in A
    <3>1. SUFFICES ASSUME i + (m + 1) <= End(i) PROVE track[i + (m + 1)].role = track[i].role
      OBVIOUS
    <3>2. i + (m + 1) \in i .. End(i) /\ i + (m + 1) # i /\ (i + (m + 1)) - 1 = i + m /\ i + m <= End(i)
      BY <2>1, <3>1
    <3>3. track[i + (m + 1)].role = track[i + m].role
      BY <1>5, <3>2
    <3>4. QED BY <2>3, <3>2, <3>3
  <2> HIDE DEF A
  <2>4. \A m \in Nat : m \in A
    BY <2>2, <2>3, EveryNumber
  <2>5. k - i \in Nat /\ i + (k - i) = k /\ k <= End(i)
    BY <2>1
  <2>6. k - i \in A
    BY <2>4, <2>5
  <2>7. QED BY <2>5, <2>6 DEF A
<1>7. ASSUME NEW k \in 1 .. n PROVE \E i \in starts : k \in i .. End(i)
  <2> DEFINE S == {j \in starts : j <= k}
  <2>1. S \in SUBSET (1 .. n) /\ S # {}
    <3>1. 1 \in S BY <1>2
    <3>2. QED BY <1>2, <3>1
  <2> HIDE DEF starts, End
  <2>2. PICK i \in S : \A j \in S : j <= i
    <3> HIDE DEF S
    <3>1. QED BY <1>2, <2>1, PositionsHaveEnds
  <2>3. End(i) = n \/ \E j \in starts : j > i /\ End(i) = j - 1
    BY <1>4
  <2>4. End(i) >= k
    <3>1. CASE End(i) = n BY <3>1
    <3>2. CASE \E j \in starts : j > i /\ End(i) = j - 1
      <4>1. PICK j \in starts : j > i /\ End(i) = j - 1
        BY <3>2
      <4>2. j \in 1 .. n /\ i \in 1 .. n
        BY <1>2, <4>1
      <4>3. ~(j <= k)
        BY <2>2, <4>1, <4>2
      <4>4. QED BY <4>1, <4>2, <4>3
    <3>3. QED BY <2>3, <3>1, <3>2
  <2>5. i \in 1 .. n /\ i <= k /\ End(i) \in i .. n
    BY <1>2, <1>4
  <2>6. QED BY <2>4, <2>5
<1>8. ASSUME NEW i \in starts, NEW k
      PROVE  k \in first(i) + 1 .. End(i) <=> k \in i .. End(i) /\ k \in 2 .. n /\ ~PenUp(track, k)
  <2>1. i \in 1 .. n /\ End(i) \in i .. n
    BY <1>2, <1>4
  <2>2. k \in i .. End(i) /\ k # i => k \in 2 .. n /\ ~PenUp(track, k)
    BY <1>5
  <2>3. i \in first(i) + 1 .. End(i) <=> i \in 2 .. n /\ ~PenUp(track, i)
    <3> HIDE DEF starts, End
    <3>1. QED BY <2>1
  <2>4. k # i => (k \in first(i) + 1 .. End(i) <=> k \in i .. End(i))
    <3> HIDE DEF starts, End
    <3>1. QED BY <2>1
  <2>5. i \in i .. End(i)
    <3> HIDE DEF starts, End
    <3>1. QED BY <2>1
  <2>6. CASE k = i BY <2>3, <2>5, <2>6
  <2>7. CASE k # i BY <2>2, <2>4, <2>7
  <2>8. QED BY <2>6, <2>7
<1>9. \A i, j \in starts : \A k \in Int : k \in i .. End(i) /\ k \in j .. End(j) => i = j
  <2>1. SUFFICES ASSUME NEW i \in starts, NEW j \in starts, NEW k \in Int,
                        k \in i .. End(i), k \in j .. End(j), i # j
                 PROVE  FALSE
    OBVIOUS
  <2>2. /\ i \in 1 .. n /\ End(i) \in i .. n /\ (j > i => End(i) < j)
        /\ j \in 1 .. n /\ End(j) \in j .. n /\ (i > j => End(j) < i)
    BY <1>2, <1>4
  <2> HIDE DEF starts, End
  <2>3. i \in Int /\ j \in Int /\ End(i) \in Int /\ End(j) \in Int
    BY <2>2
  <2>4. k >= i /\ k <= End(i) /\ k >= j /\ k <= End(j)
    BY <2>1, <2>3
  <2>5. i > j \/ j > i
    BY <2>1, <2>3
  <2>6. QED BY <2>2, <2>3, <2>4, <2>5
<1>10. \A leg \in legs : \E i \in starts : leg = Leg(i)
  OBVIOUS
<1>11. ASSUME NEW leg \in legs, NEW other \in legs, strokes[leg] \cap strokes[other] # {}
       PROVE  leg = other
  <2>1. PICK i \in starts : leg = Leg(i)
    BY <1>10
  <2>2. PICK j \in starts : other = Leg(j)
    BY <1>10
  <2>3. PICK k : k \in strokes[leg] /\ k \in strokes[other]
    BY <1>11
  <2>4. k \in first(i) + 1 .. End(i) /\ k \in first(j) + 1 .. End(j)
    BY <2>1, <2>2, <2>3
  <2>5. k \in i .. End(i) /\ k \in j .. End(j) /\ k \in Int
    <3>1. k \in i .. End(i) /\ k \in 2 .. n
      BY <1>8, <2>4
    <3>2. k \in j .. End(j)
      BY <1>8, <2>4
    <3>3. QED BY <3>1, <3>2
  <2>6. i = j
    BY <1>9, <2>5
  <2>7. QED BY <2>1, <2>2, <2>6
<1>12. \A k : k \in way <=> \E leg \in chosen : k \in strokes[leg]
  <2>1. ASSUME NEW k, (\E leg \in chosen : k \in strokes[leg]) PROVE k \in way
    <3>1. PICK leg \in chosen : k \in strokes[leg]
      BY <2>1
    <3>2. PICK i \in starts : leg = Leg(i)
      BY <1>10
    <3>3. k \in first(i) + 1 .. End(i) /\ track[i].role = role
      BY <3>1, <3>2
    <3>4. k \in i .. End(i) /\ k \in 2 .. n /\ ~PenUp(track, k)
      BY <1>8, <3>3
    <3>5. track[k].role = role
      BY <1>6, <3>3, <3>4
    <3>6. QED BY <3>4, <3>5
  <2>2. ASSUME NEW k \in way PROVE (\E leg \in chosen : k \in strokes[leg])
    <3>1. k \in 2 .. n /\ k \in 1 .. n /\ ~PenUp(track, k) /\ track[k].role = role
      BY <1>2
    <3>2. PICK i \in starts : k \in i .. End(i)
      BY <1>7, <3>1
    <3>3. k \in first(i) + 1 .. End(i)
      BY <1>8, <3>1, <3>2
    <3>4. track[i].role = role
      BY <1>6, <3>1, <3>2
    <3>5. End(i) > first(i)
      <4>1. End(i) \in Int /\ first(i) \in Int /\ k \in Int
        <5>1. i \in 1 .. n /\ End(i) \in i .. n BY <1>2, <1>4
        <5> HIDE DEF starts, End
        <5>2. QED BY <3>1, <5>1
      <4> HIDE DEF End, first
      <4>2. QED BY <3>3, <4>1
    <3>6. Leg(i) \in chosen /\ strokes[Leg(i)] = first(i) + 1 .. End(i)
      <4> HIDE DEF starts, End, first
      <4>1. QED BY <3>4, <3>5
    <3> HIDE DEF chosen, strokes, Leg, starts, End, first
    <3>7. QED BY <3>3, <3>6
  <2>3. QED BY <2>1, <2>2
<1>13. IsFiniteSet(chosen)
  <2> DEFINE f == [i \in starts |-> Leg(i)]
  <2>1. IsFiniteSet(starts)
    BY <1>2, Positions
  <2>2. chosen \subseteq {f[i] : i \in starts}
    OBVIOUS
  <2> HIDE DEF chosen, starts, f
  <2>3. QED BY <2>1, <2>2, ImageIsFinite
<1>14. \A i \in 2 .. n : Way(track)[i] \in Int
  <2>2. SUFFICES ASSUME NEW i \in 2 .. n PROVE Distance(track, i) \in Int
    BY DEF Way, n
  <2>3. track[i].x \in Int /\ track[i - 1].x \in Int
    <3>1. i \in 1 .. n /\ i - 1 \in 1 .. n
      BY <1>2
    <3>2. QED BY <1>0, <3>1
  <2>4. \A a, b \in Int : a - b \in Int
    OBVIOUS
  <2>5. track[i].x - track[i - 1].x \in Int /\ track[i - 1].x - track[i].x \in Int
    BY <2>3, <2>4, Zenon
  <2> DEFINE a == track[i].x - track[i - 1].x
             b == track[i - 1].x - track[i].x
  <2>6. Distance(track, i) = Max({a, b}) /\ a \in Int /\ b \in Int
    BY <2>5 DEF Distance
  <2> HIDE DEF a, b
  <2>7. QED BY <2>6, GreaterOfTwo
<1>15. ASSUME NEW leg \in chosen
       PROVE  NumbersOn(Way(track), strokes[leg]) /\ long[leg] = SumFunctionOnSet(Way(track), strokes[leg])
  <2>1. leg \in legs /\ long[leg] = SumFunctionOnSet(Way(track), strokes[leg])
    OBVIOUS
  <2>2. strokes[leg] \in SUBSET (2 .. n)
    BY <1>12
  <2>3. IsFiniteSet(2 .. n)
    <3>1. n \in Int BY <1>2
    <3>2. QED BY <3>1, FS_Interval
  <2> HIDE DEF strokes, long, legs, chosen
  <2>4. IsFiniteSet(strokes[leg])
    BY <2>2, <2>3, FS_Subset
  <2>5. QED BY <1>14, <2>1, <2>2, <2>4 DEF NumbersOn
<1>16. chosen \subseteq legs
  OBVIOUS
<1>17. SumFunctionOnSet(long, chosen) = SumFunctionOnSet(Way(track), way)
  <2>1. \A k, l \in chosen : k # l => strokes[k] \cap strokes[l] = {}
    BY <1>11, <1>16
  <2> HIDE DEF strokes, long, legs, chosen, way
  <2>2. SumFunctionOnSet(long, chosen) = SumFunctionOnSet(Way(track), way)
    <3> DEFINE f == Way(track)
    <3>1. \A k \in chosen : NumbersOn(f, strokes[k]) /\ long[k] = SumFunctionOnSet(f, strokes[k])
      BY <1>15
    <3> HIDE DEF f
    <3>2. SumFunctionOnSet(long, chosen) = SumFunctionOnSet(f, way)
      <4>1. InParts(f, way, chosen, strokes, long)
        BY <1>12, <1>13, <2>1, <3>1 DEF InParts
      <4>2. QED BY <4>1, SumOfParts
    <3>3. QED BY <3>2 DEF f
  <2>3. QED BY <2>2
<1>18. ComputeTrackDistances(track)[role] = SumFunctionOnSet(Way(track), way)
  BY DEF ComputeTrackDistances, n
<1>19. QED BY <1>1, <1>17, <1>18

-----------------------------------------------------------------------------
(***************************************************************************)
(* The times of the session card.                                          *)
(***************************************************************************)
\* Samples are pairs of a time and a value.
SampleLists == Seq(Nat \X Nat)
InOrder(samples) == \A i, j \in DOMAIN samples : i <= j => samples[i][1] <= samples[j][1]

LEMMA SamplesTyped ==
    ASSUME NEW samples \in SampleLists
    PROVE  /\ DOMAIN samples = 1 .. Len(samples) /\ Len(samples) \in Nat
           /\ \A i \in DOMAIN samples : samples[i][1] \in Nat /\ samples[i][2] \in Nat
  BY DEF SampleLists

(* The sample that is in force at a time.                                  *)
LEMMA SampleInForce ==
    ASSUME NEW samples \in SampleLists, InOrder(samples), NEW t \in Int
    PROVE  LET upTo == {i \in DOMAIN samples : samples[i][1] <= t}
           IN  upTo # {} =>
                   /\ Max(upTo) \in upTo
                   /\ \A j \in DOMAIN samples : j <= Max(upTo) <=> samples[j][1] <= t
                   /\ ValueAt(samples, t) = samples[Max(upTo)][2]
<1> DEFINE upTo == {i \in DOMAIN samples : samples[i][1] <= t}
           n == Len(samples)
<1>1. DOMAIN samples = 1 .. n /\ n \in Nat /\ upTo \in SUBSET (1 .. n)
      /\ \A i \in DOMAIN samples : samples[i][1] \in Nat
  BY SamplesTyped
<1>2. ASSUME upTo # {}
      PROVE  /\ Max(upTo) \in upTo
             /\ \A j \in DOMAIN samples : j <= Max(upTo) <=> samples[j][1] <= t
             /\ ValueAt(samples, t) = samples[Max(upTo)][2]
  <2>1. Max(upTo) \in upTo /\ \A i \in upTo : i <= Max(upTo)
    <3> HIDE DEF upTo, n
    <3>1. QED BY <1>1, <1>2, PositionsHaveEnds
  <2>2. ASSUME NEW j \in DOMAIN samples, j <= Max(upTo) PROVE samples[j][1] <= t
    <3>1. samples[j][1] <= samples[Max(upTo)][1]
      BY <2>1, <2>2 DEF InOrder
    <3>2. samples[Max(upTo)][1] <= t
      BY <2>1
    <3>3. samples[j][1] \in Int /\ samples[Max(upTo)][1] \in Int
      BY <1>1, <2>1
    <3>4. QED BY <3>1, <3>2, <3>3
  <2>3. ValueAt(samples, t) = samples[Max(upTo)][2]
    BY <1>2 DEF ValueAt
  <2>4. QED BY <2>1, <2>2, <2>3
<1>3. QED BY <1>2

(* The time until the first of the later of some samples, or the end.      *)
LEMMA FirstLater ==
    ASSUME NEW samples \in SampleLists, InOrder(samples), NEW end \in Nat,
           NEW later \in SUBSET DOMAIN samples, \A j \in later : samples[j][1] <= end
    PROVE  LET until == Min({samples[j][1] : j \in later} \cup {end})
           IN  /\ until \in Nat /\ until <= end
               /\ \A j \in later : until <= samples[j][1]
               /\ until = end \/ \E j \in later : until = samples[j][1]
<1> DEFINE times == {samples[j][1] : j \in later} \cup {end}
           f == [j \in later |-> samples[j][1]]
<1>1. /\ DOMAIN samples = 1 .. Len(samples) /\ Len(samples) \in Nat
      /\ \A i \in DOMAIN samples : samples[i][1] \in Nat
  BY SamplesTyped
<1>2. IsFiniteSet(later)
  BY <1>1, Positions
<1>3. {samples[j][1] : j \in later} \subseteq {f[j] : j \in later}
  OBVIOUS
<1>4. IsFiniteSet({samples[j][1] : j \in later})
  <2> HIDE DEF f
  <2>1. QED BY <1>2, <1>3, ImageIsFinite
<1>5. IsFiniteSet(times)
  BY <1>4, FS_AddElement
<1>6. times \in SUBSET Nat /\ times # {}
  BY <1>1
<1>7. times \in SUBSET Int
  BY <1>6
<1>8. Min(times) \in times /\ \A y \in times : Min(times) <= y
  <2> HIDE DEF times
  <2>1. QED BY <1>5, <1>6, <1>7, MinIsThere
<1>9. QED BY <1>6, <1>8

(* The rain delays cover the half minutes in which the code was 56.        *)
Tiles(intervals, whole) ==
    /\ IsFiniteSet(intervals)
    /\ \A r \in intervals : r[1] \in Nat /\ r[2] \in Nat /\ r[1] <= r[2]
    /\ \A r, s \in intervals : r # s => r[2] <= s[1] \/ s[2] <= r[1]
    /\ \A t \in Int : t \in whole <=> \E r \in intervals : r[1] <= t /\ t < r[2]

LEMMA RainIsCovered ==
    ASSUME NEW errors \in SampleLists, InOrder(errors), NEW start \in Nat, NEW end \in Nat,
           start <= end, \A i \in DOMAIN errors : start <= errors[i][1]
    PROVE  Tiles(BuildRainIntervals(errors, start, end),
                 {t \in start .. end - 1 : ValueAt(errors, t) = RAIN})
<1> DEFINE in == {i \in DOMAIN errors : start <= errors[i][1] /\ errors[i][1] <= end}
           rain == {i \in in : errors[i][2] = RAIN}
           opens == {i \in rain : i - 1 \notin rain}
           later(i) == {k \in in \ rain : k > i}
           Close(i) == Min({errors[j][1] : j \in later(i)} \cup {end})
           intervals == {<<errors[i][1], Close(i)>> : i \in opens}
           whole == {t \in start .. end - 1 : ValueAt(errors, t) = RAIN}
           n == Len(errors)
<1>0. BuildRainIntervals(errors, start, end) = intervals
  BY DEF BuildRainIntervals
<1>1. /\ DOMAIN errors = 1 .. n /\ n \in Nat
      /\ \A i \in DOMAIN errors : errors[i][1] \in Nat /\ errors[i][2] \in Nat
  BY SamplesTyped
<1>2. opens \subseteq rain /\ rain \subseteq in /\ in \subseteq 1 .. n
  BY <1>1
<1> HIDE DEF n
<1>3. \A i, j \in 1 .. n : i <= j => errors[i][1] <= errors[j][1]
  BY <1>1 DEF InOrder
<1>4. ASSUME NEW i \in opens
      PROVE  /\ Close(i) \in Nat /\ Close(i) <= end
             /\ \A j \in later(i) : Close(i) <= errors[j][1]
             /\ Close(i) = end \/ \E j \in later(i) : Close(i) = errors[j][1]
             /\ errors[i][1] \in Nat /\ start <= errors[i][1] /\ errors[i][1] <= Close(i)
  <2>1. later(i) \in SUBSET DOMAIN errors /\ \A j \in later(i) : errors[j][1] <= end
    OBVIOUS
  <2>2. /\ errors[i][1] \in Nat /\ start <= errors[i][1] /\ errors[i][1] <= end
        /\ \A j \in later(i) : errors[i][1] <= errors[j][1]
    <3>1. \A j \in later(i) : j \in 1 .. n /\ i <= j
      BY <1>2
    <3>2. QED BY <1>1, <1>2, <1>3, <3>1
  <2> HIDE DEF later
  <2>3. /\ Close(i) \in Nat /\ Close(i) <= end
        /\ \A j \in later(i) : Close(i) <= errors[j][1]
        /\ Close(i) = end \/ \E j \in later(i) : Close(i) = errors[j][1]
    BY <2>1, FirstLater
  <2> HIDE DEF Close
  <2>4. QED BY <2>2, <2>3
<1>5. ASSUME NEW i \in opens, NEW k \in opens, i < k
      PROVE  Close(i) <= errors[k][1]
  <2>1. i \in 1 .. n /\ k \in 1 .. n /\ k - 1 \in 1 .. n /\ i <= k - 1 /\ k - 1 <= k /\ i \in Int /\ k \in Int
    <3>1. i \in 1 .. n /\ k \in 1 .. n
      BY <1>2
    <3> HIDE DEF opens
    <3>2. QED BY <1>1, <1>5, <3>1
  <2>2. errors[i][1] <= errors[k - 1][1] /\ errors[k - 1][1] <= errors[k][1]
    BY <1>3, <2>1
  <2>3. k - 1 \in in
    <3>1. errors[k - 1][1] \in Nat /\ errors[k][1] \in Nat /\ errors[k][1] <= end /\ start <= errors[k - 1][1]
      BY <1>1, <1>2, <2>1
    <3>2. QED BY <1>1, <2>1, <2>2, <3>1
  <2>4. k - 1 \notin rain /\ i \in rain
    OBVIOUS
  <2>5. k - 1 \in later(i)
    <3>1. k - 1 # i BY <2>4
    <3>2. k - 1 > i BY <2>1, <3>1
    <3>3. QED BY <2>3, <2>4, <3>2
  <2> HIDE DEF later, Close
  <2>6. Close(i) <= errors[k - 1][1]
    BY <1>4, <2>5
  <2>7. Close(i) \in Nat /\ errors[k - 1][1] \in Nat /\ errors[k][1] \in Nat
    BY <1>1, <1>4, <2>1
  <2>8. QED BY <2>2, <2>6, <2>7
<1>6. IsFiniteSet(intervals)
  <2> DEFINE f == [i \in opens |-> <<errors[i][1], Close(i)>>]
  <2>1. intervals \subseteq {f[i] : i \in opens}
    OBVIOUS
  <2>2. opens \in SUBSET (1 .. n) /\ n \in Nat
    BY <1>1, <1>2
  <2> HIDE DEF opens, f, intervals
  <2>3. IsFiniteSet(opens)
    BY <2>2, Positions
  <2>4. QED BY <2>1, <2>3, ImageIsFinite
<1>7. \A r \in intervals : r[1] \in Nat /\ r[2] \in Nat /\ r[1] <= r[2]
  <2> HIDE DEF opens, Close
  <2>1. QED BY <1>4
<1>8. \A r, s \in intervals : r # s => r[2] <= s[1] \/ s[2] <= r[1]
  <2> SUFFICES ASSUME NEW i \in opens, NEW k \in opens, i # k
               PROVE  Close(i) <= errors[k][1] \/ Close(k) <= errors[i][1]
    <3> HIDE DEF opens, Close
    <3>1. QED OBVIOUS
  <2>1. i < k \/ k < i
    BY <1>2
  <2> HIDE DEF opens, Close
  <2>2. QED BY <1>5, <2>1
<1>9. ASSUME NEW t \in Int, t \in whole PROVE \E r \in intervals : r[1] <= t /\ t < r[2]
  <2> DEFINE upTo == {j \in DOMAIN errors : errors[j][1] <= t}
             m == Max(upTo)
             S == {j \in 1 .. m : \A k \in j .. m : k \in rain}
  <2>1. t \in start .. end - 1 /\ ValueAt(errors, t) = RAIN
    BY <1>9
  <2>2. upTo # {}
    <3>1. SUFFICES ASSUME upTo = {} PROVE FALSE
      OBVIOUS
    <3>2. ValueAt(errors, t) = -1
      BY <3>1 DEF ValueAt
    <3>3. QED BY <2>1, <3>2 DEF RAIN
  <2>3. m \in upTo /\ (\A j \in DOMAIN errors : j <= m <=> errors[j][1] <= t) /\ errors[m][2] = RAIN
    BY <2>1, <2>2, SampleInForce
  <2>4. m \in rain /\ m \in 1 .. n
    <3>1. errors[m][1] \in Nat /\ start <= errors[m][1] /\ errors[m][1] <= t
      BY <1>1, <2>3
    <3>2. errors[m][1] <= end
      BY <2>1, <3>1
    <3>3. QED BY <1>1, <2>3, <3>1, <3>2
  <2> HIDE DEF m, upTo
  <2>5. S \in SUBSET Nat /\ m \in S
    <3>1. \A k \in m .. m : k = m
      BY <2>4
    <3>2. m \in 1 .. m
      BY <2>4
    <3>3. QED BY <2>4, <3>1, <3>2
  <2>6. PICK i \in S : \A j \in S : i <= j
    <3> HIDE DEF S
    <3>1. QED BY <2>5, LeastNumber
  <2>7. i \in 1 .. m /\ (\A k \in i .. m : k \in rain) /\ m \in Nat
    BY <2>4
  <2>8. i \in rain
    BY <2>7
  <2>9. i - 1 \notin rain
    <3>1. SUFFICES ASSUME i - 1 \in rain PROVE FALSE
      OBVIOUS
    <3>2. i - 1 \in 1 .. n
      BY <1>2, <3>1
    <3>3. i - 1 \in 1 .. m /\ \A k \in (i - 1) .. m : k = i - 1 \/ k \in i .. m
      BY <2>7, <3>2
    <3>4. i - 1 \in S
      BY <2>7, <3>1, <3>3
    <3>5. i <= i - 1
      BY <2>6, <3>4
    <3>6. QED BY <2>7, <3>5
  <2>10. i \in opens
    BY <2>8, <2>9
  <2>11. errors[i][1] <= t
    BY <1>1, <1>2, <2>3, <2>7, <2>8
  <2>12. \A j \in later(i) : j \in 1 .. n /\ t < errors[j][1]
    <3>1. SUFFICES ASSUME NEW j \in later(i) PROVE j \in 1 .. n /\ t < errors[j][1]
      OBVIOUS
    <3>2. j \in in /\ j \notin rain /\ j > i /\ j \in 1 .. n
      BY <1>2
    <3>3. ~(j \in i .. m)
      BY <2>7, <3>2
    <3>4. ~(j <= m)
      BY <2>7, <3>2, <3>3
    <3>5. ~(errors[j][1] <= t) /\ errors[j][1] \in Nat
      BY <1>1, <2>3, <3>2, <3>4
    <3>6. QED BY <3>2, <3>5
  <2>13. t < Close(i)
    <3> HIDE DEF later, Close, opens
    <3>1. Close(i) = end \/ \E j \in later(i) : Close(i) = errors[j][1]
      BY <1>4, <2>10
    <3>2. t < end
      BY <2>1
    <3>3. QED BY <2>12, <3>1, <3>2
  <2>14. <<errors[i][1], Close(i)>> \in intervals
    BY <2>10
  <2> HIDE DEF intervals, Close
  <2>15. QED BY <2>11, <2>13, <2>14
<1>10. ASSUME NEW t \in Int, NEW r \in intervals, r[1] <= t, t < r[2] PROVE t \in whole
  <2> DEFINE upTo == {j \in DOMAIN errors : errors[j][1] <= t}
             m == Max(upTo)
  <2>1. PICK i \in opens : r = <<errors[i][1], Close(i)>>
    OBVIOUS
  <2>2. errors[i][1] <= t /\ t < Close(i) /\ i \in rain /\ i \in 1 .. n
    <3>1. i \in rain /\ i \in 1 .. n BY <1>2
    <3> HIDE DEF Close
    <3>2. QED BY <1>10, <2>1, <3>1
  <2>3. t \in start .. end - 1
    <3> HIDE DEF Close, opens
    <3>1. /\ errors[i][1] \in Nat /\ start <= errors[i][1]
          /\ Close(i) \in Nat /\ Close(i) <= end
      BY <1>4
    <3>2. QED BY <2>2, <3>1
  <2>4. i \in upTo
    BY <1>1, <2>2
  <2>5. /\ m \in upTo
        /\ \A j \in DOMAIN errors : j <= m <=> errors[j][1] <= t
        /\ ValueAt(errors, t) = errors[m][2]
    BY <2>4, SampleInForce
  <2>6. m \in 1 .. n /\ errors[m][1] <= t /\ i <= m
    BY <1>1, <2>2, <2>5
  <2> HIDE DEF m, upTo
  <2>7. m \in in
    <3>1. errors[m][1] \in Nat /\ start <= errors[m][1]
      BY <1>1, <2>6
    <3>2. errors[m][1] <= end
      BY <2>3, <2>6, <3>1
    <3>3. QED BY <1>1, <2>6, <3>1, <3>2
  <2>8. m \in rain
    <3>1. SUFFICES ASSUME m \notin rain PROVE FALSE
      OBVIOUS
    <3>2. m # i /\ m > i
      BY <2>2, <2>6, <3>1
    <3>3. m \in later(i)
      BY <2>7, <3>1, <3>2
    <3> HIDE DEF Close, opens, later
    <3>4. Close(i) <= errors[m][1] /\ Close(i) \in Nat /\ errors[m][1] \in Nat
      BY <1>1, <1>4, <2>6, <3>3
    <3>5. QED BY <2>2, <2>6, <3>4
  <2>9. ValueAt(errors, t) = RAIN
    BY <2>5, <2>8
  <2>10. QED BY <2>3, <2>9
<1>11. \A t \in Int : t \in whole <=> \E r \in intervals : r[1] <= t /\ t < r[2]
  <2> HIDE DEF whole, intervals
  <2>1. QED BY <1>9, <1>10
<1> HIDE DEF whole, intervals
<1>12. Tiles(intervals, whole)
  BY <1>6, <1>7, <1>8, <1>11 DEF Tiles
<1>13. QED BY <1>0, <1>12 DEF whole

(* The intervals of the states cover the session, each with its state.     *)
LEMMA StatesCover ==
    ASSUME NEW states \in SampleLists, InOrder(states), NEW start \in Nat, NEW end \in Nat,
           start <= end
    PROVE  /\ Tiles(BuildStateIntervals(states, start, end), start .. end - 1)
           /\ \A s \in BuildStateIntervals(states, start, end) :
                  \A t \in Int : s[1] <= t /\ t < s[2] => ValueAt(states, t) = s[3]
<1> DEFINE seeds == {i \in DOMAIN states : states[i][1] <= start}
           within == {i \in DOMAIN states : start < states[i][1] /\ states[i][1] <= end}
           later(i) == {k \in within : k > i}
           Until(i) == Min({states[j][1] : j \in later(i)} \cup {end})
           seed == IF seeds = {} THEN -1 ELSE states[Max(seeds)][2]
           First == <<start, Until(0), seed>>
           Other(i) == <<states[i][1], Until(i), states[i][2]>>
           intervals == {First} \cup {Other(i) : i \in within}
           n == Len(states)
<1>0. BuildStateIntervals(states, start, end) = intervals
  BY DEF BuildStateIntervals
<1>1. /\ DOMAIN states = 1 .. n /\ n \in Nat
      /\ \A i \in DOMAIN states : states[i][1] \in Nat /\ states[i][2] \in Nat
  BY SamplesTyped
<1> HIDE DEF n
<1>2. \A i \in within : i \in 1 .. n /\ start < states[i][1] /\ states[i][1] <= end /\ states[i][1] \in Nat
  BY <1>1
<1>3. \A i, j \in 1 .. n : i <= j => states[i][1] <= states[j][1]
  BY <1>1 DEF InOrder
<1>4. ASSUME NEW i \in 0 .. n
      PROVE  /\ Until(i) \in Nat /\ Until(i) <= end
             /\ \A j \in later(i) : Until(i) <= states[j][1]
             /\ Until(i) = end \/ \E j \in later(i) : Until(i) = states[j][1]
  <2>1. later(i) \in SUBSET DOMAIN states /\ \A j \in later(i) : states[j][1] <= end
    OBVIOUS
  <2> HIDE DEF later
  <2>2. QED BY <2>1, FirstLater
<1>5. start <= Until(0)
  <2>1. \A j \in later(0) : j \in within
    OBVIOUS
  <2>2. 0 \in 0 .. n
    BY <1>1
  <2> HIDE DEF Until, later, within
  <2>3. Until(0) = end \/ \E j \in later(0) : Until(0) = states[j][1]
    BY <1>4, <2>2
  <2>4. QED BY <1>2, <2>1, <2>3
<1>6. ASSUME NEW i \in within PROVE states[i][1] <= Until(i)
  <2>1. \A j \in later(i) : j \in within /\ i <= j /\ i \in 1 .. n /\ j \in 1 .. n
    BY <1>2
  <2>2. i \in 0 .. n
    BY <1>1, <1>2
  <2> HIDE DEF Until, later, within
  <2>3. Until(i) = end \/ \E j \in later(i) : Until(i) = states[j][1]
    BY <1>4, <2>2
  <2>4. \A j \in later(i) : states[i][1] <= states[j][1]
    BY <1>3, <2>1
  <2>5. QED BY <1>2, <2>3, <2>4
<1>7. \A k \in within : Until(0) <= states[k][1] /\ \A i \in within : i < k => Until(i) <= states[k][1]
  <2> SUFFICES ASSUME NEW k \in within
               PROVE  Until(0) <= states[k][1] /\ \A i \in within : i < k => Until(i) <= states[k][1]
    OBVIOUS
  <2>1. k \in later(0) /\ \A i \in within : i < k => k \in later(i)
    <3>1. k > 0 BY <1>2
    <3>2. \A i \in within : i < k => k > i BY <1>2
    <3>3. QED BY <3>1, <3>2
  <2>2. 0 \in 0 .. n /\ \A i \in within : i \in 0 .. n
    BY <1>1, <1>2
  <2> HIDE DEF Until, later, within
  <2>3. QED BY <1>4, <2>1, <2>2
<1>8. IsFiniteSet(intervals)
  <2> DEFINE f == [i \in within |-> Other(i)]
             others == {Other(i) : i \in within}
  <2>1. others \subseteq {f[i] : i \in within}
    OBVIOUS
  <2>2. within \in SUBSET (1 .. n) /\ n \in Nat
    BY <1>1
  <2>3. intervals = others \cup {First}
    OBVIOUS
  <2> HIDE DEF within, f, intervals, others
  <2>4. IsFiniteSet(within)
    BY <2>2, Positions
  <2>5. IsFiniteSet(others)
    BY <2>1, <2>4, ImageIsFinite
  <2>6. QED BY <2>3, <2>5, FS_AddElement
<1>9. \A r \in intervals : r[1] \in Nat /\ r[2] \in Nat /\ r[1] <= r[2]
  <2>1. 0 \in 0 .. n /\ \A i \in within : i \in 0 .. n
    BY <1>1, <1>2
  <2> HIDE DEF Until, within
  <2>2. Until(0) \in Nat /\ \A i \in within : Until(i) \in Nat
    BY <1>4, <2>1
  <2>3. QED BY <1>2, <1>5, <1>6, <2>2
<1>10. \A r, s \in intervals : r # s => r[2] <= s[1] \/ s[2] <= r[1]
  <2>1. \A i, k \in within : i = k \/ i < k \/ k < i
    BY <1>2
  <2> HIDE DEF Until, within
  <2>2. ASSUME NEW i \in within, NEW k \in within, i # k
        PROVE  Until(i) <= states[k][1] \/ Until(k) <= states[i][1]
    BY <1>7, <2>1, <2>2
  <2>3. \A k \in within : Until(0) <= states[k][1]
    BY <1>7
  <2>4. \A r \in intervals : r = First \/ \E i \in within : r = Other(i)
    OBVIOUS
  <2>5. SUFFICES ASSUME NEW r \in intervals, NEW s \in intervals, r # s
                 PROVE  r[2] <= s[1] \/ s[2] <= r[1]
    OBVIOUS
  <2>6. CASE r = First
    <3>1. PICK k \in within : s = Other(k)
      BY <2>4, <2>5, <2>6
    <3>2. QED BY <2>3, <2>6, <3>1
  <2>7. CASE s = First
    <3>1. PICK k \in within : r = Other(k)
      BY <2>4, <2>5, <2>7
    <3>2. QED BY <2>3, <2>7, <3>1
  <2>8. CASE r # First /\ s # First
    <3>1. PICK i \in within : r = Other(i)
      BY <2>4, <2>8
    <3>2. PICK k \in within : s = Other(k)
      BY <2>4, <2>8
    <3>3. i # k
      BY <2>5, <3>1, <3>2
    <3>4. QED BY <2>2, <3>1, <3>2, <3>3
  <2>9. QED BY <2>6, <2>7, <2>8
<1>11. ASSUME NEW t \in start .. end - 1 PROVE \E r \in intervals : r[1] <= t /\ t < r[2]
  <2> DEFINE upTo == {i \in within : states[i][1] <= t}
             m == IF upTo = {} THEN 0 ELSE Max(upTo)
  <2>1. upTo \in SUBSET (1 .. n)
    BY <1>2
  <2>2. upTo # {} => Max(upTo) \in upTo /\ \A i \in upTo : i <= Max(upTo)
    <3> HIDE DEF upTo
    <3>1. QED BY <1>1, <2>1, PositionsHaveEnds
  <2>3. m \in 0 .. n /\ (m \in upTo \/ (m = 0 /\ upTo = {})) /\ \A i \in upTo : i <= m
    <3> HIDE DEF upTo
    <3>1. CASE upTo = {}
      <4>1. m = 0 BY <3>1
      <4> HIDE DEF m
      <4>2. QED BY <1>1, <3>1, <4>1
    <3>2. CASE upTo # {}
      <4>1. m \in upTo /\ \A i \in upTo : i <= m BY <2>2, <3>2
      <4> HIDE DEF m
      <4>2. m \in 1 .. n BY <2>1, <4>1
      <4>3. m \in 0 .. n BY <1>1, <4>2
      <4>4. QED BY <4>1, <4>3
    <3>3. QED BY <3>1, <3>2
  <2>4. \A j \in later(m) : j \in within /\ j > m /\ j \in 1 .. n
    BY <1>2
  <2>5. \A j \in later(m) : t < states[j][1]
    <3>1. SUFFICES ASSUME NEW j \in later(m) PROVE t < states[j][1]
      OBVIOUS
    <3>2. j \notin upTo
      <4> HIDE DEF upTo, m, later
      <4>1. j \in Int /\ m \in Int /\ j > m
        BY <2>3, <2>4
      <4>2. QED BY <2>3, <4>1
    <3>3. j \in within
      OBVIOUS
    <3>4. ~(states[j][1] <= t) /\ states[j][1] \in Nat
      BY <1>2, <3>2, <3>3
    <3> HIDE DEF upTo, m, later
    <3>5. QED BY <3>4
  <2>6. t < Until(m)
    <3> HIDE DEF upTo, m, later, Until
    <3>1. Until(m) = end \/ \E j \in later(m) : Until(m) = states[j][1]
      BY <1>4, <2>3
    <3>2. QED BY <2>5, <3>1
  <2>7. CASE m \in upTo
    <3>1. m \in within /\ states[m][1] <= t
      BY <2>7
    <3>2. Other(m) \in intervals
      BY <3>1
    <3> HIDE DEF upTo, m, later, Until, within, intervals
    <3>3. QED BY <2>6, <3>1, <3>2
  <2>8. CASE m = 0
    <3>1. First \in intervals /\ t < Until(0) /\ start <= t
      <4>1. First \in intervals
        OBVIOUS
      <4> HIDE DEF upTo, m, later, Until, within, intervals
      <4>2. QED BY <2>6, <2>8, <4>1
    <3> HIDE DEF upTo, m, later, Until, within, intervals
    <3>3. QED BY <3>1
  <2>9. QED BY <2>3, <2>7, <2>8
<1>12. ASSUME NEW t \in Int, NEW r \in intervals, r[1] <= t, t < r[2] PROVE t \in start .. end - 1
  <2>1. 0 \in 0 .. n /\ \A i \in within : i \in 0 .. n
    BY <1>1, <1>2
  <2>2. start <= r[1] /\ r[2] <= end
    <3> HIDE DEF Until, within
    <3>1. Until(0) <= end /\ \A i \in within : Until(i) <= end
      BY <1>4, <2>1
    <3>2. QED BY <1>2, <3>1
  <2>3. r[1] \in Nat /\ r[2] \in Nat
    BY <1>9
  <2> HIDE DEF intervals
  <2>4. QED BY <1>12, <2>2, <2>3
<1>13. Tiles(intervals, start .. end - 1)
  <2>1. \A t \in Int : t \in start .. end - 1 <=> \E r \in intervals : r[1] <= t /\ t < r[2]
    <3> HIDE DEF intervals
    <3>1. QED BY <1>11, <1>12
  <2> HIDE DEF intervals
  <2>2. QED BY <1>8, <1>9, <1>10, <2>1 DEF Tiles
<1>14. ASSUME NEW i \in within, NEW t \in Int, states[i][1] <= t, t < Until(i)
       PROVE  ValueAt(states, t) = states[i][2]
  <2> DEFINE upTo == {j \in DOMAIN states : states[j][1] <= t}
             m == Max(upTo)
  <2>1. i \in upTo /\ i \in 1 .. n
    BY <1>2, <1>14
  <2>2. /\ m \in upTo
        /\ \A j \in DOMAIN states : j <= m <=> states[j][1] <= t
        /\ ValueAt(states, t) = states[m][2]
    BY <2>1, SampleInForce
  <2>3. m \in 1 .. n /\ states[m][1] <= t /\ i <= m
    BY <1>1, <1>14, <2>1, <2>2
  <2> HIDE DEF m, upTo
  <2>4. m = i
    <3>1. SUFFICES ASSUME m > i PROVE FALSE
      BY <2>1, <2>3
    <3>2. states[i][1] <= states[m][1] /\ states[m][1] \in Nat /\ states[i][1] \in Nat
      BY <1>1, <1>3, <2>1, <2>3
    <3>3. i \in 0 .. n
      BY <1>1, <2>1
    <3>4. Until(i) \in Nat /\ Until(i) <= end
      BY <1>4, <3>3
    <3>5. m \in within
      <4> HIDE DEF Until
      <4>1. start < states[m][1] /\ states[m][1] <= end
        BY <1>2, <1>14, <2>3, <3>2, <3>4
      <4>2. QED BY <1>1, <2>3, <4>1
    <3>6. m \in later(i)
      BY <3>1, <3>5
    <3> HIDE DEF Until, later
    <3>7. Until(i) <= states[m][1]
      BY <1>4, <3>3, <3>6
    <3>8. QED BY <1>14, <2>3, <3>2, <3>4, <3>7
  <2>5. QED BY <2>2, <2>4
<1>15. ASSUME NEW t \in Int, start <= t, t < Until(0) PROVE ValueAt(states, t) = seed
  <2> DEFINE upTo == {j \in DOMAIN states : states[j][1] <= t}
  <2>1. 0 \in 0 .. n
    BY <1>1
  <2>2. Until(0) \in Nat /\ Until(0) <= end
    BY <1>4, <2>1
  <2>3. ASSUME NEW j \in 1 .. n PROVE states[j][1] <= t <=> states[j][1] <= start
    <3>1. states[j][1] \in Nat
      BY <1>1
    <3>2. SUFFICES ASSUME states[j][1] <= t, start < states[j][1] PROVE FALSE
      BY <1>15, <3>1
    <3>3. states[j][1] <= end
      <4> HIDE DEF Until
      <4>1. QED BY <1>15, <2>2, <3>1, <3>2
    <3>4. j \in within
      BY <1>1, <3>2, <3>3
    <3> HIDE DEF Until, within
    <3>5. Until(0) <= states[j][1]
      BY <1>7, <3>4
    <3>6. QED BY <1>15, <2>2, <3>1, <3>2, <3>5
  <2>4. upTo = seeds
    BY <1>1, <2>3
  <2>5. QED BY <2>4 DEF ValueAt
<1>16. \A s \in intervals : \A t \in Int : s[1] <= t /\ t < s[2] => ValueAt(states, t) = s[3]
  <2> HIDE DEF Until, within, seed
  <2>1. QED BY <1>14, <1>15
<1> HIDE DEF intervals
<1>17. QED BY <1>0, <1>13, <1>16

-----------------------------------------------------------------------------
(* The lengths of intervals that are apart sum to what they cover.         *)
LEMMA TotalIsSize ==
    ASSUME NEW intervals, NEW whole \in SUBSET Int, Tiles(intervals, whole)
    PROVE  IntervalTotal(intervals) = Cardinality(whole) /\ IsFiniteSet(whole)
<1> DEFINE parts == [r \in intervals |-> r[1] .. r[2] - 1]
           share == [r \in intervals |-> Length(r)]
<1>1. \A r \in intervals : r[1] \in Nat /\ r[2] \in Nat /\ r[1] <= r[2]
  BY DEF Tiles
<1>2. \A r \in intervals : IsFiniteSet(parts[r]) /\ share[r] = Cardinality(parts[r])
  <2> SUFFICES ASSUME NEW r \in intervals
               PROVE  IsFiniteSet(r[1] .. r[2] - 1) /\ Length(r) = Cardinality(r[1] .. r[2] - 1)
    OBVIOUS
  <2>1. r[1] \in Int /\ r[2] \in Int /\ r[1] <= r[2]
    BY <1>1
  <2>2. QED BY <2>1, SizeOfInterval DEF Length
<1>3. \A r \in intervals : \A t : t \in parts[r] <=> t \in Int /\ r[1] <= t /\ t < r[2]
  BY <1>1
<1> HIDE DEF parts, share
<1>4. ASSUME NEW r \in intervals, NEW s \in intervals, r # s PROVE parts[r] \cap parts[s] = {}
  <2>1. SUFFICES ASSUME NEW t \in parts[r] \cap parts[s] PROVE FALSE
    OBVIOUS
  <2>2. t \in Int /\ r[1] <= t /\ t < r[2] /\ s[1] <= t /\ t < s[2]
    BY <1>3, <2>1
  <2>3. r[2] <= s[1] \/ s[2] <= r[1]
    BY <1>4 DEF Tiles
  <2>4. QED BY <1>1, <2>2, <2>3
<1>5. \A t : t \in whole <=> \E r \in intervals : t \in parts[r]
  <2>1. \A t \in Int : t \in whole <=> \E r \in intervals : r[1] <= t /\ t < r[2]
    BY DEF Tiles
  <2>2. QED BY <1>3, <2>1
<1>6. SizedParts(whole, intervals, parts, share)
  <2>1. IsFiniteSet(intervals)
    BY DEF Tiles
  <2>2. QED BY <1>2, <1>4, <1>5, <2>1 DEF SizedParts
<1>7. IntervalTotal(intervals) = SumFunctionOnSet(share, intervals)
  BY DEF IntervalTotal, share
<1>8. QED BY <1>6, <1>7, SizeOfParts

(* What is left of a state's interval without the rain delays in it.       *)
LEMMA LeftIsSize ==
    ASSUME NEW rain, NEW wet \in SUBSET Int, Tiles(rain, wet), NEW s,
           s[1] \in Nat, s[2] \in Nat, s[1] <= s[2]
    PROVE  LET dry == (s[1] .. s[2] - 1) \ wet
           IN  /\ IsFiniteSet(dry)
               /\ Max({0, Length(s) - SumFunctionOnSet(Clips(s, rain), Met(s, rain))}) = Cardinality(dry)
<1> DEFINE overlap == Clips(s, rain)
           all == s[1] .. s[2] - 1
           both == all \cap wet
           met == Met(s, rain)
           parts == [r \in rain |-> all \cap (r[1] .. r[2] - 1)]
           total == SumFunctionOnSet(overlap, met)
<1>1. \A r \in rain : r[1] \in Nat /\ r[2] \in Nat /\ r[1] <= r[2]
  BY DEF Tiles
<1>2. \A r \in rain : \A t : t \in parts[r] <=>
          t \in Int /\ s[1] <= t /\ t < s[2] /\ r[1] <= t /\ t < r[2]
  BY <1>1
<1>3. \A r : r \in met <=> r \in rain /\ r[1] < s[2] /\ s[1] < r[2]
  BY DEF Met
<1>4. ASSUME NEW r \in met PROVE IsFiniteSet(parts[r]) /\ overlap[r] = Cardinality(parts[r])
  <2>1. r \in rain /\ r[1] < s[2] /\ s[1] < r[2] /\ r[1] \in Nat /\ r[2] \in Nat /\ r[1] <= r[2]
    BY <1>1, <1>3
  <2> DEFINE hi == IF s[2] <= r[2] THEN s[2] ELSE r[2]
             lo == IF s[1] >= r[1] THEN s[1] ELSE r[1]
  <2>2. Min({s[2], r[2]}) = hi /\ Max({s[1], r[1]}) = lo
    BY <2>1, GreaterOfTwo, LesserOfTwo
  <2>3. overlap[r] = hi - lo
    BY <2>1, <2>2 DEF Clips
  <2>4. hi \in Int /\ lo \in Int /\ lo <= hi
    BY <2>1
  <2>5. \A t : t \in parts[r] <=> t \in lo .. hi - 1
    <3>1. \A t \in Int : t \in lo .. hi - 1 <=> s[1] <= t /\ t < s[2] /\ r[1] <= t /\ t < r[2]
      BY <2>1
    <3>2. \A t \in lo .. hi - 1 : t \in Int
      OBVIOUS
    <3> HIDE DEF lo, hi, parts
    <3>3. QED BY <1>2, <2>1, <3>1, <3>2
  <2> HIDE DEF lo, hi, parts, overlap
  <2>6. parts[r] = lo .. hi - 1
    BY <2>5
  <2>7. QED BY <2>3, <2>4, <2>6, SizeOfInterval
<1> HIDE DEF parts, overlap
<1>5. SizedParts(both, met, parts, overlap)
  <2>1. IsFiniteSet(met)
    <3>1. met \subseteq rain /\ IsFiniteSet(rain)
      BY DEF Tiles, Met
    <3> HIDE DEF met
    <3>2. QED BY <3>1, FS_Subset
  <2>2. ASSUME NEW r \in met, NEW q \in met, r # q PROVE parts[r] \cap parts[q] = {}
    <3>1. SUFFICES ASSUME NEW t \in parts[r] \cap parts[q] PROVE FALSE
      OBVIOUS
    <3>2. r \in rain /\ q \in rain
      BY <1>3
    <3>3. t \in Int /\ r[1] <= t /\ t < r[2] /\ q[1] <= t /\ t < q[2]
      BY <1>2, <3>1, <3>2
    <3>4. r[2] <= q[1] \/ q[2] <= r[1]
      BY <2>2, <3>2 DEF Tiles
    <3>5. QED BY <1>1, <3>2, <3>3, <3>4
  <2>3. ASSUME NEW t PROVE t \in both <=> \E r \in met : t \in parts[r]
    <3>1. t \in all <=> t \in Int /\ s[1] <= t /\ t < s[2]
      OBVIOUS
    <3>2. t \in Int => (t \in wet <=> \E r \in rain : r[1] <= t /\ t < r[2])
      BY DEF Tiles
    <3>3. ASSUME t \in both PROVE \E r \in met : t \in parts[r]
      <4>1. t \in Int /\ s[1] <= t /\ t < s[2] /\ t \in wet
        BY <3>1, <3>3
      <4>2. PICK r \in rain : r[1] <= t /\ t < r[2]
        BY <3>2, <4>1
      <4>3. r[1] < s[2] /\ s[1] < r[2]
        BY <1>1, <4>1, <4>2
      <4>4. r \in met /\ t \in parts[r]
        BY <1>2, <1>3, <4>1, <4>2, <4>3
      <4>5. QED BY <4>4
    <3>4. ASSUME NEW r \in met, t \in parts[r] PROVE t \in both
      <4>1. r \in rain /\ t \in Int /\ s[1] <= t /\ t < s[2] /\ r[1] <= t /\ t < r[2]
        BY <1>2, <1>3, <3>4
      <4>2. QED BY <3>1, <3>2, <4>1
    <3>5. QED BY <3>3, <3>4
  <2> HIDE DEF both, met
  <2>4. QED BY <1>4, <2>1, <2>2, <2>3 DEF SizedParts
<1>6. total = Cardinality(both) /\ IsFiniteSet(both)
  <2> HIDE DEF both, met
  <2>1. QED BY <1>5, SizeOfParts
<1>7. IsFiniteSet(all) /\ Cardinality(all) = s[2] - s[1]
  BY SizeOfInterval
<1> HIDE DEF all, total
<1>8. IsFiniteSet(all \ wet) /\ Cardinality(all \ wet) = Cardinality(all) - Cardinality(both)
  BY <1>7, FS_Difference
<1>9. Cardinality(all \ wet) \in Nat
  BY <1>8, FS_CardinalityType
<1>10. Length(s) - total = Cardinality(all \ wet)
  <2> HIDE DEF both
  <2>1. QED BY <1>6, <1>7, <1>8 DEF Length
<1>11. \A k \in Nat : Max({0, k}) = k
  <2>1. SUFFICES ASSUME NEW k \in Nat PROVE Max({0, k}) = k
    OBVIOUS
  <2>2. Max({0, k}) = IF 0 >= k THEN 0 ELSE k
    BY GreaterOfTwo
  <2>3. QED BY <2>2
<1>12. Max({0, Length(s) - total}) = Cardinality(all \ wet)
  BY <1>9, <1>10, <1>11
<1>13. QED BY <1>8, <1>12 DEF all, total, overlap

LEMMA SecondsAreSize ==
    ASSUME NEW rain, NEW wet \in SUBSET Int, Tiles(rain, wet),
           NEW states, NEW all \in SUBSET Int, Tiles(states, all), NEW samples, NEW code,
           \A s \in states : \A t \in Int : s[1] <= t /\ t < s[2] => ValueAt(samples, t) = s[3]
    PROVE  LET in == {t \in all \ wet : ValueAt(samples, t) = code}
           IN  SecondsOutside(states, code, rain) = Cardinality(in) /\ IsFiniteSet(in)
<1> DEFINE kept == {s \in states : s[3] = code}
           left == [s \in kept |->
                       Max({0, Length(s) - SumFunctionOnSet(Clips(s, rain), Met(s, rain))})]
           parts == [s \in kept |-> (s[1] .. s[2] - 1) \ wet]
           in == {t \in all \ wet : ValueAt(samples, t) = code}
<1>1. SecondsOutside(states, code, rain) = SumFunctionOnSet(left, kept)
  BY DEF SecondsOutside
<1>2. \A s \in kept : s \in states /\ s[3] = code /\ s[1] \in Nat /\ s[2] \in Nat /\ s[1] <= s[2]
  BY DEF Tiles
<1>3. ASSUME NEW s \in kept PROVE IsFiniteSet(parts[s]) /\ left[s] = Cardinality(parts[s])
  <2>1. left[s] = Max({0, Length(s) - SumFunctionOnSet(Clips(s, rain), Met(s, rain))})
    OBVIOUS
  <2>2. parts[s] = (s[1] .. s[2] - 1) \ wet
    OBVIOUS
  <2>3. s[1] \in Nat /\ s[2] \in Nat /\ s[1] <= s[2]
    BY <1>2
  <2> HIDE DEF left, parts, kept
  <2>4. QED BY <2>1, <2>2, <2>3, LeftIsSize
<1>4. \A s \in kept : \A t : t \in parts[s] <=> t \in Int /\ s[1] <= t /\ t < s[2] /\ t \notin wet
  BY <1>2
<1>5. \A t \in Int : t \in all <=> \E s \in states : s[1] <= t /\ t < s[2]
  BY DEF Tiles
<1>6. ASSUME NEW t PROVE t \in in <=> \E s \in kept : t \in parts[s]
  <2>1. ASSUME t \in in PROVE \E s \in kept : t \in parts[s]
    <3>1. t \in Int /\ t \in all /\ t \notin wet /\ ValueAt(samples, t) = code
      BY <2>1
    <3>2. PICK s \in states : s[1] <= t /\ t < s[2]
      BY <1>5, <3>1
    <3>3. s \in kept
      BY <3>1, <3>2
    <3> HIDE DEF kept, parts
    <3>4. QED BY <1>4, <3>1, <3>2, <3>3
  <2>2. ASSUME NEW s \in kept, t \in parts[s] PROVE t \in in
    <3>1. t \in Int /\ s[1] <= t /\ t < s[2] /\ t \notin wet /\ s \in states /\ s[3] = code
      BY <1>2, <1>4, <2>2
    <3>2. t \in all
      BY <1>5, <3>1
    <3>3. QED BY <3>1, <3>2
  <2>3. QED BY <2>1, <2>2
<1>7. ASSUME NEW r \in kept, NEW s \in kept, r # s PROVE parts[r] \cap parts[s] = {}
  <2>1. SUFFICES ASSUME NEW t \in parts[r] \cap parts[s] PROVE FALSE
    OBVIOUS
  <2>2. t \in Int /\ r[1] <= t /\ t < r[2] /\ s[1] <= t /\ t < s[2]
    BY <1>4, <2>1
  <2>3. r[2] <= s[1] \/ s[2] <= r[1]
    BY <1>2, <1>7 DEF Tiles
  <2>4. QED BY <1>2, <2>2, <2>3
<1>8. IsFiniteSet(kept)
  <2>1. kept \subseteq states /\ IsFiniteSet(states)
    BY DEF Tiles
  <2> HIDE DEF kept
  <2>2. QED BY <2>1, FS_Subset
<1> HIDE DEF in, left, parts, kept
<1>9. SizedParts(in, kept, parts, left)
  BY <1>3, <1>6, <1>7, <1>8 DEF SizedParts
<1>10. SumFunctionOnSet(left, kept) = Cardinality(in) /\ IsFiniteSet(in)
  BY <1>9, SizeOfParts
<1>11. QED BY <1>1, <1>10 DEF in

(* TimesAreTold, of a session's samples and the codes that were told.      *)
TimesOf(samples, codes, start, end) ==
    LET times == ComputeTimeBreakdown(samples, start, end)
        all   == start .. end - 1
        rain  == {t \in all : ValueAt(codes, t) = RAIN}
        In(code) == {t \in all \ rain : ValueAt(samples["state_samples"], t) = code}
    IN  /\ times.rain = Cardinality(rain) \div 2
        /\ samples["state_samples"] # <<>> =>
            /\ times.mowing = Cardinality(In(MOWING)) \div 2
            /\ times.charging = Cardinality(In(CHARGING)) \div 2
            /\ times.rain + times.mowing + times.charging + times.other = (end - start) \div 2

(* The minutes that the card shows, of samples in order.                   *)
LEMMA MinutesAreTrue ==
    ASSUME NEW samples, NEW start \in Nat, NEW end \in Nat, start <= end,
           samples["error_samples"] \in SampleLists, InOrder(samples["error_samples"]),
           \A i \in DOMAIN samples["error_samples"] : start <= samples["error_samples"][i][1],
           samples["state_samples"] \in SampleLists, InOrder(samples["state_samples"])
    PROVE  TimesOf(samples, samples["error_samples"], start, end)
<1> DEFINE all   == start .. end - 1
           wet   == {t \in all : ValueAt(samples["error_samples"], t) = RAIN}
           In(code) == {t \in all \ wet : ValueAt(samples["state_samples"], t) = code}
           rain   == BuildRainIntervals(samples["error_samples"], start, end)
           states == BuildStateIntervals(samples["state_samples"], start, end)
           times == ComputeTimeBreakdown(samples, start, end)
           R == Cardinality(wet)
           M == Cardinality(In(MOWING))
           C == Cardinality(In(CHARGING))
<1>1. Tiles(rain, wet)
  BY RainIsCovered
<1>2. Tiles(states, all) /\ \A s \in states : \A t \in Int :
          s[1] <= t /\ t < s[2] => ValueAt(samples["state_samples"], t) = s[3]
  BY StatesCover
<1>3. all \in SUBSET Int /\ wet \in SUBSET Int /\ wet \subseteq all
  OBVIOUS
<1>4. IsFiniteSet(all) /\ Cardinality(all) = end - start
  BY SizeOfInterval
<1> HIDE DEF all, wet, rain, states
<1>5. IntervalTotal(rain) = R /\ IsFiniteSet(wet)
  BY <1>1, <1>3, TotalIsSize
<1>6. \A code : SecondsOutside(states, code, rain) = Cardinality(In(code)) /\ IsFiniteSet(In(code))
  BY <1>1, <1>2, <1>3, SecondsAreSize
<1>7. R \in Nat /\ M \in Nat /\ C \in Nat /\ R + M + C <= end - start
  <2> DEFINE U == In(MOWING) \cup In(CHARGING)
             V == wet \cup U
  <2>1. IsFiniteSet(In(MOWING)) /\ IsFiniteSet(In(CHARGING)) /\ IsFiniteSet(wet)
    BY <1>5, <1>6
  <2>2. In(MOWING) \cap In(CHARGING) = {} /\ wet \cap U = {} /\ V \subseteq all
    <3>1. MOWING # CHARGING
      BY DEF MOWING, CHARGING
    <3>2. In(MOWING) \cap In(CHARGING) = {}
      BY <3>1
    <3>3. \A code : In(code) \subseteq all /\ In(code) \cap wet = {}
      OBVIOUS
    <3> HIDE DEF In
    <3>4. QED BY <1>3, <3>2, <3>3
  <2> HIDE DEF In
  <2>3. IsFiniteSet(U) /\ Cardinality(U) = M + C - Cardinality({})
    BY <2>1, <2>2, FS_Union
  <2> HIDE DEF U
  <2>4. Cardinality(V) = R + Cardinality(U) - Cardinality({})
    BY <2>1, <2>2, <2>3, FS_Union
  <2> HIDE DEF V
  <2>5. Cardinality(V) <= Cardinality(all)
    BY <1>4, <2>2, FS_Subset
  <2>6. Cardinality({}) = 0
    BY FS_EmptySet
  <2>7. R \in Nat /\ M \in Nat /\ C \in Nat
    BY <2>1, FS_CardinalityType
  <2> HIDE DEF R, M, C
  <2>8. QED BY <1>4, <2>3, <2>4, <2>5, <2>6, <2>7
<1>8. times.rain = R \div 2
  BY <1>5 DEF ComputeTimeBreakdown, rain
<1> DEFINE rest == (end - start) \div 2 - M \div 2 - C \div 2 - R \div 2
<1>9. samples["state_samples"] # <<>> =>
          times = [rain |-> R \div 2, mowing |-> M \div 2, charging |-> C \div 2,
                   other |-> Max({0, rest})]
  BY <1>5, <1>6 DEF ComputeTimeBreakdown, rain, states
<1>10. /\ R \div 2 \in Nat /\ M \div 2 \in Nat /\ C \div 2 \in Nat /\ rest \in Nat
       /\ (end - start) \div 2 \in Nat
  <2> HIDE DEF R, M, C
  <2>1. \A r, m, c, d \in Nat : r + m + c <= d =>
            /\ r \div 2 \in Nat /\ m \div 2 \in Nat /\ c \div 2 \in Nat /\ d \div 2 \in Nat
            /\ d \div 2 - m \div 2 - c \div 2 - r \div 2 \in Nat
    OBVIOUS
  <2>2. end - start \in Nat
    OBVIOUS
  <2>3. QED BY <1>7, <2>1, <2>2
<1>11. Max({0, rest}) = rest
  <2> HIDE DEF rest
  <2>1. rest \in Int /\ Max({0, rest}) = IF 0 >= rest THEN 0 ELSE rest
    BY <1>10, GreaterOfTwo
  <2>2. QED BY <1>10, <2>1
<1>12. samples["state_samples"] # <<>> =>
          /\ times.mowing = M \div 2 /\ times.charging = C \div 2 /\ times.other = rest
          /\ times.rain = R \div 2
  <2> HIDE DEF rest, M, C, R, times
  <2>1. QED BY <1>9, <1>11
<1>13. R \div 2 + M \div 2 + C \div 2 + rest = (end - start) \div 2
  <2> DEFINE a == R \div 2
             b == M \div 2
             c == C \div 2
             d == (end - start) \div 2
  <2>1. a \in Int /\ b \in Int /\ c \in Int /\ d \in Int
    BY <1>10
  <2>2. rest = d - b - c - a
    OBVIOUS
  <2> HIDE DEF a, b, c, d, rest
  <2>3. a + b + c + rest = d
    BY <2>1, <2>2
  <2>4. QED BY <2>3 DEF a, b, c, d
<1> HIDE DEF times, rest, R, M, C
<1>14. /\ times.rain = R \div 2
       /\ samples["state_samples"] # <<>> =>
             /\ times.mowing = M \div 2 /\ times.charging = C \div 2
             /\ times.rain + times.mowing + times.charging + times.other = (end - start) \div 2
  BY <1>8, <1>12, <1>13
<1>15. QED BY <1>14 DEF TimesOf, times, R, M, C, all, wet

-----------------------------------------------------------------------------
(***************************************************************************)
(* The merge with the recorder.                                            *)
(***************************************************************************)
Ascending(samples) == \A i, j \in DOMAIN samples : i < j => samples[i][1] < samples[j][1]

LEMMA ByTimeSorts ==
    ASSUME NEW samples \in SampleLists
    PROVE  /\ ByTime(samples) \in SampleLists /\ InOrder(ByTime(samples))
           /\ ToSet(ByTime(samples)) = ToSet(samples)
<1> DEFINE n == Len(samples)
           Earlier(i, j) == samples[i][1] < samples[j][1] \/ (samples[i][1] = samples[j][1] /\ i < j)
           those(i) == {j \in 1 .. n : Earlier(j, i)}
           at(i) == Cardinality(those(i)) + 1
           from(k) == CHOOSE i \in 1 .. n : at(i) = k
           sorted == [k \in 1 .. n |-> samples[from(k)]]
<1>1. /\ DOMAIN samples = 1 .. n /\ n \in Nat
      /\ \A i \in 1 .. n : samples[i][1] \in Nat /\ samples[i][2] \in Nat
  BY SamplesTyped
<1>2. ByTime(samples) = sorted
  BY <1>1 DEF ByTime
<1>3. \A i \in 1 .. n : samples[i] \in Nat \X Nat
  BY <1>1 DEF SampleLists
<1> HIDE DEF n
<1>4. /\ \A i \in 1 .. n : ~Earlier(i, i)
      /\ \A i, j \in 1 .. n : i = j \/ Earlier(i, j) \/ Earlier(j, i)
      /\ \A i, j, k \in 1 .. n : Earlier(i, j) /\ Earlier(j, k) => Earlier(i, k)
  <2>1. \A i \in 1 .. n : i \in Int /\ samples[i][1] \in Int
    BY <1>1
  <2>2. QED BY <2>1
<1>5. \A i \in 1 .. n : those(i) \in SUBSET ((1 .. n) \ {i})
  BY <1>4
<1>6. IsFiniteSet(1 .. n) /\ Cardinality(1 .. n) = n
  <2>1. IsFiniteSet(1 .. n) /\ Cardinality(1 .. n) = IF 1 > n THEN 0 ELSE n - 1 + 1
    <3>1. 1 \in Int /\ n \in Int
      BY <1>1
    <3>2. QED BY <3>1, FS_Interval
  <2>2. QED BY <1>1, <2>1
<1>7. \A i \in 1 .. n : IsFiniteSet(those(i)) /\ Cardinality(those(i)) \in Nat /\ at(i) \in 1 .. n
  <2> SUFFICES ASSUME NEW i \in 1 .. n
               PROVE  IsFiniteSet(those(i)) /\ Cardinality(those(i)) \in Nat /\ at(i) \in 1 .. n
    OBVIOUS
  <2> DEFINE rest == (1 .. n) \ {i}
  <2>1. those(i) \in SUBSET rest
    BY <1>5
  <2>2. IsFiniteSet(rest) /\ Cardinality(rest) = n - 1
    BY <1>6, FS_RemoveElement
  <2> HIDE DEF rest, those
  <2>3. IsFiniteSet(those(i)) /\ Cardinality(those(i)) <= n - 1
    BY <2>1, <2>2, FS_Subset
  <2>4. Cardinality(those(i)) \in Nat
    BY <2>3, FS_CardinalityType
  <2>5. QED BY <1>1, <2>3, <2>4
<1>8. ASSUME NEW i \in 1 .. n, NEW j \in 1 .. n, Earlier(i, j) PROVE at(i) < at(j)
  <2>1. those(i) \cup {i} \in SUBSET those(j)
    BY <1>4, <1>8
  <2>2. i \notin those(i)
    BY <1>4
  <2>3. IsFiniteSet(those(i)) /\ IsFiniteSet(those(j)) /\ Cardinality(those(i)) \in Nat /\ Cardinality(those(j)) \in Nat
    BY <1>7
  <2> HIDE DEF those
  <2>4. Cardinality(those(i) \cup {i}) = Cardinality(those(i)) + 1
    BY <2>2, <2>3, FS_AddElement
  <2>5. Cardinality(those(i) \cup {i}) <= Cardinality(those(j))
    BY <2>1, <2>3, FS_Subset
  <2>6. QED BY <2>3, <2>4, <2>5
<1>9. \A k \in 1 .. n : \E i \in 1 .. n : at(i) = k
  <2> DEFINE f == [i \in 1 .. n |-> at(i)]
  <2>1. f \in [1 .. n -> 1 .. n]
    BY <1>7
  <2>2. \A i \in 1 .. n : f[i] = at(i)
    OBVIOUS
  <2> HIDE DEF f, at, Earlier
  <2>3. \A i, j \in 1 .. n : f[i] = f[j] => i = j
    <3>1. \A i \in 1 .. n : at(i) \in 1 .. n
      BY <1>7
    <3>2. \A i \in 1 .. n : at(i) \in Int
      BY <3>1
    <3>3. QED BY <1>4, <1>8, <2>2, <3>2
  <2>4. f \in Injection(1 .. n, 1 .. n)
    BY <2>1, <2>3 DEF Injection, IsInjective
  <2>5. f \in Surjection(1 .. n, 1 .. n)
    BY <1>6, <2>4, FS_Injection
  <2>6. QED BY <2>2, <2>5 DEF Surjection
<1> HIDE DEF at
<1>10. \A k \in 1 .. n : from(k) \in 1 .. n /\ at(from(k)) = k
  BY <1>9
<1>11. \A i \in 1 .. n : at(i) \in 1 .. n /\ from(at(i)) = i
  <2>1. SUFFICES ASSUME NEW i \in 1 .. n PROVE at(i) \in 1 .. n /\ from(at(i)) = i
    OBVIOUS
  <2>2. at(i) \in 1 .. n
    BY <1>7
  <2>3. from(at(i)) \in 1 .. n /\ at(from(at(i))) = at(i)
    BY <1>10, <2>2
  <2> HIDE DEF from, Earlier
  <2>4. QED BY <1>4, <1>8, <2>2, <2>3
<1> HIDE DEF from
<1>12. sorted \in SampleLists
  <2>1. \A k \in 1 .. n : samples[from(k)] \in Nat \X Nat
    BY <1>3, <1>10
  <2> DEFINE f == [k \in 1 .. n |-> samples[from(k)]]
  <2>2. f \in [1 .. n -> Nat \X Nat]
    BY <2>1
  <2> HIDE DEF f
  <2>3. f \in Seq(Nat \X Nat)
    BY <1>1, <2>2
  <2>4. QED BY <2>3 DEF SampleLists, f
<1>13. InOrder(sorted)
  <2>1. DOMAIN sorted = 1 .. n
    OBVIOUS
  <2>2. SUFFICES ASSUME NEW k \in 1 .. n, NEW l \in 1 .. n, k <= l
                 PROVE  samples[from(k)][1] <= samples[from(l)][1]
    BY <2>1 DEF InOrder
  <2>3. ~Earlier(from(l), from(k))
    <3> HIDE DEF Earlier
    <3>1. Earlier(from(l), from(k)) => l < k
      BY <1>8, <1>10
    <3>2. QED BY <2>2, <3>1
  <2>4. samples[from(k)][1] \in Nat /\ samples[from(l)][1] \in Nat
    BY <1>1, <1>10
  <2>5. QED BY <2>3, <2>4
<1>14. ToSet(sorted) = ToSet(samples)
  <2>1. ASSUME NEW k \in 1 .. n PROVE sorted[k] \in ToSet(samples)
    BY <1>1, <1>10 DEF ToSet
  <2>2. ASSUME NEW i \in 1 .. n PROVE samples[i] \in ToSet(sorted)
    <3>1. sorted[at(i)] = samples[i] /\ at(i) \in DOMAIN sorted
      BY <1>11
    <3> HIDE DEF sorted
    <3>2. QED BY <3>1 DEF ToSet
  <2>3. DOMAIN sorted = 1 .. n
    OBVIOUS
  <2> HIDE DEF sorted
  <2>4. QED BY <1>1, <2>1, <2>2, <2>3 DEF ToSet
<1>15. QED BY <1>2, <1>12, <1>13, <1>14

(* Samples that repeat the value before them may be left out.              *)
LEMMA SameValues ==
    ASSUME NEW codes \in SampleLists, Ascending(codes),
           NEW merged \in SampleLists, InOrder(merged), ToSet(merged) \subseteq ToSet(codes),
           \A k \in DOMAIN codes : codes[k] \in ToSet(merged) \/ (k > 1 /\ codes[k - 1][2] = codes[k][2]),
           NEW t \in Int
    PROVE  ValueAt(merged, t) = ValueAt(codes, t)
<1> DEFINE upTo == {i \in DOMAIN codes : codes[i][1] <= t}
           got == {i \in DOMAIN merged : merged[i][1] <= t}
           n == Len(codes)
<1>1. /\ DOMAIN codes = 1 .. n /\ n \in Nat
      /\ \A i \in DOMAIN codes : codes[i][1] \in Nat
      /\ \A i \in DOMAIN merged : merged[i][1] \in Nat
  BY SamplesTyped
<1> HIDE DEF n
<1>2. \A i \in DOMAIN merged : \E k \in 1 .. n : merged[i] = codes[k]
  BY <1>1 DEF ToSet
<1>3. InOrder(codes)
  <2>1. SUFFICES ASSUME NEW i \in 1 .. n, NEW j \in 1 .. n, i <= j
                 PROVE  codes[i][1] <= codes[j][1]
    BY <1>1 DEF InOrder
  <2>2. i = j \/ i < j
    BY <2>1
  <2>3. QED BY <1>1, <2>2 DEF Ascending
<1>4. CASE upTo = {}
  <2>1. got = {}
    <3>1. SUFFICES ASSUME NEW i \in got PROVE FALSE
      OBVIOUS
    <3>2. PICK k \in 1 .. n : merged[i] = codes[k]
      BY <1>2
    <3>3. k \in upTo
      BY <1>1, <3>2
    <3>4. QED BY <1>4, <3>3
  <2>2. QED BY <1>4, <2>1 DEF ValueAt
<1>5. CASE upTo # {}
  <2> DEFINE k == Max(upTo)
             S == {j \in 1 .. k : \A l \in j .. k : codes[l][2] = codes[k][2]}
  <2>1. /\ k \in upTo
        /\ \A j \in DOMAIN codes : j <= k <=> codes[j][1] <= t
        /\ ValueAt(codes, t) = codes[k][2]
    BY <1>3, <1>5, SampleInForce
  <2>2. k \in 1 .. n
    BY <1>1, <2>1
  <2> HIDE DEF k, upTo
  <2>3. S \in SUBSET Nat /\ k \in S
    <3>1. \A l \in k .. k : l = k
      BY <2>2
    <3>2. k \in 1 .. k
      BY <2>2
    <3>3. QED BY <3>1, <3>2
  <2>4. PICK j \in S : \A i \in S : j <= i
    <3> HIDE DEF S
    <3>1. QED BY <2>3, LeastNumber
  <2>5. j \in 1 .. k /\ j \in 1 .. n /\ \A l \in j .. k : codes[l][2] = codes[k][2]
    <3>1. j \in 1 .. k /\ \A l \in j .. k : codes[l][2] = codes[k][2]
      OBVIOUS
    <3>2. j \in 1 .. n
      BY <1>1, <2>2, <3>1
    <3>3. QED BY <3>1, <3>2
  <2>6. codes[j] \in ToSet(merged)
    <3>1. SUFFICES ASSUME j > 1, codes[j - 1][2] = codes[j][2] PROVE FALSE
      BY <1>1, <2>5
    <3>2. j - 1 \in 1 .. k /\ \A l \in (j - 1) .. k : l = j - 1 \/ l \in j .. k
      BY <2>2, <2>5, <3>1
    <3>3. j \in j .. k
      BY <2>2, <2>5
    <3>4. codes[j - 1][2] = codes[k][2]
      BY <2>5, <3>1, <3>3
    <3>5. j - 1 \in S
      BY <2>5, <3>2, <3>4
    <3>6. j <= j - 1
      BY <2>4, <3>5
    <3>7. QED BY <2>5, <3>6
  <2>7. PICK a \in DOMAIN merged : merged[a] = codes[j]
    BY <2>6 DEF ToSet
  <2>8. a \in got
    BY <1>1, <2>1, <2>2, <2>5, <2>7
  <2> DEFINE m == Max(got)
  <2>9. /\ m \in got
        /\ \A i \in DOMAIN merged : i <= m <=> merged[i][1] <= t
        /\ ValueAt(merged, t) = merged[m][2]
    BY <2>8, SampleInForce
  <2>10. m \in DOMAIN merged /\ merged[m][1] <= t /\ merged[a][1] <= merged[m][1]
    <3>1. m \in DOMAIN merged /\ merged[m][1] <= t /\ a <= m
      BY <2>8, <2>9
    <3> HIDE DEF m
    <3>2. QED BY <3>1 DEF InOrder
  <2> HIDE DEF m, got
  <2>11. PICK l \in 1 .. n : merged[m] = codes[l]
    BY <1>2, <2>10
  <2>12. l <= k
    BY <1>1, <2>1, <2>10, <2>11
  <2>13. j <= l
    <3>1. SUFFICES ASSUME l < j PROVE FALSE
      BY <2>5
    <3>2. codes[l][1] < codes[j][1]
      BY <1>1, <2>5, <3>1 DEF Ascending
    <3>3. codes[j][1] <= codes[l][1]
      BY <2>7, <2>10, <2>11
    <3>4. codes[j][1] \in Nat /\ codes[l][1] \in Nat
      BY <1>1, <2>5
    <3>5. QED BY <3>2, <3>3, <3>4
  <2>14. l \in j .. k
    BY <2>2, <2>5, <2>12, <2>13
  <2>15. QED BY <2>1, <2>5, <2>9, <2>11, <2>14
<1>6. QED BY <1>4, <1>5

-----------------------------------------------------------------------------
(***************************************************************************)
(* The invariant of a session's records.  The samples in memory and in the *)
(* file may have lost some, at a restart; what is told is then still known *)
(* to the recorder, except for the samples that repeat a value.            *)
(***************************************************************************)
Before(states, start) == {i \in DOMAIN states : states[i][1] <= start}

\* What the recorder has of the time since start.
Hist(states, start) ==
    {s \in ToSet(states) : start < s[1] /\ s[2] # None}
    \cup (IF Before(states, start) = {} \/ states[Max(Before(states, start))][2] = None THEN {}
          ELSE {<<start, states[Max(Before(states, start))][2]>>})

Repeats(codes, k) == k > 1 /\ codes[k - 1][2] = codes[k][2]

Recorded(codes, states, start, time) ==
    /\ Ascending(codes)
    /\ \A i \in DOMAIN codes : start <= codes[i][1] /\ codes[i][1] <= time
    /\ Hist(states, start) \subseteq ToSet(codes)
    /\ \A k \in DOMAIN codes : codes[k] \in Hist(states, start) \/ Repeats(codes, k)
    /\ codes = <<>> => Last(states)[2] = None
    /\ codes # <<>> => Last(states)[2] \in {None, Last(codes)[2]}

UpToTime(samples, time) == \A i \in DOMAIN samples : samples[i][1] <= time

TrueRoles(track) ==
    \A i \in DOMAIN track :
        track[i].role = "mowing" <=> track[i].area > (IF i = 1 THEN 0 ELSE track[i - 1].area)

Keeps(map, codes, time) ==
    /\ map \in LiveMaps /\ map.start <= time
    /\ \A s \in Streams : InOrder(map.samples[s]) /\ UpToTime(map.samples[s], time)
    /\ ToSet(map.samples["error_samples"]) \subseteq ToSet(codes)
    /\ TrueRoles(map.track)

StateLists == Seq(Nat \X (Nat \cup {None}))

TracksInv ==
    /\ now \in Nat
    /\ told \in [Streams -> SampleLists]
    /\ entity \in StateLists /\ entity # <<>> /\ InOrder(entity) /\ UpToTime(entity, now)
    /\ live # None => /\ Keeps(live, told["error_samples"], now)
                      /\ Recorded(told["error_samples"], entity, live.start, now)
    /\ disk # None => /\ live # None /\ disk.start = live.start
                      /\ Keeps(disk, told["error_samples"], now)
    /\ raw # None => live = None /\ disk = None
    /\ TimesAreTold
    /\ LegsAddUp

LEMMA GrownSamples ==
    ASSUME NEW list \in SampleLists, NEW e
    PROVE  Extends(Append(list, e), list, e) /\ (e \in Nat \X Nat => Append(list, e) \in SampleLists)
  BY Grown DEF SampleLists

LEMMA GrownStates ==
    ASSUME NEW list \in StateLists, NEW e
    PROVE  /\ Extends(Append(list, e), list, e)
           /\ e \in Nat \X (Nat \cup {None}) => Append(list, e) \in StateLists
  BY Grown DEF StateLists

LEMMA GrownInOrder ==
    ASSUME NEW list \in StateLists \cup SampleLists, InOrder(list), NEW time \in Nat, UpToTime(list, time),
           NEW e, time <= e[1], e[1] \in Nat
    PROVE  InOrder(Append(list, e)) /\ UpToTime(Append(list, e), e[1])
<1> DEFINE n == Len(list)
           more == Append(list, e)
           S == Nat \X (Nat \cup {None})
<1>1. list \in Seq(S)
  BY DEF StateLists, SampleLists
<1>2. /\ DOMAIN list = 1 .. n /\ n \in Nat /\ DOMAIN more = 1 .. n + 1 /\ more[n + 1] = e
      /\ \A i \in 1 .. n : more[i] = list[i]
  <2>1. Extends(more, list, e)
    BY <1>1, Grown
  <2> HIDE DEF more
  <2>2. QED BY <2>1 DEF Extends
<1> HIDE DEF more
<1>3. \A i \in 1 .. n : list[i][1] \in Nat
  <2>1. \A i \in 1 .. n : list[i] \in S
    BY <1>1
  <2>2. QED BY <2>1
<1> HIDE DEF n
<1>4. \A i \in 1 .. n : list[i][1] <= e[1]
  BY <1>2, <1>3 DEF UpToTime
<1>5. \A i \in 1 .. n + 1 : i \in 1 .. n \/ i = n + 1
  BY <1>2
<1>6. UpToTime(more, e[1])
  BY <1>2, <1>4, <1>5 DEF UpToTime
<1>7. ASSUME NEW i \in 1 .. n + 1, NEW j \in 1 .. n + 1, i <= j PROVE more[i][1] <= more[j][1]
  <2>1. CASE j = n + 1
    BY <1>2, <1>4, <1>5, <2>1
  <2>2. CASE j \in 1 .. n
    <3>1. i \in 1 .. n
      BY <1>2, <1>7, <2>2
    <3>2. list[i][1] <= list[j][1]
      BY <1>2, <1>7, <2>2, <3>1 DEF InOrder
    <3>3. QED BY <1>2, <2>2, <3>1, <3>2
  <2>3. QED BY <1>5, <2>1, <2>2
<1>8. QED BY <1>2, <1>6, <1>7 DEF InOrder, more

(* What the recorder has when the entity has a new state ...               *)
LEMMA HistoryGrows ==
    ASSUME NEW states \in StateLists, NEW start \in Nat, NEW e \in Nat \X (Nat \cup {None}),
           start < e[1]
    PROVE  Hist(Append(states, e), start) = Hist(states, start) \cup (IF e[2] = None THEN {} ELSE {e})
<1> DEFINE n == Len(states)
           more == Append(states, e)
<1>1. /\ DOMAIN states = 1 .. n /\ n \in Nat /\ DOMAIN more = 1 .. n + 1 /\ more[n + 1] = e
      /\ \A i \in 1 .. n : more[i] = states[i]
      /\ ToSet(more) = ToSet(states) \cup {e}
  <2>1. Extends(more, states, e)
    BY GrownStates
  <2> HIDE DEF more
  <2>2. QED BY <2>1 DEF Extends
<1> HIDE DEF n, more
<1>2. Before(more, start) = Before(states, start)
  <2>1. \A i \in 1 .. n + 1 : i \in 1 .. n \/ i = n + 1
    BY <1>1
  <2>2. ~(e[1] <= start)
    OBVIOUS
  <2>3. 1 .. n \subseteq 1 .. n + 1
    BY <1>1
  <2>4. QED BY <1>1, <2>1, <2>2, <2>3 DEF Before
<1>3. Before(states, start) \in SUBSET (1 .. n)
  BY <1>1 DEF Before
<1>4. Before(states, start) # {} => more[Max(Before(states, start))] = states[Max(Before(states, start))]
  <2>1. Before(states, start) # {} => Max(Before(states, start)) \in 1 .. n
    BY <1>1, <1>3, PositionsHaveEnds
  <2>2. QED BY <1>1, <2>1
<1>5. {s \in ToSet(more) : start < s[1] /\ s[2] # None}
          = {s \in ToSet(states) : start < s[1] /\ s[2] # None} \cup (IF e[2] = None THEN {} ELSE {e})
  BY <1>1
<1> DEFINE kept == {s \in ToSet(states) : start < s[1] /\ s[2] # None}
           new == IF e[2] = None THEN {} ELSE {e}
           first == IF Before(states, start) = {} \/ states[Max(Before(states, start))][2] = None THEN {}
                    ELSE {<<start, states[Max(Before(states, start))][2]>>}
<1>6. Hist(more, start) = (kept \cup new) \cup first
  BY <1>2, <1>4, <1>5 DEF Hist
<1>7. Hist(states, start) = kept \cup first
  BY DEF Hist
<1> HIDE DEF kept, new, first
<1>8. (kept \cup new) \cup first = (kept \cup first) \cup new
  OBVIOUS
<1>9. QED BY <1>6, <1>7, <1>8 DEF new, more

(* ... or, if no state is later than the start, the last state alone.      *)
LEMMA HistoryIsLast ==
    ASSUME NEW states \in StateLists, states # <<>>, NEW start \in Nat, UpToTime(states, start)
    PROVE  Hist(states, start) = IF Last(states)[2] = None THEN {} ELSE {<<start, Last(states)[2]>>}
<1> DEFINE n == Len(states)
<1>1. DOMAIN states = 1 .. n /\ n \in Nat /\ n # 0 /\ n \in 1 .. n /\ Last(states) = states[n]
  BY DEF StateLists, Last
<1>2. \A i \in 1 .. n : states[i][1] \in Nat /\ states[i][1] <= start
  <2>1. \A i \in 1 .. n : states[i] \in Nat \X (Nat \cup {None})
    BY DEF StateLists
  <2>2. QED BY <1>1, <2>1 DEF UpToTime
<1> HIDE DEF n
<1>3. Before(states, start) = 1 .. n
  BY <1>1, <1>2 DEF Before
<1>4. Max(1 .. n) = n
  <2> DEFINE P == 1 .. n
  <2>1. P \in SUBSET (1 .. n) /\ P # {} /\ n \in P
    BY <1>1
  <2> HIDE DEF P
  <2>2. Max(P) \in P /\ \A i \in P : i <= Max(P)
    BY <1>1, <2>1, PositionsHaveEnds
  <2>3. Max(P) \in 1 .. n /\ n <= Max(P)
    BY <2>1, <2>2
  <2>4. Max(P) = n
    BY <1>1, <2>3
  <2>5. QED BY <2>4 DEF P
<1>5. {s \in ToSet(states) : start < s[1] /\ s[2] # None} = {}
  <2>1. SUFFICES ASSUME NEW i \in 1 .. n, start < states[i][1] PROVE FALSE
    BY <1>1 DEF ToSet
  <2>2. QED BY <1>2, <2>1
<1>6. QED BY <1>1, <1>3, <1>4, <1>5 DEF Hist

-----------------------------------------------------------------------------
(* A session that begins.                                                  *)
LEMMA RecordedAtBegin ==
    ASSUME NEW states \in StateLists, states # <<>>, NEW time \in Nat, UpToTime(states, time), NEW codes,
           codes = IF Last(states)[2] = None THEN <<>> ELSE <<<<time, Last(states)[2]>>>>
    PROVE  Recorded(codes, states, time, time) /\ codes \in SampleLists
<1>1. Hist(states, time) = IF Last(states)[2] = None THEN {} ELSE {<<time, Last(states)[2]>>}
  BY HistoryIsLast
<1>2. Last(states) \in Nat \X (Nat \cup {None})
  BY DEF StateLists, Last
<1>3. CASE Last(states)[2] = None
  <2>1. codes = <<>> /\ DOMAIN codes = {} /\ codes \in SampleLists
    BY <1>3 DEF SampleLists
  <2>2. Hist(states, time) = {}
    BY <1>1, <1>3
  <2>3. QED BY <1>3, <2>1, <2>2 DEF Recorded, Ascending
<1>4. CASE Last(states)[2] # None
  <2> DEFINE v == Last(states)[2]
  <2>1. codes = <<<<time, v>>>> /\ v \in Nat
    BY <1>2, <1>4
  <2> HIDE DEF v
  <2>2. codes \in SampleLists
    BY <2>1 DEF SampleLists
  <2>3. DOMAIN codes = {1} /\ codes[1] = <<time, v>> /\ codes # <<>> /\ Last(codes) = <<time, v>>
    <3>1. DOMAIN codes = 1 .. 1 /\ codes[1] = <<time, v>> /\ codes # <<>> /\ Len(codes) = 1
      BY <2>1
    <3>2. 1 .. 1 = {1}
      OBVIOUS
    <3>3. QED BY <3>1, <3>2 DEF Last
  <2>4. ToSet(codes) = {<<time, v>>}
    BY <2>3 DEF ToSet
  <2>5. Hist(states, time) = {<<time, v>>}
    BY <1>1, <1>4 DEF v
  <2>6. Ascending(codes)
    BY <2>3 DEF Ascending
  <2>7. \A i \in DOMAIN codes : time <= codes[i][1] /\ codes[i][1] <= time
    BY <2>3
  <2>8. Last(states)[2] \in {None, Last(codes)[2]}
    BY <2>3 DEF v
  <2>9. QED BY <2>2, <2>3, <2>4, <2>5, <2>6, <2>7, <2>8 DEF Recorded
<1>5. QED BY <1>3, <1>4

(* A code that is pushed, and the entity's state of it if it is new.       *)
LEMMA RecordedAtPush ==
    ASSUME NEW states \in StateLists, states # <<>>, NEW time \in Nat, UpToTime(states, time),
           NEW start \in Nat, start <= time, NEW codes \in SampleLists, Recorded(codes, states, start, time),
           codes # <<>> => Last(codes)[1] < time, NEW v \in Nat, None \notin Nat,
           NEW states2, states2 = IF Last(states)[2] # v THEN Append(states, <<time, v>>) ELSE states,
           NEW codes2, codes2 = Append(codes, <<time, v>>)
    PROVE  Recorded(codes2, states2, start, time)
<1> DEFINE n == Len(codes)
           new == <<time, v>>
<1>1. /\ DOMAIN codes = 1 .. n /\ n \in Nat /\ DOMAIN codes2 = 1 .. n + 1
      /\ codes2 # <<>> /\ Last(codes2) = new /\ codes2[n + 1] = new
      /\ \A i \in 1 .. n : codes2[i] = codes[i]
      /\ ToSet(codes2) = ToSet(codes) \cup {new}
  <2>1. Extends(codes2, codes, new)
    BY GrownSamples
  <2> HIDE DEF new
  <2>2. QED BY <2>1 DEF Extends
<1>2. \A i \in 1 .. n : codes[i][1] \in Nat
  BY <1>1, SamplesTyped
<1>3. n # 0 => n \in 1 .. n /\ Last(codes) = codes[n] /\ codes # <<>>
  BY DEF Last, SampleLists
<1>4. codes # <<>> => n # 0
  BY DEF SampleLists
<1> HIDE DEF n
<1>5. \A i \in 1 .. n + 1 : i \in 1 .. n \/ i = n + 1
  BY <1>1
<1>6. \A i \in 1 .. n : codes[i][1] < time
  <2>1. SUFFICES ASSUME NEW i \in 1 .. n PROVE codes[i][1] < time
    OBVIOUS
  <2>2. n # 0 /\ n \in 1 .. n /\ codes[n][1] < time
    BY <1>1, <1>3, <2>1
  <2>3. i = n \/ i < n
    BY <1>1, <2>1
  <2>4. i < n => codes[i][1] < codes[n][1]
    BY <1>1, <2>1, <2>2 DEF Recorded, Ascending
  <2>5. QED BY <1>2, <2>1, <2>2, <2>3, <2>4
<1>7. Ascending(codes2)
  <2>1. SUFFICES ASSUME NEW i \in 1 .. n + 1, NEW j \in 1 .. n + 1, i < j
                 PROVE  codes2[i][1] < codes2[j][1]
    BY <1>1 DEF Ascending
  <2>2. i \in 1 .. n
    BY <1>1, <2>1
  <2>3. CASE j = n + 1
    BY <1>1, <1>6, <2>2, <2>3
  <2>4. CASE j \in 1 .. n
    BY <1>1, <2>1, <2>2, <2>4 DEF Recorded, Ascending
  <2>5. QED BY <1>5, <2>3, <2>4
<1>8. \A i \in DOMAIN codes2 : start <= codes2[i][1] /\ codes2[i][1] <= time
  <2>1. new[1] = time
    OBVIOUS
  <2>2. \A i \in 1 .. n : start <= codes[i][1] /\ codes[i][1] <= time
    BY <1>1 DEF Recorded
  <2> HIDE DEF new
  <2>3. QED BY <1>1, <1>5, <2>1, <2>2
<1>9. \A k \in 1 .. n : Repeats(codes, k) => Repeats(codes2, k)
  <2>1. SUFFICES ASSUME NEW k \in 1 .. n, Repeats(codes, k) PROVE Repeats(codes2, k)
    OBVIOUS
  <2>2. k - 1 \in 1 .. n
    BY <1>1, <2>1 DEF Repeats
  <2>3. QED BY <1>1, <2>1, <2>2 DEF Repeats
<1>10. CASE Last(states)[2] = v
  <2>1. states2 = states /\ v # None
    BY <1>10
  <2>2. codes # <<>> /\ Last(codes)[2] = v /\ n # 0
    BY <1>4, <1>10, <2>1 DEF Recorded
  <2>3. Repeats(codes2, n + 1)
    <3>1. n \in 1 .. n /\ codes2[n] = codes[n] /\ codes[n][2] = v /\ n + 1 > 1 /\ (n + 1) - 1 = n
      BY <1>1, <1>3, <2>2
    <3>2. codes2[n + 1][2] = v
      BY <1>1
    <3>3. QED BY <3>1, <3>2 DEF Repeats
  <2>4. \A k \in DOMAIN codes2 : codes2[k] \in Hist(states2, start) \/ Repeats(codes2, k)
    <3>1. \A k \in 1 .. n : codes[k] \in Hist(states, start) \/ Repeats(codes, k)
      BY <1>1 DEF Recorded
    <3>2. QED BY <1>1, <1>5, <1>9, <2>1, <2>3, <3>1
  <2>5. Hist(states2, start) \subseteq ToSet(codes2)
    BY <1>1, <2>1 DEF Recorded
  <2>6. Last(states2)[2] \in {None, Last(codes2)[2]}
    BY <1>1, <1>10, <2>1
  <2>7. QED BY <1>1, <1>7, <1>8, <2>4, <2>5, <2>6 DEF Recorded
<1>11. CASE Last(states)[2] # v
  <2>1. states2 = Append(states, new)
    BY <1>11
  <2>2. states2 \in StateLists /\ states2 # <<>> /\ Last(states2) = new
    <3>1. new \in Nat \X (Nat \cup {None})
      OBVIOUS
    <3> HIDE DEF new
    <3>2. Extends(states2, states, new) /\ states2 \in StateLists
      BY <2>1, <3>1, GrownStates
    <3>3. QED BY <3>2 DEF Extends
  <2>3. new \in Nat \X (Nat \cup {None}) /\ new[1] = time /\ new[2] = v /\ v # None
    OBVIOUS
  <2>4. Last(states2)[2] \in {None, Last(codes2)[2]}
    BY <1>1, <2>2
  <2>5. CASE start < time
    <3>1. Hist(states2, start) = Hist(states, start) \cup {new}
      <4> HIDE DEF new
      <4>1. Hist(states2, start) = Hist(states, start) \cup (IF new[2] = None THEN {} ELSE {new})
        <5>1. start < new[1]
          BY <2>3, <2>5
        <5>2. Hist(Append(states, new), start) = Hist(states, start) \cup (IF new[2] = None THEN {} ELSE {new})
          BY <2>3, <5>1, HistoryGrows
        <5>3. QED BY <2>1, <5>2
      <4>2. QED BY <2>3, <4>1
    <3>2. Hist(states2, start) \subseteq ToSet(codes2)
      BY <1>1, <3>1 DEF Recorded
    <3>3. \A k \in DOMAIN codes2 : codes2[k] \in Hist(states2, start) \/ Repeats(codes2, k)
      <4>1. \A k \in 1 .. n : codes[k] \in Hist(states, start) \/ Repeats(codes, k)
        BY <1>1 DEF Recorded
      <4> HIDE DEF new
      <4>2. QED BY <1>1, <1>5, <1>9, <3>1, <4>1
    <3>4. QED BY <1>1, <1>7, <1>8, <2>4, <3>2, <3>3 DEF Recorded
  <2>6. CASE start = time
    <3>1. n = 0
      <4>1. SUFFICES ASSUME n # 0 PROVE FALSE
        OBVIOUS
      <4>2. n \in 1 .. n /\ codes[n][1] < time /\ start <= codes[n][1] /\ codes[n][1] \in Nat
        BY <1>1, <1>2, <1>3, <1>6, <4>1 DEF Recorded
      <4>3. QED BY <2>6, <4>2
    <3>2. DOMAIN codes2 = {1} /\ codes2[1] = new
      BY <1>1, <3>1
    <3>3. UpToTime(states2, start)
      <4>1. /\ DOMAIN states = 1 .. Len(states) /\ Len(states) \in Nat
            /\ DOMAIN states2 = 1 .. Len(states) + 1 /\ states2[Len(states) + 1] = new
            /\ \A i \in 1 .. Len(states) : states2[i] = states[i]
        <5>1. Extends(states2, states, new)
          BY <2>1, GrownStates
        <5> HIDE DEF new
        <5>2. QED BY <5>1 DEF Extends
      <4>2. \A i \in 1 .. Len(states) + 1 : i \in 1 .. Len(states) \/ i = Len(states) + 1
        BY <4>1
      <4>3. \A i \in 1 .. Len(states) : states[i][1] <= time
        BY <4>1 DEF UpToTime
      <4>4. time <= time
        OBVIOUS
      <4> HIDE DEF new
      <4>5. QED BY <2>3, <2>6, <4>1, <4>2, <4>3, <4>4 DEF UpToTime
    <3>4. Hist(states2, start) = IF Last(states2)[2] = None THEN {} ELSE {<<start, Last(states2)[2]>>}
      BY <2>2, <3>3, HistoryIsLast
    <3>5. Hist(states2, start) = {new}
      BY <2>2, <2>3, <2>6, <3>4
    <3>6. Hist(states2, start) \subseteq ToSet(codes2)
      BY <1>1, <3>5
    <3>7. \A k \in DOMAIN codes2 : codes2[k] \in Hist(states2, start) \/ Repeats(codes2, k)
      <4> HIDE DEF new
      <4>1. QED BY <3>2, <3>5
    <3>8. QED BY <1>1, <1>7, <1>8, <2>4, <3>6, <3>7 DEF Recorded
  <2>7. QED BY <2>5, <2>6
<1>12. QED BY <1>10, <1>11

-----------------------------------------------------------------------------
(* What is read of the recorder at the end of a session.                   *)
LEMMA Joined ==
    ASSUME NEW S, NEW a \in Seq(S), NEW b \in Seq(S)
    PROVE  a \o b \in Seq(S) /\ ToSet(a \o b) = ToSet(a) \cup ToSet(b)
<1> DEFINE m == Len(a)
           n == Len(b)
           both == a \o b
<1>1. /\ both \in Seq(S) /\ DOMAIN both = 1 .. m + n /\ DOMAIN a = 1 .. m /\ DOMAIN b = 1 .. n
      /\ m \in Nat /\ n \in Nat
      /\ \A i \in 1 .. m + n : both[i] = IF i <= m THEN a[i] ELSE b[i - m]
  OBVIOUS
<1> HIDE DEF m, n, both
<1>2. \A i \in 1 .. m + n : both[i] \in ToSet(a) \cup ToSet(b)
  <2>1. SUFFICES ASSUME NEW i \in 1 .. m + n PROVE both[i] \in ToSet(a) \cup ToSet(b)
    OBVIOUS
  <2>2. CASE i <= m
    <3>1. i \in 1 .. m /\ both[i] = a[i]
      BY <1>1, <2>1, <2>2
    <3>2. QED BY <1>1, <3>1 DEF ToSet
  <2>3. CASE ~(i <= m)
    <3>1. i - m \in 1 .. n /\ both[i] = b[i - m]
      BY <1>1, <2>1, <2>3
    <3>2. QED BY <1>1, <3>1 DEF ToSet
  <2>4. QED BY <2>2, <2>3
<1>3. \A i \in 1 .. m : a[i] \in ToSet(both)
  <2>1. \A i \in 1 .. m : i \in 1 .. m + n /\ i <= m
    BY <1>1
  <2>2. QED BY <1>1, <2>1 DEF ToSet
<1>4. \A i \in 1 .. n : b[i] \in ToSet(both)
  <2>1. \A i \in 1 .. n : i + m \in 1 .. m + n /\ ~(i + m <= m) /\ (i + m) - m = i
    BY <1>1
  <2>2. \A i \in 1 .. n : both[i + m] = b[i]
    BY <1>1, <2>1
  <2>3. QED BY <1>1, <2>1, <2>2 DEF ToSet
<1>5. QED BY <1>1, <1>2, <1>3, <1>4 DEF ToSet, both

LEMMA ReadsHistory ==
    ASSUME entity \in StateLists, NEW start \in Nat, NEW end \in Nat, UpToTime(entity, end)
    PROVE  /\ ReadHistory(start, end) \in SampleLists
           /\ ToSet(ReadHistory(start, end)) = Hist(entity, start)
<1> DEFINE S == Nat \X (Nat \cup {None})
           before == {i \in DOMAIN entity : entity[i][1] <= start}
           value == entity[Max(before)][2]
           first  == IF before = {} THEN <<>> ELSE <<<<start, value>>>>
           inWindow == {s \in ToSet(entity) : start < s[1] /\ s[1] <= end}
           window == Filtered(entity, inWindow)
           states == first \o window
           known == {s \in ToSet(states) : s[2] # None}
           read == Filtered(states, known)
<1>1. ReadHistory(start, end) = read
  BY DEF ReadHistory
<1>2. entity \in Seq(S) /\ DOMAIN entity = 1 .. Len(entity) /\ Len(entity) \in Nat
      /\ \A i \in DOMAIN entity : entity[i] \in S
  BY DEF StateLists
<1>3. \A i \in DOMAIN entity : entity[i][1] \in Nat /\ entity[i][1] <= end /\ entity[i][2] \in Nat \cup {None}
  BY <1>2 DEF UpToTime
<1>4. before # {} => value \in Nat \cup {None}
  <2>1. before # {} => Max(before) \in before
    <3>1. before \in SUBSET (1 .. Len(entity))
      BY <1>2
    <3> HIDE DEF before
    <3>2. QED BY <1>2, <3>1, PositionsHaveEnds
  <2>2. QED BY <1>3, <2>1
<1>5. inWindow = {s \in ToSet(entity) : start < s[1]}
  <2>1. \A s \in ToSet(entity) : s[1] <= end
    BY <1>3 DEF ToSet
  <2>2. QED BY <2>1
<1>6. first \in Seq(S) /\ ToSet(first) = IF before = {} THEN {} ELSE {<<start, value>>}
  <2> HIDE DEF before, value
  <2>1. CASE before = {}
    <3>1. first = <<>> /\ DOMAIN first = {}
      BY <2>1
    <3>2. QED BY <2>1, <3>1 DEF ToSet
  <2>2. CASE before # {}
    <3>1. first = <<<<start, value>>>>
      BY <2>2
    <3>2. <<start, value>> \in S
      BY <1>4, <2>2
    <3> DEFINE e == <<start, value>>
    <3> HIDE DEF e, S, first
    <3>3. first = <<e>>
      BY <3>1 DEF e
    <3>4. DOMAIN first = 1 .. 1 /\ first[1] = e
      BY <3>3
    <3>5. 1 .. 1 = {1}
      OBVIOUS
    <3>6. ToSet(first) = {e}
      BY <3>4, <3>5 DEF ToSet
    <3>7. first \in Seq(S)
      BY <3>2, <3>3 DEF e
    <3>8. QED BY <2>2, <3>6, <3>7 DEF e
  <2>3. QED BY <2>1, <2>2
<1> HIDE DEF S, before, value, first
<1>7. window \in Seq(S) /\ ToSet(window) = ToSet(entity) \cap inWindow
  BY <1>2, FilteredSet
<1> HIDE DEF window
<1>8. states \in Seq(S) /\ ToSet(states) = ToSet(first) \cup ToSet(window)
  BY <1>6, <1>7, Joined
<1> HIDE DEF states
<1>9. read \in Seq(S) /\ ToSet(read) = ToSet(states) \cap known
  BY <1>8, FilteredSet
<1>10. ToSet(read) = Hist(entity, start)
  <2>1. ToSet(read) = {s \in ToSet(first) \cup {s \in ToSet(entity) : start < s[1]} : s[2] # None}
    <3>1. ToSet(window) = {s \in ToSet(entity) : start < s[1]}
      BY <1>5, <1>7
    <3> HIDE DEF inWindow
    <3>2. QED BY <1>8, <1>9, <3>1
  <2>2. {s \in ToSet(first) : s[2] # None} = IF before = {} \/ value = None THEN {} ELSE {<<start, value>>}
    BY <1>6
  <2>3. Hist(entity, start) = {s \in ToSet(entity) : start < s[1] /\ s[2] # None}
                                  \cup (IF before = {} \/ value = None THEN {} ELSE {<<start, value>>})
    BY DEF Hist, Before, before, value
  <2> HIDE DEF read, known
  <2>4. QED BY <2>1, <2>2, <2>3
<1>11. read \in SampleLists
  <2>1. \A i \in DOMAIN read : read[i] \in S /\ read[i] \in ToSet(read)
    <3> HIDE DEF read
    <3>1. QED BY <1>9 DEF ToSet
  <2>2. \A s \in ToSet(read) : s[2] # None
    BY <1>9
  <2> HIDE DEF read
  <2>3. \A i \in DOMAIN read : read[i] \in Nat \X Nat
    BY <2>1, <2>2 DEF S
  <2>4. read \in [1 .. Len(read) -> Nat \X Nat] /\ Len(read) \in Nat
    <3>1. read \in [1 .. Len(read) -> S] /\ Len(read) \in Nat /\ DOMAIN read = 1 .. Len(read)
      BY <1>9
    <3>2. QED BY <2>3, <3>1
  <2>5. QED BY <2>4 DEF SampleLists
<1>12. QED BY <1>1, <1>10, <1>11

LEMMA MergedHasBoth ==
    ASSUME NEW a \in SampleLists, NEW b \in SampleLists
    PROVE  /\ MergeSamples(a, b) \in SampleLists /\ InOrder(MergeSamples(a, b))
           /\ ToSet(MergeSamples(a, b)) = ToSet(a) \cup ToSet(b)
<1> DEFINE S == Nat \X Nat
           new == ToSet(b) \ ToSet(a)
           added == Filtered(b, new)
<1>1. a \in Seq(S) /\ b \in Seq(S)
  BY DEF SampleLists
<1> HIDE DEF S, new
<1>2. added \in Seq(S) /\ ToSet(added) = ToSet(b) \cap new
  BY <1>1, FilteredSet
<1> HIDE DEF added
<1>3. a \o added \in Seq(S) /\ ToSet(a \o added) = ToSet(a) \cup ToSet(added)
  BY <1>1, <1>2, Joined
<1>4. a \o added \in SampleLists
  BY <1>3 DEF SampleLists, S
<1>5. MergeSamples(a, b) = ByTime(a \o added)
  BY DEF MergeSamples, added, new
<1>6. /\ MergeSamples(a, b) \in SampleLists /\ InOrder(MergeSamples(a, b))
      /\ ToSet(MergeSamples(a, b)) = ToSet(a \o added)
  BY <1>4, <1>5, ByTimeSorts
<1>7. QED BY <1>2, <1>3, <1>6 DEF new

(* The smoothed track has the points of the track.                         *)
LEMMA ClassifyKeepsPoints ==
    ASSUME NEW track \in Seq(TrackPoints)
    PROVE  ClassifyTrack(track) \in Seq(TrackPoints)
<1> DEFINE n == Len(track)
           roles0 == [i \in DOMAIN track |-> track[i].role]
           roles == SmoothOnce(SmoothOnce(SmoothOnce(roles0)))
<1>1. n \in Nat /\ DOMAIN track = 1 .. n /\ \A i \in 1 .. n : track[i] \in TrackPoints
  OBVIOUS
<1> HIDE DEF n
<1>2. \A p \in TrackPoints : p.role \in Roles /\ \A r \in Roles : [p EXCEPT !.role = r] \in TrackPoints
  BY DEF TrackPoints
<1>3. roles0 \in [1 .. n -> Roles]
  BY <1>1, <1>2
<1>4. ASSUME NEW r \in [1 .. n -> Roles] PROVE SmoothOnce(r) \in [1 .. n -> Roles]
  <2>1. Len(r) = n
    BY <1>1
  <2>2. \A i \in 2 .. n - 1 : i - 1 \in 1 .. n
    BY <1>1
  <2>3. QED BY <2>1, <2>2 DEF SmoothOnce
<1> HIDE DEF roles0
<1>5. roles \in [1 .. n -> Roles]
  BY <1>3, <1>4
<1> HIDE DEF roles
<1>6. ClassifyTrack(track) = [i \in 1 .. n |-> [track[i] EXCEPT !.role = roles[i]]]
  BY <1>1 DEF ClassifyTrack, roles, roles0
<1>7. ClassifyTrack(track) \in [1 .. n -> TrackPoints]
  BY <1>1, <1>2, <1>5, <1>6
<1>8. QED BY <1>1, <1>7
-----------------------------------------------------------------------------
(***************************************************************************)
(* The steps of a session's records.                                       *)
(***************************************************************************)
LEMMA LiveMapFields ==
    ASSUME NEW map \in LiveMaps
    PROVE  map.start \in Nat /\ map.track \in Seq(TrackPoints) /\ map.samples \in [Streams -> SampleLists]
  BY DEF LiveMaps, SampleLists

(* What a map keeps, it keeps later too.                                   *)
LEMMA KeepsLater ==
    ASSUME NEW map, NEW codes, NEW time \in Nat, Keeps(map, codes, time), NEW time2 \in Nat, time <= time2,
           NEW codes2, ToSet(codes) \subseteq ToSet(codes2)
    PROVE  Keeps(map, codes2, time2)
<1>1. map \in LiveMaps /\ map.start \in Nat /\ map.samples \in [Streams -> SampleLists]
  BY LiveMapFields DEF Keeps
<1>2. map.start <= time2
  BY <1>1 DEF Keeps
<1>3. ASSUME NEW s \in Streams PROVE UpToTime(map.samples[s], time2)
  <2>1. map.samples[s] \in SampleLists /\ UpToTime(map.samples[s], time)
    BY <1>1 DEF Keeps
  <2>2. \A i \in DOMAIN map.samples[s] : map.samples[s][i][1] \in Nat
    BY <2>1, SamplesTyped
  <2>3. QED BY <2>1, <2>2 DEF UpToTime
<1>4. QED BY <1>1, <1>2, <1>3 DEF Keeps

(* A point has the role of the area that it adds.                          *)
LEMMA PointKeeps ==
    ASSUME NEW map, NEW codes, now \in Nat, Keeps(map, codes, now), NEW x \in Int, NEW mown \in {0, 1}
    PROVE  Keeps([map EXCEPT !.track = AppendPoint(map.track, x, LastArea(map.track) + mown)], codes, now)
<1> DEFINE track == map.track
           n == Len(track)
           area == LastArea(track) + mown
           p == [t |-> now, x |-> x, area |-> area,
                 role |-> IF area > LastArea(track) THEN "mowing" ELSE "traversal"]
           more == AppendPoint(track, x, area)
           next == [map EXCEPT !.track = more]
<1>1. map \in LiveMaps /\ track \in Seq(TrackPoints) /\ TrueRoles(track)
  BY LiveMapFields DEF Keeps
<1>2. /\ DOMAIN track = 1 .. n /\ n \in Nat /\ (track = <<>> <=> n = 0)
      /\ n # 0 => Last(track) = track[n] /\ n \in 1 .. n
      /\ \A i \in 1 .. n : track[i].area \in Nat
  <2>1. \A i \in 1 .. n : track[i] \in TrackPoints
    BY <1>1
  <2>2. \A q \in TrackPoints : q.area \in Nat
    BY DEF TrackPoints
  <2> HIDE DEF track
  <2>3. QED BY <1>1, <2>1, <2>2 DEF Last
<1>3. LastArea(track) = (IF n = 0 THEN 0 ELSE track[n].area) /\ LastArea(track) \in Nat
  BY <1>2 DEF LastArea
<1>4. p \in TrackPoints
  BY <1>3 DEF TrackPoints, Roles
<1>5. more = track \/ more = Append(track, p)
  BY DEF AppendPoint
<1>6. more \in Seq(TrackPoints) /\ TrueRoles(more)
  <2>1. CASE more = track
    BY <1>1, <2>1
  <2>2. CASE more = Append(track, p)
    <3>1. /\ more \in Seq(TrackPoints) /\ DOMAIN more = 1 .. n + 1 /\ more[n + 1] = p
          /\ \A i \in 1 .. n : more[i] = track[i]
      <4> HIDE DEF p, track, more
      <4>1. Extends(Append(track, p), track, p) /\ Append(track, p) \in Seq(TrackPoints)
        BY <1>1, <1>4, Grown
      <4>2. QED BY <2>2, <4>1 DEF Extends
    <3>2. p.role = "mowing" <=> p.area > LastArea(track)
      OBVIOUS
    <3> HIDE DEF p, track, more
    <3>3. ASSUME NEW i \in 1 .. n + 1
          PROVE  more[i].role = "mowing" <=> more[i].area > (IF i = 1 THEN 0 ELSE more[i - 1].area)
      <4>1. CASE i \in 1 .. n
        <5>1. i # 1 => i - 1 \in 1 .. n
          BY <1>2, <4>1
        <5>2. track[i].role = "mowing" <=> track[i].area > (IF i = 1 THEN 0 ELSE track[i - 1].area)
          BY <1>1, <1>2, <4>1 DEF TrueRoles
        <5>3. QED BY <3>1, <4>1, <5>1, <5>2
      <4>2. CASE i = n + 1
        <5>1. LastArea(track) = IF i = 1 THEN 0 ELSE more[i - 1].area
          <6>1. n # 0 => more[i - 1] = track[n] /\ i # 1
            BY <1>2, <3>1, <4>2
          <6>2. n = 0 => i = 1
            BY <4>2
          <6>3. QED BY <1>3, <6>1, <6>2
        <5>2. QED BY <3>1, <3>2, <4>2, <5>1
      <4>3. QED BY <1>2, <4>1, <4>2
    <3>4. QED BY <3>1, <3>3 DEF TrueRoles
  <2>3. QED BY <1>5, <2>1, <2>2
<1> HIDE DEF more
<1>7. /\ next \in LiveMaps /\ next.start = map.start /\ next.samples = map.samples /\ next.track = more
  BY <1>1, <1>6 DEF LiveMaps
<1> HIDE DEF next
<1>8. Keeps(next, codes, now)
  BY <1>6, <1>7 DEF Keeps
<1>9. QED BY <1>8 DEF next, more

(* A sample that is new in memory is one of those that were pushed.        *)
LEMMA SampleKeeps ==
    ASSUME NEW map, NEW codes, now \in Nat, Keeps(map, codes, now), NEW s \in Streams, NEW v \in Nat,
           NEW codes2, ToSet(codes) \subseteq ToSet(codes2),
           s = "error_samples" => <<now, v>> \in ToSet(codes2)
    PROVE  Keeps([map EXCEPT !.samples[s] = AppendTelemetrySample(map.samples[s], v)], codes2, now)
<1> DEFINE list == map.samples[s]
           e == <<now, v>>
           more == AppendTelemetrySample(list, v)
           next == [map EXCEPT !.samples[s] = more]
<1>1. /\ map \in LiveMaps /\ map.samples \in [Streams -> SampleLists] /\ list \in SampleLists
      /\ InOrder(list) /\ UpToTime(list, now)
  BY LiveMapFields DEF Keeps
<1>2. e \in Nat \X Nat /\ e[1] = now
  OBVIOUS
<1>3. more = list \/ more = Append(list, e)
  BY DEF AppendTelemetrySample
<1>4. /\ more \in SampleLists /\ InOrder(more) /\ UpToTime(more, now)
      /\ ToSet(more) \subseteq ToSet(list) \cup {e}
  <2> HIDE DEF list, e, more
  <2>1. CASE more = list
    BY <1>1, <2>1
  <2>2. CASE more = Append(list, e)
    <3>1. Extends(Append(list, e), list, e) /\ Append(list, e) \in SampleLists
      BY <1>1, <1>2, GrownSamples
    <3>2. InOrder(Append(list, e)) /\ UpToTime(Append(list, e), e[1])
      <4>1. now <= e[1]
        BY <1>2
      <4>2. QED BY <1>1, <1>2, <4>1, GrownInOrder
    <3>3. QED BY <1>2, <2>2, <3>1, <3>2 DEF Extends
  <2>3. QED BY <1>3, <2>1, <2>2
<1> HIDE DEF more
<1>5. /\ next \in LiveMaps /\ next.start = map.start /\ next.track = map.track
      /\ next.samples[s] = more
      /\ \A r \in Streams \ {s} : next.samples[r] = map.samples[r]
  BY <1>1, <1>4 DEF LiveMaps, SampleLists
<1> HIDE DEF next
<1>6. ToSet(next.samples["error_samples"]) \subseteq ToSet(codes2)
  <2>1. "error_samples" \in Streams /\ ToSet(map.samples["error_samples"]) \subseteq ToSet(codes)
    BY DEF Streams, Keeps
  <2>2. CASE s = "error_samples"
    BY <1>4, <1>5, <2>1, <2>2
  <2>3. CASE s # "error_samples"
    BY <1>5, <2>1, <2>3
  <2>4. QED BY <2>2, <2>3
<1>7. ASSUME NEW r \in Streams PROVE InOrder(next.samples[r]) /\ UpToTime(next.samples[r], now)
  <2>1. CASE r = s
    BY <1>4, <1>5, <2>1
  <2>2. CASE r # s
    BY <1>5, <2>2 DEF Keeps
  <2>3. QED BY <2>1, <2>2
<1>8. Keeps(next, codes2, now)
  BY <1>5, <1>6, <1>7 DEF Keeps
<1>9. QED BY <1>8 DEF next, more, list

(* Time passes; Home Assistant restarts.                                   *)
LEMMA RecordedLater ==
    ASSUME NEW codes \in SampleLists, NEW states, NEW start \in Nat, NEW time \in Nat,
           Recorded(codes, states, start, time)
    PROVE  Recorded(codes, states, start, time + 1)
<1>1. \A i \in DOMAIN codes : codes[i][1] \in Nat
  BY SamplesTyped
<1>2. \A i \in DOMAIN codes : start <= codes[i][1] /\ codes[i][1] <= time + 1
  BY <1>1 DEF Recorded
<1>3. QED BY <1>2 DEF Recorded

LEMMA RecordedAtReboot ==
    ASSUME NEW codes \in SampleLists, NEW states \in StateLists, NEW start \in Nat, NEW time \in Nat,
           start <= time, Recorded(codes, states, start, time)
    PROVE  Recorded(codes, Append(states, <<time + 1, None>>), start, time + 1)
<1> DEFINE e == <<time + 1, None>>
           more == Append(states, e)
<1>1. e \in Nat \X (Nat \cup {None}) /\ e[1] = time + 1 /\ e[2] = None /\ start < e[1]
  OBVIOUS
<1>2. Recorded(codes, states, start, time + 1)
  BY RecordedLater
<1> HIDE DEF e
<1>3. Hist(more, start) = Hist(states, start)
  <2>1. Hist(more, start) = Hist(states, start) \cup (IF e[2] = None THEN {} ELSE {e})
    BY <1>1, HistoryGrows
  <2>2. QED BY <1>1, <2>1
<1>4. Last(more)[2] = None
  <2>1. Extends(more, states, e)
    BY GrownStates
  <2>2. QED BY <1>1, <2>1 DEF Extends
<1>5. Recorded(codes, more, start, time + 1)
  BY <1>2, <1>3, <1>4 DEF Recorded
<1>6. QED BY <1>5 DEF e

(* What is archived: the merge has what the file had lost, and repeats     *)
(* aside it is what was told.                                              *)
LEMMA FinishIsTold ==
    ASSUME TracksAssumption, TracksInv, Finish
    PROVE  TimesAreTold' /\ LegsAddUp'
<1> DEFINE start == live.start
           codes == told["error_samples"]
           history == ReadHistory(start, now)
           merged == MergeSamples(live.samples["error_samples"], history)
           states == live.samples["state_samples"]
<1>1. /\ live \in LiveMaps /\ start \in Nat /\ start <= now /\ now \in Nat
      /\ live.track \in Seq(TrackPoints) /\ live.samples \in [Streams -> SampleLists]
      /\ codes \in SampleLists /\ entity \in StateLists /\ UpToTime(entity, now)
      /\ Recorded(codes, entity, start, now)
      /\ ToSet(live.samples["error_samples"]) \subseteq ToSet(codes)
  <2>1. live # None
    BY DEF Finish
  <2>2. "error_samples" \in Streams
    BY DEF Streams
  <2>3. Keeps(live, codes, now)
    BY <2>1 DEF TracksInv
  <2>4. live \in LiveMaps
    BY <2>3 DEF Keeps
  <2>5. QED BY <2>1, <2>2, <2>3, <2>4, LiveMapFields DEF TracksInv, Keeps
<1>2. /\ states \in SampleLists /\ InOrder(states)
      /\ live.samples["error_samples"] \in SampleLists
  <2>1. "error_samples" \in Streams /\ "state_samples" \in Streams
    BY DEF Streams
  <2>2. live # None
    BY DEF Finish
  <2>3. Keeps(live, codes, now)
    BY <2>2 DEF TracksInv
  <2>4. QED BY <1>1, <2>1, <2>3 DEF Keeps
<1>3. history \in SampleLists /\ ToSet(history) = Hist(entity, start)
  BY <1>1, ReadsHistory
<1>4. /\ merged \in SampleLists /\ InOrder(merged)
      /\ ToSet(merged) = ToSet(live.samples["error_samples"]) \cup Hist(entity, start)
  <2> HIDE DEF history
  <2>1. QED BY <1>2, <1>3, MergedHasBoth
<1> HIDE DEF history
<1>5. /\ raw'.start = start /\ raw'.end = now /\ raw'.track = ClassifyTrack(live.track)
      /\ raw'.samples["error_samples"] = merged /\ raw'.samples["state_samples"] = states
  <2>1. "error_samples" \in Streams /\ "state_samples" \in Streams
    BY DEF Streams
  <2>2. QED BY <1>1, <2>1 DEF Finish, history
<1>6. told' = told /\ live' = None
  BY DEF Finish
<1> HIDE DEF merged, states, start
<1>7. ToSet(merged) \subseteq ToSet(codes)
  BY <1>1, <1>4 DEF Recorded
<1>8. \A t \in Int : ValueAt(merged, t) = ValueAt(codes, t)
  <2>1. \A k \in DOMAIN codes : codes[k] \in ToSet(merged) \/ (k > 1 /\ codes[k - 1][2] = codes[k][2])
    BY <1>1, <1>4 DEF Recorded, Repeats
  <2>2. Ascending(codes)
    BY <1>1 DEF Recorded
  <2> HIDE DEF codes
  <2>3. QED BY <1>1, <1>4, <1>7, <2>1, <2>2, SameValues
<1>9. \A i \in DOMAIN merged : start <= merged[i][1]
  <2>1. SUFFICES ASSUME NEW i \in DOMAIN merged PROVE start <= merged[i][1]
    OBVIOUS
  <2>2. merged[i] \in ToSet(codes)
    BY <1>7 DEF ToSet
  <2>3. PICK k \in DOMAIN codes : merged[i] = codes[k]
    BY <2>2 DEF ToSet
  <2>4. start <= codes[k][1]
    BY <1>1 DEF Recorded
  <2>5. QED BY <2>3, <2>4
<1>10. TimesAreTold'
  <2> DEFINE samples == raw'.samples
  <2>1. samples["error_samples"] = merged /\ samples["state_samples"] = states
    BY <1>5
  <2> HIDE DEF samples
  <2>2. TimesOf(samples, samples["error_samples"], start, now)
    <3>1. /\ samples["error_samples"] \in SampleLists /\ InOrder(samples["error_samples"])
          /\ \A i \in DOMAIN samples["error_samples"] : start <= samples["error_samples"][i][1]
          /\ samples["state_samples"] \in SampleLists /\ InOrder(samples["state_samples"])
      BY <1>2, <1>4, <1>9, <2>1
    <3>2. QED BY <1>1, <3>1, MinutesAreTrue
  <2>3. {t \in start .. now - 1 : ValueAt(merged, t) = RAIN} = {t \in start .. now - 1 : ValueAt(codes, t) = RAIN}
    <3>1. start .. now - 1 \subseteq Int
      BY <1>1
    <3>2. QED BY <1>8, <3>1
  <2>4. TimesOf(samples, codes, start, now)
    BY <2>1, <2>2, <2>3 DEF TimesOf
  <2>5. QED BY <1>5, <1>6, <2>4 DEF TimesAreTold, TimesOf, samples
<1>11. LegsAddUp'
  <2>1. raw'.track \in Seq(TrackPoints)
    BY <1>1, <1>5, ClassifyKeepsPoints
  <2> DEFINE track == raw'.track
             legs == DeriveRenderLegs(track)
             long == [leg \in legs |-> SumFunctionOnSet(Way(track), leg.from + 1 .. leg.to)]
  <2>2. \A role \in Roles :
            SumFunctionOnSet(long, {leg \in legs : leg.role = role}) = ComputeTrackDistances(track)[role]
    <3> HIDE DEF track
    <3>1. track \in Seq(TrackPoints)
      BY <2>1 DEF track
    <3>2. QED BY <3>1, LegsMeasureUp
  <2>3. QED BY <1>6, <2>2 DEF LegsAddUp
<1>12. QED BY <1>10, <1>11

(* The properties of the archived session stay with it.                    *)
LEMMA ArchivedStays ==
    ASSUME TracksInv, raw' = raw, raw # None => told' = told,
           live' # None => TrueRoles(live'.track)
    PROVE  TimesAreTold' /\ LegsAddUp'
<1>1. TimesAreTold'
  BY DEF TracksInv, TimesAreTold
<1>2. LegsAddUp'
  BY DEF TracksInv, LegsAddUp, TrueRoles
<1>3. QED BY <1>1, <1>2

(***************************************************************************)
(* The invariant holds at first, and every step keeps it.                  *)
(***************************************************************************)
LEMMA TracksStart ==
    ASSUME TracksAssumption, TracksInit
    PROVE  TracksInv
<1>1. NoSamples \in [Streams -> SampleLists]
  BY DEF NoSamples, SampleLists
<1>2. entity \in StateLists /\ entity # <<>> /\ DOMAIN entity = {1} /\ entity[1][1] = 0
  <2>1. PICK v \in {None, 0, RAIN} : entity = <<<<0, v>>>>
    BY DEF TracksInit
  <2>2. <<0, v>> \in Nat \X (Nat \cup {None})
    BY DEF RAIN
  <2>3. DOMAIN entity = 1 .. 1 /\ entity # <<>> /\ entity[1] = <<0, v>>
    BY <2>1
  <2>4. 1 .. 1 = {1}
    OBVIOUS
  <2>5. entity \in StateLists
    BY <2>1, <2>2 DEF StateLists
  <2>6. QED BY <2>3, <2>4, <2>5
<1>3. now = 1 /\ live = None /\ disk = None /\ told = NoSamples /\ raw = None
  BY DEF TracksInit
<1>4. InOrder(entity) /\ UpToTime(entity, now)
  BY <1>2, <1>3 DEF InOrder, UpToTime
<1>5. QED BY <1>1, <1>2, <1>3, <1>4 DEF TracksInv, TimesAreTold, LegsAddUp

LEMMA TracksStep ==
    ASSUME TracksAssumption, TracksInv, [TracksNext]_tracks
    PROVE  TracksInv'
<1> DEFINE codes == told["error_samples"]
<1>1. /\ now \in Nat /\ told \in [Streams -> SampleLists] /\ codes \in SampleLists
      /\ entity \in StateLists /\ entity # <<>> /\ InOrder(entity) /\ UpToTime(entity, now)
      /\ None \notin LiveMaps /\ None \notin Nat
      /\ "error_samples" \in Streams /\ "state_samples" \in Streams
  BY DEF TracksInv, TracksAssumption, Streams
<1>2. ASSUME live # None
      PROVE  /\ Keeps(live, codes, now) /\ Recorded(codes, entity, live.start, now)
             /\ live \in LiveMaps /\ live.start \in Nat /\ live.start <= now /\ raw = None
  <2>1. /\ Keeps(live, codes, now) /\ Recorded(codes, entity, live.start, now)
        /\ live \in LiveMaps /\ live.start <= now /\ raw = None
    BY <1>2 DEF TracksInv, Keeps
  <2>2. QED BY <2>1, LiveMapFields
<1>3. ASSUME disk # None
      PROVE  live # None /\ disk.start = live.start /\ Keeps(disk, codes, now) /\ raw = None
  BY <1>3 DEF TracksInv
<1>4. CASE Begin
  <2> DEFINE map == [start |-> now, track |-> <<>>, samples |-> NoSamples]
             codes2 == IF Last(entity)[2] = None THEN <<>> ELSE <<<<now, Last(entity)[2]>>>>
  <2>1. /\ live = None /\ raw = None /\ live' = map /\ disk' = None /\ entity' = entity /\ raw' = None /\ now' = now
    BY <1>3, <1>4 DEF Begin
  <2>2. Recorded(codes2, entity, now, now) /\ codes2 \in SampleLists
    <3> HIDE DEF codes2
    <3>1. codes2 = IF Last(entity)[2] = None THEN <<>> ELSE <<<<now, Last(entity)[2]>>>>
      BY DEF codes2
    <3>2. QED BY <1>1, <3>1, RecordedAtBegin
  <2>3. NoSamples \in [Streams -> SampleLists] /\ \A s \in Streams : NoSamples[s] = <<>>
    BY DEF NoSamples, SampleLists
  <2>4. told' \in [Streams -> SampleLists] /\ told'["error_samples"] = codes2
    <3>1. told' = [NoSamples EXCEPT !["error_samples"] = codes2]
      BY <1>4 DEF Begin
    <3> HIDE DEF codes2
    <3>2. QED BY <1>1, <2>2, <2>3, <3>1
  <2> HIDE DEF codes2
  <2>5. map \in LiveMaps
    BY <1>1, <2>3 DEF LiveMaps, SampleLists
  <2>6. Keeps(map, codes2, now)
    <3>1. DOMAIN <<>> = {} /\ ToSet(<<>>) = {}
      BY DEF ToSet
    <3>2. \A s \in Streams : InOrder(map.samples[s]) /\ UpToTime(map.samples[s], now)
      BY <2>3, <3>1 DEF InOrder, UpToTime
    <3>3. map.samples["error_samples"] = <<>> /\ map.track = <<>> /\ map.start = now
      BY <1>1, <2>3
    <3>4. TrueRoles(map.track)
      BY <3>1, <3>3 DEF TrueRoles
    <3> HIDE DEF map
    <3>5. QED BY <1>1, <2>5, <3>1, <3>2, <3>3, <3>4 DEF Keeps
  <2>7. live'.start = now /\ TrueRoles(live'.track)
    BY <2>1, <2>6 DEF Keeps
  <2>8. TimesAreTold' /\ LegsAddUp'
    BY <2>1, <2>7, ArchivedStays
  <2> HIDE DEF map
  <2>9. live' # None
    BY <1>1, <2>1, <2>5
  <2>10. QED BY <1>1, <2>1, <2>2, <2>4, <2>6, <2>7, <2>8, <2>9 DEF TracksInv
<1>5. CASE Tick
  <2>1. now' = now + 1 /\ live' = live /\ disk' = disk /\ told' = told /\ entity' = entity /\ raw' = raw
    BY <1>5 DEF Tick
  <2>2. now + 1 \in Nat /\ now <= now + 1
    BY <1>1
  <2>3. live # None => Keeps(live, codes, now + 1) /\ Recorded(codes, entity, live.start, now + 1)
    BY <1>1, <1>2, <2>2, KeepsLater, RecordedLater
  <2>4. disk # None => Keeps(disk, codes, now + 1)
    BY <1>1, <1>3, <2>2, KeepsLater
  <2>5. UpToTime(entity, now + 1)
    <3>1. \A i \in DOMAIN entity : entity[i][1] \in Nat
      <4>1. \A i \in DOMAIN entity : entity[i] \in Nat \X (Nat \cup {None})
        BY <1>1 DEF StateLists
      <4>2. QED BY <4>1
    <3>2. QED BY <1>1, <3>1 DEF UpToTime
  <2>6. live' # None => TrueRoles(live'.track)
    BY <1>2, <2>1 DEF Keeps
  <2>7. TimesAreTold' /\ LegsAddUp'
    BY <2>1, <2>6, ArchivedStays
  <2>8. QED BY <1>1, <1>2, <1>3, <2>1, <2>2, <2>3, <2>4, <2>5, <2>7 DEF TracksInv
<1>6. CASE Persist
  <2>1. live # None /\ disk' = live /\ now' = now /\ live' = live /\ told' = told /\ entity' = entity /\ raw' = raw
    BY <1>6 DEF Persist
  <2>2. TrueRoles(live'.track)
    BY <1>2, <2>1 DEF Keeps
  <2>3. TimesAreTold' /\ LegsAddUp'
    BY <2>1, <2>2, ArchivedStays
  <2>4. QED BY <1>1, <1>2, <2>1, <2>3 DEF TracksInv
<1>7. CASE Reboot
  <2> DEFINE e == <<now + 1, None>>
  <2>1. now' = now + 1 /\ live' = disk /\ disk' = disk /\ told' = told /\ raw' = raw /\ entity' = Append(entity, e)
    BY <1>7 DEF Reboot
  <2>2. now + 1 \in Nat /\ now <= now + 1
    BY <1>1
  <2>3. e \in Nat \X (Nat \cup {None}) /\ e[1] = now + 1
    BY <1>1
  <2>4. disk # None => Keeps(disk, codes, now + 1) /\ Recorded(codes, Append(entity, e), disk.start, now + 1)
    BY <1>1, <1>2, <1>3, <2>2, KeepsLater, RecordedAtReboot
  <2> HIDE DEF e
  <2>5. entity' \in StateLists /\ entity' # <<>>
    BY <1>1, <2>1, <2>3, GrownStates DEF Extends
  <2>6. InOrder(entity') /\ UpToTime(entity', now + 1)
    BY <1>1, <2>1, <2>2, <2>3, GrownInOrder
  <2>7. live' # None => TrueRoles(live'.track)
    BY <2>1, <2>4 DEF Keeps
  <2>8. TimesAreTold' /\ LegsAddUp'
    BY <2>1, <2>7, ArchivedStays
  <2>9. QED BY <1>1, <1>3, <2>1, <2>2, <2>4, <2>5, <2>6, <2>8 DEF TracksInv
<1>8. CASE Finish
  <2>1. live' = None /\ disk' = None /\ now' = now /\ told' = told /\ entity' = entity
    BY <1>8 DEF Finish
  <2>2. TimesAreTold' /\ LegsAddUp'
    BY <1>8, FinishIsTold
  <2>3. QED BY <1>1, <2>1, <2>2 DEF TracksInv
<1>9. ASSUME NEW x \in Places, NEW mown \in {0, 1}, Point(x, mown) PROVE TracksInv'
  <2> DEFINE map == [live EXCEPT !.track = AppendPoint(live.track, x, LastArea(live.track) + mown)]
  <2>1. live # None /\ live' = map /\ now' = now /\ disk' = disk /\ told' = told /\ entity' = entity /\ raw' = raw
    BY <1>9 DEF Point
  <2>2. Keeps(map, codes, now)
    <3>1. x \in Int
      BY DEF TracksAssumption
    <3>2. QED BY <1>1, <1>2, <2>1, <3>1, PointKeeps
  <2>3. map.start = live.start
    BY <1>2, <2>1 DEF LiveMaps
  <2> HIDE DEF map
  <2>4. map \in LiveMaps /\ map # None /\ TrueRoles(map.track)
    BY <1>1, <2>2 DEF Keeps
  <2>5. TimesAreTold' /\ LegsAddUp'
    BY <2>1, <2>4, ArchivedStays
  <2>6. QED BY <1>1, <1>2, <1>3, <2>1, <2>2, <2>3, <2>4, <2>5 DEF TracksInv
<1>10. ASSUME NEW s \in Streams, NEW v \in Nat, Sample(s, v) PROVE TracksInv'
  <2> DEFINE e == <<now, v>>
             map == [live EXCEPT !.samples[s] = AppendTelemetrySample(live.samples[s], v)]
             states2 == IF s = "error_samples" /\ Last(entity)[2] # v THEN Append(entity, e) ELSE entity
  <2>1. /\ now' = now /\ disk' = disk /\ raw' = raw /\ entity' = states2
        /\ told[s] # <<>> => Last(told[s])[1] < now
        /\ IF live = None THEN live' = live /\ told' = told
           ELSE live' = map /\ told' = [told EXCEPT ![s] = Append(told[s], e)]
    BY <1>10 DEF Sample, Due
  <2>2. e \in Nat \X Nat /\ e \in Nat \X (Nat \cup {None}) /\ e[1] = now /\ now <= e[1]
    BY <1>1
  <2>3. states2 \in StateLists /\ states2 # <<>> /\ InOrder(states2) /\ UpToTime(states2, now)
    <3> HIDE DEF e
    <3>1. Append(entity, e) \in StateLists /\ Append(entity, e) # <<>>
      BY <1>1, <2>2, GrownStates DEF Extends
    <3>2. InOrder(Append(entity, e)) /\ UpToTime(Append(entity, e), e[1])
      BY <1>1, <2>2, GrownInOrder
    <3>3. QED BY <1>1, <2>2, <3>1, <3>2
  <2>4. CASE live = None
    <3>1. live' = None /\ told' = told /\ disk = None
      BY <1>3, <2>1, <2>4
    <3>2. TimesAreTold' /\ LegsAddUp'
      BY <2>1, <3>1, ArchivedStays
    <3> HIDE DEF states2
    <3>3. QED BY <1>1, <2>1, <2>3, <3>1, <3>2 DEF TracksInv
  <2>5. CASE live # None
    <3> DEFINE codes2 == told'["error_samples"]
    <3>1. told' = [told EXCEPT ![s] = Append(told[s], e)] /\ live' = map
      BY <2>1, <2>5
    <3>2. Append(told[s], e) \in SampleLists /\ Extends(Append(told[s], e), told[s], e)
      <4> HIDE DEF e
      <4>1. told[s] \in SampleLists
        BY <1>1
      <4>2. QED BY <2>2, <4>1, GrownSamples
    <3>3. /\ told' \in [Streams -> SampleLists] /\ told'[s] = Append(told[s], e)
          /\ s # "error_samples" => codes2 = codes
      <4> HIDE DEF e
      <4>1. QED BY <1>1, <3>1, <3>2
    <3>4. /\ ToSet(codes) \subseteq ToSet(codes2)
          /\ s = "error_samples" => e \in ToSet(codes2) /\ codes2 = Append(codes, e)
      <4> HIDE DEF e
      <4>1. ToSet(told'[s]) = ToSet(told[s]) \cup {e}
        BY <3>2, <3>3 DEF Extends
      <4>2. CASE s = "error_samples"
        BY <3>3, <4>1, <4>2
      <4>3. CASE s # "error_samples"
        BY <3>3, <4>3
      <4>4. QED BY <4>2, <4>3
    <3>5. Keeps(map, codes2, now)
      BY <1>1, <1>2, <2>5, <3>4, SampleKeeps
    <3>6. map.start = live.start
      BY <1>2, <2>5 DEF LiveMaps
    <3>7. Recorded(codes2, states2, live.start, now)
      <4>1. CASE s = "error_samples"
        <5>1. states2 = (IF Last(entity)[2] # v THEN Append(entity, <<now, v>>) ELSE entity)
              /\ codes2 = Append(codes, <<now, v>>)
          BY <3>4, <4>1
        <5>2. codes # <<>> => Last(codes)[1] < now
          BY <2>1, <4>1
        <5> HIDE DEF codes2, states2, codes
        <5>3. QED BY <1>1, <1>2, <2>5, <5>1, <5>2, RecordedAtPush
      <4>2. CASE s # "error_samples"
        <5>1. states2 = entity /\ codes2 = codes
          BY <3>3, <4>2
        <5> HIDE DEF codes2, states2
        <5>2. QED BY <1>2, <2>5, <5>1
      <4>3. QED BY <4>1, <4>2
    <3> HIDE DEF map, states2
    <3>8. map \in LiveMaps /\ map # None /\ TrueRoles(map.track)
      BY <1>1, <3>5 DEF Keeps
    <3>9. disk # None => Keeps(disk, codes2, now)
      BY <1>1, <1>3, <3>4, KeepsLater
    <3>10. raw = None /\ raw' = None
      BY <1>2, <2>1, <2>5
    <3>11. TimesAreTold' /\ LegsAddUp'
      BY <3>1, <3>8, <3>10, ArchivedStays
    <3>12. live' # None /\ Keeps(live', codes2, now') /\ Recorded(codes2, entity', live'.start, now')
      BY <2>1, <3>1, <3>5, <3>6, <3>7, <3>8
    <3>13. disk' # None => live' # None /\ disk'.start = live'.start /\ Keeps(disk', codes2, now')
      BY <1>3, <2>1, <3>1, <3>6, <3>9, <3>12
    <3>14. /\ now' \in Nat /\ told' \in [Streams -> SampleLists] /\ entity' \in StateLists
           /\ entity' # <<>> /\ InOrder(entity') /\ UpToTime(entity', now')
      BY <1>1, <2>1, <2>3, <3>3
    <3>15. QED BY <3>10, <3>11, <3>12, <3>13, <3>14 DEF TracksInv
  <2>6. QED BY <2>4, <2>5
<1>11. CASE UNCHANGED tracks
  <2>1. now' = now /\ live' = live /\ disk' = disk /\ told' = told /\ entity' = entity /\ raw' = raw
    BY <1>11 DEF tracks
  <2>2. live' # None => TrueRoles(live'.track)
    BY <1>2, <2>1 DEF Keeps
  <2>3. TimesAreTold' /\ LegsAddUp'
    BY <2>1, <2>2, ArchivedStays
  <2>4. QED BY <1>1, <1>2, <1>3, <2>1, <2>3 DEF TracksInv
<1>12. 0 \in Nat /\ RAIN \in Nat /\ MOWING \in Nat /\ 2 \in Nat /\ CHARGING \in Nat
  BY DEF RAIN, MOWING, CHARGING
<1>13. QED BY <1>1, <1>4, <1>5, <1>6, <1>7, <1>8, <1>9, <1>10, <1>11, <1>12
           DEF TracksNext, Session, Points, Samples

(***************************************************************************)
(* The time that the session card shows as rain delay, mowing and charging *)
(* is that of the codes that were pushed, however often Home Assistant     *)
(* restarted between two saves of in_progress.json, no minute is counted   *)
(* twice, and the four sum up to the session (_compute_time_breakdown,     *)
(* _merge_samples, _read_int_pair_history_sync).                           *)
(***************************************************************************)
THEOREM CardTimesAreTold == TracksSpec => []TimesAreTold
<1> USE TracksAssumption
<1>1. TracksInit => TracksInv
  BY TracksStart
<1>2. TracksInv /\ [TracksNext]_tracks => TracksInv'
  BY TracksStep
<1>3. TracksInv => TimesAreTold
  BY DEF TracksInv
<1>4. QED BY <1>1, <1>2, <1>3, PTL DEF TracksSpec

(***************************************************************************)
(* The legs that the map draws for a role are as long together as the      *)
(* distance that the card shows for it, and before the smoothing a point's *)
(* role is the one of the area that it added, also where a restart cut the *)
(* track (derive_render_legs, compute_track_distances, append_point).      *)
(***************************************************************************)
THEOREM CardLegsAddUp == TracksSpec => []LegsAddUp
<1> USE TracksAssumption
<1>1. TracksInit => TracksInv
  BY TracksStart
<1>2. TracksInv /\ [TracksNext]_tracks => TracksInv'
  BY TracksStep
<1>3. TracksInv => LegsAddUp
  BY DEF TracksInv
<1>4. QED BY <1>1, <1>2, <1>3, PTL DEF TracksSpec
=============================================================================
