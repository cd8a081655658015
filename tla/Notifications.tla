--------------------------- MODULE Notifications ---------------------------
(***************************************************************************)
(* coordinator/_notifications.py: an s2p2 transition starts a resolver,    *)
(* which waits, fetches the page of the latest records of the cloud's      *)
(* message store and fires the newest matching record it has not seen.  At *)
(* setup, or else at the first transition, a baseline marks the page seen. *)
(*                                                                         *)
(* A resolver or a baseline is a job.  The store is read while the request *)
(* is under way, and the coroutine resumes on the loop with that page,     *)
(* which by then may be old: between the two other jobs run and records    *)
(* are posted, at most MaxLag of them (the request times out in 15 s).     *)
(*                                                                         *)
(* A record is its position in the store, and its source is an s2p2 code.  *)
(* _notif_seen_ids is an OrderedDict: here each id it holds is mapped to   *)
(* the ids marked after it, so the first ones are those with the most.     *)
(***************************************************************************)
EXTENDS Integers, Sequences, FiniteSets, PythonValues

CONSTANTS
    Codes,         \* s2p2 codes
    Jobs,          \* slots for coroutines (bound on how many overlap)
    Page,          \* _FETCH_PAGE_SIZE
    SeenCap,       \* _SEEN_IDS_CAP
    MaxLag,        \* bound on the records posted while a page is on its way
    MaxPosted,     \* bound on the records
    MaxRestarts    \* bound on the restarts

ASSUME NotificationsAssumption ==
    /\ None \notin Codes /\ None \notin Nat
    /\ Page \in Nat \ {0} /\ MaxLag \in Nat /\ SeenCap \in Nat
    /\ SeenCap >= 2 * (Page + MaxLag) - 1
    /\ MaxPosted \in Nat /\ MaxRestarts \in Nat

VARIABLES
    posted,      \* the store: the codes of the records, oldest first
    error,       \* _prev_error_code
    seen,        \* _notif_seen_ids: id -> the ids marked after it
    baselined,   \* _notif_baseline_done
    setup,       \* the set-up's baseline was started, or comes to nothing
    job,         \* the coroutines, and upto where the page they got reaches
    shown,       \* how often each record was fired, over all restarts
    boot,        \* how many records there were at the last start
    base,        \* how many records the baselines since then have marked
    restarts

vars == <<posted, error, seen, baselined, setup, job, shown, boot, base, restarts>>

Ids  == 1..MaxPosted
Free == [pc |-> "free", code |-> None, upto |-> None]

TypeOK ==
    /\ posted \in Seq(Codes) /\ Len(posted) <= MaxPosted
    /\ error \in Codes \cup {None}
    /\ DOMAIN seen \subseteq Ids
    /\ \A x \in DOMAIN seen : seen[x] \subseteq Ids /\ Cardinality(seen[x]) < SeenCap
    /\ baselined \in BOOLEAN /\ setup \in BOOLEAN
    /\ job \in [Jobs -> [pc : {"free", "baseline", "resolve"},
                         code : Codes \cup {None}, upto : Nat \cup {None}]]
    /\ shown \in [Ids -> Nat]
    /\ boot \in Nat /\ base \in Nat /\ restarts \in Nat

Init ==
    /\ posted = <<>> /\ error = None
    /\ seen = [x \in {} |-> {}] /\ baselined = FALSE /\ setup = FALSE
    /\ job = [j \in Jobs |-> Free]
    /\ shown = [x \in Ids |-> 0] /\ boot = 0 /\ base = 0 /\ restarts = 0

(* fetch_device_messages when the store has n records: the latest.         *)
PageAt(n) == {x \in 1..n : x > n - Page}

(* Faulty: at the cap the dict is cleared.                                 *)
MarkClears(ids) ==
    IF Cardinality(DOMAIN seen \cup ids) > SeenCap
    THEN [x \in ids |-> {y \in ids : y < x}]
    ELSE [x \in DOMAIN seen \cup ids |->
             IF x \in ids THEN {y \in ids : y < x} ELSE seen[x] \cup ids]

(* _mark_notification_seen of a page from its newest record on: each moves *)
(* to the end of the dict, and beyond the cap the first ones leave.        *)
Mark(ids) ==
    LET After(x) == IF x \in ids THEN {y \in ids : y < x} ELSE seen[x] \cup ids
    IN  [x \in {x \in DOMAIN seen \cup ids : Cardinality(After(x)) < SeenCap}
             |-> After(x)]

Start(j, pc, code) ==
    /\ job[j].pc = "free"
    /\ job' = [job EXCEPT ![j] = [pc |-> pc, code |-> code, upto |-> None]]

-----------------------------------------------------------------------------
(* The cloud writes a record, of any code and at any time.                 *)
Post ==
    /\ Len(posted) < MaxPosted
    /\ \A j \in Jobs : job[j].upto # None => Len(posted) - job[j].upto < MaxLag
    /\ \E code \in Codes : posted' = Append(posted, code)
    /\ UNCHANGED <<error, seen, baselined, setup, job, shown, boot, base, restarts>>

(* The one-shot call of _establish_notification_baseline at set-up; after a*)
(* baseline it returns at once.                                            *)
SetupBaseline ==
    /\ ~setup
    /\ setup' = TRUE
    /\ \E j \in Jobs : Start(j, "baseline", None)
    /\ UNCHANGED <<posted, error, seen, baselined, shown, boot, base, restarts>>

(* Faulty: it resolves also before there is a baseline.                    *)
TransitionResolves ==
    /\ \E code \in Codes \ {error} :
           /\ error' = code
           /\ IF error = None THEN UNCHANGED job
              ELSE \E j \in Jobs : Start(j, "resolve", code)
    /\ UNCHANGED <<posted, seen, baselined, setup, shown, boot, base, restarts>>

(* _on_state_update: the code changed.  The first code since the start is  *)
(* no transition.                                                          *)
Transition ==
    /\ \E code \in Codes \ {error} :
           /\ error' = code
           /\ IF error = None THEN UNCHANGED job
              ELSE \E j \in Jobs :
                       IF baselined THEN Start(j, "resolve", code)
                       ELSE Start(j, "baseline", None)
    /\ UNCHANGED <<posted, seen, baselined, setup, shown, boot, base, restarts>>

(* The store is read for the request of j.                                 *)
Answer(j) ==
    /\ job[j].pc # "free" /\ job[j].upto = None
    /\ job' = [job EXCEPT ![j].upto = Len(posted)]
    /\ UNCHANGED <<posted, error, seen, baselined, setup, shown, boot, base, restarts>>

(* No token, a time out, an error of HTTP or of the API: no event, and no  *)
(* baseline.                                                               *)
FetchFails(j) ==
    /\ job[j].pc # "free"
    /\ job' = [job EXCEPT ![j] = Free]
    /\ UNCHANGED <<posted, error, seen, baselined, setup, shown, boot, base, restarts>>

(* The baseline resumes: every record of the page is seen, none is fired.  *)
FinishBaseline(j) ==
    /\ job[j].pc = "baseline" /\ job[j].upto # None
    /\ seen' = Mark(PageAt(job[j].upto))
    /\ baselined' = TRUE /\ setup' = TRUE
    /\ base' = IF job[j].upto > base THEN job[j].upto ELSE base
    /\ job' = [job EXCEPT ![j] = Free]
    /\ UNCHANGED <<posted, error, shown, boot, restarts>>

Unseen(j) == {x \in PageAt(job[j].upto) \ DOMAIN seen : posted[x] = job[j].code}

(* Faulty: the whole page is marked seen with the record that is fired.    *)
FinishResolveMarksPage(j) ==
    /\ job[j].pc = "resolve" /\ job[j].upto # None
    /\ \/ Unseen(j) = {} /\ UNCHANGED <<seen, shown>>
       \/ \E x \in Unseen(j) :
              /\ \A y \in Unseen(j) : y <= x
              /\ seen' = Mark(PageAt(job[j].upto))
              /\ shown' = [shown EXCEPT ![x] = @ + 1]
    /\ job' = [job EXCEPT ![j] = Free]
    /\ UNCHANGED <<posted, error, baselined, setup, boot, base, restarts>>

(* The resolver resumes: the first unseen record of its code is fired.     *)
FinishResolve(j) ==
    /\ job[j].pc = "resolve" /\ job[j].upto # None
    /\ \/ Unseen(j) = {} /\ UNCHANGED <<seen, shown>>
       \/ \E x \in Unseen(j) :
              /\ \A y \in Unseen(j) : y <= x
              /\ seen' = Mark({x})
              /\ shown' = [shown EXCEPT ![x] = @ + 1]
    /\ job' = [job EXCEPT ![j] = Free]
    /\ UNCHANGED <<posted, error, baselined, setup, boot, base, restarts>>

(* Home Assistant restarts; none of this is persisted.                     *)
Restart ==
    /\ restarts < MaxRestarts
    /\ restarts' = restarts + 1
    /\ error' = None /\ seen' = [x \in {} |-> {}]
    /\ baselined' = FALSE /\ setup' = FALSE
    /\ job' = [j \in Jobs |-> Free]
    /\ boot' = Len(posted) /\ base' = 0
    /\ UNCHANGED <<posted, shown>>

Next ==
    \/ Post \/ SetupBaseline \/ Transition
    \/ \E j \in Jobs : \/ Answer(j) \/ FetchFails(j)
                       \/ FinishBaseline(j) \/ FinishResolve(j)
    \/ Restart

Spec == Init /\ [][Next]_vars

-----------------------------------------------------------------------------
(* Properties.                                                             *)

(* A record is fired once, over restarts, overlapping resolvers, old pages *)
(* and the eviction of seen ids.                                           *)
NothingShownTwice == \A x \in Ids : shown[x] <= 1

(* "old records don't replay as fresh events when HA boots", whichever     *)
(* baseline failed or came late.                                           *)
OldStaysQuiet == [][ \A x \in Ids : shown'[x] # shown[x] => x > boot ]_vars

(* A resolver that ends without an event leaves no record of its code on   *)
(* its page unfired, but those a baseline has marked.                      *)
NoneSwallowed ==
    [][ \A j \in Jobs :
            FinishResolve(j) /\ shown' = shown =>
                \A x \in PageAt(job[j].upto) :
                    posted[x] = job[j].code => x <= base \/ shown[x] > 0 ]_vars
=============================================================================
