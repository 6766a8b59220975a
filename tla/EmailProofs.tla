------------------------------ MODULE EmailProofs ------------------------------
(* Proofs about module Email: the queue and its workers for every number of    *)
(* threads, every queue limit and every number of retries, and the spam        *)
(* protection for every setting of its three parameters.                       *)
EXTENDS Email, FiniteSetTheorems, SequenceTheorems, TLAPS

--------------------------------------------------------------------------------
(* The queue.  The count of EachEmailOnce can only be kept because no id is in  *)
(* two places: otherwise adding an id to sent might not enlarge it.            *)
IdsOf(q)   == {q[i].id : i \in DOMAIN q}
OnceIn(q)  == \A i, j \in DOMAIN q : q[i].id = q[j].id => i = j

OnePlace ==
    /\ OnceIn(emailQueue)
    /\ \A t, u \in Hands : hand[t].id = hand[u].id => t = u
    /\ Queued \cap InHand = {}
    /\ (Queued \cup InHand) \cap (sent \cup dropped) = {}
    /\ sent \cap dropped = {}

CallTypes == between \in Nat /\ calls \in Nat /\ emailsRejected \in Nat

QueueInv == TypeOK /\ OnePlace /\ EachEmailOnce /\ OverfillBounded
CallInv  == CallTypes /\ EveryCallCounted

(* The guard.  The record counts the requests that passed since its window     *)
(* restarted, and the window only restarts Duration or more after the request  *)
(* before; a record is removed more than 2 * Duration after the last request.  *)
InOrder ==
    /\ \A i, j \in DOMAIN passed : i <= j => passed[i] <= passed[j]
    /\ \A i \in DOMAIN passed : passed[i] <= now

RecordExact ==
    \A a \in activity :
        /\ a.count <= Len(passed)
        /\ a.last = passed[Len(passed)]
        /\ \A i \in DOMAIN passed :
              i <= Len(passed) - a.count => a.last - passed[i] >= Duration

Forgotten == activity = {} /\ passed # <<>> => now - passed[Len(passed)] > 2 * Duration

GuardTypes ==
    /\ now \in Nat /\ passed \in Seq(Nat)
    /\ activity \subseteq [last : Nat, count : 1..MaxPerIP]
    /\ \A a, b \in activity : a = b

GuardInv == GuardTypes /\ InOrder /\ RecordExact /\ Forgotten /\ WindowLimit

(* An interval that the record outlives is kept.                               *)
IntervalIfRemembered == MinInterval <= 2 * Duration => IntervalKept
--------------------------------------------------------------------------------
LEMMA GuardConstants ==
    MinInterval \in Nat /\ MaxPerIP \in Nat /\ MaxPerIP > 0 /\ Duration \in Nat /\ Duration > 0
BY EmailAssumption DEF Guard!GuardAssumption

(* What a request that passes leaves behind: a record of itself that counts    *)
(* one more than a record whose window is still open, or starts a new one.     *)
LEMMA PassEffect ==
    ASSUME GuardInv, Guard!Pass
    PROVE  /\ now' = now /\ passed' = Append(passed, now)
           /\ \E c \in 1..MaxPerIP :
                 /\ activity' = {[last |-> now, count |-> c]}
                 /\ c <= Len(passed) + 1
                 /\ \A i \in DOMAIN passed : i <= Len(passed) + 1 - c => now - passed[i] >= Duration
<1> USE GuardConstants DEF GuardInv, GuardTypes
<1>0. now' = now /\ passed' = Append(passed, now)
  BY DEF Guard!Pass
<1>n. Len(passed) \in Nat /\ DOMAIN passed = 1..Len(passed) /\ \A i \in DOMAIN passed : passed[i] \in Nat
  BY LenProperties, ElementOfSeq
<1>old. ASSUME passed # <<>>, now - passed[Len(passed)] >= Duration
        PROVE  \A i \in DOMAIN passed : now - passed[i] >= Duration
  <2> SUFFICES ASSUME NEW i \in DOMAIN passed PROVE now - passed[i] >= Duration
    OBVIOUS
  <2>1. Len(passed) \in DOMAIN passed
    BY <1>n, EmptySeq
  <2>2. passed[i] <= passed[Len(passed)]
    BY <1>n, <2>1 DEF InOrder
  <2> QED BY <1>old, <1>n, <2>1, <2>2
<1>1. CASE activity = {}
  <2>1. activity' = {[last |-> now, count |-> 1]}
    BY <1>1 DEF Guard!Pass
  <2>2. \A i \in DOMAIN passed : now - passed[i] >= Duration
    <3>1. CASE passed = <<>>
      BY <1>n, <3>1
    <3>2. CASE passed # <<>>
      <4>1. Len(passed) \in DOMAIN passed
        BY <1>n, <3>2, EmptySeq
      <4>2. now - passed[Len(passed)] >= Duration
        BY <1>1, <1>n, <3>2, <4>1 DEF Forgotten
      <4> QED BY <3>2, <4>2, <1>old
    <3> QED BY <3>1, <3>2
  <2> QED BY <1>0, <1>n, <2>1, <2>2
<1>2. CASE activity # {}
  <2>1. PICK a \in activity : activity = {a}
    BY <1>2
  <2>2. (CHOOSE b \in activity : TRUE) = a
    BY <2>1
  <2>3. activity' = {[last |-> now, count |-> Guard!Counted(a)]}
    BY <1>2, <2>2 DEF Guard!Pass
  <2>4. ~Guard!UsedUp(a)
    BY <2>1 DEF Guard!Pass, Guard!Allowed
  <2>5. a.last \in Nat /\ a.count \in 1..MaxPerIP /\ a.count <= Len(passed) /\ a.last = passed[Len(passed)]
        /\ \A i \in DOMAIN passed : i <= Len(passed) - a.count => a.last - passed[i] >= Duration
    BY <2>1 DEF RecordExact
  <2>6. Len(passed) \in DOMAIN passed /\ passed # <<>> /\ a.last <= now
    BY <2>5, <1>n DEF InOrder
  <2>7. CASE now - a.last >= Duration
    <3>1. Guard!Counted(a) = 1
      BY <2>7 DEF Guard!Counted, Guard!Since
    <3>2. \A i \in DOMAIN passed : now - passed[i] >= Duration
      BY <2>5, <2>6, <2>7, <1>old
    <3> QED BY <1>0, <1>n, <2>3, <3>1, <3>2
  <2>8. CASE ~(now - a.last >= Duration)
    <3>1. Guard!Counted(a) = a.count + 1
      BY <2>8 DEF Guard!Counted, Guard!Since
    <3>2. a.count < MaxPerIP
      BY <2>4, <2>5, <2>6, <2>8 DEF Guard!UsedUp, Guard!Since
    <3>3. \A i \in DOMAIN passed : i <= Len(passed) + 1 - (a.count + 1) => now - passed[i] >= Duration
      BY <1>n, <2>5, <2>6
    <3>4. a.count + 1 \in 1..MaxPerIP /\ a.count + 1 <= Len(passed) + 1
      BY <1>n, <2>5, <3>2
    <3> QED BY <1>0, <2>3, <3>1, <3>3, <3>4
  <2> QED BY <2>7, <2>8
<1> QED BY <1>1, <1>2

LEMMA PassKeepsGuard == GuardInv /\ Guard!Pass => GuardInv'
<1> SUFFICES ASSUME GuardInv, Guard!Pass PROVE GuardInv'
  OBVIOUS
<1> USE GuardConstants
<1>0. now \in Nat /\ passed \in Seq(Nat) /\ InOrder /\ WindowLimit
  BY DEF GuardInv, GuardTypes
<1> DEFINE n == Len(passed)
<1>1. now' = now /\ passed' = Append(passed, now)
  BY PassEffect
<1>2. PICK c \in 1..MaxPerIP :
          /\ activity' = {[last |-> now, count |-> c]} /\ c <= n + 1
          /\ \A i \in DOMAIN passed : i <= n + 1 - c => now - passed[i] >= Duration
  BY PassEffect
<1>3. n \in Nat /\ DOMAIN passed = 1..n /\ \A i \in 1..n : passed[i] \in Nat
  BY <1>0, LenProperties, ElementOfSeq
<1>4. /\ passed' \in Seq(Nat) /\ Len(passed') = n + 1 /\ DOMAIN passed' = 1..(n + 1)
      /\ passed'[n + 1] = now /\ \A i \in 1..n : passed'[i] = passed[i]
      /\ passed' # <<>>
  BY <1>0, <1>1, AppendProperties, LenProperties
<1>5. GuardTypes'
  BY <1>0, <1>1, <1>2, <1>4 DEF GuardTypes
<1>6. InOrder'
  BY <1>0, <1>1, <1>3, <1>4 DEF InOrder
<1>7. RecordExact'
  <2> SUFFICES ASSUME NEW a \in activity'
               PROVE  /\ a.count <= Len(passed') /\ a.last = passed'[Len(passed')]
                      /\ \A i \in DOMAIN passed' :
                            i <= Len(passed') - a.count => a.last - passed'[i] >= Duration
    BY DEF RecordExact
  <2>1. a.last = now /\ a.count = c
    BY <1>2
  <2> QED BY <1>2, <1>3, <1>4, <2>1
<1>8. Forgotten'
  BY <1>2 DEF Forgotten
<1>9. WindowLimit'
  <2> SUFFICES ASSUME NEW i \in 1..(n + 1), NEW j \in 1..(n + 1),
                      i <= j, passed'[j] - passed'[i] < Duration
               PROVE  j - i < MaxPerIP
    BY <1>4 DEF WindowLimit, Guard!WindowLimit
  <2>1. CASE j <= n
    <3>1. i \in DOMAIN passed /\ j \in DOMAIN passed
      BY <1>3, <2>1
    <3>2. passed[j] - passed[i] < Duration
      BY <1>3, <1>4, <3>1
    <3> QED BY <1>0, <3>1, <3>2 DEF WindowLimit, Guard!WindowLimit
  <2>2. CASE j = n + 1 /\ i <= n
    <3>1. ~(i <= n + 1 - c)
      <4>1. i \in DOMAIN passed /\ passed'[i] = passed[i] /\ passed'[j] = now
        BY <1>3, <1>4, <2>2
      <4>2. now - passed[i] < Duration
        BY <4>1
      <4> QED BY <1>0, <1>2, <1>3, <4>1, <4>2
    <3> QED BY <1>3, <2>2, <3>1
  <2>3. CASE j = n + 1 /\ i = n + 1
    BY <1>3, <2>3
  <2> QED BY <1>3, <2>1, <2>2, <2>3
<1> QED BY <1>5, <1>6, <1>7, <1>8, <1>9 DEF GuardInv

LEMMA GuardStepKeepsGuard ==
    GuardInv /\ (Guard!Cleanup \/ Guard!ClearIPTracking \/ Guard!Tick) => GuardInv'
<1> SUFFICES ASSUME GuardInv, Guard!Cleanup \/ Guard!ClearIPTracking \/ Guard!Tick PROVE GuardInv'
  OBVIOUS
<1> USE GuardConstants
<1>0. GuardTypes /\ InOrder /\ RecordExact /\ Forgotten /\ WindowLimit
  BY DEF GuardInv
<1>n. now \in Nat /\ Len(passed) \in Nat /\ DOMAIN passed = 1..Len(passed)
      /\ \A i \in DOMAIN passed : passed[i] \in Nat
  BY <1>0, LenProperties, ElementOfSeq DEF GuardTypes
<1>1. CASE Guard!Cleanup
  <2>1. now' = now /\ passed' = passed /\ activity' = {a \in activity : ~Guard!Stale(a)}
    BY <1>1 DEF Guard!Cleanup
  <2>2. PICK a \in activity : Guard!Stale(a)
    BY <1>1 DEF Guard!Cleanup
  <2>3. activity = {a} /\ activity' = {}
    BY <1>0, <2>1, <2>2 DEF GuardTypes
  <2>4. now - passed[Len(passed)] > 2 * Duration
    BY <1>0, <2>2 DEF Guard!Stale, Guard!Since, RecordExact
  <2> QED BY <1>0, <2>1, <2>3, <2>4
          DEF GuardInv, GuardTypes, InOrder, RecordExact, Forgotten, WindowLimit, Guard!WindowLimit
<1>2. CASE Guard!ClearIPTracking
  <2>1. now' = now /\ passed' = <<>> /\ activity' = {}
    BY <1>2 DEF Guard!ClearIPTracking
  <2>2. passed' \in Seq(Nat) /\ DOMAIN passed' = {}
    BY <2>1
  <2> QED BY <1>0, <2>1, <2>2
          DEF GuardInv, GuardTypes, InOrder, RecordExact, Forgotten, WindowLimit, Guard!WindowLimit
<1>3. CASE Guard!Tick
  <2>1. now' = now + 1 /\ passed' = passed /\ activity' = activity
    BY <1>3 DEF Guard!Tick
  <2>2. GuardTypes' /\ RecordExact' /\ WindowLimit'
    BY <1>0, <2>1 DEF GuardTypes, RecordExact, WindowLimit, Guard!WindowLimit
  <2>3. InOrder'
    <3>1. \A i \in DOMAIN passed : passed[i] <= now + 1
      BY <1>0, <1>n DEF InOrder
    <3> QED BY <1>0, <2>1, <3>1 DEF InOrder
  <2>4. Forgotten'
    <3> SUFFICES ASSUME activity = {}, passed # <<>> PROVE (now + 1) - passed[Len(passed)] > 2 * Duration
      BY <2>1 DEF Forgotten
    <3>1. Len(passed) \in DOMAIN passed
      BY <1>0, <1>n, EmptySeq DEF GuardTypes
    <3>2. passed[Len(passed)] \in Nat /\ now - passed[Len(passed)] > 2 * Duration
      BY <1>0, <1>n, <3>1 DEF Forgotten
    <3> QED BY <1>n, <3>2
  <2> QED BY <2>2, <2>3, <2>4 DEF GuardInv
<1> QED BY <1>1, <1>2, <1>3

(* What every step of the e-mail sender does to the guard.                     *)
LEMMA GuardSteps ==
    ASSUME [EmailNext]_evars
    PROVE  \/ UNCHANGED gvars
           \/ Guard!Pass
           \/ Guard!Cleanup \/ Guard!ClearIPTracking \/ Guard!Tick
<1>1. CASE UNCHANGED evars
  BY <1>1 DEF evars
<1>2. CASE EmailNext
  <2>1. CASE Refused
    BY <2>1 DEF Refused, Guard!Refuse, gvars
  <2>2. CASE Granted
    BY <2>2 DEF Granted
  <2>3. CASE Accepted \/ QueueFull \/ QueueStep
    BY <2>3 DEF Accepted, QueueFull, QueueStep
  <2>4. CASE GuardStep
    BY <2>4 DEF GuardStep
  <2> QED BY <1>2, <2>1, <2>2, <2>3, <2>4 DEF EmailNext
<1> QED BY <1>1, <1>2

LEMMA GuardInvStep == GuardInv /\ [EmailNext]_evars => GuardInv'
<1> SUFFICES ASSUME GuardInv, [EmailNext]_evars PROVE GuardInv'
  OBVIOUS
<1>1. CASE UNCHANGED gvars
  BY <1>1 DEF gvars, GuardInv, GuardTypes, InOrder, RecordExact, Forgotten, WindowLimit, Guard!WindowLimit
<1> QED BY <1>1, GuardSteps, PassKeepsGuard, GuardStepKeepsGuard

LEMMA GuardInvInit == EmailInit => GuardInv
<1> SUFFICES ASSUME EmailInit PROVE GuardInv
  OBVIOUS
<1>1. now = 0 /\ activity = {} /\ passed = <<>>
  BY DEF EmailInit, Guard!Init
<1>2. passed \in Seq(Nat) /\ DOMAIN passed = {}
  BY <1>1
<1> QED BY <1>1, <1>2 DEF GuardInv, GuardTypes, InOrder, RecordExact, Forgotten, WindowLimit, Guard!WindowLimit

(* The record of an address says when and how often it passed, through every  *)
(* call, clean-up and tick of the spam protection.                             *)
THEOREM GuardInvariant == EmailSpec => []GuardInv
BY GuardInvInit, GuardInvStep, PTL DEF EmailSpec

(* Once the interval and the window have passed nothing in the record refuses. *)
LEMMA WaitedOut == GuardInv => NoLockout
<1> SUFFICES ASSUME GuardInv, passed # <<>>, now - passed[Len(passed)] >= Duration,
                    now - passed[Len(passed)] >= MinInterval, NEW a \in activity
             PROVE  ~Guard!TooSoon(a) /\ ~Guard!UsedUp(a)
  BY DEF NoLockout, Guard!NoLockout, Guard!Allowed
<1>1. a.last = passed[Len(passed)] /\ a.last \in Nat /\ now \in Nat
  BY DEF GuardInv, GuardTypes, RecordExact
<1> QED BY <1>1, GuardConstants DEF Guard!TooSoon, Guard!UsedUp, Guard!Since

(* No window of Duration seconds holds more than MaxPerIP e-mails of an        *)
(* address, wherever it begins and whatever was cleaned up meanwhile, and an   *)
(* address that has waited long enough passes: for every setting of the guard. *)
THEOREM SpamLimitsHold == EmailSpec => []SpamLimits
<1>1. GuardInv => SpamLimits
  BY WaitedOut DEF GuardInv, SpamLimits
<1> QED BY <1>1, GuardInvariant, PTL

(* Two e-mails of an address that pass are MinInterval apart whenever the      *)
(* interval is no longer than the time a record is kept.  (Beyond that it is   *)
(* not: the record may be cleaned up first.)                                   *)
THEOREM IntervalHolds == EmailSpec => []IntervalIfRemembered
<1>1. EmailInit => IntervalIfRemembered
  <2> SUFFICES ASSUME EmailInit PROVE IntervalKept
    BY DEF IntervalIfRemembered
  <2>1. passed = <<>>
    BY DEF EmailInit, Guard!Init
  <2> QED BY <2>1 DEF IntervalKept, Guard!IntervalKept
<1>2. GuardInv /\ IntervalIfRemembered /\ [EmailNext]_evars => IntervalIfRemembered'
  <2> SUFFICES ASSUME GuardInv, IntervalIfRemembered, [EmailNext]_evars, MinInterval <= 2 * Duration
               PROVE  IntervalKept'
    BY DEF IntervalIfRemembered
  <2> USE GuardConstants
  <2>0. IntervalKept /\ now \in Nat /\ passed \in Seq(Nat) /\ Len(passed) \in Nat
        /\ \A i \in 1..Len(passed) : passed[i] \in Nat
    BY LenProperties, ElementOfSeq DEF IntervalIfRemembered, GuardInv, GuardTypes
  <2>1. CASE passed' = passed
    BY <2>0, <2>1 DEF IntervalKept, Guard!IntervalKept
  <2>2. CASE passed' = <<>>
    BY <2>2 DEF IntervalKept, Guard!IntervalKept
  <2>3. CASE Guard!Pass
    <3> SUFFICES ASSUME NEW i \in 2..Len(passed') PROVE passed'[i] - passed'[i - 1] >= MinInterval
      BY DEF IntervalKept, Guard!IntervalKept
    <3>1. Len(passed') = Len(passed) + 1 /\ passed'[Len(passed) + 1] = now
          /\ \A k \in 1..Len(passed) : passed'[k] = passed[k]
      BY <2>0, <2>3, AppendProperties DEF Guard!Pass
    <3>2. CASE i <= Len(passed)
      BY <2>0, <3>1, <3>2 DEF IntervalKept, Guard!IntervalKept
    <3>3. CASE i = Len(passed) + 1
      <4>1. passed # <<>> /\ passed[Len(passed)] \in Nat /\ passed'[i - 1] = passed[Len(passed)]
        BY <2>0, <3>1, <3>3
      <4>2. now - passed[Len(passed)] >= MinInterval
        <5>1. CASE activity = {}
          <6>1. now - passed[Len(passed)] > 2 * Duration
            BY <5>1, <4>1 DEF GuardInv, Forgotten
          <6> QED BY <6>1, <2>0, <4>1
        <5>2. ASSUME NEW a \in activity PROVE now - passed[Len(passed)] >= MinInterval
          <6>1. ~Guard!TooSoon(a) /\ a.last = passed[Len(passed)]
            BY <2>3, <5>2 DEF Guard!Pass, Guard!Allowed, GuardInv, RecordExact
          <6> QED BY <6>1, <2>0, <4>1 DEF Guard!TooSoon, Guard!Since
        <5> QED BY <5>1, <5>2
      <4> QED BY <3>1, <3>3, <4>1, <4>2
    <3> QED BY <2>0, <3>1, <3>2, <3>3
  <2> QED BY GuardSteps, <2>1, <2>2, <2>3 DEF Guard!Cleanup, Guard!ClearIPTracking, Guard!Tick, gvars
<1> QED BY <1>1, <1>2, GuardInvariant, PTL DEF EmailSpec
--------------------------------------------------------------------------------
(* The ids of a queue when an e-mail is appended, and when the first is taken. *)
LEMMA IdsOfAppend ==
    ASSUME NEW q \in Seq(Emails), NEW e \in Emails
    PROVE  /\ Append(q, e) \in Seq(Emails) /\ Len(Append(q, e)) = Len(q) + 1
           /\ IdsOf(Append(q, e)) = IdsOf(q) \cup {e.id}
           /\ OnceIn(q) /\ e.id \notin IdsOf(q) => OnceIn(Append(q, e))
<1> DEFINE r == Append(q, e)
<1>1. /\ r \in Seq(Emails) /\ Len(r) = Len(q) + 1
      /\ \A i \in 1..Len(q) : r[i] = q[i]
      /\ r[Len(q) + 1] = e
  BY AppendProperties
<1>2. Len(q) \in Nat /\ DOMAIN q = 1..Len(q) /\ DOMAIN r = 1..(Len(q) + 1)
  BY <1>1, LenProperties
<1> HIDE DEF r
<1>3. IdsOf(r) = IdsOf(q) \cup {e.id}
  <2>1. DOMAIN r = DOMAIN q \cup {Len(q) + 1}
    BY <1>2
  <2> QED BY <1>1, <1>2, <2>1 DEF IdsOf
<1>4. OnceIn(q) /\ e.id \notin IdsOf(q) => OnceIn(r)
  BY <1>1, <1>2 DEF OnceIn, IdsOf
<1> QED BY <1>1, <1>3, <1>4 DEF r

LEMMA IdsOfTail ==
    ASSUME NEW q \in Seq(Emails), q # <<>>, OnceIn(q)
    PROVE  /\ Head(q) \in Emails /\ Tail(q) \in Seq(Emails)
           /\ Len(Tail(q)) = Len(q) - 1 /\ Len(q) \in Nat /\ Len(q) > 0
           /\ Head(q).id \in IdsOf(q)
           /\ IdsOf(Tail(q)) = IdsOf(q) \ {Head(q).id}
           /\ OnceIn(Tail(q))
<1> DEFINE r == Tail(q)
<1>1. /\ Head(q) \in Emails /\ r \in Seq(Emails) /\ Len(r) = Len(q) - 1
      /\ \A i \in 1..Len(r) : r[i] = q[i + 1]
  BY HeadTailProperties
<1>2. Len(q) \in Nat /\ Len(q) > 0 /\ DOMAIN q = 1..Len(q) /\ DOMAIN r = 1..(Len(q) - 1)
  BY <1>1, LenProperties, EmptySeq
<1>3. Head(q) = q[1]
  OBVIOUS
<1> HIDE DEF r
<1>4. Head(q).id \in IdsOf(q)
  BY <1>2, <1>3 DEF IdsOf
<1>5. IdsOf(r) \subseteq IdsOf(q) \ {Head(q).id}
  <2> SUFFICES ASSUME NEW i \in DOMAIN r PROVE r[i].id \in IdsOf(q) /\ r[i].id # q[1].id
    BY <1>3 DEF IdsOf
  <2>1. r[i] = q[i + 1] /\ i + 1 \in DOMAIN q /\ 1 \in DOMAIN q /\ i + 1 # 1
    BY <1>1, <1>2
  <2> QED BY <2>1 DEF IdsOf, OnceIn
<1>6. IdsOf(q) \ {Head(q).id} \subseteq IdsOf(r)
  <2> SUFFICES ASSUME NEW i \in DOMAIN q, q[i].id # q[1].id PROVE q[i].id \in IdsOf(r)
    BY <1>3 DEF IdsOf
  <2>1. i - 1 \in DOMAIN r /\ r[i - 1] = q[i]
    BY <1>1, <1>2
  <2> QED BY <2>1 DEF IdsOf
<1>7. OnceIn(r)
  <2> SUFFICES ASSUME NEW i \in DOMAIN r, NEW j \in DOMAIN r, r[i].id = r[j].id PROVE i = j
    BY DEF OnceIn
  <2>1. i + 1 \in DOMAIN q /\ j + 1 \in DOMAIN q /\ r[i] = q[i + 1] /\ r[j] = q[j + 1]
    BY <1>1, <1>2
  <2>2. i + 1 = j + 1
    BY <2>1 DEF OnceIn
  <2> QED BY <1>2, <2>2
<1> QED BY <1>1, <1>2, <1>4, <1>5, <1>6, <1>7 DEF r
--------------------------------------------------------------------------------
(* The counted sets are finite, so their cardinalities are numbers. *)
LEMMA QueueFacts ==
    ASSUME TypeOK
    PROVE  /\ IsFiniteSet(Hands) /\ Cardinality(Hands) \in Nat
           /\ IsFiniteSet(InLoop) /\ Cardinality(InLoop) \in Nat
           /\ IsFiniteSet(sent) /\ Cardinality(sent) \in Nat
           /\ IsFiniteSet(dropped) /\ Cardinality(dropped) \in Nat
           /\ Len(emailQueue) \in Nat
           /\ Cardinality(Hands) <= Cardinality(InLoop)
           /\ Queued = IdsOf(emailQueue)
           /\ \A t \in Hands : hand[t] \in Emails
<1>1. IsFiniteSet(1..MaxEmails) /\ IsFiniteSet(Threads)
  BY QueueAssumption, FS_Interval
<1>2. Hands \subseteq InLoop /\ InLoop \subseteq Threads /\ sent \subseteq 1..MaxEmails
      /\ dropped \subseteq 1..MaxEmails
  BY DEF Hands, InLoop, TypeOK
<1>3. IsFiniteSet(Hands) /\ IsFiniteSet(InLoop) /\ IsFiniteSet(sent) /\ IsFiniteSet(dropped)
  BY <1>1, <1>2, FS_Subset
<1>4. Cardinality(Hands) <= Cardinality(InLoop)
  BY <1>2, <1>3, FS_Subset
<1>5. Len(emailQueue) \in Nat
  BY LenProperties DEF TypeOK
<1>6. Queued = IdsOf(emailQueue)
  BY DEF Queued, IdsOf
<1>7. \A t \in Hands : hand[t] \in Emails
  BY DEF TypeOK, Hands
<1> QED BY <1>3, <1>4, <1>5, <1>6, <1>7, FS_CardinalityType

(* A worker is done with its e-mail and goes back to waiting.                  *)
LEMMA HandEmptied ==
    ASSUME TypeOK, OnePlace, NEW t \in Hands,
           worker' = [worker EXCEPT ![t] = "waiting"],
           hand' = [hand EXCEPT ![t] = NoEmail]
    PROVE  /\ Hands' = Hands \ {t} /\ InLoop' = InLoop
           /\ InHand' = InHand \ {hand[t].id} /\ hand[t].id \in InHand
           /\ Cardinality(Hands') = Cardinality(Hands) - 1
           /\ \A u, v \in Hands' : hand'[u].id = hand'[v].id => u = v
           /\ worker' \in [Threads -> WorkerStates]
           /\ hand' \in [Threads -> Emails \cup {NoEmail}]
           /\ \A u \in Threads : (hand'[u] # NoEmail) = (u \in Hands')
<1>0. t \in Threads /\ worker[t] \in {"sending", "pausing"}
      /\ worker \in [Threads -> WorkerStates] /\ hand \in [Threads -> Emails \cup {NoEmail}]
  BY DEF Hands, TypeOK
<1>1. Hands' = Hands \ {t}
  BY <1>0 DEF Hands
<1>2. InLoop' = InLoop
  BY <1>0 DEF InLoop, Hands
<1>3. \A u \in Hands' : hand'[u] = hand[u]
  BY <1>0, <1>1 DEF Hands
<1>4. \A u, v \in Hands : hand[u].id = hand[v].id => u = v
  BY DEF OnePlace
<1>5. InHand' = InHand \ {hand[t].id} /\ hand[t].id \in InHand
  BY <1>1, <1>3, <1>4 DEF InHand
<1>6. Cardinality(Hands') = Cardinality(Hands) - 1
  BY <1>1, QueueFacts, FS_RemoveElement
<1>7. \A u, v \in Hands' : hand'[u].id = hand'[v].id => u = v
  BY <1>1, <1>3, <1>4
<1>8. worker' \in [Threads -> WorkerStates] /\ hand' \in [Threads -> Emails \cup {NoEmail}]
  BY <1>0 DEF WorkerStates
<1>9. \A u \in Threads : (hand'[u] # NoEmail) = (u \in Hands')
  <2> SUFFICES ASSUME NEW u \in Threads PROVE (hand'[u] # NoEmail) = (u \in Hands')
    OBVIOUS
  <2>1. CASE u = t
    BY <1>0, <1>1, <2>1
  <2>2. CASE u # t
    BY <1>0, <1>1, <2>2 DEF TypeOK
  <2> QED BY <2>1, <2>2
<1> QED BY <1>1, <1>2, <1>5, <1>6, <1>7, <1>8, <1>9

LEMMA EnqueueKeeps == QueueInv /\ Enqueue => QueueInv'
<1> SUFFICES ASSUME QueueInv, Enqueue PROVE QueueInv'
  OBVIOUS
<1> USE DEF qvars, QueueInv
<1> DEFINE e == [id |-> handed + 1, retries |-> 0]
<1>0. TypeOK /\ OnePlace /\ EachEmailOnce /\ OverfillBounded
  OBVIOUS
<1>1. /\ handed' = handed + 1 /\ emailQueue' = Append(emailQueue, e)
      /\ sent' = sent /\ dropped' = dropped /\ hand' = hand /\ activeWorkers' = activeWorkers
      /\ shuttingDown' = shuttingDown /\ stopped' = stopped
      /\ handed < MaxEmails /\ Len(emailQueue) < MaxQueueSize
  BY DEF Enqueue
<1>2. e \in Emails /\ handed \in Nat /\ handed' \in 0..MaxEmails /\ emailQueue \in Seq(Emails)
  BY <1>1, QueueAssumption DEF TypeOK, Emails
<1>3. handed + 1 \notin Queued \cup InHand \cup sent \cup dropped
  BY <1>2 DEF EachEmailOnce
<1>4. /\ emailQueue' \in Seq(Emails) /\ Len(emailQueue') = Len(emailQueue) + 1
      /\ Queued' = Queued \cup {handed + 1} /\ OnceIn(emailQueue')
  <2>1. OnceIn(emailQueue) /\ e.id = handed + 1 /\ Queued = IdsOf(emailQueue) /\ Queued' = IdsOf(emailQueue')
    BY QueueFacts DEF OnePlace, Queued, IdsOf
  <2> QED BY <1>1, <1>2, <1>3, <2>1, IdsOfAppend
<1>5. worker' \in [Threads -> WorkerStates] /\ Hands' = Hands /\ InLoop' = InLoop
  <2>1. CASE worker' = worker
    BY <2>1 DEF TypeOK, Hands, InLoop
  <2>2. ASSUME NEW t \in Unmade, worker' = [worker EXCEPT ![t] = "made"]
        PROVE  worker' \in [Threads -> WorkerStates] /\ Hands' = Hands /\ InLoop' = InLoop
    BY <2>2 DEF Unmade, TypeOK, WorkerStates, Hands, InLoop
  <2> QED BY <2>1, <2>2 DEF Enqueue
<1>6. InHand' = InHand
  BY <1>1, <1>5 DEF InHand
<1>7. TypeOK'
  BY <1>1, <1>2, <1>4, <1>5 DEF TypeOK
<1>8. OnePlace'
  BY <1>1, <1>3, <1>4, <1>5, <1>6 DEF OnePlace
<1>9. EachEmailOnce'
  <2>1. 1..(handed + 1) = (1..handed) \cup {handed + 1}
    BY <1>2
  <2>2. Queued' \cup InHand' \cup sent' \cup dropped' = 1..handed'
    BY <1>1, <1>4, <1>6, <2>1 DEF EachEmailOnce
  <2> QED BY <1>1, <1>2, <1>4, <1>5, <2>2, QueueFacts DEF EachEmailOnce
<1>10. OverfillBounded'
  BY <1>1, <1>4, <1>5, QueueFacts, QueueAssumption DEF OverfillBounded
<1> QED BY <1>7, <1>8, <1>9, <1>10

LEMMA TakeKeeps == ASSUME QueueInv, NEW t \in Threads, Take(t) PROVE QueueInv'
<1> USE DEF QueueInv
<1> DEFINE e == Head(emailQueue)
<1>1. /\ worker[t] = "waiting" /\ emailQueue # <<>> /\ emailQueue' = Tail(emailQueue)
      /\ worker' = [worker EXCEPT ![t] = "sending"] /\ hand' = [hand EXCEPT ![t] = e]
      /\ UNCHANGED <<handed, sent, dropped, activeWorkers, shuttingDown, stopped>>
  BY DEF Take
<1>2. /\ e \in Emails /\ emailQueue' \in Seq(Emails) /\ Len(emailQueue') = Len(emailQueue) - 1
      /\ Len(emailQueue) \in Nat /\ Len(emailQueue) > 0
      /\ e.id \in Queued /\ Queued' = Queued \ {e.id} /\ OnceIn(emailQueue')
  <2>1. OnceIn(emailQueue) /\ Queued = IdsOf(emailQueue) /\ Queued' = IdsOf(emailQueue')
        /\ emailQueue \in Seq(Emails)
    BY QueueFacts DEF OnePlace, Queued, IdsOf, TypeOK
  <2> QED BY <1>1, <2>1, IdsOfTail
<1>3. Hands' = Hands \cup {t} /\ t \notin Hands /\ InLoop' = InLoop
  BY <1>1 DEF TypeOK, Hands, InLoop
<1>4. hand'[t] = e /\ \A u \in Hands : hand'[u] = hand[u]
  BY <1>1, <1>3 DEF TypeOK, Hands
<1>5. InHand' = InHand \cup {e.id} /\ e.id \notin InHand
  BY <1>2, <1>3, <1>4 DEF InHand, OnePlace
<1>6. Cardinality(Hands') = Cardinality(Hands) + 1
  BY <1>3, QueueFacts, FS_AddElement
<1>7. TypeOK'
  <2>1. e # NoEmail
    BY <1>2 DEF Emails, NoEmail
  <2>2. \A u \in Threads : (hand'[u] # NoEmail) = (u \in Hands')
    <3> SUFFICES ASSUME NEW u \in Threads PROVE (hand'[u] # NoEmail) = (u \in Hands')
      OBVIOUS
    <3>1. CASE u = t
      BY <1>3, <1>4, <2>1, <3>1
    <3>2. CASE u # t
      BY <1>1, <1>3, <3>2 DEF TypeOK
    <3> QED BY <3>1, <3>2
  <2> QED BY <1>1, <1>2, <2>2 DEF TypeOK, WorkerStates
<1>8. OnePlace'
  <2>1. \A u, v \in Hands' : hand'[u].id = hand'[v].id => u = v
    BY <1>3, <1>4, <1>5 DEF InHand, OnePlace
  <2> QED BY <1>1, <1>2, <1>5, <2>1 DEF OnePlace
<1>9. EachEmailOnce'
  BY <1>1, <1>2, <1>5, <1>6, QueueFacts DEF EachEmailOnce
<1>10. OverfillBounded'
  BY <1>2, <1>3, <1>6, QueueFacts DEF OverfillBounded
<1> QED BY <1>7, <1>8, <1>9, <1>10

LEMMA SentKeeps == ASSUME QueueInv, NEW t \in Threads, Sent(t) \/ GivesUp(t) PROVE QueueInv'
<1> USE DEF QueueInv
<1>1. /\ worker[t] = "sending" /\ worker' = [worker EXCEPT ![t] = "waiting"]
      /\ hand' = [hand EXCEPT ![t] = NoEmail]
      /\ UNCHANGED <<emailQueue, handed, activeWorkers, shuttingDown, stopped>>
      /\ \/ sent' = sent \cup {hand[t].id} /\ dropped' = dropped
         \/ sent' = sent /\ dropped' = dropped \cup {hand[t].id}
  BY DEF Sent, GivesUp
<1>2. t \in Hands
  BY <1>1 DEF Hands
<1>3. /\ Hands' = Hands \ {t} /\ InLoop' = InLoop
      /\ InHand' = InHand \ {hand[t].id} /\ hand[t].id \in InHand
      /\ Cardinality(Hands') = Cardinality(Hands) - 1
      /\ \A u, v \in Hands' : hand'[u].id = hand'[v].id => u = v
  BY <1>1, <1>2, HandEmptied
<1>4. hand[t].id \in 1..MaxEmails /\ hand[t].id \notin sent \cup dropped /\ Queued' = Queued
  BY <1>1, <1>2, <1>3, QueueFacts DEF OnePlace, Emails, Queued
<1>5. TypeOK'
  BY <1>1, <1>2, <1>4, HandEmptied DEF TypeOK
<1>6. OnePlace'
  BY <1>1, <1>3, <1>4 DEF OnePlace
<1>7. EachEmailOnce'
  <2>1. /\ Cardinality(sent') \in Nat /\ Cardinality(dropped') \in Nat
        /\ Cardinality(sent') + Cardinality(dropped') = Cardinality(sent) + Cardinality(dropped) + 1
    <3>1. CASE sent' = sent \cup {hand[t].id} /\ dropped' = dropped
      <4>1. Cardinality(sent') = Cardinality(sent) + 1
        BY <3>1, <1>4, QueueFacts, FS_AddElement
      <4> QED BY <3>1, <4>1, QueueFacts
    <3>2. CASE sent' = sent /\ dropped' = dropped \cup {hand[t].id}
      <4>1. Cardinality(dropped') = Cardinality(dropped) + 1
        BY <3>2, <1>4, QueueFacts, FS_AddElement
      <4> QED BY <3>2, <4>1, QueueFacts
    <3> QED BY <1>1, <3>1, <3>2
  <2>2. Queued' \cup InHand' \cup sent' \cup dropped' = 1..handed'
    BY <1>1, <1>3, <1>4 DEF EachEmailOnce
  <2>3. Len(emailQueue) + Cardinality(Hands) + Cardinality(sent) + Cardinality(dropped) = handed
        /\ Cardinality(Hands') = Cardinality(Hands) - 1 /\ handed' = handed
        /\ Len(emailQueue') = Len(emailQueue)
    BY <1>1, <1>3 DEF EachEmailOnce
  <2>4. /\ Len(emailQueue) \in Nat /\ Cardinality(Hands) \in Nat
        /\ Cardinality(sent) \in Nat /\ Cardinality(dropped) \in Nat
    BY QueueFacts
  <2>6. Len(emailQueue') + Cardinality(Hands') + Cardinality(sent') + Cardinality(dropped') = handed'
    BY <2>1, <2>3, <2>4
  <2> QED BY <2>2, <2>6 DEF EachEmailOnce
<1>8. OverfillBounded'
  BY <1>1, <1>3, QueueFacts, QueueAssumption DEF OverfillBounded
<1> QED BY <1>5, <1>6, <1>7, <1>8

LEMMA RequeueKeeps == ASSUME QueueInv, NEW t \in Threads, Requeue(t) PROVE QueueInv'
<1> USE DEF QueueInv
<1>1. /\ worker[t] = "pausing" /\ worker' = [worker EXCEPT ![t] = "waiting"]
      /\ hand' = [hand EXCEPT ![t] = NoEmail] /\ emailQueue' = Append(emailQueue, hand[t])
      /\ UNCHANGED <<handed, sent, dropped, activeWorkers, shuttingDown, stopped>>
  BY DEF Requeue
<1>2. t \in Hands
  BY <1>1 DEF Hands
<1>3. /\ Hands' = Hands \ {t} /\ InLoop' = InLoop
      /\ InHand' = InHand \ {hand[t].id} /\ hand[t].id \in InHand
      /\ Cardinality(Hands') = Cardinality(Hands) - 1
      /\ \A u, v \in Hands' : hand'[u].id = hand'[v].id => u = v
  BY <1>1, <1>2, HandEmptied
<1>4. hand[t] \in Emails /\ hand[t].id \notin Queued \cup sent \cup dropped
  BY <1>2, <1>3, QueueFacts DEF OnePlace
<1>5. /\ emailQueue' \in Seq(Emails) /\ Len(emailQueue') = Len(emailQueue) + 1
      /\ Queued' = Queued \cup {hand[t].id} /\ OnceIn(emailQueue')
  <2>1. OnceIn(emailQueue) /\ Queued = IdsOf(emailQueue) /\ Queued' = IdsOf(emailQueue')
        /\ emailQueue \in Seq(Emails)
    BY QueueFacts DEF OnePlace, Queued, IdsOf, TypeOK
  <2> QED BY <1>1, <1>4, <2>1, IdsOfAppend
<1>6. TypeOK'
  BY <1>1, <1>2, <1>5, HandEmptied DEF TypeOK
<1>7. OnePlace'
  BY <1>1, <1>3, <1>4, <1>5 DEF OnePlace
<1>8. EachEmailOnce'
  BY <1>1, <1>3, <1>5, QueueFacts DEF EachEmailOnce
<1>9. OverfillBounded'
  BY <1>3, <1>5, QueueFacts DEF OverfillBounded
<1> QED BY <1>6, <1>7, <1>8, <1>9

(* The steps of a worker that move no e-mail.                                  *)
LEMMA WorkerKeeps ==
    ASSUME QueueInv, NEW t \in Threads, Register(t) \/ Leave(t) \/ Unregister(t) \/ Fails(t)
    PROVE  QueueInv'
<1> USE DEF QueueInv, qvars
<1>1. CASE Register(t) \/ Leave(t) \/ Unregister(t)
  <2>1. Hands' = Hands /\ InHand' = InHand
    BY <1>1 DEF Register, Leave, Unregister, TypeOK, Hands, InHand
  <2>2. TypeOK'
    BY <1>1, <2>1 DEF Register, Leave, Unregister, TypeOK, WorkerStates
  <2>3. OnePlace' /\ EachEmailOnce'
    BY <1>1, <2>1 DEF Register, Leave, Unregister, OnePlace, EachEmailOnce, Queued
  <2>4. OverfillBounded'
    <3>1. CASE Register(t)
      <4>1. InLoop' = InLoop \cup {t} /\ t \notin InLoop
        BY <3>1 DEF Register, TypeOK, InLoop, Hands
      <4>2. Cardinality(InLoop') = Cardinality(InLoop) + 1
        BY <4>1, QueueFacts, FS_AddElement
      <4>3. emailQueue' = emailQueue
        BY <3>1 DEF Register
      <4> QED BY <2>1, <4>2, <4>3, QueueFacts, QueueAssumption DEF OverfillBounded
    <3>2. CASE Leave(t)
      <4>1. Hands' \subseteq InLoop' /\ InLoop' \subseteq InLoop
        BY <3>2, <2>1 DEF Leave, TypeOK, InLoop, Hands
      <4>2. Cardinality(Hands') <= Cardinality(InLoop') /\ Cardinality(InLoop') \in Nat
        BY <4>1, QueueFacts, FS_Subset, FS_CardinalityType
      <4>3. emailQueue' = <<>>
        BY <3>2 DEF Leave
      <4>4. Len(emailQueue') = 0
        BY <4>3
      <4> QED BY <2>1, <4>2, <4>4, QueueFacts, QueueAssumption DEF OverfillBounded
    <3>3. CASE Unregister(t)
      <4>1. InLoop' = InLoop /\ emailQueue' = emailQueue
        BY <3>3 DEF Unregister, TypeOK, InLoop, Hands
      <4> QED BY <2>1, <4>1 DEF OverfillBounded
    <3> QED BY <1>1, <3>1, <3>2, <3>3
  <2> QED BY <2>2, <2>3, <2>4
<1>2. CASE Fails(t)
  <2>1. /\ worker[t] = "sending" /\ hand[t].retries < MaxRetries
        /\ worker' = [worker EXCEPT ![t] = "pausing"]
        /\ hand' = [hand EXCEPT ![t].retries = @ + 1]
        /\ UNCHANGED <<emailQueue, handed, sent, dropped, activeWorkers, shuttingDown, stopped>>
    BY <1>2 DEF Fails
  <2>2. t \in Hands /\ Hands' = Hands /\ InLoop' = InLoop
    BY <2>1 DEF TypeOK, Hands, InLoop
  <2>3. hand[t] \in Emails
    BY <2>2, QueueFacts
  <2>4. hand'[t] \in Emails /\ hand'[t].id = hand[t].id
    BY <2>1, <2>3, QueueAssumption DEF TypeOK, Emails
  <2>5. \A u \in Threads : hand'[u].id = hand[u].id
    BY <2>1, <2>4 DEF TypeOK
  <2>6. Hands \subseteq Threads
    BY DEF Hands
  <2>7. InHand' = InHand
    BY <2>2, <2>5, <2>6 DEF InHand
  <2>8. TypeOK'
    <3>1. hand' \in [Threads -> Emails \cup {NoEmail}]
      BY <2>1, <2>4 DEF TypeOK
    <3>2. \A u \in Threads : (hand'[u] # NoEmail) = (u \in Hands')
      <4> SUFFICES ASSUME NEW u \in Threads PROVE (hand'[u] # NoEmail) = (u \in Hands')
        OBVIOUS
      <4>1. CASE u = t
        BY <2>2, <2>4, <4>1 DEF Emails, NoEmail
      <4>2. CASE u # t
        BY <2>1, <2>2, <4>2 DEF TypeOK
      <4> QED BY <4>1, <4>2
    <3> QED BY <2>1, <3>1, <3>2 DEF TypeOK, WorkerStates
  <2>9. OnePlace'
    BY <2>1, <2>2, <2>5, <2>6, <2>7 DEF OnePlace, Queued
  <2>10. EachEmailOnce' /\ OverfillBounded'
    BY <2>1, <2>2, <2>7 DEF EachEmailOnce, OverfillBounded, Queued
  <2> QED BY <2>8, <2>9, <2>10
<1> QED BY <1>1, <1>2

LEMMA QueueUnchanged ==
    ASSUME QueueInv, UNCHANGED <<qvars, worker, hand>>,
           activeWorkers' \subseteq Threads, shuttingDown' \in BOOLEAN, stopped' \in BOOLEAN
    PROVE  QueueInv'
<1>1. Hands' = Hands /\ InLoop' = InLoop
  BY DEF Hands, InLoop
<1>2. Queued' = Queued /\ InHand' = InHand
  BY <1>1 DEF Queued, InHand, qvars
<1>3. TypeOK'
  BY <1>1 DEF QueueInv, TypeOK, qvars
<1>4. OnePlace'
  BY <1>1, <1>2 DEF QueueInv, OnePlace, OnceIn, qvars
<1>5. EachEmailOnce' /\ OverfillBounded'
  BY <1>1, <1>2 DEF QueueInv, EachEmailOnce, OverfillBounded, qvars
<1> QED BY <1>3, <1>4, <1>5 DEF QueueInv

LEMMA QueueInvStep == QueueInv /\ [EmailNext]_evars => QueueInv'
<1> SUFFICES ASSUME QueueInv, [EmailNext]_evars PROVE QueueInv'
  OBVIOUS
<1>0. TypeOK
  BY DEF QueueInv
<1>1. CASE UNCHANGED vars
  BY <1>0, <1>1, QueueUnchanged DEF vars, TypeOK
<1>2. CASE Refused \/ Granted \/ QueueFull \/ GuardStep
  BY <1>1, <1>2 DEF Refused, Granted, QueueFull, GuardStep
<1>3. CASE Accepted
  BY <1>3, EnqueueKeeps DEF Accepted
<1>4. CASE QueueStep
  <2>1. CASE Stop \/ Stopped
    BY <1>0, <2>1, QueueUnchanged DEF Stop, Stopped, TypeOK, qvars
  <2>2. ASSUME NEW t \in Threads, WorkerStep(t) PROVE QueueInv'
    BY <2>2, TakeKeeps, SentKeeps, RequeueKeeps, WorkerKeeps DEF WorkerStep
  <2> QED BY <1>4, <2>1, <2>2 DEF QueueStep
<1> QED BY <1>1, <1>2, <1>3, <1>4 DEF EmailNext, evars

LEMMA QueueInvInit == EmailInit => QueueInv
<1> SUFFICES ASSUME EmailInit PROVE QueueInv
  OBVIOUS
<1>1. /\ emailQueue = <<>> /\ handed = 0 /\ sent = {} /\ dropped = {} /\ activeWorkers = {}
      /\ worker = [t \in Threads |-> "none"] /\ hand = [t \in Threads |-> NoEmail]
      /\ shuttingDown = FALSE /\ stopped = FALSE
  BY DEF EmailInit, Init
<1>2. Hands = {} /\ InLoop = {} /\ Queued = {} /\ InHand = {}
  <2>1. Hands = {} /\ InLoop = {}
    BY <1>1 DEF Hands, InLoop
  <2>2. DOMAIN emailQueue = {}
    BY <1>1
  <2> QED BY <2>1, <2>2 DEF Queued, InHand
<1>3. emailQueue \in Seq(Emails) /\ Len(emailQueue) = 0 /\ DOMAIN emailQueue = {}
  BY <1>1
<1>4. TypeOK
  <2>1. \A t \in Threads : (hand[t] # NoEmail) = (t \in Hands)
    BY <1>1, <1>2
  <2>2. worker \in [Threads -> WorkerStates] /\ hand \in [Threads -> Emails \cup {NoEmail}]
    BY <1>1 DEF WorkerStates
  <2>3. handed \in 0..MaxEmails /\ sent \subseteq 1..MaxEmails /\ dropped \subseteq 1..MaxEmails
    BY <1>1, QueueAssumption
  <2>4. activeWorkers \subseteq Threads /\ shuttingDown \in BOOLEAN /\ stopped \in BOOLEAN
    BY <1>1
  <2> QED BY <1>3, <2>1, <2>2, <2>3, <2>4 DEF TypeOK
<1>5. OnePlace
  BY <1>1, <1>2, <1>3 DEF OnePlace, OnceIn
<1>6. EachEmailOnce /\ OverfillBounded
  BY <1>1, <1>2, <1>3, FS_EmptySet, QueueAssumption DEF EachEmailOnce, OverfillBounded
<1> QED BY <1>4, <1>5, <1>6 DEF QueueInv

(* Types, places and counts of the queue hold in every behaviour.              *)
THEOREM QueueInvariant == EmailSpec => []QueueInv
BY QueueInvInit, QueueInvStep, PTL DEF EmailSpec

(* No e-mail is in two places at once, so none is sent twice or sent and given *)
(* up: whichever workers fail, pause, requeue, leave and are made meanwhile.   *)
THEOREM NoEmailTwice == EmailSpec => []OnePlace
<1>1. QueueInv => OnePlace BY DEF QueueInv
<1> QED BY <1>1, QueueInvariant, PTL

(* The counters of calls: each call is in exactly one of them.                 *)
LEMMA CallStep == TypeOK /\ CallInv /\ [EmailNext]_evars => CallInv'
<1> SUFFICES ASSUME TypeOK, CallInv, [EmailNext]_evars PROVE CallInv'
  OBVIOUS
<1> USE DEF CallInv, CallTypes, EveryCallCounted
<1>0. handed \in Nat
  BY QueueAssumption DEF TypeOK
<1>1. CASE UNCHANGED evars
  BY <1>1 DEF evars, vars, qvars, cvars
<1>2. CASE Refused \/ Granted \/ QueueFull
  BY <1>0, <1>2 DEF Refused, Granted, QueueFull, vars, qvars, gvars
<1>3. CASE Accepted
  BY <1>0, <1>3 DEF Accepted, Enqueue
<1>4. CASE GuardStep
  BY <1>4 DEF GuardStep, vars, qvars, cvars
<1>5. CASE QueueStep
  <2>1. handed' = handed
    BY <1>5 DEF QueueStep, Stop, Stopped, WorkerStep, Register, Take, Leave, Unregister, Sent, Fails,
       GivesUp, Requeue, qvars
  <2> QED BY <1>5, <2>1 DEF QueueStep, cvars
<1> QED BY <1>1, <1>2, <1>3, <1>4, <1>5 DEF EmailNext

(* Every call and every accepted e-mail is accounted for, with any number of   *)
(* callers and workers: a call is refused, turned away or accepted, an e-mail  *)
(* is queued, in one worker's hands, sent or dropped, and retries overfill the *)
(* queue by no more than the e-mails the workers had taken out.                *)
THEOREM EmailsNeverAstray == EmailSpec => []EmailsAccounted
<1>1. EmailInit => CallInv
  BY DEF EmailInit, Init, CallInv, CallTypes, EveryCallCounted
<1>2. QueueInv => TypeOK /\ EachEmailOnce /\ OverfillBounded
  BY DEF QueueInv
<1>3. CallInv => EveryCallCounted
  BY DEF CallInv
<1> QED BY <1>1, <1>2, <1>3, CallStep, QueueInvariant, PTL DEF EmailSpec, EmailsAccounted
================================================================================
