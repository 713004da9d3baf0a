--------------------------- MODULE RateLimiterProofs ---------------------------
(***************************************************************************)
(* Proofs about RateLimiter, for every number of addresses and every limit, *)
(* window, block length and clock bound the assumptions allow.             *)
(***************************************************************************)
EXTENDS RateLimiter, RecursionLemmas, TLAPS

-----------------------------------------------------------------------------
(* Types *)

\* Records of a blocked address are full, the others are not.
FullMeansBlocked ==
  \A ip \in Ips :
    attempts[ip] # None =>
      /\ attempts[ip].failedAttempts < MaxAttempts <=> attempts[ip].blockedUntil = None
      /\ attempts[ip].failedAttempts >= 1

LEMMA Pow2Solves == Pow2 = [n \in Nat |-> IF n = 0 THEN 1 ELSE 2 * Pow2[n - 1]]
<1> DEFINE F == [g \in [Nat -> Nat] |-> [n \in Nat |-> IF n = 0 THEN 1 ELSE 2 * g[n - 1]]]
<1>1. F \in [[Nat -> Nat] -> [Nat -> Nat]]
  OBVIOUS
<1>2. Contractive(F, Nat, Nat)
  <2> SUFFICES ASSUME NEW g \in [Nat -> Nat], NEW h \in [Nat -> Nat], NEW n \in Nat,
                      \A m \in Nat : m < n => g[m] = h[m]
               PROVE  F[g][n] = F[h][n]
    BY Zenon DEF Contractive
  <2>1. n # 0 => g[n - 1] = h[n - 1]
    OBVIOUS
  <2> QED
    BY <2>1
<1> HIDE DEF F
<1>3. Nat \in SUBSET Nat /\ Nat # {}
  OBVIOUS
<1>4. HasSolution(F, Nat, Nat)
  BY <1>1, <1>2, <1>3, RecursiveFunction, Zenon
<1>5. \E f : f = [n \in Nat |-> IF n = 0 THEN 1 ELSE 2 * f[n - 1]]
  BY <1>4 DEF F, HasSolution, Solves
<1> QED
  BY <1>5 DEF Pow2

LEMMA Pow2Range == \A n \in Nat : Pow2[n] \in Nat /\ Pow2[n] >= 1
<1> DEFINE T == {n \in Nat : Pow2[n] \in Nat /\ Pow2[n] >= 1}
<1>1. 0 \in T /\ \A n \in T : n + 1 \in T
  BY Pow2Solves
<1> HIDE DEF T
<1>2. T = Nat
  BY <1>1, Induction DEF T
<1> QED
  BY <1>2 DEF T

LEMMA BlockDurationRange ==
  ASSUME NEW n \in Nat \ {0} PROVE BlockDuration(n) \in BaseBlock..MaxBlock
<1> DEFINE p == Pow2[n - 1]
<1>1. p \in Nat /\ p >= 1
  BY Pow2Range
<1> HIDE DEF p
<1>2. BaseBlock * p \in Nat /\ BaseBlock * p >= BaseBlock
  BY <1>1, ConstantsAssumption
<1> QED
  BY <1>2, ConstantsAssumption DEF BlockDuration, AtMost, p

\* A block lasts twice as long as the one before it, or as long as a block may.
LEMMA BlockDurationDoubles ==
  ASSUME NEW n \in Nat \ {0}
  PROVE  BlockDuration(n + 1) = AtMost(MaxBlock, 2 * BlockDuration(n))
<1> DEFINE p == Pow2[n - 1]
<1>1. p \in Nat /\ p >= 1
  BY Pow2Range
<1>2. Pow2[n + 1 - 1] = 2 * p
  BY Pow2Solves
<1> HIDE DEF p
<1> DEFINE full == BaseBlock * p
<1>3. full \in Nat /\ BaseBlock * (2 * p) = 2 * full
  BY <1>1, ConstantsAssumption
<1>4. BlockDuration(n) = AtMost(MaxBlock, full)
  BY DEF BlockDuration, p
<1>5. BlockDuration(n + 1) = AtMost(MaxBlock, 2 * full)
  BY <1>2, <1>3 DEF BlockDuration
<1> HIDE DEF full
<1> QED
  BY <1>3, <1>4, <1>5, ConstantsAssumption DEF AtMost

LEMMA RecordsAreNotNone == \A r \in Records : r # None
BY NoneAssumption

\* What a wrong key makes of the record of an address that is not blocked.
LEMMA RecordedTyping ==
  ASSUME now \in Nat, NEW r \in Records \cup {None}, ~Running(r),
         r # None => (r.failedAttempts < MaxAttempts <=> r.blockedUntil = None)
  PROVE  LET q == Recorded(Checked(r))
         IN /\ q \in Records
            /\ q.failedAttempts < MaxAttempts <=> q.blockedUntil = None
            /\ q.failedAttempts >= 1
            /\ q.lastFailure = now
            /\ q.blockedUntil # None => q.blockedUntil >= now + BaseBlock
            /\ q.failedAttempts =
                 IF r = None \/ Expired(r) \/ now - r.lastFailure > Window
                 THEN 1 ELSE r.failedAttempts + 1
<1>0. /\ MaxAttempts \in Nat /\ MaxAttempts > 1 /\ Window \in Nat
      /\ BaseBlock \in Nat /\ MaxBlock \in Nat /\ None \notin Int
  BY ConstantsAssumption
<1>1. CASE r = None
  BY <1>0, <1>1 DEF Recorded, Record, Checked, Expired, Records
<1>2. CASE r # None /\ Expired(r)
  <2>1. /\ r \in Records
        /\ Checked(r) = Record(0, r.lastFailure, None, r.blockCount)
    BY <1>2 DEF Checked
  <2>2. /\ Checked(r) \in Records /\ Checked(r).blockedUntil = None
        /\ Checked(r).failedAttempts = 0 /\ Checked(r) # None
    BY <1>0, <2>1, NoneAssumption DEF Records, Record
  <2> QED
    BY <1>0, <1>2, <2>2 DEF Recorded, Record, LimitReached, Records
<1>3. CASE r # None /\ ~Expired(r)
  <2>1. /\ r \in Records /\ Checked(r) = r /\ r.blockedUntil = None
        /\ r.failedAttempts < MaxAttempts
    BY <1>0, <1>3 DEF Checked, Expired, Running, Records
  <2>2. BlockDuration(r.blockCount + 1) \in BaseBlock..MaxBlock
    BY <2>1, BlockDurationRange DEF Records
  <2>3. CASE now - r.lastFailure > Window
    BY <1>0, <1>3, <2>1, <2>3 DEF Recorded, Record, Records
  <2>4. CASE ~(now - r.lastFailure > Window) /\ ~LimitReached(r.failedAttempts + 1)
    BY <1>0, <1>3, <2>1, <2>4 DEF Recorded, Record, LimitReached, Records
  <2>5. CASE ~(now - r.lastFailure > Window) /\ LimitReached(r.failedAttempts + 1)
    BY <1>0, <1>3, <2>1, <2>2, <2>5 DEF Recorded, Record, LimitReached, Records
  <2> QED
    BY <2>3, <2>4, <2>5
<1> QED
  BY <1>1, <1>2, <1>3

\* What the history of failures becomes.
LEMMA RecentTyping ==
  ASSUME NEW s \in Seq(Nat), NEW t \in Nat
  PROVE  Recent(Append(s, t)) \in Seq(Nat)
<1>0. MaxAttempts \in Nat
  BY ConstantsAssumption
<1>1. Append(s, t) \in Seq(Nat) /\ Len(Append(s, t)) >= 1
  OBVIOUS
<1>2. CASE Len(Append(s, t)) > MaxAttempts + 1
  BY <1>0, <1>1, <1>2 DEF Recent
<1> QED
  BY <1>1, <1>2 DEF Recent

TypeInv == TypeOK /\ FullMeansBlocked

LEMMA TypeStep == TypeInv /\ [Next]_vars => TypeInv'
<1> SUFFICES ASSUME TypeInv, [Next]_vars PROVE TypeInv'
  OBVIOUS
<1> USE DEF TypeInv
<1>0. /\ now \in Nat /\ attempts \in [Ips -> Records \cup {None}]
      /\ failures \in [Ips -> Seq(Nat)]
      /\ block \in [Ips -> Blocks \cup {None}]
  BY DEF TypeOK
<1>1. ASSUME NEW ip \in Ips, Refuse(ip) PROVE TypeInv'
  BY <1>1 DEF Refuse, vars, TypeOK, FullMeansBlocked
<1>2. ASSUME NEW ip \in Ips, WrongKey(ip) PROVE TypeInv'
  <2> DEFINE q == Recorded(Checked(attempts[ip]))
  <2>1. /\ q \in Records /\ q.failedAttempts >= 1
        /\ q.failedAttempts < MaxAttempts <=> q.blockedUntil = None
    BY <1>0, <1>2, RecordedTyping DEF WrongKey, FullMeansBlocked
  <2>2. attempts' = [attempts EXCEPT ![ip] = q] /\ attempts'[ip] = q
    BY <1>0, <1>2 DEF WrongKey
  <2>3. attempts' \in [Ips -> Records \cup {None}]
    BY <1>0, <2>1, <2>2
  <2>4. failures' \in [Ips -> Seq(Nat)]
    BY <1>0, <1>2, RecentTyping DEF WrongKey
  <2>5. block' \in [Ips -> Blocks \cup {None}]
    <3>1. CASE q.blockedUntil = None
      BY <1>0, <1>2, <2>2, <3>1 DEF WrongKey
    <3>2. CASE q.blockedUntil # None
      <4>1. q.blockedUntil \in Nat
        BY <2>1, <3>2 DEF Records
      <4>2. block' = [block EXCEPT ![ip] = [from |-> now, until |-> q.blockedUntil]]
        BY <1>2, <2>2, <3>2 DEF WrongKey
      <4> QED
        BY <1>0, <4>1, <4>2 DEF Blocks
    <3> QED
      BY <3>1, <3>2
  <2>6. FullMeansBlocked'
    BY <1>0, <2>1, <2>2 DEF FullMeansBlocked
  <2> QED
    BY <1>0, <1>2, <2>3, <2>4, <2>5, <2>6 DEF TypeOK, WrongKey
<1>3. ASSUME NEW ip \in Ips, RightKey(ip) PROVE TypeInv'
  BY <1>0, <1>3 DEF RightKey, TypeOK, FullMeansBlocked
<1>4. ASSUME Cleanup PROVE TypeInv'
  BY <1>0, <1>4 DEF Cleanup, TypeOK, FullMeansBlocked
<1>5. ASSUME Tick PROVE TypeInv'
  BY <1>0, <1>5 DEF Tick, TypeOK, FullMeansBlocked
<1>6. CASE UNCHANGED vars
  BY <1>6 DEF vars, TypeOK, FullMeansBlocked
<1> QED
  BY <1>1, <1>2, <1>3, <1>4, <1>5, <1>6 DEF Next

LEMMA TypeInvariant == Spec => []TypeInv
<1>1. Init => TypeInv
  BY ConstantsAssumption DEF Init, TypeInv, TypeOK, FullMeansBlocked
<1> QED
  BY <1>1, TypeStep, PTL DEF Spec

\* The attempts of a record never pass the limit, whatever is requested and
\* whenever the cleanup runs.
THEOREM TypeCorrect == Spec => []TypeOK
<1>1. TypeInv => TypeOK
  BY DEF TypeInv
<1> QED
  BY <1>1, TypeInvariant, PTL

-----------------------------------------------------------------------------
(* Blocks *)

\* The record of an address still has the block that was imposed on it.
BlocksKept ==
  \A ip \in Ips :
    (block[ip] # None /\ now < block[ip].until) =>
      /\ attempts[ip] # None
      /\ attempts[ip].blockedUntil = block[ip].until

LEMMA BlockedIsRunning ==
  ASSUME TypeInv, BlocksKept, NEW ip \in Ips, block[ip] # None, now < block[ip].until
  PROVE  Running(attempts[ip])
<1>1. block[ip] \in Blocks
  BY DEF TypeInv, TypeOK
<1>2. block[ip].until # None
  BY <1>1, ConstantsAssumption DEF Blocks
<1> QED
  BY <1>2 DEF BlocksKept, Running

LEMMA BlocksStep == TypeInv /\ BlocksKept /\ [Next]_vars => BlocksKept'
<1> SUFFICES ASSUME TypeInv, BlocksKept, [Next]_vars PROVE BlocksKept'
  OBVIOUS
<1>0. /\ now \in Nat /\ attempts \in [Ips -> Records \cup {None}]
      /\ block \in [Ips -> Blocks \cup {None}]
  BY DEF TypeInv, TypeOK
<1>1. ASSUME NEW ip \in Ips, WrongKey(ip) PROVE BlocksKept'
  <2> DEFINE q == Recorded(Checked(attempts[ip]))
  <2>1. q \in Records /\ q # None
    BY <1>0, <1>1, RecordedTyping, RecordsAreNotNone DEF WrongKey, TypeInv, FullMeansBlocked
  <2>2. attempts' = [attempts EXCEPT ![ip] = q] /\ attempts'[ip] = q /\ now' = now
    BY <1>0, <1>1 DEF WrongKey
  <2>3. \A other \in Ips \ {ip} : attempts'[other] = attempts[other] /\ block'[other] = block[other]
    BY <1>0, <1>1, <2>2 DEF WrongKey
  <2>4. CASE q.blockedUntil = None
    <3>1. block' = block
      BY <1>1, <2>2, <2>4 DEF WrongKey
    <3>2. ~(block[ip] # None /\ now < block[ip].until)
      BY <1>1, BlockedIsRunning DEF WrongKey
    <3> QED
      BY <2>2, <2>3, <3>1, <3>2 DEF BlocksKept
  <2>5. CASE q.blockedUntil # None
    <3>1. block'[ip] = [from |-> now, until |-> q.blockedUntil]
      BY <1>0, <1>1, <2>2, <2>5 DEF WrongKey
    <3> QED
      BY <2>1, <2>2, <2>3, <3>1 DEF BlocksKept
  <2> QED
    BY <2>4, <2>5
<1>2. ASSUME NEW ip \in Ips, RightKey(ip) PROVE BlocksKept'
  BY <1>0, <1>2 DEF RightKey, BlocksKept
<1>3. ASSUME Cleanup PROVE BlocksKept'
  <2>1. ASSUME NEW ip \in Ips, block[ip] # None, now < block[ip].until
        PROVE  ~Disposable(attempts[ip])
    <3>1. Running(attempts[ip])
      BY <2>1, BlockedIsRunning
    <3>2. attempts[ip].blockedUntil \in Nat
      BY <1>0, <3>1 DEF Running, Records
    <3> QED
      BY <1>0, <3>1, <3>2 DEF Running, Disposable, Expired
  <2> QED
    BY <1>0, <1>3, <2>1 DEF Cleanup, BlocksKept
<1>4. ASSUME Tick PROVE BlocksKept'
  BY <1>0, <1>4 DEF Tick, BlocksKept, Blocks
<1>5. CASE UNCHANGED vars
  BY <1>5 DEF vars, BlocksKept
<1> QED
  BY <1>1, <1>2, <1>3, <1>4, <1>5 DEF Next, Refuse

\* No key of a blocked address is looked at before the end of the block.
THEOREM BlocksHold == Spec => BlocksAreServed
<1>1. Init => BlocksKept
  BY DEF Init, BlocksKept
<1>2. TypeInv /\ BlocksKept /\ [Next]_vars =>
        [\A ip \in Ips :
           (block[ip] # None /\ now < block[ip].until)
             => UNCHANGED <<failures[ip], block[ip]>>]_vars
  <2> SUFFICES ASSUME TypeInv, BlocksKept, [Next]_vars,
                      NEW ip \in Ips, block[ip] # None, now < block[ip].until
               PROVE  UNCHANGED <<failures[ip], block[ip]>>
    OBVIOUS
  <2>1. Running(attempts[ip])
    BY BlockedIsRunning
  <2>2. /\ failures \in [Ips -> Seq(Nat)]
        /\ block \in [Ips -> Blocks \cup {None}]
    BY DEF TypeInv, TypeOK
  <2>3. ASSUME NEW other \in Ips, WrongKey(other) \/ RightKey(other)
        PROVE  UNCHANGED <<failures[ip], block[ip]>>
    <3>1. other # ip
      BY <2>1, <2>3 DEF WrongKey, RightKey
    <3> QED
      BY <2>2, <2>3, <3>1 DEF WrongKey, RightKey
  <2>4. ASSUME UNCHANGED <<failures, block>> PROVE UNCHANGED <<failures[ip], block[ip]>>
    BY <2>4
  <2> QED
    BY <2>3, <2>4 DEF Next, Refuse, Cleanup, Tick, vars
<1> QED
  BY <1>1, <1>2, BlocksStep, TypeInvariant, PTL DEF Spec, BlocksAreServed

-----------------------------------------------------------------------------
(* The rate of failures *)

\* Adding a failure: the sequence grows (w = 0) until it is full, then it shifts.
LEMMA RecentAppend ==
  ASSUME NEW s \in Seq(Nat), NEW t \in Nat, Len(s) <= MaxAttempts + 1,
         NEW u, u = Recent(Append(s, t))
  PROVE  /\ u \in Seq(Nat) /\ u[Len(u)] = t
         /\ \E w \in {0, 1} :
              /\ Len(u) = Len(s) + 1 - w
              /\ Len(u) <= MaxAttempts + 1
              /\ w = 1 => Len(s) = MaxAttempts + 1
              /\ \A i \in 1..(Len(u) - 1) : u[i] = s[i + w]
<1>0. MaxAttempts \in Nat
  BY ConstantsAssumption
<1> DEFINE a == Append(s, t)
<1>1. /\ a \in Seq(Nat) /\ Len(a) = Len(s) + 1 /\ Len(s) \in Nat
      /\ a[Len(s) + 1] = t /\ \A i \in 1..Len(s) : a[i] = s[i]
  OBVIOUS
<1>2. CASE Len(s) <= MaxAttempts
  <2>1. u = a
    BY <1>0, <1>1, <1>2 DEF Recent
  <2> HIDE DEF a
  <2>2. /\ Len(u) = Len(s) + 1 - 0 /\ Len(u) <= MaxAttempts + 1
        /\ \A i \in 1..(Len(u) - 1) : u[i] = s[i + 0]
    BY <1>0, <1>1, <1>2, <2>1
  <2> QED
    BY <1>0, <1>1, <2>1, <2>2
<1>3. CASE Len(s) = MaxAttempts + 1
  <2>1. u = Tail(a)
    BY <1>0, <1>1, <1>3 DEF Recent
  <2> HIDE DEF a
  <2>2. /\ Tail(a) \in Seq(Nat) /\ Len(Tail(a)) = Len(a) - 1
        /\ \A i \in 1..(Len(a) - 1) : Tail(a)[i] = a[i + 1]
    BY <1>0, <1>1, <1>3
  <2>3. /\ Len(u) = Len(s) + 1 - 1 /\ Len(u) <= MaxAttempts + 1
        /\ \A i \in 1..(Len(u) - 1) : u[i] = s[i + 1]
    BY <1>0, <1>1, <1>3, <2>1, <2>2
  <2> QED
    BY <1>0, <1>1, <1>3, <2>1, <2>2, <2>3
<1> QED
  BY <1>0, <1>1, <1>2, <1>3

Ordered(s) == \A i, j \in 1..Len(s) : i <= j => s[i] <= s[j]

\* What a failure history and a record have in common: the record counts the last
\* failures, and a quiet time lies before the ones it counts.
Counts(s, r) ==
  /\ Len(s) <= MaxAttempts + 1
  /\ Ordered(s)
  /\ Len(s) = MaxAttempts + 1 => s[Len(s)] - s[1] >= Quiet
  /\ r # None =>
       /\ r.failedAttempts <= Len(s)
       /\ s[Len(s)] = r.lastFailure
       /\ r.blockedUntil # None => r.blockedUntil >= r.lastFailure + BaseBlock
       /\ Len(s) > r.failedAttempts =>
            s[Len(s) - r.failedAttempts + 1] - s[Len(s) - r.failedAttempts] >= Quiet

\* At time t: when there is no record, the quiet time has passed already.
Matches(s, r, t) ==
  /\ Counts(s, r)
  /\ \A i \in 1..Len(s) : s[i] <= t
  /\ r = None /\ Len(s) > 0 => t - s[Len(s)] >= Quiet

LEMMA QuietRange ==
  Quiet \in Nat /\ Quiet <= Window + 1 /\ Quiet <= BaseBlock
BY ConstantsAssumption DEF Quiet, AtMost

\* A quiet time anywhere makes a full history long enough.
LEMMA GapSpans ==
  ASSUME NEW s \in Seq(Nat), Ordered(s), NEW i \in 1..Len(s), i + 1 \in 1..Len(s),
         s[i + 1] - s[i] >= Quiet
  PROVE  s[Len(s)] - s[1] >= Quiet
<1>1. /\ Len(s) \in 1..Len(s) /\ 1 \in 1..Len(s)
      /\ s[1] \in Nat /\ s[i] \in Nat /\ s[i + 1] \in Nat /\ s[Len(s)] \in Nat
  OBVIOUS
<1>2. s[1] <= s[i] /\ s[i + 1] <= s[Len(s)]
  BY <1>1 DEF Ordered
<1> QED
  BY <1>1, <1>2, QuietRange

LEMMA RecordedMatches ==
  ASSUME NEW s \in Seq(Nat), NEW r \in Records \cup {None}, now \in Nat,
         Matches(s, r, now), ~Running(r),
         r # None => (r.failedAttempts < MaxAttempts <=> r.blockedUntil = None),
         r # None => r.failedAttempts >= 1,
         NEW u, u = Recent(Append(s, now)),
         NEW q, q = Recorded(Checked(r))
  PROVE  Matches(u, q, now)
<1>0. /\ MaxAttempts \in Nat /\ MaxAttempts > 1 /\ Window \in Nat /\ BaseBlock \in Nat
      /\ Len(s) \in Nat
  BY ConstantsAssumption
<1>1. /\ q \in Records /\ q # None /\ q.lastFailure = now
      /\ q.failedAttempts \in Nat /\ q.failedAttempts >= 1
      /\ q.blockedUntil # None => q.blockedUntil >= now + BaseBlock
      /\ q.failedAttempts =
           IF r = None \/ Expired(r) \/ now - r.lastFailure > Window
           THEN 1 ELSE r.failedAttempts + 1
  <2>1. q \in Records /\ q # None
    BY RecordedTyping, RecordsAreNotNone
  <2>2. q.failedAttempts \in Nat
    BY <1>0, <2>1 DEF Records
  <2> QED
    BY <1>0, <2>1, <2>2, RecordedTyping
<1>2. Len(s) <= MaxAttempts + 1
  BY DEF Matches, Counts
<1>3. PICK w \in {0, 1} :
        /\ Len(u) = Len(s) + 1 - w
        /\ Len(u) <= MaxAttempts + 1
        /\ w = 1 => Len(s) = MaxAttempts + 1
        /\ \A i \in 1..(Len(u) - 1) : u[i] = s[i + w]
  BY <1>2, RecentAppend
<1>4. u \in Seq(Nat) /\ u[Len(u)] = now /\ Len(u) \in Nat /\ Len(u) >= 1
  BY <1>0, <1>2, <1>3, RecentAppend
<1>5. \A i \in 1..Len(s) : s[i] \in Nat /\ s[i] <= now
  BY DEF Matches
<1>6. \A i \in 1..(Len(u) - 1) : i + w \in 1..Len(s)
  BY <1>0, <1>3
<1>7. Ordered(u) /\ \A i \in 1..Len(u) : u[i] <= now
  <2>1. ASSUME NEW i \in 1..(Len(u) - 1) PROVE u[i] <= now
    BY <1>3, <1>5, <1>6
  <2>2. ASSUME NEW i \in 1..Len(u) PROVE u[i] <= now
    BY <1>4, <2>1
  <2>3. ASSUME NEW i \in 1..(Len(u) - 1), NEW j \in 1..(Len(u) - 1), i <= j
        PROVE  u[i] <= u[j]
    <3>1. i + w \in 1..Len(s) /\ j + w \in 1..Len(s) /\ i + w <= j + w
      BY <1>6, <2>3
    <3>2. s[i + w] <= s[j + w]
      BY <3>1 DEF Matches, Counts, Ordered
    <3> QED
      BY <1>3, <3>2
  <2>4. ASSUME NEW i \in 1..Len(u), NEW j \in 1..Len(u), i <= j PROVE u[i] <= u[j]
    <3>1. CASE j = Len(u)
      BY <1>4, <2>2, <3>1
    <3>2. CASE j # Len(u)
      <4>1. Len(u) \in Nat /\ i \in Nat /\ j \in Nat /\ i >= 1 /\ j < Len(u)
        BY <1>4, <3>2
      <4>2. i \in 1..(Len(u) - 1) /\ j \in 1..(Len(u) - 1)
        BY <2>4, <4>1
      <4> QED
        BY <2>3, <2>4, <4>2
    <3> QED
      BY <3>1, <3>2
  <2> QED
    BY <2>2, <2>4 DEF Ordered
<1>8. q.failedAttempts <= Len(u)
  <2>1. CASE q.failedAttempts = 1
    BY <1>4, <2>1
  <2>2. CASE q.failedAttempts # 1
    <3>1. /\ r # None /\ r.failedAttempts \in Nat /\ r.failedAttempts < MaxAttempts
          /\ q.failedAttempts = r.failedAttempts + 1
      BY <1>0, <1>1, <2>2 DEF Records, Running, Expired
    <3>2. r.failedAttempts <= Len(s)
      BY <3>1 DEF Matches, Counts
    <3> QED
      BY <1>0, <1>3, <3>1, <3>2
  <2> QED
    BY <2>1, <2>2
\* The quiet time before the failures the record now counts.
<1>9. ASSUME Len(u) > q.failedAttempts
      PROVE  u[Len(u) - q.failedAttempts + 1] - u[Len(u) - q.failedAttempts] >= Quiet
  <2>1. CASE r = None \/ Expired(r) \/ now - r.lastFailure > Window
    <3>1. q.failedAttempts = 1 /\ Len(u) >= 2 /\ Len(s) >= 1
      BY <1>0, <1>1, <1>3, <1>4, <1>9, <2>1
    <3>2. u[Len(u) - 1] = s[Len(s)]
      <4>1. Len(u) - 1 \in 1..(Len(u) - 1) /\ Len(u) - 1 + w = Len(s)
        BY <1>0, <1>3, <1>4, <3>1
      <4> QED
        BY <1>3, <4>1
    <3>3. now - s[Len(s)] >= Quiet
      <4>1. CASE r = None
        BY <1>0, <3>1, <4>1 DEF Matches, Counts
      <4>2. CASE r # None /\ Expired(r)
        <5>1. r.blockedUntil \in Nat /\ now >= r.blockedUntil /\ r.lastFailure \in Nat
          BY <1>0, <4>2 DEF Expired, Records
        <5>2. s[Len(s)] = r.lastFailure /\ r.blockedUntil >= r.lastFailure + BaseBlock
          BY <4>2, <5>1 DEF Matches, Counts, Expired
        <5> QED
          BY <1>0, <5>1, <5>2, QuietRange
      <4>3. CASE r # None /\ now - r.lastFailure > Window
        <5>1. s[Len(s)] = r.lastFailure /\ r.lastFailure \in Nat
          BY <1>0, <4>3 DEF Matches, Counts, Records
        <5> QED
          BY <1>0, <4>3, <5>1, QuietRange
      <4> QED
        BY <2>1, <4>1, <4>2, <4>3
    <3>4. Len(u) - q.failedAttempts + 1 = Len(u) /\ Len(u) - q.failedAttempts = Len(u) - 1
      BY <1>4, <3>1
    <3> QED
      BY <1>4, <3>2, <3>3, <3>4
  <2>2. CASE ~(r = None \/ Expired(r) \/ now - r.lastFailure > Window)
    <3> DEFINE n == r.failedAttempts
               k == Len(u) - q.failedAttempts
    <3>1. n \in Nat /\ n >= 1 /\ q.failedAttempts = n + 1
      BY <1>0, <1>1, <2>2 DEF Records
    <3>2. Len(s) > n => s[Len(s) - n + 1] - s[Len(s) - n] >= Quiet
      BY <2>2 DEF Matches, Counts
    <3> HIDE DEF n
    <3>3. k + w = Len(s) - n /\ k + 1 + w = Len(s) - n + 1
      BY <1>0, <1>3, <1>4, <3>1
    <3>4. k \in 1..(Len(u) - 1) /\ k + 1 \in 1..(Len(u) - 1)
      BY <1>0, <1>4, <1>9, <3>1
    <3> HIDE DEF k
    <3>5. u[k] = s[Len(s) - n] /\ u[k + 1] = s[Len(s) - n + 1]
      BY <1>3, <3>3, <3>4
    <3>6. Len(s) > n
      BY <1>0, <3>1, <3>3, <3>4
    <3>7. u[k + 1] - u[k] >= Quiet
      BY <3>2, <3>5, <3>6
    <3> QED
      BY <3>7 DEF k
  <2> QED
    BY <2>1, <2>2
<1>10. Len(u) = MaxAttempts + 1 => u[Len(u)] - u[1] >= Quiet
  <2> SUFFICES ASSUME Len(u) = MaxAttempts + 1 PROVE u[Len(u)] - u[1] >= Quiet
    OBVIOUS
  <2>1. q.failedAttempts <= MaxAttempts
    BY <1>0, <1>1 DEF Records
  <2> DEFINE k == Len(u) - q.failedAttempts
  <2>2. k \in 1..Len(u) /\ k + 1 \in 1..Len(u)
    BY <1>0, <1>1, <1>4, <2>1
  <2>3. u[k + 1] - u[k] >= Quiet
    BY <1>0, <1>1, <1>9, <2>1
  <2> HIDE DEF k
  <2> QED
    BY <1>4, <1>7, <2>2, <2>3, GapSpans
<1> QED
  BY <1>1, <1>3, <1>4, <1>7, <1>8, <1>9, <1>10 DEF Matches, Counts

LEMMA MatchesLater ==
  ASSUME NEW t \in Nat, NEW s \in Seq(Nat), NEW r, Matches(s, r, t)
  PROVE  Matches(s, r, t + 1)
<1>1. ASSUME NEW i \in 1..Len(s) PROVE s[i] <= t + 1
  <2>1. s[i] \in Nat /\ s[i] <= t
    BY DEF Matches
  <2> QED
    BY <2>1
<1>2. ASSUME r = None, Len(s) > 0 PROVE t + 1 - s[Len(s)] >= Quiet
  <2>1. s[Len(s)] \in Nat /\ t - s[Len(s)] >= Quiet
    BY <1>2 DEF Matches
  <2> QED
    BY <2>1, QuietRange
<1> QED
  BY <1>1, <1>2 DEF Matches

RateInv == \A ip \in Ips : Matches(failures[ip], attempts[ip], now)

LEMMA RateStep == TypeInv /\ RateInv /\ [Next]_vars => RateInv'
<1> SUFFICES ASSUME TypeInv, RateInv, [Next]_vars PROVE RateInv'
  OBVIOUS
<1>0. /\ now \in Nat /\ attempts \in [Ips -> Records \cup {None}]
      /\ failures \in [Ips -> Seq(Nat)]
  BY DEF TypeInv, TypeOK
<1>1. ASSUME NEW ip \in Ips, WrongKey(ip) PROVE RateInv'
  <2>1. /\ attempts'[ip] = Recorded(Checked(attempts[ip]))
        /\ failures'[ip] = Recent(Append(failures[ip], now))
        /\ now' = now
        /\ \A other \in Ips \ {ip} :
             attempts'[other] = attempts[other] /\ failures'[other] = failures[other]
    BY <1>0, <1>1 DEF WrongKey
  <2>2. /\ failures[ip] \in Seq(Nat) /\ attempts[ip] \in Records \cup {None}
        /\ Matches(failures[ip], attempts[ip], now) /\ ~Running(attempts[ip])
        /\ attempts[ip] # None =>
             (attempts[ip].failedAttempts < MaxAttempts <=> attempts[ip].blockedUntil = None)
        /\ attempts[ip] # None => attempts[ip].failedAttempts >= 1
    BY <1>0, <1>1 DEF WrongKey, RateInv, TypeInv, FullMeansBlocked
  <2>3. Matches(failures'[ip], attempts'[ip], now)
    BY <1>0, <2>1, <2>2, RecordedMatches
  <2>4. ASSUME NEW other \in Ips PROVE Matches(failures'[other], attempts'[other], now')
    <3>1. CASE other = ip
      BY <2>1, <2>3, <3>1
    <3>2. CASE other # ip
      BY <2>1, <3>2 DEF RateInv
    <3> QED
      BY <3>1, <3>2
  <2>5. RateInv' <=> \A other \in Ips : Matches(failures'[other], attempts'[other], now')
    BY DEF RateInv, Matches, Counts, Ordered, Quiet, AtMost
  <2> QED
    BY <2>4, <2>5
<1>2. ASSUME NEW ip \in Ips, RightKey(ip) PROVE RateInv'
  <2>1. /\ attempts' = [attempts EXCEPT ![ip] = None]
        /\ failures' = [failures EXCEPT ![ip] = <<>>]
        /\ now' = now
    BY <1>2 DEF RightKey
  <2>2. ASSUME NEW other \in Ips PROVE Matches(failures'[other], attempts'[other], now')
    <3>1. CASE other = ip
      BY <1>0, <2>1, <3>1, ConstantsAssumption DEF Matches, Counts, Ordered
    <3>2. CASE other # ip
      BY <1>0, <2>1, <3>2 DEF RateInv
    <3> QED
      BY <3>1, <3>2
  <2>3. RateInv' <=> \A other \in Ips : Matches(failures'[other], attempts'[other], now')
    BY DEF RateInv, Matches, Counts, Ordered, Quiet, AtMost
  <2> QED
    BY <2>2, <2>3
<1>3. ASSUME Cleanup PROVE RateInv'
  <2>1. ASSUME NEW ip \in Ips, Disposable(attempts[ip])
        PROVE  Matches(failures[ip], None, now)
    <3> DEFINE s == failures[ip]
               r == attempts[ip]
    <3>1. Matches(s, r, now) /\ r \in Records /\ s \in Seq(Nat)
      BY <1>0, <2>1 DEF RateInv, Disposable, Expired
    <3>2. s[Len(s)] = r.lastFailure /\ r.lastFailure \in Nat
      BY <3>1, RecordsAreNotNone DEF Matches, Counts, Records
    <3>3. now - r.lastFailure >= Quiet
      <4>1. CASE Expired(r)
        <5>1. r.blockedUntil \in Nat /\ now >= r.blockedUntil
          BY <3>1, <4>1 DEF Expired, Records
        <5>2. r.blockedUntil >= r.lastFailure + BaseBlock
          BY <3>1, <4>1 DEF Expired, Matches, Counts
        <5> QED
          BY <1>0, <3>2, <5>1, <5>2, QuietRange, ConstantsAssumption
      <4>2. CASE ~Expired(r)
        <5>1. now - r.lastFailure > Window
          BY <2>1, <4>2 DEF Disposable
        <5> QED
          BY <1>0, <3>2, <5>1, QuietRange, ConstantsAssumption
      <4> QED
        BY <4>1, <4>2
    <3> QED
      BY <3>1, <3>2, <3>3 DEF Matches, Counts
  <2>2. ASSUME NEW ip \in Ips PROVE Matches(failures'[ip], attempts'[ip], now')
    <3>1. /\ failures'[ip] = failures[ip] /\ now' = now
          /\ attempts'[ip] = IF Disposable(attempts[ip]) THEN None ELSE attempts[ip]
      BY <1>3 DEF Cleanup
    <3> QED
      BY <2>1, <3>1 DEF RateInv
  <2>3. RateInv' <=> \A ip \in Ips : Matches(failures'[ip], attempts'[ip], now')
    BY DEF RateInv, Matches, Counts, Ordered, Quiet, AtMost
  <2> QED
    BY <2>2, <2>3
<1>4. ASSUME Tick PROVE RateInv'
  <2>1. ASSUME NEW ip \in Ips PROVE Matches(failures[ip], attempts[ip], now + 1)
    BY <1>0, MatchesLater DEF RateInv
  <2>2. UNCHANGED <<failures, attempts>> /\ now' = now + 1
    BY <1>4 DEF Tick
  <2>3. RateInv' <=> \A ip \in Ips : Matches(failures'[ip], attempts'[ip], now')
    BY DEF RateInv, Matches, Counts, Ordered, Quiet, AtMost
  <2> QED
    BY <2>1, <2>2, <2>3
<1>5. ASSUME UNCHANGED vars PROVE RateInv'
  <2>1. UNCHANGED <<now, attempts, failures>>
    BY <1>5 DEF vars
  <2>2. RateInv' <=> \A ip \in Ips : Matches(failures'[ip], attempts'[ip], now')
    BY DEF RateInv, Matches, Counts, Ordered, Quiet, AtMost
  <2> QED
    BY <2>1, <2>2 DEF RateInv
<1>6. ASSUME NEW ip \in Ips, Refuse(ip) PROVE RateInv'
  BY <1>5, <1>6 DEF Refuse
<1>7. CASE Next
  BY <1>1, <1>2, <1>3, <1>4, <1>6, <1>7 DEF Next
<1> QED
  BY <1>5, <1>7

\* However checks, resets, cleanups and right keys fall, MaxAttempts + 1 wrong keys
\* of one address take at least a window or a base block.
THEOREM FailuresAreRateBounded == Spec => []FailureRateBounded
<1>1. Init => RateInv
  <2> SUFFICES ASSUME Init, NEW ip \in Ips PROVE Matches(failures[ip], attempts[ip], now)
    BY DEF RateInv
  <2>1. failures[ip] = <<>> /\ attempts[ip] = None /\ Len(failures[ip]) = 0
    BY DEF Init
  <2> QED
    BY <2>1, ConstantsAssumption DEF Matches, Counts, Ordered
<1>2. RateInv => FailureRateBounded
  BY DEF RateInv, Matches, Counts, FailureRateBounded
<1> QED
  BY <1>1, <1>2, RateStep, TypeInvariant, PTL DEF Spec

-----------------------------------------------------------------------------
(* The length of blocks *)

\* The last block of an address with a record is as long as its count says.
CountsMatch(r, b) ==
  r # None /\ r.blockCount > 0 =>
    b # None /\ b.until - b.from = BlockDuration(r.blockCount)

BlocksCounted == \A ip \in Ips : CountsMatch(attempts[ip], block[ip])

\* A wrong key that imposes a block counts it, any other leaves the count.
LEMMA RecordedCount ==
  ASSUME now \in Nat, NEW r \in Records \cup {None}, ~Running(r)
  PROVE  LET q == Recorded(Checked(r))
         IN IF q.blockedUntil = None
            THEN q.blockCount = IF r = None THEN 0 ELSE r.blockCount
            ELSE /\ r # None
                 /\ q.blockCount = r.blockCount + 1
                 /\ q.blockedUntil = now + BlockDuration(r.blockCount + 1)
<1>0. /\ MaxAttempts \in Nat /\ MaxAttempts > 1 /\ Window \in Nat /\ None \notin Int
  BY ConstantsAssumption
<1>1. CASE r = None
  BY <1>0, <1>1 DEF Recorded, Record, Checked, Expired
<1>2. CASE r # None
  <2> DEFINE c == Checked(r)
  <2>1. /\ c \in Records /\ c # None /\ c.blockedUntil = None /\ c.blockCount = r.blockCount
        /\ c.blockCount \in Nat
    <3>1. r \in Records
      BY <1>2
    <3>2. CASE Expired(r)
      <4>1. c = Record(0, r.lastFailure, None, r.blockCount)
        BY <3>2 DEF Checked
      <4>2. c \in Records
        BY <1>0, <3>1, <4>1 DEF Records, Record
      <4> QED
        BY <3>1, <4>1, <4>2, RecordsAreNotNone DEF Records, Record
    <3>3. CASE ~Expired(r)
      BY <1>2, <3>1, <3>3 DEF Checked, Expired, Running, Records
    <3> QED
      BY <3>2, <3>3
  <2> HIDE DEF c
  <2>2. now + BlockDuration(c.blockCount + 1) # None
    BY <1>0, <2>1, BlockDurationRange, ConstantsAssumption
  <2> QED
    BY <1>2, <2>1, <2>2 DEF Recorded, Record, c
<1> QED
  BY <1>1, <1>2

LEMMA CountsStep == TypeInv /\ BlocksCounted /\ [Next]_vars => BlocksCounted'
<1> SUFFICES ASSUME TypeInv, BlocksCounted, [Next]_vars PROVE BlocksCounted'
  OBVIOUS
<1>0. /\ now \in Nat /\ attempts \in [Ips -> Records \cup {None}]
      /\ block \in [Ips -> Blocks \cup {None}]
  BY DEF TypeInv, TypeOK
<1>1. BlocksCounted' <=> \A ip \in Ips : CountsMatch(attempts'[ip], block'[ip])
  BY DEF BlocksCounted, CountsMatch, BlockDuration, AtMost
<1>2. ASSUME NEW ip \in Ips, WrongKey(ip) PROVE BlocksCounted'
  <2> DEFINE r == attempts[ip]
             q == Recorded(Checked(r))
  <2>1. /\ attempts' = [attempts EXCEPT ![ip] = q]
        /\ attempts'[ip] = q /\ r \in Records \cup {None} /\ ~Running(r)
    BY <1>0, <1>2 DEF WrongKey
  <2>2. \A other \in Ips \ {ip} : attempts'[other] = attempts[other] /\ block'[other] = block[other]
    BY <1>0, <1>2, <2>1 DEF WrongKey
  <2>3. CASE q.blockedUntil = None
    <3>1. q.blockCount = IF r = None THEN 0 ELSE r.blockCount
      BY <1>0, <2>1, <2>3, RecordedCount
    <3>2. block' = block
      BY <1>2, <2>1, <2>3 DEF WrongKey
    <3>3. CountsMatch(q, block[ip])
      BY <3>1 DEF BlocksCounted, CountsMatch
    <3> QED
      BY <1>1, <2>1, <2>2, <3>2, <3>3 DEF BlocksCounted
  <2>4. CASE q.blockedUntil # None
    <3>1. /\ r \in Records /\ q.blockCount = r.blockCount + 1
          /\ q.blockedUntil = now + BlockDuration(r.blockCount + 1)
      BY <1>0, <2>1, <2>4, RecordedCount
    <3>2. BlockDuration(r.blockCount + 1) \in Nat
      BY <3>1, BlockDurationRange, ConstantsAssumption DEF Records
    <3>3. block'[ip] = [from |-> now, until |-> q.blockedUntil]
      BY <1>0, <1>2, <2>1, <2>4 DEF WrongKey
    <3>4. block'[ip] # None
      <4>1. block'[ip] \in Blocks
        BY <1>0, <3>1, <3>2, <3>3 DEF Blocks
      <4> QED
        BY <4>1, NoneAssumption
    <3>5. CountsMatch(q, block'[ip])
      BY <1>0, <3>1, <3>2, <3>3, <3>4 DEF CountsMatch
    <3> QED
      BY <1>1, <2>1, <2>2, <3>5 DEF BlocksCounted
  <2> QED
    BY <2>3, <2>4
<1>3. ASSUME NEW ip \in Ips, RightKey(ip) PROVE BlocksCounted'
  BY <1>0, <1>1, <1>3 DEF RightKey, BlocksCounted, CountsMatch
<1>4. ASSUME Cleanup PROVE BlocksCounted'
  BY <1>0, <1>1, <1>4 DEF Cleanup, BlocksCounted, CountsMatch
<1>5. ASSUME Tick \/ UNCHANGED vars PROVE BlocksCounted'
  BY <1>1, <1>5 DEF Tick, vars, BlocksCounted
<1> QED
  BY <1>2, <1>3, <1>4, <1>5 DEF Next, Refuse

\* Through every reset of the attempts, each block of an address lasts twice as
\* long as the one before it, up to the maximum, and the first of a record the base.
THEOREM EachBlockDoubles == Spec => BlocksDouble
<1>1. Init => BlocksCounted
  BY DEF Init, BlocksCounted, CountsMatch
<1>2. ASSUME TypeInv, BlocksCounted, [Next]_vars, NEW ip \in Ips, block'[ip] \notin {block[ip], None}
      PROVE  block'[ip].until - block'[ip].from =
               IF attempts[ip].blockCount = 0 THEN BaseBlock ELSE Twice(block[ip])
  <2>0. /\ now \in Nat /\ attempts \in [Ips -> Records \cup {None}]
        /\ block \in [Ips -> Blocks \cup {None}]
    BY <1>2 DEF TypeInv, TypeOK
  <2> DEFINE r == attempts[ip]
             q == Recorded(Checked(r))
             n == r.blockCount
  <2>1. WrongKey(ip)
    BY <1>2, <2>0 DEF Next, Refuse, WrongKey, RightKey, Cleanup, Tick, vars
  <2>2. /\ attempts'[ip] = q /\ q.blockedUntil # None
        /\ block'[ip] = [from |-> now, until |-> q.blockedUntil]
    BY <1>2, <2>0, <2>1 DEF WrongKey
  <2>3. r # None /\ q.blockedUntil = now + BlockDuration(n + 1)
    BY <2>0, <2>1, <2>2, RecordedCount DEF WrongKey
  <2>4. n \in Nat
    BY <2>0, <2>3 DEF Records
  <2>5. BlockDuration(n + 1) \in Nat
    BY <2>4, BlockDurationRange, ConstantsAssumption
  <2>6. block'[ip].until - block'[ip].from = BlockDuration(n + 1)
    BY <2>0, <2>2, <2>3, <2>5
  <2>7. CASE n = 0
    <3>1. Pow2[0] = 1
      BY Pow2Solves
    <3>2. BlockDuration(n + 1) = BaseBlock
      BY <2>7, <3>1, ConstantsAssumption DEF BlockDuration, AtMost
    <3> QED
      BY <2>6, <2>7, <3>2
  <2>8. CASE n # 0
    <3>1. block[ip].until - block[ip].from = BlockDuration(n)
      BY <1>2, <2>3, <2>4, <2>8 DEF BlocksCounted, CountsMatch
    <3>2. BlockDuration(n + 1) = Twice(block[ip])
      BY <2>4, <2>8, <3>1, BlockDurationDoubles DEF Twice
    <3> QED
      BY <2>6, <2>8, <3>2
  <2> QED
    BY <2>7, <2>8
<1>3. TypeInv /\ BlocksCounted /\ [Next]_vars =>
        [\A ip \in Ips : block'[ip] \notin {block[ip], None} =>
           block'[ip].until - block'[ip].from =
             IF attempts[ip].blockCount = 0 THEN BaseBlock ELSE Twice(block[ip])]_vars
  BY <1>2
<1> QED
  BY <1>1, <1>3, CountsStep, TypeInvariant, PTL DEF Spec, BlocksDouble

=============================================================================
