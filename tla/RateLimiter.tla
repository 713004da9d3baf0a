------------------------------ MODULE RateLimiter ------------------------------
(***************************************************************************)
(* RateLimiterService and the ApiKeyGuard that asks it, one request at a   *)
(* time: canActivate is synchronous, so a request is one step.  `attempts' *)
(* is the service's map from client address to record; times are in ticks. *)
(***************************************************************************)
EXTENDS Integers, Sequences

CONSTANTS
  Ips,                  \* client addresses, as extractClientIp answers them
  MaxAttempts,          \* maxAttempts
  Window,               \* windowMs
  BaseBlock, MaxBlock,  \* baseBlockDurationMs, maxBlockDurationMs
  MaxTime,              \* bound of the model: the clock stops here
  None                  \* no record, no blockedUntil, no block

ASSUME ConstantsAssumption ==
  /\ MaxAttempts \in Nat \ {0, 1}
  /\ Window \in Nat
  /\ BaseBlock \in Nat \ {0}
  /\ MaxBlock \in Nat
  /\ BaseBlock <= MaxBlock
  /\ MaxTime \in Nat
  /\ None \notin Int

VARIABLES
  now,       \* Date.now()
  attempts,  \* [Ips -> Records \cup {None}]
  failures,  \* history: times of the wrong keys since the last right one, the
             \* last MaxAttempts + 1 of them
  block      \* history: the last block imposed since the last right key

vars == <<now, attempts, failures, block>>

Records ==
  [failedAttempts : 0..MaxAttempts, lastFailure : Nat,
   blockedUntil : Nat \cup {None}, blockCount : Nat]
Blocks == [from : Nat, until : Nat]

ASSUME NoneAssumption == None \notin Records \cup Blocks

\* Besides the types: failedAttempts never passes the limit, although nothing
\* in recordFailedAttempt itself stops it there.
TypeOK ==
  /\ now \in Nat
  /\ attempts \in [Ips -> Records \cup {None}]
  /\ failures \in [Ips -> Seq(Nat)]
  /\ block \in [Ips -> Blocks \cup {None}]

Init ==
  /\ now = 0
  /\ attempts = [ip \in Ips |-> None]
  /\ failures = [ip \in Ips |-> <<>>]
  /\ block = [ip \in Ips |-> None]

-----------------------------------------------------------------------------
(* Records *)

Running(r) == r # None /\ r.blockedUntil # None /\ now < r.blockedUntil
Expired(r) == r # None /\ r.blockedUntil # None /\ now >= r.blockedUntil

Record(n, last, until, count) ==
  [failedAttempts |-> n, lastFailure |-> last, blockedUntil |-> until, blockCount |-> count]

\* A mistake the runs must notice: the attempts outlive the block.
CheckedKeepingAttempts(r) ==
  IF Expired(r) THEN Record(r.failedAttempts, r.lastFailure, None, r.blockCount) ELSE r

\* isBlocked leaves this behind: a block that is over is cleared with its
\* attempts, but blockCount stays.
Checked(r) == IF Expired(r) THEN Record(0, r.lastFailure, None, r.blockCount) ELSE r

\* Math.pow(2, n)
Pow2[n \in Nat] == IF n = 0 THEN 1 ELSE 2 * Pow2[n - 1]

AtMost(max, n) == IF n < max THEN n ELSE max

\* A mistake the runs must notice: the block count starts at 0.
BlockDurationFromZero(n) == AtMost(MaxBlock, BaseBlock * Pow2[n])

\* How long the n-th block lasts, n >= 1.
BlockDuration(n) == AtMost(MaxBlock, BaseBlock * Pow2[n - 1])

\* A mistake the runs must notice: one attempt too many.
LimitPassed(n) == n > MaxAttempts

LimitReached(n) == n >= MaxAttempts

\* recordFailedAttempt, of the record it finds.
Recorded(r) ==
  IF r = None THEN Record(1, now, None, 0)
  ELSE IF now - r.lastFailure > Window /\ r.blockedUntil = None
  THEN Record(1, now, None, r.blockCount)
  ELSE IF ~LimitReached(r.failedAttempts + 1)
  THEN Record(r.failedAttempts + 1, now, r.blockedUntil, r.blockCount)
  ELSE Record(r.failedAttempts + 1, now,
              now + BlockDuration(r.blockCount + 1), r.blockCount + 1)

-----------------------------------------------------------------------------
(* ApiKeyGuard.canActivate *)

Recent(s) == IF Len(s) > MaxAttempts + 1 THEN Tail(s) ELSE s

\* A blocked address is refused whatever its key.
Refuse(ip) ==
  /\ Running(attempts[ip])
  /\ UNCHANGED vars

WrongKey(ip) ==
  /\ ~Running(attempts[ip])
  /\ attempts' = [attempts EXCEPT ![ip] = Recorded(Checked(attempts[ip]))]
  /\ failures' = [failures EXCEPT ![ip] = Recent(Append(@, now))]
  /\ block' = IF attempts'[ip].blockedUntil = None
              THEN block
              ELSE [block EXCEPT ![ip] =
                      [from |-> now, until |-> attempts'[ip].blockedUntil]]
  /\ UNCHANGED now

RightKey(ip) ==
  /\ ~Running(attempts[ip])
  /\ attempts' = [attempts EXCEPT ![ip] = None]
  /\ failures' = [failures EXCEPT ![ip] = <<>>]
  /\ block' = [block EXCEPT ![ip] = None]
  /\ UNCHANGED now

-----------------------------------------------------------------------------
(* The cron job and the clock *)

\* A mistake the runs must notice: every record outside the window is dropped.
OutsideWindow(r) == r # None /\ now - r.lastFailure > Window

Disposable(r) ==
  \/ Expired(r)
  \/ r # None /\ r.blockedUntil = None /\ now - r.lastFailure > Window

\* It runs every five minutes; here it may run at any time.
Cleanup ==
  /\ attempts' = [ip \in Ips |-> IF Disposable(attempts[ip]) THEN None ELSE attempts[ip]]
  /\ UNCHANGED <<now, failures, block>>

Tick ==
  /\ now < MaxTime
  /\ now' = now + 1
  /\ UNCHANGED <<attempts, failures, block>>

Next ==
  \/ \E ip \in Ips : Refuse(ip) \/ WrongKey(ip) \/ RightKey(ip)
  \/ Cleanup
  \/ Tick

Spec == Init /\ [][Next]_vars

-----------------------------------------------------------------------------
(* Properties *)

Quiet == AtMost(BaseBlock, Window + 1)

\* However checks, resets and cleanups fall, an address never has more than
\* MaxAttempts wrong keys looked at in less than a window or a base block,
\* unless a right one came between (the service's purpose).
FailureRateBounded ==
  \A ip \in Ips :
    LET s == failures[ip]
    IN Len(s) = MaxAttempts + 1 => s[Len(s)] - s[1] >= Quiet

\* A block lasts: until its end no key of the address is looked at, right or
\* wrong, and no cleanup lets one through (isBlocked, cleanup).
BlocksAreServed ==
  [][\A ip \in Ips :
       (block[ip] # None /\ now < block[ip].until)
         => UNCHANGED <<failures[ip], block[ip]>>]_vars

Twice(b) == AtMost(MaxBlock, 2 * (b.until - b.from))

\* Blocks start at the base and double up to the maximum, through every reset of
\* the attempts ("keep block count", isBlocked and recordFailedAttempt), for as
\* long as the record is kept; the cleanup job drops it when a block is over.
BlocksDouble ==
  [][\A ip \in Ips : block'[ip] \notin {block[ip], None} =>
       block'[ip].until - block'[ip].from =
         IF attempts[ip].blockCount = 0 THEN BaseBlock ELSE Twice(block[ip])]_vars

=============================================================================
