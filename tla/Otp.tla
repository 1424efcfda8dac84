-------------------------------- MODULE Otp --------------------------------
(***************************************************************************)
(* One-time passwords: a code is asked for a phone, sent by a provider and *)
(* verified; the token it yields registers a student (see Registration).   *)
(*                                                                         *)
(* A job is one request in progress.  What a transaction writes shows only *)
(* from its COMMIT on, and an exception in it takes all of it back, so a   *)
(* request that is refused changes nothing.  Advisory locks and row locks  *)
(* are held to the end of the transaction: where the jobs are tells who    *)
(* holds one.                                                              *)
(***************************************************************************)
EXTENDS Naturals, Sequences, FiniteSets

CONSTANTS Jobs,        \* requests in progress at one time
          Phones,      \* normalised phone numbers
          Cooldown,    \* OTP_DEFAULTS.cooldownSeconds
          Hour,        \* the window of RateLimit
          RateLimit,   \* OTP_DEFAULTS.rateLimitPerHour
          Ttl,         \* OTP_DEFAULTS.ttlSeconds
          TokenTtl,    \* OTP_DEFAULTS.registrationTokenTtlSeconds
          MaxAttempts, \* OTP_DEFAULTS.maxAttempts
          MaxTime,     \* bound: the clock stops here
          MaxOtps,     \* bound: the rows of the table
          None         \* neither a phone nor a number

ASSUME OtpAssumption ==
    /\ {Cooldown, Hour, RateLimit, Ttl, TokenTtl} \subseteq Nat
    /\ {MaxAttempts, MaxTime, MaxOtps} \subseteq Nat
    /\ None \notin Phones \cup Nat

VARIABLES otps,      \* the otp_verifications table, each row at its id
          delegated, \* does the provider make and verify the codes itself?
          pc,        \* where each job is
          phone,     \* its phone
          row,       \* the id of the row it works on, 0 if none
          at,        \* the time it has read
          now        \* the clock

otpVars == <<otps, delegated, pc, phone, row, at, now>>

OtpInit == /\ otps = << >>
           /\ delegated \in BOOLEAN
           /\ pc = [j \in Jobs |-> "idle"]
           /\ phone = [j \in Jobs |-> None]
           /\ row = [j \in Jobs |-> 0]
           /\ at = [j \in Jobs |-> 0]
           /\ now = 0

Goto(j, from, to) == pc[j] = from /\ pc' = [pc EXCEPT ![j] = to]

\* A request that has ended keeps nothing.
Leave(j, from) == /\ Goto(j, from, "idle")
                  /\ phone' = [phone EXCEPT ![j] = None]
                  /\ row' = [row EXCEPT ![j] = 0]
                  /\ at' = [at EXCEPT ![j] = 0]
                  /\ UNCHANGED <<delegated, now>>

-----------------------------------------------------------------------------
(* Locks *)

\* Seeded fault: requests for one phone do not wait for one another.
PhoneFree_noLock(p) == TRUE

\* pg_advisory_xact_lock(hashtext(phone))
PhoneFree(p) == \A j \in Jobs : pc[j] = "allowed" => phone[j] # p

\* SELECT ... FOR UPDATE of an OTP.  A provider that verifies the codes itself
\* is asked outside a transaction, so the row is free meanwhile.
RowFree(o) == \A j \in Jobs :
                  pc[j] = "rejected" \/ (pc[j] = "asked" /\ ~delegated) => row[j] # o

-----------------------------------------------------------------------------
(* requestOtp *)

\* The OTPs of a phone, created within the last d, that count for the limits.
Counted(p, d) == {o \in DOMAIN otps : /\ otps[o].phone = p
                                      /\ otps[o].created + d >= now
                                      /\ otps[o].status # "FAILED"}

\* Behind the lock, neither the cooldown nor the limit of the hour refuses.
CheckLimits(j, p) == /\ Goto(j, "idle", "allowed")
                     /\ PhoneFree(p)
                     /\ Counted(p, Cooldown) = {}
                     /\ Cardinality(Counted(p, Hour)) < RateLimit
                     /\ phone' = [phone EXCEPT ![j] = p]
                     /\ at' = [at EXCEPT ![j] = now]
                     /\ UNCHANGED <<otps, delegated, row, now>>

PendingOf(p) == {o \in DOMAIN otps : otps[o].phone = p /\ otps[o].status = "PENDING"}

NewOtp(p, t) == [phone |-> p, status |-> "PENDING", created |-> now,
                 expires |-> t + Ttl, attempts |-> 0, tokenExpires |-> 0]

\* Seeded fault: the earlier codes of the phone stay valid.
CreateOtp_keepsOld(j) == /\ Goto(j, "allowed", "sending")
                         /\ Len(otps) < MaxOtps
                         /\ otps' = Append(otps, NewOtp(phone[j], at[j]))
                         /\ row' = [row EXCEPT ![j] = Len(otps) + 1]
                         /\ UNCHANGED <<delegated, phone, at, now>>

\* The pending OTPs of the phone expire, a new one is created, and COMMIT.
CreateOtp(j) ==
    /\ Goto(j, "allowed", "sending")
    /\ Len(otps) < MaxOtps
    /\ \A o \in PendingOf(phone[j]) : RowFree(o)
    /\ otps' = Append([o \in DOMAIN otps |->
                          IF o \in PendingOf(phone[j])
                          THEN [otps[o] EXCEPT !.status = "EXPIRED"] ELSE otps[o]],
                      NewOtp(phone[j], at[j]))
    /\ row' = [row EXCEPT ![j] = Len(otps) + 1]
    /\ UNCHANGED <<delegated, phone, at, now>>

Sent(j) == Leave(j, "sending") /\ UNCHANGED otps

\* The provider refuses or does not answer in time: the update names the row and
\* asks nothing of its status, which another request may have changed.
SendFails(j) == /\ Leave(j, "sending")
                /\ RowFree(row[j])
                /\ otps' = [otps EXCEPT ![row[j]].status = "FAILED"]

-----------------------------------------------------------------------------
(* verifyOtp: in one transaction (verifySelfManaged), or in two around the *)
(* call of the provider (verifyDelegated)                                  *)

\* The row is locked and none of the refusals applies.  Its request id is known
\* once requestOtp has answered.
Ask(j, o) == /\ Goto(j, "idle", "asked")
             /\ RowFree(o)
             /\ \A k \in Jobs : pc[k] = "sending" => row[k] # o
             /\ otps[o].status = "PENDING"
             /\ now <= otps[o].expires
             /\ otps[o].attempts < MaxAttempts
             /\ row' = [row EXCEPT ![j] = o]
             /\ UNCHANGED <<otps, delegated, phone, at, now>>

\* Seeded fault: the second transaction does not read the row again.
StillPending_unchecked(j) == RowFree(row[j])

\* A second transaction locks the row and reads it again.
StillPending(j) == delegated => /\ RowFree(row[j])
                                /\ otps[row[j]].status = "PENDING"

\* The code is right.
Verify(j) == /\ Leave(j, "asked")
             /\ StillPending(j)
             /\ otps' = [otps EXCEPT ![row[j]].status = "VERIFIED",
                                     ![row[j]].attempts = @ + 1,
                                     ![row[j]].tokenExpires = now + TokenTtl]

\* The code is wrong: attempts and status are updated, for the transaction alone ...
Reject(j) == /\ Goto(j, "asked", "rejected")
             /\ StillPending(j)
             /\ UNCHANGED <<otps, delegated, phone, row, at, now>>

\* ... and the exception that says so, INVALID_CODE, takes the update back.
ThrowInvalidCode(j) == Leave(j, "rejected") /\ UNCHANGED otps

-----------------------------------------------------------------------------
OtpRequest(j) == \/ \E p \in Phones : CheckLimits(j, p)
                 \/ CreateOtp(j)
                 \/ Sent(j)
                 \/ SendFails(j)
                 \/ \E o \in DOMAIN otps : Ask(j, o)
                 \/ Verify(j)
                 \/ Reject(j)
                 \/ ThrowInvalidCode(j)

Tick == /\ now < MaxTime
        /\ now' = now + 1
        /\ UNCHANGED <<otps, delegated, pc, phone, row, at>>

-----------------------------------------------------------------------------
(* Properties *)

OtpStatus == {"PENDING", "VERIFIED", "CONSUMED", "EXPIRED", "BLOCKED", "FAILED"}

OtpRow == [phone : Phones, status : OtpStatus, created : 0 .. MaxTime,
           expires : 0 .. MaxTime + Ttl, attempts : 0 .. MaxAttempts,
           tokenExpires : 0 .. MaxTime + TokenTtl]

\* One code at a time: a phone has at most one OTP that could still be verified
\* (requestOtp expires the others under the lock of the phone).
OnePending == \A p \in Phones : \A o, q \in PendingOf(p) : o = q

\* Two OTPs that count for a phone are more than a cooldown apart, and in no hour
\* are there more than the limit, whatever requests run at once (otp.service.ts:102-135).
LimitsKept ==
    \A o \in DOMAIN otps :
        LET within(d) == {q \in 1 .. o : /\ otps[q].phone = otps[o].phone
                                         /\ otps[q].status # "FAILED"
                                         /\ otps[q].created + d >= otps[o].created}
        IN  otps[o].status # "FAILED" => /\ Cardinality(within(Cooldown)) = 1
                                         /\ Cardinality(within(Hour)) <= RateLimit

\* Only the newest OTP of a phone is ever verified, and it once: an answer of the
\* provider that comes after a resend, a failure or another answer is of no effect
\* (the second transaction of verifyDelegated, 436-449).
OnlyNewestVerified ==
    [][\A o \in DOMAIN otps :
           otps'[o].tokenExpires # otps[o].tokenExpires =>
               /\ otps[o].status = "PENDING"
               /\ \A q \in DOMAIN otps : q > o => otps[q].phone # otps[o].phone]_otpVars

\* What the comment on verifyDelegated (otp.service.ts:344) promises: a wrong code
\* costs an attempt.
WrongCodeCounted ==
    [][\A j \in Jobs : pc[j] = "rejected" /\ pc'[j] = "idle" =>
           otps'[row[j]].attempts = otps[row[j]].attempts + 1]_otpVars
=============================================================================
