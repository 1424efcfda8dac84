---------------------------- MODULE Registration ----------------------------
(***************************************************************************)
(* Students who register themselves at the public school, with the token of *)
(* a verified OTP or, if the server is configured without OTPs, directly.  *)
(* The managers of the school add students of the same phones meanwhile.   *)
(***************************************************************************)
EXTENDS Otp

CONSTANTS Names,       \* of students; a name stands for a name in a grade
          MaxAccounts, \* REGISTRATION_CONFIG.maxAccountsPerPhone, 0 for no limit
          MaxStudents  \* bound: the students of the school

ASSUME RegistrationAssumption == MaxAccounts \in Nat /\ MaxStudents \in Nat

VARIABLES students,   \* the students, in the order they were added: [name, phone, via]
          name,       \* the name a job registers
          otpEnabled  \* STUDENT_REGISTRATION_OTP_ENABLED

vars == <<otpVars, students, name, otpEnabled>>

Init == /\ OtpInit
        /\ students = << >>
        /\ name = [j \in Jobs |-> None]
        /\ otpEnabled \in BOOLEAN

\* `via` is the row of an OTP, 0 for the direct path, None if a manager adds him.
Student(n, p, via) == [name |-> n, phone |-> p, via |-> via]

StudentsOf(p) == {s \in DOMAIN students : students[s].phone = p}

\* pg_advisory_xact_lock(hashtext('reg:' school ':' phone))
RegistrationFree(p) == \A j \in Jobs : pc[j] = "checked" => phone[j] # p

Begin(j, n, p, o) == /\ Goto(j, "idle", "resolving")
                     /\ name' = [name EXCEPT ![j] = n]
                     /\ phone' = [phone EXCEPT ![j] = p]
                     /\ row' = [row EXCEPT ![j] = o]
                     /\ UNCHANGED <<otps, delegated, at, now, students, otpEnabled>>

\* validateRegistrationToken, in a statement of its own
ValidateToken(j, n, o) == /\ otps[o].status = "VERIFIED"
                          /\ now <= otps[o].tokenExpires
                          /\ Begin(j, n, otps[o].phone, o)

\* Seeded fault: whether OTPs are required is not asked.
WithoutOtp_always(j, n, p) == Begin(j, n, p, 0)

\* completeRegistrationWithoutOtp
WithoutOtp(j, n, p) == ~otpEnabled /\ Begin(j, n, p, 0)

WithinLimit(p) == MaxAccounts = 0 \/ Cardinality(StudentsOf(p)) < MaxAccounts

\* Seeded fault: registrations of one phone do not wait for one another.
Check_noLock(j) == /\ Goto(j, "resolving", "checked")
                   /\ \A s \in StudentsOf(phone[j]) : students[s].name # name[j]
                   /\ WithinLimit(phone[j])
                   /\ UNCHANGED <<otps, delegated, phone, row, at, now,
                                  students, name, otpEnabled>>

\* Behind the lock: no student of that name, and room for another account.
Check(j) == /\ Goto(j, "resolving", "checked")
            /\ RegistrationFree(phone[j])
            /\ \A s \in StudentsOf(phone[j]) : students[s].name # name[j]
            /\ WithinLimit(phone[j])
            /\ UNCHANGED <<otps, delegated, phone, row, at, now, students, name, otpEnabled>>

\* Seeded fault: the OTP is not consumed.
Consumed_forgotten(o) == otps

\* An updateMany that asks for a VERIFIED row, and does not ask how many it found.
Consumed(o) == IF o \in DOMAIN otps /\ otps[o].status = "VERIFIED"
               THEN [otps EXCEPT ![o].status = "CONSUMED"] ELSE otps

\* The student is inserted, the OTP consumed, and COMMIT.
CommitRegistration(j) ==
    /\ Len(students) < MaxStudents
    /\ Leave(j, "checked")
    /\ RowFree(row[j])
    /\ students' = Append(students, Student(name[j], phone[j], row[j]))
    /\ otps' = Consumed(row[j])
    /\ name' = [name EXCEPT ![j] = None]
    /\ UNCHANGED otpEnabled

\* createStudent of the managers neither takes the lock nor looks at the phone.
ManagerAdds(n, p) == /\ Len(students) < MaxStudents
                     /\ students' = Append(students, Student(n, p, None))
                     /\ UNCHANGED <<otpVars, name, otpEnabled>>

\* The request is refused, fails, or dies with the server: what is not committed
\* is lost.  (A wrong code is answered by ThrowInvalidCode.)
Abort(j) == /\ \E from \in {"allowed", "sending", "asked", "resolving", "checked"} :
                   Leave(j, from)
            /\ name' = [name EXCEPT ![j] = None]
            /\ UNCHANGED <<otps, students, otpEnabled>>

Register(j) == \/ \E n \in Names, o \in DOMAIN otps : ValidateToken(j, n, o)
               \/ \E n \in Names, p \in Phones : WithoutOtp(j, n, p)
               \/ Check(j)
               \/ CommitRegistration(j)

Next == \/ (Tick \/ \E j \in Jobs : OtpRequest(j)) /\ UNCHANGED <<students, name, otpEnabled>>
        \/ \E j \in Jobs : Register(j) \/ Abort(j)
        \/ \E n \in Names, p \in Phones : ManagerAdds(n, p)

Spec == Init /\ [][Next]_vars

-----------------------------------------------------------------------------
(* Properties *)

Places == {"idle", "allowed", "sending", "asked", "rejected", "resolving", "checked"}

TypeOK ==
    /\ otps \in Seq(OtpRow) /\ Len(otps) <= MaxOtps
    /\ students \in Seq([name : Names, phone : Phones, via : {0, None} \cup DOMAIN otps])
    /\ delegated \in BOOLEAN /\ otpEnabled \in BOOLEAN
    /\ pc \in [Jobs -> Places]
    /\ phone \in [Jobs -> Phones \cup {None}]
    /\ row \in [Jobs -> {0} \cup DOMAIN otps]
    /\ at \in [Jobs -> 0 .. MaxTime] /\ now \in 0 .. MaxTime
    /\ name \in [Jobs -> Names \cup {None}]

SelfRegistered(p) == {s \in StudentsOf(p) : students[s].via # None}

\* A student does not register twice, be it by two requests at once or by sending
\* one again (student-registration.service.ts:279-281, the lock at 244-248).
RegisteredOnce ==
    \A p \in Phones, n \in Names : Cardinality({s \in SelfRegistered(p) : students[s].name = n}) <= 1

\* However many requests run at once, no more students register themselves with a
\* phone than the limit allows (305-319); the managers are not bound by it.
AccountsLimit ==
    MaxAccounts # 0 =>
        \A p \in Phones : Cardinality(SelfRegistered(p)) <= MaxAccounts

\* An OTP is consumed exactly if it registered a student, although its token is
\* checked long before the transaction (372-378): none is lost, none stays usable.
ConsumedIsRegistered ==
    /\ \A o \in DOMAIN otps : otps[o].status = "CONSUMED" =>
           \E s \in DOMAIN students : students[s].via = o
    /\ \A s \in DOMAIN students : students[s].via \in DOMAIN otps =>
           otps[students[s].via].status = "CONSUMED"

-----------------------------------------------------------------------------
(* What phones are promised *)

CodeState(status) == CASE status = "PENDING" -> "open"
                       [] status = "VERIFIED" -> "proved"
                       [] status = "CONSUMED" -> "spent"
                       [] OTHER -> "void"

Codes == [o \in DOMAIN otps |-> [phone |-> otps[o].phone, state |-> CodeState(otps[o].status)]]

Promise == INSTANCE ProvenPhones
           WITH codes <- Codes, accounts <- students, required <- otpEnabled,
                Limit <- MaxAccounts, Other <- None

\* Nobody opens an account for a phone he has not proved to be his, while that is asked
\* for, and each registration takes effect at one instant: its code is spent, its name is
\* found free and the accounts of the phone are counted in the step that opens the account
\* (153-187, 243-395 and 535-573), although the service does these things one after the
\* other, beside the OTPs being sent and verified.
PhonesAreProven == Promise!Spec
=============================================================================
