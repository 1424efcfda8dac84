------------------------- MODULE RegistrationProofs -------------------------
(***************************************************************************)
(* What Otp says of the codes of a phone and Registration of the accounts  *)
(* made with them, proved for the whole of Registration: for any number of *)
(* requests, phones, names and OTPs.                                       *)
(***************************************************************************)
EXTENDS Registration, FiniteSetTheorems, TLAPS

Row == [phone : Phones, status : OtpStatus, created : Nat, expires : Nat,
        attempts : Nat, tokenExpires : Nat]

Types == /\ otps \in Seq(Row)
         /\ delegated \in BOOLEAN
         /\ pc \in [Jobs -> Places]
         /\ phone \in [Jobs -> Phones \cup {None}]
         /\ row \in [Jobs -> Nat]
         /\ at \in [Jobs -> Nat]
         /\ now \in Nat

\* What a job holds: a phone to create an OTP for, and a row that is there.
Holding == \A j \in Jobs :
              /\ pc[j] = "allowed" => phone[j] \in Phones
              /\ pc[j] \in {"sending", "asked", "rejected"} => row[j] \in DOMAIN otps

\* A pending OTP is the newest of its phone.
PendingIsNewest == \A o, q \in DOMAIN otps :
                      otps[o].status = "PENDING" /\ q > o => otps[q].phone # otps[o].phone

\* While a transaction holds the lock of the row it verifies, no other does and
\* the row stays as it was read.
Locked(j) == pc[j] = "asked" /\ ~delegated

RowLocks == \A j \in Jobs : Locked(j) =>
               /\ otps[row[j]].status = "PENDING"
               /\ \A k \in Jobs : Locked(k) /\ row[k] = row[j] => k = j

IInv == Types /\ Holding /\ PendingIsNewest /\ RowLocks

LEMMA InitInv == Init => IInv
<1> SUFFICES ASSUME Init PROVE IInv
  OBVIOUS
<1> USE DEF Init, OtpInit
<1>1. Types
  <2>1. otps \in Seq(Row)
    OBVIOUS
  <2>. QED
    BY <2>1 DEF Types, Places
<1>2. Holding /\ PendingIsNewest /\ RowLocks
  BY DEF Holding, PendingIsNewest, RowLocks, Locked
<1>. QED
  BY <1>1, <1>2 DEF IInv

LEMMA RowsAreRows == ASSUME Types PROVE \A o \in DOMAIN otps : otps[o] \in Row
  BY DEF Types

LEMMA RowsHavePhones ==
    ASSUME Types, NEW o \in DOMAIN otps
    PROVE  o \in Nat /\ otps[o].phone \in Phones
<1>1. otps[o] \in Row
  BY RowsAreRows
<1>2. o \in Nat
  BY DEF Types
<1>. QED
  BY <1>1, <1>2 DEF Row

LEMMA StatusUpdate ==
    ASSUME NEW r \in Row, NEW st \in OtpStatus
    PROVE  /\ [r EXCEPT !.status = st] \in Row
           /\ [r EXCEPT !.status = st].status = st
           /\ [r EXCEPT !.status = st].phone = r.phone
           /\ [r EXCEPT !.status = st].tokenExpires = r.tokenExpires
           /\ [r EXCEPT !.status = st].created = r.created
           /\ [r EXCEPT !.status = st].expires = r.expires
           /\ [r EXCEPT !.status = st].attempts = r.attempts
  BY DEF Row

\* A pending OTP is the only one of its phone.
LEMMA NewestIsOnly == IInv => OnePending
<1> SUFFICES ASSUME IInv, NEW p \in Phones, NEW o \in PendingOf(p), NEW q \in PendingOf(p)
             PROVE  o = q
  BY DEF OnePending
<1>1. o \in 1 .. Len(otps) /\ q \in 1 .. Len(otps) /\ Len(otps) \in Nat
  BY DEF IInv, Types, PendingOf
<1>2. ~(q > o) /\ ~(o > q)
  BY DEF IInv, PendingIsNewest, PendingOf
<1>. QED
  BY <1>1, <1>2

\* How a step may change the rows that are there: the phone stays, and no row
\* becomes pending.
Aging == /\ otps' \in Seq(Row)
         /\ DOMAIN otps' = DOMAIN otps
         /\ \A o \in DOMAIN otps : /\ otps'[o].phone = otps[o].phone
                                   /\ otps'[o].status = "PENDING" => otps[o].status = "PENDING"

LEMMA AgingKeepsNewest == IInv /\ Aging => PendingIsNewest'
  BY DEF IInv, Aging, PendingIsNewest

\* A step of one job that leaves the table as it is.
LEMMA SameTable ==
    ASSUME IInv, UNCHANGED otps
    PROVE  Aging /\ PendingIsNewest'
<1>1. Aging
  BY DEF IInv, Types, Aging
<1>. QED
  BY <1>1, AgingKeepsNewest

\* One row of the table changes its status, to another than PENDING.
LEMMA OneRowAges ==
    ASSUME IInv, NEW o \in DOMAIN otps, NEW r \in Row,
           otps' = [otps EXCEPT ![o] = r],
           r.phone = otps[o].phone, r.status # "PENDING"
    PROVE  Aging /\ PendingIsNewest'
<1>1. otps' \in Seq(Row) /\ DOMAIN otps' = DOMAIN otps
  BY DEF IInv, Types
<1>2. \A q \in DOMAIN otps : otps'[q] = IF q = o THEN r ELSE otps[q]
  BY DEF IInv, Types
<1>3. Aging
  BY <1>1, <1>2 DEF Aging
<1>. QED
  BY <1>3, AgingKeepsNewest

\* Steps after which no row is locked that was not, and no locked row is changed.
LEMMA LocksStay ==
    ASSUME IInv, UNCHANGED delegated,
           \A j \in Jobs : Locked(j)' => Locked(j) /\ row'[j] = row[j],
           \A j \in Jobs : Locked(j)' => otps'[row[j]].status = otps[row[j]].status
    PROVE  RowLocks'
  BY DEF IInv, RowLocks, Locked

-----------------------------------------------------------------------------
(* The actions *)

LEMMA CheckLimitsInv == ASSUME IInv, NEW j \in Jobs, NEW p \in Phones, CheckLimits(j, p)
                        PROVE  IInv'
<1> USE DEF CheckLimits, Goto
<1>1. Types'
  BY DEF IInv, Types, Places
<1>2. Holding'
  BY DEF IInv, Types, Holding
<1>3. PendingIsNewest'
  BY SameTable
<1>4. RowLocks'
  BY LocksStay DEF IInv, Types, Locked
<1>. QED
  BY <1>1, <1>2, <1>3, <1>4 DEF IInv

LEMMA NewOtpRow == ASSUME Types, NEW p \in Phones, NEW t \in Nat
                   PROVE  NewOtp(p, t) \in Row
  BY OtpAssumption DEF Types, NewOtp, Row, OtpStatus

LEMMA CreateOtpInv == ASSUME IInv, NEW j \in Jobs, CreateOtp(j)
                      PROVE  IInv'
<1> DEFINE Ended(o) == IF o \in PendingOf(phone[j])
                       THEN [otps[o] EXCEPT !.status = "EXPIRED"] ELSE otps[o]
           before == [o \in DOMAIN otps |-> Ended(o)]
           new == NewOtp(phone[j], at[j])
           n == Len(otps) + 1
<1>1. phone[j] \in Phones /\ at[j] \in Nat /\ new \in Row
  BY NewOtpRow DEF IInv, Types, Holding, CreateOtp, Goto
<1>2. \A o \in DOMAIN otps :
        /\ Ended(o) \in Row
        /\ Ended(o).phone = otps[o].phone
        /\ Ended(o).status = "PENDING" => Ended(o) = otps[o] /\ o \notin PendingOf(phone[j])
  <2> SUFFICES ASSUME NEW o \in DOMAIN otps
               PROVE  /\ Ended(o) \in Row
                      /\ Ended(o).phone = otps[o].phone
                      /\ Ended(o).status = "PENDING" =>
                             Ended(o) = otps[o] /\ o \notin PendingOf(phone[j])
    OBVIOUS
  <2>1. otps[o] \in Row /\ "EXPIRED" \in OtpStatus
    BY RowsAreRows DEF IInv, OtpStatus
  <2>2. CASE o \in PendingOf(phone[j])
    BY <2>1, <2>2, StatusUpdate
  <2>3. CASE o \notin PendingOf(phone[j])
    BY <2>1, <2>3
  <2>. QED
    BY <2>2, <2>3
<1>3. before \in Seq(Row) /\ Len(before) = Len(otps)
  BY <1>2 DEF IInv, Types
<1>4. otps' = Append(before, new)
  BY DEF CreateOtp
<1>5. otps' \in Seq(Row) /\ DOMAIN otps' = DOMAIN otps \cup {n}
  BY <1>1, <1>3, <1>4 DEF IInv, Types
<1>6. otps'[n] = new /\ \A o \in DOMAIN otps : otps'[o] = Ended(o)
  BY <1>1, <1>3, <1>4 DEF IInv, Types
<1>7. Types'
  BY <1>5 DEF IInv, Types, CreateOtp, Goto, Places
<1>8. Holding'
  BY <1>5 DEF IInv, Types, Holding, CreateOtp, Goto
<1>9. PendingIsNewest'
  <2> SUFFICES ASSUME NEW o \in DOMAIN otps', NEW q \in DOMAIN otps',
                      otps'[o].status = "PENDING", q > o
               PROVE  otps'[q].phone # otps'[o].phone
    BY DEF PendingIsNewest
  <2>1. o \in DOMAIN otps /\ (q \in DOMAIN otps \/ q = n)
    BY <1>5 DEF IInv, Types
  <2>2. otps'[o] = otps[o] /\ otps[o].phone # phone[j]
    BY <2>1, <1>2, <1>6 DEF PendingOf
  <2>3. CASE q = n
    BY <2>2, <2>3, <1>6 DEF NewOtp
  <2>4. CASE q \in DOMAIN otps
    <3>1. otps'[q].phone = otps[q].phone
      BY <2>4, <1>2, <1>6
    <3>. QED
      BY <3>1, <2>1, <2>2, <2>4 DEF IInv, PendingIsNewest
  <2>. QED
    BY <2>1, <2>3, <2>4
<1>10. RowLocks'
  <2>1. UNCHANGED delegated /\ \A k \in Jobs : Locked(k)' => Locked(k) /\ row'[k] = row[k]
    BY DEF CreateOtp, Goto, IInv, Types, Locked
  <2>2. ASSUME NEW k \in Jobs, Locked(k)
        PROVE  otps'[row[k]].status = otps[row[k]].status
    <3>1. row[k] \in DOMAIN otps
      BY <2>2 DEF IInv, Holding, Locked
    <3>2. row[k] \notin PendingOf(phone[j])
      BY <2>2 DEF CreateOtp, RowFree, Locked
    <3>. QED
      BY <3>1, <3>2, <1>6
  <2>. QED
    BY <2>1, <2>2, LocksStay
<1>. QED
  BY <1>7, <1>8, <1>9, <1>10 DEF IInv

LEMMA SentInv == ASSUME IInv, NEW j \in Jobs, Sent(j)
                 PROVE  IInv'
<1> USE DEF Sent, Leave, Goto
<1>1. Types'
  BY DEF IInv, Types, Places
<1>2. Holding'
  BY DEF IInv, Types, Holding
<1>3. PendingIsNewest'
  BY SameTable
<1>4. RowLocks'
  BY LocksStay DEF IInv, Types, Locked
<1>. QED
  BY <1>1, <1>2, <1>3, <1>4 DEF IInv

LEMMA SendFailsInv == ASSUME IInv, NEW j \in Jobs, SendFails(j)
                      PROVE  IInv'
<1> DEFINE r == [otps[row[j]] EXCEPT !.status = "FAILED"]
<1> USE DEF SendFails, Leave, Goto
<1>1. row[j] \in DOMAIN otps /\ otps[row[j]] \in Row /\ "FAILED" \in OtpStatus
  BY RowsAreRows DEF IInv, Holding, OtpStatus
<1>2. /\ r \in Row /\ r.phone = otps[row[j]].phone /\ r.status # "PENDING"
      /\ otps' = [otps EXCEPT ![row[j]] = r]
  BY <1>1, StatusUpdate
<1>3. Aging /\ PendingIsNewest'
  BY <1>1, <1>2, OneRowAges
<1>4. Types'
  BY <1>3 DEF IInv, Types, Places, Aging
<1>5. Holding'
  BY <1>3 DEF IInv, Types, Holding, Aging
<1>6. RowLocks'
  <2>1. UNCHANGED delegated /\ \A k \in Jobs : Locked(k)' => Locked(k) /\ row'[k] = row[k]
    BY DEF IInv, Types, Locked
  <2>2. ASSUME NEW k \in Jobs, Locked(k)
        PROVE  otps'[row[k]].status = otps[row[k]].status
    BY <1>2, <2>2 DEF RowFree, Locked, IInv, Types, Holding
  <2>. QED
    BY <2>1, <2>2, LocksStay
<1>. QED
  BY <1>3, <1>4, <1>5, <1>6 DEF IInv
LEMMA AskInv == ASSUME IInv, NEW j \in Jobs, NEW o \in DOMAIN otps, Ask(j, o)
                PROVE  IInv'
<1> USE DEF Ask, Goto
<1>1. Types'
  BY DEF IInv, Types, Places
<1>2. Holding'
  BY DEF IInv, Types, Holding
<1>3. PendingIsNewest'
  BY SameTable
<1>4. RowLocks'
  <2> SUFFICES ASSUME NEW k \in Jobs, Locked(k)'
               PROVE  /\ otps[row'[k]].status = "PENDING"
                      /\ \A l \in Jobs : Locked(l)' /\ row'[l] = row'[k] => l = k
    BY DEF RowLocks
  <2>1. \A l \in Jobs : l # j => row'[l] = row[l] /\ (Locked(l)' => Locked(l) /\ row[l] # o)
    BY DEF IInv, Types, Locked, RowFree
  <2>2. row'[j] = o /\ otps[o].status = "PENDING"
    BY DEF IInv, Types
  <2>3. CASE k = j
    BY <2>1, <2>2, <2>3
  <2>4. CASE k # j
    BY <2>1, <2>2, <2>4 DEF IInv, RowLocks
  <2>. QED
    BY <2>3, <2>4
<1>. QED
  BY <1>1, <1>2, <1>3, <1>4 DEF IInv

LEMMA VerifiedUpdate ==
    ASSUME NEW u \in Row, NEW t \in Nat
    PROVE  LET r == [u EXCEPT !.status = "VERIFIED", !.attempts = @ + 1, !.tokenExpires = t]
           IN  /\ r \in Row /\ r.phone = u.phone /\ r.status = "VERIFIED"
               /\ r.created = u.created /\ r.expires = u.expires
               /\ r.attempts = u.attempts + 1 /\ r.tokenExpires = t
<1>1. "VERIFIED" \in OtpStatus /\ u.attempts + 1 \in Nat
  BY DEF OtpStatus, Row
<1>. QED
  BY <1>1 DEF Row

\* The row a code is verified for is pending, and the newest of its phone.
LEMMA VerifiedRow ==
    ASSUME IInv, NEW j \in Jobs, Verify(j)
    PROVE  /\ row[j] \in DOMAIN otps /\ otps[row[j]] \in Row
           /\ otps[row[j]].status = "PENDING"
           /\ \A o \in DOMAIN otps : o # row[j] => otps'[o] = otps[o]
           /\ \E r \in Row : /\ otps' = [otps EXCEPT ![row[j]] = r]
                             /\ r.phone = otps[row[j]].phone /\ r.status = "VERIFIED"
                             /\ r.created = otps[row[j]].created
                             /\ r.expires = otps[row[j]].expires
                             /\ r.attempts = otps[row[j]].attempts + 1
                             /\ r.tokenExpires = now + TokenTtl
<1> DEFINE r == [otps[row[j]] EXCEPT !.status = "VERIFIED", !.attempts = @ + 1,
                                     !.tokenExpires = now + TokenTtl]
<1>1. row[j] \in DOMAIN otps /\ otps[row[j]] \in Row
  BY RowsAreRows DEF IInv, Holding, Verify, Leave, Goto
<1>2. otps[row[j]].status = "PENDING"
  BY DEF IInv, RowLocks, Locked, Verify, Leave, Goto, StillPending, Types
<1>3. otps' = [otps EXCEPT ![row[j]] = r]
  BY <1>1 DEF Verify, IInv, Types
<1>4. /\ r \in Row /\ r.phone = otps[row[j]].phone /\ r.status = "VERIFIED"
      /\ r.created = otps[row[j]].created /\ r.expires = otps[row[j]].expires
      /\ r.attempts = otps[row[j]].attempts + 1 /\ r.tokenExpires = now + TokenTtl
  <2>1. now + TokenTtl \in Nat
    BY OtpAssumption DEF IInv, Types
  <2>. QED
    BY <1>1, <2>1, VerifiedUpdate
<1>5. \A o \in DOMAIN otps : o # row[j] => otps'[o] = otps[o]
  BY <1>1, <1>3 DEF IInv, Types
<1>. QED
  BY <1>1, <1>2, <1>3, <1>4, <1>5

LEMMA VerifyInv == ASSUME IInv, NEW j \in Jobs, Verify(j)
                   PROVE  IInv'
<1>1. PICK r \in Row : /\ otps' = [otps EXCEPT ![row[j]] = r]
                       /\ r.phone = otps[row[j]].phone /\ r.status = "VERIFIED"
  BY VerifiedRow
<1>2. Aging /\ PendingIsNewest'
  BY <1>1, VerifiedRow, OneRowAges
<1>3. Types'
  BY <1>2 DEF IInv, Types, Places, Aging, Verify, Leave, Goto
<1>4. Holding'
  BY <1>2 DEF IInv, Types, Holding, Aging, Verify, Leave, Goto
<1>5. RowLocks'
  <2>1. UNCHANGED delegated /\ \A k \in Jobs : Locked(k)' => /\ Locked(k) /\ row'[k] = row[k]
                                                             /\ k # j
    BY DEF IInv, Types, Locked, Verify, Leave, Goto, Places
  <2>2. ASSUME NEW k \in Jobs, Locked(k), k # j
        PROVE  otps'[row[k]].status = otps[row[k]].status
    <3>1. Locked(j)
      BY <2>2 DEF Locked, Verify, Leave, Goto
    <3>2. row[k] # row[j] /\ row[k] \in DOMAIN otps
      BY <3>1, <2>2 DEF IInv, RowLocks, Holding, Locked
    <3>. QED
      BY <3>2, VerifiedRow
  <2>. QED
    BY <2>1, <2>2, LocksStay
<1>. QED
  BY <1>2, <1>3, <1>4, <1>5 DEF IInv

LEMMA RejectInv == ASSUME IInv, NEW j \in Jobs, Reject(j)
                  PROVE  IInv'
<1> USE DEF Reject, Goto
<1>1. Types'
  BY DEF IInv, Types, Places
<1>2. Holding'
  BY DEF IInv, Types, Holding
<1>3. PendingIsNewest'
  BY SameTable
<1>4. RowLocks'
  BY LocksStay DEF IInv, Types, Locked
<1>. QED
  BY <1>1, <1>2, <1>3, <1>4 DEF IInv

LEMMA ThrowInv == ASSUME IInv, NEW j \in Jobs, ThrowInvalidCode(j)
                 PROVE  IInv'
<1> USE DEF ThrowInvalidCode, Leave, Goto
<1>1. Types'
  BY DEF IInv, Types, Places
<1>2. Holding'
  BY DEF IInv, Types, Holding
<1>3. PendingIsNewest'
  BY SameTable
<1>4. RowLocks'
  BY LocksStay DEF IInv, Types, Locked
<1>. QED
  BY <1>1, <1>2, <1>3, <1>4 DEF IInv

LEMMA TickInv == ASSUME IInv, Tick
                PROVE  IInv'
<1> USE DEF Tick
<1>1. Types'
  BY DEF IInv, Types, Places
<1>2. Holding'
  BY DEF IInv, Types, Holding
<1>3. PendingIsNewest'
  BY SameTable
<1>4. RowLocks'
  BY LocksStay DEF IInv, Types, Locked
<1>. QED
  BY <1>1, <1>2, <1>3, <1>4 DEF IInv

LEMMA BeginInv == ASSUME IInv, NEW j \in Jobs, NEW n, NEW p \in Phones, NEW o \in Nat, Begin(j, n, p, o)
                 PROVE  IInv'
<1> USE DEF Begin, Goto
<1>1. Types'
  BY DEF IInv, Types, Places
<1>2. Holding'
  BY DEF IInv, Types, Holding
<1>3. PendingIsNewest'
  BY SameTable
<1>4. RowLocks'
  BY LocksStay DEF IInv, Types, Locked
<1>. QED
  BY <1>1, <1>2, <1>3, <1>4 DEF IInv

LEMMA CheckInv == ASSUME IInv, NEW j \in Jobs, Check(j)
                 PROVE  IInv'
<1> USE DEF Check, Goto
<1>1. Types'
  BY DEF IInv, Types, Places
<1>2. Holding'
  BY DEF IInv, Types, Holding
<1>3. PendingIsNewest'
  BY SameTable
<1>4. RowLocks'
  BY LocksStay DEF IInv, Types, Locked
<1>. QED
  BY <1>1, <1>2, <1>3, <1>4 DEF IInv

LEMMA AbortInv == ASSUME IInv, NEW j \in Jobs, Abort(j)
                 PROVE  IInv'
<1> USE DEF Abort, Leave, Goto
<1>1. Types'
  BY DEF IInv, Types, Places
<1>2. Holding'
  BY DEF IInv, Types, Holding
<1>3. PendingIsNewest'
  BY SameTable
<1>4. RowLocks'
  BY LocksStay DEF IInv, Types, Locked
<1>. QED
  BY <1>1, <1>2, <1>3, <1>4 DEF IInv

LEMMA StutterInv == ASSUME IInv, UNCHANGED otpVars
                   PROVE  IInv'
<1> USE DEF otpVars
<1>1. Types'
  BY DEF IInv, Types, Places
<1>2. Holding'
  BY DEF IInv, Types, Holding
<1>3. PendingIsNewest'
  BY SameTable
<1>4. RowLocks'
  BY LocksStay DEF IInv, Types, Locked
<1>. QED
  BY <1>1, <1>2, <1>3, <1>4 DEF IInv

\* Only a verified OTP is consumed.
LEMMA ConsumedAges ==
    ASSUME IInv, NEW o, otps' = Consumed(o)
    PROVE  /\ Aging /\ PendingIsNewest'
           /\ \A q \in DOMAIN otps : /\ otps'[q].tokenExpires = otps[q].tokenExpires
                                     /\ otps[q].status = "PENDING" => otps'[q] = otps[q]
<1>1. CASE o \in DOMAIN otps /\ otps[o].status = "VERIFIED"
  <2> DEFINE r == [otps[o] EXCEPT !.status = "CONSUMED"]
  <2>1. otps[o] \in Row /\ "CONSUMED" \in OtpStatus
    BY <1>1, RowsAreRows DEF IInv, OtpStatus
  <2>2. /\ r \in Row /\ r.phone = otps[o].phone /\ r.status # "PENDING"
        /\ r.tokenExpires = otps[o].tokenExpires
    BY <2>1, StatusUpdate
  <2>3. otps' = [otps EXCEPT ![o] = r]
    BY <1>1 DEF Consumed
  <2>4. \A q \in DOMAIN otps : otps'[q] = IF q = o THEN r ELSE otps[q]
    BY <1>1, <2>2, <2>3 DEF IInv, Types
  <2>. QED
    BY <1>1, <2>2, <2>3, <2>4, OneRowAges
<1>2. CASE ~(o \in DOMAIN otps /\ otps[o].status = "VERIFIED")
  BY <1>2, SameTable DEF Consumed
<1>. QED
  BY <1>1, <1>2

LEMMA CommitRegistrationInv == ASSUME IInv, NEW j \in Jobs, CommitRegistration(j)
                               PROVE  IInv'
<1> USE DEF CommitRegistration, Leave, Goto
<1>1. /\ Aging /\ PendingIsNewest'
      /\ \A q \in DOMAIN otps : otps[q].status = "PENDING" => otps'[q] = otps[q]
  BY ConsumedAges
<1>2. Types'
  BY <1>1 DEF IInv, Types, Places, Aging
<1>3. Holding'
  BY <1>1 DEF IInv, Types, Holding, Aging
<1>4. RowLocks'
  <2>1. UNCHANGED delegated /\ \A k \in Jobs : Locked(k)' => Locked(k) /\ row'[k] = row[k]
    BY DEF IInv, Types, Locked
  <2>2. ASSUME NEW k \in Jobs, Locked(k)
        PROVE  otps'[row[k]].status = otps[row[k]].status
    BY <1>1, <2>2 DEF IInv, RowLocks, Holding, Locked
  <2>. QED
    BY <2>1, <2>2, LocksStay
<1>. QED
  BY <1>1, <1>2, <1>3, <1>4 DEF IInv

-----------------------------------------------------------------------------
(* The theorems *)

LEMMA NextInv == ASSUME IInv, [Next]_vars
                 PROVE  IInv'
<1>1. ASSUME NEW j \in Jobs, OtpRequest(j)
      PROVE  IInv'
  BY <1>1, CheckLimitsInv, CreateOtpInv, SentInv, SendFailsInv, AskInv, VerifyInv,
     RejectInv, ThrowInv DEF OtpRequest
<1>2. ASSUME NEW j \in Jobs, Register(j)
      PROVE  IInv'
  <2>1. ASSUME NEW n \in Names, NEW o \in DOMAIN otps, ValidateToken(j, n, o)
        PROVE  IInv'
    <3>1. otps[o].phone \in Phones /\ o \in Nat
      BY RowsHavePhones DEF IInv
    <3>. QED
      BY <2>1, <3>1, BeginInv DEF ValidateToken
  <2>2. ASSUME NEW n \in Names, NEW p \in Phones, WithoutOtp(j, n, p)
        PROVE  IInv'
    BY <2>2, BeginInv DEF WithoutOtp
  <2>. QED
    BY <1>2, <2>1, <2>2, CheckInv, CommitRegistrationInv DEF Register
<1>3. ASSUME NEW n \in Names, NEW p \in Phones, ManagerAdds(n, p)
      PROVE  IInv'
  BY <1>3, StutterInv DEF ManagerAdds
<1>4. CASE UNCHANGED vars
  BY <1>4, StutterInv DEF vars
<1>. QED
  BY <1>1, <1>2, <1>3, <1>4, TickInv, AbortInv DEF Next

\* The inductive invariant holds in every reachable state.
THEOREM Invariance == Spec => []IInv
  BY InitInv, NextInv, PTL DEF Spec

\* A phone never has two OTPs that could still be verified (otp.service.ts:137-144),
\* for any number of requests, phones and OTPs.
THEOREM OnePendingTheorem == Spec => []OnePending
  BY Invariance, NewestIsOnly, PTL

\* A step that moves the expiry of a token is the verification of a code, and of the
\* newest code of its phone.
LEMMA StepVerifiesNewest ==
    ASSUME IInv, [Next]_vars, NEW o \in DOMAIN otps,
           otps'[o].tokenExpires # otps[o].tokenExpires
    PROVE  /\ otps[o].status = "PENDING"
           /\ \A q \in DOMAIN otps : q > o => otps[q].phone # otps[o].phone
<1>1. ASSUME NEW j \in Jobs, OtpRequest(j)
      PROVE  otps[o].status = "PENDING"
  <2>1. CASE CreateOtp(j)
    <3>1. /\ Len(otps) \in Nat /\ o \in 1 .. Len(otps)
          /\ otps'[o] = IF o \in PendingOf(phone[j])
                        THEN [otps[o] EXCEPT !.status = "EXPIRED"] ELSE otps[o]
      BY <2>1 DEF CreateOtp, IInv, Types
    <3>2. otps[o] \in Row /\ "EXPIRED" \in OtpStatus
      BY RowsAreRows DEF IInv, OtpStatus
    <3>. QED
      BY <3>1, <3>2, StatusUpdate
  <2>2. CASE SendFails(j)
    <3>1. otps[o] \in Row /\ "FAILED" \in OtpStatus
      BY RowsAreRows DEF IInv, OtpStatus
    <3>2. otps'[o] = otps[o] \/ otps'[o] = [otps[o] EXCEPT !.status = "FAILED"]
      BY <2>2 DEF SendFails, IInv, Types
    <3>3. [otps[o] EXCEPT !.status = "FAILED"].tokenExpires = otps[o].tokenExpires
      BY <3>1, StatusUpdate
    <3>. QED
      BY <3>2, <3>3
  <2>3. CASE Verify(j)
    BY <2>3, VerifiedRow
  <2>. QED
    BY <1>1, <2>1, <2>2, <2>3
       DEF OtpRequest, CheckLimits, Sent, Ask, Reject, ThrowInvalidCode
<1>2. ASSUME NEW j \in Jobs, Register(j) \/ Abort(j)
      PROVE  FALSE
  BY <1>2, ConsumedAges DEF Register, ValidateToken, WithoutOtp, Begin, Check,
                            CommitRegistration, Abort
<1>3. otps[o].status = "PENDING"
  BY <1>1, <1>2 DEF Next, Tick, ManagerAdds, vars, otpVars
<1>. QED
  BY <1>3 DEF IInv, PendingIsNewest

\* Only the newest OTP of a phone is verified, and it once (otp.service.ts:420-449),
\* whichever way of verification the server is configured with.
THEOREM OnlyNewestTheorem == Spec => OnlyNewestVerified
<1>1. ASSUME IInv, [Next]_vars
      PROVE  [\A o \in DOMAIN otps :
                  otps'[o].tokenExpires # otps[o].tokenExpires =>
                      /\ otps[o].status = "PENDING"
                      /\ \A q \in DOMAIN otps : q > o => otps[q].phone # otps[o].phone]_otpVars
  BY <1>1, StepVerifiesNewest
<1>. QED
  BY <1>1, Invariance, PTL DEF Spec, OnlyNewestVerified

-----------------------------------------------------------------------------
(* What becomes of the rows *)

\* A code that is being sent has not been verified yet, and nobody verifies it.
Sending == \A j \in Jobs : pc[j] = "sending" =>
              /\ otps[row[j]].status \in {"PENDING", "EXPIRED", "FAILED"}
              /\ \A k \in Jobs : pc[k] \in {"asked", "rejected"} => row[k] # row[j]

\* What a step leaves of the rows: only a pending one is verified, only a verified
\* one consumed, and what has failed stays so.
Moved(r, s) == /\ s.phone = r.phone /\ s.created = r.created
               /\ \/ s.status = r.status
                  \/ r.status = "PENDING" /\ s.status \in {"EXPIRED", "FAILED", "VERIFIED"}
                  \/ r.status = "VERIFIED" /\ s.status = "CONSUMED"
                  \/ r.status = "EXPIRED" /\ s.status = "FAILED"

Course(T, U) == \A o \in DOMAIN T : o \in DOMAIN U /\ Moved(T[o], U[o])

SameRows == DOMAIN otps' = DOMAIN otps

LEMMA CreateOtpCourse ==
    ASSUME IInv, NEW j \in Jobs, CreateOtp(j)
    PROVE  /\ Course(otps, otps')
           /\ DOMAIN otps' = DOMAIN otps \cup {Len(otps) + 1}
           /\ Len(otps) + 1 \notin DOMAIN otps
           /\ otps'[Len(otps) + 1] = NewOtp(phone[j], at[j])
<1> DEFINE Ended(o) == IF o \in PendingOf(phone[j])
                       THEN [otps[o] EXCEPT !.status = "EXPIRED"] ELSE otps[o]
<1>1. /\ Len(otps) \in Nat /\ DOMAIN otps = 1 .. Len(otps)
      /\ DOMAIN otps' = 1 .. Len(otps) + 1
      /\ otps'[Len(otps) + 1] = NewOtp(phone[j], at[j])
      /\ \A o \in DOMAIN otps : otps'[o] = Ended(o)
  BY DEF CreateOtp, IInv, Types
<1>2. ASSUME NEW o \in DOMAIN otps
      PROVE  Moved(otps[o], Ended(o))
  <2>1. otps[o] \in Row /\ "EXPIRED" \in OtpStatus
    BY RowsAreRows DEF IInv, OtpStatus
  <2>2. CASE o \in PendingOf(phone[j])
    BY <2>1, <2>2, StatusUpdate DEF Moved, PendingOf
  <2>3. CASE o \notin PendingOf(phone[j])
    BY <2>3 DEF Moved
  <2>. QED
    BY <2>2, <2>3
<1>. HIDE DEF Ended
<1>3. \A o \in DOMAIN otps : Moved(otps[o], otps'[o])
  BY <1>1, <1>2
<1>. QED
  BY <1>1, <1>3 DEF Course

\* A step that changes one row at most.
LEMMA OneRowCourse ==
    ASSUME IInv, NEW o \in DOMAIN otps, NEW r, Moved(otps[o], r),
           otps' = [otps EXCEPT ![o] = r]
    PROVE  Course(otps, otps') /\ SameRows
  BY DEF Course, Moved, SameRows, IInv, Types

LEMMA NoRowCourse == ASSUME UNCHANGED otps
                     PROVE  Course(otps, otps') /\ SameRows
  BY DEF Course, Moved, SameRows

LEMMA SendFailsCourse == ASSUME IInv, Sending, NEW j \in Jobs, SendFails(j)
                         PROVE  Course(otps, otps') /\ SameRows
<1> DEFINE r == [otps[row[j]] EXCEPT !.status = "FAILED"]
<1>1. row[j] \in DOMAIN otps /\ otps[row[j]] \in Row /\ "FAILED" \in OtpStatus
  BY RowsAreRows DEF IInv, Holding, OtpStatus, SendFails, Leave, Goto
<1>2. otps[row[j]].status \in {"PENDING", "EXPIRED", "FAILED"}
  BY DEF Sending, SendFails, Leave, Goto
<1>3. Moved(otps[row[j]], r)
  BY <1>1, <1>2, StatusUpdate DEF Moved
<1>4. otps' = [otps EXCEPT ![row[j]] = r]
  BY <1>1 DEF SendFails
<1>. QED
  BY <1>1, <1>3, <1>4, OneRowCourse

LEMMA VerifyCourse == ASSUME IInv, NEW j \in Jobs, Verify(j)
                      PROVE  Course(otps, otps') /\ SameRows
  BY VerifiedRow, OneRowCourse DEF Moved

LEMMA ConsumedCourse == ASSUME IInv, NEW o, otps' = Consumed(o)
                        PROVE  Course(otps, otps') /\ SameRows
<1>1. CASE o \in DOMAIN otps /\ otps[o].status = "VERIFIED"
  <2> DEFINE r == [otps[o] EXCEPT !.status = "CONSUMED"]
  <2>1. otps[o] \in Row /\ "CONSUMED" \in OtpStatus
    BY <1>1, RowsAreRows DEF IInv, OtpStatus
  <2>2. Moved(otps[o], r)
    BY <1>1, <2>1, StatusUpdate DEF Moved
  <2>3. otps' = [otps EXCEPT ![o] = r]
    BY <1>1 DEF Consumed
  <2>. QED
    BY <1>1, <2>2, <2>3, OneRowCourse
<1>2. CASE ~(o \in DOMAIN otps /\ otps[o].status = "VERIFIED")
  BY <1>2, NoRowCourse DEF Consumed
<1>. QED
  BY <1>1, <1>2

\* The rows move on in every step, and only CreateOtp adds one.
LEMMA NextCourse ==
    ASSUME IInv, Sending, [Next]_vars
    PROVE  /\ Course(otps, otps')
           /\ SameRows \/ \E j \in Jobs : CreateOtp(j)
<1>1. CASE UNCHANGED otps
  BY <1>1, NoRowCourse
<1>2. ASSUME NEW j \in Jobs, OtpRequest(j)
      PROVE  Course(otps, otps') /\ (SameRows \/ \E k \in Jobs : CreateOtp(k))
  BY <1>1, <1>2, CreateOtpCourse, SendFailsCourse, VerifyCourse
     DEF OtpRequest, CheckLimits, Sent, Ask, Reject, ThrowInvalidCode
<1>3. ASSUME NEW j \in Jobs, CommitRegistration(j)
      PROVE  Course(otps, otps') /\ SameRows
  BY <1>3, ConsumedCourse DEF CommitRegistration
<1>4. ASSUME NEW j \in Jobs, Register(j) \/ Abort(j)
      PROVE  Course(otps, otps') /\ SameRows
  <2>1. UNCHANGED otps \/ CommitRegistration(j)
    BY <1>4 DEF Register, ValidateToken, WithoutOtp, Begin, Check, Abort
  <2>. QED
    BY <1>3, <2>1, NoRowCourse
<1>. QED
  BY <1>1, <1>2, <1>4 DEF Next, Tick, ManagerAdds, vars, otpVars

\* Only the newest code is verified, in a request that holds its row.
LEMMA VerifiedBy ==
    ASSUME IInv, [Next]_vars, NEW o \in DOMAIN otps,
           otps[o].status = "PENDING", otps'[o].status = "VERIFIED"
    PROVE  \E k \in Jobs : Verify(k) /\ row[k] = o
<1>1. ASSUME NEW k \in Jobs, CreateOtp(k)
      PROVE  FALSE
  <2>1. Len(otps) \in Nat /\ o \in 1 .. Len(otps)
        /\ otps'[o] = IF o \in PendingOf(phone[k])
                      THEN [otps[o] EXCEPT !.status = "EXPIRED"] ELSE otps[o]
    BY <1>1 DEF CreateOtp, IInv, Types
  <2>2. otps[o] \in Row /\ "EXPIRED" \in OtpStatus
    BY RowsAreRows DEF IInv, OtpStatus
  <2>. QED
    BY <2>1, <2>2, StatusUpdate
<1>2. ASSUME NEW k \in Jobs, SendFails(k)
      PROVE  FALSE
  <2>1. otps[o] \in Row /\ "FAILED" \in OtpStatus
    BY RowsAreRows DEF IInv, OtpStatus
  <2>2. otps'[o] = otps[o] \/ otps'[o] = [otps[o] EXCEPT !.status = "FAILED"]
    BY <1>2 DEF SendFails, IInv, Types
  <2>. QED
    BY <2>1, <2>2, StatusUpdate
<1>3. ASSUME NEW k \in Jobs, Verify(k), row[k] # o
      PROVE  FALSE
  BY <1>3, VerifiedRow
<1>4. ASSUME NEW k \in Jobs, CommitRegistration(k)
      PROVE  FALSE
  BY <1>4, ConsumedAges DEF CommitRegistration
<1>5. UNCHANGED otps => FALSE
  OBVIOUS
<1>6. ASSUME NEW k \in Jobs, OtpRequest(k)
      PROVE  Verify(k) /\ row[k] = o
  BY <1>1, <1>2, <1>3, <1>5, <1>6
     DEF OtpRequest, CheckLimits, Sent, Ask, Reject, ThrowInvalidCode
<1>7. ASSUME NEW k \in Jobs, Register(k) \/ Abort(k)
      PROVE  FALSE
  <2>1. UNCHANGED otps \/ CommitRegistration(k)
    BY <1>7 DEF Register, ValidateToken, WithoutOtp, Begin, Check, Abort
  <2>. QED
    BY <2>1, <1>4, <1>5
<1>. QED
  BY <1>5, <1>6, <1>7 DEF Next, Tick, ManagerAdds, vars, otpVars

\* How a request gets to where it sends, and to where it asks.
LEMMA Whereabouts ==
    ASSUME IInv, [Next]_vars, NEW j \in Jobs
    PROVE  /\ pc'[j] = "sending" => CreateOtp(j) \/ (pc[j] = "sending" /\ row'[j] = row[j])
           /\ pc'[j] \in {"asked", "rejected"} =>
                  \/ \E o \in DOMAIN otps : Ask(j, o)
                  \/ pc[j] \in {"asked", "rejected"} /\ row'[j] = row[j]
           /\ pc'[j] = "allowed" =>
                  \/ \E p \in Phones : CheckLimits(j, p)
                  \/ pc[j] = "allowed" /\ phone'[j] = phone[j]
<1> DEFINE Goal == /\ pc'[j] = "sending" => CreateOtp(j) \/ (pc[j] = "sending" /\ row'[j] = row[j])
                   /\ pc'[j] \in {"asked", "rejected"} =>
                        \/ \E o \in DOMAIN otps : Ask(j, o)
                        \/ pc[j] \in {"asked", "rejected"} /\ row'[j] = row[j]
                   /\ pc'[j] = "allowed" =>
                        \/ \E p \in Phones : CheckLimits(j, p)
                        \/ pc[j] = "allowed" /\ phone'[j] = phone[j]
<1> USE DEF Goto, Leave
<1>1. ASSUME NEW k \in Jobs, OtpRequest(k)
      PROVE  Goal
  <2>1. CASE Sent(k) \/ SendFails(k)
    BY <2>1 DEF Sent, SendFails, IInv, Types
  <2>2. CASE CreateOtp(k)
    <3>1. /\ pc' = [pc EXCEPT ![k] = "sending"] /\ row' = [row EXCEPT ![k] = Len(otps) + 1]
          /\ UNCHANGED phone
      BY <2>2 DEF CreateOtp
    <3>2. CASE j = k
      <4>1. CreateOtp(j)
        BY <2>2, <3>2, Zenon
      <4>2. pc'[j] = "sending"
        BY <3>1, <3>2 DEF IInv, Types
      <4>. QED
        BY <4>1, <4>2
    <3>3. CASE j # k
      BY <3>1, <3>3 DEF IInv, Types
    <3>. QED
      BY <3>2, <3>3
  <2>3. ASSUME NEW o \in DOMAIN otps, Ask(k, o)
        PROVE  Goal
    BY <2>3 DEF Ask, IInv, Types
  <2>4. CASE Verify(k) \/ Reject(k) \/ ThrowInvalidCode(k)
    BY <2>4 DEF Verify, Reject, ThrowInvalidCode, IInv, Types
  <2>5. ASSUME NEW p \in Phones, CheckLimits(k, p)
        PROVE  Goal
    <3>1. /\ pc' = [pc EXCEPT ![k] = "allowed"] /\ phone' = [phone EXCEPT ![k] = p]
          /\ UNCHANGED row
      BY <2>5 DEF CheckLimits
    <3>2. CASE j = k
      <4>1. CheckLimits(j, p)
        BY <2>5, <3>2, Zenon
      <4>2. pc'[j] = "allowed"
        BY <3>1, <3>2 DEF IInv, Types
      <4>. QED
        BY <4>1, <4>2
    <3>3. CASE j # k
      BY <3>1, <3>3 DEF IInv, Types
    <3>. QED
      BY <3>2, <3>3
  <2>. QED
    BY <1>1, <2>1, <2>2, <2>3, <2>4, <2>5 DEF OtpRequest
<1>2. ASSUME NEW k \in Jobs, NEW n, NEW p, NEW o, Begin(k, n, p, o)
      PROVE  Goal
  BY <1>2 DEF Begin, IInv, Types
<1>3. ASSUME NEW k \in Jobs, Check(k) \/ CommitRegistration(k)
      PROVE  Goal
  BY <1>3 DEF Check, CommitRegistration, IInv, Types
<1>4. ASSUME NEW k \in Jobs, Abort(k)
      PROVE  Goal
  BY <1>4 DEF Abort, IInv, Types
<1>5. UNCHANGED <<pc, row, phone>> => Goal
  OBVIOUS
<1>6. ASSUME NEW k \in Jobs, Register(k)
      PROVE  Goal
  BY <1>2, <1>3, <1>6 DEF Register, ValidateToken, WithoutOtp
<1>. HIDE DEF Goal
<1>7. Goal
  BY <1>1, <1>4, <1>5, <1>6 DEF Next, Tick, ManagerAdds, vars, otpVars
<1>. QED
  BY <1>7 DEF Goal

LEMMA SendingStays ==
    ASSUME IInv, Sending, [Next]_vars
    PROVE  Sending'
<1> SUFFICES ASSUME NEW j \in Jobs, pc'[j] = "sending"
             PROVE  /\ otps'[row'[j]].status \in {"PENDING", "EXPIRED", "FAILED"}
                    /\ \A k \in Jobs : pc'[k] \in {"asked", "rejected"} => row'[k] # row'[j]
  BY DEF Sending
<1>1. CASE CreateOtp(j)
  <2>1. /\ row'[j] = Len(otps) + 1
        /\ \A k \in Jobs : pc'[k] \in {"asked", "rejected"} =>
               pc[k] \in {"asked", "rejected"} /\ row'[k] = row[k]
    BY <1>1 DEF CreateOtp, Goto, IInv, Types
  <2>2. \A k \in Jobs : pc[k] \in {"asked", "rejected"} => row[k] # Len(otps) + 1
    BY <1>1, CreateOtpCourse DEF IInv, Holding
  <2>3. otps'[row'[j]].status = "PENDING"
    <3>1. otps'[Len(otps) + 1] = NewOtp(phone[j], at[j])
      BY <1>1, CreateOtpCourse
    <3>. QED
      BY <2>1, <3>1 DEF NewOtp
  <2>. QED
    BY <2>1, <2>2, <2>3
<1>2. CASE ~CreateOtp(j)
  <2>1. pc[j] = "sending" /\ row'[j] = row[j] /\ row[j] \in DOMAIN otps
    BY <1>2, Whereabouts DEF IInv, Holding
  <2>2. Moved(otps[row[j]], otps'[row[j]])
    BY <2>1, NextCourse DEF Course
  <2>3. otps[row[j]].status = "PENDING" => otps'[row[j]].status # "VERIFIED"
    <3>1. ASSUME NEW k \in Jobs, Verify(k)
          PROVE  row[k] # row[j]
      BY <2>1, <3>1 DEF Sending, Verify, Leave, Goto
    <3>. QED
      BY <2>1, <3>1, VerifiedBy
  <2>4. ASSUME NEW k \in Jobs, pc'[k] \in {"asked", "rejected"}
        PROVE  row'[k] # row[j]
    <3>1. ASSUME NEW o \in DOMAIN otps, Ask(k, o)
          PROVE  row'[k] # row[j]
      BY <2>1, <3>1 DEF Ask, IInv, Types
    <3>. QED
      BY <2>1, <2>4, <3>1, Whereabouts DEF Sending
  <2>. QED
    BY <2>1, <2>2, <2>3, <2>4 DEF Sending, Moved
<1>. QED
  BY <1>1, <1>2

LEMMA InvStays == IInv /\ [Next]_vars => IInv'
  BY NextInv

LEMMA SendingInvariance == Spec => [](IInv /\ Sending)
<1>1. Init => Sending
  BY DEF Init, OtpInit, Sending
<1>. QED
  BY <1>1, Invariance, SendingStays, PTL DEF Spec

-----------------------------------------------------------------------------
(* The limits of a phone *)

Recent(T, t, p, d) == {o \in DOMAIN T : /\ T[o].phone = p
                                        /\ T[o].created + d >= t
                                        /\ T[o].status # "FAILED"}

\* The phone may have another code.
Room(T, t, p) == /\ Recent(T, t, p, Cooldown) = {}
                 /\ Cardinality(Recent(T, t, p, Hour)) < RateLimit

Within(T, o, d) == {q \in 1 .. o : /\ T[q].phone = T[o].phone
                                   /\ T[q].status # "FAILED"
                                   /\ T[q].created + d >= T[o].created}

Spaced(T) == \A o \in DOMAIN T : T[o].status # "FAILED" =>
                /\ Within(T, o, Cooldown) = {o}
                /\ Cardinality(Within(T, o, Hour)) <= RateLimit

\* Behind the lock of its phone, a request has made sure that there is room.
Allowed == \A j \in Jobs : pc[j] = "allowed" =>
              /\ Room(otps, now, phone[j])
              /\ \A k \in Jobs : pc[k] = "allowed" /\ phone[k] = phone[j] => k = j

Past(T, t) == \A o \in DOMAIN T : T[o].created <= t

Limits == Past(otps, now) /\ Spaced(otps) /\ Allowed

LEMMA RowsOf ==
    ASSUME NEW T \in Seq(Row)
    PROVE  /\ Len(T) \in Nat /\ DOMAIN T = 1 .. Len(T)
           /\ \A o \in DOMAIN T : T[o] \in Row /\ o \in Nat /\ 1 .. o \subseteq DOMAIN T
  OBVIOUS

LEMMA OneMore ==
    ASSUME NEW k \in Nat
    PROVE  k + 1 \in Nat /\ k + 1 \notin 1 .. k /\ 1 .. (k + 1) = (1 .. k) \cup {k + 1}
  OBVIOUS

LEMMA StillLess ==
    ASSUME NEW a \in Nat, NEW b \in Nat, NEW c \in Nat, a <= b, b < c
    PROVE  a < c
  OBVIOUS

LEMMA StillLater ==
    ASSUME NEW c \in Nat, NEW d \in Nat, NEW t \in Nat, NEW u \in Nat, t <= u, c + d >= u
    PROVE  c + d >= t
  OBVIOUS

\* Sets of rows are finite.
LEMMA RowsFinite ==
    ASSUME NEW T \in Seq(Row), NEW S \in SUBSET DOMAIN T
    PROVE  IsFiniteSet(S) /\ Cardinality(S) \in Nat
<1>1. DOMAIN T = 1 .. Len(T) /\ Len(T) \in Nat
  OBVIOUS
<1>2. IsFiniteSet(DOMAIN T)
  BY <1>1, FS_Interval
<1>. QED
  BY <1>2, FS_Subset, FS_CardinalityType

LEMMA SmallerCount ==
    ASSUME NEW T \in Seq(Row), NEW S \in SUBSET DOMAIN T, NEW R \in SUBSET S
    PROVE  Cardinality(R) <= Cardinality(S) /\ Cardinality(R) \in Nat
<1>1. IsFiniteSet(S) /\ IsFiniteSet(R) /\ Cardinality(R) \in Nat
  BY RowsFinite
<1>. QED
  BY <1>1, FS_Subset

\* Time and the end of a code only make room; so does a code of another phone.
LEMMA RoomStays ==
    ASSUME NEW T \in Seq(Row), NEW U \in Seq(Row), NEW t \in Nat, NEW u \in Nat, t <= u,
           Course(T, U), NEW p, Room(T, t, p),
           \A o \in DOMAIN U : o \in DOMAIN T \/ U[o].phone # p
    PROVE  Room(U, u, p)
<1> USE OtpAssumption
<1>1. ASSUME NEW d \in Nat
      PROVE  Recent(U, u, p, d) \subseteq Recent(T, t, p, d)
  <2> SUFFICES ASSUME NEW o \in Recent(U, u, p, d)
               PROVE  o \in Recent(T, t, p, d)
    OBVIOUS
  <2>1. o \in DOMAIN T /\ Moved(T[o], U[o]) /\ T[o] \in Row /\ U[o] \in Row
    BY DEF Recent, Course
  <2>2. U[o].created + d >= u /\ T[o].created = U[o].created /\ T[o].created \in Nat
    BY <2>1 DEF Recent, Moved, Row
  <2>3. T[o].created + d >= t
    BY <2>2, StillLater
  <2>. QED
    BY <2>1, <2>3 DEF Recent, Moved
<1>2. Recent(U, u, p, Cooldown) = {}
  BY <1>1 DEF Room
<1>3. Recent(T, t, p, Hour) \in SUBSET DOMAIN T
  BY DEF Recent
<1>4. /\ Cardinality(Recent(U, u, p, Hour)) <= Cardinality(Recent(T, t, p, Hour))
      /\ Cardinality(Recent(U, u, p, Hour)) \in Nat
      /\ Cardinality(Recent(T, t, p, Hour)) \in Nat
  BY <1>1, <1>3, SmallerCount, RowsFinite
<1>5. Cardinality(Recent(T, t, p, Hour)) < RateLimit /\ RateLimit \in Nat
  BY DEF Room
<1>6. Cardinality(Recent(U, u, p, Hour)) < RateLimit
  BY <1>4, <1>5, StillLess
<1>. QED
  BY <1>2, <1>6 DEF Room

\* A row keeps its distance to the rows before it.
LEMMA RowSpaced ==
    ASSUME NEW T \in Seq(Row), NEW U \in Seq(Row), Course(T, U), Spaced(T),
           NEW o \in DOMAIN T, U[o].status # "FAILED"
    PROVE  /\ Within(U, o, Cooldown) = {o}
           /\ Cardinality(Within(U, o, Hour)) <= RateLimit
<1> USE OtpAssumption
<1>1. o \in 1 .. Len(T) /\ Len(T) \in Nat /\ o \in Nat /\ 1 .. o \subseteq DOMAIN T
  BY RowsOf
<1>2. Moved(T[o], U[o]) /\ o \in DOMAIN U /\ U[o] \in Row
  BY DEF Course
<1>3. ASSUME NEW d \in Nat
      PROVE  Within(U, o, d) \subseteq Within(T, o, d)
  <2> SUFFICES ASSUME NEW q \in Within(U, o, d)
               PROVE  q \in Within(T, o, d)
    OBVIOUS
  <2>1. q \in DOMAIN T /\ Moved(T[q], U[q])
    BY <1>1 DEF Within, Course
  <2>. QED
    BY <1>2, <2>1 DEF Within, Moved
<1>4. T[o].status # "FAILED"
  BY <1>2 DEF Moved
<1>5. Within(U, o, Cooldown) = {o}
  <2>1. o \in Within(U, o, Cooldown)
    <3>1. U[o].created \in Nat /\ U[o].created + Cooldown >= U[o].created
      BY <1>2 DEF Row
    <3>. QED
      BY <1>1, <3>1 DEF Within
  <2>. QED
    BY <1>3, <1>4, <2>1 DEF Spaced
<1>6. Within(T, o, Hour) \in SUBSET DOMAIN T
  BY <1>1 DEF Within
<1>7. /\ Cardinality(Within(U, o, Hour)) <= Cardinality(Within(T, o, Hour))
      /\ Cardinality(Within(U, o, Hour)) \in Nat
      /\ Cardinality(Within(T, o, Hour)) \in Nat
  BY <1>3, <1>6, SmallerCount, RowsFinite
<1>8. Cardinality(Within(T, o, Hour)) <= RateLimit
  BY <1>4 DEF Spaced
<1>. QED
  BY <1>5, <1>7, <1>8

\* A new row where there is room.
LEMMA NewRowSpaced ==
    ASSUME NEW T \in Seq(Row), NEW U \in Seq(Row), Course(T, U), Spaced(T), NEW n,
           n = Len(T) + 1, DOMAIN U = DOMAIN T \cup {n},
           Room(T, U[n].created, U[n].phone)
    PROVE  Spaced(U)
<1> USE OtpAssumption
<1>1. /\ Len(T) \in Nat /\ DOMAIN T = 1 .. Len(T) /\ n \in Nat /\ n \notin DOMAIN T
      /\ 1 .. n = DOMAIN T \cup {n} /\ U[n].created \in Nat
  <2>1. Len(T) \in Nat /\ DOMAIN T = 1 .. Len(T)
    BY RowsOf
  <2>2. U[n] \in Row
    <3>1. n \in DOMAIN U
      OBVIOUS
    <3>2. \A o \in DOMAIN U : U[o] \in Row
      BY RowsOf
    <3>. QED
      BY <3>1, <3>2
  <2>3. n \in Nat /\ n \notin 1 .. Len(T) /\ 1 .. n = (1 .. Len(T)) \cup {n}
    BY <2>1, OneMore
  <2>4. U[n].created \in Nat
    BY <2>2 DEF Row
  <2>. QED
    BY <2>1, <2>3, <2>4
<1>2. ASSUME NEW d \in Nat
      PROVE  Within(U, n, d) \subseteq Recent(T, U[n].created, U[n].phone, d) \cup {n}
  <2> SUFFICES ASSUME NEW q \in Within(U, n, d), q # n
               PROVE  q \in Recent(T, U[n].created, U[n].phone, d)
    OBVIOUS
  <2>1. q \in DOMAIN T /\ Moved(T[q], U[q])
    BY <1>1 DEF Within, Course
  <2>. QED
    BY <2>1 DEF Within, Recent, Moved
<1>3. ASSUME U[n].status # "FAILED"
      PROVE  Within(U, n, Cooldown) = {n} /\ Cardinality(Within(U, n, Hour)) <= RateLimit
  <2>1. n \in Within(U, n, Cooldown)
    BY <1>1, <1>3 DEF Within
  <2>2. Within(U, n, Cooldown) = {n}
    BY <1>2, <2>1 DEF Room
  <2> DEFINE R == Recent(T, U[n].created, U[n].phone, Hour)
  <2>3. R \in SUBSET DOMAIN T /\ n \notin R
    BY <1>1 DEF Recent
  <2>4. IsFiniteSet(R) /\ Cardinality(R) \in Nat
    BY <2>3, RowsFinite
  <2>5. IsFiniteSet(R \cup {n}) /\ Cardinality(R \cup {n}) = Cardinality(R) + 1
    BY <2>3, <2>4, FS_AddElement
  <2>6. Within(U, n, Hour) \in SUBSET (R \cup {n})
    BY <1>2
  <2>7. /\ Cardinality(Within(U, n, Hour)) <= Cardinality(R \cup {n})
        /\ Cardinality(Within(U, n, Hour)) \in Nat
    BY <2>5, <2>6, FS_Subset, FS_CardinalityType
  <2>8. Cardinality(R) < RateLimit /\ RateLimit \in Nat
    BY DEF Room
  <2>. HIDE DEF R
  <2>. QED
    BY <2>2, <2>4, <2>5, <2>7, <2>8
<1>4. ASSUME NEW o \in DOMAIN U, U[o].status # "FAILED"
      PROVE  Within(U, o, Cooldown) = {o} /\ Cardinality(Within(U, o, Hour)) <= RateLimit
  BY <1>3, <1>4, RowSpaced
<1>. QED
  BY <1>4 DEF Spaced

\* With the same rows and no less time gone by, what is allowed stays allowed.
LEMMA AllowedStays ==
    ASSUME IInv, IInv', Sending, Limits, [Next]_vars, now <= now',
           \A j \in Jobs : pc'[j] = "allowed" => pc[j] = "allowed" /\ phone'[j] = phone[j],
           \A j \in Jobs : pc'[j] = "allowed" =>
               \A o \in DOMAIN otps' : o \in DOMAIN otps \/ otps'[o].phone # phone[j]
    PROVE  Allowed'
<1> SUFFICES ASSUME NEW j \in Jobs, pc'[j] = "allowed"
             PROVE  /\ Room(otps', now', phone'[j])
                    /\ \A k \in Jobs : pc'[k] = "allowed" /\ phone'[k] = phone'[j] => k = j
  BY DEF Allowed
<1>1. Course(otps, otps')
  BY NextCourse
<1>2. Room(otps, now, phone[j])
  BY DEF Limits, Allowed
<1>3. otps \in Seq(Row) /\ otps' \in Seq(Row) /\ now \in Nat /\ now' \in Nat
  BY DEF IInv, Types
<1>4. Room(otps', now', phone[j])
  BY <1>1, <1>2, <1>3, RoomStays
<1>. QED
  BY <1>4 DEF Limits, Allowed

LEMMA ClockRuns == ASSUME IInv, [Next]_vars
                   PROVE  now' \in Nat /\ now <= now'
<1>1. now' = now \/ now' = now + 1
  BY DEF Next, OtpRequest, Register, CheckLimits, CreateOtp, Sent, SendFails, Ask,
         Verify, Reject, ThrowInvalidCode, ValidateToken, WithoutOtp, Begin, Check,
         CommitRegistration, Abort, Tick, ManagerAdds, Leave, vars, otpVars
<1>. QED
  BY <1>1 DEF IInv, Types

LEMMA CreateOtpLimits ==
    ASSUME IInv, IInv', Sending, Limits, [Next]_vars, NEW j \in Jobs, CreateOtp(j)
    PROVE  Limits'
<1> DEFINE n == Len(otps) + 1
<1>1. /\ otps \in Seq(Row) /\ otps' \in Seq(Row) /\ now \in Nat /\ now' = now
      /\ phone' = phone
  BY DEF IInv, Types, CreateOtp
<1>2. /\ Course(otps, otps') /\ DOMAIN otps' = DOMAIN otps \cup {n}
      /\ otps'[n].phone = phone[j] /\ otps'[n].created = now
  <2>1. /\ Course(otps, otps') /\ DOMAIN otps' = DOMAIN otps \cup {n}
        /\ otps'[n] = NewOtp(phone[j], at[j])
    BY CreateOtpCourse
  <2>. QED
    BY <2>1 DEF NewOtp
<1>3. pc[j] = "allowed" /\ pc' = [pc EXCEPT ![j] = "sending"]
  BY DEF CreateOtp, Goto
<1>4. Room(otps, now, phone[j])
  BY <1>3 DEF Limits, Allowed
<1>5. Spaced(otps')
  BY <1>1, <1>2, <1>4, NewRowSpaced DEF Limits
<1>6. Past(otps', now')
  BY <1>1, <1>2 DEF Limits, Past, Course, Moved
<1>7. Allowed'
  <2>1. ASSUME NEW k \in Jobs, pc'[k] = "allowed"
        PROVE  pc[k] = "allowed" /\ phone[k] # phone[j]
    BY <1>3, <2>1 DEF IInv, Types, Limits, Allowed
  <2>. QED
    BY <1>1, <1>2, <2>1, AllowedStays
<1>. QED
  BY <1>5, <1>6, <1>7 DEF Limits

LEMMA CheckLimitsLimits ==
    ASSUME IInv, Limits, NEW j \in Jobs, NEW p \in Phones, CheckLimits(j, p)
    PROVE  Limits'
<1>1. UNCHANGED <<otps, now>>
  BY DEF CheckLimits
<1>2. Room(otps, now, p)
  BY DEF CheckLimits, Counted, Room, Recent
<1>3. /\ phone'[j] = p
      /\ \A k \in Jobs : k # j /\ pc'[k] = "allowed" =>
             pc[k] = "allowed" /\ phone'[k] = phone[k] /\ phone[k] # p
  BY DEF CheckLimits, Goto, PhoneFree, IInv, Types
<1>4. Allowed'
  BY <1>1, <1>2, <1>3 DEF Limits, Allowed
<1>. QED
  BY <1>1, <1>4 DEF Limits

LEMMA LimitsStay ==
    ASSUME IInv, IInv', Sending, Limits, [Next]_vars
    PROVE  Limits'
<1>1. CASE \E j \in Jobs : CreateOtp(j)
  BY <1>1, CreateOtpLimits
<1>2. CASE \E j \in Jobs, p \in Phones : CheckLimits(j, p)
  BY <1>2, CheckLimitsLimits
<1>3. CASE ~(\E j \in Jobs : CreateOtp(j)) /\ ~(\E j \in Jobs, p \in Phones : CheckLimits(j, p))
  <2>1. Course(otps, otps') /\ DOMAIN otps' = DOMAIN otps
    BY <1>3, NextCourse DEF SameRows
  <2>2. /\ otps \in Seq(Row) /\ otps' \in Seq(Row) /\ now \in Nat /\ now' \in Nat
        /\ now <= now'
    BY ClockRuns DEF IInv, Types
  <2>3. \A j \in Jobs : pc'[j] = "allowed" => pc[j] = "allowed" /\ phone'[j] = phone[j]
    BY <1>3, Whereabouts
  <2>4. Allowed'
    BY <2>1, <2>2, <2>3, AllowedStays
  <2>5. Spaced(otps')
    BY <2>1, <2>2, RowSpaced DEF Limits, Spaced
  <2>6. Past(otps', now')
    <3> SUFFICES ASSUME NEW o \in DOMAIN otps
                 PROVE  otps'[o].created <= now'
      BY <2>1 DEF Past
    <3>1. otps'[o].created = otps[o].created /\ otps[o].created <= now
      BY <2>1 DEF Course, Moved, Limits, Past
    <3>2. otps[o].created \in Nat
      BY RowsAreRows DEF IInv, Row
    <3>. QED
      BY <2>2, <3>1, <3>2
  <2>. QED
    BY <2>4, <2>5, <2>6 DEF Limits
<1>. QED
  BY <1>1, <1>2, <1>3

LEMMA LimitsInvariance == Spec => [](IInv /\ Sending /\ Limits)
<1>1. Init => Limits
  BY DEF Init, OtpInit, Limits, Past, Spaced, Allowed
<1>2. IInv /\ IInv' /\ Sending /\ Limits /\ [Next]_vars => Limits'
  BY LimitsStay
<1>. QED
  BY <1>1, <1>2, SendingInvariance, PTL DEF Spec

\* A phone is sent no second code within the cooldown and no more in an hour than the
\* limit, whatever requests run at once (otp.service.ts:102-135): for any cooldown and
\* limit, and any number of requests.
THEOREM LimitsTheorem == Spec => []LimitsKept
<1>1. IInv /\ Limits => LimitsKept
  <2> SUFFICES ASSUME IInv, Limits, NEW o \in DOMAIN otps, otps[o].status # "FAILED"
               PROVE  /\ Cardinality(Within(otps, o, Cooldown)) = 1
                      /\ Cardinality(Within(otps, o, Hour)) <= RateLimit
    BY DEF LimitsKept, Within
  <2>. QED
    BY FS_Singleton DEF Limits, Spaced
<1>. QED
  BY <1>1, LimitsInvariance, PTL

-----------------------------------------------------------------------------
(* The registrations *)

Account == [name : Names, phone : Phones, via : Nat \cup {None}]

Own(S, p) == {s \in DOMAIN S : S[s].phone = p /\ S[s].via # None}

NewName(S, p, n) == \A s \in Own(S, p) : S[s].name # n
Place(S, p) == MaxAccounts # 0 => Cardinality(Own(S, p)) < MaxAccounts

Once(S) == \A p \in Phones : \A s, t \in Own(S, p) : S[s].name = S[t].name => s = t
Few(S) == MaxAccounts # 0 => \A p \in Phones : Cardinality(Own(S, p)) <= MaxAccounts

Accounts == /\ students \in Seq(Account)
            /\ \A s \in DOMAIN students : students[s].via \in {0, None} \cup DOMAIN otps
            /\ name \in [Jobs -> Names \cup {None}]

\* A request that registers has a name, a phone, and the row of a token if it needs one.
Desk == \A j \in Jobs : pc[j] \in {"resolving", "checked"} =>
           /\ name[j] \in Names /\ phone[j] \in Phones
           /\ \/ row[j] = 0
              \/ row[j] \in DOMAIN otps /\ otps[row[j]].status \in {"VERIFIED", "CONSUMED"}

\* Behind the lock of its phone, what it checked stays true: managers who add
\* students meanwhile take nothing from those who register themselves.
Checked == \A j \in Jobs : pc[j] = "checked" =>
              /\ NewName(students, phone[j], name[j]) /\ Place(students, phone[j])
              /\ \A k \in Jobs : pc[k] = "checked" /\ phone[k] = phone[j] => k = j

Enrolment == /\ Accounts /\ Desk /\ Checked
             /\ Once(students) /\ Few(students)
             /\ ConsumedIsRegistered

LEMMA OwnFinite ==
    ASSUME NEW S \in Seq(Account), NEW R, NEW p, R = Own(S, p)
    PROVE  IsFiniteSet(R) /\ Cardinality(R) \in Nat
<1>1. DOMAIN S = 1 .. Len(S) /\ Len(S) \in Nat
  OBVIOUS
<1>2. R \in SUBSET DOMAIN S
  BY DEF Own
<1>3. IsFiniteSet(DOMAIN S)
  BY <1>1, FS_Interval
<1>. QED
  BY <1>2, <1>3, FS_Subset, FS_CardinalityType

LEMMA Appended ==
    ASSUME NEW S \in Seq(Account), NEW x \in Account
    PROVE  LET U == Append(S, x)
               n == Len(S) + 1
           IN  /\ U \in Seq(Account) /\ n \notin DOMAIN S /\ DOMAIN U = DOMAIN S \cup {n}
               /\ U[n] = x /\ \A s \in DOMAIN S : U[s] = S[s]
  OBVIOUS

\* An account that is not one's own changes nothing; an own one is one more.
LEMMA OwnAppended ==
    ASSUME NEW S \in Seq(Account), NEW x \in Account, NEW p
    PROVE  Own(Append(S, x), p) = IF x.via # None /\ x.phone = p
                                  THEN Own(S, p) \cup {Len(S) + 1} ELSE Own(S, p)
  BY Appended DEF Own

\* Nobody but the account added can take the name or the place.
LEMMA CheckedStands ==
    ASSUME NEW S \in Seq(Account), NEW x \in Account, NEW p, NEW n,
           NewName(S, p, n), Place(S, p), x.via = None \/ x.phone # p
    PROVE  NewName(Append(S, x), p, n) /\ Place(Append(S, x), p)
<1>1. Own(Append(S, x), p) = Own(S, p)
  BY OwnAppended
<1>2. \A s \in Own(S, p) : Append(S, x)[s] = S[s]
  BY Appended DEF Own
<1>. QED
  BY <1>1, <1>2 DEF NewName, Place

\* The account a request checked for.
LEMMA OneMoreAccount ==
    ASSUME NEW S \in Seq(Account), NEW x \in Account, Once(S), Few(S),
           x.via = None \/ (NewName(S, x.phone, x.name) /\ Place(S, x.phone))
    PROVE  Once(Append(S, x)) /\ Few(Append(S, x))
<1> DEFINE U == Append(S, x)
           n == Len(S) + 1
<1>1. n \notin DOMAIN S /\ U[n] = x /\ \A s \in DOMAIN S : U[s] = S[s]
  BY Appended
<1>2. \A p : Own(U, p) = IF x.via # None /\ x.phone = p
                         THEN Own(S, p) \cup {n} ELSE Own(S, p)
  BY OwnAppended
<1>3. \A p : Own(S, p) \subseteq DOMAIN S
  BY DEF Own
<1>. HIDE DEF U, n
<1>4. Once(U)
  <2> SUFFICES ASSUME NEW p \in Phones, NEW s \in Own(U, p), NEW t \in Own(U, p),
                      U[s].name = U[t].name
               PROVE  s = t
    BY DEF Once
  <2>1. CASE s \in Own(S, p) /\ t \in Own(S, p)
    BY <1>1, <1>3, <2>1 DEF Once
  <2>2. CASE ~(s \in Own(S, p) /\ t \in Own(S, p))
    <3>1. x.via # None /\ x.phone = p /\ NewName(S, p, x.name)
      BY <1>2, <2>2
    <3>2. \A q \in Own(S, p) : U[q].name # U[n].name
      BY <1>1, <1>3, <3>1 DEF NewName
    <3>. QED
      BY <1>2, <2>2, <3>2
  <2>. QED
    BY <2>1, <2>2
<1>5. ASSUME MaxAccounts # 0, NEW p \in Phones
      PROVE  Cardinality(Own(U, p)) <= MaxAccounts
  <2>1. Cardinality(Own(S, p)) <= MaxAccounts
    BY <1>5 DEF Few
  <2>2. CASE x.via # None /\ x.phone = p
    <3>1. Cardinality(Own(S, p)) < MaxAccounts
      BY <1>5, <2>2 DEF Place
    <3>2. IsFiniteSet(Own(S, p)) /\ Cardinality(Own(S, p)) \in Nat
      BY OwnFinite
    <3>3. Cardinality(Own(U, p)) = Cardinality(Own(S, p)) + 1
      <4>1. n \notin Own(S, p) /\ Own(U, p) = Own(S, p) \cup {n}
        BY <1>1, <1>2, <1>3, <2>2
      <4>2. Cardinality(Own(S, p) \cup {n}) = Cardinality(Own(S, p)) + 1
        BY <3>2, <4>1, FS_AddElement
      <4>. QED
        BY <4>1, <4>2
    <3>. QED
      BY <3>1, <3>2, <3>3, RegistrationAssumption
  <2>. QED
    BY <1>2, <2>1, <2>2
<1>. QED
  BY <1>4, <1>5 DEF Few, U

\* How a request gets to where it registers.
Unmoved(j) == /\ pc'[j] = pc[j] /\ name'[j] = name[j]
              /\ phone'[j] = phone[j] /\ row'[j] = row[j]

\* A phone is proved by the row of a token, or nobody asks for that.
Shows(p, o) == \/ o = 0 /\ ~otpEnabled
               \/ o \in DOMAIN otps /\ otps[o].status = "VERIFIED" /\ otps[o].phone = p

Begins(j) == \E n \in Names, p \in Phones, o \in Nat : Begin(j, n, p, o) /\ Shows(p, o)

LEMMA Registrants ==
    ASSUME IInv, Accounts, [Next]_vars, NEW j \in Jobs, pc'[j] \in {"resolving", "checked"}
    PROVE  Unmoved(j) \/ Begins(j) \/ Check(j)
<1> DEFINE Goal == Unmoved(j) \/ Begins(j) \/ Check(j)
<1> USE DEF Goto, Leave
<1>1. ASSUME NEW k \in Jobs, OtpRequest(k), UNCHANGED name
      PROVE  Unmoved(j)
  <2>1. ASSUME NEW p \in Phones, CheckLimits(k, p)
        PROVE  Unmoved(j)
    BY <1>1, <2>1 DEF CheckLimits, Unmoved, IInv, Types
  <2>2. CASE CreateOtp(k)
    BY <1>1, <2>2 DEF CreateOtp, Unmoved, IInv, Types
  <2>3. CASE Sent(k) \/ SendFails(k)
    BY <1>1, <2>3 DEF Sent, SendFails, Unmoved, IInv, Types
  <2>4. ASSUME NEW o \in DOMAIN otps, Ask(k, o)
        PROVE  Unmoved(j)
    BY <1>1, <2>4 DEF Ask, Unmoved, IInv, Types
  <2>5. CASE Verify(k) \/ Reject(k) \/ ThrowInvalidCode(k)
    BY <1>1, <2>5 DEF Verify, Reject, ThrowInvalidCode, Unmoved, IInv, Types
  <2>. QED
    BY <1>1, <2>1, <2>2, <2>3, <2>4, <2>5 DEF OtpRequest
<1>2. ASSUME NEW k \in Jobs, NEW n \in Names, NEW p \in Phones, NEW o \in Nat, Begin(k, n, p, o),
             Shows(p, o)
      PROVE  Goal
  <2>1. CASE k = j
    BY <1>2, <2>1 DEF Begins
  <2>2. CASE k # j
    BY <1>2, <2>2 DEF Begin, Unmoved, IInv, Types, Accounts
  <2>. QED
    BY <2>1, <2>2
<1>3. ASSUME NEW k \in Jobs, Check(k)
      PROVE  Goal
  <2>1. CASE k = j
    BY <1>3, <2>1
  <2>2. CASE k # j
    BY <1>3, <2>2 DEF Check, Unmoved, IInv, Types
  <2>. QED
    BY <2>1, <2>2
<1>4. ASSUME NEW k \in Jobs, CommitRegistration(k) \/ Abort(k)
      PROVE  Unmoved(j)
  BY <1>4 DEF CommitRegistration, Abort, Unmoved, IInv, Types, Accounts
<1>5. UNCHANGED <<pc, name, phone, row>> => Unmoved(j)
  BY DEF Unmoved
<1>6. ASSUME NEW k \in Jobs, Register(k)
      PROVE  Goal
  <2>1. ASSUME NEW n \in Names, NEW o \in DOMAIN otps, ValidateToken(k, n, o)
        PROVE  Goal
    <3>1. otps[o] \in Row /\ Len(otps) \in Nat /\ o \in 1 .. Len(otps)
      BY RowsAreRows DEF IInv, Types
    <3>2. otps[o].phone \in Phones /\ o \in Nat
      BY <3>1 DEF Row
    <3>. QED
      BY <1>2, <2>1, <3>2 DEF ValidateToken, Shows
  <2>2. ASSUME NEW n \in Names, NEW p \in Phones, WithoutOtp(k, n, p)
        PROVE  Goal
    BY <1>2, <2>2 DEF WithoutOtp, Shows
  <2>. HIDE DEF Goal
  <2>. QED
    BY <1>3, <1>4, <1>6, <2>1, <2>2 DEF Register, Goal
<1>. QED
  BY <1>1, <1>4, <1>5, <1>6 DEF Next, Tick, ManagerAdds, vars, otpVars

\* Where an account is added: a registration that checked for it, or the managers.
Adds(x) == /\ students' = Append(students, x) /\ x \in Account
           /\ \/ x.via = None /\ UNCHANGED <<otps, pc>>
              \/ \E j \in Jobs : /\ CommitRegistration(j)
                                 /\ x = Student(name[j], phone[j], row[j])

LEMMA StudentsGrow ==
    ASSUME IInv, Desk, [Next]_vars
    PROVE  UNCHANGED students \/ \E x : Adds(x)
<1>1. ASSUME NEW j \in Jobs, CommitRegistration(j)
      PROVE  \E x : Adds(x)
  <2>1. name[j] \in Names /\ phone[j] \in Phones /\ row[j] \in Nat
    BY <1>1 DEF Desk, CommitRegistration, Leave, Goto, IInv, Types
  <2>2. Student(name[j], phone[j], row[j]) \in Account
    BY <2>1 DEF Student, Account
  <2>3. Adds(Student(name[j], phone[j], row[j]))
    BY <1>1, <2>2 DEF Adds, CommitRegistration
  <2>. QED
    BY <2>3
<1>2. ASSUME NEW n \in Names, NEW p \in Phones, ManagerAdds(n, p)
      PROVE  \E x : Adds(x)
  <2>1. Student(n, p, None) \in Account /\ Student(n, p, None).via = None
    BY DEF Student, Account
  <2>2. Adds(Student(n, p, None))
    BY <1>2, <2>1 DEF Adds, ManagerAdds, otpVars
  <2>. QED
    BY <2>2
<1>3. ASSUME NEW j \in Jobs, Register(j) \/ Abort(j)
      PROVE  UNCHANGED students \/ CommitRegistration(j)
  BY <1>3 DEF Register, Abort, ValidateToken, WithoutOtp, Begin, Check
<1>. QED
  BY <1>1, <1>2, <1>3 DEF Next, vars

LEMMA NamesStay == ASSUME IInv, Accounts, [Next]_vars
                   PROVE  name' \in [Jobs -> Names \cup {None}]
<1>1. ASSUME NEW j \in Jobs, Register(j) \/ Abort(j)
      PROVE  name' \in [Jobs -> Names \cup {None}]
  BY <1>1 DEF Register, Abort, ValidateToken, WithoutOtp, Begin, Check, CommitRegistration,
              Accounts
<1>. QED
  BY <1>1 DEF Next, ManagerAdds, vars, Accounts

LEMMA DeskStays ==
    ASSUME IInv, Sending, Accounts, Desk, [Next]_vars
    PROVE  Desk'
<1> SUFFICES ASSUME NEW j \in Jobs, pc'[j] \in {"resolving", "checked"}
             PROVE  /\ name'[j] \in Names /\ phone'[j] \in Phones
                    /\ \/ row'[j] = 0
                       \/ /\ row'[j] \in DOMAIN otps'
                          /\ otps'[row'[j]].status \in {"VERIFIED", "CONSUMED"}
  BY DEF Desk
<1>1. Course(otps, otps')
  BY NextCourse
<1>2. ASSUME NEW o \in DOMAIN otps, otps[o].status \in {"VERIFIED", "CONSUMED"}
      PROVE  o \in DOMAIN otps' /\ otps'[o].status \in {"VERIFIED", "CONSUMED"}
  BY <1>1, <1>2 DEF Course, Moved
<1>3. CASE Unmoved(j)
  BY <1>2, <1>3 DEF Unmoved, Desk
<1>4. CASE Begins(j)
  <2>1. PICK n \in Names, p \in Phones, o \in Nat : Begin(j, n, p, o) /\ Shows(p, o)
    BY <1>4 DEF Begins
  <2>2. name'[j] = n /\ phone'[j] = p /\ row'[j] = o
    BY <2>1 DEF Begin, IInv, Types, Accounts
  <2>. QED
    BY <1>2, <2>1, <2>2 DEF Shows
<1>5. CASE Check(j)
  BY <1>2, <1>5 DEF Check, Goto, Desk
<1>. QED
  BY <1>3, <1>4, <1>5, Registrants

LEMMA AccountsStay ==
    ASSUME IInv, Sending, Accounts, Desk, [Next]_vars
    PROVE  Accounts'
<1>1. DOMAIN otps \subseteq DOMAIN otps'
  BY NextCourse DEF Course
<1>2. CASE UNCHANGED students
  BY <1>1, <1>2, NamesStay DEF Accounts
<1>3. ASSUME NEW x, Adds(x)
      PROVE  Accounts'
  <2>1. /\ students' \in Seq(Account)
        /\ DOMAIN students' = DOMAIN students \cup {Len(students) + 1}
        /\ students'[Len(students) + 1] = x
        /\ \A s \in DOMAIN students : students'[s] = students[s]
    BY <1>3, Appended DEF Adds, Accounts
  <2>2. x.via \in {0, None} \cup DOMAIN otps
    <3>1. CASE x.via = None
      BY <3>1
    <3>2. ASSUME NEW j \in Jobs, CommitRegistration(j), x = Student(name[j], phone[j], row[j])
          PROVE  x.via \in {0, None} \cup DOMAIN otps
      BY <3>2 DEF CommitRegistration, Leave, Goto, Desk, Student
    <3>. QED
      BY <1>3, <3>1, <3>2 DEF Adds
  <2>. QED
    BY <1>1, <2>1, <2>2, NamesStay DEF Accounts
<1>. QED
  BY <1>2, <1>3, StudentsGrow

\* An account takes nothing from a request that has checked, unless it is its own.
LEMMA CheckedStays ==
    ASSUME IInv, Accounts, Desk, Checked, [Next]_vars
    PROVE  Checked'
<1> SUFFICES ASSUME NEW j \in Jobs, pc'[j] = "checked"
             PROVE  /\ NewName(students', phone'[j], name'[j]) /\ Place(students', phone'[j])
                    /\ \A k \in Jobs : pc'[k] = "checked" /\ phone'[k] = phone'[j] => k = j
  BY DEF Checked
<1>1. ~Begins(j)
  BY DEF Begins, Begin, Goto, IInv, Types
<1>2. CASE Check(j)
  <2>1. /\ UNCHANGED <<students, phone, name>>
        /\ \A k \in Jobs : k # j => pc'[k] = pc[k]
        /\ RegistrationFree(phone[j])
    BY <1>2 DEF Check, Goto, IInv, Types
  <2>2. NewName(students, phone[j], name[j])
    BY <1>2 DEF Check, NewName, Own, StudentsOf
  <2>3. Place(students, phone[j])
    <3> SUFFICES ASSUME MaxAccounts # 0
                 PROVE  Cardinality(Own(students, phone[j])) < MaxAccounts
      BY DEF Place
    <3> DEFINE all == StudentsOf(phone[j])
               own == Own(students, phone[j])
    <3>1. Cardinality(all) < MaxAccounts
      BY <1>2 DEF Check, WithinLimit
    <3>2. IsFiniteSet(DOMAIN students)
      <4>1. DOMAIN students = 1 .. Len(students) /\ Len(students) \in Nat
        BY DEF Accounts
      <4>. QED
        BY <4>1, FS_Interval
    <3>3. all \in SUBSET DOMAIN students /\ own \in SUBSET all
      BY DEF StudentsOf, Own
    <3>. HIDE DEF all, own
    <3>4. IsFiniteSet(all)
      BY <3>2, <3>3, FS_Subset
    <3>5. /\ Cardinality(own) <= Cardinality(all)
          /\ Cardinality(own) \in Nat /\ Cardinality(all) \in Nat
      BY <3>3, <3>4, FS_Subset, FS_CardinalityType
    <3>6. Cardinality(own) < MaxAccounts
      BY <3>1, <3>5, RegistrationAssumption
    <3>. QED
      BY <3>6 DEF own
  <2>4. \A k \in Jobs : pc'[k] = "checked" /\ phone'[k] = phone'[j] => k = j
    BY <2>1 DEF RegistrationFree
  <2>. QED
    BY <2>1, <2>2, <2>3, <2>4
<1>3. CASE Unmoved(j)
  <2>1. pc[j] = "checked" /\ name'[j] = name[j] /\ phone'[j] = phone[j]
    BY <1>3 DEF Unmoved
  <2>2. NewName(students, phone[j], name[j]) /\ Place(students, phone[j])
    BY <2>1 DEF Checked
  <2>3. ASSUME NEW k \in Jobs, pc'[k] = "checked", phone'[k] = phone'[j]
        PROVE  k = j
    <3>1. CASE Check(k)
      <4>1. RegistrationFree(phone[k]) /\ phone' = phone
        BY <3>1 DEF Check
      <4>. QED
        BY <2>1, <2>3, <4>1 DEF RegistrationFree
    <3>2. CASE Unmoved(k)
      BY <2>1, <2>3, <3>2 DEF Unmoved, Checked
    <3>3. CASE Begins(k)
      BY <2>3, <3>3 DEF Begins, Begin, Goto, IInv, Types
    <3>. QED
      BY <2>3, <3>1, <3>2, <3>3, Registrants
  <2>4. ASSUME NEW x, Adds(x)
        PROVE  NewName(students', phone[j], name[j]) /\ Place(students', phone[j])
    <3>1. students \in Seq(Account) /\ x \in Account /\ students' = Append(students, x)
      BY <2>4 DEF Adds, Accounts
    <3>2. x.via = None \/ x.phone # phone[j]
      <4>1. ASSUME NEW k \in Jobs, CommitRegistration(k), x = Student(name[k], phone[k], row[k])
            PROVE  x.phone # phone[j]
        <5>1. pc[k] = "checked" /\ pc'[k] = "idle"
          BY <4>1 DEF CommitRegistration, Leave, Goto, IInv, Types
        <5>2. k # j
          BY <5>1
        <5>. QED
          BY <2>1, <4>1, <5>1, <5>2 DEF Checked, Student
      <4>. QED
        BY <2>4, <4>1 DEF Adds
    <3>. QED
      BY <2>2, <3>1, <3>2, CheckedStands
  <2>5. NewName(students', phone[j], name[j]) /\ Place(students', phone[j])
    BY <2>2, <2>4, StudentsGrow
  <2>. QED
    BY <2>1, <2>3, <2>5
<1>. QED
  BY <1>1, <1>2, <1>3, Registrants

LEMMA AccountsCounted ==
    ASSUME IInv, Accounts, Desk, Checked, Once(students), Few(students), [Next]_vars
    PROVE  Once(students') /\ Few(students')
<1>1. ASSUME NEW x, Adds(x)
      PROVE  Once(students') /\ Few(students')
  <2>1. students \in Seq(Account) /\ x \in Account /\ students' = Append(students, x)
    BY <1>1 DEF Adds, Accounts
  <2>2. x.via = None \/ (NewName(students, x.phone, x.name) /\ Place(students, x.phone))
    <3>1. ASSUME NEW j \in Jobs, CommitRegistration(j), x = Student(name[j], phone[j], row[j])
          PROVE  NewName(students, x.phone, x.name) /\ Place(students, x.phone)
      <4>1. x.phone = phone[j] /\ x.name = name[j]
        BY <3>1 DEF Student
      <4>2. pc[j] = "checked"
        BY <3>1 DEF CommitRegistration, Leave, Goto
      <4>. QED
        BY <4>1, <4>2 DEF Checked
    <3>. QED
      BY <1>1, <3>1 DEF Adds
  <2>. QED
    BY <2>1, <2>2, OneMoreAccount
<1>. QED
  BY <1>1, StudentsGrow

\* An OTP is consumed by the step that adds its account.
LEMMA ConsumedBy ==
    ASSUME IInv, [Next]_vars, NEW o \in DOMAIN otps,
           otps[o].status # "CONSUMED", otps'[o].status = "CONSUMED"
    PROVE  \E j \in Jobs : CommitRegistration(j) /\ row[j] = o
<1>1. UNCHANGED otps => FALSE
  OBVIOUS
<1>2. ASSUME NEW k \in Jobs, CreateOtp(k)
      PROVE  FALSE
  <2>1. Len(otps) \in Nat /\ o \in 1 .. Len(otps)
        /\ otps'[o] = IF o \in PendingOf(phone[k])
                      THEN [otps[o] EXCEPT !.status = "EXPIRED"] ELSE otps[o]
    BY <1>2 DEF CreateOtp, IInv, Types
  <2>2. otps[o] \in Row /\ "EXPIRED" \in OtpStatus
    BY RowsAreRows DEF IInv, OtpStatus
  <2>. QED
    BY <2>1, <2>2, StatusUpdate
<1>3. ASSUME NEW k \in Jobs, SendFails(k)
      PROVE  FALSE
  <2>1. otps[o] \in Row /\ "FAILED" \in OtpStatus
    BY RowsAreRows DEF IInv, OtpStatus
  <2>2. otps'[o] = otps[o] \/ otps'[o] = [otps[o] EXCEPT !.status = "FAILED"]
    BY <1>3 DEF SendFails, IInv, Types
  <2>. QED
    BY <2>1, <2>2, StatusUpdate
<1>4. ASSUME NEW k \in Jobs, Verify(k)
      PROVE  FALSE
  <2>1. PICK r \in Row : otps' = [otps EXCEPT ![row[k]] = r] /\ r.status = "VERIFIED"
    BY <1>4, VerifiedRow
  <2>. QED
    BY <2>1 DEF IInv, Types
<1>5. ASSUME NEW k \in Jobs, OtpRequest(k)
      PROVE  FALSE
  BY <1>1, <1>2, <1>3, <1>4, <1>5
     DEF OtpRequest, CheckLimits, Sent, Ask, Reject, ThrowInvalidCode
<1>6. ASSUME NEW k \in Jobs, CommitRegistration(k)
      PROVE  row[k] = o
  BY <1>6 DEF CommitRegistration, Consumed, IInv, Types
<1>7. ASSUME NEW k \in Jobs, Register(k) \/ Abort(k)
      PROVE  CommitRegistration(k)
  <2>1. UNCHANGED otps \/ CommitRegistration(k)
    BY <1>7 DEF Register, ValidateToken, WithoutOtp, Begin, Check, Abort
  <2>. QED
    BY <2>1, <1>1
<1>. QED
  BY <1>1, <1>5, <1>6, <1>7 DEF Next, Tick, ManagerAdds, vars, otpVars

LEMMA ConsumedStays ==
    ASSUME IInv, Sending, Accounts, Desk, ConsumedIsRegistered, [Next]_vars
    PROVE  ConsumedIsRegistered'
<1>1. Course(otps, otps')
  BY NextCourse
<1>2. \A s \in DOMAIN students : s \in DOMAIN students' /\ students'[s] = students[s]
  <2>1. ASSUME NEW x, Adds(x)
        PROVE  \A s \in DOMAIN students : s \in DOMAIN students' /\ students'[s] = students[s]
    BY <2>1, Appended DEF Adds, Accounts
  <2>. QED
    BY <2>1, StudentsGrow
<1>3. ASSUME NEW o \in DOMAIN otps', otps'[o].status = "CONSUMED"
      PROVE  \E s \in DOMAIN students' : students'[s].via = o
  <2>1. o \in DOMAIN otps
    <3>1. CASE SameRows
      BY <3>1 DEF SameRows
    <3>2. ASSUME NEW j \in Jobs, CreateOtp(j)
          PROVE  o \in DOMAIN otps
      <4>1. /\ o \in DOMAIN otps \cup {Len(otps) + 1}
            /\ otps'[Len(otps) + 1] = NewOtp(phone[j], at[j])
        BY <3>2, CreateOtpCourse
      <4>2. o # Len(otps) + 1
        BY <1>3, <4>1 DEF NewOtp
      <4>. QED
        BY <4>1, <4>2
    <3>. QED
      BY <3>1, <3>2, NextCourse
  <2>2. CASE otps[o].status = "CONSUMED"
    BY <1>2, <2>1, <2>2 DEF ConsumedIsRegistered
  <2>3. CASE otps[o].status # "CONSUMED"
    <3>1. PICK j \in Jobs : CommitRegistration(j) /\ row[j] = o
      BY <1>3, <2>1, <2>3, ConsumedBy
    <3>2. students' = Append(students, Student(name[j], phone[j], o))
      BY <3>1 DEF CommitRegistration
    <3>3. /\ Len(students) + 1 \in DOMAIN students'
          /\ students'[Len(students) + 1] = Student(name[j], phone[j], o)
      BY <3>2 DEF Accounts
    <3>. QED
      BY <3>3 DEF Student
  <2>. QED
    BY <2>2, <2>3
<1>4. ASSUME NEW s \in DOMAIN students, students[s].via \in DOMAIN otps'
      PROVE  otps'[students[s].via].status = "CONSUMED"
  <2>1. students[s].via \in DOMAIN otps
    <3>1. students[s].via \in {0, None} \cup DOMAIN otps
      BY DEF Accounts
    <3>2. DOMAIN otps' = 1 .. Len(otps') /\ Len(otps') \in Nat
      BY InvStays DEF IInv, Types
    <3>3. students[s].via \in Nat /\ students[s].via # 0
      BY <1>4, <3>2
    <3>. QED
      BY <3>1, <3>3, OtpAssumption
  <2>2. otps[students[s].via].status = "CONSUMED"
    BY <2>1 DEF ConsumedIsRegistered
  <2>. QED
    BY <1>1, <2>1, <2>2 DEF Course, Moved
<1>5. ASSUME NEW x, Adds(x), x.via \in DOMAIN otps'
      PROVE  otps'[x.via].status = "CONSUMED"
  <2>1. x.via # None
    <3>1. DOMAIN otps' = 1 .. Len(otps') /\ Len(otps') \in Nat
      BY InvStays DEF IInv, Types
    <3>. QED
      BY <1>5, <3>1, OtpAssumption
  <2>2. PICK j \in Jobs : CommitRegistration(j) /\ x = Student(name[j], phone[j], row[j])
    BY <1>5, <2>1 DEF Adds
  <2>3. x.via = row[j] /\ otps' = Consumed(row[j]) /\ pc[j] = "checked"
    BY <2>2 DEF Student, CommitRegistration, Leave, Goto
  <2>4. row[j] # 0
    <3>1. DOMAIN otps' = 1 .. Len(otps') /\ Len(otps') \in Nat
      BY InvStays DEF IInv, Types
    <3>. QED
      BY <1>5, <2>3, <3>1
  <2>5. row[j] \in DOMAIN otps /\ otps[row[j]].status \in {"VERIFIED", "CONSUMED"}
    BY <2>3, <2>4 DEF Desk
  <2>6. otps[row[j]] \in Row /\ "CONSUMED" \in OtpStatus
    BY <2>5, RowsAreRows DEF IInv, OtpStatus
  <2>7. CASE otps[row[j]].status = "VERIFIED"
    <3>1. otps'[row[j]] = [otps[row[j]] EXCEPT !.status = "CONSUMED"]
      BY <2>3, <2>5, <2>7 DEF Consumed, IInv, Types
    <3>. QED
      BY <2>3, <2>6, <3>1, StatusUpdate
  <2>8. CASE otps[row[j]].status = "CONSUMED"
    BY <2>3, <2>8 DEF Consumed
  <2>. QED
    BY <2>5, <2>7, <2>8
<1>6. ASSUME NEW s \in DOMAIN students', students'[s].via \in DOMAIN otps'
      PROVE  otps'[students'[s].via].status = "CONSUMED"
  <2>1. CASE s \in DOMAIN students
    BY <1>2, <1>4, <1>6, <2>1
  <2>2. CASE s \notin DOMAIN students
    <3>1. PICK x : Adds(x)
      BY <2>2, StudentsGrow
    <3>2. students'[s] = x
      BY <2>2, <3>1, Appended DEF Adds, Accounts
    <3>. QED
      BY <1>5, <1>6, <3>1, <3>2
  <2>. QED
    BY <2>1, <2>2
<1>. QED
  BY <1>3, <1>6 DEF ConsumedIsRegistered

LEMMA EnrolmentStays == ASSUME IInv, Sending, Enrolment, [Next]_vars
                        PROVE  Enrolment'
  BY DeskStays, AccountsStay, CheckedStays, AccountsCounted, ConsumedStays DEF Enrolment

LEMMA EnrolmentInvariance == Spec => [](IInv /\ Sending /\ Enrolment)
<1>1. Init => Enrolment
  <2> SUFFICES ASSUME Init
               PROVE  Enrolment
    OBVIOUS
  <2> USE DEF Init, OtpInit
  <2>1. Accounts /\ Desk /\ Checked /\ ConsumedIsRegistered
    BY DEF Accounts, Desk, Checked, ConsumedIsRegistered
  <2>2. \A p : Own(students, p) = {}
    BY DEF Own
  <2>3. Once(students)
    BY <2>2 DEF Once
  <2>4. Cardinality({}) <= MaxAccounts
    BY FS_EmptySet, RegistrationAssumption
  <2>5. Few(students)
    BY <2>2, <2>4 DEF Few
  <2>. QED
    BY <2>1, <2>3, <2>5 DEF Enrolment
<1>. QED
  BY <1>1, EnrolmentStays, SendingInvariance, PTL DEF Spec

\* A student does not register twice (student-registration.service.ts:279-281, the lock
\* at 244-248): for any number of requests, phones and names, and whatever the managers add.
THEOREM OnceTheorem == Spec => []RegisteredOnce
<1>1. IInv /\ Enrolment => RegisteredOnce
  <2> SUFFICES ASSUME Enrolment, NEW p \in Phones, NEW n \in Names
               PROVE  Cardinality({s \in SelfRegistered(p) : students[s].name = n}) <= 1
    BY DEF RegisteredOnce
  <2> DEFINE same == {s \in Own(students, p) : students[s].name = n}
  <2>1. {s \in SelfRegistered(p) : students[s].name = n} = same
    BY DEF SelfRegistered, StudentsOf, Own
  <2>2. \A s, t \in same : s = t
    BY DEF Enrolment, Once
  <2>. HIDE DEF same
  <2>3. same = {} \/ \E s : same = {s}
    BY <2>2
  <2>4. Cardinality(same) = 0 \/ Cardinality(same) = 1
    BY <2>3, FS_EmptySet, FS_Singleton
  <2>. QED
    BY <2>1, <2>4
<1>. QED
  BY <1>1, EnrolmentInvariance, PTL

\* No more students register themselves with a phone than the limit allows (305-319),
\* for any limit and however many requests run at once.
THEOREM AccountsTheorem == Spec => []AccountsLimit
<1>1. Enrolment => AccountsLimit
  <2> SUFFICES ASSUME Enrolment, MaxAccounts # 0, NEW p \in Phones
               PROVE  Cardinality(SelfRegistered(p)) <= MaxAccounts
    BY DEF AccountsLimit
  <2>1. SelfRegistered(p) = Own(students, p)
    BY DEF SelfRegistered, StudentsOf, Own
  <2>. QED
    BY <2>1 DEF Enrolment, Few
<1>. QED
  BY <1>1, EnrolmentInvariance, PTL

\* An OTP is consumed exactly if it registered a student (372-378), however many
\* requests hold its token.
THEOREM ConsumedTheorem == Spec => []ConsumedIsRegistered
  BY EnrolmentInvariance, PTL DEF Enrolment

-----------------------------------------------------------------------------
(***************************************************************************)
(* The promise to phones: every step is one of ProvenPhones, or changes    *)
(* nothing there.                                                          *)
(***************************************************************************)

\* A request that registers has shown that its phone is proved, or did not have to.
Shown == \A j \in Jobs : pc[j] \in {"resolving", "checked"} =>
            IF row[j] = 0 THEN ~otpEnabled ELSE otps[row[j]].phone = phone[j]

LEMMA SwitchStays == ASSUME [Next]_vars PROVE UNCHANGED otpEnabled
<1>1. ASSUME NEW j \in Jobs, Register(j) \/ Abort(j)
      PROVE  UNCHANGED otpEnabled
  BY <1>1 DEF Register, Abort, ValidateToken, WithoutOtp, Begin, Check, CommitRegistration
<1>. QED
  BY <1>1 DEF Next, ManagerAdds, vars

LEMMA ShownStays ==
    ASSUME IInv, Sending, Accounts, Desk, Shown, [Next]_vars
    PROVE  Shown'
<1> SUFFICES ASSUME NEW j \in Jobs, pc'[j] \in {"resolving", "checked"}
             PROVE  IF row'[j] = 0 THEN ~otpEnabled' ELSE otps'[row'[j]].phone = phone'[j]
  BY DEF Shown
<1>1. \A o \in DOMAIN otps : otps'[o].phone = otps[o].phone
  BY NextCourse DEF Course, Moved
<1>2. otpEnabled' = otpEnabled
  BY SwitchStays
<1>3. CASE Unmoved(j)
  <2>1. pc[j] \in {"resolving", "checked"} /\ row'[j] = row[j] /\ phone'[j] = phone[j]
    BY <1>3 DEF Unmoved
  <2>2. row[j] # 0 => row[j] \in DOMAIN otps
    BY <2>1 DEF Desk
  <2>. QED
    BY <1>1, <1>2, <2>1, <2>2 DEF Shown
<1>4. CASE Begins(j)
  <2>1. PICK n \in Names, p \in Phones, o \in Nat : Begin(j, n, p, o) /\ Shows(p, o)
    BY <1>4 DEF Begins
  <2>2. phone'[j] = p /\ row'[j] = o
    BY <2>1 DEF Begin, IInv, Types, Accounts
  <2>3. o \in DOMAIN otps => o # 0
    BY DEF IInv, Types
  <2>. QED
    BY <1>1, <1>2, <2>1, <2>2, <2>3 DEF Shows
<1>5. CASE Check(j)
  <2>1. pc[j] = "resolving" /\ row'[j] = row[j] /\ phone'[j] = phone[j]
    BY <1>5 DEF Check, Goto
  <2>2. row[j] # 0 => row[j] \in DOMAIN otps
    BY <2>1 DEF Desk
  <2>. QED
    BY <1>1, <1>2, <2>1, <2>2 DEF Shown
<1>. QED
  BY <1>3, <1>4, <1>5, Registrants

LEMMA ShownInvariance == Spec => [](IInv /\ Sending /\ Enrolment /\ Shown)
<1>1. Init => Shown
  BY DEF Init, OtpInit, Shown
<1>2. ASSUME IInv, Sending, Enrolment, Shown, [Next]_vars PROVE Shown'
  BY <1>2, ShownStays DEF Enrolment
<1>. QED
  BY <1>1, <1>2, EnrolmentInvariance, PTL DEF Spec

\* A row is the code of its phone, and what it has become.
LEMMA CodesAre ==
    ASSUME Types
    PROVE  /\ DOMAIN Codes = DOMAIN otps
           /\ \A o \in DOMAIN otps : Codes[o] = [phone |-> otps[o].phone,
                                                 state |-> CodeState(otps[o].status)]
  BY DEF Codes

LEMMA States ==
    /\ CodeState("PENDING") = "open" /\ CodeState("VERIFIED") = "proved"
    /\ CodeState("CONSUMED") = "spent" /\ CodeState("EXPIRED") = "void"
    /\ CodeState("FAILED") = "void" /\ CodeState("BLOCKED") = "void"
  BY DEF CodeState

LEMMA OpenIsPending == ASSUME NEW s \in OtpStatus
                       PROVE  CodeState(s) = "open" <=> s = "PENDING"
  BY DEF CodeState, OtpStatus

LEMMA SameCodes == ASSUME UNCHANGED otps PROVE Codes' = Codes
  BY DEF Codes

\* One row changes its status.
LEMMA OneCode ==
    ASSUME IInv, NEW o \in DOMAIN otps, NEW r \in Row, otps' = [otps EXCEPT ![o] = r],
           r.phone = otps[o].phone, NEW st, CodeState(r.status) = st
    PROVE  Codes' = [Codes EXCEPT ![o].state = st]
<1>1. /\ DOMAIN otps' = DOMAIN otps
      /\ \A q \in DOMAIN otps : otps'[q] = IF q = o THEN r ELSE otps[q]
  BY DEF IInv, Types
<1> DEFINE New == [Codes EXCEPT ![o].state = st]
<1>2. /\ DOMAIN Codes' = DOMAIN otps
      /\ \A q \in DOMAIN otps : Codes'[q] = [phone |-> otps'[q].phone,
                                             state |-> CodeState(otps'[q].status)]
  BY <1>1 DEF Codes
<1>3. Codes[o] = [phone |-> otps[o].phone, state |-> CodeState(otps[o].status)]
  BY DEF Codes
<1>4. /\ DOMAIN New = DOMAIN otps
      /\ \A q \in DOMAIN otps : New[q] = IF q = o THEN [Codes[o] EXCEPT !.state = st] ELSE Codes[q]
  BY DEF Codes
<1>5. [Codes[o] EXCEPT !.state = st] = [phone |-> r.phone, state |-> CodeState(r.status)]
  BY <1>3
<1>6. \A q \in DOMAIN otps : Codes'[q] = New[q]
  <2>1. ASSUME NEW q \in DOMAIN otps, q # o PROVE Codes'[q] = Codes[q]
    BY <1>1, <1>2, <2>1 DEF Codes
  <2>. QED
    BY <1>1, <1>2, <1>4, <1>5, <2>1
<1>7. Codes' = [q \in DOMAIN otps |-> Codes'[q]] /\ New = [q \in DOMAIN otps |-> New[q]]
  BY <1>1 DEF Codes
<1>. QED
  BY <1>6, <1>7

LEMMA AppendIs ==
    ASSUME NEW n \in Nat, NEW s, s = [c \in 1 .. n |-> s[c]], NEW x
    PROVE  Append(s, x) = [c \in 1 .. n + 1 |-> IF c = n + 1 THEN x ELSE s[c]]
<1> DEFINE S == {s[c] : c \in 1 .. n} \cup {x}
<1>1. s \in [1 .. n -> S]
  OBVIOUS
<1>2. s \in Seq(S)
  BY <1>1
<1>3. Len(s) = n
  BY <1>1, <1>2
<1>. QED
  BY <1>2, <1>3

LEMMA SameFields ==
    ASSUME NEW a, NEW b, NEW x, NEW y
    PROVE  ([phone |-> a, state |-> x] = [phone |-> b, state |-> y]) <=> (a = b /\ x = y)
<1>1. [phone |-> a, state |-> x].phone = a /\ [phone |-> a, state |-> x].state = x
  OBVIOUS
<1>2. [phone |-> b, state |-> y].phone = b /\ [phone |-> b, state |-> y].state = y
  OBVIOUS
<1>. QED
  BY <1>1, <1>2

\* A new code of a phone: the one that was open is so no longer.
LEMMA IssueStep ==
    ASSUME IInv, NEW j \in Jobs, CreateOtp(j), UNCHANGED <<students, otpEnabled>>
    PROVE  phone[j] \in Phones /\ Promise!Issue(phone[j])
<1> DEFINE p == phone[j]
           void == [phone |-> p, state |-> "void"]
           Next1(c) == IF Codes[c] = Promise!Open(p) THEN void ELSE Codes[c]
           kept == [c \in DOMAIN Codes |-> Next1(c)]
<1>1. p \in Phones
  BY DEF IInv, Holding, CreateOtp, Goto
<1>2. /\ Len(otps) \in Nat /\ DOMAIN otps = 1 .. Len(otps)
      /\ DOMAIN otps' = 1 .. Len(otps) + 1
      /\ otps'[Len(otps) + 1] = NewOtp(p, at[j])
      /\ \A o \in DOMAIN otps : otps'[o] = IF o \in PendingOf(p)
                                           THEN [otps[o] EXCEPT !.status = "EXPIRED"] ELSE otps[o]
  BY DEF CreateOtp, IInv, Types
<1>3. ASSUME NEW o \in DOMAIN otps
      PROVE  Codes'[o] = Next1(o)
  <2>1. otps[o] \in Row /\ otps[o].status \in OtpStatus /\ "EXPIRED" \in OtpStatus
    BY RowsAreRows DEF IInv, OtpStatus, Row
  <2>2. /\ Codes'[o] = [phone |-> otps'[o].phone, state |-> CodeState(otps'[o].status)]
        /\ Codes[o] = [phone |-> otps[o].phone, state |-> CodeState(otps[o].status)]
    BY <1>2 DEF Codes
  <2>3. Codes[o] = Promise!Open(p) <=> (otps[o].phone = p /\ CodeState(otps[o].status) = "open")
    BY <2>2, SameFields DEF Promise!Open
  <2>4. Codes[o] = Promise!Open(p) <=> o \in PendingOf(p)
    BY <2>1, <2>3, OpenIsPending DEF PendingOf
  <2>5. CASE o \in PendingOf(p)
    <3>1. otps'[o] = [otps[o] EXCEPT !.status = "EXPIRED"] /\ otps[o].phone = p
      BY <1>2, <2>5 DEF PendingOf
    <3>2. otps'[o].status = "EXPIRED" /\ otps'[o].phone = otps[o].phone
      BY <2>1, <3>1, StatusUpdate
    <3>3. Codes'[o] = void
      BY <2>2, <3>1, <3>2, States
    <3>. QED
      BY <2>4, <2>5, <3>3
  <2>6. CASE o \notin PendingOf(p)
    BY <1>2, <2>2, <2>4, <2>6
  <2>. QED
    BY <2>5, <2>6
<1>4. Codes'[Len(otps) + 1] = Promise!Open(p)
  <2>1. /\ Codes'[Len(otps) + 1] = [phone |-> otps'[Len(otps) + 1].phone,
                                    state |-> CodeState(otps'[Len(otps) + 1].status)]
    BY <1>2 DEF Codes
  <2>2. NewOtp(p, at[j]).phone = p /\ NewOtp(p, at[j]).status = "PENDING"
    BY DEF NewOtp
  <2>. QED
    BY <1>2, <2>1, <2>2, States DEF Promise!Open
<1>5. Codes' = Append(kept, Promise!Open(p))
  <2>1. DOMAIN kept = 1 .. Len(otps) /\ \A c \in 1 .. Len(otps) : kept[c] = Next1(c)
    BY <1>2 DEF Codes
  <2>2. /\ DOMAIN Codes' = 1 .. Len(otps) + 1 /\ Codes' = [c \in 1 .. Len(otps) + 1 |-> Codes'[c]]
    BY <1>2 DEF Codes
  <2> HIDE DEF Next1, kept
  <2>4. kept = [c \in 1 .. Len(otps) |-> kept[c]]
    BY <2>1 DEF kept
  <2>5. Append(kept, Promise!Open(p))
            = [c \in 1 .. Len(otps) + 1 |-> IF c = Len(otps) + 1 THEN Promise!Open(p) ELSE kept[c]]
    BY <1>2, <2>4, AppendIs
  <2>6. \A c \in 1 .. Len(otps) + 1 :
            Codes'[c] = IF c = Len(otps) + 1 THEN Promise!Open(p) ELSE kept[c]
    BY <1>2, <1>3, <1>4, <2>1
  <2>. QED
    BY <2>2, <2>5, <2>6
<1>6. Promise!Issue(p)
  BY <1>5 DEF Promise!Issue
<1>. QED
  BY <1>1, <1>6

\* The code proved is open, and the latest of its phone.
LEMMA ProveStep ==
    ASSUME IInv, NEW j \in Jobs, Verify(j), UNCHANGED <<students, otpEnabled>>
    PROVE  row[j] \in DOMAIN Codes /\ Promise!Prove(row[j])
<1>1. row[j] \in DOMAIN otps /\ otps[row[j]].status = "PENDING"
  BY VerifiedRow
<1>2. PICK r \in Row : /\ otps' = [otps EXCEPT ![row[j]] = r]
                       /\ r.phone = otps[row[j]].phone /\ r.status = "VERIFIED"
  BY VerifiedRow
<1>3. Codes' = [Codes EXCEPT ![row[j]].state = "proved"]
  <2>1. CodeState(r.status) = "proved"
    BY <1>2, States
  <2>. QED
    BY <1>1, <1>2, <2>1, OneCode
<1>4. /\ DOMAIN Codes = DOMAIN otps /\ Codes[row[j]].state = "open"
      /\ \A o \in DOMAIN otps : Codes[o].phone = otps[o].phone
  BY <1>1, CodesAre, States DEF IInv
<1>5. ASSUME NEW d \in DOMAIN otps, otps[d].phone = otps[row[j]].phone
      PROVE  d <= row[j]
  <2>1. d \in Nat /\ row[j] \in Nat
    BY <1>1, RowsHavePhones DEF IInv
  <2>2. ~(d > row[j])
    BY <1>1, <1>5 DEF IInv, PendingIsNewest
  <2>. QED
    BY <2>1, <2>2
<1>. QED
  BY <1>1, <1>3, <1>4, <1>5 DEF Promise!Prove, Promise!Becomes

\* A code that could not be sent is void, if another request has not made it so before.
LEMMA VoidStep ==
    ASSUME IInv, Sending, NEW j \in Jobs, SendFails(j), UNCHANGED <<students, otpEnabled>>
    PROVE  \/ UNCHANGED Promise!vars
           \/ row[j] \in DOMAIN Codes /\ Promise!Void(row[j])
<1> DEFINE r == [otps[row[j]] EXCEPT !.status = "FAILED"]
<1>1. row[j] \in DOMAIN otps /\ otps[row[j]] \in Row /\ "FAILED" \in OtpStatus
  BY RowsAreRows DEF IInv, Holding, OtpStatus, SendFails, Leave, Goto
<1>2. otps[row[j]].status \in {"PENDING", "EXPIRED", "FAILED"}
  BY DEF Sending, SendFails, Leave, Goto
<1>3. r \in Row /\ r.status = "FAILED" /\ r.phone = otps[row[j]].phone
  BY <1>1, StatusUpdate
<1>4. otps' = [otps EXCEPT ![row[j]] = r]
  BY <1>1 DEF SendFails
<1> HIDE DEF r
<1>5. Codes' = [Codes EXCEPT ![row[j]].state = "void"]
  <2>1. CodeState(r.status) = "void"
    BY <1>3, States
  <2>. QED
    BY <1>1, <1>3, <1>4, <2>1, OneCode
<1>6. /\ DOMAIN Codes = DOMAIN otps
      /\ Codes[row[j]] = [phone |-> otps[row[j]].phone, state |-> CodeState(otps[row[j]].status)]
  BY <1>1, CodesAre DEF IInv
<1>7. CASE otps[row[j]].status = "PENDING"
  BY <1>1, <1>5, <1>6, <1>7, States DEF Promise!Void, Promise!Becomes
<1>8. CASE otps[row[j]].status # "PENDING"
  <2>1. CodeState(otps[row[j]].status) = "void"
    BY <1>2, <1>8, States
  <2>2. [Codes[row[j]] EXCEPT !.state = "void"] = Codes[row[j]]
    BY <1>6, <2>1
  <2>3. Codes' = Codes
    BY <1>5, <2>2 DEF Codes
  <2>. QED
    BY <2>3 DEF Promise!vars
<1>. QED
  BY <1>7, <1>8

LEMMA ToSpent ==
    ASSUME IInv, NEW o \in DOMAIN otps, NEW r \in Row, otps' = [otps EXCEPT ![o] = r],
           r.phone = otps[o].phone, CodeState(r.status) = "spent"
    PROVE  Codes' = [Codes EXCEPT ![o].state = "spent"]
  BY OneCode, ZenonT(40)

\* The code of a registration is spent, or has been by another that held its token too.
LEMMA SpentCode ==
    ASSUME IInv, NEW o \in DOMAIN otps, otps[o].status \in {"VERIFIED", "CONSUMED"},
           otps' = Consumed(o)
    PROVE  /\ o \in DOMAIN Codes /\ Codes[o].phone = otps[o].phone
           /\ Codes[o].state \in {"proved", "spent"}
           /\ Promise!Becomes(o, "spent")
<1>1. /\ DOMAIN Codes = DOMAIN otps
      /\ Codes[o] = [phone |-> otps[o].phone, state |-> CodeState(otps[o].status)]
  BY CodesAre DEF IInv
<1>2. CASE otps[o].status = "VERIFIED"
  <2>1. otps[o] \in Row /\ "CONSUMED" \in OtpStatus
    BY RowsAreRows DEF IInv, OtpStatus
  <2>2. otps' = [otps EXCEPT ![o] = [otps[o] EXCEPT !.status = "CONSUMED"]]
    BY <1>2 DEF Consumed
  <2>3. PICK r \in Row : /\ otps' = [otps EXCEPT ![o] = r]
                         /\ r.phone = otps[o].phone /\ r.status = "CONSUMED"
    BY <2>1, <2>2, StatusUpdate
  <2>4. CodeState(r.status) = "spent"
    BY <2>3, States
  <2>5. Codes' = [Codes EXCEPT ![o].state = "spent"]
    BY <2>3, <2>4, ToSpent
  <2>6. Promise!Becomes(o, "spent")
    BY <2>5 DEF Promise!Becomes
  <2>7. Codes[o].phone = otps[o].phone /\ Codes[o].state = "proved"
    BY <1>1, <1>2, States
  <2>. QED
    BY <1>1, <2>6, <2>7
<1>3. CASE otps[o].status = "CONSUMED"
  <2>1. otps' = otps
    BY <1>3 DEF Consumed
  <2>2. [Codes[o] EXCEPT !.state = "spent"] = Codes[o]
    BY <1>1, <1>3, States
  <2>3. Codes' = [Codes EXCEPT ![o].state = "spent"]
    BY <2>1, <2>2, SameCodes DEF Codes
  <2>4. Promise!Becomes(o, "spent")
    BY <2>3 DEF Promise!Becomes
  <2>5. Codes[o].phone = otps[o].phone /\ Codes[o].state = "spent"
    BY <1>1, <1>3, States
  <2>. QED
    BY <1>1, <2>4, <2>5
<1>. QED
  BY <1>2, <1>3

LEMMA OpenedByIs == ASSUME NEW p PROVE Promise!OpenedBy(p) = Own(students, p)
  BY DEF Promise!OpenedBy, Own

\* The name is still free and the phone has still room, so the check is one with the commit.
LEMMA RegisterStep ==
    ASSUME IInv, Enrolment, Shown, NEW j \in Jobs, CommitRegistration(j)
    PROVE  \/ \E n \in Names, c \in DOMAIN Codes : Promise!Spend(n, c)
           \/ \E n \in Names, p \in Phones : Promise!Direct(n, p)
<1> DEFINE n == name[j]
           p == phone[j]
           c == row[j]
<1>1. /\ pc[j] = "checked" /\ UNCHANGED otpEnabled
      /\ students' = Append(students, Student(n, p, c))
      /\ otps' = Consumed(c)
  BY DEF CommitRegistration, Leave, Goto
<1>2. /\ n \in Names /\ p \in Phones
      /\ c = 0 \/ (c \in DOMAIN otps /\ otps[c].status \in {"VERIFIED", "CONSUMED"})
  BY <1>1 DEF Enrolment, Desk
<1>3. NewName(students, p, n) /\ Place(students, p)
  BY <1>1 DEF Enrolment, Checked
<1>4. Promise!Register(n, p, c)
  <2>1. Promise!OpenedBy(p) = Own(students, p)
    BY OpenedByIs
  <2>2. \A a \in Promise!OpenedBy(p) : students[a].name # n
    BY <1>3, <2>1 DEF NewName
  <2>3. MaxAccounts # 0 => Cardinality(Promise!OpenedBy(p)) < MaxAccounts
    BY <1>3, <2>1 DEF Place
  <2>4. Promise!Cardinality(Promise!OpenedBy(p)) = Cardinality(Promise!OpenedBy(p))
    BY DEF Promise!Cardinality, Cardinality
  <2>5. Promise!Add(n, p, c)
    BY <1>1 DEF Promise!Add, Student
  <2> HIDE DEF n, p, c
  <2>. QED
    BY <2>2, <2>3, <2>4, <2>5 DEF Promise!Register
<1>5. CASE c = 0
  <2>1. ~otpEnabled
    BY <1>1, <1>5 DEF Shown
  <2>2. 0 \notin DOMAIN otps
    BY DEF IInv, Types
  <2>3. Codes' = Codes
    BY <1>1, <1>5, <2>2, SameCodes DEF Consumed
  <2>4. Promise!Direct(n, p)
    BY <1>4, <1>5, <2>1, <2>3 DEF Promise!Direct
  <2>. QED
    BY <1>2, <2>4
<1>6. CASE c # 0
  <2>1. c \in DOMAIN otps /\ otps[c].status \in {"VERIFIED", "CONSUMED"} /\ otps[c].phone = p
    BY <1>1, <1>2, <1>6 DEF Shown
  <2>2. /\ c \in DOMAIN Codes /\ Codes[c].phone = p
        /\ Codes[c].state \in {"proved", "spent"} /\ Promise!Becomes(c, "spent")
    BY <1>1, <2>1, SpentCode
  <2>3. Promise!Spend(n, c)
    BY <1>4, <2>2 DEF Promise!Spend
  <2>. QED
    BY <1>2, <2>2, <2>3
<1>. QED
  BY <1>5, <1>6

LEMMA EnrolStep ==
    ASSUME NEW n \in Names, NEW p \in Phones, ManagerAdds(n, p)
    PROVE  Promise!Enrol(n, p)
  BY SameCodes DEF ManagerAdds, Promise!Enrol, Promise!Add, Student, otpVars

LEMMA PromiseInit == Init => Promise!Init
<1> SUFFICES ASSUME Init PROVE Promise!Init
  OBVIOUS
<1>1. otps = << >> /\ students = << >> /\ otpEnabled \in BOOLEAN
  BY DEF Init, OtpInit
<1>2. Codes = << >>
  BY <1>1 DEF Codes
<1>. QED
  BY <1>1, <1>2 DEF Promise!Init

LEMMA PromiseStep ==
    ASSUME IInv, Sending, Enrolment, Shown, [Next]_vars
    PROVE  [Promise!Next]_(Promise!vars)
<1>1. CASE UNCHANGED <<otps, students, otpEnabled>>
  BY <1>1, SameCodes DEF Promise!vars
<1>2. ASSUME NEW j \in Jobs, OtpRequest(j), UNCHANGED <<students, name, otpEnabled>>
      PROVE  [Promise!Next]_(Promise!vars)
  <2>1. CASE CreateOtp(j)
    <3>1. phone[j] \in Phones /\ Promise!Issue(phone[j])
      BY <1>2, <2>1, IssueStep
    <3>. QED
      BY <3>1 DEF Promise!Next
  <2>2. CASE SendFails(j)
    <3>1. \/ UNCHANGED Promise!vars
          \/ row[j] \in DOMAIN Codes /\ Promise!Void(row[j])
      BY <1>2, <2>2, VoidStep
    <3>. QED
      BY <3>1 DEF Promise!Next
  <2>3. CASE Verify(j)
    <3>1. row[j] \in DOMAIN Codes /\ Promise!Prove(row[j])
      BY <1>2, <2>3, ProveStep
    <3>. QED
      BY <3>1 DEF Promise!Next
  <2>4. UNCHANGED otps \/ CreateOtp(j) \/ SendFails(j) \/ Verify(j)
    BY <1>2 DEF OtpRequest, CheckLimits, Sent, Ask, Reject, ThrowInvalidCode
  <2>. QED
    BY <1>1, <1>2, <2>1, <2>2, <2>3, <2>4
<1>3. ASSUME NEW j \in Jobs, Register(j) \/ Abort(j)
      PROVE  [Promise!Next]_(Promise!vars)
  <2>1. CASE CommitRegistration(j)
    <3>1. \/ \E n \in Names, c \in DOMAIN Codes : Promise!Spend(n, c)
          \/ \E n \in Names, p \in Phones : Promise!Direct(n, p)
      BY <2>1, RegisterStep
    <3>. QED
      BY <3>1 DEF Promise!Next
  <2>2. UNCHANGED <<otps, students>> \/ CommitRegistration(j)
    BY <1>3 DEF Register, ValidateToken, WithoutOtp, Begin, Check, Abort
  <2>. QED
    BY <1>1, <2>1, <2>2, SwitchStays
<1>4. ASSUME NEW n \in Names, NEW p \in Phones, ManagerAdds(n, p)
      PROVE  [Promise!Next]_(Promise!vars)
  BY <1>4, EnrolStep DEF Promise!Next
<1>5. CASE Tick /\ UNCHANGED <<students, name, otpEnabled>>
  BY <1>1, <1>5 DEF Tick
<1>6. CASE UNCHANGED vars
  BY <1>1, <1>6 DEF vars, otpVars
<1>. QED
  BY <1>2, <1>3, <1>4, <1>5, <1>6 DEF Next

\* Nobody opens an account for a phone he has not proved while that is asked for, and each
\* registration takes effect at one instant, although its token is read, its name and its place
\* are looked for and its account is opened one after the other, beside other requests
\* (student-registration.service.ts:153-187, 243-395 and 535-573, with otp.service.ts).
THEOREM Refinement == Spec => PhonesAreProven
<1>1. ASSUME IInv, Sending, Enrolment, Shown, [Next]_vars
      PROVE  [Promise!Next]_(Promise!vars)
  BY <1>1, PromiseStep
<1>. QED
  BY PromiseInit, ShownInvariance, <1>1, PTL DEF Spec, PhonesAreProven, Promise!Spec
=============================================================================
