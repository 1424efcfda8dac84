---------------------------- MODULE ProvenPhones ----------------------------
(***************************************************************************)
(* What one-time passwords and registration promise together, with no      *)
(* requests, locks, providers or clocks in sight: who registers has proved *)
(* that the phone is his, if the server asks for it.  Of a phone only the  *)
(* latest code can be proved; a proved code is spent in the step that      *)
(* opens the account; and that step is also the one that looks for the     *)
(* name and counts the accounts of the phone.                              *)
(***************************************************************************)
EXTENDS Naturals, Sequences, FiniteSets

CONSTANTS Phones, Names,
          Limit,  \* the accounts a phone may open, 0 for no limit
          Other   \* stands for the code of an account others have opened

VARIABLES codes,    \* the codes issued, in order: [phone, state]
          accounts, \* [name, phone, via]: via is a code, 0 if none was asked for
          required  \* does a phone have to be proved?

vars == <<codes, accounts, required>>

Init == codes = << >> /\ accounts = << >> /\ required \in BOOLEAN

Open(p) == [phone |-> p, state |-> "open"]

\* What was open of the phone is so no longer.
Issue(p) == /\ codes' = Append([c \in DOMAIN codes |-> IF codes[c] = Open(p)
                                                       THEN [phone |-> p, state |-> "void"]
                                                       ELSE codes[c]], Open(p))
            /\ UNCHANGED <<accounts, required>>

Becomes(c, state) == codes' = [codes EXCEPT ![c].state = state]

Prove(c) == /\ codes[c].state = "open"
            /\ \A d \in DOMAIN codes : codes[d].phone = codes[c].phone => d <= c
            /\ Becomes(c, "proved")
            /\ UNCHANGED <<accounts, required>>

Void(c) == /\ codes[c].state = "open"
           /\ Becomes(c, "void")
           /\ UNCHANGED <<accounts, required>>

-----------------------------------------------------------------------------
Add(n, p, v) == /\ accounts' = Append(accounts, [name |-> n, phone |-> p, via |-> v])
                /\ UNCHANGED required

OpenedBy(p) == {a \in DOMAIN accounts : accounts[a].phone = p /\ accounts[a].via # Other}

Register(n, p, v) == /\ Add(n, p, v)
                     /\ \A a \in OpenedBy(p) : accounts[a].name # n
                     /\ Limit # 0 => Cardinality(OpenedBy(p)) < Limit

\* Requests that hold the token of one code at the same time may each open an account.
Spend(n, c) == /\ Register(n, codes[c].phone, c)
               /\ codes[c].state \in {"proved", "spent"}
               /\ Becomes(c, "spent")

Direct(n, p) == ~required /\ Register(n, p, 0) /\ UNCHANGED codes

\* The managers are bound by none of this.
Enrol(n, p) == Add(n, p, Other) /\ UNCHANGED codes

Next == \/ \E p \in Phones : Issue(p)
        \/ \E c \in DOMAIN codes : Prove(c) \/ Void(c)
        \/ \E n \in Names, c \in DOMAIN codes : Spend(n, c)
        \/ \E n \in Names, p \in Phones : Direct(n, p) \/ Enrol(n, p)

Spec == Init /\ [][Next]_vars
=============================================================================
