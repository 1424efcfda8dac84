---------------------------- MODULE SessionsProofs ----------------------------
(***************************************************************************)
(* Two promises of the sessions of a user, proved for any number of        *)
(* sessions and requests: an app that sends one refresh at a time is not   *)
(* thrown out, and a new password on the platform leaves no session of the *)
(* old one.                                                                *)
(*                                                                         *)
(* And one of the academic years of a school, proved for any number of     *)
(* years and terms: a year is rolled over once.                            *)
(***************************************************************************)
EXTENDS Sessions, AcademicYears, TLAPS

Session == [status : {"NONE", "LIVE", "REVOKED"}, token : Nat, opened : Nat]
Service == [pc : {"idle", "login", "rotate", "answer", "logout", "logoutAll"},
            session : AuthSessions \cup {NoSession}, token : Nat]

Types == /\ platform \in BOOLEAN
         /\ user \in [password : 1 .. MaxPasswords, active : BOOLEAN]
         /\ sessions \in [AuthSessions -> Session]
         /\ tokens \in 0 .. MaxTokens
         /\ held \in [AuthSessions -> 0 .. tokens]
         /\ serving \in [AuthJobs -> Service]
         /\ calm \cup slipped \subseteq AuthSessions

Refreshes(j, s) == serving[j].session = s /\ serving[j].pc \in {"rotate", "answer"}

\* No token and no password is of the future; a refresh has a session.
Bounds == /\ \A s \in AuthSessions : sessions[s].token <= tokens /\ sessions[s].opened <= user.password
          /\ \A j \in AuthJobs :
                /\ serving[j].pc = "login" => serving[j].token <= user.password
                /\ serving[j].token <= MaxTokens + MaxPasswords
                /\ serving[j].pc \in {"rotate", "answer"} => serving[j].session \in AuthSessions

\* A calm session has one refresh at a time, one whose answer the app waits for; until it
\* has rotated the token, the app has the token of the session.
Calm(s) == /\ \A j, k \in AuthJobs : Refreshes(j, s) /\ Refreshes(k, s) => j = k
           /\ \A j \in AuthJobs : Refreshes(j, s) => serving[j].token # 0
           /\ (\A j \in AuthJobs : Refreshes(j, s) => serving[j].pc = "rotate") =>
                  held[s] = sessions[s].token

CalmSessions == \A s \in calm : Calm(s)

\* Whoever has changed the password on the platform has yet to revoke.
RevokeToCome == \E j \in AuthJobs : serving[j].pc = "logoutAll"

OldSessions == platform => \A s \in AuthSessions :
    sessions[s].status = "LIVE" =>
        sessions[s].opened = user.password \/ s \in slipped \/ RevokeToCome

IInv == Types /\ Bounds /\ CalmSessions /\ OldSessions

LEMMA InitInv == SessionsInit => IInv
<1> SUFFICES ASSUME SessionsInit PROVE IInv
  OBVIOUS
<1>1. Types
  BY SessionsAssumption DEF SessionsInit, Types, Session, Service, Free
<1>2. Bounds
  BY SessionsAssumption DEF SessionsInit, Bounds, Free
<1>3. CalmSessions /\ OldSessions
  BY DEF SessionsInit, CalmSessions, Calm, Refreshes, OldSessions, Free
<1>. QED
  BY <1>1, <1>2, <1>3 DEF IInv

-----------------------------------------------------------------------------
(* What the steps have in common *)

\* A request turns to something else than a refresh, and it was not the answer the app of
\* a calm session waits for.
LEMMA CalmStays ==
    ASSUME IInv, NEW j \in AuthJobs, NEW r \in Service,
           serving' = [serving EXCEPT ![j] = r], r.pc \notin {"rotate", "answer"},
           calm' \subseteq calm,
           \A s \in calm' : ~(serving[j].pc = "answer" /\ serving[j].session = s),
           \A s \in calm' : held[s] = sessions[s].token => held'[s] = sessions'[s].token
    PROVE  CalmSessions'
<1>1. \A k \in AuthJobs : serving'[k] = IF k = j THEN r ELSE serving[k]
  BY DEF IInv, Types
<1>2. \A k \in AuthJobs, s \in AuthSessions : Refreshes(k, s)' <=> k # j /\ Refreshes(k, s)
  BY <1>1 DEF Refreshes
<1> SUFFICES ASSUME NEW s \in calm' PROVE Calm(s)'
  BY DEF CalmSessions
<1>3. s \in AuthSessions /\ Calm(s)
  BY DEF IInv, Types, CalmSessions
<1>4. \A k \in AuthJobs : Refreshes(k, s)' => Refreshes(k, s) /\ serving'[k] = serving[k]
  BY <1>1, <1>2, <1>3
<1>5. Refreshes(j, s) => serving[j].pc = "rotate"
  BY DEF Refreshes
<1>6. (\A k \in AuthJobs : Refreshes(k, s)' => serving'[k].pc = "rotate") =>
          held'[s] = sessions'[s].token
  BY <1>1, <1>2, <1>3, <1>5 DEF Calm
<1>. QED
  BY <1>3, <1>4, <1>6 DEF Calm

\* A session opened with an earlier password stays accounted for.
LEMMA OldStay ==
    ASSUME IInv, UNCHANGED platform, user'.password = user.password, slipped \subseteq slipped',
           \A s \in AuthSessions : sessions'[s].status = "LIVE" =>
               sessions[s].status = "LIVE" /\ sessions'[s].opened = sessions[s].opened,
           platform /\ RevokeToCome => RevokeToCome'
    PROVE  OldSessions'
  BY DEF IInv, OldSessions

\* Another request is served meanwhile.
LEMMA RevokeStaysToCome ==
    ASSUME Types, NEW j \in AuthJobs, NEW r, serving' = [serving EXCEPT ![j] = r],
           serving[j].pc # "logoutAll"
    PROVE  RevokeToCome => RevokeToCome'
  BY DEF Types, RevokeToCome

LEMMA FreeService == Free \in Service /\ Free.pc = "idle" /\ Free.token = 0
  BY DEF Free, Service

-----------------------------------------------------------------------------
(* The actions *)

LEMMA CheckPasswordInv == ASSUME IInv, NEW j \in AuthJobs, CheckPassword(j)
                          PROVE  IInv'
<1> DEFINE r == [Free EXCEPT !.pc = "login", !.token = user.password]
<1>1. /\ serving[j] = Free /\ serving' = [serving EXCEPT ![j] = r]
      /\ UNCHANGED <<platform, user, sessions, tokens, held, calm, slipped>>
  BY DEF CheckPassword, Serve
<1>2. /\ r \in Service /\ r.pc = "login" /\ r.token = user.password
      /\ user.password \in 1 .. MaxPasswords
  <2>1. user.password \in 1 .. MaxPasswords /\ user.password \in Nat
    BY SessionsAssumption DEF IInv, Types
  <2>. QED
    BY <2>1 DEF Service, Free
<1> HIDE DEF r
<1>3. Types'
  BY <1>1, <1>2 DEF IInv, Types
<1>4. Bounds'
  BY <1>1, <1>2, SessionsAssumption DEF IInv, Types, Bounds
<1>5. CalmSessions'
  BY <1>1, <1>2, CalmStays, FreeService
<1>6. OldSessions'
  BY <1>1, OldStay, RevokeStaysToCome, FreeService DEF IInv
<1>. QED
  BY <1>3, <1>4, <1>5, <1>6 DEF IInv

LEMMA CreateSessionInv == ASSUME IInv, NEW j \in AuthJobs, CreateSession(j)
                          PROVE  IInv'
<1> DEFINE opened == serving[j].token
<1>1. PICK s \in AuthSessions :
        /\ sessions[s].status = "NONE"
        /\ NewToken
        /\ sessions' = [sessions EXCEPT ![s] = [status |-> "LIVE", token |-> tokens', opened |-> opened]]
        /\ held' = [held EXCEPT ![s] = tokens']
        /\ slipped' = IF opened # user.password THEN slipped \cup {s} ELSE slipped
        /\ UNCHANGED <<user, calm>>
  BY DEF CreateSession
<1>2. /\ serving[j].pc = "login" /\ serving' = [serving EXCEPT ![j] = Free]
      /\ UNCHANGED platform
  BY DEF CreateSession, Served
<1>3. /\ tokens' = tokens + 1 /\ tokens' \in 0 .. MaxTokens /\ tokens \in Nat
      /\ opened \in Nat /\ opened <= user.password
  BY <1>1, <1>2, SessionsAssumption DEF NewToken, IInv, Types, Bounds, Service
<1> HIDE DEF opened
<1>4. \A t \in AuthSessions :
        /\ sessions'[t] = IF t = s THEN [status |-> "LIVE", token |-> tokens', opened |-> opened]
                          ELSE sessions[t]
        /\ held'[t] = IF t = s THEN tokens' ELSE held[t]
  BY <1>1 DEF IInv, Types
<1>5. Types'
  <2>1. sessions' \in [AuthSessions -> Session]
    BY <1>1, <1>3 DEF IInv, Types, Session
  <2>2. held' \in [AuthSessions -> 0 .. tokens']
    BY <1>1, <1>3 DEF IInv, Types
  <2>. QED
    BY <2>1, <2>2, <1>1, <1>2, <1>3, FreeService DEF IInv, Types
<1>6. Bounds'
  <2>1. \A t \in AuthSessions : sessions[t] \in Session
    BY DEF IInv, Types
  <2>2. \A t \in AuthSessions : sessions'[t].token <= tokens' /\ sessions'[t].opened <= user'.password
    BY <2>1, <1>1, <1>3, <1>4 DEF IInv, Bounds, Session
  <2>. QED
    BY <2>2, <1>1, <1>2, SessionsAssumption, FreeService DEF IInv, Types, Bounds
<1>7. CalmSessions'
  BY <1>1, <1>2, <1>4, CalmStays, FreeService DEF IInv, Types
<1>8. OldSessions'
  <2>1. RevokeToCome => RevokeToCome'
    BY <1>2, RevokeStaysToCome DEF IInv
  <2>. QED
    BY <2>1, <1>1, <1>2, <1>4 DEF IInv, OldSessions
<1>. QED
  BY <1>5, <1>6, <1>7, <1>8 DEF IInv

LEMMA ReadSessionInv == ASSUME IInv, NEW j \in AuthJobs, ReadSession(j)
                        PROVE  IInv'
<1>1. PICK s \in AuthSessions, t \in 1 .. tokens :
        /\ t <= held[s]
        /\ TokenMatches(s, t)
        /\ Serve(j, [pc |-> "rotate", session |-> s, token |-> IF t = held[s] THEN t ELSE 0])
        /\ calm' = IF Refreshing(s) # {} THEN calm \ {s} ELSE calm
        /\ UNCHANGED <<user, sessions, tokens, held, slipped>>
  BY DEF ReadSession
<1> DEFINE sent == IF t = held[s] THEN t ELSE 0
           r == [pc |-> "rotate", session |-> s, token |-> sent]
<1>2. /\ serving[j] = Free /\ serving' = [serving EXCEPT ![j] = r] /\ UNCHANGED platform
      /\ t \in Nat /\ t # 0 /\ sent \in 0 .. MaxTokens
  BY <1>1, SessionsAssumption DEF Serve, IInv, Types
<1> HIDE DEF sent
<1>3. r \in Service
  BY <1>2, SessionsAssumption DEF Service
<1>4. \A k \in AuthJobs : serving'[k] = IF k = j THEN r ELSE serving[k]
  BY <1>2 DEF IInv, Types
<1>5. Types'
  BY <1>1, <1>2, <1>3 DEF IInv, Types
<1>6. Bounds'
  BY <1>1, <1>2, <1>4, SessionsAssumption DEF IInv, Types, Bounds
<1>7. CalmSessions'
  <2> SUFFICES ASSUME NEW c \in calm' PROVE Calm(c)'
    BY DEF CalmSessions
  <2>1. c \in AuthSessions /\ Calm(c)
    BY <1>1 DEF IInv, Types, CalmSessions
  <2>2. \A k \in AuthJobs : Refreshes(k, c)' <=> (k = j /\ c = s) \/ Refreshes(k, c)
    BY <1>2, <1>4, FreeService DEF Refreshes
  <2>3. CASE c = s
    <3>1. Refreshing(s) = {}
      BY <1>1, <2>3
    <3>2. \A k \in AuthJobs : ~Refreshes(k, s)
      BY <3>1 DEF Refreshing, Refreshes
    <3>3. held[s] = sessions[s].token
      BY <2>1, <2>3, <3>2 DEF Calm
    <3>4. sent # 0
      BY <1>1, <1>2, <3>3 DEF TokenMatches, sent, IInv, Types
    <3>. QED
      BY <1>1, <1>4, <2>2, <2>3, <3>2, <3>3, <3>4 DEF Calm
  <2>4. CASE c # s
    <3>1. \A k \in AuthJobs : Refreshes(k, c)' => Refreshes(k, c) /\ serving'[k] = serving[k]
      BY <1>2, <1>4, <2>2, <2>4, FreeService DEF Refreshes
    <3>2. \A k \in AuthJobs : Refreshes(k, c) => Refreshes(k, c)' /\ serving'[k] = serving[k]
      BY <1>2, <1>4, <2>2, <2>4, FreeService DEF Refreshes
    <3>. QED
      BY <1>1, <2>1, <3>1, <3>2 DEF Calm
  <2>. QED
    BY <2>3, <2>4
<1>8. OldSessions'
  BY <1>1, <1>2, OldStay, RevokeStaysToCome, FreeService DEF IInv
<1>. QED
  BY <1>5, <1>6, <1>7, <1>8 DEF IInv

LEMMA RotateRefreshInv == ASSUME IInv, NEW j \in AuthJobs, RotateRefresh(j)
                          PROVE  IInv'
<1> DEFINE s == serving[j].session
           r == [serving[j] EXCEPT !.pc = "answer"]
<1>1. /\ serving[j].pc = "rotate" /\ serving' = [serving EXCEPT ![j] = r]
      /\ NewToken /\ sessions' = [sessions EXCEPT ![s].token = tokens']
      /\ UNCHANGED <<platform, user, held, calm, slipped>>
  BY DEF RotateRefresh, Go, IInv, Types
<1>2. serving[j] \in Service /\ s \in AuthSessions /\ sessions[s] \in Session
  BY <1>1 DEF IInv, Types, Bounds
<1>3. r \in Service /\ r.pc = "answer" /\ r.session = s /\ r.token = serving[j].token
  BY <1>2 DEF Service
<1> HIDE DEF s, r
<1>4. tokens' = tokens + 1 /\ tokens' \in 0 .. MaxTokens /\ tokens \in Nat
  BY <1>1, SessionsAssumption DEF NewToken, IInv, Types
<1>5. \A t \in AuthSessions :
        sessions'[t] = IF t = s THEN [sessions[s] EXCEPT !.token = tokens'] ELSE sessions[t]
  BY <1>1, <1>2 DEF IInv, Types
<1>6. \A k \in AuthJobs : serving'[k] = IF k = j THEN r ELSE serving[k]
  BY <1>1 DEF IInv, Types
<1>7. Types'
  <2>1. sessions' \in [AuthSessions -> Session]
    BY <1>1, <1>2, <1>4 DEF IInv, Types, Session
  <2>2. held' \in [AuthSessions -> 0 .. tokens']
    BY <1>1, <1>4 DEF IInv, Types
  <2>. QED
    BY <2>1, <2>2, <1>1, <1>3, <1>4 DEF IInv, Types
<1>8. Bounds'
  <2>1. \A t \in AuthSessions : sessions[t] \in Session
    BY DEF IInv, Types
  <2>2. \A t \in AuthSessions : sessions'[t].token <= tokens' /\ sessions'[t].opened <= user'.password
    BY <2>1, <1>1, <1>2, <1>4, <1>5 DEF IInv, Bounds, Session
  <2>. QED
    BY <2>2, <1>1, <1>2, <1>3, <1>6 DEF IInv, Bounds
<1>9. CalmSessions'
  <2> SUFFICES ASSUME NEW c \in calm' PROVE Calm(c)'
    BY DEF CalmSessions
  <2>1. c \in AuthSessions /\ Calm(c)
    BY <1>1 DEF IInv, Types, CalmSessions
  <2>2. \A k \in AuthJobs : /\ Refreshes(k, c)' <=> Refreshes(k, c)
                            /\ serving'[k].token = serving[k].token
                            /\ k # j => serving'[k] = serving[k]
    BY <1>1, <1>3, <1>6 DEF Refreshes, s
  <2>3. CASE c = s
    <3>1. Refreshes(j, c)' /\ serving'[j].pc = "answer"
      BY <1>3, <1>6, <2>3 DEF Refreshes
    <3>. QED
      BY <2>1, <2>2, <3>1 DEF Calm
  <2>4. CASE c # s
    <3>1. ~Refreshes(j, c) /\ sessions'[c] = sessions[c] /\ held' = held
      BY <1>1, <1>5, <2>1, <2>4 DEF Refreshes, s
    <3>. QED
      BY <2>1, <2>2, <3>1 DEF Calm
  <2>. QED
    BY <2>3, <2>4
<1>10. OldSessions'
  <2>1. RevokeToCome => RevokeToCome'
    BY <1>1, RevokeStaysToCome DEF IInv
  <2>2. \A t \in AuthSessions : sessions'[t].status = sessions[t].status
                               /\ sessions'[t].opened = sessions[t].opened
    BY <1>2, <1>5 DEF Session
  <2>. QED
    BY <1>1, <2>1, <2>2, OldStay
<1>. QED
  BY <1>7, <1>8, <1>9, <1>10 DEF IInv

LEMMA AnswerRefreshInv == ASSUME IInv, NEW j \in AuthJobs, AnswerRefresh(j)
                          PROVE  IInv'
<1> DEFINE s == serving[j].session
<1>1. /\ serving[j].pc = "answer" /\ serving' = [serving EXCEPT ![j] = Free]
      /\ held' = IF serving[j].token = 0 THEN held ELSE [held EXCEPT ![s] = sessions[s].token]
      /\ UNCHANGED <<platform, user, sessions, tokens, calm, slipped>>
  BY DEF AnswerRefresh, Served
<1>2. s \in AuthSessions /\ sessions[s] \in Session /\ sessions[s].token <= tokens /\ tokens \in Nat
  BY <1>1 DEF IInv, Types, Bounds
<1> HIDE DEF s
<1>3. sessions[s].token \in 0 .. tokens
  BY <1>2 DEF Session
<1>4. Types'
  BY <1>1, <1>2, <1>3, FreeService DEF IInv, Types
<1>5. Bounds'
  BY <1>1, SessionsAssumption, FreeService DEF IInv, Types, Bounds
<1>6. CalmSessions'
  <2> SUFFICES ASSUME NEW c \in calm' PROVE Calm(c)'
    BY DEF CalmSessions
  <2>1. c \in AuthSessions /\ Calm(c)
    BY <1>1 DEF IInv, Types, CalmSessions
  <2>2. \A k \in AuthJobs : serving'[k] = IF k = j THEN Free ELSE serving[k]
    BY <1>1 DEF IInv, Types
  <2>3. \A k \in AuthJobs : Refreshes(k, c)' <=> k # j /\ Refreshes(k, c)
    BY <2>2, FreeService DEF Refreshes
  <2>4. CASE c = s
    <3>1. Refreshes(j, c)
      BY <1>1, <2>4 DEF Refreshes, s
    <3>2. (\A k \in AuthJobs : ~Refreshes(k, c)') /\ serving[j].token # 0
      BY <2>1, <2>3, <3>1 DEF Calm
    <3>3. held'[c] = sessions'[c].token
      BY <1>1, <1>2, <2>4, <3>2 DEF IInv, Types
    <3>. QED
      BY <3>2, <3>3 DEF Calm
  <2>5. CASE c # s
    <3>1. ~Refreshes(j, c) /\ held'[c] = held[c] /\ sessions' = sessions
      BY <1>1, <1>2, <2>1, <2>5 DEF Refreshes, s, IInv, Types
    <3>. QED
      BY <2>1, <2>2, <2>3, <3>1 DEF Calm
  <2>. QED
    BY <2>4, <2>5
<1>7. OldSessions'
  <2>1. RevokeToCome => RevokeToCome'
    BY <1>1, RevokeStaysToCome DEF IInv
  <2>. QED
    BY <1>1, <2>1, OldStay
<1>. QED
  BY <1>4, <1>5, <1>6, <1>7 DEF IInv

LEMMA LoseRefreshInv == ASSUME IInv, NEW j \in AuthJobs, LoseRefresh(j)
                        PROVE  IInv'
<1>1. /\ serving[j].pc = "answer" /\ serving' = [serving EXCEPT ![j] = Free]
      /\ calm' = calm \ {serving[j].session}
      /\ UNCHANGED <<platform, user, sessions, tokens, held, slipped>>
  BY DEF LoseRefresh, Served
<1>2. Types'
  BY <1>1, FreeService DEF IInv, Types
<1>3. Bounds'
  BY <1>1, SessionsAssumption, FreeService DEF IInv, Types, Bounds
<1>4. CalmSessions'
  BY <1>1, CalmStays, FreeService
<1>5. OldSessions'
  <2>1. RevokeToCome => RevokeToCome'
    BY <1>1, RevokeStaysToCome DEF IInv
  <2>. QED
    BY <1>1, <2>1, OldStay
<1>. QED
  BY <1>2, <1>3, <1>4, <1>5 DEF IInv

LEMMA ReadLogoutInv == ASSUME IInv, NEW j \in AuthJobs, ReadLogout(j)
                       PROVE  IInv'
<1>1. PICK s \in AuthSessions, pc \in {"logout", "logoutAll"} :
        /\ serving[j] = Free /\ serving' = [serving EXCEPT ![j] = [Free EXCEPT !.pc = pc, !.session = s]]
        /\ UNCHANGED <<platform, user, sessions, tokens, held, calm, slipped>>
  BY DEF ReadLogout, Serve
<1> DEFINE r == [Free EXCEPT !.pc = pc, !.session = s]
<1>2. r \in Service /\ r.pc \in {"logout", "logoutAll"} /\ r.token = 0
  BY DEF Service, Free
<1> HIDE DEF r
<1>3. Types'
  BY <1>1, <1>2 DEF IInv, Types, r
<1>4. Bounds'
  BY <1>1, <1>2, SessionsAssumption DEF IInv, Types, Bounds, r
<1>5. CalmSessions'
  BY <1>1, <1>2, CalmStays, FreeService DEF r
<1>6. OldSessions'
  BY <1>1, OldStay, RevokeStaysToCome, FreeService DEF IInv
<1>. QED
  BY <1>3, <1>4, <1>5, <1>6 DEF IInv

\* A revocation touches nothing but the status of sessions that are live.
LEMMA Revoked ==
    ASSUME IInv, NEW ss \in SUBSET AuthSessions, Revoke(ss)
    PROVE  /\ sessions' \in [AuthSessions -> Session]
           /\ \A s \in AuthSessions :
                 /\ sessions'[s].token = sessions[s].token
                 /\ sessions'[s].opened = sessions[s].opened
                 /\ sessions'[s].status = "LIVE" => sessions[s].status = "LIVE" /\ s \notin ss
<1>1. \A s \in AuthSessions : sessions[s] \in Session
  BY DEF IInv, Types
<1>2. \A s \in AuthSessions : sessions'[s] =
        IF s \in ss /\ sessions[s].status = "LIVE" THEN [sessions[s] EXCEPT !.status = "REVOKED"]
        ELSE sessions[s]
  BY DEF Revoke
<1>3. \A s \in AuthSessions : sessions'[s] \in Session
  BY <1>1, <1>2 DEF Session
<1>4. sessions' \in [AuthSessions -> Session]
  BY <1>3 DEF Revoke
<1>. QED
  BY <1>1, <1>2, <1>4 DEF Session

LEMMA RevokeSessionInv == ASSUME IInv, NEW j \in AuthJobs, RevokeSession(j)
                          PROVE  IInv'
<1>1. /\ serving[j].pc = "logout" /\ serving' = [serving EXCEPT ![j] = Free]
      /\ Revoke({serving[j].session})
      /\ UNCHANGED <<platform, user, tokens, held, calm, slipped>>
  BY DEF RevokeSession, Served
<1>2. Revoke({serving[j].session} \cap AuthSessions)
  BY <1>1 DEF Revoke
<1>3. /\ sessions' \in [AuthSessions -> Session]
      /\ \A s \in AuthSessions :
            /\ sessions'[s].token = sessions[s].token
            /\ sessions'[s].opened = sessions[s].opened
            /\ sessions'[s].status = "LIVE" => sessions[s].status = "LIVE"
  BY <1>2, Revoked
<1>4. Types'
  BY <1>1, <1>3, FreeService DEF IInv, Types
<1>5. Bounds'
  BY <1>1, <1>3, SessionsAssumption, FreeService DEF IInv, Types, Bounds
<1>6. CalmSessions'
  BY <1>1, <1>3, CalmStays, FreeService DEF IInv, Types
<1>7. OldSessions'
  <2>1. RevokeToCome => RevokeToCome'
    BY <1>1, RevokeStaysToCome DEF IInv
  <2>. QED
    BY <1>1, <1>3, <2>1, OldStay
<1>. QED
  BY <1>4, <1>5, <1>6, <1>7 DEF IInv

LEMMA RevokeAllUserSessionsInv == ASSUME IInv, NEW j \in AuthJobs, RevokeAllUserSessions(j)
                                  PROVE  IInv'
<1>1. /\ serving[j].pc = "logoutAll" /\ serving' = [serving EXCEPT ![j] = Free]
      /\ Revoke(AuthSessions)
      /\ UNCHANGED <<platform, user, tokens, held, calm, slipped>>
  BY DEF RevokeAllUserSessions, Served
<1>2. /\ sessions' \in [AuthSessions -> Session]
      /\ \A s \in AuthSessions :
            /\ sessions'[s].token = sessions[s].token
            /\ sessions'[s].opened = sessions[s].opened
            /\ sessions'[s].status # "LIVE"
  BY <1>1, Revoked
<1>3. Types'
  BY <1>1, <1>2, FreeService DEF IInv, Types
<1>4. Bounds'
  BY <1>1, <1>2, SessionsAssumption, FreeService DEF IInv, Types, Bounds
<1>5. CalmSessions'
  BY <1>1, <1>2, CalmStays, FreeService DEF IInv, Types
<1>6. OldSessions'
  BY <1>2 DEF OldSessions
<1>. QED
  BY <1>3, <1>4, <1>5, <1>6 DEF IInv

\* On the platform the request goes on to revoke, so no session is forgotten.
LEMMA ChangePasswordInv == ASSUME IInv, NEW j \in AuthJobs, ChangePassword(j)
                           PROVE  IInv'
<1> DEFINE r == IF platform THEN [Free EXCEPT !.pc = "logoutAll"] ELSE Free
<1>1. /\ serving[j] = Free /\ serving' = [serving EXCEPT ![j] = r]
      /\ user' = [user EXCEPT !.password = @ + 1] /\ user.password < MaxPasswords
      /\ UNCHANGED <<platform, sessions, tokens, held, calm, slipped>>
  BY DEF ChangePassword, Serve, IInv, Types
<1>2. r \in Service /\ r.pc \in {"idle", "logoutAll"} /\ r.token = 0
      /\ (platform => r.pc = "logoutAll")
  BY DEF Service, Free
<1> HIDE DEF r
<1>3. /\ user' \in [password : 1 .. MaxPasswords, active : BOOLEAN]
      /\ user'.password = user.password + 1 /\ user.password \in Nat
  BY <1>1, SessionsAssumption DEF IInv, Types
<1>4. Types'
  BY <1>1, <1>2, <1>3 DEF IInv, Types
<1>5. Bounds'
  <2>1. \A s \in AuthSessions : sessions[s].opened \in Nat
    BY DEF IInv, Types, Session
  <2>2. \A k \in AuthJobs : serving[k].token \in Nat
    BY DEF IInv, Types, Service
  <2>. QED
    BY <1>1, <1>2, <1>3, <2>1, <2>2, SessionsAssumption DEF IInv, Types, Bounds
<1>6. CalmSessions'
  BY <1>1, <1>2, CalmStays, FreeService
<1>7. OldSessions'
  <2>1. platform => RevokeToCome'
    BY <1>1, <1>2 DEF IInv, Types, RevokeToCome
  <2>. QED
    BY <1>1, <2>1 DEF OldSessions
<1>. QED
  BY <1>4, <1>5, <1>6, <1>7 DEF IInv

LEMMA ToggleStatusInv == ASSUME IInv, ToggleStatus
                         PROVE  IInv'
<1>1. /\ user' \in [password : 1 .. MaxPasswords, active : BOOLEAN] /\ user'.password = user.password
      /\ UNCHANGED <<platform, sessions, tokens, held, serving, calm, slipped>>
  BY DEF ToggleStatus, IInv, Types
<1>. QED
  BY <1>1 DEF IInv, Types, Bounds, CalmSessions, Calm, Refreshes, OldSessions, RevokeToCome

LEMMA DropInv == ASSUME IInv, NEW j \in AuthJobs, Drop(j)
                 PROVE  IInv'
<1>1. /\ serving[j].pc # "answer" /\ ~(platform /\ serving[j].pc = "logoutAll")
      /\ serving' = [serving EXCEPT ![j] = Free]
      /\ UNCHANGED <<platform, user, sessions, tokens, held, calm, slipped>>
  BY DEF Drop, Served
<1>2. Types'
  BY <1>1, FreeService DEF IInv, Types
<1>3. Bounds'
  BY <1>1, SessionsAssumption, FreeService DEF IInv, Types, Bounds
<1>4. CalmSessions'
  BY <1>1, CalmStays, FreeService
<1>5. OldSessions'
  BY <1>1, OldStay, RevokeStaysToCome DEF IInv
<1>. QED
  BY <1>2, <1>3, <1>4, <1>5 DEF IInv

-----------------------------------------------------------------------------
LEMMA NextInv == IInv /\ [SessionsNext]_sessionVars => IInv'
<1> SUFFICES ASSUME IInv, [SessionsNext]_sessionVars PROVE IInv'
  OBVIOUS
<1>1. CASE UNCHANGED sessionVars
  BY <1>1 DEF sessionVars, IInv, Types, Bounds, CalmSessions, Calm, Refreshes, OldSessions,
              RevokeToCome
<1>2. ASSUME NEW j \in AuthJobs, Login(j) PROVE IInv'
  BY <1>2, CheckPasswordInv, CreateSessionInv DEF Login
<1>3. ASSUME NEW j \in AuthJobs, Refresh(j) PROVE IInv'
  BY <1>3, ReadSessionInv, RotateRefreshInv, AnswerRefreshInv, LoseRefreshInv DEF Refresh
<1>4. ASSUME NEW j \in AuthJobs, Logout(j) PROVE IInv'
  BY <1>4, ReadLogoutInv, RevokeSessionInv, RevokeAllUserSessionsInv DEF Logout
<1>. QED
  BY <1>1, <1>2, <1>3, <1>4, ChangePasswordInv, DropInv, ToggleStatusInv DEF SessionsNext

LEMMA ImpliedTypes == IInv => SessionsTypeOK
<1> SUFFICES ASSUME IInv PROVE SessionsTypeOK
  OBVIOUS
<1>1. \A s \in AuthSessions : sessions[s] \in [status : {"NONE", "LIVE", "REVOKED"},
                                               token : 0 .. tokens, opened : 0 .. user.password]
  <2> SUFFICES ASSUME NEW s \in AuthSessions
               PROVE  sessions[s] \in [status : {"NONE", "LIVE", "REVOKED"},
                                       token : 0 .. tokens, opened : 0 .. user.password]
    OBVIOUS
  <2>1. /\ sessions[s] \in Session /\ sessions[s].token <= tokens
        /\ sessions[s].opened <= user.password
        /\ tokens \in Nat /\ user.password \in Nat
    BY DEF IInv, Types, Bounds
  <2>. QED
    BY <2>1 DEF Session
<1>2. \A j \in AuthJobs : serving[j].token \in 0 .. MaxTokens + MaxPasswords
  <2>1. \A j \in AuthJobs : serving[j] \in Service /\ serving[j].token <= MaxTokens + MaxPasswords
    BY DEF IInv, Types, Bounds
  <2>. QED
    BY <2>1, SessionsAssumption DEF Service
<1>3. serving \in [AuthJobs -> [pc : {"idle", "login", "rotate", "answer", "logout", "logoutAll"},
                                session : AuthSessions \cup {NoSession},
                                token : 0 .. MaxTokens + MaxPasswords]]
  BY <1>2 DEF IInv, Types, Service
<1>. QED
  BY <1>1, <1>3 DEF SessionsTypeOK, IInv, Types

THEOREM Invariance == SessionsSpec => []IInv
<1>. QED
  BY InitInv, NextInv, PTL DEF SessionsSpec

\* The rows, tokens and requests are what they are declared to be, within the bounds.
THEOREM SessionsTypes == SessionsSpec => []SessionsTypeOK
<1>. QED
  BY Invariance, ImpliedTypes, PTL

\* An app that sends one refresh at a time and gets its answers keeps the token the
\* session has (sessions.service.ts:84-179, platform-sessions.service.ts:49-107).
THEOREM CalmTheorem == SessionsSpec => []CalmAppStaysIn
<1>1. IInv => CalmAppStaysIn
  <2> SUFFICES ASSUME IInv, NEW s \in LiveSessions \cap calm, Refreshing(s) = {}
               PROVE  held[s] = sessions[s].token
    BY DEF CalmAppStaysIn
  <2>1. \A j \in AuthJobs : ~Refreshes(j, s)
    BY DEF Refreshing, Refreshes
  <2>. QED
    BY <2>1 DEF IInv, CalmSessions, Calm
<1>. QED
  BY <1>1, Invariance, PTL

\* After a new password the platform has no session of the old one but those whose
\* password had been compared before (platform-profile.service.ts:104-124,
\* platform-users.service.ts:204-226).
THEOREM OldPasswordTheorem == SessionsSpec => []OldPasswordIsOut
<1>1. IInv => OldPasswordIsOut
  BY DEF IInv, OldSessions, OldPasswordIsOut, RevokeToCome, LiveSessions
<1>. QED
  BY <1>1, Invariance, PTL

-----------------------------------------------------------------------------
(***************************************************************************)
(* The years of a school                                                   *)
(***************************************************************************)

TermRow == [current : BOOLEAN, begun : BOOLEAN, live : BOOLEAN]
YearRow == [current : BOOLEAN, from : Nat, terms : Seq(TermRow)]

\* The last year is the current one, and a year was made from an earlier one: so none
\* was made from the year that is current.
LastIsCurrent == CurrentYears = {Len(years)}
FromEarlier == \A y \in DOMAIN years : years[y].from < y

YInv == years \in Seq(YearRow) /\ LastIsCurrent /\ FromEarlier /\ RolledOverOnce

LEMMA YearTypes == ASSUME years \in Seq(YearRow)
                   PROVE  /\ DOMAIN years = 1 .. Len(years) /\ Len(years) \in Nat
                          /\ years \in [1 .. Len(years) -> YearRow]
                          /\ \A y \in DOMAIN years : /\ years[y] \in YearRow
                                                     /\ years[y].from \in Nat
                                                     /\ years[y].current \in BOOLEAN
                                                     /\ years[y].terms \in Seq(TermRow)
<1>1. /\ DOMAIN years = 1 .. Len(years) /\ Len(years) \in Nat
      /\ years \in [1 .. Len(years) -> YearRow]
  OBVIOUS
<1>2. \A y \in DOMAIN years : years[y] \in YearRow
  BY <1>1
<1>. QED
  BY <1>1, <1>2 DEF YearRow

\* What is written to the terms, by the id of a year, leaves the years as they are.
LEMMA TermsInv ==
    ASSUME YInv, NEW y \in DOMAIN years, NEW terms \in Seq(TermRow),
           years' = [years EXCEPT ![y].terms = terms]
    PROVE  YInv'
<1> DEFINE x == [years[y] EXCEPT !.terms = terms]
<1>1. years \in Seq(YearRow)
  BY DEF YInv
<1>2. x \in YearRow /\ x.current = years[y].current /\ x.from = years[y].from
  BY <1>1, YearTypes DEF YearRow
<1>3. years' = [years EXCEPT ![y] = x]
  OBVIOUS
<1>. HIDE DEF x
<1>4. years' \in [1 .. Len(years) -> YearRow]
  BY <1>1, <1>2, <1>3, YearTypes
<1>5. years' \in Seq(YearRow) /\ DOMAIN years' = DOMAIN years /\ Len(years') = Len(years)
  BY <1>1, <1>4, YearTypes
<1>6. \A z \in DOMAIN years : years'[z].current = years[z].current /\ years'[z].from = years[z].from
  BY <1>1, <1>2, <1>3, YearTypes
<1>. QED
  BY <1>5, <1>6 DEF YInv, LastIsCurrent, CurrentYears, FromEarlier, RolledOverOnce

\* A year that is made is the current one, and made from the one that was, or from none.
LEMMA NewYearInv ==
    ASSUME YInv, NEW old \in Seq(YearRow), NEW new \in YearRow, years' = Append(old, new),
           DOMAIN old = DOMAIN years, \A y \in DOMAIN years : ~old[y].current /\ old[y].from = years[y].from,
           new.current, new.from \in {0, Len(years)}
    PROVE  YInv'
<1>1. years \in Seq(YearRow)
  BY DEF YInv
<1>2. /\ DOMAIN years = 1 .. Len(years) /\ Len(years) \in Nat /\ Len(old) = Len(years)
      /\ \A y \in DOMAIN years : years[y].from \in Nat /\ years[y].from < y
  BY <1>1, YearTypes DEF YInv, FromEarlier
<1>3. /\ years' \in Seq(YearRow) /\ DOMAIN years' = 1 .. Len(years) + 1 /\ Len(years') = Len(years) + 1
      /\ \A y \in 1 .. Len(years) : years'[y] = old[y]
      /\ years'[Len(years) + 1] = new
  BY <1>2
<1>4. LastIsCurrent'
  BY <1>2, <1>3 DEF LastIsCurrent, CurrentYears
<1>5. FromEarlier'
  BY <1>2, <1>3 DEF FromEarlier
<1>6. RolledOverOnce'
  <2> SUFFICES ASSUME NEW y \in DOMAIN years', NEW z \in DOMAIN years', y # Len(years) + 1,
                      years'[y].from = years'[z].from, years'[y].from # 0
               PROVE  y = z
    BY <1>3 DEF RolledOverOnce
  <2>1. y \in DOMAIN years /\ years'[y].from = years[y].from
    BY <1>2, <1>3
  <2>2. CASE z = Len(years) + 1
    <3>1. years'[z] = new /\ new.from = years[y].from
      BY <1>3, <2>1, <2>2
    <3>2. years[y].from \in Nat /\ years[y].from < y /\ y \in Nat /\ y <= Len(years)
      BY <1>2, <2>1
    <3>. QED
      BY <2>1, <3>1, <3>2
  <2>3. CASE z # Len(years) + 1
    <3>1. z \in DOMAIN years /\ years'[z].from = years[z].from
      BY <1>2, <1>3, <2>3
    <3>. QED
      BY <2>1, <3>1 DEF YInv, RolledOverOnce
  <2>. QED
    BY <2>2, <2>3
<1>. QED
  BY <1>3, <1>4, <1>5, <1>6 DEF YInv

LEMMA PastIs == ASSUME NEW y \in YearRow
                PROVE  Past(y) \in YearRow /\ ~Past(y).current /\ Past(y).from = y.from
<1>1. << >> \in Seq(TermRow)
  OBVIOUS
<1>. QED
  BY <1>1 DEF Past, YearRow

LEMMA TermReplaced ==
    ASSUME NEW s \in Seq(TermRow), NEW i \in DOMAIN s, NEW b \in TermRow
    PROVE  [s EXCEPT ![i] = b] \in Seq(TermRow) /\ DOMAIN [s EXCEPT ![i] = b] = DOMAIN s
<1>1. Len(s) \in Nat /\ s \in [1 .. Len(s) -> TermRow]
  OBVIOUS
<1> DEFINE t == [s EXCEPT ![i] = b]
<1>2. t \in [1 .. Len(s) -> TermRow]
  BY <1>1
<1>. HIDE DEF t
<1>3. t \in Seq(TermRow)
  BY <1>1, <1>2
<1>. QED
  BY <1>3 DEF t

LEMMA NewTermIs == ASSUME NEW a \in BOOLEAN, NEW b \in BOOLEAN, NEW f \in Nat
                   PROVE  /\ NewTerm(a, b) \in TermRow
                          /\ [current |-> TRUE, from |-> f, terms |-> <<NewTerm(a, b)>>] \in YearRow
<1>1. NewTerm(a, b) \in TermRow
  BY DEF NewTerm, TermRow
<1>2. <<NewTerm(a, b)>> \in Seq(TermRow)
  BY <1>1
<1>. QED
  BY <1>1, <1>2 DEF YearRow

LEMMA CreateYearInv == ASSUME YInv, CreateYear PROVE YInv'
<1> DEFINE old == [y \in DOMAIN years |-> Past(years[y])]
<1>1. PICK begun \in BOOLEAN :
        years' = Append(old, [current |-> TRUE, from |-> 0, terms |-> <<NewTerm(TRUE, begun)>>])
  BY DEF CreateYear
<1> DEFINE new == [current |-> TRUE, from |-> 0, terms |-> <<NewTerm(TRUE, begun)>>]
<1>2. new \in YearRow
  BY NewTermIs
<1>3. years \in Seq(YearRow)
  BY DEF YInv
<1>4. \A y \in DOMAIN years : old[y] \in YearRow /\ ~old[y].current /\ old[y].from = years[y].from
  BY <1>3, YearTypes, PastIs
<1>5. old \in Seq(YearRow) /\ DOMAIN old = DOMAIN years
  <2>1. old \in [1 .. Len(years) -> YearRow]
    BY <1>3, <1>4, YearTypes
  <2>. QED
    BY <1>3, <2>1, YearTypes
<1>6. new.current /\ new.from = 0
  OBVIOUS
<1>. HIDE DEF old, new
<1>7. years' = Append(old, new)
  BY <1>1 DEF new
<1>. QED
  BY <1>2, <1>4, <1>5, <1>6, <1>7, NewYearInv

LEMMA RolloverInv == ASSUME YInv, NEW c \in Clerks, Rollover(c) PROVE YInv'
<1> DEFINE last == office[c].year
           old == [years EXCEPT ![last] = Past(@)]
<1>1. PICK begun \in BOOLEAN :
        /\ CurrentIsFree(CurrentYears \ {last})
        /\ years' = Append(old, [current |-> TRUE, from |-> last, terms |-> <<NewTerm(begun, begun)>>])
  BY DEF Rollover
<1> DEFINE new == [current |-> TRUE, from |-> last, terms |-> <<NewTerm(begun, begun)>>]
<1>2. years \in Seq(YearRow) /\ CurrentYears = {Len(years)}
  BY DEF YInv, LastIsCurrent
<1>3. last = Len(years) /\ last \in DOMAIN years /\ last \in Nat
  <2>1. last = Len(years)
    BY <1>1, <1>2 DEF CurrentIsFree
  <2>. QED
    BY <1>2, <2>1, YearTypes DEF CurrentYears
<1>. HIDE DEF last
<1>4. new \in YearRow /\ new.current /\ new.from = Len(years)
  BY <1>3, NewTermIs
<1>5. Past(years[last]) \in YearRow
  BY <1>2, <1>3, YearTypes, PastIs
<1>6. old \in Seq(YearRow) /\ DOMAIN old = DOMAIN years
  <2>1. old \in [1 .. Len(years) -> YearRow]
    BY <1>2, <1>3, <1>5, YearTypes
  <2>. QED
    BY <1>2, <2>1, YearTypes
<1>7. ASSUME NEW y \in DOMAIN years
      PROVE  ~old[y].current /\ old[y].from = years[y].from
  <2>1. CASE y = last
    BY <1>2, <1>3, <2>1, YearTypes, PastIs
  <2>2. CASE y # last
    BY <1>2, <1>3, <2>2, YearTypes DEF CurrentYears
  <2>. QED
    BY <2>1, <2>2
<1>8. years' = Append(old, new)
  BY <1>1
<1>. HIDE DEF old, new
<1>. QED
  BY <1>4, <1>6, <1>7, <1>8, NewYearInv

LEMMA WriteTermInv ==
    ASSUME YInv, NEW c \in Clerks, NEW op, NEW new, WriteTerm(c, op, new),
           TermAsked(c) \in TermRow => new \in TermRow
    PROVE  YInv'
<1> DEFINE y == office[c].year
           t == office[c].term
<1>1. years' = IF t \in DOMAIN years[y].terms THEN [years EXCEPT ![y].terms[t] = new] ELSE years
  BY DEF WriteTerm
<1>2. years \in Seq(YearRow)
  BY DEF YInv
<1>. HIDE DEF y, t
<1>3. CASE y \in DOMAIN years /\ t \in DOMAIN years[y].terms
  <2> DEFINE terms == [years[y].terms EXCEPT ![t] = new]
  <2>1. years[y].terms \in Seq(TermRow)
    BY <1>2, <1>3, YearTypes
  <2>2. new \in TermRow
    <3>1. years[y].terms[t] \in TermRow
      BY <1>3, <2>1
    <3>. QED
      BY <3>1 DEF TermAsked, y, t
  <2>3. terms \in Seq(TermRow)
    BY <1>3, <2>1, <2>2
  <2>4. years' = [years EXCEPT ![y].terms = terms]
    BY <1>1, <1>3
  <2>. HIDE DEF terms
  <2>. QED
    BY <1>3, <2>3, <2>4, TermsInv
<1>4. CASE ~(y \in DOMAIN years /\ t \in DOMAIN years[y].terms)
  <2>1. years' = years
    <3>1. CASE y \in DOMAIN years
      BY <1>1, <1>4, <3>1
    <3>2. CASE y \notin DOMAIN years
      <4>1. years \in [1 .. Len(years) -> YearRow] /\ DOMAIN years = 1 .. Len(years)
        BY <1>2, YearTypes
      <4>. QED
        BY <1>1, <3>2, <4>1
    <3>. QED
      BY <3>1, <3>2
  <2>. QED
    BY <2>1 DEF YInv, LastIsCurrent, CurrentYears, FromEarlier, RolledOverOnce
<1>. QED
  BY <1>3, <1>4

LEMMA TermWrittenInv ==
    ASSUME YInv, NEW c \in Clerks, DeleteTerm(c) \/ EndCurrentTerm(c) \/ StartTerm(c)
    PROVE  YInv'
<1> DEFINE term == TermAsked(c)
<1>1. term \in TermRow => /\ [term EXCEPT !.live = FALSE] \in TermRow
                          /\ [term EXCEPT !.current = FALSE] \in TermRow
                          /\ [term EXCEPT !.current = TRUE, !.begun = TRUE] \in TermRow
  BY DEF TermRow
<1>. HIDE DEF term
<1>2. CASE DeleteTerm(c)
  BY <1>1, <1>2, WriteTermInv DEF DeleteTerm, term
<1>3. CASE EndCurrentTerm(c)
  BY <1>1, <1>3, WriteTermInv DEF EndCurrentTerm, term
<1>4. CASE StartTerm(c)
  <2> DEFINE new == IF term.live => CurrentIsFree(CurrentTerms(office[c].year) \ {office[c].term})
                    THEN [term EXCEPT !.current = TRUE, !.begun = TRUE] ELSE term
  <2>1. WriteTerm(c, "start", new)
    BY <1>4 DEF StartTerm, term
  <2>2. term \in TermRow => new \in TermRow
    BY <1>1
  <2>. HIDE DEF new
  <2>. QED
    BY <2>1, <2>2, WriteTermInv DEF term
<1>. QED
  BY <1>2, <1>3, <1>4

LEMMA TermsChangeInv == ASSUME YInv, AddTerm \/ AdvanceToNextTerm \/ TermDates PROVE YInv'
<1>1. years \in Seq(YearRow)
  BY DEF YInv
<1>2. CASE AddTerm
  <2>1. PICK y \in CurrentYears : years' = [years EXCEPT ![y].terms = Append(@, NewTerm(FALSE, FALSE))]
    BY <1>2 DEF AddTerm
  <2> DEFINE terms == Append(years[y].terms, NewTerm(FALSE, FALSE))
  <2>2. y \in DOMAIN years /\ terms \in Seq(TermRow)
    <3>1. y \in DOMAIN years /\ years[y].terms \in Seq(TermRow)
      BY <1>1, YearTypes DEF CurrentYears
    <3> DEFINE before == years[y].terms
               added == NewTerm(FALSE, FALSE)
    <3>2. before \in Seq(TermRow) /\ added \in TermRow
      BY <3>1, NewTermIs
    <3>. HIDE DEF before, added
    <3>3. Append(before, added) \in Seq(TermRow)
      BY <3>2
    <3>. QED
      BY <3>1, <3>3 DEF before, added
  <2>3. years' = [years EXCEPT ![y].terms = terms]
    BY <2>1
  <2>. HIDE DEF terms
  <2>. QED
    BY <2>2, <2>3, TermsInv
<1>3. CASE AdvanceToNextTerm
  <2>0. PICK y \in CurrentYears : \E t \in CurrentTerms(y), next \in LiveTerms(y) :
          /\ next > t
          /\ \A u \in LiveTerms(y) : u > t => u >= next
          /\ years' = [years EXCEPT ![y].terms[t].current = FALSE, ![y].terms[next].current = TRUE]
          /\ UNCHANGED <<enrolled, office, moved>>
    BY <1>3 DEF AdvanceToNextTerm
  <2>1. PICK t \in CurrentTerms(y), next \in LiveTerms(y) :
          years' = [years EXCEPT ![y].terms[t].current = FALSE, ![y].terms[next].current = TRUE]
    BY <2>0
  <2>5. t \in DOMAIN years[y].terms /\ next \in DOMAIN years[y].terms
    BY DEF CurrentTerms, LiveTerms
  <2> DEFINE terms == [years[y].terms EXCEPT ![t].current = FALSE, ![next].current = TRUE]
  <2>2. y \in DOMAIN years /\ years[y].terms \in Seq(TermRow)
    BY <1>1, YearTypes DEF CurrentYears
  <2>3. terms \in Seq(TermRow)
    <3> DEFINE a == [years[y].terms[t] EXCEPT !.current = FALSE]
               first == [years[y].terms EXCEPT ![t] = a]
               b == [first[next] EXCEPT !.current = TRUE]
    <3>1. years[y].terms[t] \in TermRow
      BY <2>2, <2>5
    <3>2. a \in TermRow
      BY <3>1 DEF TermRow
    <3>3. first \in Seq(TermRow) /\ DOMAIN first = DOMAIN years[y].terms
      <4>. HIDE DEF a
      <4>. QED
        BY <2>2, <2>5, <3>2, TermReplaced
    <3>4. terms = [first EXCEPT ![next] = b]
      BY <2>2, <2>5
    <3>. HIDE DEF first
    <3>5. first[next] \in TermRow
      BY <2>5, <3>3
    <3>6. b \in TermRow
      BY <3>5 DEF TermRow
    <3>. HIDE DEF b, terms
    <3>7. next \in DOMAIN first
      BY <2>5, <3>3
    <3>8. [first EXCEPT ![next] = b] \in Seq(TermRow)
      BY <3>3, <3>6, <3>7, TermReplaced
    <3>. QED
      BY <3>4, <3>8
  <2>4. years' = [years EXCEPT ![y].terms = terms]
    BY <2>1, <2>2, <2>5
  <2>. HIDE DEF terms
  <2>. QED
    BY <2>2, <2>3, <2>4, TermsInv
<1>4. CASE TermDates
  <2>1. PICK y \in DOMAIN years : \E t \in DOMAIN years[y].terms :
          years' = [years EXCEPT ![y].terms[t].begun = ~ @]
    BY <1>4 DEF TermDates, LiveTerms
  <2>7. PICK t \in DOMAIN years[y].terms : years' = [years EXCEPT ![y].terms[t].begun = ~ @]
    BY <2>1
  <2> DEFINE x == [years[y].terms[t] EXCEPT !.begun = ~ years[y].terms[t].begun]
             terms == [years[y].terms EXCEPT ![t] = x]
  <2>2. years[y].terms \in Seq(TermRow)
    BY <1>1, YearTypes
  <2>3. years[y].terms[t] \in TermRow
    BY <2>2
  <2>4. x \in TermRow
    BY <2>3 DEF TermRow
  <2>5. years' = [years EXCEPT ![y].terms = terms]
    BY <2>7
  <2>. HIDE DEF x
  <2>6. terms \in Seq(TermRow)
    BY <2>2, <2>4
  <2>. HIDE DEF terms
  <2>. QED
    BY <2>5, <2>6, TermsInv
<1>. QED
  BY <1>2, <1>3, <1>4

LEMMA YearsInitInv == YearsInit => YInv
<1> SUFFICES ASSUME YearsInit
             PROVE  YInv
  OBVIOUS
<1>1. PICK begun \in BOOLEAN :
        years = <<[current |-> TRUE, from |-> 0, terms |-> <<NewTerm(begun, begun)>>]>>
  BY DEF YearsInit
<1> DEFINE new == [current |-> TRUE, from |-> 0, terms |-> <<NewTerm(begun, begun)>>]
<1>2. new \in YearRow /\ new.current /\ new.from = 0 /\ years = <<new>>
  BY <1>1, NewTermIs
<1>. HIDE DEF new
<1>3. years \in Seq(YearRow) /\ DOMAIN years = {1} /\ Len(years) = 1 /\ years[1] = new
  BY <1>2
<1>. QED
  BY <1>2, <1>3 DEF YInv, LastIsCurrent, CurrentYears, FromEarlier, RolledOverOnce

LEMMA YearsNextInv == ASSUME YInv, [YearsNext]_yearVars PROVE YInv'
<1>1. ASSUME UNCHANGED years
      PROVE  YInv'
  BY <1>1 DEF YInv, LastIsCurrent, CurrentYears, FromEarlier, RolledOverOnce
<1>2. CASE UNCHANGED yearVars
  BY <1>1, <1>2 DEF yearVars
<1>3. ASSUME NEW c \in Clerks,
             \/ BeginTerm(c) \/ BeginEnrolment(c) \/ BeginRollover(c) \/ TransferGrade(c)
             \/ DropEnrollment(c) \/ ReEnroll(c) \/ RolloverRefused(c)
      PROVE  YInv'
  BY <1>1, <1>3 DEF BeginTerm, BeginEnrolment, BeginRollover, TransferGrade, DropEnrollment, ReEnroll,
                    RolloverRefused
<1>. QED
  BY <1>2, <1>3, CreateYearInv, TermsChangeInv, TermWrittenInv, RolloverInv DEF YearsNext

\* No two years were made from the same one, whatever executions of the rollover found it
\* eligible at one time.
THEOREM RolledOverTheorem == YearsSpec => []RolledOverOnce
<1>1. YInv => RolledOverOnce
  BY DEF YInv
<1>. QED
  BY <1>1, YearsInitInv, YearsNextInv, PTL DEF YearsSpec
=============================================================================
