------------------------------ MODULE Sessions ------------------------------
(***************************************************************************)
(* The sessions of one user, of a school or of the platform: logging in,   *)
(* rotating the refresh token, logging out, and a new password.  Nothing   *)
(* here is in a transaction, and every write is by the uuid of the row,    *)
(* whatever it has become since it was read.                               *)
(*                                                                         *)
(* Tokens are numbers.  The clock is left out: a session that has expired  *)
(* is one nobody can refresh, as a revoked one.                            *)
(***************************************************************************)
EXTENDS Naturals, FiniteSets

CONSTANTS AuthSessions, \* rows of auth_sessions
          AuthJobs,     \* requests in progress at one time
          MaxTokens,    \* bound: refresh tokens made
          MaxPasswords, \* bound: passwords of the user
          NoSession     \* the request has no session

\* The user has a password to begin with.
ASSUME SessionsAssumption == /\ NoSession \notin AuthSessions
                             /\ MaxTokens \in Nat /\ MaxPasswords \in Nat \ {0}

VARIABLES platform, \* whether this is the platform or a school
          user,     \* the row of the user: its password, and if it is active
          sessions, \* status, hash of the refresh token; and the password it was opened with
          tokens,   \* refresh tokens made so far
          held,     \* the token the app keeps for each session, 0 if none
          serving,  \* where each request is
          calm,     \* sessions whose app has sent one refresh at a time and got every answer,
          slipped   \* and those opened with a password that was being changed

sessionVars == <<platform, user, sessions, tokens, held, serving, calm, slipped>>

Free == [pc |-> "idle", session |-> NoSession, token |-> 0]

SessionsInit == /\ platform \in BOOLEAN
                /\ user = [password |-> 1, active |-> TRUE]
                /\ sessions = [s \in AuthSessions |-> [status |-> "NONE", token |-> 0, opened |-> 0]]
                /\ tokens = 0
                /\ held = [s \in AuthSessions |-> 0]
                /\ serving = [j \in AuthJobs |-> Free]
                /\ calm = AuthSessions
                /\ slipped = {}

Serve(j, r) == serving[j] = Free /\ serving' = [serving EXCEPT ![j] = r] /\ UNCHANGED platform
Go(j, from, to) == /\ serving[j].pc = from
                   /\ serving' = [serving EXCEPT ![j].pc = to]
                   /\ UNCHANGED platform
Served(j, from) == /\ serving[j].pc = from
                  /\ serving' = [serving EXCEPT ![j] = Free]
                  /\ UNCHANGED platform

LiveSessions == {s \in AuthSessions : sessions[s].status = "LIVE"}
NewToken == tokens < MaxTokens /\ tokens' = tokens + 1

-----------------------------------------------------------------------------
(* login *)

\* The password is compared (its edition is kept as "token"), the device updated.
CheckPassword(j) == /\ user.active
                    /\ Serve(j, [Free EXCEPT !.pc = "login", !.token = user.password])
                    /\ UNCHANGED <<user, sessions, tokens, held, calm, slipped>>

CreateSession(j) == \E s \in AuthSessions : LET opened == serving[j].token IN
    /\ Served(j, "login")
    /\ sessions[s].status = "NONE"
    /\ NewToken
    /\ sessions' = [sessions EXCEPT ![s] = [status |-> "LIVE", token |-> tokens', opened |-> opened]]
    /\ held' = [held EXCEPT ![s] = tokens']
    /\ slipped' = IF opened # user.password THEN slipped \cup {s} ELSE slipped
    /\ UNCHANGED <<user, calm>>

-----------------------------------------------------------------------------
(* refresh *)

Refreshing(s) == {j \in AuthJobs : serving[j].session = s /\ serving[j].pc \in {"rotate", "answer"}}

\* Seeded fault: any token of the session will do.
TokenMatches_any(s, t) == TRUE

TokenMatches(s, t) == sessions[s].token = t

\* The app sends the token it holds, or the network an older request again, whose answer
\* nobody waits for.
ReadSession(j) == \E s \in AuthSessions, t \in 1 .. tokens :
    /\ t <= held[s]
    /\ sessions[s].status = "LIVE"
    /\ TokenMatches(s, t)
    /\ Serve(j, [pc |-> "rotate", session |-> s, token |-> IF t = held[s] THEN t ELSE 0])
    /\ calm' = IF Refreshing(s) # {} THEN calm \ {s} ELSE calm
    /\ UNCHANGED <<user, sessions, tokens, held, slipped>>

\* By its uuid: neither the token nor the revocation is asked for again.
RotateRefresh(j) == LET s == serving[j].session IN
    /\ Go(j, "rotate", "answer")
    /\ NewToken
    /\ sessions' = [sessions EXCEPT ![s].token = tokens']
    /\ UNCHANGED <<user, held, calm, slipped>>

\* The user is looked up after the rotation.  The app keeps the token of the answer,
\* which is the newest unless another request came in between.
AnswerRefresh(j) == LET s == serving[j].session IN
    /\ Served(j, "answer")
    /\ user.active
    /\ held' = IF serving[j].token = 0 THEN held ELSE [held EXCEPT ![s] = sessions[s].token]
    /\ UNCHANGED <<user, sessions, tokens, calm, slipped>>

\* The account is disabled, a statement fails, or the answer is lost.
LoseRefresh(j) == LET s == serving[j].session IN
    /\ Served(j, "answer")
    /\ calm' = calm \ {s}
    /\ UNCHANGED <<user, sessions, tokens, held, slipped>>

-----------------------------------------------------------------------------
(* logout, a new password, an account disabled *)

\* revokeSession: a row that is revoked already is left alone.
Revoke(ss) == sessions' = [s \in AuthSessions |->
    IF s \in ss /\ sessions[s].status = "LIVE" THEN [sessions[s] EXCEPT !.status = "REVOKED"]
    ELSE sessions[s]]

ReadLogout(j) == \E s \in AuthSessions, pc \in {"logout", "logoutAll"} :
    /\ sessions[s].status # "NONE"
    /\ pc = "logoutAll" => ~platform
    /\ Serve(j, [Free EXCEPT !.pc = pc, !.session = s])
    /\ UNCHANGED <<user, sessions, tokens, held, calm, slipped>>

RevokeSession(j) == /\ Served(j, "logout")
                    /\ Revoke({serving[j].session})
                    /\ UNCHANGED <<user, tokens, held, calm, slipped>>

\* Seeded fault: the session of the request stays.
RevokeAllUserSessions_butOne(j) == /\ Served(j, "logoutAll")
                                   /\ Revoke(AuthSessions \ {CHOOSE s \in AuthSessions : TRUE})
                                   /\ UNCHANGED <<user, tokens, held, calm, slipped>>

RevokeAllUserSessions(j) == /\ Served(j, "logoutAll")
                            /\ Revoke(AuthSessions)
                            /\ UNCHANGED <<user, tokens, held, calm, slipped>>

\* The platform revokes the sessions of the old password, in a statement of its own;
\* a school does not, on purpose.
ChangePassword(j) == /\ user.password < MaxPasswords
                     /\ user' = [user EXCEPT !.password = @ + 1]
                     /\ IF platform THEN Serve(j, [Free EXCEPT !.pc = "logoutAll"])
                        ELSE UNCHANGED <<serving, platform>> /\ serving[j] = Free
                     /\ UNCHANGED <<sessions, tokens, held, calm, slipped>>

ToggleStatus == /\ user' = [user EXCEPT !.active = ~@]
                /\ UNCHANGED <<platform, sessions, tokens, held, serving, calm, slipped>>

\* A statement fails or the server dies; a password whose sessions were not revoked is
\* left to the operator, who is told of the error.
Drop(j) == /\ serving[j] # Free /\ serving[j].pc # "answer"
           /\ ~(platform /\ serving[j].pc = "logoutAll")
           /\ Served(j, serving[j].pc)
           /\ UNCHANGED <<user, sessions, tokens, held, calm, slipped>>

-----------------------------------------------------------------------------
Login(j) == CheckPassword(j) \/ CreateSession(j)
Refresh(j) == ReadSession(j) \/ RotateRefresh(j) \/ AnswerRefresh(j) \/ LoseRefresh(j)
Logout(j) == ReadLogout(j) \/ RevokeSession(j) \/ RevokeAllUserSessions(j)

SessionsNext == \/ \E j \in AuthJobs : Login(j) \/ Refresh(j) \/ Logout(j) \/ ChangePassword(j)
                                       \/ Drop(j)
                \/ ToggleStatus
SessionsSpec == SessionsInit /\ [][SessionsNext]_sessionVars

-----------------------------------------------------------------------------
(* Properties *)

SessionsTypeOK ==
    /\ platform \in BOOLEAN
    /\ user \in [password : 1 .. MaxPasswords, active : BOOLEAN]
    /\ sessions \in [AuthSessions -> [status : {"NONE", "LIVE", "REVOKED"},
                                      token : 0 .. tokens, opened : 0 .. user.password]]
    /\ tokens \in 0 .. MaxTokens
    /\ held \in [AuthSessions -> 0 .. tokens]
    /\ serving \in [AuthJobs -> [pc : {"idle", "login", "rotate", "answer", "logout",
                                       "logoutAll"},
                                 session : AuthSessions \cup {NoSession},
                                 token : 0 .. MaxTokens + MaxPasswords]]
    /\ calm \cup slipped \subseteq AuthSessions

\* An app that sends one refresh at a time and gets its answers keeps the token the
\* session has, although nothing is locked and requests of the past may be delivered
\* again (sessions.service.ts:84-179, platform-sessions.service.ts:49-107).
CalmAppStaysIn == \A s \in LiveSessions \cap calm :
    Refreshing(s) = {} => held[s] = sessions[s].token

\* After a new password the platform has no session of the old one, but one whose
\* password had been compared before (platform-profile.service.ts:104-124,
\* platform-users.service.ts:204-226).
OldPasswordIsOut == platform /\ (\A j \in AuthJobs : serving[j].pc # "logoutAll") =>
    \A s \in LiveSessions : sessions[s].opened = user.password \/ s \in slipped
=============================================================================
