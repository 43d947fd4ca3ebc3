------------------------------ MODULE UserAccount ------------------------------
(* Accounts of users (src/src/auth, src/src/user): registration, login with    *)
(* the lockout after failed attempts, login through an OAuth provider, reset   *)
(* and change of the password, and the soft deletion.  A user stands for his   *)
(* e-mail address and for his account at the provider.  Between a read and the *)
(* write that follows it bcrypt runs, and other requests with it.  No e-mail   *)
(* with a verification token is ever sent (the calls are commented out), so    *)
(* only a provider verifies an address.                                        *)
EXTENDS Naturals, FiniteSets

CONSTANTS
    Users,
    Calls,        \* requests that can overlap
    MaxAttempts,  \* MAX_LOGIN_ATTEMPTS
    MaxTokens,    \* bound on the reset tokens of a user
    MaxCalls      \* bound on the requests

ASSUME AccountAssumption == MaxAttempts \in Nat \ {0} /\ {MaxTokens, MaxCalls} \subseteq Nat
ASSUME CallsAssumption == IsFiniteSet(Calls)

VARIABLES
    user,      \* [Users -> Row]
    mailbox,   \* reset tokens that reached their user
    request,   \* [Calls -> Request], what a request has read and will write
    calls,     \* requests so far
    failures,  \* history: [Users -> Nat], failed logins written down
    resets,    \* history: [Tokens -> Nat], passwords written with a token
    overlapped \* history: two requests were ever open together

historyVars == <<failures, resets, overlapped>>
accountVars == <<user, mailbox, request, calls, historyVars>>

(* Passwords are known by who chose them, and how often he had.                *)
Password == [by : Users, nth : {"first", "later"}]
NoPassword == [by |-> "nobody", nth |-> "first"]
Tokens == Users \X (1..MaxTokens)
NoToken == <<"nobody", 0>>
Row == [state : {"none", "live", "deleted"}, provider : {"LOCAL", "GOOGLE"},
        password : Password \cup {NoPassword}, linked : BOOLEAN, verified : BOOLEAN,
        resetToken : 0..MaxTokens, resetValid : BOOLEAN, issued : 0..MaxTokens,
        attempts : Nat, locked : BOOLEAN]
Request == [pc : {"idle", "loginOk", "loginFailed", "countFailure", "reset", "change"},
            user : Users \cup {"nobody"}, token : Tokens \cup {NoToken},
            password : Password \cup {NoPassword}, attempts : Nat]
IdleRequest == [pc |-> "idle", user |-> "nobody", token |-> NoToken, password |-> NoPassword,
                attempts |-> 0]
NoRow == [state |-> "none", provider |-> "LOCAL", password |-> NoPassword, linked |-> FALSE,
          verified |-> FALSE, resetToken |-> 0, resetValid |-> FALSE, issued |-> 0,
          attempts |-> 0, locked |-> FALSE]

AccountInit ==
    /\ user = [u \in Users |-> NoRow]
    /\ mailbox = {}
    /\ request = [c \in Calls |-> IdleRequest]
    /\ calls = 0
    /\ failures = [u \in Users |-> 0]
    /\ resets = [t \in Tokens |-> 0]
    /\ overlapped = FALSE

Live(u) == user[u].state = "live"
CountCall == calls < MaxCalls /\ calls' = calls + 1

(* A request that has read what it needs waits for its write.                  *)
Pass(c, r) ==
    /\ request[c].pc = "idle"
    /\ CountCall
    /\ request' = [request EXCEPT ![c] = r]
    /\ overlapped' = (overlapped \/ \E d \in Calls \ {c} : request[d].pc # "idle")
    /\ UNCHANGED <<user, mailbox, failures, resets>>

Done(c) == request' = [request EXCEPT ![c] = IdleRequest] /\ UNCHANGED <<mailbox, calls, overlapped>>

(* (Mutant: a login takes back one failure instead of all.)                    *)
UnlockedByOne(row) == [row EXCEPT !.attempts = @ - 1, !.locked = FALSE]
Unlocked(row) == [row EXCEPT !.attempts = 0, !.locked = FALSE]

-------------------------------------------------------------------------------
(* register, in one transaction; a deleted account is restored with the new    *)
(* password and whatever provider it had.                                      *)
Restored(row, password) == Unlocked([row EXCEPT !.state = "live", !.password = password])

Register(u, password) ==
    /\ CountCall
    /\ password.by = u
    /\ \/ /\ user[u].state = "none"
          /\ user' = [user EXCEPT ![u] = [NoRow EXCEPT !.state = "live", !.password = password]]
       \/ /\ user[u].state = "deleted"
          /\ user' = [user EXCEPT ![u] = Restored(@, password)]
    /\ UNCHANGED <<mailbox, request, historyVars>>

(* What a provider tells of a user.  Google's code comes with his address; the *)
(* token of another provider may come without one.                             *)
ProfileFromCode(u) == [id |-> u, email |-> u]
Profiles(u) == {ProfileFromCode(u), [id |-> u, email |-> "nobody"]}

(* loginWithOAuth, in one transaction: the linked row, else the live row with  *)
(* that address, which is linked, else a new row, which a deleted one and a    *)
(* missing address refuse.                                                     *)
LoginWithOAuth(profile) ==
    LET u == profile.id IN
    /\ CountCall
    /\ \/ /\ Live(u) /\ (user[u].linked \/ profile.email = u)
          /\ user' = [user EXCEPT ![u].linked = TRUE,
                                  ![u].verified = @ \/ ~user[u].linked]
       \/ /\ user[u].state = "none" /\ profile.email = u
          /\ user' = [user EXCEPT ![u] = [NoRow EXCEPT !.state = "live", !.provider = "GOOGLE",
                                                       !.linked = TRUE, !.verified = TRUE]]
    /\ UNCHANGED <<mailbox, request, historyVars>>

DeactivateAccount(u) ==
    /\ CountCall
    /\ Live(u)
    /\ user' = [user EXCEPT ![u].state = "deleted"]
    /\ UNCHANGED <<mailbox, request, historyVars>>

-------------------------------------------------------------------------------
(* login reads the row, compares, and resets or raises the counters.           *)
Login(c, u, password) ==
    /\ Live(u) /\ user[u].provider = "LOCAL" /\ ~user[u].locked
    /\ Pass(c, [IdleRequest EXCEPT
                  !.user = u,
                  !.pc = IF password = user[u].password THEN "loginOk" ELSE "loginFailed"])

CommitLogin(c) ==
    LET u == request[c].user IN
    /\ request[c].pc = "loginOk"
    /\ user' = [user EXCEPT ![u] = Unlocked(@)]
    /\ Done(c)
    /\ UNCHANGED <<failures, resets>>

(* handleFailedLogin reads the counter again, then writes it and the lock back: *)
(* below the limit that lifts a lock another request has just set.             *)
ReadAttempts(c) ==
    /\ request[c].pc = "loginFailed"
    /\ request' = [request EXCEPT ![c].pc = "countFailure",
                                  ![c].attempts = user[request[c].user].attempts + 1]
    /\ UNCHANGED <<user, mailbox, calls, historyVars>>

(* (Mutant: off by one.)                                                       *)
LocksEarly(attempts) == attempts >= MaxAttempts - 1
Locks(attempts) == attempts >= MaxAttempts

HandleFailedLogin(c) ==
    LET r == request[c] IN
    /\ r.pc = "countFailure"
    /\ user' = [user EXCEPT ![r.user].attempts = r.attempts,
                            ![r.user].locked = Locks(r.attempts)]
    /\ failures' = [failures EXCEPT ![r.user] = @ + 1]
    /\ Done(c)
    /\ UNCHANGED resets

(* lockedUntil passes; the counter stays.                                      *)
LockEnds(u) ==
    /\ user[u].locked
    /\ user' = [user EXCEPT ![u].locked = FALSE]
    /\ UNCHANGED <<mailbox, request, calls, historyVars>>

-------------------------------------------------------------------------------
(* forgotPassword: a new token replaces the old one; its mail may get lost.    *)
ForgotPassword(u) ==
    LET n == user[u].issued + 1 IN
    /\ CountCall
    /\ Live(u) /\ user[u].provider = "LOCAL" /\ n <= MaxTokens
    /\ user' = [user EXCEPT ![u].resetToken = n, ![u].resetValid = TRUE, ![u].issued = n]
    /\ mailbox' \in {mailbox, mailbox \cup {<<u, n>>}}
    /\ UNCHANGED <<request, historyVars>>

(* An hour passes.                                                             *)
ResetExpires(u) ==
    /\ user[u].resetToken # 0 /\ user[u].resetValid
    /\ user' = [user EXCEPT ![u].resetValid = FALSE]
    /\ UNCHANGED <<mailbox, request, calls, historyVars>>

(* The stored hash is that of the token.  (Mutant: any pending reset will do.) *)
MatchesAny(u, token) == TRUE
Matches(u, token) == token = <<u, user[u].resetToken>>

(* resetPassword takes the first user with any pending reset and compares the  *)
(* token with his: which one comes first is the database's choice, and with a  *)
(* second pending user a valid token can be refused.                           *)
ResetPassword(c, token, password) ==
    /\ token \in mailbox /\ password.by = token[1]
    /\ \E u \in Users :
          /\ Live(u) /\ user[u].resetToken # 0 /\ user[u].resetValid
          /\ Matches(u, token)
          /\ Pass(c, [IdleRequest EXCEPT !.pc = "reset", !.user = u, !.token = token,
                                         !.password = password])

(* (Mutant: the token is not cleared.)                                         *)
CommitResetKeepsToken(c) ==
    LET r == request[c] IN
    /\ r.pc = "reset"
    /\ user' = [user EXCEPT ![r.user] = Unlocked([@ EXCEPT !.password = r.password])]
    /\ resets' = [resets EXCEPT ![r.token] = @ + 1]
    /\ Done(c)
    /\ UNCHANGED failures

CommitReset(c) ==
    LET r == request[c] IN
    /\ r.pc = "reset"
    /\ user' = [user EXCEPT ![r.user] = Unlocked([@ EXCEPT !.password = r.password,
                                                  !.resetToken = 0, !.resetValid = FALSE])]
    /\ resets' = [resets EXCEPT ![r.token] = @ + 1]
    /\ Done(c)
    /\ UNCHANGED failures

(* changePassword: the current password is compared, then the new one written; *)
(* a pending reset token stays valid.                                          *)
ChangePassword(c, u, password) ==
    /\ Live(u) /\ user[u].password # NoPassword /\ password.by = u
    /\ Pass(c, [IdleRequest EXCEPT !.pc = "change", !.user = u, !.password = password])

CommitChange(c) ==
    LET r == request[c] IN
    /\ r.pc = "change"
    /\ user' = [user EXCEPT ![r.user].password = r.password]
    /\ Done(c)
    /\ UNCHANGED <<failures, resets>>

-------------------------------------------------------------------------------
(* The requests of the two controllers, and what a request waits for.          *)
AuthRequest ==
    \/ \E u \in Users : \/ ForgotPassword(u)
                        \/ \E profile \in Profiles(u) : LoginWithOAuth(profile)
                        \/ \E p \in Password : Register(u, p) \/ \E c \in Calls : Login(c, u, p)
    \/ \E c \in Calls, t \in Tokens, p \in Password : ResetPassword(c, t, p)

UserRequest ==
    \E u \in Users : \/ DeactivateAccount(u)
                    \/ \E c \in Calls, p \in Password : ChangePassword(c, u, p)

Commit(c) ==
    CommitLogin(c) \/ ReadAttempts(c) \/ HandleFailedLogin(c) \/ CommitReset(c) \/ CommitChange(c)

AccountNext ==
    \/ AuthRequest \/ UserRequest
    \/ \E u \in Users : LockEnds(u) \/ ResetExpires(u)
    \/ \E c \in Calls : Commit(c)

AccountSpec == AccountInit /\ [][AccountNext]_accountVars

-------------------------------------------------------------------------------
(* Properties.                                                                 *)

AccountTypeOK ==
    /\ user \in [Users -> Row]
    /\ mailbox \in SUBSET Tokens
    /\ request \in [Calls -> Request]
    /\ calls \in 0..MaxCalls
    /\ failures \in [Users -> Nat]
    /\ resets \in [Tokens -> Nat]
    /\ overlapped \in BOOLEAN

(* Whatever counts are lost or written late by concurrent logins, an account   *)
(* is locked only after MAX_LOGIN_ATTEMPTS failed logins (handleFailedLogin).  *)
LockNeedsFailures == \A u \in Users : user[u].locked => failures[u] >= MaxAttempts

(* A password is always one its own user chose: a reset that is matched with   *)
(* the first pending user writes to no other user (resetPassword), also when   *)
(* it overlaps a change, a deletion or a restored registration.                *)
PasswordIsOwn == \A u \in Users : user[u].password # NoPassword => user[u].password.by = u

(* A reset token writes one password; overlapping requests with the same token *)
(* may each write once, as the token is cleared by id and not tested again.    *)
TokenUsedOnce ==
    \A t \in Tokens : resets[t] <= (IF overlapped THEN Cardinality(Calls) ELSE 1)

===============================================================================
