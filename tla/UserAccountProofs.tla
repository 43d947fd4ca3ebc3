--------------------------- MODULE UserAccountProofs ---------------------------
(* Proofs about UserAccount, for every set of users, every finite set of       *)
(* overlapping requests and every value of the limits.                         *)
EXTENDS UserAccount, TLAPS, FiniteSetTheorems

-------------------------------------------------------------------------------
(* The inductive invariant.                                                    *)

(* What a request in flight carries to its write.  A failure that is still to  *)
(* be counted was read before others were written, so the count it will write  *)
(* is at most one more than the failures written so far.                       *)
RequestInv ==
    \A c \in Calls : request[c].pc # "idle" =>
        /\ request[c].user \in Users
        /\ request[c].pc = "countFailure" => request[c].attempts <= failures[request[c].user] + 1
        /\ request[c].pc \in {"reset", "change"} => request[c].password.by = request[c].user
        /\ request[c].pc = "reset" =>
              \E n \in 1..MaxTokens : /\ request[c].token = <<request[c].user, n>>
                                      /\ n <= user[request[c].user].issued

(* A row counts no failure that was not written.                               *)
RowInv ==
    \A u \in Users :
        /\ user[u].attempts <= failures[u]
        /\ user[u].resetToken <= user[u].issued
        /\ user[u].state = "none" => user[u].issued = 0

(* Requests that still will write a password with the token.                   *)
Pending(t) == {c \in Calls : request[c].pc = "reset" /\ request[c].token = t}

(* A token that wrote a password is not the stored one any more, and will not  *)
(* be again; those who passed the test before may still write.                 *)
TokenInv ==
    \A u \in Users, n \in 1..MaxTokens :
        /\ resets[<<u, n>>] > 0 => n <= user[u].issued /\ user[u].resetToken # n
        /\ resets[<<u, n>>] + Cardinality(Pending(<<u, n>>)) <= Cardinality(Calls)
        /\ ~overlapped => resets[<<u, n>>] <= 1
        /\ ~overlapped /\ resets[<<u, n>>] > 0 => Pending(<<u, n>>) = {}

(* Until two requests overlap only one is open.                                *)
SoloInv ==
    ~overlapped => \A c, d \in Calls : request[c].pc # "idle" /\ request[d].pc # "idle" => c = d

AccountInv ==
    /\ AccountTypeOK /\ RequestInv /\ RowInv /\ TokenInv /\ SoloInv
    /\ LockNeedsFailures /\ PasswordIsOwn

-------------------------------------------------------------------------------
(* What the steps have in common.                                              *)

(* A row that may take the place of user[u], while failures'[u] are written.   *)
Fits(u, row) ==
    /\ row \in Row
    /\ row.attempts <= failures'[u]
    /\ row.locked => failures'[u] >= MaxAttempts
    /\ row.password # NoPassword => row.password.by = u
    /\ row.resetToken <= row.issued /\ user[u].issued <= row.issued
    /\ row.state = "none" => row.issued = 0
    /\ row.resetToken \in {0, user[u].resetToken} \/ row.resetToken > user[u].issued

(* Writing such a row keeps what the invariant says of rows; tokens stay       *)
(* issued, and one that was replaced does not come back.                       *)
LEMMA RowWritten ==
    ASSUME AccountInv, NEW u \in Users, NEW row, Fits(u, row),
           user' = [user EXCEPT ![u] = row],
           failures' \in [Users -> Nat], \A v \in Users : failures[v] <= failures'[v]
    PROVE  /\ user' \in [Users -> Row]
           /\ RowInv' /\ LockNeedsFailures' /\ PasswordIsOwn'
           /\ \A v \in Users : user[v].issued <= user'[v].issued
           /\ \A v \in Users, n \in 1..MaxTokens :
                 n <= user[v].issued /\ user[v].resetToken # n => user'[v].resetToken # n
<1>0. user \in [Users -> Row] /\ failures \in [Users -> Nat]
  BY DEF AccountInv, AccountTypeOK
<1>1. user' \in [Users -> Row] /\ user'[u] = row /\ \A v \in Users \ {u} : user'[v] = user[v]
  BY <1>0 DEF Fits
<1>2. ASSUME NEW v \in Users
      PROVE  /\ user'[v].attempts <= failures'[v]
             /\ user'[v].resetToken <= user'[v].issued
             /\ user'[v].state = "none" => user'[v].issued = 0
             /\ user'[v].locked => failures'[v] >= MaxAttempts
             /\ user'[v].password # NoPassword => user'[v].password.by = v
             /\ user[v].issued <= user'[v].issued
             /\ \A n \in 1..MaxTokens :
                   n <= user[v].issued /\ user[v].resetToken # n => user'[v].resetToken # n
  <2>1. CASE v = u
    BY <2>1, <1>0, <1>1, AccountAssumption DEF Fits, Row
  <2>2. CASE v # u
    <3>1. user'[v] = user[v] /\ user[v] \in Row /\ failures[v] \in Nat /\ failures'[v] \in Nat
      BY <2>2, <1>0, <1>1
    <3> QED BY <3>1, AccountAssumption
            DEF AccountInv, RowInv, LockNeedsFailures, PasswordIsOwn, Row
  <2> QED BY <2>1, <2>2
<1> QED BY <1>1, <1>2 DEF RowInv, LockNeedsFailures, PasswordIsOwn

(* No request opens, and failures and issued tokens only grow: requests keep   *)
(* what the invariant says of them.                                            *)
LEMMA RequestsKept ==
    ASSUME AccountInv, user' \in [Users -> Row], failures' \in [Users -> Nat],
           \A v \in Users : failures[v] <= failures'[v] /\ user[v].issued <= user'[v].issued,
           request' = request \/ \E c \in Calls : request' = [request EXCEPT ![c] = IdleRequest],
           overlapped' = overlapped
    PROVE  /\ request' \in [Calls -> Request]
           /\ RequestInv' /\ SoloInv'
           /\ \A t \in Tokens : Pending(t)' \subseteq Pending(t)
<1>0. /\ user \in [Users -> Row] /\ failures \in [Users -> Nat] /\ request \in [Calls -> Request]
      /\ RequestInv /\ SoloInv
  BY DEF AccountInv, AccountTypeOK
<1>1. IdleRequest \in Request
  BY DEF IdleRequest, Request, NoToken, NoPassword
<1>2. request' \in [Calls -> Request]
  BY <1>0, <1>1
<1>3. \A c \in Calls : request'[c].pc # "idle" => request'[c] = request[c]
  BY <1>0 DEF IdleRequest
<1>4. RequestInv'
  <2> SUFFICES ASSUME NEW c \in Calls, request'[c].pc # "idle"
               PROVE  /\ request'[c].user \in Users
                      /\ request'[c].pc = "countFailure" =>
                            request'[c].attempts <= failures'[request'[c].user] + 1
                      /\ request'[c].pc \in {"reset", "change"} =>
                            request'[c].password.by = request'[c].user
                      /\ request'[c].pc = "reset" =>
                            \E n \in 1..MaxTokens : /\ request'[c].token = <<request'[c].user, n>>
                                                    /\ n <= user'[request'[c].user].issued
    BY DEF RequestInv
  <2>1. request'[c] = request[c] /\ request[c].pc # "idle" /\ request[c].user \in Users
    BY <1>0, <1>3 DEF RequestInv
  <2> DEFINE u == request[c].user
  <2>2. /\ failures[u] \in Nat /\ failures'[u] \in Nat /\ failures[u] <= failures'[u]
        /\ user[u].issued \in Int /\ user'[u].issued \in Int /\ user[u].issued <= user'[u].issued
        /\ request[c].attempts \in Nat
    BY <2>1, <1>0, AccountAssumption DEF Row, Request
  <2> QED BY <2>1, <2>2, <1>0, AccountAssumption DEF RequestInv
<1>5. SoloInv'
  BY <1>0, <1>3 DEF SoloInv
<1>6. \A t \in Tokens : Pending(t)' \subseteq Pending(t)
  BY <1>3 DEF Pending
<1> QED BY <1>2, <1>4, <1>5, <1>6

(* Without a new writer and without a write, tokens keep what the invariant    *)
(* says of them.                                                               *)
LEMMA TokensKept ==
    ASSUME AccountInv, user' \in [Users -> Row], resets' = resets, overlapped' = overlapped,
           \A t \in Tokens : Pending(t)' \subseteq Pending(t),
           \A v \in Users : user[v].issued <= user'[v].issued,
           \A v \in Users, n \in 1..MaxTokens :
              n <= user[v].issued /\ user[v].resetToken # n => user'[v].resetToken # n
    PROVE  TokenInv'
<1> SUFFICES ASSUME NEW u \in Users, NEW n \in 1..MaxTokens
             PROVE  /\ resets'[<<u, n>>] > 0 => n <= user'[u].issued /\ user'[u].resetToken # n
                    /\ resets'[<<u, n>>] + Cardinality(Pending(<<u, n>>)') <= Cardinality(Calls)
                    /\ ~overlapped' => resets'[<<u, n>>] <= 1
                    /\ ~overlapped' /\ resets'[<<u, n>>] > 0 => Pending(<<u, n>>)' = {}
  BY DEF TokenInv
<1> DEFINE t == <<u, n>>
<1>0. /\ t \in Tokens /\ resets[t] \in Nat
      /\ user[u].issued \in Int /\ user'[u].issued \in Int
  BY AccountAssumption DEF AccountInv, AccountTypeOK, Tokens, Row
<1>1. Pending(t)' \subseteq Pending(t)
  BY <1>0
<1>2. /\ resets[t] > 0 => n <= user[u].issued /\ user[u].resetToken # n
      /\ resets[t] + Cardinality(Pending(t)) <= Cardinality(Calls)
      /\ ~overlapped => resets[t] <= 1
      /\ ~overlapped /\ resets[t] > 0 => Pending(t) = {}
  BY DEF AccountInv, TokenInv
<1>3. /\ IsFiniteSet(Pending(t)) /\ Cardinality(Pending(t)) \in Nat /\ Cardinality(Calls) \in Nat
      /\ Cardinality(Pending(t)') \in Nat /\ Cardinality(Pending(t)') <= Cardinality(Pending(t))
  <2>1. Pending(t) \in SUBSET Calls
    BY DEF Pending
  <2>2. IsFiniteSet(Pending(t))
    BY <2>1, CallsAssumption, FS_Subset
  <2> QED BY <2>2, <1>1, CallsAssumption, FS_Subset, FS_CardinalityType
<1> HIDE DEF t
<1>4. resets[t] + Cardinality(Pending(t)') <= Cardinality(Calls)
  BY <1>0, <1>2, <1>3
<1>5. ~overlapped /\ resets[t] > 0 => Pending(t)' = {}
  BY <1>1, <1>2
<1>6. resets[t] > 0 => n <= user'[u].issued /\ user'[u].resetToken # n
  BY <1>0, <1>2
<1> QED BY <1>2, <1>4, <1>5, <1>6 DEF t

(* A step that writes a row and opens no request keeps the invariant.          *)
LEMMA RowStep ==
    ASSUME AccountInv, NEW u \in Users, NEW row, Fits(u, row),
           user' = [user EXCEPT ![u] = row], mailbox' \in SUBSET Tokens,
           UNCHANGED <<request, historyVars>>, calls' \in 0..MaxCalls
    PROVE  AccountInv'
<1>0. failures' \in [Users -> Nat] /\ \A v \in Users : failures[v] <= failures'[v]
  BY DEF AccountInv, AccountTypeOK, historyVars
<1>1. /\ user' \in [Users -> Row] /\ RowInv' /\ LockNeedsFailures' /\ PasswordIsOwn'
      /\ \A v \in Users : user[v].issued <= user'[v].issued
      /\ \A v \in Users, n \in 1..MaxTokens :
            n <= user[v].issued /\ user[v].resetToken # n => user'[v].resetToken # n
  BY <1>0, RowWritten
<1>2. /\ request' \in [Calls -> Request] /\ RequestInv' /\ SoloInv'
      /\ \A t \in Tokens : Pending(t)' \subseteq Pending(t)
  BY <1>0, <1>1, RequestsKept DEF historyVars
<1>3. TokenInv'
  BY <1>1, <1>2, TokensKept DEF historyVars
<1> QED BY <1>0, <1>1, <1>2, <1>3 DEF AccountInv, AccountTypeOK, historyVars

(* A request that commits without a token: a row, the end of the request, and  *)
(* perhaps one more failure.                                                   *)
LEMMA CommitStep ==
    ASSUME AccountInv, NEW c \in Calls, NEW u \in Users, NEW row, Fits(u, row),
           user' = [user EXCEPT ![u] = row], Done(c), UNCHANGED resets,
           failures' \in [Users -> Nat], \A v \in Users : failures[v] <= failures'[v]
    PROVE  AccountInv'
<1>1. /\ user' \in [Users -> Row] /\ RowInv' /\ LockNeedsFailures' /\ PasswordIsOwn'
      /\ \A v \in Users : user[v].issued <= user'[v].issued
      /\ \A v \in Users, n \in 1..MaxTokens :
            n <= user[v].issued /\ user[v].resetToken # n => user'[v].resetToken # n
  BY RowWritten
<1>2. /\ request' \in [Calls -> Request] /\ RequestInv' /\ SoloInv'
      /\ \A t \in Tokens : Pending(t)' \subseteq Pending(t)
  BY <1>1, RequestsKept DEF Done
<1>3. TokenInv'
  BY <1>1, <1>2, TokensKept DEF Done
<1> QED BY <1>1, <1>2, <1>3 DEF AccountInv, AccountTypeOK, Done

(* A set of requests is finite and no larger than that of all.                 *)
LEMMA PendingBounded ==
    \A t : /\ IsFiniteSet(Pending(t)) /\ Cardinality(Pending(t)) \in Nat
           /\ Cardinality(Pending(t)) <= Cardinality(Calls) /\ Cardinality(Calls) \in Nat
<1> SUFFICES ASSUME NEW t
             PROVE  /\ IsFiniteSet(Pending(t)) /\ Cardinality(Pending(t)) \in Nat
                    /\ Cardinality(Pending(t)) <= Cardinality(Calls) /\ Cardinality(Calls) \in Nat
  OBVIOUS
<1>1. Pending(t) \in SUBSET Calls
  BY DEF Pending
<1> QED BY <1>1, CallsAssumption, FS_Subset, FS_CardinalityType

(* A request that passes its tests keeps the invariant if what it carries is   *)
(* as RequestInv says, and its token, if it has one, is the stored one.        *)
LEMMA PassStep ==
    ASSUME AccountInv, NEW c \in Calls, NEW r \in Request, Pass(c, r), r.user \in Users,
           r.pc \in {"loginOk", "loginFailed", "reset", "change"},
           r.pc \in {"reset", "change"} => r.password.by = r.user,
           r.pc = "reset" => r.token = <<r.user, user[r.user].resetToken>> /\ r.token \in Tokens
    PROVE  AccountInv'
<1>0. /\ user \in [Users -> Row] /\ failures \in [Users -> Nat] /\ request \in [Calls -> Request]
      /\ resets \in [Tokens -> Nat] /\ overlapped \in BOOLEAN /\ calls \in 0..MaxCalls
      /\ RequestInv /\ RowInv /\ TokenInv /\ SoloInv
      /\ UNCHANGED <<user, mailbox, failures, resets>>
      /\ request' = [request EXCEPT ![c] = r] /\ request[c].pc = "idle"
      /\ overlapped' = (overlapped \/ \E d \in Calls \ {c} : request[d].pc # "idle")
      /\ calls' = calls + 1 /\ calls < MaxCalls
  BY DEF AccountInv, AccountTypeOK, Pass, CountCall
<1>1. AccountTypeOK'
  <2>1. request' \in [Calls -> Request] /\ overlapped' \in BOOLEAN
    BY <1>0
  <2>2. calls' \in 0..MaxCalls
    BY <1>0, AccountAssumption
  <2> QED BY <1>0, <2>1, <2>2 DEF AccountInv, AccountTypeOK
<1>2. RequestInv'
  <2> SUFFICES ASSUME NEW d \in Calls, request'[d].pc # "idle"
               PROVE  /\ request'[d].user \in Users
                      /\ request'[d].pc = "countFailure" =>
                            request'[d].attempts <= failures[request'[d].user] + 1
                      /\ request'[d].pc \in {"reset", "change"} =>
                            request'[d].password.by = request'[d].user
                      /\ request'[d].pc = "reset" =>
                            \E n \in 1..MaxTokens : /\ request'[d].token = <<request'[d].user, n>>
                                                    /\ n <= user[request'[d].user].issued
    BY <1>0 DEF RequestInv
  <2>1. CASE d = c
    <3>1. request'[d] = r
      BY <2>1, <1>0
    <3>2. r.pc = "reset" => \E n \in 1..MaxTokens : r.token = <<r.user, n>> /\ n <= user[r.user].issued
      <4> SUFFICES ASSUME r.pc = "reset"
                   PROVE  user[r.user].resetToken \in 1..MaxTokens
        BY <1>0 DEF RowInv
      <4> QED BY DEF Tokens
    <3> QED BY <3>1, <3>2
  <2>2. CASE d # c
    BY <2>2, <1>0 DEF RequestInv
  <2> QED BY <2>1, <2>2
<1>3. SoloInv'
  BY <1>0 DEF SoloInv
<1>4. TokenInv'
  <2> SUFFICES ASSUME NEW u \in Users, NEW n \in 1..MaxTokens
               PROVE  /\ resets[<<u, n>>] > 0 => n <= user[u].issued /\ user[u].resetToken # n
                      /\ resets[<<u, n>>] + Cardinality(Pending(<<u, n>>)') <= Cardinality(Calls)
                      /\ ~overlapped' => resets[<<u, n>>] <= 1
                      /\ ~overlapped' /\ resets[<<u, n>>] > 0 => Pending(<<u, n>>)' = {}
    BY <1>0 DEF TokenInv, Pending
  <2> DEFINE t == <<u, n>>
  <2>0. /\ resets[t] \in Nat
        /\ resets[t] > 0 => n <= user[u].issued /\ user[u].resetToken # n
        /\ resets[t] + Cardinality(Pending(t)) <= Cardinality(Calls)
        /\ ~overlapped => resets[t] <= 1
        /\ ~overlapped /\ resets[t] > 0 => Pending(t) = {}
    BY <1>0 DEF TokenInv, Tokens
  <2>1. ~overlapped' => ~overlapped
    BY <1>0
  <2>2. CASE r.pc = "reset" /\ r.token = t
    <3>1. user[u].resetToken = n
      BY <2>2
    <3>2. resets[t] = 0
      BY <2>0, <3>1
    <3>3. Cardinality(Pending(t)') \in Nat /\ Cardinality(Pending(t)') <= Cardinality(Calls)
      <4>1. Pending(t)' \in SUBSET Calls
        BY DEF Pending
      <4> QED BY <4>1, CallsAssumption, FS_Subset, FS_CardinalityType
    <3> QED BY <3>2, <3>3
  <2>3. CASE ~(r.pc = "reset" /\ r.token = t)
    <3>1. Pending(t)' = Pending(t)
      BY <2>3, <1>0 DEF Pending
    <3> QED BY <3>1, <2>0, <2>1
  <2> QED BY <2>2, <2>3
<1>5. LockNeedsFailures' /\ PasswordIsOwn' /\ RowInv'
  BY <1>0 DEF AccountInv, LockNeedsFailures, PasswordIsOwn, RowInv
<1> QED BY <1>1, <1>2, <1>3, <1>4, <1>5 DEF AccountInv

-------------------------------------------------------------------------------
(* The steps.                                                                  *)

(* Of a row its own type and counts are known.                                 *)
LEMMA RowFacts ==
    ASSUME AccountInv, NEW u \in Users
    PROVE  /\ user \in [Users -> Row] /\ user[u] \in Row /\ failures[u] \in Nat
           /\ user[u].attempts <= failures[u] /\ user[u].attempts \in Nat
           /\ user[u].locked => failures[u] >= MaxAttempts
           /\ user[u].password # NoPassword => user[u].password.by = u
           /\ user[u].resetToken <= user[u].issued
           /\ user[u].resetToken \in Nat /\ user[u].issued \in Nat
           /\ user[u].state = "none" => user[u].issued = 0
BY AccountAssumption
   DEF AccountInv, AccountTypeOK, RowInv, LockNeedsFailures, PasswordIsOwn, Row

(* The row of nobody is a row, and so are those made from one by its columns.  *)
LEMMA RowTypes ==
    /\ MaxTokens \in Nat /\ MaxCalls \in Nat
    /\ NoRow \in Row
    /\ \A row \in Row : row.issued \in Nat
    /\ \A row \in Row, n \in 0..MaxTokens :
          [row EXCEPT !.resetToken = n, !.resetValid = TRUE, !.issued = n] \in Row
<1>1. MaxTokens \in Nat /\ MaxCalls \in Nat
  BY AccountAssumption
<1>2. 0 \in 0..MaxTokens
  BY <1>1
<1>3. NoRow \in Row
  BY <1>2 DEF NoRow, Row
<1>4. \A row \in Row, n \in 0..MaxTokens :
         [row EXCEPT !.resetToken = n, !.resetValid = TRUE, !.issued = n] \in Row
  BY DEF Row
<1>5. \A row \in Row : row.issued \in Nat
  BY <1>1 DEF Row
<1> QED BY <1>1, <1>3, <1>4, <1>5

(* The rows that requests write when they commit.                              *)
LEMMA CommittedRows ==
    ASSUME NEW row \in Row
    PROVE  /\ Unlocked(row) \in Row /\ Unlocked(row).attempts = 0 /\ ~Unlocked(row).locked
           /\ Unlocked(row).password = row.password /\ Unlocked(row).state = row.state
           /\ Unlocked(row).resetToken = row.resetToken /\ Unlocked(row).issued = row.issued
           /\ \A a \in Nat, b \in BOOLEAN : [row EXCEPT !.attempts = a, !.locked = b] \in Row
           /\ \A p \in Password \cup {NoPassword} :
                 /\ [row EXCEPT !.password = p] \in Row
                 /\ [row EXCEPT !.password = p, !.resetToken = 0, !.resetValid = FALSE] \in Row
<1>1. 0 \in 0..MaxTokens
  BY RowTypes DEF NoRow, Row
<1>2. \A a \in Nat, b \in BOOLEAN : [row EXCEPT !.attempts = a, !.locked = b] \in Row
  BY DEF Row
<1>3. \A p \in Password \cup {NoPassword} :
         /\ [row EXCEPT !.password = p] \in Row
         /\ [row EXCEPT !.password = p, !.resetToken = 0, !.resetValid = FALSE] \in Row
  BY <1>1 DEF Row
<1>4. /\ Unlocked(row).attempts = 0 /\ ~Unlocked(row).locked
      /\ Unlocked(row).password = row.password /\ Unlocked(row).state = row.state
      /\ Unlocked(row).resetToken = row.resetToken /\ Unlocked(row).issued = row.issued
  BY DEF Unlocked, Row
<1>5. Unlocked(row) \in Row
  BY <1>2 DEF Unlocked
<1> QED BY <1>2, <1>3, <1>4, <1>5

(* Requests that write a row at once.                                          *)
LEMMA RegisterKeeps ==
    ASSUME AccountInv, NEW u \in Users, NEW password \in Password, Register(u, password)
    PROVE  AccountInv'
<1>0. /\ UNCHANGED <<mailbox, request, historyVars>> /\ mailbox' \in SUBSET Tokens
      /\ calls' \in 0..MaxCalls /\ failures' = failures /\ password.by = u
  BY AccountAssumption DEF Register, AccountInv, AccountTypeOK, CountCall, historyVars
<1>1. CASE /\ user[u].state = "none"
           /\ user' = [user EXCEPT ![u] = [NoRow EXCEPT !.state = "live", !.password = password]]
  <2> DEFINE row == [NoRow EXCEPT !.state = "live", !.password = password]
  <2>1. row \in Row
    BY RowTypes DEF Row
  <2>2. Fits(u, row)
    BY <2>1, <1>0, <1>1, RowFacts DEF Fits, NoRow
  <2> QED BY <2>2, <1>0, <1>1, RowStep
<1>2. CASE /\ user[u].state = "deleted"
           /\ user' = [user EXCEPT ![u] = Restored(@, password)]
  <2>1. user' = [user EXCEPT ![u] = Restored(user[u], password)]
    BY <1>2
  <2>2. Restored(user[u], password) \in Row
    BY RowFacts, AccountAssumption DEF Restored, Unlocked, Row
  <2>3. Fits(u, Restored(user[u], password))
    BY <2>2, <1>0, RowFacts DEF Fits, Restored, Unlocked, Row
  <2> QED BY <2>1, <2>3, <1>0, RowStep
<1> QED BY <1>1, <1>2 DEF Register

LEMMA LoginWithOAuthKeeps ==
    ASSUME AccountInv, NEW u \in Users, NEW profile \in Profiles(u), LoginWithOAuth(profile)
    PROVE  AccountInv'
<1>0. /\ UNCHANGED <<mailbox, request, historyVars>> /\ mailbox' \in SUBSET Tokens
      /\ calls' \in 0..MaxCalls /\ failures' = failures /\ profile.id = u
  BY AccountAssumption DEF LoginWithOAuth, AccountInv, AccountTypeOK, CountCall, historyVars,
     Profiles, ProfileFromCode
<1>1. CASE user' = [user EXCEPT ![u].linked = TRUE, ![u].verified = @ \/ ~user[u].linked]
  <2> DEFINE row == [user[u] EXCEPT !.linked = TRUE, !.verified = @ \/ ~user[u].linked]
  <2>1. user' = [user EXCEPT ![u] = row]
    BY <1>1, RowFacts
  <2>2. row \in Row
    BY RowFacts DEF Row
  <2>3. Fits(u, row)
    BY <2>2, <1>0, RowFacts DEF Fits, Row
  <2> QED BY <2>1, <2>3, <1>0, RowStep
<1>2. CASE /\ user[u].state = "none"
           /\ user' = [user EXCEPT ![u] = [NoRow EXCEPT !.state = "live", !.provider = "GOOGLE",
                                                        !.linked = TRUE, !.verified = TRUE]]
  <2> DEFINE row == [NoRow EXCEPT !.state = "live", !.provider = "GOOGLE",
                                  !.linked = TRUE, !.verified = TRUE]
  <2>1. row \in Row
    BY RowTypes DEF Row
  <2>2. Fits(u, row)
    BY <2>1, <1>0, <1>2, RowFacts DEF Fits, NoRow
  <2> QED BY <2>2, <1>0, <1>2, RowStep
<1> QED BY <1>0, <1>1, <1>2 DEF LoginWithOAuth

LEMMA DeactivateAccountKeeps ==
    ASSUME AccountInv, NEW u \in Users, DeactivateAccount(u)
    PROVE  AccountInv'
<1> DEFINE row == [user[u] EXCEPT !.state = "deleted"]
<1>0. /\ UNCHANGED <<mailbox, request, historyVars>> /\ mailbox' \in SUBSET Tokens
      /\ calls' \in 0..MaxCalls /\ failures' = failures
  BY AccountAssumption DEF DeactivateAccount, AccountInv, AccountTypeOK, CountCall, historyVars
<1>1. user' = [user EXCEPT ![u] = row]
  BY RowFacts DEF DeactivateAccount
<1>2. row \in Row
  BY RowFacts DEF Row
<1>3. Fits(u, row)
  BY <1>2, <1>0, RowFacts DEF Fits, Row
<1> QED BY <1>0, <1>1, <1>3, RowStep

LEMMA ForgotPasswordKeeps ==
    ASSUME AccountInv, NEW u \in Users, ForgotPassword(u)
    PROVE  AccountInv'
<1> DEFINE n == user[u].issued + 1
           row == [user[u] EXCEPT !.resetToken = n, !.resetValid = TRUE, !.issued = n]
<1>0. /\ UNCHANGED <<request, historyVars>> /\ calls' \in 0..MaxCalls /\ failures' = failures
      /\ n \in 1..MaxTokens
  BY AccountAssumption, RowFacts
     DEF ForgotPassword, AccountInv, AccountTypeOK, CountCall, historyVars
<1>1. user' = [user EXCEPT ![u] = row]
  BY RowFacts DEF ForgotPassword
<1>2. mailbox' \in SUBSET Tokens
  BY <1>0 DEF ForgotPassword, AccountInv, AccountTypeOK, Tokens
<1>3. row \in Row
  <2>1. n \in 0..MaxTokens
    BY <1>0
  <2> QED BY <2>1, RowFacts, RowTypes
<1>4. /\ row.resetToken = n /\ row.issued = n /\ row.state = user[u].state
      /\ row.attempts = user[u].attempts /\ row.locked = user[u].locked
      /\ row.password = user[u].password /\ n > user[u].issued /\ user[u].state = "live"
  BY RowFacts DEF Row, ForgotPassword, Live
<1> HIDE DEF n, row
<1>5. Fits(u, row)
  BY <1>0, <1>3, <1>4, RowFacts DEF Fits
<1> QED BY <1>0, <1>1, <1>2, <1>5, RowStep

(* Time passes.                                                                *)
LEMMA TimeKeeps ==
    ASSUME AccountInv, NEW u \in Users, LockEnds(u) \/ ResetExpires(u)
    PROVE  AccountInv'
<1>0. /\ UNCHANGED <<request, historyVars>> /\ mailbox' \in SUBSET Tokens
      /\ calls' \in 0..MaxCalls /\ failures' = failures
  BY DEF LockEnds, ResetExpires, AccountInv, AccountTypeOK, historyVars
<1>1. ASSUME NEW row \in {[user[u] EXCEPT !.locked = FALSE], [user[u] EXCEPT !.resetValid = FALSE]},
             user' = [user EXCEPT ![u] = row]
      PROVE  AccountInv'
  <2>1. row \in Row
    BY RowFacts DEF Row
  <2>2. Fits(u, row)
    BY <2>1, <1>0, RowFacts DEF Fits, Row
  <2> QED BY <1>0, <1>1, <2>2, RowStep
<1> QED BY <1>1, RowFacts DEF LockEnds, ResetExpires

(* Requests that read and compare.                                             *)
LEMMA LoginKeeps ==
    ASSUME AccountInv, NEW c \in Calls, NEW u \in Users, NEW password \in Password,
           Login(c, u, password)
    PROVE  AccountInv'
<1> DEFINE r == [IdleRequest EXCEPT
                   !.user = u,
                   !.pc = IF password = user[u].password THEN "loginOk" ELSE "loginFailed"]
<1>1. r \in Request /\ r.user = u /\ r.pc \in {"loginOk", "loginFailed"}
  BY DEF IdleRequest, Request, NoToken, NoPassword
<1>2. Pass(c, r)
  BY DEF Login
<1> HIDE DEF r
<1> QED BY <1>1, <1>2, PassStep

LEMMA ResetPasswordKeeps ==
    ASSUME AccountInv, NEW c \in Calls, NEW token \in Tokens, NEW password \in Password,
           ResetPassword(c, token, password)
    PROVE  AccountInv'
<1>1. PICK u \in Users :
         /\ Matches(u, token)
         /\ Pass(c, [IdleRequest EXCEPT !.pc = "reset", !.user = u, !.token = token,
                                        !.password = password])
  BY DEF ResetPassword
<1> DEFINE r == [IdleRequest EXCEPT !.pc = "reset", !.user = u, !.token = token,
                                    !.password = password]
<1>2. /\ r \in Request /\ r.user = u /\ r.pc = "reset" /\ r.password = password
      /\ r.token = token
  BY DEF IdleRequest, Request, NoToken, NoPassword
<1>3. token = <<u, user[u].resetToken>> /\ password.by = u
  BY <1>1 DEF Matches, ResetPassword
<1>4. Pass(c, r)
  BY <1>1
<1> HIDE DEF r
<1> QED BY <1>2, <1>3, <1>4, PassStep

LEMMA ChangePasswordKeeps ==
    ASSUME AccountInv, NEW c \in Calls, NEW u \in Users, NEW password \in Password,
           ChangePassword(c, u, password)
    PROVE  AccountInv'
<1> DEFINE r == [IdleRequest EXCEPT !.pc = "change", !.user = u, !.password = password]
<1>1. r \in Request /\ r.user = u /\ r.pc = "change" /\ r.password.by = u
  BY DEF IdleRequest, Request, NoToken, NoPassword, ChangePassword
<1>2. Pass(c, r)
  BY DEF ChangePassword
<1> HIDE DEF r
<1> QED BY <1>1, <1>2, PassStep

(* The writes requests wait for.                                               *)
LEMMA CommitFacts ==
    ASSUME AccountInv, NEW c \in Calls, request[c].pc # "idle"
    PROVE  /\ request \in [Calls -> Request] /\ request[c] \in Request
           /\ request[c].user \in Users
           /\ request[c].attempts \in Nat
           /\ request[c].pc = "countFailure" => request[c].attempts <= failures[request[c].user] + 1
           /\ request[c].pc \in {"reset", "change"} =>
                 request[c].password.by = request[c].user
           /\ request[c].pc = "reset" =>
                 \E n \in 1..MaxTokens : /\ request[c].token = <<request[c].user, n>>
                                         /\ n <= user[request[c].user].issued
BY DEF AccountInv, AccountTypeOK, RequestInv, Request

LEMMA CommitLoginKeeps ==
    ASSUME AccountInv, NEW c \in Calls, CommitLogin(c)
    PROVE  AccountInv'
<1> DEFINE u == request[c].user
<1>0. u \in Users
  BY CommitFacts DEF CommitLogin
<1> HIDE DEF u
<1>1. user' = [user EXCEPT ![u] = Unlocked(user[u])] /\ Done(c) /\ UNCHANGED <<failures, resets>>
  BY DEF CommitLogin, u
<1>2. failures' \in [Users -> Nat] /\ \A v \in Users : failures[v] <= failures'[v]
  BY <1>1 DEF AccountInv, AccountTypeOK
<1>3. Fits(u, Unlocked(user[u]))
  <2>1. failures' = failures /\ user[u] \in Row
    BY <1>0, <1>1, RowFacts
  <2> DEFINE row == Unlocked(user[u])
  <2>2. /\ row \in Row /\ row.attempts = 0 /\ ~row.locked
        /\ row.password = user[u].password /\ row.state = user[u].state
        /\ row.resetToken = user[u].resetToken /\ row.issued = user[u].issued
    BY <2>1, CommittedRows
  <2> HIDE DEF row
  <2>3. Fits(u, row)
    BY <1>0, <2>1, <2>2, RowFacts DEF Fits
  <2> QED BY <2>3 DEF row
<1> QED BY <1>0, <1>1, <1>2, <1>3, CommitStep

LEMMA ReadAttemptsKeeps ==
    ASSUME AccountInv, NEW c \in Calls, ReadAttempts(c)
    PROVE  AccountInv'
<1> DEFINE u == request[c].user
           r == [request[c] EXCEPT !.pc = "countFailure", !.attempts = user[u].attempts + 1]
<1>0. /\ u \in Users /\ request \in [Calls -> Request] /\ request[c] \in Request
      /\ request[c].pc = "loginFailed"
      /\ UNCHANGED <<user, mailbox, calls, historyVars>>
  BY CommitFacts DEF ReadAttempts
<1>1. request' = [request EXCEPT ![c] = r]
  BY <1>0 DEF ReadAttempts
<1>2. r \in Request /\ r.user = u /\ r.pc = "countFailure" /\ r.attempts <= failures[u] + 1
  <2>1. user[u].attempts + 1 \in Nat /\ user[u].attempts + 1 <= failures[u] + 1
    BY <1>0, RowFacts
  <2> HIDE DEF u
  <2>2. [request[c] EXCEPT !.pc = "countFailure", !.attempts = user[u].attempts + 1] \in Request
    BY <1>0, <2>1 DEF Request
  <2> QED BY <1>0, <2>1, <2>2 DEF Request, u
<1> HIDE DEF r
<1>3. request' \in [Calls -> Request]
  BY <1>0, <1>1, <1>2
<1>4. RequestInv'
  BY <1>0, <1>1, <1>2, <1>3 DEF AccountInv, RequestInv, historyVars
<1>5. SoloInv'
  BY <1>0, <1>1 DEF AccountInv, SoloInv, historyVars
<1>6. \A t : Pending(t)' = Pending(t)
  BY <1>0, <1>1, <1>2 DEF Pending
<1>7. TokenInv'
  BY <1>0, <1>6 DEF AccountInv, TokenInv, historyVars
<1>8. AccountTypeOK' /\ RowInv' /\ LockNeedsFailures' /\ PasswordIsOwn'
  BY <1>0, <1>3 DEF AccountInv, AccountTypeOK, RowInv, LockNeedsFailures, PasswordIsOwn, historyVars
<1> QED BY <1>4, <1>5, <1>7, <1>8 DEF AccountInv

LEMMA HandleFailedLoginKeeps ==
    ASSUME AccountInv, NEW c \in Calls, HandleFailedLogin(c)
    PROVE  AccountInv'
<1> DEFINE r == request[c]
           row == [user[r.user] EXCEPT !.attempts = r.attempts, !.locked = Locks(r.attempts)]
<1>0. /\ r.user \in Users /\ r.attempts \in Nat /\ r.attempts <= failures[r.user] + 1
      /\ failures' = [failures EXCEPT ![r.user] = @ + 1] /\ Done(c) /\ UNCHANGED resets
  BY CommitFacts DEF HandleFailedLogin
<1>1. user' = [user EXCEPT ![r.user] = row]
  BY <1>0, RowFacts DEF HandleFailedLogin
<1>2. /\ failures' \in [Users -> Nat] /\ \A v \in Users : failures[v] <= failures'[v]
      /\ failures'[r.user] = failures[r.user] + 1
  BY <1>0 DEF AccountInv, AccountTypeOK
<1>3. row \in Row
  <2>1. Locks(r.attempts) \in BOOLEAN /\ user[r.user] \in Row
    BY <1>0, RowFacts DEF Locks
  <2> QED BY <1>0, <2>1, CommittedRows
<1>4. Fits(r.user, row)
  <2>1. /\ row.attempts = r.attempts /\ row.locked = Locks(r.attempts)
        /\ row.password = user[r.user].password /\ row.resetToken = user[r.user].resetToken
        /\ row.issued = user[r.user].issued /\ row.state = user[r.user].state
    BY <1>0, RowFacts DEF Row
  <2>2. row.locked => failures'[r.user] >= MaxAttempts
    <3>1. failures[r.user] \in Nat
      BY <1>0, RowFacts
    <3>2. r.attempts <= failures'[r.user] /\ failures'[r.user] \in Nat
      BY <1>0, <1>2, <3>1
    <3>3. row.locked => r.attempts >= MaxAttempts
      BY <2>1 DEF Locks
    <3> HIDE DEF r, row
    <3> QED BY <3>2, <3>3, <1>0, AccountAssumption
  <2> QED BY <2>1, <2>2, <1>0, <1>2, <1>3, RowFacts DEF Fits
<1> HIDE DEF r, row
<1> QED BY <1>0, <1>1, <1>2, <1>4, CommitStep

LEMMA CommitChangeKeeps ==
    ASSUME AccountInv, NEW c \in Calls, CommitChange(c)
    PROVE  AccountInv'
<1> DEFINE r == request[c]
           row == [user[r.user] EXCEPT !.password = r.password]
<1>0. /\ r \in Request /\ r.user \in Users /\ r.password.by = r.user
      /\ Done(c) /\ UNCHANGED <<failures, resets>>
  BY CommitFacts DEF CommitChange
<1>1. user' = [user EXCEPT ![r.user] = row]
  BY <1>0, RowFacts DEF CommitChange
<1>2. failures' \in [Users -> Nat] /\ \A v \in Users : failures[v] <= failures'[v]
  BY <1>0 DEF AccountInv, AccountTypeOK
<1>3. row \in Row
  BY <1>0, RowFacts DEF Row, Request
<1>4. Fits(r.user, row)
  BY <1>0, <1>3, RowFacts DEF Fits, Row
<1> HIDE DEF r, row
<1> QED BY <1>0, <1>1, <1>2, <1>4, CommitStep

(* A reset: the writes with its token are one more, those to come one less.    *)
LEMMA CommitResetKeeps ==
    ASSUME AccountInv, NEW c \in Calls, CommitReset(c)
    PROVE  AccountInv'
<1> DEFINE r == request[c]
           u == r.user
           row == Unlocked([user[u] EXCEPT !.password = r.password,
                                           !.resetToken = 0, !.resetValid = FALSE])
<1>0. /\ r \in Request /\ u \in Users /\ r.password.by = u /\ r.pc = "reset"
      /\ Done(c) /\ UNCHANGED failures
      /\ resets \in [Tokens -> Nat] /\ resets' = [resets EXCEPT ![r.token] = @ + 1]
      /\ RequestInv /\ TokenInv /\ SoloInv
  BY CommitFacts DEF CommitReset, AccountInv, AccountTypeOK
<1>1. PICK k \in 1..MaxTokens : r.token = <<u, k>> /\ k <= user[u].issued
  BY <1>0, CommitFacts
<1>2. user' = [user EXCEPT ![u] = row]
  BY <1>0, RowFacts DEF CommitReset
<1>3. failures' \in [Users -> Nat] /\ \A v \in Users : failures[v] <= failures'[v]
  BY <1>0 DEF AccountInv, AccountTypeOK
<1>4. row \in Row /\ row.resetToken = 0
  <2> DEFINE cleared == [user[u] EXCEPT !.password = r.password,
                                        !.resetToken = 0, !.resetValid = FALSE]
  <2>1. user[u] \in Row /\ r.password \in Password \cup {NoPassword}
    BY <1>0, RowFacts DEF Request
  <2>2. cleared \in Row
    BY <2>1, CommittedRows
  <2>3. cleared.resetToken = 0
    BY <2>1 DEF Row
  <2> HIDE DEF cleared
  <2>4. Unlocked(cleared) \in Row /\ Unlocked(cleared).resetToken = 0
    BY <2>2, <2>3, CommittedRows
  <2> QED BY <2>4 DEF cleared
<1>5. Fits(u, row)
  BY <1>0, <1>4, RowFacts DEF Fits, Unlocked, Row
<1> HIDE DEF row
<1>6. /\ user' \in [Users -> Row] /\ RowInv' /\ LockNeedsFailures' /\ PasswordIsOwn'
      /\ \A v \in Users : user[v].issued <= user'[v].issued
      /\ \A v \in Users, n \in 1..MaxTokens :
            n <= user[v].issued /\ user[v].resetToken # n => user'[v].resetToken # n
  BY <1>0, <1>2, <1>3, <1>5, RowWritten
<1>7. /\ request' \in [Calls -> Request] /\ RequestInv' /\ SoloInv'
      /\ \A t \in Tokens : Pending(t)' \subseteq Pending(t)
  BY <1>0, <1>3, <1>6, RequestsKept DEF Done
<1>8. TokenInv'
  <2> SUFFICES ASSUME NEW v \in Users, NEW n \in 1..MaxTokens
               PROVE  /\ resets'[<<v, n>>] > 0 => n <= user'[v].issued /\ user'[v].resetToken # n
                      /\ resets'[<<v, n>>] + Cardinality(Pending(<<v, n>>)') <= Cardinality(Calls)
                      /\ ~overlapped => resets'[<<v, n>>] <= 1
                      /\ ~overlapped /\ resets'[<<v, n>>] > 0 => Pending(<<v, n>>)' = {}
    BY <1>0 DEF TokenInv, Pending, Done
  <2> DEFINE t == <<v, n>>
  <2>0. /\ t \in Tokens /\ resets[t] \in Nat
        /\ resets[t] > 0 => n <= user[v].issued /\ user[v].resetToken # n
        /\ resets[t] + Cardinality(Pending(t)) <= Cardinality(Calls)
        /\ ~overlapped => resets[t] <= 1
        /\ ~overlapped /\ resets[t] > 0 => Pending(t) = {}
        /\ user[v].issued \in Nat /\ user'[v].issued \in Nat /\ user[v].issued <= user'[v].issued
        /\ Pending(t)' \subseteq Pending(t)
    <3>1. t \in Tokens
      BY DEF Tokens
    <3>2. user[v].issued \in Nat /\ user'[v].issued \in Nat
      BY <1>6, RowFacts, RowTypes
    <3> QED BY <3>1, <3>2, <1>0, <1>6, <1>7 DEF TokenInv
  <2>1. CASE t = r.token
    <3>1. v = u /\ n = k /\ user'[v].resetToken = 0 /\ n <= user[v].issued
      BY <2>1, <1>0, <1>1, <1>2, <1>4, RowFacts
    <3>2. resets'[t] = resets[t] + 1
      BY <2>0, <2>1, <1>0
    <3>3. c \in Pending(t) /\ Pending(t)' = Pending(t) \ {c}
      BY <2>1, <1>0, <1>7 DEF Pending, Done, IdleRequest, AccountInv, AccountTypeOK
    <3>4. Cardinality(Pending(t)') = Cardinality(Pending(t)) - 1
      BY <3>3, PendingBounded, FS_RemoveElement
    <3>5. resets'[t] + Cardinality(Pending(t)') <= Cardinality(Calls)
      BY <2>0, <3>2, <3>4, PendingBounded
    <3>6. ~overlapped => resets[t] = 0 /\ Pending(t)' = {}
      BY <2>0, <3>3, <1>0 DEF SoloInv, Pending
    <3> QED BY <2>0, <3>1, <3>2, <3>5, <3>6
  <2>2. CASE t # r.token
    <3>1. resets'[t] = resets[t]
      BY <2>0, <2>2, <1>0
    <3>2. Cardinality(Pending(t)') \in Nat /\ Cardinality(Pending(t)') <= Cardinality(Pending(t))
      BY <2>0, PendingBounded, FS_Subset, FS_CardinalityType
    <3>3. resets[t] > 0 => n <= user'[v].issued /\ user'[v].resetToken # n
      BY <2>0, <1>6
    <3> HIDE DEF t
    <3> QED BY <2>0, <3>1, <3>2, <3>3, PendingBounded DEF t
  <2> QED BY <2>1, <2>2
<1>9. AccountTypeOK'
  <2>1. r.token \in Tokens
    BY <1>0, <1>1 DEF Tokens
  <2>2. resets[r.token] + 1 \in Nat
    BY <1>0, <2>1
  <2>3. resets' \in [Tokens -> Nat]
    BY <1>0, <2>2
  <2> QED BY <2>3, <1>0, <1>3, <1>6, <1>7 DEF AccountInv, AccountTypeOK, Done
<1> QED BY <1>6, <1>7, <1>8, <1>9 DEF AccountInv

-------------------------------------------------------------------------------
(* The theorems.                                                               *)

LEMMA InitKeeps == AccountInit => AccountInv
<1> SUFFICES ASSUME AccountInit PROVE AccountInv
  OBVIOUS
<1>1. AccountTypeOK
  <2>1. IdleRequest \in Request
    BY DEF IdleRequest, Request, NoToken, NoPassword
  <2>2. 0 \in 0..MaxCalls
    <3>1. MaxCalls \in Nat
      BY RowTypes
    <3> QED BY <3>1
  <2> QED BY <2>1, <2>2, RowTypes DEF AccountInit, AccountTypeOK
<1>2. RequestInv /\ RowInv /\ SoloInv /\ LockNeedsFailures /\ PasswordIsOwn
  BY DEF AccountInit, RequestInv, RowInv, SoloInv, LockNeedsFailures, PasswordIsOwn,
         IdleRequest, NoRow
<1>3. TokenInv
  <2>1. \A t : Pending(t) = {}
    BY DEF AccountInit, Pending, IdleRequest
  <2>2. \A u \in Users, n \in 1..MaxTokens : resets[<<u, n>>] = 0
    BY DEF AccountInit, Tokens
  <2>3. Cardinality({}) = 0 /\ Cardinality(Calls) \in Nat
    BY PendingBounded, FS_EmptySet
  <2>4. ASSUME NEW u \in Users, NEW n \in 1..MaxTokens
        PROVE  /\ ~(resets[<<u, n>>] > 0) /\ resets[<<u, n>>] <= 1
               /\ resets[<<u, n>>] + Cardinality(Pending(<<u, n>>)) <= Cardinality(Calls)
    <3>1. resets[<<u, n>>] = 0 /\ Cardinality(Pending(<<u, n>>)) = 0
      BY <2>1, <2>2, <2>3
    <3> QED BY <3>1, <2>3
  <2> QED BY <2>4 DEF TokenInv
<1> QED BY <1>1, <1>2, <1>3 DEF AccountInv

LEMMA StepKeeps == AccountInv /\ [AccountNext]_accountVars => AccountInv'
<1> SUFFICES ASSUME AccountInv, [AccountNext]_accountVars PROVE AccountInv'
  OBVIOUS
<1>1. CASE AuthRequest
  BY <1>1, ForgotPasswordKeeps, LoginWithOAuthKeeps, RegisterKeeps, LoginKeeps, ResetPasswordKeeps
     DEF AuthRequest
<1>2. CASE UserRequest
  BY <1>2, DeactivateAccountKeeps, ChangePasswordKeeps DEF UserRequest
<1>3. CASE \E u \in Users : LockEnds(u) \/ ResetExpires(u)
  BY <1>3, TimeKeeps
<1>4. ASSUME NEW c \in Calls, Commit(c) PROVE AccountInv'
  BY <1>4, CommitLoginKeeps, ReadAttemptsKeeps, HandleFailedLoginKeeps, CommitResetKeeps,
     CommitChangeKeeps DEF Commit
<1>5. CASE UNCHANGED accountVars
  <2>1. AccountTypeOK' /\ RequestInv' /\ RowInv' /\ SoloInv' /\ LockNeedsFailures' /\ PasswordIsOwn'
    BY <1>5 DEF accountVars, historyVars, AccountInv, AccountTypeOK, RequestInv, RowInv, SoloInv,
                LockNeedsFailures, PasswordIsOwn
  <2>2. \A t : Pending(t)' = Pending(t)
    BY <1>5 DEF accountVars, Pending
  <2>3. TokenInv'
    BY <1>5, <2>2 DEF accountVars, historyVars, AccountInv, TokenInv
  <2> QED BY <2>1, <2>3 DEF AccountInv
<1> QED BY <1>1, <1>2, <1>3, <1>4, <1>5 DEF AccountNext

(* The invariant holds in every behaviour.                                     *)
THEOREM AccountInvariant == AccountSpec => []AccountInv
BY InitKeeps, StepKeeps, PTL DEF AccountSpec

(* Rows, requests and counters keep their types.                               *)
THEOREM AccountTypeCorrect == AccountSpec => []AccountTypeOK
<1>1. AccountInv => AccountTypeOK
  BY DEF AccountInv
<1> QED BY <1>1, AccountInvariant, PTL

(* No account is locked before MAX_LOGIN_ATTEMPTS failed logins, however many  *)
(* logins of one user overlap (handleFailedLogin).                             *)
THEOREM LockJustified == AccountSpec => []LockNeedsFailures
<1>1. AccountInv => LockNeedsFailures
  BY DEF AccountInv
<1> QED BY <1>1, AccountInvariant, PTL

(* Every stored password was chosen by its own user, for any number of users,  *)
(* tokens and overlapping requests (resetPassword, changePassword, register).  *)
THEOREM PasswordOwned == AccountSpec => []PasswordIsOwn
<1>1. AccountInv => PasswordIsOwn
  BY DEF AccountInv
<1> QED BY <1>1, AccountInvariant, PTL

(* A reset token writes at most as many passwords as requests can overlap, and *)
(* at most one as long as none do (resetPassword).                             *)
THEOREM TokenBounded == AccountSpec => []TokenUsedOnce
<1>1. AccountInv => TokenUsedOnce
  <2> SUFFICES ASSUME AccountInv, NEW u \in Users, NEW n \in 1..MaxTokens
               PROVE  resets[<<u, n>>] <= (IF overlapped THEN Cardinality(Calls) ELSE 1)
    BY DEF TokenUsedOnce, Tokens
  <2> DEFINE t == <<u, n>>
  <2>1. resets[t] \in Nat
    BY DEF AccountInv, AccountTypeOK, Tokens
  <2>2. /\ resets[t] + Cardinality(Pending(t)) <= Cardinality(Calls)
        /\ ~overlapped => resets[t] <= 1
    BY DEF AccountInv, TokenInv
  <2> HIDE DEF t
  <2>3. resets[t] <= (IF overlapped THEN Cardinality(Calls) ELSE 1)
    BY <2>1, <2>2, PendingBounded
  <2> QED BY <2>3 DEF t
<1> QED BY <1>1, AccountInvariant, PTL

===============================================================================
