------------------------ MODULE SocialConnectionsProofs ------------------------
(* Proofs about SocialConnections, for every set of organizations, people and  *)
(* pages, whoever manages them, and any number of calls that overlap.          *)
EXTENDS SocialConnections, FiniteSetTheorems, TLAPS

-------------------------------------------------------------------------------
(* The inductive invariant.                                                    *)

(* Every token was handed out for a request that had not got one before.       *)
Exchanging == {c \in Calls : At(c, "exchange")}

Counted == IsFiniteSet(Exchanging) /\ tokens + Cardinality(Exchanging) <= calls

(* No token is known before it is handed out.                                  *)
Known ==
    /\ \A a \in Accounts : account[a].token <= tokens
    /\ \A c \in Calls : request[c].token <= tokens
    /\ \A t \in revoked : t <= tokens

(* A request has the account it was made for, and of pages only those its user *)
(* manages, unless a PATCH gave the account's row to another user; they are    *)
(* listed before the account is stored.                                        *)
Carries(r) ==
    /\ r.pc # "idle" => r.account \in Accounts
    /\ r.pc = "pages" => r.account[2] \in MetaUsers
    /\ r.pc \in {"idle", "exchange", "profile", "pages", "disconnect"} => r.pages = {}
    /\ r.pages # {} /\ r.account \notin rewritten =>
          r.account[2] \in MetaUsers /\ r.pages = Manages[r.account[2]]
    /\ r.left \subseteq r.pages
    /\ r.pc = "upsert" => r.left = r.pages

CarriesInv == \A c \in Calls : Carries(request[c])

PagesInv ==
    \A p \in StoredPages :
       /\ page[p].account \in Accounts
       /\ page[p].account \notin rewritten =>
             page[p].account[2] \in MetaUsers /\ p \in Manages[page[p].account[2]]

(* Of the pages being synced those no longer left are stored.                  *)
SyncInv == \A c \in Calls : At(c, "sync") => request[c].pages \ request[c].left \subseteq StoredPages

(* While requests come one after another there is one at a time, with a token  *)
(* nobody has revoked; once its account is stored the account and the pages    *)
(* synced have that token.                                                     *)
Alone(r) ==
    /\ r.pc \in {"profile", "pages", "upsert", "sync"} => r.token \notin revoked
    /\ r.pc = "sync" => /\ account[r.account].state = "active"
                        /\ account[r.account].token = r.token
                        /\ \A p \in r.pages \ r.left : page[p].token = r.token

SoloInv ==
    ~overlapped =>
       /\ \A c, d \in Calls : At(c, "idle") \/ At(d, "idle") \/ c = d
       /\ \A c \in Calls : Alone(request[c])

ConnectionInv ==
    ConnectionTypeOK /\ Counted /\ Known /\ CarriesInv /\ PagesInv /\ SyncInv /\ SoloInv

-------------------------------------------------------------------------------
(* What the steps have in common.                                              *)

LEMMA NobodyIsNoAccount == Nobody \notin Accounts
BY ConnectionAssumption DEF Nobody, Accounts

LEMMA IdleIsRequest == IdleRequest \in Request /\ IdleRequest.pc = "idle" /\ IdleRequest.token = 0
                       /\ IdleRequest.pages = {} /\ IdleRequest.left = {}
BY ConnectionAssumption DEF IdleRequest, Request, Token

(* What the invariant says of one request.                                     *)
LEMMA Here ==
    ASSUME ConnectionInv, NEW c \in Calls
    PROVE  /\ request[c] \in Request /\ Carries(request[c]) /\ request[c].token \in 0..tokens
           /\ request[c].left \subseteq request[c].pages /\ request[c].pages \subseteq Pages
           /\ tokens \in Nat /\ calls \in Nat /\ tokens \in Token
           /\ At(c, "sync") => request[c].pages \ request[c].left \subseteq StoredPages
<1>1. request[c] \in Request /\ tokens \in Nat /\ calls \in Nat /\ tokens \in Token
  BY ConnectionAssumption DEF ConnectionInv, ConnectionTypeOK, Token
<1>2. request[c].token \in Nat
  BY <1>1 DEF Request, Token
<1>3. request[c].token <= tokens
  BY DEF ConnectionInv, Known
<1>4. request[c].token \in 0..tokens
  BY <1>1, <1>2, <1>3
<1> QED BY <1>1, <1>4 DEF ConnectionInv, CarriesInv, Carries, SyncInv, Request

(* A step of a request under way writes only that request.                     *)
LEMMA Continued ==
    ASSUME ConnectionTypeOK, NEW c \in Calls, NEW r \in Request, Continue(c, r)
    PROVE  /\ request' \in [Calls -> Request] /\ request'[c] = r
           /\ \A d \in Calls \ {c} : request'[d] = request[d]
           /\ calls' = calls /\ overlapped' = overlapped
BY DEF ConnectionTypeOK, Continue

(* A request that counts finds all others idle, or they overlap from now on.   *)
LEMMA CountOne ==
    ASSUME ConnectionTypeOK, Count
    PROVE  /\ calls' = calls + 1 /\ calls' \in 0..MaxCalls /\ calls \in Nat
           /\ overlapped' \in BOOLEAN
           /\ ~overlapped' => ~overlapped /\ \A d \in Calls : At(d, "idle")
<1>1. calls' = calls + 1 /\ calls \in 0..MaxCalls /\ calls < MaxCalls
  BY DEF Count, MoreToCome, ConnectionTypeOK
<1>2. calls' \in 0..MaxCalls /\ calls \in Nat
  BY <1>1, ConnectionAssumption
<1>3. overlapped' = (overlapped \/ \E d \in Calls : ~At(d, "idle"))
  BY DEF Count
<1>4. overlapped' \in BOOLEAN
  BY <1>3 DEF ConnectionTypeOK
<1> QED BY <1>1, <1>2, <1>3, <1>4

LEMMA Begun ==
    ASSUME ConnectionTypeOK, NEW c \in Calls, NEW r \in Request, Begin(c, r)
    PROVE  /\ request' \in [Calls -> Request] /\ request'[c] = r
           /\ \A d \in Calls \ {c} : request'[d] = request[d]
           /\ At(c, "idle") /\ Count
BY DEF ConnectionTypeOK, Begin

(* The exchanges open: fewer by one when one gets its token or fails, more by  *)
(* one when a callback begins.                                                 *)
LEMMA ExchangeEnds ==
    ASSUME Counted, tokens \in Nat, calls \in Nat, NEW c \in Calls, ~At(c, "exchange")',
           \A d \in Calls \ {c} : request'[d] = request[d]
    PROVE  /\ IsFiniteSet(Exchanging') /\ Cardinality(Exchanging') \in Nat
           /\ tokens + Cardinality(Exchanging') <= calls
           /\ At(c, "exchange") => tokens + 1 + Cardinality(Exchanging') <= calls
<1>1. Exchanging' = Exchanging \ {c}
  BY DEF Exchanging, At
<1>2. IsFiniteSet(Exchanging) /\ Cardinality(Exchanging) \in Nat
  BY FS_CardinalityType DEF Counted
<1>3. /\ IsFiniteSet(Exchanging \ {c})
      /\ Cardinality(Exchanging \ {c}) = IF c \in Exchanging THEN Cardinality(Exchanging) - 1
                                                            ELSE Cardinality(Exchanging)
  BY <1>2, FS_RemoveElement
<1>4. Cardinality(Exchanging \ {c}) \in Nat
  BY <1>3, FS_CardinalityType
<1>5. tokens + Cardinality(Exchanging) <= calls
  BY DEF Counted
<1>6. Cardinality(Exchanging \ {c}) <= Cardinality(Exchanging)
  BY <1>2, <1>3
<1>7. CASE At(c, "exchange")
  <2>1. c \in Exchanging
    BY <1>7 DEF Exchanging
  <2> QED BY <1>1, <1>2, <1>3, <1>4, <1>5, <2>1
<1>8. CASE ~At(c, "exchange")
  BY <1>1, <1>2, <1>3, <1>4, <1>5, <1>6, <1>8
<1> QED BY <1>7, <1>8

LEMMA ExchangeBegins ==
    ASSUME Counted, tokens \in Nat, calls \in Nat, NEW c \in Calls,
           \A d \in Calls \ {c} : request'[d] = request[d]
    PROVE  IsFiniteSet(Exchanging') /\ tokens + Cardinality(Exchanging') <= calls + 1
<1>1. IsFiniteSet(Exchanging) /\ Cardinality(Exchanging) \in Nat
  BY FS_CardinalityType DEF Counted
<1>2. /\ IsFiniteSet(Exchanging \cup {c})
      /\ Cardinality(Exchanging \cup {c}) = IF c \in Exchanging THEN Cardinality(Exchanging)
                                                               ELSE Cardinality(Exchanging) + 1
  BY <1>1, FS_AddElement
<1>3. Exchanging' \subseteq Exchanging \cup {c}
  BY DEF Exchanging, At
<1>4. /\ IsFiniteSet(Exchanging')
      /\ Cardinality(Exchanging') <= Cardinality(Exchanging \cup {c})
  BY <1>2, <1>3, FS_Subset
<1>5. Cardinality(Exchanging') \in Nat /\ Cardinality(Exchanging \cup {c}) \in Nat
  BY <1>2, <1>4, FS_CardinalityType
<1>6. tokens + Cardinality(Exchanging) <= calls
  BY DEF Counted
<1> QED BY <1>1, <1>2, <1>4, <1>5, <1>6

(* Syncing pages of a request's own: they are stored, with its token, under an *)
(* account whose user manages them.                                            *)
LEMMA PagesSynced ==
    ASSUME ConnectionInv, NEW c \in Calls, At(c, "sync"), NEW ps \in SUBSET request[c].left,
           page' = SyncedPages(ps, request[c]), rewritten' = rewritten
    PROVE  /\ page' \in [Pages -> PageRow] /\ PagesInv'
           /\ StoredPages' = StoredPages \cup ps
           /\ \A p \in ps : page'[p].token = request[c].token
           /\ \A p \in Pages \ ps : page'[p] = page[p]
<1> DEFINE r == request[c]
<1>1. /\ r \in Request /\ r.account \in Accounts /\ ps \subseteq Pages /\ r.token \in Token
      /\ r.account \notin rewritten =>
            \A p \in ps : r.account[2] \in MetaUsers /\ p \in Manages[r.account[2]]
  BY Here DEF Carries, At, Request
<1>2. page \in [Pages -> PageRow]
  BY DEF ConnectionInv, ConnectionTypeOK
<1>3. \A p \in Pages \ ps : page'[p] = page[p]
  BY DEF SyncedPages
<1>4. \A p \in ps : /\ page'[p].token = r.token /\ page'[p] \in PageRow
                    /\ p \in StoredPages => page'[p].account = page[p].account
                    /\ p \notin StoredPages => page'[p].account = r.account
  <2> SUFFICES ASSUME NEW p \in ps
               PROVE  /\ page'[p].token = r.token /\ page'[p] \in PageRow
                      /\ p \in StoredPages => page'[p].account = page[p].account
                      /\ p \notin StoredPages => page'[p].account = r.account
    OBVIOUS
  <2>1. p \in Pages /\ page[p].account \in Accounts \cup {Nobody}
    BY <1>1, <1>2 DEF PageRow
  <2>2. CASE p \in StoredPages
    <3>1. page'[p] = [account |-> page[p].account, token |-> r.token]
      BY <2>1, <2>2 DEF SyncedPages
    <3> QED BY <1>1, <2>1, <2>2, <3>1 DEF PageRow
  <2>3. CASE p \notin StoredPages
    <3>1. page'[p] = [account |-> r.account, token |-> r.token]
      BY <2>1, <2>3 DEF SyncedPages
    <3> QED BY <1>1, <2>1, <2>3, <3>1 DEF PageRow
  <2> QED BY <2>2, <2>3
<1>5. page' \in [Pages -> PageRow]
  <2>3. \A p \in Pages : page'[p] \in PageRow
    BY <1>2, <1>3, <1>4
  <2> QED BY <2>3 DEF SyncedPages
<1>6. StoredPages' = StoredPages \cup ps
  BY <1>1, <1>3, <1>4, NobodyIsNoAccount DEF StoredPages
<1>7. PagesInv'
  <2>1. PagesInv
    BY DEF ConnectionInv
  <2> SUFFICES ASSUME NEW p \in StoredPages'
               PROVE  /\ page'[p].account \in Accounts
                      /\ page'[p].account \notin rewritten =>
                            page'[p].account[2] \in MetaUsers /\ p \in Manages[page'[p].account[2]]
    BY DEF PagesInv
  <2>2. CASE p \in StoredPages
    <3>1. page'[p].account = page[p].account
      BY <1>3, <1>4, <2>2 DEF StoredPages
    <3> QED BY <2>1, <2>2, <3>1 DEF PagesInv
  <2>3. CASE p \notin StoredPages
    BY <1>1, <1>4, <1>6, <2>3
  <2> QED BY <2>2, <2>3
<1> QED BY <1>3, <1>4, <1>5, <1>6, <1>7

(* A step of an open request keeps the invariant if that request does.         *)
LEMMA StepOf ==
    ASSUME ConnectionInv, NEW c \in Calls, ~At(c, "idle"),
           \A d \in Calls \ {c} : request'[d] = request[d],
           overlapped' = overlapped, revoked' = revoked, rewritten' = rewritten,
           ConnectionTypeOK', Counted', Known', PagesInv', StoredPages \subseteq StoredPages',
           Carries(request'[c]),
           At(c, "sync")' => request'[c].pages \ request'[c].left \subseteq StoredPages',
           ~overlapped => Alone(request[c])'
    PROVE  ConnectionInv'
<1>1. CarriesInv'
  BY DEF CarriesInv, Carries, ConnectionInv
<1>2. SyncInv'
  BY DEF SyncInv, At, ConnectionInv
<1>3. SoloInv'
  <2> SUFFICES ASSUME ~overlapped
               PROVE  /\ \A e, d \in Calls : At(e, "idle")' \/ At(d, "idle")' \/ e = d
                      /\ \A d \in Calls : Alone(request[d])'
    BY DEF SoloInv
  <2>1. \A d \in Calls \ {c} : At(d, "idle") /\ At(d, "idle")'
    BY DEF ConnectionInv, SoloInv, At
  <2>2. \A d \in Calls \ {c} : Alone(request[d])'
    BY <2>1 DEF Alone, At
  <2> QED BY <2>1, <2>2
<1> QED BY <1>1, <1>2, <1>3 DEF ConnectionInv

(* A new request starts with nothing but its account.                          *)
LEMMA NewRequest ==
    ASSUME NEW pc \in {"exchange", "disconnect"}, NEW a \in Accounts
    PROVE  LET r == [IdleRequest EXCEPT !.pc = pc, !.account = a]
           IN  /\ r \in Request /\ Carries(r)
               /\ r.pc = pc /\ r.account = a /\ r.token = 0 /\ r.pages = {} /\ r.left = {}
<1> DEFINE r == [IdleRequest EXCEPT !.pc = pc, !.account = a]
<1>1. r \in Request
  BY IdleIsRequest DEF Request
<1>2. r.pc = pc /\ r.account = a /\ r.token = 0 /\ r.pages = {} /\ r.left = {}
  BY IdleIsRequest DEF Request
<1> HIDE DEF r
<1>3. Carries(r)
  BY <1>2 DEF Carries
<1> QED BY <1>1, <1>2, <1>3 DEF r

LEMMA BeginKeeps ==
    ASSUME ConnectionInv, NEW c \in Calls, NEW pc \in {"exchange", "disconnect"}, NEW a \in Accounts,
           Begin(c, [IdleRequest EXCEPT !.pc = pc, !.account = a]),
           revoked' \subseteq revoked \cup {account[e].token : e \in Accounts},
           UNCHANGED <<account, page, link, api, tokens, answered, rewritten>>
    PROVE  ConnectionInv'
<1> DEFINE r == [IdleRequest EXCEPT !.pc = pc, !.account = a]
<1>1. /\ r \in Request /\ Carries(r)
      /\ r.pc = pc /\ r.account = a /\ r.token = 0 /\ r.pages = {} /\ r.left = {}
  BY NewRequest
<1>2. ConnectionTypeOK
  BY DEF ConnectionInv
<1> HIDE DEF r
<1>3. Begin(c, r)
  BY DEF r
<1>4. /\ request' \in [Calls -> Request] /\ request'[c] = r
      /\ \A d \in Calls \ {c} : request'[d] = request[d]
      /\ At(c, "idle") /\ Count
  BY <1>1, <1>2, <1>3, Begun
<1>5. /\ calls' = calls + 1 /\ calls' \in 0..MaxCalls /\ calls \in Nat
      /\ overlapped' \in BOOLEAN
      /\ ~overlapped' => ~overlapped /\ \A d \in Calls : At(d, "idle")
  BY <1>2, <1>4, CountOne
<1>6. tokens \in Nat /\ tokens' = tokens
  BY Here
<1>7. ConnectionTypeOK'
  <2>1. \A e \in Accounts : account[e].token \in Token
    BY <1>2 DEF ConnectionTypeOK, AccountRow
  <2>2. revoked' \subseteq Token
    BY <1>2, <2>1 DEF ConnectionTypeOK
  <2> QED BY <1>2, <1>4, <1>5, <2>2 DEF ConnectionTypeOK
<1>8. Counted'
  <2>1. Counted
    BY DEF ConnectionInv
  <2>2. IsFiniteSet(Exchanging') /\ tokens + Cardinality(Exchanging') <= calls + 1
    BY <1>4, <1>5, <1>6, <2>1, ExchangeBegins
  <2> QED BY <1>5, <1>6, <2>2 DEF Counted
<1>9. Known'
  <2>1. Known
    BY DEF ConnectionInv
  <2>2. \A t \in revoked' : t <= tokens
    BY <2>1 DEF Known
  <2>3. \A d \in Calls : request'[d].token <= tokens
    <3>1. request'[c].token <= tokens
      BY <1>1, <1>4, <1>6
    <3> QED BY <1>4, <2>1, <3>1 DEF Known
  <2> QED BY <2>1, <2>2, <2>3 DEF Known
<1>10. CarriesInv'
  BY <1>1, <1>4 DEF CarriesInv, Carries, ConnectionInv
<1>11. PagesInv' /\ StoredPages' = StoredPages
  BY DEF PagesInv, StoredPages, ConnectionInv
<1>12. SyncInv'
  BY <1>1, <1>4, <1>11 DEF SyncInv, At, ConnectionInv
<1>13. SoloInv'
  BY <1>1, <1>4, <1>5 DEF SoloInv, Alone, At
<1> QED BY <1>7, <1>8, <1>9, <1>10, <1>11, <1>12, <1>13 DEF ConnectionInv

(* Requests that are one step: the others are as they were, and if they do not *)
(* overlap there are none.                                                     *)
LEMMA OneStepKeeps ==
    ASSUME ConnectionInv, Count, UNCHANGED <<page, link, request, answered, rewritten>>,
           ConnectionTypeOK', Counted', Known'
    PROVE  ConnectionInv'
<1>1. ConnectionTypeOK
  BY DEF ConnectionInv
<1>2. ~overlapped' => \A d \in Calls : At(d, "idle")
  BY <1>1, CountOne
<1>3. PagesInv' /\ StoredPages' = StoredPages
  BY DEF PagesInv, StoredPages, ConnectionInv
<1>4. CarriesInv' /\ SyncInv'
  BY <1>3 DEF CarriesInv, Carries, SyncInv, At, ConnectionInv
<1>5. SoloInv'
  BY <1>2 DEF SoloInv, Alone, At
<1> QED BY <1>3, <1>4, <1>5 DEF ConnectionInv

-------------------------------------------------------------------------------
(* The invariant holds at the start and every request keeps it.                *)

LEMMA InitConnections == ConnectionInit => ConnectionInv
<1> SUFFICES ASSUME ConnectionInit PROVE ConnectionInv
  OBVIOUS
<1>1. 0 \in Token /\ 0 \in 0..MaxCalls
  BY ConnectionAssumption DEF Token
<1>2. request \in [Calls -> Request] /\ \A c \in Calls : request[c] = IdleRequest
  BY IdleIsRequest DEF ConnectionInit
<1>3. \A c \in Calls : /\ At(c, "idle") /\ request[c].token = 0
                       /\ request[c].pages = {} /\ request[c].left = {}
  BY <1>2, IdleIsRequest DEF At
<1>4. ConnectionTypeOK
  <2>1. account \in [Accounts -> AccountRow]
    BY <1>1 DEF ConnectionInit, NoRow, AccountRow
  <2>2. page \in [Pages -> PageRow]
    BY <1>1 DEF ConnectionInit, PageRow
  <2> QED BY <1>1, <1>2, <2>1, <2>2 DEF ConnectionInit, ConnectionTypeOK
<1>5. Counted
  <2>1. Exchanging = {}
    BY <1>3 DEF Exchanging, At
  <2>2. IsFiniteSet({}) /\ Cardinality({}) = 0
    BY FS_EmptySet
  <2>3. tokens = 0 /\ calls = 0
    BY DEF ConnectionInit
  <2> QED BY <2>1, <2>2, <2>3 DEF Counted
<1>6. Known
  BY <1>3 DEF Known, ConnectionInit, NoRow
<1>7. CarriesInv
  BY <1>3 DEF CarriesInv, Carries, At
<1>8. StoredPages = {}
  BY DEF StoredPages, ConnectionInit
<1>9. SyncInv /\ SoloInv /\ PagesInv
  BY <1>3, <1>8 DEF SyncInv, SoloInv, PagesInv, Alone, At
<1> QED BY <1>4, <1>5, <1>6, <1>7, <1>9 DEF ConnectionInv

LEMMA LinkKeeps ==
    ASSUME ConnectionInv, NEW o \in Organizations,
           GetAuthUrl(o) \/ GenerateAuthUrl(o) \/ LinkExpires(o)
    PROVE  ConnectionInv'
<1>1. UNCHANGED <<account, page, api, revoked, tokens, request, calls, answered, rewritten, overlapped>>
  BY DEF GetAuthUrl, GenerateAuthUrl, LinkExpires
<1>2. link' \in [Organizations -> SUBSET Sites]
  <2>1. link \in [Organizations -> SUBSET Sites]
    BY DEF ConnectionInv, ConnectionTypeOK
  <2>2. \E s \in SUBSET Sites : link' = [link EXCEPT ![o] = s]
    <3>1. CASE GetAuthUrl(o)
      <4>1. link[o] \cup {"linkedin"} \in SUBSET Sites
        BY <2>1 DEF Sites
      <4> QED BY <3>1, <4>1 DEF GetAuthUrl, BuildAuthUrl
    <3>2. CASE GenerateAuthUrl(o)
      <4>1. link[o] \cup {"meta"} \in SUBSET Sites
        BY <2>1 DEF Sites
      <4> QED BY <3>2, <4>1 DEF GenerateAuthUrl, BuildAuthUrl
    <3>3. CASE LinkExpires(o)
      <4>1. link[o] \ {"meta"} \in SUBSET Sites
        BY <2>1
      <4> QED BY <3>3, <4>1 DEF LinkExpires
    <3> QED BY <3>1, <3>2, <3>3
  <2> QED BY <2>1, <2>2
<1>3. ConnectionTypeOK'
  BY <1>1, <1>2 DEF ConnectionInv, ConnectionTypeOK
<1>4. Counted' /\ Known'
  BY <1>1 DEF ConnectionInv, Counted, Exchanging, Known, At
<1>5. CarriesInv' /\ PagesInv' /\ SyncInv' /\ SoloInv'
  BY <1>1 DEF ConnectionInv, CarriesInv, Carries, PagesInv, StoredPages, SyncInv, SoloInv, Alone, At
<1> QED BY <1>3, <1>4, <1>5 DEF ConnectionInv

(* Each step of a callback keeps it.                                           *)
LEMMA NewTokenKeeps ==
    ASSUME ConnectionInv, NEW c \in Calls, NewToken(c)
    PROVE  ConnectionInv'
<1> DEFINE r == [request[c] EXCEPT !.pc = "profile", !.token = tokens + 1]
<1>1. /\ request[c] \in Request /\ Carries(request[c])
      /\ tokens \in Nat /\ calls \in Nat /\ tokens \in Token
  BY Here
<1>2. ConnectionTypeOK /\ Counted /\ Known
  BY DEF ConnectionInv
<1>3. tokens' = tokens + 1 /\ UNCHANGED <<account, page, link, api, revoked, answered, rewritten>>
  BY DEF NewToken
<1>4. At(c, "exchange") /\ ~At(c, "idle") /\ request[c].pages = {} /\ request[c].left = {}
  BY <1>1 DEF NewToken, At, Carries
<1>5. tokens' \in Nat /\ tokens' <= calls /\ tokens' \in Token /\ calls' = calls /\ Counted'
  <2>1. Continue(c, r)
    BY DEF NewToken
  <2>2. /\ calls' = calls /\ ~At(c, "exchange")'
        /\ \A d \in Calls \ {c} : request'[d] = request[d]
    BY <1>2, <2>1, <1>1 DEF Continue, At, ConnectionTypeOK
  <2>3. /\ IsFiniteSet(Exchanging') /\ Cardinality(Exchanging') \in Nat
        /\ tokens + 1 + Cardinality(Exchanging') <= calls
    BY <1>1, <1>2, <1>4, <2>2, ExchangeEnds
  <2>4. calls \in 0..MaxCalls
    BY <1>2 DEF ConnectionTypeOK
  <2>5. tokens + 1 <= calls
    BY <1>1, <2>3
  <2>6. tokens + 1 \in 0..MaxCalls
    BY <1>1, <2>4, <2>5, ConnectionAssumption
  <2> QED BY <1>1, <1>3, <2>2, <2>3, <2>5, <2>6 DEF Counted, Token
<1>6. /\ r \in Request /\ r.pc = "profile" /\ r.token = tokens + 1
      /\ r.account = request[c].account /\ r.pages = {} /\ r.left = {}
  BY <1>1, <1>3, <1>4, <1>5 DEF Request
<1>7. Continue(c, r)
  BY DEF NewToken
<1> HIDE DEF r
<1>8. /\ request' \in [Calls -> Request] /\ request'[c] = r
      /\ \A d \in Calls \ {c} : request'[d] = request[d]
      /\ calls' = calls /\ overlapped' = overlapped
  BY <1>2, <1>6, <1>7, Continued
<1>9. ConnectionTypeOK'
  BY <1>2, <1>3, <1>5, <1>8 DEF ConnectionTypeOK
<1>10. Known'
  <2>1. \A a \in Accounts : account[a].token \in Nat /\ account[a].token <= tokens
    BY <1>2 DEF Known, ConnectionTypeOK, AccountRow, Token
  <2>2. \A d \in Calls : request[d].token \in Nat /\ request[d].token <= tokens
    BY <1>2 DEF Known, ConnectionTypeOK, Request, Token
  <2>3. \A t \in revoked : t \in Nat /\ t <= tokens
    BY <1>2 DEF Known, ConnectionTypeOK, Token
  <2>4. \A n \in Nat : n <= tokens => n <= tokens'
    BY <1>1, <1>3
  <2>5. \A d \in Calls : request'[d].token <= tokens'
    <3>1. request'[c].token <= tokens'
      BY <1>1, <1>3, <1>6, <1>8
    <3> QED BY <1>8, <2>2, <2>4, <3>1
  <2> QED BY <1>3, <2>1, <2>3, <2>4, <2>5 DEF Known
<1>11. PagesInv' /\ StoredPages' = StoredPages
  BY <1>3 DEF PagesInv, StoredPages, ConnectionInv
<1>12. Carries(request'[c]) /\ ~At(c, "sync")'
  BY <1>1, <1>4, <1>6, <1>8 DEF Carries, At
<1>13. Alone(request[c])'
  <2>1. \A t \in revoked : t \in Nat /\ t <= tokens
    BY <1>2 DEF Known, ConnectionTypeOK, Token
  <2>2. tokens + 1 \notin revoked
    BY <1>1, <2>1
  <2> QED BY <1>3, <1>6, <1>8, <2>2 DEF Alone
<1> QED BY <1>3, <1>4, <1>5, <1>8, <1>9, <1>10, <1>11, <1>12, <1>13, StepOf

(* Of the other steps none hands out a token.                                  *)
LEMMA LaterStep ==
    ASSUME ConnectionInv, NEW c \in Calls, NEW r \in Request, Continue(c, r), ~At(c, "idle"),
           r.pc # "exchange", Carries(r), r.token = request[c].token \/ r.token = 0,
           UNCHANGED <<revoked, tokens, rewritten>>,
           account' \in [Accounts -> AccountRow],
           \A a \in Accounts : account'[a].token = account[a].token \/ account'[a].token = request[c].token,
           page' \in [Pages -> PageRow], PagesInv', StoredPages \subseteq StoredPages',
           link' = link, api' \in MetaUsers \cup {"nobody"},
           answered' \subseteq [account : Accounts, token : Token, pages : SUBSET Pages],
           r.pc = "sync" => r.pages \ r.left \subseteq StoredPages',
           ~overlapped => Alone(r)'
    PROVE  ConnectionInv'
<1>1. /\ request[c] \in Request /\ request[c].token \in 0..tokens
      /\ tokens \in Nat /\ calls \in Nat /\ tokens \in Token
  BY Here
<1>2. ConnectionTypeOK /\ Counted /\ Known
  BY DEF ConnectionInv
<1>3. /\ request' \in [Calls -> Request] /\ request'[c] = r
      /\ \A d \in Calls \ {c} : request'[d] = request[d]
      /\ calls' = calls /\ overlapped' = overlapped
  BY <1>2, Continued
<1>4. ConnectionTypeOK'
  BY <1>2, <1>3 DEF ConnectionTypeOK
<1>5. Counted'
  <2>1. ~At(c, "exchange")'
    BY <1>3 DEF At
  <2>2. IsFiniteSet(Exchanging') /\ tokens + Cardinality(Exchanging') <= calls
    BY <1>1, <1>2, <1>3, <2>1, ExchangeEnds
  <2> QED BY <1>3, <2>2 DEF Counted
<1>6. Known'
  <2>1. \A d \in Calls : request'[d].token <= tokens
    <3>1. r.token <= tokens
      BY <1>1
    <3> QED BY <1>2, <1>3, <3>1 DEF Known
  <2>2. \A a \in Accounts : account'[a].token <= tokens
    BY <1>1, <1>2 DEF Known
  <2> QED BY <1>2, <2>1, <2>2 DEF Known
<1>7. Alone(r)' => Alone(request[c])'
  BY <1>3 DEF Alone
<1> QED BY <1>3, <1>4, <1>5, <1>6, <1>7, StepOf DEF At

(* What the invariant says of a request under way.                             *)
LEMMA UnderWay ==
    ASSUME ConnectionInv, NEW c \in Calls
    PROVE  /\ account \in [Accounts -> AccountRow] /\ page \in [Pages -> PageRow]
           /\ api \in MetaUsers \cup {"nobody"} /\ PagesInv
           /\ answered \subseteq [account : Accounts, token : Token, pages : SUBSET Pages]
           /\ ~At(c, "idle") => request[c].account \in Accounts
           /\ ~overlapped => Alone(request[c])
BY Here DEF ConnectionInv, ConnectionTypeOK, Carries, SoloInv, At

LEMMA ProfileKeeps ==
    ASSUME ConnectionInv, NEW c \in Calls, GetMemberProfile(c) \/ GetUserProfile(c)
    PROVE  ConnectionInv'
<1>1. /\ At(c, "profile") /\ ~At(c, "idle") /\ UNCHANGED <<account, page, link, revoked, tokens, answered, rewritten>>
      /\ request[c] \in Request /\ Carries(request[c])
  BY Here DEF GetMemberProfile, GetUserProfile, At
<1>2. PICK pc \in {"pages", "upsert"} :
         /\ Continue(c, [request[c] EXCEPT !.pc = pc])
         /\ pc = "pages" => request[c].account[2] \in MetaUsers
  BY DEF GetMemberProfile, GetUserProfile
<1>3. api' \in MetaUsers \cup {"nobody"}
  BY UnderWay DEF GetMemberProfile, GetUserProfile, InitMetaAPI
<1>4. PICK r : r = [request[c] EXCEPT !.pc = pc]
  OBVIOUS
<1>5. /\ r \in Request /\ r.pc = pc /\ r.token = request[c].token
      /\ r.account = request[c].account /\ r.pages = {} /\ r.left = {}
  BY <1>1, <1>4 DEF Request, Carries, At
<1>6. Continue(c, r)
  BY <1>2, <1>4
<1>7. Carries(r)
  BY <1>1, <1>2, <1>5 DEF Carries, At
<1>8. PagesInv' /\ StoredPages' = StoredPages
  BY <1>1 DEF PagesInv, StoredPages, ConnectionInv
<1>9. ~overlapped => Alone(r)'
  BY <1>1, <1>5, UnderWay DEF Alone, At
<1> QED BY <1>1, <1>3, <1>5, <1>6, <1>7, <1>8, <1>9, UnderWay, LaterStep

LEMMA PagesKeep ==
    ASSUME ConnectionInv, NEW c \in Calls, GetUserPages(c)
    PROVE  ConnectionInv'
<1>1. /\ At(c, "pages") /\ ~At(c, "idle") /\ UNCHANGED <<account, page, link, revoked, tokens, answered, rewritten>>
      /\ request[c] \in Request /\ Carries(request[c]) /\ request[c].account[2] \in MetaUsers
  BY Here DEF GetUserPages, At, Carries
<1>2. PICK u \in MetaUsers : u = request[c].account[2]
  BY <1>1
<1>3. PICK r : r = [request[c] EXCEPT !.pc = "upsert", !.pages = Manages[u], !.left = Manages[u]]
  OBVIOUS
<1>4. Continue(c, r) /\ api' = u
  BY <1>2, <1>3 DEF GetUserPages, ListedAs, InitMetaAPI
<1>5. Manages[u] \subseteq Pages
  BY ConnectionAssumption
<1>6. /\ r \in Request /\ r.pc = "upsert" /\ r.token = request[c].token
      /\ r.account = request[c].account /\ r.pages = Manages[u] /\ r.left = Manages[u]
  BY <1>1, <1>3, <1>5 DEF Request
<1>7. Carries(r)
  BY <1>1, <1>2, <1>6 DEF Carries, At
<1>8. PagesInv' /\ StoredPages' = StoredPages
  BY <1>1 DEF PagesInv, StoredPages, ConnectionInv
<1>9. ~overlapped => Alone(r)'
  BY <1>1, <1>6, UnderWay DEF Alone, At
<1> QED BY <1>1, <1>4, <1>6, <1>7, <1>8, <1>9, UnderWay, LaterStep

LEMMA UpsertAccountKeeps ==
    ASSUME ConnectionInv, NEW c \in Calls, UpsertSocialAccount(c)
    PROVE  ConnectionInv'
<1>1. /\ At(c, "upsert") /\ ~At(c, "idle") /\ UNCHANGED <<page, link, api, revoked, tokens, answered, rewritten>>
      /\ request[c] \in Request /\ Carries(request[c])
      /\ request[c].token \in Token /\ request[c].account \in Accounts
  BY Here, UnderWay DEF UpsertSocialAccount, At, Request
<1>2. PICK r : r = [request[c] EXCEPT !.pc = "sync"]
  OBVIOUS
<1>3. Continue(c, r)
  BY <1>2 DEF UpsertSocialAccount
<1>4. /\ r \in Request /\ r.pc = "sync" /\ r.token = request[c].token
      /\ r.account = request[c].account /\ r.pages = request[c].pages /\ r.left = request[c].pages
  BY <1>1, <1>2 DEF Request, Carries, At
<1>5. PICK row : row = Upserted(EncryptTokens(request[c].token))
  OBVIOUS
<1>6. row \in AccountRow /\ row.state = "active" /\ row.token = request[c].token
  BY <1>1, <1>5 DEF Upserted, EncryptTokens, AccountRow
<1>7. /\ account' \in [Accounts -> AccountRow] /\ account'[request[c].account] = row
      /\ \A a \in Accounts : account'[a].token = account[a].token \/ account'[a].token = request[c].token
  <2>1. account' = [account EXCEPT ![request[c].account] = row]
    BY <1>5 DEF UpsertSocialAccount
  <2> QED BY <1>1, <1>6, <2>1, UnderWay
<1>8. Carries(r)
  BY <1>1, <1>4 DEF Carries, At
<1>9. PagesInv' /\ StoredPages' = StoredPages
  BY <1>1 DEF PagesInv, StoredPages, ConnectionInv
<1>10. ~overlapped => Alone(r)'
  BY <1>1, <1>4, <1>6, <1>7, UnderWay DEF Alone, At
<1> QED BY <1>1, <1>3, <1>4, <1>7, <1>8, <1>9, <1>10, UnderWay, LaterStep

LEMMA SyncKeeps ==
    ASSUME ConnectionInv, NEW c \in Calls, NEW p \in Pages, SyncUserPage(c, p)
    PROVE  ConnectionInv'
<1>1. /\ At(c, "sync") /\ ~At(c, "idle") /\ UNCHANGED <<account, link, api, revoked, tokens, answered, rewritten>>
      /\ request[c] \in Request /\ Carries(request[c]) /\ p \in request[c].left
      /\ request[c].left \subseteq request[c].pages /\ request[c].pages \subseteq Pages
      /\ request[c].pages \ request[c].left \subseteq StoredPages
  BY Here DEF SyncUserPage, At
<1>2. PICK r : r = [request[c] EXCEPT !.left = @ \ {p}]
  OBVIOUS
<1>3. Continue(c, r) /\ page' = SyncedPages({p}, request[c])
  BY <1>2 DEF SyncUserPage
<1>4. /\ r \in Request /\ r.pc = "sync" /\ r.token = request[c].token
      /\ r.account = request[c].account /\ r.pages = request[c].pages
      /\ r.left = request[c].left \ {p}
  BY <1>1, <1>2 DEF Request, At
<1>5. /\ page' \in [Pages -> PageRow] /\ PagesInv' /\ StoredPages' = StoredPages \cup {p}
      /\ \A q \in {p} : page'[q].token = request[c].token
      /\ \A q \in Pages \ {p} : page'[q] = page[q]
  <2>1. {p} \in SUBSET request[c].left
    BY <1>1
  <2> QED BY <1>1, <1>3, <2>1, PagesSynced
<1>6. Carries(r)
  BY <1>1, <1>4 DEF Carries, At
<1>7. r.pages \ r.left \subseteq StoredPages'
  BY <1>1, <1>4, <1>5
<1>8. ASSUME ~overlapped PROVE Alone(r)'
  <2>1. Alone(request[c])
    BY <1>8, UnderWay
  <2>2. \A q \in r.pages \ r.left : page'[q].token = r.token
    BY <1>1, <1>4, <1>5, <2>1 DEF Alone, At
  <2> QED BY <1>1, <1>4, <2>1, <2>2 DEF Alone, At
<1> QED BY <1>1, <1>3, <1>4, <1>5, <1>6, <1>7, <1>8, UnderWay, LaterStep

LEMMA AnswerKeeps ==
    ASSUME ConnectionInv, NEW c \in Calls, AnswerCallback(c)
    PROVE  ConnectionInv'
<1>1. /\ At(c, "sync") /\ ~At(c, "idle") /\ UNCHANGED <<account, page, link, api, revoked, tokens, rewritten>>
      /\ request[c] \in Request /\ request[c].account \in Accounts
      /\ Continue(c, IdleRequest)
  BY Here, UnderWay DEF AnswerCallback, End, At
<1>2. answered' \subseteq [account : Accounts, token : Token, pages : SUBSET Pages]
  <2>1. [account |-> request[c].account, token |-> request[c].token, pages |-> request[c].pages]
           \in [account : Accounts, token : Token, pages : SUBSET Pages]
    BY <1>1 DEF Request
  <2> QED BY <2>1, UnderWay DEF AnswerCallback
<1>3. PagesInv' /\ StoredPages' = StoredPages
  BY <1>1 DEF PagesInv, StoredPages, ConnectionInv
<1>4. PICK r : r = IdleRequest
  OBVIOUS
<1>5. r \in Request /\ Carries(r) /\ r.pc = "idle" /\ r.token = 0
  BY <1>4, IdleIsRequest DEF Carries
<1>6. Alone(r)'
  BY <1>5 DEF Alone
<1> QED BY <1>1, <1>2, <1>3, <1>4, <1>5, <1>6, UnderWay, LaterStep

LEMMA EndKeeps ==
    ASSUME ConnectionInv, NEW c \in Calls, CallbackFails(c) \/ Disconnect(c)
    PROVE  ConnectionInv'
<1>1. /\ ~At(c, "idle") /\ UNCHANGED <<account, link, api, revoked, tokens, answered, rewritten>>
      /\ request[c] \in Request /\ Continue(c, IdleRequest)
  BY Here DEF CallbackFails, Disconnect, End, At
<1>2. page' \in [Pages -> PageRow] /\ PagesInv' /\ StoredPages \subseteq StoredPages'
  <2>1. CASE page' = page
    BY <1>1, <2>1, UnderWay DEF PagesInv, StoredPages
  <2>2. CASE /\ At(c, "sync")
             /\ \E late \in SUBSET request[c].left : page' = SyncedPages(late, request[c])
    BY <1>1, <2>2, PagesSynced
  <2> QED BY <2>1, <2>2 DEF CallbackFails, Disconnect
<1>3. PICK r : r = IdleRequest
  OBVIOUS
<1>4. r \in Request /\ Carries(r) /\ r.pc = "idle" /\ r.token = 0
  BY <1>3, IdleIsRequest DEF Carries
<1>5. Alone(r)'
  BY <1>4 DEF Alone
<1> QED BY <1>1, <1>2, <1>3, <1>4, <1>5, UnderWay, LaterStep

(* And so do the requests that are one step.                                   *)
LEMMA TokensKeepKnown ==
    ASSUME ConnectionInv, Count, \A c \in Calls : request'[c].pc = request[c].pc,
           \/ tokens' = tokens
           \/ tokens' = tokens + 1
    PROVE  /\ tokens' \in Token /\ tokens' \in Nat /\ tokens <= tokens' /\ Counted'
           /\ \A n \in Token : n <= tokens => n <= tokens'
<1>1. ConnectionTypeOK /\ Counted /\ tokens \in Nat
  BY ConnectionAssumption DEF ConnectionInv, ConnectionTypeOK, Token
<1>2. calls' = calls + 1 /\ calls' \in 0..MaxCalls /\ calls \in Nat
  BY <1>1, CountOne
<1>3. Exchanging' = Exchanging
  BY DEF Exchanging, At
<1>4. IsFiniteSet(Exchanging) /\ Cardinality(Exchanging) \in Nat
  BY <1>1, FS_CardinalityType DEF Counted
<1>5. tokens + Cardinality(Exchanging) <= calls
  BY <1>1 DEF Counted
<1>6. tokens' \in Nat /\ tokens <= tokens' /\ tokens' <= tokens + 1
  BY <1>1
<1>7. tokens' + Cardinality(Exchanging) <= calls'
  BY <1>1, <1>2, <1>4, <1>5, <1>6
<1>8. tokens' \in Token
  BY <1>2, <1>4, <1>6, <1>7, ConnectionAssumption DEF Token
<1>9. \A n \in Token : n <= tokens => n <= tokens'
  BY <1>1, <1>6, ConnectionAssumption DEF Token
<1> QED BY <1>3, <1>4, <1>6, <1>7, <1>8, <1>9 DEF Counted

LEMMA RevokeAccessKeeps ==
    ASSUME ConnectionInv, NEW u \in MetaUsers, RevokeAccess(u)
    PROVE  ConnectionInv'
<1>1. /\ Count /\ UNCHANGED <<account, page, link, api, tokens, request, answered, rewritten>>
      /\ revoked' \subseteq revoked \cup {account[<<o, u>>].token : o \in Organizations}
  BY DEF RevokeAccess
<1>2. ConnectionTypeOK /\ Known
  BY DEF ConnectionInv
<1>3. \A o \in Organizations : <<o, u>> \in Accounts
  BY DEF Accounts, People
<1>4. \A o \in Organizations : account[<<o, u>>].token \in Token /\ account[<<o, u>>].token <= tokens
  BY <1>2, <1>3 DEF ConnectionTypeOK, AccountRow, Known
<1>5. revoked' \subseteq Token /\ \A t \in revoked' : t <= tokens
  BY <1>1, <1>2, <1>4 DEF ConnectionTypeOK, Known
<1>6. Known'
  BY <1>1, <1>2, <1>5 DEF Known
<1>7. ConnectionTypeOK'
  BY <1>1, <1>2, <1>5, CountOne DEF ConnectionTypeOK
<1>8. Counted'
  BY <1>1, TokensKeepKnown
<1> QED BY <1>1, <1>6, <1>7, <1>8, OneStepKeeps

LEMMA UpsertKeeps ==
    ASSUME ConnectionInv, NEW a \in Accounts, Upsert(a)
    PROVE  ConnectionInv'
<1>1. /\ Count /\ tokens' = tokens + 1
      /\ UNCHANGED <<page, link, api, revoked, request, answered, rewritten>>
  BY DEF Upsert
<1>2. ConnectionTypeOK /\ Known
  BY DEF ConnectionInv
<1>3. /\ tokens' \in Token /\ tokens' \in Nat /\ tokens <= tokens' /\ Counted'
      /\ \A n \in Token : n <= tokens => n <= tokens'
  BY <1>1, TokensKeepKnown
<1>4. PICK row : row = Upserted(GivenToken(tokens + 1))
  OBVIOUS
<1>5. row \in AccountRow /\ row.token = tokens'
  BY <1>1, <1>3, <1>4 DEF Upserted, GivenToken, AccountRow
<1>6. account' = [account EXCEPT ![a] = row]
  BY <1>4 DEF Upsert
<1>7. ConnectionTypeOK'
  BY <1>1, <1>2, <1>3, <1>5, <1>6, CountOne DEF ConnectionTypeOK
<1>8. Known'
  <2>1. \A b \in Accounts : account[b].token \in Token /\ account[b].token <= tokens
    BY <1>2 DEF ConnectionTypeOK, AccountRow, Known
  <2>2. \A b \in Accounts : account'[b].token <= tokens'
    <3>1. account'[a].token <= tokens'
      BY <1>2, <1>3, <1>5, <1>6 DEF ConnectionTypeOK
    <3>2. \A b \in Accounts \ {a} : account'[b] = account[b]
      BY <1>2, <1>6 DEF ConnectionTypeOK
    <3> QED BY <1>3, <2>1, <3>1, <3>2
  <2>3. \A c \in Calls : request[c].token \in Token
    BY <1>2 DEF ConnectionTypeOK, Request
  <2>4. \A t \in revoked : t \in Token
    BY <1>2 DEF ConnectionTypeOK
  <2> QED BY <1>1, <1>2, <1>3, <2>2, <2>3, <2>4 DEF Known
<1> QED BY <1>1, <1>3, <1>7, <1>8, OneStepKeeps

(* A PATCH moves a row, with its pages and the callback that stores pages for  *)
(* it, to an account that counts as rewritten from then on.                    *)
LEMMA UpdateKeeps ==
    ASSUME ConnectionInv, NEW a \in Accounts, NEW b \in Accounts, NEW state \in {"active", "inactive"},
           Update(a, b, state)
    PROVE  ConnectionInv'
<1>1. Count /\ UNCHANGED <<link, api, revoked, answered>> /\ rewritten' = rewritten \cup ({b} \ {a})
  BY DEF Update
<1>2. ConnectionTypeOK /\ Known /\ CarriesInv /\ PagesInv /\ SyncInv
  BY DEF ConnectionInv
<1>3. \A c \in Calls : /\ request'[c] \in Request /\ request'[c].pc = request[c].pc
                       /\ request'[c].token = request[c].token
                       /\ request'[c].pages = request[c].pages /\ request'[c].left = request[c].left
                       /\ \/ request'[c].account = request[c].account
                          \/ At(c, "sync") /\ a # b /\ request'[c].account = b
  <2> SUFFICES ASSUME NEW c \in Calls
               PROVE  /\ request'[c] \in Request /\ request'[c].pc = request[c].pc
                      /\ request'[c].token = request[c].token
                      /\ request'[c].pages = request[c].pages /\ request'[c].left = request[c].left
                      /\ \/ request'[c].account = request[c].account
                         \/ At(c, "sync") /\ a # b /\ request'[c].account = b
    OBVIOUS
  <2>1. request[c] \in Request
    BY <1>2 DEF ConnectionTypeOK
  <2>2. PICK key : key = Rekeyed(request[c].account, a, b)
    OBVIOUS
  <2>3. request'[c] = IF At(c, "sync") THEN [request[c] EXCEPT !.account = key] ELSE request[c]
    BY <2>2 DEF Update
  <2>4. key = request[c].account \/ (a # b /\ key = b)
    BY <2>2 DEF Rekeyed
  <2> QED BY <2>1, <2>3, <2>4 DEF Request
<1>4. \A p \in Pages : /\ page'[p] \in PageRow /\ page'[p].token = page[p].token
                       /\ page'[p].account = Rekeyed(page[p].account, a, b)
  <2> SUFFICES ASSUME NEW p \in Pages
               PROVE  /\ page'[p] \in PageRow /\ page'[p].token = page[p].token
                      /\ page'[p].account = Rekeyed(page[p].account, a, b)
    OBVIOUS
  <2>1. page[p] \in PageRow
    BY <1>2 DEF ConnectionTypeOK
  <2>2. page'[p] = [page[p] EXCEPT !.account = Rekeyed(page[p].account, a, b)]
    BY DEF Update
  <2>3. Rekeyed(page[p].account, a, b) \in {page[p].account, b}
    BY DEF Rekeyed
  <2> QED BY <2>1, <2>2, <2>3 DEF PageRow
<1>5. StoredPages' = StoredPages
  BY <1>4, NobodyIsNoAccount DEF StoredPages, Rekeyed
<1>6. PICK given \in {account[a], GivenToken(tokens + 1)} :
         /\ tokens' = IF given = account[a] THEN tokens ELSE tokens + 1
         /\ account' = [account EXCEPT ![a] = NoRow, ![b] = [Upserted(given) EXCEPT !.state = state]]
  BY DEF Update
<1>7. /\ tokens' \in Token /\ tokens' \in Nat /\ tokens <= tokens' /\ Counted'
      /\ \A n \in Token : n <= tokens => n <= tokens'
  BY <1>1, <1>3, <1>6, TokensKeepKnown
<1>8. \A e \in Accounts : account[e] \in AccountRow /\ account[e].token \in Token /\ account[e].token <= tokens'
  BY <1>2, <1>7 DEF ConnectionTypeOK, AccountRow, Known
<1>9. given.token \in Token /\ given.token <= tokens' /\ given.encrypted \in BOOLEAN
  <2>1. CASE given = account[a]
    BY <1>8, <2>1 DEF AccountRow
  <2>2. CASE given # account[a]
    <3>1. given = GivenToken(tokens + 1) /\ tokens' = tokens + 1
      BY <1>6, <2>2
    <3>2. given.token = tokens' /\ given.encrypted = FALSE
      BY <3>1 DEF GivenToken
    <3>3. given.token \in Token /\ given.token <= tokens'
      BY <1>7, <3>2
    <3>4. given.encrypted \in BOOLEAN
      BY <3>2, Zenon
    <3> QED BY <3>3, <3>4
  <2> QED BY <2>1, <2>2
<1>10. PICK row : row = [Upserted(given) EXCEPT !.state = state]
  OBVIOUS
<1>11. row \in AccountRow /\ row.token <= tokens'
  BY <1>9, <1>10 DEF Upserted, AccountRow
<1>12. NoRow \in AccountRow /\ NoRow.token <= tokens'
  BY <1>7, ConnectionAssumption DEF NoRow, AccountRow, Token
<1>13. \A e \in Accounts : account'[e] \in {account[e], NoRow, row}
  BY <1>2, <1>6, <1>10 DEF ConnectionTypeOK
<1>14. account' \in [Accounts -> AccountRow] /\ \A e \in Accounts : account'[e].token <= tokens'
  BY <1>2, <1>6, <1>8, <1>11, <1>12, <1>13 DEF ConnectionTypeOK
<1>15. ConnectionTypeOK'
  <2>1. request' \in [Calls -> Request] /\ page' \in [Pages -> PageRow]
    BY <1>3, <1>4 DEF Update
  <2>2. rewritten' \subseteq Accounts
    BY <1>1, <1>2 DEF ConnectionTypeOK
  <2> QED BY <1>1, <1>2, <1>7, <1>14, <2>1, <2>2, CountOne DEF ConnectionTypeOK
<1>16. Known'
  <2>1. \A c \in Calls : request'[c].token <= tokens'
    BY <1>2, <1>3, <1>7 DEF ConnectionTypeOK, Request, Known
  <2>2. \A t \in revoked : t <= tokens'
    BY <1>2, <1>7 DEF ConnectionTypeOK, Known
  <2> QED BY <1>1, <1>14, <2>1, <2>2 DEF Known
<1>17. CarriesInv'
  <2> SUFFICES ASSUME NEW c \in Calls PROVE Carries(request[c])'
    BY DEF CarriesInv
  <2>1. Carries(request[c])
    BY <1>2 DEF CarriesInv
  <2>2. CASE request'[c].account = request[c].account
    BY <1>1, <1>3, <2>1, <2>2 DEF Carries
  <2>3. CASE At(c, "sync") /\ a # b /\ request'[c].account = b
    BY <1>1, <1>3, <2>1, <2>3 DEF Carries, At
  <2> QED BY <1>3, <2>2, <2>3
<1>18. PagesInv'
  BY <1>1, <1>2, <1>4, <1>5 DEF PagesInv, Rekeyed, StoredPages
<1>19. SyncInv'
  BY <1>2, <1>3, <1>5 DEF SyncInv, At
<1>20. SoloInv'
  <2>1. ~overlapped' => \A d \in Calls : At(d, "idle")
    BY <1>1, <1>2, CountOne
  <2>2. \A d \in Calls : At(d, "idle") => At(d, "idle")' /\ Alone(request[d])'
    BY <1>3 DEF At, Alone
  <2> QED BY <2>1, <2>2 DEF SoloInv
<1> QED BY <1>7, <1>15, <1>16, <1>17, <1>18, <1>19, <1>20 DEF ConnectionInv

LEMMA UseApiKeeps ==
    ASSUME ConnectionInv, NEW u \in MetaUsers, UseApi(u)
    PROVE  ConnectionInv'
<1>1. /\ Count /\ UNCHANGED <<account, page, link, revoked, tokens, request, answered, rewritten>>
      /\ api' = u
  BY DEF UseApi, InitMetaAPI
<1>2. ConnectionTypeOK /\ Known
  BY DEF ConnectionInv
<1>3. ConnectionTypeOK'
  BY <1>1, <1>2, CountOne DEF ConnectionTypeOK
<1>4. Known'
  BY <1>1, <1>2 DEF Known
<1>5. Counted'
  BY <1>1, TokensKeepKnown
<1> QED BY <1>1, <1>3, <1>4, <1>5, OneStepKeeps

(* The requests with steps to come only begin.                                 *)
LEMMA RequestKeeps ==
    ASSUME ConnectionInv, NEW c \in Calls, NEW o \in Organizations
    PROVE  /\ \A m \in Members : HandleOAuthCallback(c, o, m) => ConnectionInv'
           /\ \A u \in MetaUsers : HandleMetaCallback(c, o, u) => ConnectionInv'
           /\ \A a \in Accounts : DisconnectAccount(c, a) => ConnectionInv'
<1>1. ASSUME NEW m \in People, HandleOAuthCallback(c, o, m) \/ HandleMetaCallback(c, o, m)
      PROVE  ConnectionInv'
  <2>1. PICK a \in Accounts : a = <<o, m>>
    BY DEF Accounts
  <2>2. Begin(c, [IdleRequest EXCEPT !.pc = "exchange", !.account = a])
    BY <1>1, <2>1 DEF HandleOAuthCallback, HandleMetaCallback
  <2>3. UNCHANGED <<account, page, link, api, revoked, tokens, answered, rewritten>>
    BY <1>1 DEF HandleOAuthCallback, HandleMetaCallback
  <2> QED BY <2>2, <2>3, BeginKeeps
<1>2. ASSUME NEW a \in Accounts, DisconnectAccount(c, a) PROVE ConnectionInv'
  <2>1. /\ Begin(c, [IdleRequest EXCEPT !.pc = "disconnect", !.account = a])
        /\ UNCHANGED <<account, page, link, api, tokens, answered, rewritten>>
    BY <1>2 DEF DisconnectAccount
  <2>2. revoked' \subseteq revoked \cup {account[e].token : e \in Accounts}
    BY <1>2 DEF DisconnectAccount, RevokeTokens, RevokeToken
  <2> QED BY <2>1, <2>2, BeginKeeps
<1> QED BY <1>1, <1>2 DEF People

-------------------------------------------------------------------------------
(* The theorems.                                                               *)

(* Each of the two services' callbacks, disconnect and the other requests, in  *)
(* any order and overlapping as they may, keep the invariant.                  *)
THEOREM ConnectionInvariant == ConnectionSpec => []ConnectionInv
<1>1. ConnectionInit => ConnectionInv
  BY InitConnections
<1>2. ConnectionInv /\ [ConnectionNext]_connectionVars => ConnectionInv'
  <2> SUFFICES ASSUME ConnectionInv, [ConnectionNext]_connectionVars PROVE ConnectionInv'
    OBVIOUS
  <2>1. CASE IntegrationRequest
    <3>1. ASSUME NEW o \in Organizations, GetAuthUrl(o) PROVE ConnectionInv'
      BY <3>1, LinkKeeps
    <3>2. ASSUME NEW c \in Calls, NEW o \in Organizations, NEW m \in Members,
                 HandleOAuthCallback(c, o, m)
          PROVE  ConnectionInv'
      BY <3>2, RequestKeeps
    <3>3. ASSUME NEW c \in Calls, NEW a \in Accounts, DisconnectAccount(c, a) PROVE ConnectionInv'
      <4>1. \E o \in Organizations : TRUE
        BY DEF Accounts
      <4> QED BY <3>3, <4>1, RequestKeeps
    <3> QED BY <2>1, <3>1, <3>2, <3>3 DEF IntegrationRequest
  <2>2. CASE MetaRequest
    <3>1. ASSUME NEW o \in Organizations, GenerateAuthUrl(o) PROVE ConnectionInv'
      BY <3>1, LinkKeeps
    <3>2. ASSUME NEW u \in MetaUsers, VerifyUserAccessToken(u) \/ PublishToInstagram(u)
          PROVE  ConnectionInv'
      BY <3>2, UseApiKeeps DEF VerifyUserAccessToken, PublishToInstagram
    <3>3. ASSUME NEW u \in MetaUsers, RevokeAccess(u) PROVE ConnectionInv'
      BY <3>3, RevokeAccessKeeps
    <3>4. ASSUME NEW u \in MetaUsers, NEW c \in Calls, NEW o \in Organizations,
                 HandleMetaCallback(c, o, u)
          PROVE  ConnectionInv'
      BY <3>4, RequestKeeps
    <3> QED BY <2>2, <3>1, <3>2, <3>3, <3>4 DEF MetaRequest
  <2>3. CASE AccountRequest
    BY <2>3, UpsertKeeps, UpdateKeeps DEF AccountRequest
  <2>4. CASE \E o \in Organizations : LinkExpires(o)
    BY <2>4, LinkKeeps
  <2>5. ASSUME NEW c \in Calls, CallbackStep(c) PROVE ConnectionInv'
    <3>1. CASE NewToken(c)
      BY <3>1, NewTokenKeeps
    <3>2. CASE GetMemberProfile(c) \/ GetUserProfile(c)
      BY <3>2, ProfileKeeps
    <3>3. CASE GetUserPages(c)
      BY <3>3, PagesKeep
    <3>4. CASE UpsertSocialAccount(c)
      BY <3>4, UpsertAccountKeeps
    <3>5. CASE \E p \in Pages : SyncUserPage(c, p)
      BY <3>5, SyncKeeps
    <3>6. CASE AnswerCallback(c)
      BY <3>6, AnswerKeeps
    <3> QED BY <2>5, <3>1, <3>2, <3>3, <3>4, <3>5, <3>6
            DEF CallbackStep, ExchangeCodeForTokens, ExchangeCodeForToken
  <2>6. ASSUME NEW c \in Calls, CallbackFails(c) \/ Disconnect(c) PROVE ConnectionInv'
    BY <2>6, EndKeeps
  <2>7. CASE UNCHANGED connectionVars
    BY <2>7 DEF connectionVars, ConnectionInv, ConnectionTypeOK, Counted, Exchanging, At, Known,
                CarriesInv, Carries, PagesInv, StoredPages, SyncInv, SoloInv, Alone
  <2> QED BY <2>1, <2>2, <2>3, <2>4, <2>5, <2>6, <2>7 DEF ConnectionNext
<1> QED BY <1>1, <1>2, PTL DEF ConnectionSpec

(* Every row of a social account, of a page and of a request has its type, and *)
(* no more tokens are handed out than there were requests.                     *)
THEOREM ConnectionTypeCorrect == ConnectionSpec => []ConnectionTypeOK
<1>1. ConnectionInv => ConnectionTypeOK
  BY DEF ConnectionInv
<1> QED BY <1>1, ConnectionInvariant, PTL

(* A page row belongs to an account whose user manages the page, whichever     *)
(* callbacks overlap (getUserPages, syncUserPages), and whatever PATCH gives   *)
(* account rows to other users: only the pages of such a row go with it.       *)
THEOREM PagesOwned == ConnectionSpec => []PagesOfTheirUser
<1>1. ConnectionInv => PagesOfTheirUser
  BY DEF ConnectionInv, PagesInv, PagesOfTheirUser
<1> QED BY <1>1, ConnectionInvariant, PTL

(* A callback that answers success has stored every page of the user's, and if *)
(* no request overlapped another the account is active and it and its pages    *)
(* have the new token, one that was not revoked.                               *)
THEOREM AnswerConnects == ConnectionSpec => AnsweredIsConnected
<1>1. ConnectionInv /\ [ConnectionNext]_connectionVars =>
        [\A a \in answered' \ answered :
            /\ a.pages \subseteq StoredPages'
            /\ ~overlapped' => /\ account[a.account]'.state = "active"
                               /\ account[a.account]'.token = a.token /\ a.token \notin revoked'
                               /\ \A p \in a.pages : page[p]'.token = a.token]_connectionVars
  <2> SUFFICES ASSUME ConnectionInv, [ConnectionNext]_connectionVars, NEW a \in answered' \ answered
               PROVE  /\ a.pages \subseteq StoredPages'
                      /\ ~overlapped' => /\ account[a.account]'.state = "active"
                                         /\ account[a.account]'.token = a.token /\ a.token \notin revoked'
                                         /\ \A p \in a.pages : page[p]'.token = a.token
    OBVIOUS
  <2>1. answered' # answered
    OBVIOUS
  <2>2. PICK c \in Calls : AnswerCallback(c)
    <3>1. UNCHANGED connectionVars => answered' = answered
      BY DEF connectionVars
    <3>2. IntegrationRequest \/ MetaRequest \/ AccountRequest => answered' = answered
      BY DEF IntegrationRequest, MetaRequest, AccountRequest, GetAuthUrl, HandleOAuthCallback,
             DisconnectAccount, GenerateAuthUrl, VerifyUserAccessToken, PublishToInstagram, UseApi,
             RevokeAccess, HandleMetaCallback, Upsert, Update
    <3>3. \A o \in Organizations : LinkExpires(o) => answered' = answered
      BY DEF LinkExpires
    <3>4. \A c \in Calls : CallbackFails(c) \/ Disconnect(c) => answered' = answered
      BY DEF CallbackFails, Disconnect
    <3>5. \A c \in Calls : CallbackStep(c) => answered' = answered \/ AnswerCallback(c)
      BY DEF CallbackStep, ExchangeCodeForTokens, ExchangeCodeForToken, NewToken, GetMemberProfile,
             GetUserProfile, GetUserPages, UpsertSocialAccount, SyncUserPage
    <3> QED BY <2>1, <3>1, <3>2, <3>3, <3>4, <3>5 DEF ConnectionNext
  <2>3. /\ At(c, "sync") /\ request[c].left = {}
        /\ UNCHANGED <<account, page, link, api, revoked, tokens, overlapped>>
    BY <2>2 DEF AnswerCallback, Synced, End, Continue
  <2>4. a.account = request[c].account /\ a.token = request[c].token /\ a.pages = request[c].pages
    BY <2>2 DEF AnswerCallback
  <2>5. a.pages \subseteq StoredPages'
    BY <2>3, <2>4, Here DEF StoredPages
  <2>6. ASSUME ~overlapped'
        PROVE  /\ account[a.account]'.state = "active"
               /\ account[a.account]'.token = a.token /\ a.token \notin revoked'
               /\ \A p \in a.pages : page[p]'.token = a.token
    <3>1. Alone(request[c])
      BY <2>3, <2>6, UnderWay
    <3>2. account[a.account]' = account[a.account] /\ \A p \in a.pages : page[p]' = page[p]
      BY <2>3
    <3> QED BY <2>3, <2>4, <3>1, <3>2 DEF Alone, At
  <2> QED BY <2>5, <2>6
<1> QED BY <1>1, ConnectionInvariant, PTL DEF ConnectionSpec, AnsweredIsConnected

===============================================================================
