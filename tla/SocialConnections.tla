--------------------------- MODULE SocialConnections ----------------------------
(* How an organization connects accounts at the platforms (src/src/            *)
(* social-integration, src/src/social-account): the callback after the login   *)
(* exchanges a code for a token, asks who the user is, stores the account, and *)
(* for Meta stores the pages the user manages, all at once.  Only Meta and     *)
(* LinkedIn get that far: nobody stores the verifier the callback of X asks    *)
(* for, and the factory has no service for Facebook and Instagram.             *)
EXTENDS Naturals, FiniteSets

CONSTANTS
    Organizations,
    MetaUsers, Members,  \* people at Meta and at LinkedIn
    Pages, Manages,      \* [MetaUsers -> SUBSET Pages]
    Calls,               \* requests that can overlap
    MaxAccounts,         \* MAX_ACCOUNTS_PER_ORG
    MaxLinks,            \* bound on the links that are good at a time
    MaxCalls             \* bound on the requests; a new link counts for none, and the
                         \* last request has no new links after it

ASSUME ConnectionAssumption ==
    /\ Manages \in [MetaUsers -> SUBSET Pages]
    /\ MaxAccounts \in Nat /\ MaxLinks \in Nat /\ MaxCalls \in Nat
    /\ "none" \notin Organizations    \* Nobody is no account

VARIABLES
    account,    \* [Accounts -> AccountRow]
    page,       \* [Pages -> PageRow], the row unique per page
    link,       \* [Organizations -> SUBSET Sites], links to log in that are still good
    api,        \* the user whose token the Meta SDK has, one for the process
    revoked,    \* tokens revoked at the platform
    tokens,     \* tokens handed out so far, numbered
    request,    \* [Calls -> Request]
    calls,      \* requests so far
    answered,   \* history: the callbacks answered with success
    rewritten,  \* history: the accounts whose row a PATCH took from another one
    overlapped  \* history: two requests were ever open together

connectionVars ==
    <<account, page, link, api, revoked, tokens, request, calls, answered, rewritten, overlapped>>

People == MetaUsers \cup Members
Accounts == Organizations \X People
Nobody == <<"none", "nobody">>
Sites == {"meta", "linkedin"}
Token == 0..MaxCalls
AccountRow == [state : {"none", "active", "inactive"}, token : Token, encrypted : BOOLEAN]
NoRow == [state |-> "none", token |-> 0, encrypted |-> TRUE]
PageRow == [account : Accounts \cup {Nobody}, token : Token]
Request == [pc : {"idle", "exchange", "profile", "pages", "upsert", "sync", "disconnect"},
            account : Accounts \cup {Nobody}, token : Token, pages : SUBSET Pages, left : SUBSET Pages]
IdleRequest == [pc |-> "idle", account |-> Nobody, token |-> 0, pages |-> {}, left |-> {}]

ConnectionInit ==
    /\ account = [a \in Accounts |-> NoRow]
    /\ page = [p \in Pages |-> [account |-> Nobody, token |-> 0]]
    /\ link = [o \in Organizations |-> {}]
    /\ api = "nobody"
    /\ revoked = {} /\ tokens = 0
    /\ request = [c \in Calls |-> IdleRequest]
    /\ calls = 0
    /\ answered = {} /\ rewritten = {}
    /\ overlapped = FALSE

Active(o) == {a \in Accounts : a[1] = o /\ account[a].state = "active"}
StoredPages == {p \in Pages : page[p].account # Nobody}
At(c, pc) == request[c].pc = pc

MoreToCome == calls < MaxCalls
Count ==
    /\ MoreToCome
    /\ calls' = calls + 1
    /\ overlapped' = (overlapped \/ \E d \in Calls : ~At(d, "idle"))
Begin(c, r) == Count /\ At(c, "idle") /\ request' = [request EXCEPT ![c] = r]
Continue(c, r) ==
    /\ request' = [request EXCEPT ![c] = r]
    /\ UNCHANGED <<calls, overlapped>>
End(c) == Continue(c, IdleRequest)

-------------------------------------------------------------------------------
(* The login.  getAuthUrl of LinkedIn asks for the limit of accounts; what its *)
(* link carries back has no time limit.                                        *)
HasReachedAccountLimit(o) == Cardinality(Active(o)) >= MaxAccounts

BuildAuthUrl(o, site) ==
    /\ MoreToCome
    /\ Cardinality({good \in Organizations \X Sites : good[2] \in link[good[1]]}) < MaxLinks
    /\ link' = [link EXCEPT ![o] = @ \cup {site}]

GetAuthUrl(o) ==
    /\ ~HasReachedAccountLimit(o)
    /\ BuildAuthUrl(o, "linkedin")
    /\ UNCHANGED <<account, page, api, revoked, tokens, request, calls, answered, rewritten, overlapped>>

(* Meta's link is made without the test, and is good for ten minutes.          *)
GenerateAuthUrl(o) ==
    /\ BuildAuthUrl(o, "meta")
    /\ UNCHANGED <<account, page, api, revoked, tokens, request, calls, answered, rewritten, overlapped>>

LinkExpires(o) ==
    /\ MoreToCome
    /\ link' = [link EXCEPT ![o] = @ \ {"meta"}]
    /\ UNCHANGED <<account, page, api, revoked, tokens, request, calls, answered, rewritten, overlapped>>

(* handleOAuthCallback of the two services; a link may be used again.          *)
LinkIsGood(o) == "linkedin" \in link[o]

HandleOAuthCallback(c, o, m) ==
    /\ LinkIsGood(o)
    /\ Begin(c, [IdleRequest EXCEPT !.pc = "exchange", !.account = <<o, m>>])
    /\ UNCHANGED <<account, page, link, api, revoked, tokens, answered, rewritten>>

MetaLinkIsGood(o) == "meta" \in link[o]

HandleMetaCallback(c, o, u) ==
    /\ MetaLinkIsGood(o)
    /\ Begin(c, [IdleRequest EXCEPT !.pc = "exchange", !.account = <<o, u>>])
    /\ UNCHANGED <<account, page, link, api, revoked, tokens, answered, rewritten>>

(* The code is exchanged for a token,                                          *)
NewToken(c) ==
    /\ At(c, "exchange")
    /\ tokens' = tokens + 1
    /\ Continue(c, [request[c] EXCEPT !.pc = "profile", !.token = tokens + 1])
    /\ UNCHANGED <<account, page, link, api, revoked, answered, rewritten>>

ExchangeCodeForTokens(c) == request[c].account[2] \in Members /\ NewToken(c)
ExchangeCodeForToken(c) == request[c].account[2] \in MetaUsers /\ NewToken(c)

(* and the user of the token is read: LinkedIn with the token in the request,  *)
(* Meta with the SDK, which keeps it.                                          *)
GetMemberProfile(c) ==
    /\ At(c, "profile") /\ request[c].account[2] \in Members
    /\ Continue(c, [request[c] EXCEPT !.pc = "upsert"])
    /\ UNCHANGED <<account, page, link, api, revoked, tokens, answered, rewritten>>

InitMetaAPI(u) == api' = u

GetUserProfile(c) ==
    LET u == request[c].account[2] IN
    /\ At(c, "profile") /\ u \in MetaUsers
    /\ InitMetaAPI(u)
    /\ Continue(c, [request[c] EXCEPT !.pc = "pages"])
    /\ UNCHANGED <<account, page, link, revoked, tokens, answered, rewritten>>

(* getUserPages sets the SDK's token again, in the same step as the call.      *)
(* (Mutant: it takes the one that is there.)                                   *)
ListedAsLast(u) == api
ListedAs(u) == u

GetUserPages(c) ==
    LET u == ListedAs(request[c].account[2]) IN
    /\ At(c, "pages")
    /\ InitMetaAPI(u)
    /\ Continue(c, [request[c] EXCEPT !.pc = "upsert", !.pages = Manages[u], !.left = Manages[u]])
    /\ UNCHANGED <<account, page, link, revoked, tokens, answered, rewritten>>

(* upsertSocialAccount: a new row, or the old one with the token and active.   *)
(* A callback stores its tokens encrypted.                                     *)
EncryptTokens(token) == [token |-> token, encrypted |-> TRUE]
Upserted(stored) == [state |-> "active", token |-> stored.token, encrypted |-> stored.encrypted]

UpsertSocialAccount(c) ==
    LET r == request[c] IN
    /\ At(c, "upsert")
    /\ account' = [account EXCEPT ![r.account] = Upserted(EncryptTokens(r.token))]
    /\ Continue(c, [r EXCEPT !.pc = "sync"])
    /\ UNCHANGED <<page, link, api, revoked, tokens, answered, rewritten>>

(* syncUserPages: the pages all at once.  A page that is there already keeps   *)
(* its account and takes the token.  (Mutant: the id at the platform in the    *)
(* column of the account's.)                                                   *)
SyncedPagesMixedUp(ps, r) ==
    [p \in Pages |-> IF p \notin ps THEN page[p]
                     ELSE [account |-> IF p \in StoredPages THEN page[p].account ELSE r.account[2],
                           token |-> r.token]]

SyncedPages(ps, r) ==
    [p \in Pages |-> IF p \notin ps THEN page[p]
                     ELSE [account |-> IF p \in StoredPages THEN page[p].account ELSE r.account,
                           token |-> r.token]]

SyncUserPage(c, p) ==
    /\ At(c, "sync") /\ p \in request[c].left
    /\ page' = SyncedPages({p}, request[c])
    /\ Continue(c, [request[c] EXCEPT !.left = @ \ {p}])
    /\ UNCHANGED <<account, link, api, revoked, tokens, answered, rewritten>>

(* The success is answered when all of them are stored.  (Mutant: when the     *)
(* first is.)                                                                  *)
SyncedOne(r) == r.left # r.pages \/ r.pages = {}
Synced(r) == r.left = {}

AnswerCallback(c) ==
    LET r == request[c] IN
    /\ At(c, "sync") /\ Synced(r)
    /\ answered' = answered \cup {[account |-> r.account, token |-> r.token, pages |-> r.pages]}
    /\ End(c)
    /\ UNCHANGED <<account, page, link, api, revoked, tokens, rewritten>>

(* Any call to the platform or the database fails and the request with it;     *)
(* what has been stored stays, and of the pages others may still be stored.    *)
CallbackFails(c) ==
    /\ request[c].pc \notin {"idle", "disconnect"}
    /\ IF At(c, "sync") THEN \E late \in SUBSET request[c].left : page' = SyncedPages(late, request[c])
                        ELSE UNCHANGED page
    /\ End(c)
    /\ UNCHANGED <<account, link, api, revoked, tokens, answered, rewritten>>

-------------------------------------------------------------------------------
(* disconnectAccount reads the active row and revokes its token where there is *)
(* a service and the token can be decrypted; that this fails is only logged.   *)
FindById(a) == account[a].state = "active"

RevokeToken(token) == revoked' = revoked \cup {token}

RevokeTokens(a) ==
    \/ a[2] \in Members /\ account[a].encrypted /\ RevokeToken(account[a].token)
    \/ UNCHANGED revoked

DisconnectAccount(c, a) ==
    /\ FindById(a)
    /\ Begin(c, [IdleRequest EXCEPT !.pc = "disconnect", !.account = a])
    /\ RevokeTokens(a)
    /\ UNCHANGED <<account, page, link, api, tokens, answered, rewritten>>

(* The row is to be inactive and without a token, but the column is not null   *)
(* in the schema: the database client refuses and the account stays as it was. *)
(* DELETE /social-accounts/:id/disconnect is this step alone.                  *)
Disconnect(c) ==
    /\ At(c, "disconnect")
    /\ End(c)
    /\ UNCHANGED <<account, page, link, api, revoked, tokens, answered, rewritten>>

(* MetaController.revokeAccess: at Meta, for all tokens of a user's accounts;  *)
(* the rows are left as they are.                                              *)
RevokeAccess(u) ==
    LET ofUser == {account[<<o, u>>].token : o \in Organizations} \ {0} IN
    /\ ofUser # {} /\ Count
    /\ revoked' = revoked \cup ofUser
    /\ UNCHANGED <<account, page, link, api, tokens, request, answered, rewritten>>

(* POST /social-accounts: a token as it is given, not encrypted.               *)
GivenToken(token) == [token |-> token, encrypted |-> FALSE]

Upsert(a) ==
    /\ Count
    /\ tokens' = tokens + 1
    /\ account' = [account EXCEPT ![a] = Upserted(GivenToken(tokens + 1))]
    /\ UNCHANGED <<page, link, api, revoked, request, answered, rewritten>>

(* PATCH /social-accounts/:id writes what it is given: the account switched on *)
(* or off, a token, and another organization, platform or id at the platform,  *)
(* of which the organization must have no row.  The row keeps its id, and with *)
(* it its pages and the callback that is storing pages for it.                 *)
Rekeyed(key, a, b) == IF key = a THEN b ELSE key

Update(a, b, state) ==
    /\ account[a].state # "none"
    /\ a = b \/ account[b].state = "none"
    /\ Count
    /\ \E given \in {account[a], GivenToken(tokens + 1)} :
          /\ tokens' = IF given = account[a] THEN tokens ELSE tokens + 1
          /\ account' = [account EXCEPT ![a] = NoRow, ![b] = [Upserted(given) EXCEPT !.state = state]]
    /\ page' = [p \in Pages |-> [page[p] EXCEPT !.account = Rekeyed(@, a, b)]]
    /\ request' = [c \in Calls |-> IF At(c, "sync") THEN [request[c] EXCEPT !.account = Rekeyed(@, a, b)]
                                   ELSE request[c]]
    /\ rewritten' = rewritten \cup ({b} \ {a})
    /\ UNCHANGED <<link, api, revoked, answered>>

(* Requests that only use the SDK leave their token in it; that of a page      *)
(* counts as its user's.                                                       *)
UseApi(u) ==
    /\ Count
    /\ InitMetaAPI(u)
    /\ UNCHANGED <<account, page, link, revoked, tokens, request, answered, rewritten>>

VerifyUserAccessToken(u) == UseApi(u)
PublishToInstagram(u) == UseApi(u)

-------------------------------------------------------------------------------
(* The requests of the three controllers, and the steps of one under way.      *)
IntegrationRequest ==
    \/ \E o \in Organizations : GetAuthUrl(o)
    \/ \E c \in Calls, o \in Organizations, m \in Members : HandleOAuthCallback(c, o, m)
    \/ \E c \in Calls, a \in Accounts : DisconnectAccount(c, a)

MetaRequest ==
    \/ \E o \in Organizations : GenerateAuthUrl(o)
    \/ \E u \in MetaUsers :
          \/ VerifyUserAccessToken(u) \/ PublishToInstagram(u) \/ RevokeAccess(u)
          \/ \E c \in Calls, o \in Organizations : HandleMetaCallback(c, o, u)

AccountRequest ==
    \E a \in Accounts :
       \/ Upsert(a)
       \/ \E b \in Accounts, state \in {"active", "inactive"} : Update(a, b, state)

CallbackStep(c) ==
    \/ ExchangeCodeForTokens(c) \/ GetMemberProfile(c)
    \/ ExchangeCodeForToken(c) \/ GetUserProfile(c) \/ GetUserPages(c)
    \/ UpsertSocialAccount(c)
    \/ \E p \in Pages : SyncUserPage(c, p)
    \/ AnswerCallback(c)

ConnectionNext ==
    \/ IntegrationRequest \/ MetaRequest \/ AccountRequest
    \/ \E o \in Organizations : LinkExpires(o)
    \/ \E c \in Calls : CallbackStep(c) \/ CallbackFails(c) \/ Disconnect(c)

ConnectionSpec == ConnectionInit /\ [][ConnectionNext]_connectionVars

-------------------------------------------------------------------------------
(* Properties.                                                                 *)

ConnectionTypeOK ==
    /\ account \in [Accounts -> AccountRow]
    /\ page \in [Pages -> PageRow]
    /\ link \in [Organizations -> SUBSET Sites]
    /\ api \in MetaUsers \cup {"nobody"}
    /\ revoked \subseteq Token /\ tokens \in Token
    /\ request \in [Calls -> Request]
    /\ calls \in 0..MaxCalls
    /\ answered \subseteq [account : Accounts, token : Token, pages : SUBSET Pages]
    /\ rewritten \subseteq Accounts /\ overlapped \in BOOLEAN

(* A page is stored under an account whose user manages it: although the SDK   *)
(* has one token for the whole process (setDefaultApi), callbacks that overlap *)
(* do not list each other's pages, and a page that was connected before stays  *)
(* with an account that may have it.  Only a PATCH that gives an account's row *)
(* to another user hands over its pages too, so the accounts are excepted that *)
(* have a row of another one's.                                                *)
PagesOfTheirUser ==
    \A p \in StoredPages : page[p].account \in rewritten \/ p \in Manages[page[p].account[2]]

(* When a callback answers success every page of the user is stored, whatever  *)
(* overlaps or fails; and if no other request was open meanwhile the account   *)
(* is active and it and its pages have the new token, also after the account   *)
(* was switched off or its token revoked before ('Reactivate if previously     *)
(* disconnected').                                                             *)
AnsweredIsConnected ==
    [][\A a \in answered' \ answered :
          /\ a.pages \subseteq StoredPages'
          /\ ~overlapped' => /\ account[a.account]'.state = "active"
                             /\ account[a.account]'.token = a.token /\ a.token \notin revoked'
                             /\ \A p \in a.pages : page[p]'.token = a.token]_connectionVars

===============================================================================
