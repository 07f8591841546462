-------------------------------- MODULE Sdk --------------------------------
(***************************************************************************)
(* DataClient of the JavaScript SDK (sdk/js/src): connect(), the redirect  *)
(* callback, getAccessToken() with its refresh, disconnect().  Every tab   *)
(* of a browser runs the same code: localStorage (the stored tokens and    *)
(* the registered client) is shared by all of them, sessionStorage (the    *)
(* pending authorization) belongs to one tab.  JavaScript runs a call to   *)
(* its next await without interruption; at an await any other call of any  *)
(* tab may run.  A response may never be heard: the page is left or closed *)
(* while the call is in flight, or the network fails.                      *)
(*                                                                         *)
(* The server's side is the part of the token and registration endpoints   *)
(* this code can observe: OAuthTokens has their statements.  A token that  *)
(* is still usable, no stored token, an expired token without a refresh    *)
(* token and a page load without code or error change no state; those      *)
(* paths of the code are stuttering steps and have no action.              *)
(***************************************************************************)
EXTENDS Naturals, Sequences

CONSTANTS Tabs,      \* browser tabs with the app open
          Calls,     \* asynchronous calls that can be in flight at the same time
          NoTab,     \* of a call not in flight
          MaxClient, \* bound: clients ever registered
          MaxFlow,   \* bound: authorizations ever started by connect()
          MaxGrant,  \* bound: codes ever issued
          MaxToken   \* bound: refresh tokens minted per grant

ASSUME SdkAssumption ==
    /\ NoTab \notin Tabs
    /\ MaxClient \in Nat /\ MaxFlow \in Nat /\ MaxGrant \in Nat /\ MaxToken \in Nat

VARIABLES
    store,    \* TokenStore: the tokens of localStorage
    cache,    \* the registered client_id of localStorage, 0 for none
    pending,  \* pending[t]: the pending authorization in sessionStorage
    url,      \* url[t]: the grant whose code t's location carries, 0 for none
    call,     \* call[c]: the call in flight
    flows,    \* flows[f]: the client of the f-th authorize URL
    grants,   \* the server's side of each code issued so far
    clients,  \* rows of oauth_clients
    excused   \* history: grants with overlapping refreshes or an unheard answer

sdkVars == <<store, cache, pending, url, call, flows, grants, clients, excused>>

ClientIds == 1..MaxClient
FlowIds   == 1..MaxFlow
GrantIds  == 1..MaxGrant

\* A flow number stands for the verifier and the state connect() drew for it.
NoPending == [flow |-> 0, client |-> 0]

\* refresh is 0 when no refresh token was granted; fresh says that expiresAt,
\* less the skew of ten seconds, is still ahead.
NoTokens == [grant |-> 0, refresh |-> 0, client |-> 0, fresh |-> FALSE]

\* srv is how far the server has got with the request: "sent", "read" (the
\* credential was found active) or "done"; an error answer ends the call, since
\* throwIfNotOK leaves everything as it was.  heard says that somebody
\* still waits for the answer; got is the refresh token the answer carries.
NoCall == [op |-> "none", tab |-> NoTab, srv |-> "sent", heard |-> FALSE,
           grant |-> 0, refresh |-> 0, client |-> 0, flow |-> 0, got |-> 0]

CallRecord == [op : {"none", "register", "exchange", "refresh"}, tab : Tabs \cup {NoTab},
               srv : {"sent", "read", "done"}, heard : BOOLEAN, grant : 0..MaxGrant,
               refresh : 0..MaxToken, client : 0..MaxClient, flow : 0..MaxFlow, got : 0..MaxToken]

\* code: the authorize code row; active: the refresh token that works, 0 for
\* none; minted: refresh tokens minted; dead: the grant's tokens are revoked.
GrantRecord == [flow : FlowIds, client : ClientIds, offline : BOOLEAN,
                code : {"active", "used"}, active : 0..MaxToken,
                minted : 0..MaxToken, dead : BOOLEAN]

SdkTypeOK ==
    /\ store \in [grant : 0..MaxGrant, refresh : 0..MaxToken, client : 0..MaxClient, fresh : BOOLEAN]
    /\ cache \in 0..MaxClient
    /\ pending \in [Tabs -> [flow : 0..MaxFlow, client : 0..MaxClient]]
    /\ url \in [Tabs -> 0..MaxGrant]
    /\ call \in [Calls -> CallRecord]
    /\ flows \in Seq(ClientIds) /\ Len(flows) <= MaxFlow
    /\ grants \in Seq(GrantRecord) /\ Len(grants) <= MaxGrant
    /\ clients \in 0..MaxClient
    /\ excused \subseteq GrantIds

SdkInit ==
    /\ store = NoTokens
    /\ cache = 0
    /\ pending = [t \in Tabs |-> NoPending]
    /\ url = [t \in Tabs |-> 0]
    /\ call = [c \in Calls |-> NoCall]
    /\ flows = <<>>
    /\ grants = <<>>
    /\ clients = 0
    /\ excused = {}

-----------------------------------------------------------------------------
(* Calls.                                                                  *)

\* A call reaches its await with the request on its way.
Send(c, r) ==
    /\ call[c] = NoCall
    /\ call' = [call EXCEPT ![c] = r]

Return(c) == call' = [call EXCEPT ![c] = NoCall]

\* The page of tab t goes away with every call it was waiting for.
Unheard(t) == [c \in Calls |-> IF call[c].tab = t
                               THEN [call[c] EXCEPT !.heard = FALSE] ELSE call[c]]

Refreshing(g) == \E c \in Calls : call[c].op = "refresh" /\ call[c].grant = g

-----------------------------------------------------------------------------
(* connect().                                                              *)

\* A fresh verifier and state overwrite the tab's pending authorization; the
\* page is still there until the browser arrives elsewhere.
BeginAuthorize(t, client) ==
    /\ Len(flows) < MaxFlow
    /\ flows' = Append(flows, client)
    /\ pending' = [pending EXCEPT ![t] = [flow |-> Len(flows) + 1, client |-> client]]

\* ensureClient: the registered client of localStorage, or one to register.
Connect(c, t) ==
    /\ \/ /\ cache # 0
          /\ BeginAuthorize(t, cache)
          /\ UNCHANGED call
       \/ /\ cache = 0
          /\ Send(c, [NoCall EXCEPT !.op = "register", !.tab = t, !.heard = TRUE])
          /\ UNCHANGED <<flows, pending>>
    /\ UNCHANGED <<store, cache, url, grants, clients, excused>>

\* The rest of connect(), once POST /oauth/register has answered.
Registered(c) ==
    /\ call[c].op = "register" /\ call[c].srv = "done" /\ call[c].heard
    /\ cache' = call[c].client
    /\ BeginAuthorize(call[c].tab, call[c].client)
    /\ Return(c)
    /\ UNCHANGED <<store, url, grants, clients, excused>>

-----------------------------------------------------------------------------
(* The authorize page, which is the server's.  An authorize URL can be     *)
(* gone back to, or opened in another tab, and answered again.             *)

Approve(t, f, offline) ==
    /\ f \in DOMAIN flows
    /\ Len(grants) < MaxGrant
    /\ grants' = Append(grants, [flow |-> f, client |-> flows[f], offline |-> offline,
                                 code |-> "active", active |-> 0, minted |-> 0, dead |-> FALSE])
    /\ url' = [url EXCEPT ![t] = Len(grants) + 1]
    /\ call' = Unheard(t)
    /\ UNCHANGED <<store, cache, pending, flows, clients, excused>>

\* The redirect carries an error: handleRedirectCallback() of the page it
\* loads drops the pending authorization, cleans the URL and throws.
Deny(t) ==
    /\ flows # <<>>
    /\ pending' = [pending EXCEPT ![t] = NoPending]
    /\ url' = [url EXCEPT ![t] = 0]
    /\ call' = Unheard(t)
    /\ UNCHANGED <<store, cache, flows, grants, clients, excused>>

-----------------------------------------------------------------------------
(* handleRedirectCallback(): the pending authorization and the parameters  *)
(* of the URL are gone before anything is looked at.                       *)

SendExchange(c, t, client) ==
    Send(c, [NoCall EXCEPT !.op = "exchange", !.tab = t, !.heard = TRUE,
                           !.grant = url[t], !.client = client, !.flow = pending[t].flow])

\* No pending authorization, or another state than connect() stored.
CallbackRefused(t) ==
    \/ pending[t] = NoPending
    \/ grants[url[t]].flow # pending[t].flow

ConsumeRedirect(t) ==
    /\ pending' = [pending EXCEPT ![t] = NoPending]
    /\ url' = [url EXCEPT ![t] = 0]

\* Fault: the code is exchanged first, the URL and sessionStorage cleaned after.
CallbackKeepsPending(c, t) ==
    /\ url[t] # 0
    /\ IF CallbackRefused(t)
       THEN ConsumeRedirect(t) /\ UNCHANGED call
       ELSE SendExchange(c, t, pending[t].client) /\ UNCHANGED <<pending, url>>
    /\ UNCHANGED <<store, cache, flows, grants, clients, excused>>

\* Fault: the client comes from the registration cache.
CallbackUsesCache(c, t) ==
    /\ url[t] # 0
    /\ ConsumeRedirect(t)
    /\ IF CallbackRefused(t) THEN UNCHANGED call ELSE SendExchange(c, t, cache)
    /\ UNCHANGED <<store, cache, flows, grants, clients, excused>>

HandleRedirectCallback(c, t) ==
    /\ url[t] # 0
    /\ ConsumeRedirect(t)
    /\ IF CallbackRefused(t) THEN UNCHANGED call ELSE SendExchange(c, t, pending[t].client)
    /\ UNCHANGED <<store, cache, flows, grants, clients, excused>>

-----------------------------------------------------------------------------
(* getAccessToken() and the token store.                                   *)

\* The stored token has expired and a refresh token came with it.
GetAccessToken(c, t) ==
    /\ store # NoTokens /\ ~store.fresh /\ store.refresh # 0
    /\ Send(c, [NoCall EXCEPT !.op = "refresh", !.tab = t, !.heard = TRUE, !.grant = store.grant,
                              !.refresh = store.refresh, !.client = store.client])
    /\ excused' = excused \cup {g \in {store.grant} : Refreshing(g)}
    /\ UNCHANGED <<store, cache, pending, url, flows, grants, clients>>

\* Fault: the refresh token sent wins over the one that came back.
StoredFallbackFirst(c) ==
    [grant |-> call[c].grant, client |-> call[c].client, fresh |-> TRUE,
     refresh |-> IF call[c].refresh # 0 THEN call[c].refresh ELSE call[c].got]

\* toStoredTokens: what came back, or the refresh token sent if none did.
StoredTokens(c) ==
    [grant |-> call[c].grant, client |-> call[c].client, fresh |-> TRUE,
     refresh |-> IF call[c].got # 0 THEN call[c].got ELSE call[c].refresh]

\* The answer of the token endpoint: both callers store the tokens.
TokensArrive(c) ==
    /\ call[c].op \in {"exchange", "refresh"} /\ call[c].srv = "done" /\ call[c].heard
    /\ store' = StoredTokens(c)
    /\ Return(c)
    /\ UNCHANGED <<cache, pending, url, flows, grants, clients, excused>>

Expire ==
    /\ store.fresh
    /\ store' = [store EXCEPT !.fresh = FALSE]
    /\ UNCHANGED <<cache, pending, url, call, flows, grants, clients, excused>>

Disconnect ==
    /\ store # NoTokens
    /\ store' = NoTokens
    /\ UNCHANGED <<cache, pending, url, call, flows, grants, clients, excused>>

-----------------------------------------------------------------------------
(* The server's side of a request.                                         *)

Kill(g) == grants' = [grants EXCEPT ![g].dead = TRUE, ![g].active = 0]

\* POST /oauth/register.
ServeRegister(c) ==
    /\ call[c].op = "register" /\ call[c].srv = "sent"
    /\ clients < MaxClient
    /\ clients' = clients + 1
    /\ call' = [call EXCEPT ![c].srv = "done", ![c].client = clients + 1]
    /\ UNCHANGED <<store, cache, pending, url, flows, grants, excused>>

\* The code and its PKCE request, or the refresh token, are those of this
\* client and still there.
Redeemable(c) ==
    LET g == grants[call[c].grant] IN
    /\ g.client = call[c].client
    /\ \/ call[c].op = "exchange" /\ g.code = "active" /\ g.flow = call[c].flow
       \/ call[c].op = "refresh" /\ g.active = call[c].refresh

\* One that was redeemed before: TOK-06, TOK-07.
Replayed(c) ==
    LET g == grants[call[c].grant] IN
    \/ call[c].op = "exchange" /\ g.code = "used"
    \/ call[c].op = "refresh" /\ g.active # call[c].refresh /\ ~g.dead

ServeRead(c) ==
    /\ call[c].op \in {"exchange", "refresh"} /\ call[c].srv = "sent"
    /\ IF Redeemable(c) THEN call' = [call EXCEPT ![c].srv = "read"] ELSE Return(c)
    /\ IF Replayed(c) THEN Kill(call[c].grant) ELSE UNCHANGED grants
    /\ UNCHANGED <<store, cache, pending, url, flows, clients, excused>>

\* The credential is deactivated by a conditional update, then the new pair
\* is inserted.
ServeIssue(c) ==
    LET g == grants[call[c].grant]
        n == IF g.offline THEN g.minted + 1 ELSE 0
    IN  /\ call[c].srv = "read" /\ Redeemable(c) /\ n <= MaxToken
        /\ grants' = [grants EXCEPT ![call[c].grant] =
                         [g EXCEPT !.code = "used", !.active = n, !.minted = n]]
        /\ call' = [call EXCEPT ![c].srv = "done", ![c].got = n]
        /\ UNCHANGED <<store, cache, pending, url, flows, clients, excused>>

\* Or nothing is inserted any more: the request's context is cancelled or a
\* statement fails.
ServeBreaksOff(c) ==
    /\ call[c].srv = "read" /\ Redeemable(c)
    /\ grants' = [grants EXCEPT ![call[c].grant].code = "used", ![call[c].grant].active = 0]
    /\ Return(c)
    /\ excused' = excused \cup {call[c].grant}
    /\ UNCHANGED <<store, cache, pending, url, flows, clients>>

\* Somebody else was first.
ServeLoses(c) ==
    /\ call[c].srv = "read" /\ ~Redeemable(c)
    /\ Return(c)
    /\ UNCHANGED <<store, cache, pending, url, flows, grants, clients, excused>>

\* Rate limit, expired credential, server error.
ServeRefuses(c) ==
    /\ call[c].op # "none" /\ call[c].srv = "sent"
    /\ Return(c)
    /\ UNCHANGED <<store, cache, pending, url, flows, grants, clients, excused>>

-----------------------------------------------------------------------------
(* Answers nobody hears.                                                   *)

NetworkFails(c) ==
    /\ call[c].heard
    /\ call' = [call EXCEPT ![c].heard = FALSE]
    /\ UNCHANGED <<store, cache, pending, url, flows, grants, clients, excused>>

CloseTab(t) ==
    /\ pending' = [pending EXCEPT ![t] = NoPending]
    /\ url' = [url EXCEPT ![t] = 0]
    /\ call' = Unheard(t)
    /\ UNCHANGED <<store, cache, flows, grants, clients, excused>>

\* The request never arrived, or its answer goes nowhere.
Vanish(c) ==
    /\ call[c].op # "none" /\ ~call[c].heard /\ call[c].srv # "read"
    /\ excused' = excused \cup {g \in {call[c].grant} : call[c].op = "refresh" /\ call[c].srv = "done"}
    /\ Return(c)
    /\ UNCHANGED <<store, cache, pending, url, flows, grants, clients>>

-----------------------------------------------------------------------------
Client(c) ==
    \/ \E t \in Tabs : Connect(c, t) \/ HandleRedirectCallback(c, t) \/ GetAccessToken(c, t)
    \/ Registered(c) \/ TokensArrive(c)

Serve(c) ==
    \/ ServeRegister(c) \/ ServeRead(c) \/ ServeIssue(c)
    \/ ServeBreaksOff(c) \/ ServeLoses(c) \/ ServeRefuses(c)

User(t) ==
    \/ \E f \in FlowIds, o \in BOOLEAN : Approve(t, f, o)
    \/ Deny(t) \/ CloseTab(t)

SdkNext ==
    \/ \E c \in Calls : Client(c) \/ Serve(c) \/ NetworkFails(c) \/ Vanish(c)
    \/ \E t \in Tabs : User(t)
    \/ Expire \/ Disconnect

SdkSpec == SdkInit /\ [][SdkNext]_sdkVars

-----------------------------------------------------------------------------
(* Properties.                                                             *)

\* The SDK sets off the server's reuse detection against its own grant only
\* by refreshing twice at once or by losing an answer: whatever connects,
\* callbacks, navigations and disconnects happen in between, a refresh token
\* or a code is never presented again after it was redeemed.
OnlyRacesKillGrants ==
    \A g \in DOMAIN grants : grants[g].dead => g \in excused

\* The stored refresh token is the one the server will accept, or a refresh
\* that will replace it is under way: tokens of another connect() overwriting
\* and being overwritten never leave a rotated-out token behind.
StoredTokenWorks ==
    LET g == store.grant IN
    store.refresh # 0 /\ g \notin excused =>
        \/ grants[g].active = store.refresh
        \/ \E c \in Calls : call[c].op = "refresh" /\ call[c].grant = g /\ call[c].srv = "done"
                            /\ call[c].got = grants[g].active

\* A code is exchanged with the verifier and the client of the connect() it
\* answers, also after connects of several tabs registered several clients.
ExchangesMatch ==
    \A c \in Calls : call[c].op = "exchange" =>
        /\ call[c].flow = grants[call[c].grant].flow
        /\ call[c].client = grants[call[c].grant].client

\* What dataClient.ts says of getAccessToken(), "transparently refreshing":
\* an app that is connected and only reads is never logged out by it.
RefreshIsTransparent ==
    \A g \in DOMAIN grants : ~grants[g].dead

\* What disconnect() says, "Forgets the locally stored tokens": nothing but a
\* new authorization brings tokens back.
DisconnectLasts ==
    [][store = NoTokens /\ store' # NoTokens =>
         \E c \in Calls : call[c].op = "exchange" /\ call'[c] = NoCall]_sdkVars
=============================================================================
