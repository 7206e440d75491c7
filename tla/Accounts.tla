------------------------------ MODULE Accounts ------------------------------
(***************************************************************************)
(* Staff accounts and their sessions: the users table with what may change *)
(* it (create, edit, bulk approval, deactivation, approval links, password *)
(* resets), and the browser that signs in, asks, refreshes silently and    *)
(* signs out from several tabs over one cookie.                            *)
(*                                                                         *)
(* A session is a pair of tokens with the generation users.auth_version    *)
(* had when they were minted.  A refresh token is spent when it is         *)
(* exchanged: its jti goes to revoked_tokens.  Every request is a step at  *)
(* the server and another one in the browser, and either may be lost.      *)
(*                                                                         *)
(* Abstracted: a password to how many resets came before it; expiry, to a  *)
(* refusal that may come at any moment; roles, permissions, profile        *)
(* fields, mail and audit rows.                                            *)
(***************************************************************************)
EXTENDS Naturals

CONSTANTS
    Users,
    AutoApprove,  \* auth.auto_approve_new_users
    Tabs,         \* tabs of one browser: they share its cookies
    Calls,        \* requests the browser may have under way ...
    TabOf,        \* ... and the tab each is of
    Desks,        \* administrators and holders of approval links
    MaxResets,    \* bound on users.auth_version
    MaxEvents,    \* bound on tokens minted and accounts changed, together
    None

VARIABLES
    user,      \* the users table
    revoked,   \* revoked_tokens: jtis
    minted,    \* tokens minted so far; the last one's jti
    jar,       \* the refresh cookie
    tab,       \* per tab: whose pages it shows, and its access token
    call,      \* requests of the browser
    desk,      \* requests on accounts that read a row before they write it
    lost,      \* history: the answer to a request that spent the cookie was lost
    edits      \* history: requests on accounts, and expiries of links, so far

server == <<user, revoked, minted>>
browser == <<jar, tab>>
vars == <<server, browser, call, desk, lost, edits>>

ASSUME TabOfAssumption == TabOf \in [Calls -> Tabs]
ASSUME AutoApproveAssumption == AutoApprove \in BOOLEAN
ASSUME BoundsAssumption == {MaxResets, MaxEvents} \subseteq Nat
ASSUME NoneAssumption ==
    None \notin Users \cup Tabs \cup [user : Users, gen : Nat, password : Nat, jti : Nat]

(* link is approval_token_hash with its expiry; reinstated is a history    *)
(* flag: an administrator has set is_active by hand.                       *)
Row == [provider : {"none", "local", "azure_ad"}, active : BOOLEAN, approved : BOOLEAN,
        rejected : BOOLEAN, link : {"none", "live", "expired"},
        password : Nat, gen : Nat, reinstated : BOOLEAN]

(* password: the one that was proved when the chain of tokens began.  An   *)
(* access token has no jti: 0.                                             *)
Token == [user : Users, gen : Nat, password : Nat, jti : Nat]
Tokens == Token \cup {None}

Tab == [as : Users \cup {None}, access : Tokens]

(* pc is the operation op while it is on its way to the server, "refresh"  *)
(* or "spending" (a refresh past its checks), or the answer on its way     *)
(* back.  sent and new are the tokens it carries; unspent: the refresh     *)
(* token was not revoked when it was sent; retry: the interceptor has      *)
(* refreshed for it; hydrate: it fills the store of a page just opened.    *)
Operations == {"login", "sso", "api", "logout"}
Call == [pc : Operations \cup {"idle", "refresh", "spending", "granted", "renewed", "left", "denied"},
         op : Operations, who : Users \cup {None}, password : Nat,
         sent : Tokens, new : Tokens, unspent : BOOLEAN, retry : BOOLEAN, hydrate : BOOLEAN]

Desk == [pc : {"idle", "resetting", "approving", "rejecting"},
         who : Users \cup {None}, gen : Nat, active : BOOLEAN]

Idle == [pc |-> "idle", op |-> "api", who |-> None, password |-> 0, sent |-> None,
         new |-> None, unspent |-> FALSE, retry |-> FALSE, hydrate |-> FALSE]
AtRest == [pc |-> "idle", who |-> None, gen |-> 0, active |-> FALSE]
Anonymous == [as |-> None, access |-> None]
Absent == [provider |-> "none", active |-> FALSE, approved |-> FALSE, rejected |-> FALSE,
           link |-> "none", password |-> 0, gen |-> 0, reinstated |-> FALSE]

TypeOK == /\ user \in [Users -> Row]
          /\ revoked \subseteq 1 .. minted
          /\ minted \in 0 .. MaxEvents
          /\ jar \in Tokens
          /\ tab \in [Tabs -> Tab]
          /\ call \in [Calls -> Call]
          /\ desk \in [Desks -> Desk]
          /\ lost \in BOOLEAN
          /\ edits \in 0 .. MaxEvents

Init == /\ user = [u \in Users |-> Absent]
        /\ revoked = {}
        /\ minted = 0
        /\ jar = None
        /\ tab = [t \in Tabs |-> Anonymous]
        /\ call = [k \in Calls |-> Idle]
        /\ desk = [d \in Desks |-> AtRest]
        /\ lost = FALSE
        /\ edits = 0

-----------------------------------------------------------------------------
(* Accounts *)

Room == minted + edits < MaxEvents
Edit == Room /\ edits' = edits + 1

There(u) == user[u].provider # "none"

\* No transaction under way holds the row: SELECT ... FOR UPDATE and UPDATE wait for it.
Free(u) == \A d \in Desks : desk[d].who = u => desk[d].pc # "resetting"

Registered(provider, gated) ==
    [Absent EXCEPT !.provider = provider, !.active = TRUE, !.approved = ~gated,
                   !.link = IF gated THEN "live" ELSE "none"]

\* create_user: gated accounts get an approval link, the others are approved.
Create(u, provider, gated) ==
    /\ ~There(u)
    /\ user' = [user EXCEPT ![u] = Registered(provider, gated)]
    /\ UNCHANGED <<revoked, minted, browser, call, desk, lost, edits>>

\* patch_user: is_active and is_approved are set apart from each other, from is_rejected
\* and from the link.
Patch(u, active, approved) ==
    /\ There(u) /\ Free(u)
    /\ user' = [user EXCEPT ![u].active = active, ![u].approved = approved,
                            ![u].reinstated = @ \/ (active /\ ~user[u].active)]
    /\ Edit
    /\ UNCHANGED <<revoked, minted, browser, call, desk, lost>>

\* bulk_approve, for one of its users: only is_approved is looked at.
BulkApprove(u) == /\ There(u) /\ Free(u) /\ ~user[u].approved
                  /\ user' = [user EXCEPT ![u].approved = TRUE]
                  /\ Edit
                  /\ UNCHANGED <<revoked, minted, browser, call, desk, lost>>

\* deactivate_user
Deactivate(u) == /\ There(u) /\ Free(u)
                 /\ user' = [user EXCEPT ![u].active = FALSE]
                 /\ Edit
                 /\ UNCHANGED <<revoked, minted, browser, call, desk, lost>>

\* The link's seven days are over.
LinkExpires(u) == /\ user[u].link = "live"
                  /\ user' = [user EXCEPT ![u].link = "expired"]
                  /\ Edit
                  /\ UNCHANGED <<revoked, minted, browser, call, desk, lost>>

\* _load_by_token answers "valid".
LinkIsValid(u) == user[u].link = "live" /\ ~user[u].approved /\ ~user[u].rejected

\* approve_via_token, reject_via_token: the row is read without a lock ...
OpenLink(d, u, decision) ==
    /\ desk[d].pc = "idle"
    /\ LinkIsValid(u)
    /\ desk' = [desk EXCEPT ![d] = [AtRest EXCEPT !.pc = decision, !.who = u,
                                                  !.active = user[u].active]]
    /\ Edit
    /\ UNCHANGED <<server, browser, call, lost>>

\* Mutant: a rejection leaves the account active.
Decided_OnPaper(d, r) == IF desk[d].pc = "approving"
                         THEN [r EXCEPT !.approved = TRUE, !.link = "none"]
                         ELSE [r EXCEPT !.rejected = TRUE, !.link = "none"]

\* ... and only the columns that the request changed are written: is_active is not when
\* the account was read inactive.
Decided(d, r) == IF desk[d].pc = "approving"
                 THEN [r EXCEPT !.approved = TRUE, !.link = "none"]
                 ELSE [r EXCEPT !.rejected = TRUE, !.link = "none",
                                !.active = @ /\ ~desk[d].active]

Decide(d) == /\ desk[d].pc \in {"approving", "rejecting"}
             /\ Free(desk[d].who)
             /\ user' = [user EXCEPT ![desk[d].who] = Decided(d, @)]
             /\ desk' = [desk EXCEPT ![d] = AtRest]
             /\ UNCHANGED <<revoked, minted, browser, call, lost, edits>>

\* Mutant: SELECT without FOR UPDATE.
ResetMayRead_PlainSelect(u) == user[u].provider = "local"

\* get the row FOR UPDATE; only local accounts have a password to set.
ResetMayRead(u) == user[u].provider = "local" /\ Free(u)

\* reset_user_password: auth_version is read under the lock ...
BeginReset(d, u) ==
    /\ desk[d].pc = "idle"
    /\ user[u].gen < MaxResets
    /\ ResetMayRead(u)
    /\ desk' = [desk EXCEPT ![d] = [AtRest EXCEPT !.pc = "resetting", !.who = u,
                                                  !.gen = user[u].gen]]
    /\ Edit
    /\ UNCHANGED <<server, browser, call, lost>>

\* ... and the new hash committed with the next generation.
CommitReset(d) ==
    /\ desk[d].pc = "resetting"
    /\ user' = [user EXCEPT ![desk[d].who].password = @ + 1,
                            ![desk[d].who].gen = desk[d].gen + 1]
    /\ desk' = [desk EXCEPT ![d] = AtRest]
    /\ UNCHANGED <<revoked, minted, browser, call, lost, edits>>

\* The request is rolled back: its COMMIT failed or the client went away.
Abandon(d) == /\ desk[d].pc # "idle"
              /\ desk' = [desk EXCEPT ![d] = AtRest]
              /\ UNCHANGED <<server, browser, call, lost, edits>>

-----------------------------------------------------------------------------
(* The browser sends *)

Send(k, c) == /\ call[k].pc = "idle"
              /\ call' = [call EXCEPT ![k] = c]
              /\ UNCHANGED <<server, browser, desk, lost, edits>>

TabAs(k) == tab[TabOf[k]].as

Unspent(token) == token # None /\ token.jti \notin revoked

\* The login form, with the password of now or one of before; or the identity provider.
SignIn(k, u, op, password) ==
    /\ TabAs(k) = None
    /\ password <= user[u].password
    /\ Send(k, [Idle EXCEPT !.pc = op, !.op = op, !.who = u, !.password = password])

\* Any page's request, with the tab's access token.
Ask(k) == /\ TabAs(k) # None
          /\ Send(k, [Idle EXCEPT !.pc = "api", !.sent = tab[TabOf[k]].access])

\* AuthBootstrap: a page that is opened refreshes at once, then hydrates.
Bootstrap(k) == /\ TabAs(k) = None
                /\ Send(k, [Idle EXCEPT !.pc = "refresh", !.sent = jar, !.unspent = Unspent(jar),
                                        !.hydrate = TRUE])

SignOut(k) == /\ TabAs(k) # None
              /\ Send(k, [Idle EXCEPT !.pc = "logout", !.op = "logout", !.sent = jar])

\* The page is loaded anew: what only the store held is gone, sessionStorage is not.
Reload(t) == /\ tab[t].as # None
             /\ \A k \in Calls : TabOf[k] = t => call[k].pc = "idle"
             /\ tab' = [tab EXCEPT ![t].as = None]
             /\ UNCHANGED <<server, jar, call, desk, lost, edits>>

-----------------------------------------------------------------------------
(* The server answers *)

Answer(k, c) == call' = [call EXCEPT ![k] = c]

\* get_current_user, and the same gates of refresh.
Honours(token) == /\ token # None
                  /\ There(token.user) /\ user[token.user].active
                  /\ token.gen = user[token.user].gen

\* Mutant: the claim is left out.
Minted_NoClaim(u, password) ==
    [user |-> u, gen |-> None, password |-> password, jti |-> minted + 1]

\* encode_access_token, encode_refresh_token: the generation live at mint time.
Minted(u, password) ==
    [user |-> u, gen |-> user[u].gen, password |-> password, jti |-> minted + 1]

Mint(k, u, password) == /\ Room
                        /\ minted' = minted + 1
                        /\ Answer(k, [Idle EXCEPT !.pc = "granted", !.new = Minted(u, password)])

Knows(u, password) == /\ user[u].provider = "local" /\ user[u].active
                      /\ user[u].password = password

\* login: an active local account, its password, and approval.
Login(k) == /\ call[k].pc = "login"
            /\ Knows(call[k].who, call[k].password)
            /\ user[call[k].who].approved
            /\ Mint(k, call[k].who, call[k].password)
            /\ UNCHANGED <<user, revoked, browser, desk, lost, edits>>

\* sso_callback: is_active is not looked at.
SsoCallback(k) == LET u == call[k].who IN
                  /\ call[k].pc = "sso"
                  /\ user[u].provider = "azure_ad" /\ user[u].approved
                  /\ Mint(k, u, 0)
                  /\ UNCHANGED <<user, revoked, browser, desk, lost, edits>>

\* An identity seen for the first time gets an account, which the 403 rolls back unless new
\* users are approved at once.
SsoFirstTouch(k) == LET u == call[k].who IN
                    /\ call[k].pc = "sso"
                    /\ ~There(u) /\ AutoApprove
                    /\ user' = [user EXCEPT ![u] = Registered("azure_ad", FALSE)]
                    /\ Mint(k, u, 0)
                    /\ UNCHANGED <<revoked, browser, desk, lost, edits>>

\* The request is served as its user's; a hydrated page shows that user.
Serve(k) == LET c == call[k] IN
            /\ c.pc = "api"
            /\ Honours(c.sent)
            /\ tab' = IF c.hydrate THEN [tab EXCEPT ![TabOf[k]].as = c.sent.user] ELSE tab
            /\ call' = [call EXCEPT ![k] = Idle]
            /\ UNCHANGED <<server, jar, desk, lost, edits>>

\* 401, for a wrong password or a token that is refused or has expired: the interceptor
\* refreshes once, with the cookie of now.
Refuse(k) ==
    /\ \/ call[k].pc = "api"
       \/ call[k].pc = "login" /\ ~Knows(call[k].who, call[k].password)
    /\ ~call[k].retry
    /\ call' = [call EXCEPT ![k].pc = "refresh", ![k].sent = jar, ![k].retry = TRUE,
                            ![k].unspent = Unspent(jar)]
    /\ UNCHANGED <<server, browser, desk, lost, edits>>

\* Mutant: the blocklist is not consulted.
MaySpend_Unlisted(token) == Honours(token)

MaySpend(token) == Unspent(token) /\ Honours(token)

\* refresh reads the blocklist and the user ...
CheckRefresh(k) == /\ call[k].pc = "refresh"
                   /\ Answer(k, IF MaySpend(call[k].sent) THEN [call[k] EXCEPT !.pc = "spending"]
                                ELSE [Idle EXCEPT !.pc = "denied", !.op = call[k].op,
                                                  !.hydrate = call[k].hydrate])
                   /\ UNCHANGED <<server, browser, desk, lost, edits>>

\* ... then lists the old jti (ON CONFLICT DO NOTHING) and commits: of two requests past
\* the check, both get a new pair.
Spend(k) == LET old == call[k].sent IN
            /\ call[k].pc = "spending"
            /\ Room
            /\ minted' = minted + 1
            /\ revoked' = revoked \cup {old.jti}
            /\ Answer(k, [call[k] EXCEPT !.pc = "renewed", !.unspent = FALSE,
                                         !.new = [old EXCEPT !.jti = minted + 1]])
            /\ UNCHANGED <<user, browser, desk, lost, edits>>

\* logout: the cookie's token is listed, whatever else holds of it.
Logout(k) == /\ call[k].pc = "logout"
             /\ revoked' = IF call[k].sent = None THEN revoked
                           ELSE revoked \cup {call[k].sent.jti}
             /\ Answer(k, [call[k] EXCEPT !.pc = "left"])
             /\ UNCHANGED <<user, minted, browser, desk, lost, edits>>

-----------------------------------------------------------------------------
(* The browser receives *)

\* Mutant: the rotated token is not set as the cookie.
JarWith_OldCookie(c) == IF c.pc = "renewed" THEN jar ELSE c.new

\* _set_refresh_cookie
JarWith(c) == c.new

Access(token) == [token EXCEPT !.jti = 0]

\* Stores the pair, and goes on with what the refresh was for, or hydrates after a login.
Store(k) ==
    LET c == call[k] IN
    /\ c.pc \in {"granted", "renewed"}
    /\ jar' = JarWith(c)
    /\ tab' = [tab EXCEPT ![TabOf[k]].access = Access(c.new)]
    /\ call' = [call EXCEPT ![k] =
                  IF c.pc = "renewed" /\ c.op = "login"
                  THEN [c EXCEPT !.pc = "login", !.sent = None, !.new = None, !.unspent = FALSE]
                  ELSE [Idle EXCEPT !.pc = "api", !.sent = Access(c.new),
                                    !.retry = (c.pc = "renewed" /\ c.retry),
                                    !.hydrate = (c.pc = "granted" \/ c.hydrate)]]
    /\ lost' = FALSE
    /\ UNCHANGED <<server, desk, edits>>

\* Signed out: the cookie is deleted and the tab forgets.
Leave(k) == /\ call[k].pc = "left"
            /\ jar' = None
            /\ tab' = [tab EXCEPT ![TabOf[k]] = Anonymous]
            /\ call' = [call EXCEPT ![k] = Idle]
            /\ lost' = FALSE
            /\ UNCHANGED <<server, desk, edits>>

\* What a failure leaves of a tab: a sign-out and a hydration leave nothing, a refresh no
\* access token, any other request everything.
AfterFailure(c, t) == IF c.op = "logout" \/ c.hydrate THEN Anonymous
                      ELSE IF c.pc \in {"refresh", "spending", "renewed", "denied"}
                           THEN [tab[t] EXCEPT !.access = None]
                           ELSE tab[t]

\* The request is refused, fails, times out or is not heard of again; what the server did
\* stands.
Fail(k) == LET c == call[k] IN
           /\ c.pc # "idle"
           /\ lost' = (lost \/ (c.pc \in {"renewed", "left"} /\ c.sent = jar))
           /\ tab' = [tab EXCEPT ![TabOf[k]] = AfterFailure(c, TabOf[k])]
           /\ Answer(k, Idle)
           /\ UNCHANGED <<server, jar, desk, edits>>

-----------------------------------------------------------------------------
Administer(u) == \/ \E provider \in {"local", "azure_ad"}, gated \in BOOLEAN :
                        Create(u, provider, gated)
                 \/ \E active, approved \in BOOLEAN : Patch(u, active, approved)
                 \/ BulkApprove(u)
                 \/ Deactivate(u)
                 \/ LinkExpires(u)

DeskStep(d) == \/ \E u \in Users : BeginReset(d, u)
               \/ \E u \in Users, decision \in {"approving", "rejecting"} : OpenLink(d, u, decision)
               \/ Decide(d)
               \/ CommitReset(d)
               \/ Abandon(d)

Sends(k) == \/ \E u \in Users, op \in {"login", "sso"}, password \in 0 .. MaxResets :
                   SignIn(k, u, op, password)
            \/ Ask(k)
            \/ Bootstrap(k)
            \/ SignOut(k)

Proceeds(k) == \/ Login(k) \/ SsoCallback(k) \/ SsoFirstTouch(k) \/ Serve(k) \/ Refuse(k)
               \/ CheckRefresh(k) \/ Spend(k) \/ Logout(k)
               \/ Store(k) \/ Leave(k) \/ Fail(k)

Next == \/ \E u \in Users : Administer(u)
        \/ \E d \in Desks : DeskStep(d)
        \/ \E k \in Calls : Sends(k) \/ Proceeds(k)
        \/ \E t \in Tabs : Reload(t)

Spec == Init /\ [][Next]_vars

-----------------------------------------------------------------------------
(* Properties *)

\* The tokens that are still with someone.
Held == ({jar} \cup {tab[t].access : t \in Tabs} \cup {call[k].sent : k \in Calls}
         \cup {call[k].new : k \in Calls}) \ {None}

\* A token the server would take comes from a login with the password that is set now:
\* a reset ends every session, those being refreshed or signed in as it commits included.
SessionsProvePassword ==
    \A token \in Held : Honours(token) => token.password = user[token.user].password

\* The cookie is good for another refresh, however many refreshes, tabs and sign-outs have
\* overlapped, unless an answer was lost or the answer that replaces it is on its way.
CookieOutlivesRaces ==
    jar # None /\ jar.jti \in revoked =>
        \/ lost
        \/ \E k \in Calls : call[k].pc \in {"renewed", "left"} /\ call[k].sent = jar

\* A token is exchanged twice only by requests that overlap: one sent after an exchange or
\* a sign-out has committed is refused.
SpentStaysSpent == \A k \in Calls : call[k].pc = "spending" => call[k].unspent

\* Somebody rejected is never let in again by another's approval, by link or in bulk,
\* before or after: only by an administrator who makes the account active.
RejectedStaysOut == \A token \in Held :
    Honours(token) /\ user[token.user].rejected => user[token.user].reinstated

\* Whoever is let in holds the account's password, and was not rejected.
SessionsAreEarned == TypeOK /\ SessionsProvePassword /\ RejectedStaysOut

\* Rotation of the cookie neither strands a tab nor lets a spent token pass.
RotationHolds == CookieOutlivesRaces /\ SpentStaysSpent

=============================================================================
