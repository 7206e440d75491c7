---------------------------- MODULE Accounts_proofs ----------------------------
(***************************************************************************)
(* What holds of Accounts for any number of users, tabs, requests, desks   *)
(* and resets.  Three invariants, each resting on the one before:          *)
(*                                                                         *)
(*   Wired     types, and what a request, a desk and a row owe to the      *)
(*             steps that brought them where they are;                     *)
(*   Earned    every token held is of an account that is there, of a       *)
(*             generation no later than the account's, and of its password *)
(*             when of its generation;                                     *)
(*   Rotating  refresh tokens are told apart by their jti, and the one a   *)
(*             browser has not stored yet is nobody else's and not spent.  *)
(***************************************************************************)
EXTENDS Accounts, TLAPS

\* A request that carries a refresh token, and an answer that bears a new pair.
Carries(c) == c.pc \in {"refresh", "spending", "renewed", "logout", "left"}
Bears(c) == c.pc \in {"granted", "renewed"}

IsCookie(token) == token.jti \in 1 .. minted

\* What a request owes to the steps before it.  A refresh sent with a token that was spent
\* already carries one that is spent still.
CallOK(c) ==
    /\ c.pc \in {"login", "sso"} => c.op \in {"login", "sso"}
    /\ c.op \in {"login", "sso"} /\ c.pc # "denied" => c.who \in Users
    /\ c.pc = "spending" => c.sent # None /\ c.unspent
    /\ Carries(c) /\ c.sent # None => IsCookie(c.sent)
    /\ Bears(c) => c.new # None /\ IsCookie(c.new)
    /\ c.pc = "refresh" /\ ~c.unspent /\ c.sent # None => c.sent.jti \in revoked

CallsOK == /\ revoked \subseteq 1 .. minted
           /\ minted \in 0 .. MaxEvents
           /\ jar \in Tokens
           /\ tab \in [Tabs -> Tab]
           /\ call \in [Calls -> Call]
           /\ lost \in BOOLEAN
           /\ jar # None => IsCookie(jar)
           /\ \A k \in Calls : CallOK(call[k])

\* An account that signed in through the identity provider has no password to reset; a
\* rejected account is active only by an administrator's hand.
RowOK(u) == /\ ~There(u) => user[u] = Absent
            /\ user[u].provider = "azure_ad" => user[u].password = 0
            /\ user[u].rejected /\ user[u].active => user[u].reinstated

\* A reset holds its row alone and has read its generation; a rejection that read the
\* account inactive finds it active only if an administrator has made it so.
DeskOK(d) ==
    LET u == desk[d].who IN
    desk[d].pc # "idle" =>
        /\ u \in Users /\ There(u)
        /\ desk[d].pc = "resetting" =>
              /\ user[u].provider = "local" /\ desk[d].gen = user[u].gen
              /\ \A e \in Desks \ {d} : desk[e].pc = "resetting" => desk[e].who # u
        /\ desk[d].pc = "rejecting" /\ ~desk[d].active /\ user[u].active => user[u].reinstated

AccountsOK == /\ user \in [Users -> Row]
              /\ desk \in [Desks -> Desk]
              /\ edits \in 0 .. MaxEvents
              /\ \A u \in Users : RowOK(u)
              /\ \A d \in Desks : DeskOK(d)

Wired == CallsOK /\ AccountsOK

\* What may happen to a row: it stays, and its password changes only with its generation.
Grows == \A u \in Users :
    There(u) => /\ user'[u].provider = user[u].provider
                /\ \/ user'[u].gen = user[u].gen /\ user'[u].password = user[u].password
                   \/ user'[u].gen = user[u].gen + 1

-----------------------------------------------------------------------------
(* Accounts *)

\* The records every request, desk, tab and account starts from have their types.
LEMMA Blanks == Idle \in Call /\ AtRest \in Desk /\ Anonymous \in Tab /\ Absent \in Row
  BY DEF Idle, Call, Operations, Tokens, AtRest, Desk, Anonymous, Tab, Absent, Row

\* Nobody is nobody's name, and no token.
LEMMA NoOne == None \notin Users /\ None \notin Token
  BY NoneAssumption DEF Token

\* A request on accounts counts one more.
LEMMA EditType == ASSUME minted \in 0 .. MaxEvents, edits \in 0 .. MaxEvents, Edit
                  PROVE  edits' \in 0 .. MaxEvents
  BY BoundsAssumption DEF Edit, Room

\* A new account, by hand or by its first sign-in.
LEMMA CreateKeeps ==
  ASSUME AccountsOK, NEW u \in Users, ~There(u), NEW provider \in {"local", "azure_ad"},
         NEW gated \in BOOLEAN, user' = [user EXCEPT ![u] = Registered(provider, gated)],
         UNCHANGED <<desk, edits>>
  PROVE  AccountsOK' /\ Grows
<1> DEFINE r == Registered(provider, gated)
<1>1. /\ r \in Row /\ r.provider = provider /\ r.password = 0 /\ r.rejected = FALSE
      /\ user' = [user EXCEPT ![u] = r]
  BY DEF Registered, Absent, Row
<1> HIDE DEF r
<1>2. user' \in [Users -> Row] /\ user'[u] = r /\ \A x \in Users \ {u} : user'[x] = user[x]
  BY <1>1 DEF AccountsOK
<1>3. \A x \in Users : RowOK(x)'
  BY <1>1, <1>2 DEF AccountsOK, RowOK, There
<1>4. \A d \in Desks : DeskOK(d)'
  <2> SUFFICES ASSUME NEW d \in Desks PROVE DeskOK(d)'
    OBVIOUS
  <2>1. desk[d].pc # "idle" => desk[d].who \in Users \ {u}
    BY DEF AccountsOK, DeskOK, There
  <2> QED
    BY <1>2, <2>1 DEF AccountsOK, DeskOK, There
<1>5. Grows
  BY <1>2 DEF Grows, There
<1> QED
  BY <1>2, <1>3, <1>4, <1>5 DEF AccountsOK

\* A row rewritten in place: flags only, and what makes it active says so.
LEMMA RewriteKeeps ==
  ASSUME AccountsOK, NEW u \in Users, There(u), NEW r \in Row, user' = [user EXCEPT ![u] = r],
         r.provider = user[u].provider, r.password = user[u].password, r.gen = user[u].gen,
         user[u].reinstated => r.reinstated,
         r.active /\ ~user[u].active => r.reinstated,
         r.rejected /\ r.active => r.reinstated,
         NEW D \in SUBSET Desks, desk' \in [Desks -> Desk],
         \A d \in D : desk'[d].pc = "idle", \A d \in Desks \ D : desk'[d] = desk[d],
         edits' \in 0 .. MaxEvents
  PROVE  AccountsOK' /\ Grows
<1>1. user' \in [Users -> Row] /\ user'[u] = r /\ \A x \in Users \ {u} : user'[x] = user[x]
  BY DEF AccountsOK
<1>2. \A x \in Users : There(x) => There(x)'
  BY <1>1 DEF There
<1>3. \A x \in Users : RowOK(x)'
  BY <1>1 DEF AccountsOK, RowOK, There
<1>4. \A d \in Desks : DeskOK(d)'
  <2> SUFFICES ASSUME NEW d \in Desks, desk'[d].pc # "idle" PROVE DeskOK(d)'
    BY DEF DeskOK
  <2>1. d \notin D /\ desk'[d] = desk[d] /\ DeskOK(d) /\ desk[d].who \in Users /\ There(desk[d].who)
    BY DEF AccountsOK, DeskOK
  <2>2. \A e \in Desks : desk'[e].pc = "resetting" => desk'[e] = desk[e]
    OBVIOUS
  <2>3. CASE desk[d].who = u
    BY <1>1, <1>2, <2>1, <2>2, <2>3 DEF DeskOK
  <2>4. CASE desk[d].who # u
    BY <1>1, <1>2, <2>1, <2>2, <2>4 DEF DeskOK
  <2> QED
    BY <2>3, <2>4
<1>5. Grows
  BY <1>1 DEF Grows
<1> QED
  BY <1>1, <1>3, <1>4, <1>5 DEF AccountsOK

\* A row locked, edited or decided on through a link.
LEMMA AdministerKeeps ==
  ASSUME CallsOK, AccountsOK, NEW u \in Users, Administer(u)
  PROVE  AccountsOK' /\ Grows /\ UNCHANGED <<revoked, minted, browser, call, lost>>
<1>1. user[u] \in Row /\ user \in [Users -> Row] /\ desk \in [Desks -> Desk] /\ RowOK(u)
  BY DEF AccountsOK
<1>2. CASE \E provider \in {"local", "azure_ad"}, gated \in BOOLEAN : Create(u, provider, gated)
  BY <1>2, CreateKeeps DEF Create
<1>3. CASE ~\E provider \in {"local", "azure_ad"}, gated \in BOOLEAN : Create(u, provider, gated)
  <2>1. There(u) /\ Edit /\ UNCHANGED desk /\ UNCHANGED <<revoked, minted, browser, call, lost>>
    <3>1. LinkExpires(u) => There(u)
      BY <1>1 DEF LinkExpires, RowOK, Absent
    <3> QED
      BY <1>3, <3>1 DEF Administer, Patch, BulkApprove, Deactivate, LinkExpires
  <2>2. edits' \in 0 .. MaxEvents
    BY <2>1, EditType DEF CallsOK, AccountsOK
  <2>3. \E r \in Row :
           /\ user' = [user EXCEPT ![u] = r]
           /\ r.provider = user[u].provider /\ r.password = user[u].password /\ r.gen = user[u].gen
           /\ user[u].reinstated => r.reinstated
           /\ r.active /\ ~user[u].active => r.reinstated
           /\ r.rejected /\ r.active => r.reinstated
    <3>1. CASE \E active, approved \in BOOLEAN : Patch(u, active, approved)
      <4>1. PICK active, approved \in BOOLEAN : Patch(u, active, approved)
        BY <3>1
      <4> DEFINE r == [user[u] EXCEPT !.active = active, !.approved = approved,
                         !.reinstated = user[u].reinstated \/ (active /\ ~user[u].active)]
      <4>2. user' = [user EXCEPT ![u] = r]
        BY <1>1, <4>1 DEF Patch
      <4>3. /\ r \in Row /\ r.active = active /\ r.rejected = user[u].rejected
            /\ r.reinstated = (user[u].reinstated \/ (active /\ ~user[u].active))
            /\ r.provider = user[u].provider /\ r.password = user[u].password /\ r.gen = user[u].gen
        BY <1>1 DEF Row
      <4> HIDE DEF r
      <4> QED
        BY <1>1, <4>2, <4>3 DEF RowOK
    <3>2. CASE BulkApprove(u)
      <4> DEFINE r == [user[u] EXCEPT !.approved = TRUE]
      <4>1. user' = [user EXCEPT ![u] = r]
        BY <1>1, <3>2 DEF BulkApprove
      <4>2. /\ r \in Row /\ r.active = user[u].active /\ r.rejected = user[u].rejected
            /\ r.reinstated = user[u].reinstated
            /\ r.provider = user[u].provider /\ r.password = user[u].password /\ r.gen = user[u].gen
        BY <1>1 DEF Row
      <4> HIDE DEF r
      <4> QED
        BY <1>1, <4>1, <4>2 DEF RowOK
    <3>3. CASE Deactivate(u)
      <4> DEFINE r == [user[u] EXCEPT !.active = FALSE]
      <4>1. user' = [user EXCEPT ![u] = r]
        BY <1>1, <3>3 DEF Deactivate
      <4>2. /\ r \in Row /\ r.active = FALSE /\ r.reinstated = user[u].reinstated
            /\ r.provider = user[u].provider /\ r.password = user[u].password /\ r.gen = user[u].gen
        BY <1>1 DEF Row
      <4> HIDE DEF r
      <4> QED
        BY <1>1, <4>1, <4>2
    <3>4. CASE LinkExpires(u)
      <4> DEFINE r == [user[u] EXCEPT !.link = "expired"]
      <4>1. user' = [user EXCEPT ![u] = r]
        BY <1>1, <3>4 DEF LinkExpires
      <4>2. /\ r \in Row /\ r.active = user[u].active /\ r.rejected = user[u].rejected
            /\ r.reinstated = user[u].reinstated
            /\ r.provider = user[u].provider /\ r.password = user[u].password /\ r.gen = user[u].gen
        BY <1>1 DEF Row
      <4> HIDE DEF r
      <4> QED
        BY <1>1, <4>1, <4>2 DEF RowOK
    <3> QED
      BY <1>3, <3>1, <3>2, <3>3, <3>4 DEF Administer
  <2>4. PICK r \in Row :
           /\ user' = [user EXCEPT ![u] = r]
           /\ r.provider = user[u].provider /\ r.password = user[u].password /\ r.gen = user[u].gen
           /\ user[u].reinstated => r.reinstated
           /\ r.active /\ ~user[u].active => r.reinstated
           /\ r.rejected /\ r.active => r.reinstated
    BY <2>3
  <2>5. {} \in SUBSET Desks /\ desk' \in [Desks -> Desk]
    BY <1>1, <2>1
  <2>6. AccountsOK' /\ Grows
    BY <2>1, <2>2, <2>4, <2>5, RewriteKeeps
  <2> QED
    BY <2>1, <2>6
<1> QED
  BY <1>2, <1>3

\* A desk that takes up a row that is there.
LEMMA DeskTakes ==
  ASSUME AccountsOK, NEW d \in Desks, NEW t \in Desk, t.who \in Users, There(t.who),
         t.pc = "resetting" => user[t.who].provider = "local" /\ t.gen = user[t.who].gen /\ Free(t.who),
         t.active = user[t.who].active \/ t.pc = "resetting",
         desk' = [desk EXCEPT ![d] = t], edits' \in 0 .. MaxEvents, UNCHANGED user
  PROVE  AccountsOK' /\ Grows
<1>1. desk' \in [Desks -> Desk] /\ desk'[d] = t /\ \A e \in Desks \ {d} : desk'[e] = desk[e]
  BY DEF AccountsOK
<1>2. \A u \in Users : RowOK(u)'
  BY DEF AccountsOK, RowOK, There
<1>3. DeskOK(d)'
  BY <1>1 DEF DeskOK, There, Free
<1>4. \A e \in Desks \ {d} : DeskOK(e)'
  <2> SUFFICES ASSUME NEW e \in Desks \ {d} PROVE DeskOK(e)'
    OBVIOUS
  <2>1. desk'[e] = desk[e] /\ DeskOK(e)
    BY <1>1 DEF AccountsOK
  <2>2. desk[e].pc = "resetting" =>
           \A x \in Desks \ {e} : desk'[x].pc = "resetting" => desk'[x].who # desk[e].who
    <3> SUFFICES ASSUME desk[e].pc = "resetting", NEW x \in Desks \ {e}, desk'[x].pc = "resetting"
                 PROVE  desk'[x].who # desk[e].who
      OBVIOUS
    <3>1. CASE x = d
      BY <1>1, <3>1 DEF Free
    <3>2. CASE x # d
      BY <1>1, <2>1, <3>2 DEF DeskOK
    <3> QED
      BY <3>1, <3>2
  <2> QED
    BY <2>1, <2>2 DEF DeskOK, There
<1>5. Grows
  BY DEF Grows
<1> QED
  BY <1>1, <1>2, <1>3, <1>4, <1>5 DEF AccountsOK

\* A desk that gives up.
LEMMA AbandonKeeps == ASSUME AccountsOK, NEW d \in Desks, Abandon(d) PROVE AccountsOK' /\ Grows
<1>1. /\ desk' \in [Desks -> Desk] /\ desk'[d].pc = "idle"
      /\ \A e \in Desks \ {d} : desk'[e] = desk[e]
  BY Blanks DEF AccountsOK, Abandon, AtRest
<1>2. UNCHANGED <<user, edits>>
  BY DEF Abandon, server
<1>3. \A u \in Users : RowOK(u)'
  BY <1>2 DEF AccountsOK, RowOK, There
<1>4. \A e \in Desks : DeskOK(e)'
  <2> SUFFICES ASSUME NEW e \in Desks, desk'[e].pc # "idle" PROVE DeskOK(e)'
    BY DEF DeskOK
  <2>1. desk'[e] = desk[e] /\ DeskOK(e)
    BY <1>1 DEF AccountsOK
  <2>2. \A x \in Desks : desk'[x].pc = "resetting" => desk'[x] = desk[x]
    BY <1>1
  <2> QED
    BY <1>2, <2>1, <2>2 DEF DeskOK, There
<1>5. Grows
  BY <1>2 DEF Grows
<1> QED
  BY <1>1, <1>2, <1>3, <1>4, <1>5 DEF AccountsOK

\* The reset that commits: the generation it read, plus one, on the row it holds.
LEMMA CommitResetKeeps ==
  ASSUME AccountsOK, NEW d \in Desks, CommitReset(d) PROVE AccountsOK' /\ Grows
<1> DEFINE u == desk[d].who
           w == user[u].password + 1
           g == desk[d].gen + 1
           r == [user[u] EXCEPT !.password = w, !.gen = g]
<1>1. /\ desk[d].pc = "resetting" /\ u \in Users /\ There(u) /\ user[u] \in Row
      /\ user[u].provider = "local" /\ desk[d].gen = user[u].gen
      /\ \A e \in Desks \ {d} : desk[e].pc = "resetting" => desk[e].who # u
  BY DEF CommitReset, AccountsOK, DeskOK
<1>2. user' = [user EXCEPT ![u] = r] /\ desk' = [desk EXCEPT ![d] = AtRest] /\ edits' = edits
  BY <1>1 DEF CommitReset, AccountsOK
<1>3. /\ r \in Row /\ r.provider = "local" /\ r.link = user[u].link /\ r.active = user[u].active
      /\ r.rejected = user[u].rejected /\ r.reinstated = user[u].reinstated
      /\ r.gen = user[u].gen + 1
  <2>1. user[u].password \in Nat /\ user[u].gen \in Nat
    BY <1>1 DEF Row
  <2>2. w \in Nat /\ g \in Nat /\ g = user[u].gen + 1
    BY <1>1, <2>1
  <2> HIDE DEF w, g, u
  <2> QED
    BY <1>1, <2>2 DEF Row
<1>4. PICK v \in Users : v = u
  BY <1>1
<1> HIDE DEF r, u, w, g
<1>5. user' \in [Users -> Row] /\ user'[v] = r /\ \A x \in Users \ {v} : user'[x] = user[x]
  BY <1>2, <1>3, <1>4 DEF AccountsOK
<1>6. /\ desk' \in [Desks -> Desk] /\ desk'[d].pc = "idle"
      /\ \A e \in Desks \ {d} : desk'[e] = desk[e]
  BY <1>2, Blanks DEF AccountsOK, AtRest
<1>7. \A x \in Users : RowOK(x)'
  BY <1>1, <1>3, <1>4, <1>5 DEF AccountsOK, RowOK, There
<1>8. \A e \in Desks : DeskOK(e)'
  <2> SUFFICES ASSUME NEW e \in Desks, desk'[e].pc # "idle" PROVE DeskOK(e)'
    BY DEF DeskOK
  <2>1. e # d /\ desk'[e] = desk[e] /\ DeskOK(e) /\ desk[e].who \in Users
    BY <1>6 DEF AccountsOK, DeskOK
  <2>2. \A x \in Desks : desk'[x].pc = "resetting" => desk'[x] = desk[x]
    BY <1>6
  <2>3. CASE desk[e].who = v
    <3>1. desk[e].pc # "resetting"
      BY <1>1, <1>4, <2>1, <2>3
    <3> QED
      BY <1>1, <1>3, <1>4, <1>5, <2>1, <2>3, <3>1 DEF DeskOK, There
  <2>4. CASE desk[e].who # v
    BY <1>5, <2>1, <2>2, <2>4 DEF DeskOK, There
  <2> QED
    BY <2>3, <2>4
<1>9. Grows
  BY <1>1, <1>3, <1>4, <1>5 DEF Grows
<1> QED
  BY <1>2, <1>5, <1>6, <1>7, <1>8, <1>9 DEF AccountsOK

\* The decision of a link writes the columns its request changed.
LEMMA DecideKeeps == ASSUME AccountsOK, NEW d \in Desks, Decide(d) PROVE AccountsOK' /\ Grows
<1>1. /\ desk[d].pc \in {"approving", "rejecting"} /\ desk[d].who \in Users /\ There(desk[d].who)
      /\ user[desk[d].who] \in Row /\ DeskOK(d) /\ RowOK(desk[d].who) /\ desk[d] \in Desk
  BY DEF Decide, AccountsOK, DeskOK
<1>2. PICK u \in Users : u = desk[d].who
  BY <1>1
<1> DEFINE r == Decided(d, user[u])
<1>3. user' = [user EXCEPT ![u] = r] /\ desk' = [desk EXCEPT ![d] = AtRest] /\ edits' = edits
  BY <1>2 DEF Decide, AccountsOK
<1>4. /\ r \in Row /\ r.provider = user[u].provider /\ r.password = user[u].password
      /\ r.gen = user[u].gen /\ r.reinstated = user[u].reinstated
      /\ r.active => user[u].active
      /\ r.rejected /\ r.active => r.reinstated
  <2>1. CASE desk[d].pc = "approving"
    BY <1>1, <1>2, <2>1 DEF Decided, Row, RowOK
  <2>2. CASE desk[d].pc = "rejecting"
    <3>0. (user[u].active /\ ~desk[d].active) \in BOOLEAN
      OBVIOUS
    <3> DEFINE a == user[u].active /\ ~desk[d].active
    <3>1. r = [user[u] EXCEPT !.rejected = TRUE, !.link = "none", !.active = a]
      BY <2>2 DEF Decided
    <3>2. a \in BOOLEAN /\ (a => user[u].active) /\ (a => user[u].reinstated)
      BY <1>1, <1>2, <2>2 DEF DeskOK
    <3> HIDE DEF a, r
    <3> QED
      BY <1>1, <1>2, <3>1, <3>2 DEF Row
  <2> QED
    BY <1>1, <2>1, <2>2
<1>5. /\ {d} \in SUBSET Desks /\ desk' \in [Desks -> Desk]
      /\ \A x \in {d} : desk'[x].pc = "idle"
      /\ \A x \in Desks \ {d} : desk'[x] = desk[x]
  BY <1>3, Blanks DEF AccountsOK, AtRest
<1>6. edits' \in 0 .. MaxEvents
  BY <1>3 DEF AccountsOK
<1> HIDE DEF r
<1> QED
  BY <1>1, <1>2, <1>3, <1>4, <1>5, <1>6, RewriteKeeps

\* No step of a desk breaks what rows and desks owe each other.
LEMMA DeskStepKeeps ==
  ASSUME CallsOK, AccountsOK, NEW d \in Desks, DeskStep(d)
  PROVE  AccountsOK' /\ Grows /\ UNCHANGED <<revoked, minted, browser, call, lost>>
<1>1. UNCHANGED <<revoked, minted, browser, call, lost>>
  BY DEF DeskStep, BeginReset, OpenLink, Decide, CommitReset, Abandon, server, browser
<1>2. CASE \E u \in Users : BeginReset(d, u)
  <2>1. PICK u \in Users : BeginReset(d, u)
    BY <1>2
  <2> DEFINE t == [AtRest EXCEPT !.pc = "resetting", !.who = u, !.gen = user[u].gen]
  <2>2. user[u] \in Row /\ There(u) /\ user[u].provider = "local" /\ Free(u)
    BY <2>1 DEF BeginReset, ResetMayRead, There, AccountsOK
  <2>3. t \in Desk /\ t.pc = "resetting" /\ t.who = u /\ t.gen = user[u].gen
    BY <2>2, Blanks DEF AtRest, Desk, Row
  <2>4. desk' = [desk EXCEPT ![d] = t] /\ UNCHANGED user /\ edits' \in 0 .. MaxEvents
    BY <2>1, EditType DEF BeginReset, server, CallsOK, AccountsOK
  <2> HIDE DEF t
  <2> QED
    BY <1>1, <2>2, <2>3, <2>4, DeskTakes
<1>3. CASE \E u \in Users, decision \in {"approving", "rejecting"} : OpenLink(d, u, decision)
  <2>1. PICK u \in Users, decision \in {"approving", "rejecting"} : OpenLink(d, u, decision)
    BY <1>3
  <2> DEFINE t == [AtRest EXCEPT !.pc = decision, !.who = u, !.active = user[u].active]
  <2>2. user[u] \in Row /\ There(u)
    BY <2>1 DEF OpenLink, LinkIsValid, RowOK, AccountsOK, Absent
  <2>3. t \in Desk /\ t.pc = decision /\ t.who = u /\ t.active = user[u].active
    BY <2>2, Blanks DEF AtRest, Desk, Row
  <2>4. desk' = [desk EXCEPT ![d] = t] /\ UNCHANGED user /\ edits' \in 0 .. MaxEvents
    BY <2>1, EditType DEF OpenLink, server, CallsOK, AccountsOK
  <2> HIDE DEF t
  <2> QED
    BY <1>1, <2>2, <2>3, <2>4, DeskTakes
<1> QED
  BY <1>1, <1>2, <1>3, DecideKeeps, CommitResetKeeps, AbandonKeeps DEF DeskStep

-----------------------------------------------------------------------------
(* Requests of the browser *)

\* What every step of a request leaves of it, of the tokens and of the tabs.
CallStep(k, c) ==
    /\ c \in Call /\ call' = [call EXCEPT ![k] = c]
    /\ CallOK(c)'
    /\ minted' \in 0 .. MaxEvents /\ (minted' = minted \/ minted' = minted + 1)
    /\ revoked \subseteq revoked' /\ revoked' \subseteq 1 .. minted'
    /\ jar' \in Tokens /\ (jar' # None => IsCookie(jar)')
    /\ tab' \in [Tabs -> Tab]
    /\ lost' \in BOOLEAN
    /\ UNCHANGED <<desk, edits>>

\* Where the tokens it leaves come from.  One that is new is of a user who has proved the
\* password, or of the session it renews.
Proves(x) == \E u \in Users : /\ There(u)' /\ x.user = u
                             /\ x.gen = user'[u].gen /\ x.password = user'[u].password
SameSession(x, y) == y # None /\ x.user = y.user /\ x.gen = y.gen /\ x.password = y.password
Renews(k, x) == SameSession(x, call[k].sent) \/ SameSession(x, call[k].new)

Sources(k, c) ==
    /\ c.sent \in {None, jar, call[k].sent, tab[TabOf[k]].access} \/ Renews(k, c.sent)
    /\ c.new \in {None, call[k].new} \/ Renews(k, c.new) \/ Proves(c.new)
    /\ jar' \in {None, jar, call[k].new}
    /\ \A t \in Tabs : tab'[t].access \in {None, tab[t].access} \/ Renews(k, tab'[t].access)

\* How it turns the cookie over.
Spends(k, c) ==
    \/ UNCHANGED revoked
    \/ /\ Carries(call[k]) /\ call[k].sent # None /\ revoked' = revoked \cup {call[k].sent.jti}
       /\ c.pc \in {"renewed", "left"} /\ c.sent = call[k].sent
       /\ UNCHANGED jar

Replaces(k, c) ==
    \/ /\ UNCHANGED jar /\ (lost => lost')
       /\ call[k].pc \in {"renewed", "left"} /\ call[k].sent = jar => lost'
    \/ jar' = None
    \/ Bears(call[k]) /\ jar' = call[k].new /\ ~Bears(c) /\ ~Carries(c) /\ UNCHANGED revoked

Turns(k, c) ==
    /\ Carries(c) /\ c.sent # None => c.sent = jar \/ (Carries(call[k]) /\ c.sent = call[k].sent)
    /\ Bears(c) => minted' = minted + 1 /\ c.new.jti = minted'
    /\ Spends(k, c)
    /\ Replaces(k, c)

StepOK(k) == \E c : CallStep(k, c) /\ Sources(k, c) /\ Turns(k, c)

\* Such a step leaves every request in order.
LEMMA CallKeeps ==
  ASSUME CallsOK, NEW k \in Calls, NEW c, CallStep(k, c)
  PROVE  CallsOK'
<1>1. 1 .. minted \subseteq 1 .. minted'
  BY DEF CallStep, CallsOK
<1>2. /\ call' \in [Calls -> Call] /\ call'[k] = c
      /\ \A j \in Calls \ {k} : call'[j] = call[j]
  BY DEF CallStep, CallsOK
<1>3. \A j \in Calls : CallOK(call[j])'
  <2>1. CallOK(call[k])'
    BY <1>2 DEF CallStep, CallOK, Carries, Bears, IsCookie
  <2>2. \A j \in Calls \ {k} : CallOK(call[j])'
    <3> SUFFICES ASSUME NEW j \in Calls \ {k} PROVE CallOK(call[j])'
      OBVIOUS
    <3>1. CallOK(call[j]) /\ call'[j] = call[j]
      BY <1>2 DEF CallsOK
    <3> QED
      BY <1>1, <3>1 DEF CallOK, Carries, Bears, IsCookie, CallStep
  <2> QED
    BY <2>1, <2>2
<1> QED
  BY <1>2, <1>3 DEF CallsOK, CallStep

\* What a request may count on before its step.
LEMMA CallType ==
  ASSUME CallsOK, NEW k \in Calls
  PROVE  /\ call \in [Calls -> Call] /\ call[k] \in Call /\ CallOK(call[k])
         /\ TabOf[k] \in Tabs /\ tab \in [Tabs -> Tab] /\ tab[TabOf[k]] \in Tab
         /\ jar \in Tokens /\ (jar # None => IsCookie(jar))
         /\ minted \in 0 .. MaxEvents /\ revoked \subseteq 1 .. minted /\ lost \in BOOLEAN
  BY TabOfAssumption DEF CallsOK

\* What leaves the browser is in order.
LEMMA SendsSteps ==
  ASSUME CallsOK, NEW k \in Calls, Sends(k)
  PROVE  UNCHANGED user /\ StepOK(k)
<1>0. UNCHANGED <<server, browser, desk, lost, edits>> /\ UNCHANGED <<user, revoked, minted, jar, tab>>
  BY DEF Sends, SignIn, Ask, Bootstrap, SignOut, Send, server, browser
<1>a. call[k].pc = "idle"
  BY DEF Sends, SignIn, Ask, Bootstrap, SignOut, Send
<1>1. ASSUME NEW c \in Call, CallOK(c), call' = [call EXCEPT ![k] = c], c.new = None, ~Bears(c),
             c.sent \in {None, jar} \/ (c.sent = tab[TabOf[k]].access /\ ~Carries(c))
      PROVE  StepOK(k)
  <2>1. CallStep(k, c)
    BY <1>0, <1>1, CallType DEF CallStep, CallOK, Carries, Bears, IsCookie
  <2>2. Sources(k, c)
    BY <1>0, <1>1 DEF Sources
  <2>3. Turns(k, c)
    BY <1>0, <1>1, <1>a DEF Turns, Spends, Replaces
  <2> QED
    BY <2>1, <2>2, <2>3 DEF StepOK
<1>2. CASE \E u \in Users, op \in {"login", "sso"}, password \in 0 .. MaxResets : SignIn(k, u, op, password)
  <2>1. PICK u \in Users, op \in {"login", "sso"}, password \in 0 .. MaxResets : SignIn(k, u, op, password)
    BY <1>2
  <2> DEFINE c == [Idle EXCEPT !.pc = op, !.op = op, !.who = u, !.password = password]
  <2>0. password \in Nat
    BY BoundsAssumption
  <2>2. c \in Call /\ c.pc = op /\ c.op = op /\ c.who = u /\ c.new = None /\ c.sent = None
    BY <2>0, Blanks DEF Idle, Call, Operations
  <2>3. call' = [call EXCEPT ![k] = c]
    BY <2>1 DEF SignIn, Send
  <2> HIDE DEF c
  <2>4. CallOK(c) /\ ~Bears(c)
    BY <2>2 DEF CallOK, Carries, Bears
  <2> QED
    BY <1>0, <1>1, <2>2, <2>3, <2>4
<1>3. CASE Ask(k)
  <2> DEFINE c == [Idle EXCEPT !.pc = "api", !.sent = tab[TabOf[k]].access]
  <2>1. /\ c \in Call /\ c.pc = "api" /\ c.op = "api" /\ c.new = None
        /\ c.sent = tab[TabOf[k]].access
    BY Blanks, CallType DEF Idle, Call, Operations, Tab
  <2>2. call' = [call EXCEPT ![k] = c]
    BY <1>3 DEF Ask, Send
  <2> HIDE DEF c
  <2>3. CallOK(c) /\ ~Bears(c) /\ ~Carries(c)
    BY <2>1 DEF CallOK, Carries, Bears
  <2> QED
    BY <1>0, <1>1, <2>1, <2>2, <2>3
<1>4. CASE Bootstrap(k)
  <2> DEFINE c == [Idle EXCEPT !.pc = "refresh", !.sent = jar, !.unspent = Unspent(jar),
                               !.hydrate = TRUE]
  <2>0. Unspent(jar) \in BOOLEAN
    BY DEF Unspent
  <2>1. /\ c \in Call /\ c.pc = "refresh" /\ c.op = "api" /\ c.sent = jar
        /\ c.unspent = Unspent(jar) /\ c.new = None
    BY <2>0, Blanks, CallType DEF Idle, Call, Operations
  <2>2. call' = [call EXCEPT ![k] = c]
    BY <1>4 DEF Bootstrap, Send
  <2> HIDE DEF c
  <2>3. CallOK(c) /\ ~Bears(c)
    BY <2>1, CallType DEF CallOK, Carries, Bears, Unspent
  <2> QED
    BY <1>0, <1>1, <2>1, <2>2, <2>3
<1>5. CASE SignOut(k)
  <2> DEFINE c == [Idle EXCEPT !.pc = "logout", !.op = "logout", !.sent = jar]
  <2>1. c \in Call /\ c.pc = "logout" /\ c.op = "logout" /\ c.sent = jar /\ c.new = None
    BY Blanks, CallType DEF Idle, Call, Operations
  <2>2. call' = [call EXCEPT ![k] = c]
    BY <1>5 DEF SignOut, Send
  <2> HIDE DEF c
  <2>3. CallOK(c) /\ ~Bears(c)
    BY <2>1, CallType DEF CallOK, Carries, Bears
  <2> QED
    BY <1>0, <1>1, <2>1, <2>2, <2>3
<1> QED
  BY <1>2, <1>3, <1>4, <1>5 DEF Sends

\* A sign-in mints for an account that has proved its password.
LEMMA MintSteps ==
  ASSUME CallsOK, NEW k \in Calls, NEW u \in Users, NEW password \in Nat, NEW gen \in Nat,
         There(u)', user'[u].gen = gen, user'[u].password = password,
         Room, edits \in 0 .. MaxEvents, minted' = minted + 1,
         call[k].pc \in {"login", "sso"},
         call' = [call EXCEPT ![k] = [Idle EXCEPT !.pc = "granted",
                    !.new = [user |-> u, gen |-> gen, password |-> password, jti |-> minted + 1]]],
         UNCHANGED <<revoked, browser, desk, lost, edits>>
  PROVE  StepOK(k)
<1>1. minted' \in 0 .. MaxEvents /\ minted + 1 \in 1 .. minted' /\ 1 .. minted \subseteq 1 .. minted'
  BY CallType, BoundsAssumption DEF Room
<1>2. PICK x \in Token : x = [user |-> u, gen |-> gen, password |-> password, jti |-> minted + 1]
  <2>1. PICK n \in Nat : n = minted + 1
    BY <1>1
  <2>2. [user |-> u, gen |-> gen, password |-> password, jti |-> n] \in Token
    BY DEF Token
  <2> QED
    BY <2>1, <2>2
<1>3. PICK c : c = [Idle EXCEPT !.pc = "granted", !.new = x]
  OBVIOUS
<1>4. /\ c \in Call /\ c.pc = "granted" /\ c.op = "api" /\ c.sent = None /\ c.new = x
      /\ call' = [call EXCEPT ![k] = c]
      /\ x # None /\ x.jti = minted' /\ x.user = u /\ x.gen = gen /\ x.password = password
  BY <1>2, <1>3, NoOne, Blanks DEF Idle, Call, Operations, Tokens
<1>5. UNCHANGED <<jar, tab, lost, revoked>>
  BY DEF browser
<1>6. CallOK(c)'
  BY <1>1, <1>4 DEF CallOK, Carries, Bears, IsCookie
<1>7. CallStep(k, c)
  BY <1>1, <1>4, <1>5, <1>6, CallType DEF CallStep, IsCookie
<1>8. Sources(k, c)
  BY <1>4, <1>5 DEF Sources, Proves
<1>9. Turns(k, c)
  BY <1>4, <1>5 DEF Turns, Spends, Replaces, Carries, Bears
<1> QED
  BY <1>7, <1>8, <1>9 DEF StepOK

\* The three ways in: none mints for another generation or password than the account's.
LEMMA SignInSteps ==
  ASSUME Wired, NEW k \in Calls, Login(k) \/ SsoCallback(k) \/ SsoFirstTouch(k)
  PROVE  AccountsOK' /\ Grows /\ StepOK(k)
<1>0. CallsOK /\ AccountsOK /\ edits \in 0 .. MaxEvents
  BY DEF Wired, AccountsOK
<1>1. PICK u \in Users : u = call[k].who
  BY <1>0, CallType DEF Login, SsoCallback, SsoFirstTouch, CallOK
<1>2. user[u] \in Row /\ RowOK(u) /\ user[u].password \in Nat /\ user[u].gen \in Nat
  BY <1>0 DEF AccountsOK, Row
<1>3. UNCHANGED <<user, desk, edits>> => AccountsOK' /\ Grows
  BY <1>0 DEF AccountsOK, Grows, RowOK, DeskOK, There
<1>4. CASE Login(k)
  <2>1. There(u) /\ call[k].password = user[u].password
    BY <1>1, <1>4 DEF Login, Knows, There
  <2>2. /\ Room /\ minted' = minted + 1 /\ UNCHANGED <<user, revoked, browser, desk, lost, edits>>
        /\ call' = [call EXCEPT ![k] = [Idle EXCEPT !.pc = "granted",
             !.new = [user |-> u, gen |-> user[u].gen, password |-> user[u].password,
                      jti |-> minted + 1]]]
    BY <1>1, <1>4, <2>1 DEF Login, Mint, Answer, Minted
  <2>3. There(u)'
    BY <2>1, <2>2 DEF There
  <2>4. call[k].pc = "login"
    BY <1>4 DEF Login
  <2> QED
    BY <1>0, <1>2, <1>3, <2>2, <2>3, <2>4, MintSteps
<1>5. CASE SsoCallback(k)
  <2>1. There(u) /\ user[u].password = 0
    BY <1>1, <1>2, <1>5 DEF SsoCallback, There, RowOK
  <2>2. /\ Room /\ minted' = minted + 1 /\ UNCHANGED <<user, revoked, browser, desk, lost, edits>>
        /\ call' = [call EXCEPT ![k] = [Idle EXCEPT !.pc = "granted",
             !.new = [user |-> u, gen |-> user[u].gen, password |-> user[u].password,
                      jti |-> minted + 1]]]
    BY <1>1, <1>5, <2>1 DEF SsoCallback, Mint, Answer, Minted
  <2>3. There(u)'
    BY <2>1, <2>2 DEF There
  <2>4. call[k].pc = "sso"
    BY <1>5 DEF SsoCallback
  <2> QED
    BY <1>0, <1>2, <1>3, <2>2, <2>3, <2>4, MintSteps
<1>6. CASE SsoFirstTouch(k)
  <2>1. /\ Room /\ minted' = minted + 1 /\ UNCHANGED <<revoked, browser, desk, lost, edits>>
        /\ ~There(u) /\ user' = [user EXCEPT ![u] = Registered("azure_ad", FALSE)]
        /\ call' = [call EXCEPT ![k] = [Idle EXCEPT !.pc = "granted", !.new = Minted(u, 0)]]
    BY <1>1, <1>6 DEF SsoFirstTouch, Mint, Answer
  <2>2. user[u].gen = 0
    BY <1>2, <2>1 DEF RowOK, Absent
  <2>3. AccountsOK' /\ Grows
    BY <1>0, <2>1, CreateKeeps
  <2>4. user'[u].gen = 0 /\ user'[u].password = 0 /\ There(u)'
    BY <1>0, <2>1 DEF AccountsOK, Registered, Absent, There
  <2>5. call' = [call EXCEPT ![k] = [Idle EXCEPT !.pc = "granted",
          !.new = [user |-> u, gen |-> 0, password |-> 0, jti |-> minted + 1]]]
    BY <2>1, <2>2 DEF Minted
  <2>6. call[k].pc = "sso"
    BY <1>6 DEF SsoFirstTouch
  <2> QED
    BY <1>0, <2>1, <2>3, <2>4, <2>5, <2>6, MintSteps
<1> QED
  BY <1>4, <1>5, <1>6

\* A step that changes only the request itself and its tab, and bears nothing.
LEMMA PlainSteps ==
  ASSUME CallsOK, NEW k \in Calls, NEW c \in Call, call' = [call EXCEPT ![k] = c],
         CallOK(c), ~Bears(c), c.new \in {None, call[k].new},
         c.sent \in {None, jar, call[k].sent},
         Carries(c) => c.sent = jar \/ c.sent = None \/ (Carries(call[k]) /\ c.sent = call[k].sent),
         call[k].pc \notin {"renewed", "left"},
         tab' \in [Tabs -> Tab], \A t \in Tabs : tab'[t].access \in {None, tab[t].access},
         UNCHANGED <<revoked, minted, jar, desk, lost, edits>>
  PROVE  StepOK(k)
<1>1. CallStep(k, c)
  BY CallType DEF CallStep, CallOK, Carries, Bears, IsCookie
<1>2. Sources(k, c)
  BY DEF Sources
<1>3. Turns(k, c)
  BY DEF Turns, Spends, Replaces
<1> QED
  BY <1>1, <1>2, <1>3 DEF StepOK

\* Serving, refusing and looking a refresh up spend nothing.
LEMMA PlainServerSteps ==
  ASSUME CallsOK, NEW k \in Calls, Serve(k) \/ Refuse(k) \/ CheckRefresh(k)
  PROVE  UNCHANGED user /\ StepOK(k)
<1> DEFINE o == call[k]
<1>0. /\ o \in Call /\ CallOK(o) /\ call \in [Calls -> Call] /\ jar \in Tokens
      /\ tab \in [Tabs -> Tab] /\ (jar # None => IsCookie(jar))
  BY CallType
<1>1. CASE Serve(k)
  <2>1. UNCHANGED <<user, revoked, minted, jar, desk, lost, edits>> /\ o.pc = "api"
        /\ call' = [call EXCEPT ![k] = Idle] /\ o.sent \in Token
    BY <1>0, <1>1 DEF Serve, server, Honours, Call, Tokens
  <2>2. Idle.pc = "idle" /\ Idle.op = "api" /\ Idle.sent = None /\ Idle.new = None
    BY DEF Idle
  <2>3. CallOK(Idle) /\ ~Bears(Idle) /\ ~Carries(Idle)
    BY <2>2 DEF CallOK, Bears, Carries
  <2>4. tab' \in [Tabs -> Tab] /\ \A t \in Tabs : tab'[t].access = tab[t].access
    <3>1. CASE UNCHANGED tab
      BY <1>0, <3>1
    <3>2. CASE tab' = [tab EXCEPT ![TabOf[k]].as = o.sent.user]
      <4> DEFINE t == [tab[TabOf[k]] EXCEPT !.as = o.sent.user]
      <4>1. t \in Tab /\ t.access = tab[TabOf[k]].access
        BY <2>1, CallType DEF Tab, Token
      <4>2. tab' = [tab EXCEPT ![TabOf[k]] = t]
        BY <3>2, CallType
      <4> HIDE DEF t
      <4> QED
        BY <1>0, <4>1, <4>2
    <3> QED
      BY <1>1, <3>1, <3>2 DEF Serve
  <2> QED
    BY <2>1, <2>2, <2>3, <2>4, Blanks, PlainSteps
<1>2. CASE Refuse(k)
  <2>0. Unspent(jar) \in BOOLEAN
    BY DEF Unspent
  <2>1. PICK c : c = [o EXCEPT !.pc = "refresh", !.sent = jar, !.retry = TRUE, !.unspent = Unspent(jar)]
    OBVIOUS
  <2>2. /\ c \in Call /\ c.pc = "refresh" /\ c.sent = jar /\ c.unspent = Unspent(jar)
        /\ c.new = o.new /\ c.who = o.who /\ c.op = o.op
    BY <1>0, <2>0, <2>1 DEF Call
  <2>3. /\ call' = [call EXCEPT ![k] = c] /\ o.pc \in {"api", "login"}
        /\ UNCHANGED <<user, revoked, minted, jar, tab, desk, lost, edits>>
    BY <1>0, <1>2, <2>1 DEF Refuse, server, browser
  <2>4. CallOK(c) /\ ~Bears(c)
    BY <1>0, <2>2, <2>3 DEF CallOK, Bears, Carries, Unspent
  <2> QED
    BY <1>0, <2>2, <2>3, <2>4, PlainSteps
<1>3. CASE CheckRefresh(k) /\ MaySpend(o.sent)
  <2>1. PICK c : c = [o EXCEPT !.pc = "spending"]
    OBVIOUS
  <2>2. /\ c \in Call /\ c.pc = "spending" /\ c.sent = o.sent /\ c.unspent = o.unspent
        /\ c.new = o.new /\ c.who = o.who /\ c.op = o.op
    BY <1>0, <2>1 DEF Call, Operations
  <2>3. /\ call' = [call EXCEPT ![k] = c] /\ o.pc = "refresh"
        /\ UNCHANGED <<user, revoked, minted, jar, tab, desk, lost, edits>>
    BY <1>3, <2>1 DEF CheckRefresh, Answer, server, browser
  <2>4. o.sent # None /\ o.sent.jti \notin revoked
    BY <1>3 DEF MaySpend, Unspent
  <2>5. o.unspent \in BOOLEAN
    BY <1>0 DEF Call
  <2>6. CallOK(c) /\ ~Bears(c) /\ Carries(o)
    BY <1>0, <2>2, <2>3, <2>4, <2>5 DEF CallOK, Bears, Carries
  <2> QED
    BY <1>0, <2>2, <2>3, <2>6, PlainSteps
<1>4. CASE CheckRefresh(k) /\ ~MaySpend(o.sent)
  <2>1. PICK c : c = [Idle EXCEPT !.pc = "denied", !.op = o.op, !.hydrate = o.hydrate]
    OBVIOUS
  <2>2. c \in Call /\ c.pc = "denied" /\ c.sent = None /\ c.new = None
    BY <1>0, <2>1, Blanks DEF Idle, Call
  <2>3. /\ call' = [call EXCEPT ![k] = c] /\ o.pc = "refresh"
        /\ UNCHANGED <<user, revoked, minted, jar, tab, desk, lost, edits>>
    BY <1>4, <2>1 DEF CheckRefresh, Answer, server, browser
  <2>4. CallOK(c) /\ ~Bears(c) /\ ~Carries(c)
    BY <2>2 DEF CallOK, Bears, Carries
  <2> QED
    BY <1>0, <2>2, <2>3, <2>4, PlainSteps
<1> QED
  BY <1>1, <1>2, <1>3, <1>4

\* A refresh past its checks lists the old token and bears a new pair of its session.
LEMMA SpendSteps ==
  ASSUME CallsOK, NEW k \in Calls, edits \in 0 .. MaxEvents, Spend(k)
  PROVE  UNCHANGED user /\ StepOK(k)
<1> DEFINE o == call[k]
<1>0. /\ o \in Call /\ CallOK(o) /\ call \in [Calls -> Call] /\ jar \in Tokens
      /\ tab \in [Tabs -> Tab] /\ (jar # None => IsCookie(jar))
      /\ minted \in 0 .. MaxEvents /\ revoked \subseteq 1 .. minted /\ lost \in BOOLEAN
  BY CallType
<1>1. /\ o.pc = "spending" /\ Room /\ minted' = minted + 1 /\ revoked' = revoked \cup {o.sent.jti}
      /\ UNCHANGED <<user, jar, tab, desk, lost, edits>>
  BY DEF Spend, browser
<1>2. o.sent \in Token /\ o.sent.jti \in 1 .. minted
  BY <1>0, <1>1 DEF CallOK, Carries, IsCookie, Call, Tokens
<1>3. /\ minted' \in 0 .. MaxEvents /\ minted + 1 \in 1 .. minted' /\ 1 .. minted \subseteq 1 .. minted'
      /\ revoked' \subseteq 1 .. minted'
  <2>1. minted' \in 0 .. MaxEvents
    BY <1>0, <1>1, BoundsAssumption DEF Room
  <2>2. minted + 1 \in 1 .. minted' /\ 1 .. minted \subseteq 1 .. minted'
    BY <1>0, <1>1
  <2> QED
    BY <1>0, <1>1, <1>2, <2>1, <2>2
<1>4. PICK n \in Nat : n = minted + 1
  BY <1>0
<1>5. PICK x : x = [o.sent EXCEPT !.jti = n]
  OBVIOUS
<1>6. x \in Token /\ x # None /\ x.jti = n /\ SameSession(x, o.sent)
  BY <1>2, <1>5, NoOne DEF Token, SameSession
<1>7. PICK c : c = [o EXCEPT !.pc = "renewed", !.unspent = FALSE, !.new = x]
  OBVIOUS
<1>8. /\ c \in Call /\ c.pc = "renewed" /\ c.sent = o.sent /\ c.new = x /\ c.op = o.op
      /\ c.who = o.who
  BY <1>0, <1>6, <1>7 DEF Call, Tokens
<1>9. call' = [call EXCEPT ![k] = c]
  BY <1>4, <1>5, <1>7 DEF Spend, Answer
<1>10. CallOK(c)'
  BY <1>0, <1>1, <1>2, <1>3, <1>4, <1>6, <1>8 DEF CallOK, Carries, Bears, IsCookie
<1>11. CallStep(k, c)
  BY <1>0, <1>1, <1>3, <1>8, <1>9, <1>10 DEF CallStep, IsCookie
<1>12. Sources(k, c)
  BY <1>1, <1>6, <1>8 DEF Sources, Renews
<1>13. Turns(k, c)
  BY <1>1, <1>2, <1>4, <1>6, <1>8, NoOne DEF Turns, Spends, Replaces, Carries, Bears
<1> QED
  BY <1>1, <1>11, <1>12, <1>13 DEF StepOK

\* A sign-out lists the cookie's token.
LEMMA LogoutSteps ==
  ASSUME CallsOK, NEW k \in Calls, Logout(k)
  PROVE  UNCHANGED user /\ StepOK(k)
<1> DEFINE o == call[k]
<1>0. /\ o \in Call /\ CallOK(o) /\ call \in [Calls -> Call] /\ jar \in Tokens
      /\ tab \in [Tabs -> Tab] /\ (jar # None => IsCookie(jar))
      /\ minted \in 0 .. MaxEvents /\ revoked \subseteq 1 .. minted /\ lost \in BOOLEAN
  BY CallType
<1>1. /\ o.pc = "logout" /\ UNCHANGED <<user, minted, jar, tab, desk, lost, edits>>
      /\ revoked' = IF o.sent = None THEN revoked ELSE revoked \cup {o.sent.jti}
  BY DEF Logout, browser
<1>2. PICK c : c = [o EXCEPT !.pc = "left"]
  OBVIOUS
<1>3. c \in Call /\ c.pc = "left" /\ c.sent = o.sent /\ c.new = o.new /\ c.op = o.op /\ c.who = o.who
  BY <1>0, <1>2 DEF Call
<1>4. call' = [call EXCEPT ![k] = c]
  BY <1>2 DEF Logout, Answer
<1>5. revoked' \subseteq 1 .. minted'
  BY <1>0, <1>1 DEF CallOK, Carries, IsCookie
<1>6. CallOK(c)'
  BY <1>0, <1>1, <1>3 DEF CallOK, Carries, Bears, IsCookie
<1>7. CallStep(k, c)
  BY <1>0, <1>1, <1>3, <1>4, <1>5, <1>6 DEF CallStep, IsCookie
<1>8. Sources(k, c)
  BY <1>1, <1>3 DEF Sources
<1>9. Turns(k, c)
  BY <1>1, <1>3 DEF Turns, Spends, Replaces, Carries, Bears
<1> QED
  BY <1>1, <1>7, <1>8, <1>9 DEF StepOK

\* A pair that is stored replaces the cookie and the tab's access token.
LEMMA StoreSteps ==
  ASSUME CallsOK, NEW k \in Calls, Store(k)
  PROVE  UNCHANGED user /\ StepOK(k)
<1> DEFINE o == call[k]
<1>0. /\ o \in Call /\ CallOK(o) /\ call \in [Calls -> Call] /\ tab \in [Tabs -> Tab]
      /\ minted \in 0 .. MaxEvents /\ revoked \subseteq 1 .. minted
      /\ TabOf[k] \in Tabs /\ tab[TabOf[k]] \in Tab
  BY CallType
<1>1. /\ o.pc \in {"granted", "renewed"} /\ UNCHANGED <<user, revoked, minted, desk, edits>>
      /\ jar' = o.new /\ lost' = FALSE
      /\ tab' = [tab EXCEPT ![TabOf[k]].access = Access(o.new)]
  BY DEF Store, server, JarWith
<1>2. o.new \in Token /\ o.new # None /\ IsCookie(o.new)
  BY <1>0, <1>1 DEF CallOK, Bears, Call, Tokens
<1>3. PICK x : x = Access(o.new)
  OBVIOUS
<1>4. x \in Token /\ SameSession(x, o.new)
  BY <1>2, <1>3 DEF Access, Token, SameSession
<1>5. tab' \in [Tabs -> Tab] /\ \A t \in Tabs : tab'[t].access = tab[t].access \/ Renews(k, tab'[t].access)
  <2> DEFINE t == [tab[TabOf[k]] EXCEPT !.access = x]
  <2>1. t \in Tab /\ t.access = x /\ tab' = [tab EXCEPT ![TabOf[k]] = t]
    BY <1>0, <1>1, <1>3, <1>4 DEF Tab, Tokens
  <2> HIDE DEF t
  <2>2. Renews(k, x)
    BY <1>4 DEF Renews
  <2> QED
    BY <1>0, <2>1, <2>2
<1>6. PICK c : call' = [call EXCEPT ![k] = c] /\ c \in Call /\ ~Bears(c) /\ ~Carries(c) /\ CallOK(c)
               /\ c.new = None /\ (c.sent = None \/ c.sent = x)
  <2>1. CASE o.pc = "renewed" /\ o.op = "login"
    <3>1. PICK c : c = [o EXCEPT !.pc = "login", !.sent = None, !.new = None, !.unspent = FALSE]
      OBVIOUS
    <3>2. /\ c \in Call /\ c.pc = "login" /\ c.sent = None /\ c.new = None /\ c.op = "login"
          /\ c.who = o.who
      BY <1>0, <2>1, <3>1 DEF Call, Operations, Tokens
    <3>3. call' = [call EXCEPT ![k] = c]
      BY <2>1, <3>1 DEF Store
    <3>4. CallOK(c) /\ ~Bears(c) /\ ~Carries(c)
      BY <1>0, <2>1, <3>2 DEF CallOK, Bears, Carries
    <3> QED
      BY <3>2, <3>3, <3>4
  <2>2. CASE ~(o.pc = "renewed" /\ o.op = "login")
    <3>1. PICK r \in BOOLEAN : r = (o.pc = "renewed" /\ o.retry)
      OBVIOUS
    <3>2. PICK h \in BOOLEAN : h = (o.pc = "granted" \/ o.hydrate)
      OBVIOUS
    <3>3. PICK c : c = [Idle EXCEPT !.pc = "api", !.sent = x, !.retry = r, !.hydrate = h]
      OBVIOUS
    <3>4. c \in Call /\ c.pc = "api" /\ c.sent = x /\ c.new = None /\ c.op = "api"
      BY <1>4, <3>3, Blanks DEF Idle, Call, Operations, Tokens
    <3>5. call' = [call EXCEPT ![k] = c]
      BY <1>3, <2>2, <3>1, <3>2, <3>3 DEF Store
    <3>6. CallOK(c) /\ ~Bears(c) /\ ~Carries(c)
      BY <3>4 DEF CallOK, Bears, Carries
    <3> QED
      BY <3>4, <3>5, <3>6
  <2> QED
    BY <2>1, <2>2
<1>7. CallOK(c)'
  BY <1>1, <1>6 DEF CallOK, Carries, Bears, IsCookie
<1>8. CallStep(k, c)
  BY <1>0, <1>1, <1>2, <1>5, <1>6, <1>7 DEF CallStep, IsCookie, Tokens
<1>9. Sources(k, c)
  BY <1>1, <1>4, <1>5, <1>6 DEF Sources, Renews
<1>10. Turns(k, c)
  BY <1>1, <1>6 DEF Turns, Spends, Replaces, Bears
<1> QED
  BY <1>1, <1>8, <1>9, <1>10 DEF StepOK

\* A sign-out heard, and a request that comes to nothing.
LEMMA EndSteps ==
  ASSUME CallsOK, NEW k \in Calls, Leave(k) \/ Fail(k)
  PROVE  UNCHANGED user /\ StepOK(k)
<1>0. /\ call[k] \in Call /\ call \in [Calls -> Call] /\ tab \in [Tabs -> Tab]
      /\ minted \in 0 .. MaxEvents /\ revoked \subseteq 1 .. minted /\ lost \in BOOLEAN
      /\ TabOf[k] \in Tabs /\ tab[TabOf[k]] \in Tab
      /\ jar \in Tokens /\ (jar # None => IsCookie(jar))
  BY CallType
<1>1. /\ UNCHANGED <<user, revoked, minted, desk, edits>>
      /\ call' = [call EXCEPT ![k] = Idle]
      /\ \/ jar' = jar /\ lost' = (lost \/ (call[k].pc \in {"renewed", "left"} /\ call[k].sent = jar))
         \/ jar' = None /\ lost' = FALSE
  <2>1. CASE Leave(k)
    BY <2>1 DEF Leave, server
  <2>2. CASE Fail(k)
    BY <2>2 DEF Fail, Answer, server
  <2> QED
    BY <2>1, <2>2
<1>2. Idle.pc = "idle" /\ Idle.op = "api" /\ Idle.sent = None /\ Idle.new = None
  BY DEF Idle
<1>3. tab' \in [Tabs -> Tab] /\ \A t \in Tabs : tab'[t].access \in {None, tab[t].access}
  <2>1. PICK t : tab' = [tab EXCEPT ![TabOf[k]] = t] /\ t \in {Anonymous, tab[TabOf[k]],
                                                            [tab[TabOf[k]] EXCEPT !.access = None]}
    BY DEF Leave, Fail, AfterFailure
  <2>2. t \in Tab /\ t.access \in {None, tab[TabOf[k]].access}
    BY <1>0, <2>1, Blanks DEF Anonymous, Tab, Tokens
  <2> QED
    BY <1>0, <2>1, <2>2
<1>4. CallOK(Idle)' /\ ~Bears(Idle) /\ ~Carries(Idle)
  BY <1>2 DEF CallOK, Bears, Carries
<1>5. CallStep(k, Idle)
  BY <1>0, <1>1, <1>3, <1>4, Blanks DEF CallStep, IsCookie, Tokens
<1>6. Sources(k, Idle)
  BY <1>1, <1>2, <1>3 DEF Sources
<1>7. Turns(k, Idle)
  BY <1>1, <1>4 DEF Turns, Spends, Replaces
<1> QED
  BY <1>1, <1>5, <1>6, <1>7 DEF StepOK

\* No step of a request breaks what requests, rows and desks owe each other.
LEMMA ProceedsSteps ==
  ASSUME Wired, NEW k \in Calls, Sends(k) \/ Proceeds(k)
  PROVE  AccountsOK' /\ Grows /\ StepOK(k)
<1>1. CASE Login(k) \/ SsoCallback(k) \/ SsoFirstTouch(k)
  BY <1>1, SignInSteps
<1>2. CASE ~(Login(k) \/ SsoCallback(k) \/ SsoFirstTouch(k))
  <2>1. UNCHANGED user /\ StepOK(k)
    BY <1>2, SendsSteps, PlainServerSteps, SpendSteps, LogoutSteps, StoreSteps, EndSteps
       DEF Wired, AccountsOK, Proceeds
  <2>2. UNCHANGED <<desk, edits>>
    BY <2>1 DEF StepOK, CallStep
  <2> QED
    BY <2>1, <2>2 DEF Wired, AccountsOK, Grows, RowOK, DeskOK, There
<1> QED
  BY <1>1, <1>2

-----------------------------------------------------------------------------
(* Types, requests, rows and desks *)

\* Every step is one of an account, of a request, of a reloaded page, or nothing.
LEMMA NextCases ==
  ASSUME Wired, [Next]_vars
  PROVE  /\ AccountsOK' /\ Grows
         /\ \/ UNCHANGED <<revoked, minted, browser, call, lost>>
            \/ \E k \in Calls : StepOK(k)
            \/ \E t \in Tabs : Reload(t) /\ UNCHANGED user
<1>1. CASE \E u \in Users : Administer(u)
  BY <1>1, AdministerKeeps DEF Wired
<1>2. CASE \E d \in Desks : DeskStep(d)
  BY <1>2, DeskStepKeeps DEF Wired
<1>3. CASE \E k \in Calls : Sends(k) \/ Proceeds(k)
  BY <1>3, ProceedsSteps
<1>4. CASE (\E t \in Tabs : Reload(t)) \/ UNCHANGED vars
  <2>1. UNCHANGED <<user, desk, edits>>
    BY <1>4 DEF Reload, server, vars
  <2>2. UNCHANGED <<revoked, minted, browser, call, lost>> \/ \E t \in Tabs : Reload(t)
    BY <1>4 DEF vars, server
  <2> QED
    BY <2>1, <2>2 DEF Wired, AccountsOK, Grows, RowOK, DeskOK, There
<1> QED
  BY <1>1, <1>2, <1>3, <1>4 DEF Next

\* At first nobody is there and nothing is sent.
THEOREM InitWired == Init => Wired
<1> SUFFICES ASSUME Init PROVE Wired
  OBVIOUS
<1>1. CallsOK
  <2>1. \A k \in Calls : CallOK(call[k])
    BY DEF Init, Idle, CallOK, Carries, Bears
  <2>2. revoked \subseteq 1 .. minted /\ minted \in 0 .. MaxEvents
    BY BoundsAssumption DEF Init
  <2>3. jar \in Tokens /\ jar = None /\ lost \in BOOLEAN
    BY DEF Init, Tokens
  <2>4. tab \in [Tabs -> Tab] /\ call \in [Calls -> Call]
    BY Blanks DEF Init
  <2> QED
    BY <2>1, <2>2, <2>3, <2>4 DEF CallsOK
<1>2. AccountsOK
  <2>1. \A u \in Users : RowOK(u)
    BY DEF Init, RowOK, Absent
  <2>2. \A d \in Desks : DeskOK(d)
    BY DEF Init, DeskOK, AtRest
  <2> QED
    BY <2>1, <2>2, Blanks, BoundsAssumption DEF Init, AccountsOK
<1> QED
  BY <1>1, <1>2 DEF Wired

\* No step of anyone breaks it.
THEOREM NextWired == Wired /\ [Next]_vars => Wired'
<1> SUFFICES ASSUME Wired, [Next]_vars PROVE Wired'
  OBVIOUS
<1>1. CASE UNCHANGED <<revoked, minted, browser, call, lost>>
  <2>1. CallsOK'
    BY <1>1 DEF Wired, CallsOK, CallOK, Carries, Bears, IsCookie, browser
  <2> QED
    BY <2>1, NextCases DEF Wired
<1>2. CASE \E k \in Calls : StepOK(k)
  <2>1. CallsOK'
    BY <1>2, CallKeeps DEF StepOK, Wired
  <2> QED
    BY <2>1, NextCases DEF Wired
<1>3. CASE \E t \in Tabs : Reload(t)
  <2>1. PICK t \in Tabs : Reload(t)
    BY <1>3
  <2>2. UNCHANGED <<revoked, minted, jar, call, lost>> /\ tab' = [tab EXCEPT ![t].as = None]
    BY <2>1 DEF Reload, server
  <2>3. tab' \in [Tabs -> Tab]
    <3> DEFINE x == [tab[t] EXCEPT !.as = None]
    <3>1. x \in Tab /\ tab' = [tab EXCEPT ![t] = x] /\ tab \in [Tabs -> Tab]
      BY <2>2 DEF Wired, CallsOK, Tab
    <3> HIDE DEF x
    <3> QED
      BY <3>1
  <2>4. CallsOK'
    BY <2>2, <2>3 DEF Wired, CallsOK, CallOK, Carries, Bears, IsCookie
  <2> QED
    BY <2>4, NextCases DEF Wired
<1> QED
  BY <1>1, <1>2, <1>3, NextCases

\* Rows, tokens, tabs, requests and desks keep the shapes the code gives them; in
\* particular a jti on the blocklist was minted.
THEOREM AccountTypes == Spec => []TypeOK
<1>1. Wired => TypeOK
  BY DEF Wired, CallsOK, AccountsOK, TypeOK
<1> QED
  BY <1>1, InitWired, NextWired, PTL DEF Spec

-----------------------------------------------------------------------------
(* Whoever is let in has proved the password *)

\* A token is of an account that is there, of its generation or of an earlier one, and of
\* its password when of its generation.
Sound(x) == x # None =>
    /\ There(x.user)
    /\ x.gen <= user[x.user].gen
    /\ x.gen = user[x.user].gen => x.password = user[x.user].password

HeldSound == /\ Sound(jar)
             /\ \A t \in Tabs : Sound(tab[t].access)
             /\ \A k \in Calls : Sound(call[k].sent) /\ Sound(call[k].new)

Earned == Wired /\ HeldSound

\* What becomes of its account leaves a token sound.
LEMMA SoundStays == ASSUME AccountsOK, Grows PROVE \A x \in Tokens : Sound(x) => Sound(x)'
<1> SUFFICES ASSUME NEW x \in Tokens, x # None, Sound(x) PROVE Sound(x)'
  BY DEF Sound
<1>1. x.user \in Users /\ x.gen \in Nat /\ user[x.user] \in Row /\ There(x.user)
  BY DEF Tokens, Token, AccountsOK, Sound
<1>2. user[x.user].gen \in Nat
  BY <1>1 DEF Row
<1>3. There(x.user)'
  BY <1>1 DEF Grows, There
<1> QED
  BY <1>1, <1>2, <1>3 DEF Sound, Grows

\* So is one that a request is given, or renews.
LEMMA NewSound ==
  ASSUME AccountsOK', NEW k \in Calls, NEW s, NEW n, s = call[k].sent, n = call[k].new,
         Sound(s)', Sound(n)'
  PROVE  \A x : Renews(k, x) \/ Proves(x) => Sound(x)'
<1> SUFFICES ASSUME NEW x, Renews(k, x) \/ Proves(x) PROVE Sound(x)'
  OBVIOUS
<1>1. CASE Renews(k, x)
  BY <1>1 DEF Renews, SameSession, Sound, There
<1>2. CASE Proves(x)
  <2>1. PICK u \in Users : There(u)' /\ x.user = u /\ x.gen = user'[u].gen
                           /\ x.password = user'[u].password
    BY <1>2 DEF Proves
  <2>2. user'[u].gen \in Nat
    BY DEF AccountsOK, Row
  <2> QED
    BY <2>1, <2>2 DEF Sound, There
<1> QED
  BY <1>1, <1>2

\* At first no token is held.
THEOREM InitEarned == Init => Earned
<1> SUFFICES ASSUME Init PROVE Earned
  OBVIOUS
<1>1. HeldSound
  BY DEF Init, HeldSound, Sound, Anonymous, Idle
<1> QED
  BY <1>1, InitWired DEF Earned

\* A new token is of a password that was proved, or of a session that was.
THEOREM NextEarned == Earned /\ [Next]_vars => Earned'
<1> SUFFICES ASSUME Earned, [Next]_vars PROVE Earned'
  OBVIOUS
<1>1. Wired /\ Wired' /\ CallsOK /\ AccountsOK /\ AccountsOK' /\ Grows /\ HeldSound
  BY NextWired, NextCases DEF Earned, Wired
<1>2. \A x \in Tokens : Sound(x) => Sound(x)'
  BY <1>1, SoundStays
<1>3. \A t \in Tabs : tab[t] \in Tab /\ tab[t].access \in Tokens
  BY <1>1 DEF CallsOK, Tab
<1>4. \A k \in Calls : call[k] \in Call /\ call[k].sent \in Tokens /\ call[k].new \in Tokens
  BY <1>1 DEF CallsOK, Call
<1>5. jar \in Tokens /\ tab \in [Tabs -> Tab] /\ call \in [Calls -> Call]
  BY <1>1 DEF CallsOK
<1>6. CASE UNCHANGED <<browser, call>>
  BY <1>1, <1>2, <1>3, <1>4, <1>5, <1>6 DEF Earned, HeldSound, Sound, browser, There
<1>7. CASE \E k \in Calls : StepOK(k)
  <2>0. PICK k \in Calls : StepOK(k)
    BY <1>7
  <2>1. PICK c : CallStep(k, c) /\ Sources(k, c)
    BY <2>0 DEF StepOK
  <2>2. PICK s \in Tokens, n \in Tokens : s = call[k].sent /\ n = call[k].new
    BY <1>4
  <2>3. Sound(s)' /\ Sound(n)' /\ Sound(None)'
    BY <1>1, <1>2, <2>2 DEF HeldSound, Sound
  <2>4. \A x : Renews(k, x) \/ Proves(x) => Sound(x)'
    BY <1>1, <2>2, <2>3, NewSound
  <2>5. PICK j \in Tokens : j = jar
    BY <1>5
  <2>6. Sound(j)'
    BY <1>1, <1>2, <2>5 DEF HeldSound, Sound
  <2>7. \A t \in Tabs : \A x \in Tokens : x = tab[t].access => Sound(x)'
    BY <1>1, <1>2 DEF HeldSound, Sound
  <2>8. Sound(jar)'
    <3>1. jar' \in {None, j, n}
      BY <2>1, <2>2, <2>5 DEF Sources
    <3>2. PICK x : x = jar'
      OBVIOUS
    <3>3. Sound(x)'
      BY <2>3, <2>6, <3>1, <3>2
    <3> QED
      BY <3>2, <3>3 DEF Sound
  <2>9. ASSUME NEW t \in Tabs PROVE Sound(tab[t].access)'
    <3>1. PICK x : x = tab'[t].access
      OBVIOUS
    <3>2. x = None \/ x = tab[t].access \/ Renews(k, x)
      BY <2>1, <3>1 DEF Sources
    <3>3. Sound(x)'
      BY <1>3, <2>3, <2>4, <2>7, <3>2
    <3> QED
      BY <3>1, <3>3 DEF Sound
  <2>10. Sound(c.sent)' /\ Sound(c.new)'
    <3>1. TabOf[k] \in Tabs
      BY TabOfAssumption
    <3>2. c.sent = None \/ c.sent = j \/ c.sent = s \/ c.sent = tab[TabOf[k]].access
             \/ Renews(k, c.sent)
      BY <2>1, <2>2, <2>5 DEF Sources
    <3>3. c.new = None \/ c.new = n \/ Renews(k, c.new) \/ Proves(c.new)
      BY <2>1, <2>2 DEF Sources
    <3> QED
      BY <1>3, <2>3, <2>4, <2>6, <2>7, <3>1, <3>2, <3>3
  <2>11. ASSUME NEW i \in Calls PROVE Sound(call[i].sent)' /\ Sound(call[i].new)'
    <3>1. CASE i = k
      BY <1>5, <2>1, <2>10, <3>1 DEF CallStep, Sound
    <3>2. CASE i # k
      <4>1. call'[i] = call[i]
        BY <1>5, <2>1, <3>2 DEF CallStep
      <4> QED
        BY <1>1, <1>2, <1>4, <4>1 DEF HeldSound, Sound
    <3> QED
      BY <3>1, <3>2
  <2> QED
    BY <1>1, <2>8, <2>9, <2>11 DEF Earned, HeldSound
<1>8. CASE \E t \in Tabs : Reload(t) /\ UNCHANGED user
  <2>1. UNCHANGED <<user, jar, call>> /\ \A t \in Tabs : tab'[t].access = tab[t].access
    BY <1>3, <1>5, <1>8 DEF Reload, server, Tab
  <2> QED
    BY <1>1, <2>1 DEF Earned, HeldSound, Sound, There
<1> QED
  BY <1>1, <1>6, <1>7, <1>8, NextCases

\* However resets, refreshes and sign-ins overlap, a token the server would take was got
\* with the password that is set now, and of nobody rejected whom no administrator has
\* reinstated.
THEOREM PasswordsRule == Spec => []SessionsAreEarned
<1>1. Earned => SessionsAreEarned
  <2> SUFFICES ASSUME Earned PROVE SessionsAreEarned
    OBVIOUS
  <2>1. TypeOK
    BY DEF Earned, Wired, CallsOK, AccountsOK, TypeOK
  <2>2. ASSUME NEW x \in Held PROVE x \in Token /\ x # None /\ Sound(x)
    <3>1. x # None /\ \/ x = jar
                      \/ \E t \in Tabs : x = tab[t].access
                      \/ \E k \in Calls : x \in {call[k].sent, call[k].new}
      BY <2>2 DEF Held
    <3>2. x \in Tokens
      BY <2>1, <3>1 DEF TypeOK, Tab, Call
    <3> QED
      BY <3>1, <3>2 DEF Tokens, Earned, HeldSound
  <2>3. \A x \in Held : x.user \in Users
    BY <2>2 DEF Token
  <2>4. SessionsProvePassword
    BY <2>2 DEF SessionsProvePassword, Honours, Sound
  <2>5. RejectedStaysOut
    BY <2>3 DEF RejectedStaysOut, Honours, Earned, Wired, AccountsOK, RowOK
  <2> QED
    BY <2>1, <2>4, <2>5 DEF SessionsAreEarned
<1> QED
  BY <1>1, InitEarned, NextEarned, PTL DEF Spec

-----------------------------------------------------------------------------
(* The cookie turns over *)

\* Refresh tokens that are in the jar or on their way from it.
Cookies == ({jar} \cup {call[k].sent : k \in {j \in Calls : Carries(call[j])}}) \ {None}

ToldApart == \A x, y \in Cookies : x.jti = y.jti => x = y

\* A pair not stored yet is nobody else's, and is not spent.
FreshPairs == \A k \in Calls : Bears(call[k]) =>
    /\ call[k].new.jti \notin revoked
    /\ \A x \in Cookies : x.jti # call[k].new.jti
    /\ \A j \in Calls \ {k} : Bears(call[j]) => call[j].new.jti # call[k].new.jti

Rotating == Wired /\ ToldApart /\ FreshPairs /\ CookieOutlivesRaces

\* Every cookie was minted.
LEMMA CookiesMinted == ASSUME CallsOK PROVE \A x \in Cookies : IsCookie(x)
  BY DEF Cookies, CallsOK, CallOK

\* At first there is none.
THEOREM InitRotating == Init => Rotating
<1> SUFFICES ASSUME Init PROVE Rotating
  OBVIOUS
<1>1. Cookies = {} /\ \A k \in Calls : ~Bears(call[k]) /\ ~Carries(call[k])
  BY DEF Init, Cookies, Carries, Bears, Idle
<1> QED
  BY <1>1, InitWired DEF Init, Rotating, ToldApart, FreshPairs, CookieOutlivesRaces

\* A request's step lists or hands over a cookie, and makes none that is not in hand.
LEMMA CookieStep ==
  ASSUME CallsOK, NEW k \in Calls, NEW c, CallStep(k, c), Turns(k, c)
  PROVE  /\ call'[k] = c /\ \A j \in Calls \ {k} : call'[j] = call[j]
         /\ \A x \in Cookies' :
               \/ x \in Cookies
               \/ Bears(call[k]) /\ ~Bears(c) /\ x = call[k].new /\ UNCHANGED revoked
         /\ \A n \in revoked' : n \in revoked \/ \E x \in Cookies : n = x.jti
<1>1. call'[k] = c /\ \A j \in Calls \ {k} : call'[j] = call[j]
  BY DEF CallStep, CallsOK
<1>2. \A x : x \in Cookies <=> /\ x # None
                               /\ x = jar \/ \E j \in Calls : Carries(call[j]) /\ x = call[j].sent
  BY DEF Cookies
<1>3. \A x \in Cookies' : /\ x # None
                          /\ x = jar' \/ \E j \in Calls : Carries(call'[j]) /\ x = call'[j].sent
  BY DEF Cookies
<1>4. ASSUME NEW x \in Cookies'
      PROVE  \/ x \in Cookies
             \/ Bears(call[k]) /\ ~Bears(c) /\ x = call[k].new /\ UNCHANGED revoked
  <2>1. CASE x = jar'
    BY <1>2, <1>3, <2>1 DEF Turns, Replaces
  <2>2. CASE \E j \in Calls : Carries(call'[j]) /\ x = call'[j].sent
    <3>1. PICK j \in Calls : Carries(call'[j]) /\ x = call'[j].sent
      BY <2>2
    <3>2. CASE j = k
      BY <1>1, <1>2, <1>3, <3>1, <3>2 DEF Turns
    <3>3. CASE j # k
      BY <1>1, <1>2, <1>3, <3>1, <3>3
    <3> QED
      BY <3>2, <3>3
  <2> QED
    BY <1>3, <2>1, <2>2
<1>5. ASSUME NEW n \in revoked' PROVE n \in revoked \/ \E x \in Cookies : n = x.jti
  BY <1>2 DEF Turns, Spends
<1> QED
  BY <1>1, <1>4, <1>5

\* A new pair has the next jti, so a cookie is mistaken for no other ...
LEMMA StaysFresh ==
  ASSUME Rotating, NEW k \in Calls, NEW c, CallStep(k, c), Turns(k, c)
  PROVE  ToldApart' /\ FreshPairs'
<1>1. CallsOK /\ ToldApart /\ FreshPairs
  BY DEF Rotating, Wired
<1>2. /\ call'[k] = c /\ \A j \in Calls \ {k} : call'[j] = call[j]
      /\ \A x \in Cookies' :
            \/ x \in Cookies
            \/ Bears(call[k]) /\ ~Bears(c) /\ x = call[k].new /\ UNCHANGED revoked
      /\ \A n \in revoked' : n \in revoked \/ \E x \in Cookies : n = x.jti
  BY <1>1, CookieStep
<1>3. ToldApart'
  BY <1>1, <1>2 DEF ToldApart, FreshPairs
<1>4. minted \in Nat /\ revoked \subseteq 1 .. minted /\ \A x \in Cookies : x.jti \in 1 .. minted
  BY <1>1, CookiesMinted DEF CallsOK, IsCookie
<1>5. \A j \in Calls : Bears(call[j]) => call[j].new.jti \in 1 .. minted
  BY <1>1 DEF CallsOK, CallOK, IsCookie
<1>6. Bears(c) => /\ c.new.jti = minted + 1
                  /\ \A x \in Cookies' : x \in Cookies
  BY <1>2 DEF Turns
<1>7. ASSUME NEW j \in Calls, Bears(call'[j])
      PROVE  /\ call'[j].new.jti \notin revoked'
             /\ \A x \in Cookies' : x.jti # call'[j].new.jti
             /\ \A i \in Calls \ {j} : Bears(call'[i]) => call'[i].new.jti # call'[j].new.jti
  <2>1. CASE j = k
    <3>1. c.new.jti \notin 1 .. minted /\ call'[j] = c
      BY <1>2, <1>4, <1>6, <1>7, <2>1
    <3> QED
      BY <1>2, <1>4, <1>5, <1>6, <1>7, <2>1, <3>1
  <2>2. CASE j # k
    <3>1. call'[j] = call[j] /\ Bears(call[j])
      BY <1>2, <1>7, <2>2
    <3>2. call[j].new.jti \notin revoked'
      BY <1>1, <1>2, <3>1 DEF FreshPairs
    <3>3. \A x \in Cookies' : x.jti # call[j].new.jti
      BY <1>1, <1>2, <2>2, <3>1 DEF FreshPairs
    <3>4. ASSUME NEW i \in Calls \ {j}, Bears(call'[i]) PROVE call'[i].new.jti # call[j].new.jti
      <4>1. CASE i = k
        <5>1. c.new.jti \notin 1 .. minted
          BY <1>2, <1>4, <1>6, <3>4, <4>1
        <5> QED
          BY <1>2, <1>5, <3>1, <4>1, <5>1
      <4>2. CASE i # k
        BY <1>1, <1>2, <3>1, <3>4, <4>2 DEF FreshPairs
      <4> QED
        BY <4>1, <4>2
    <3> QED
      BY <3>1, <3>2, <3>3, <3>4
  <2> QED
    BY <2>1, <2>2
<1>8. FreshPairs'
  BY <1>7 DEF FreshPairs, Bears
<1> QED
  BY <1>3, <1>8

\* ... and the one in the jar is spent only while its successor is on its way, or is lost.
LEMMA JarStep ==
  ASSUME Rotating, NEW k \in Calls, NEW c, CallStep(k, c), Turns(k, c)
  PROVE  CookieOutlivesRaces'
<1>1. CallsOK /\ ToldApart /\ FreshPairs /\ CookieOutlivesRaces
  BY DEF Rotating, Wired
<1>2. call'[k] = c /\ \A j \in Calls \ {k} : call'[j] = call[j]
  BY <1>1, CookieStep
<1>3. SUFFICES ASSUME jar' # None, jar'.jti \in revoked'
               PROVE  lost' \/ \E j \in Calls : /\ call'[j].pc \in {"renewed", "left"}
                                                /\ call'[j].sent = jar'
  BY DEF CookieOutlivesRaces
<1>4. UNCHANGED jar /\ (lost => lost')
      /\ (call[k].pc \in {"renewed", "left"} /\ call[k].sent = jar => lost')
  BY <1>1, <1>3 DEF Turns, Replaces, FreshPairs
<1>5. CASE jar.jti \in revoked
  BY <1>1, <1>2, <1>3, <1>4, <1>5 DEF CookieOutlivesRaces
<1>6. CASE jar.jti \notin revoked
  <2>1. /\ Carries(call[k]) /\ call[k].sent # None /\ jar.jti = call[k].sent.jti
        /\ c.pc \in {"renewed", "left"} /\ c.sent = call[k].sent
    BY <1>3, <1>4, <1>6 DEF Turns, Spends
  <2>2. jar \in Cookies /\ call[k].sent \in Cookies
    BY <1>3, <1>4, <2>1 DEF Cookies
  <2>3. call[k].sent = jar
    BY <1>1, <2>1, <2>2 DEF ToldApart
  <2> QED
    BY <1>2, <1>4, <2>1, <2>3
<1> QED
  BY <1>5, <1>6

\* No step of anyone breaks it.
THEOREM NextRotating == Rotating /\ [Next]_vars => Rotating'
<1> SUFFICES ASSUME Rotating, [Next]_vars PROVE Rotating'
  OBVIOUS
<1>1. Wired /\ Wired'
  BY NextWired DEF Rotating
<1>2. CASE UNCHANGED <<revoked, minted, jar, call, lost>>
  BY <1>1, <1>2 DEF Rotating, ToldApart, FreshPairs, CookieOutlivesRaces, Cookies, Carries, Bears
<1>3. CASE \E k \in Calls : StepOK(k)
  BY <1>1, <1>3, StaysFresh, JarStep DEF StepOK, Rotating
<1> QED
  BY <1>1, <1>2, <1>3, NextCases DEF browser, Reload, server

\* However many tabs refresh, sign out and lose their answers, the cookie is good for
\* another refresh unless its successor is on its way or was lost, and a token sent after
\* its exchange has committed is refused.
THEOREM CookiesRotate == Spec => []RotationHolds
<1>1. Rotating => RotationHolds
  BY DEF Rotating, Wired, CallsOK, CallOK, RotationHolds, SpentStaysSpent
<1> QED
  BY <1>1, InitRotating, NextRotating, PTL DEF Spec
=============================================================================
