------------------------ MODULE AccessControl_proofs ------------------------
(***************************************************************************)
(* What holds of AccessControl for any staff, roles, keys, plots and       *)
(* number of requests under way at once: a save that nobody crosses does   *)
(* to the tables just what was sent (LoneSavesStand), and nobody becomes a *)
(* super administrator but by the hand of one (OnlySupersMakeSupers).  And *)
(* of MenuTree for any menus and permissions: the sidebar shows just what  *)
(* leads somewhere (MenusAreShown).                                        *)
(*                                                                         *)
(* Tables are the foreign keys: no row outlives its role. Requests says of *)
(* each request under way that what it read is still so unless another of  *)
(* its kind crossed it (Good), and that two that cross know of each other  *)
(* (Apart). A role that is deleted while a save that names it is under way *)
(* is what the invariant needs Outlive for: a role created again under the *)
(* same name is another row.                                               *)
(*                                                                         *)
(* Menus: the shape of the catalogue is all the invariant there is; the    *)
(* rest is what the two recursions compute of it.  A way up of d steps is  *)
(* the whole way or has d + 1 menus (LineageEnds), so that of all menus but*)
(* one is the whole way: walks of as many steps as there are menus miss    *)
(* nothing, and ways up that run in a circle end too.                      *)
(***************************************************************************)
EXTENDS AccessControl, MenuTree, TLAPS, WellFoundedInduction, FiniteSetTheorems

\* What one left side of a relation, or one right side, is paired with.
Of(S, x) == {g[2] : g \in {h \in S : h[1] = x}}
To(S, x) == {g[1] : g \in {h \in S : h[2] = x}}

\* What is read of the link tables depends on the rows of one role, user or plot only.
LEMMA Lookups ==
  /\ \A r : KeysOf(r) = Of(grants, r)
  /\ \A u : RolesOf(u) = Of(holders, u)
  /\ \A p : AssignedTo(p) = To(assigned, p)
  BY DEF KeysOf, RolesOf, AssignedTo, Of, To

RewrittenOf(S, r, M, T) == T = {g \in S : g[1] # r} \cup ({r} \X M)
RewrittenTo(S, r, M, T) == T = {g \in S : g[2] # r} \cup (M \X {r})

\* Writing all of one left side anew.
LEMMA RewriteOf ==
  ASSUME NEW S, NEW r, NEW M, NEW T, RewrittenOf(S, r, M, T)
  PROVE  /\ Of(T, r) = M
         /\ \A q : q # r => Of(T, q) = Of(S, q)
         /\ \A g \in T : g \in S \/ (g[1] = r /\ g[2] \in M)
<1> USE DEF RewrittenOf
<1>1. \A g \in {r} \X M : g[1] = r /\ g[2] \in M
  OBVIOUS
<1>2. \A m \in M : <<r, m>> \in T /\ <<r, m>>[1] = r /\ <<r, m>>[2] = m
  OBVIOUS
<1>3. \A x : x \in Of(T, r) <=> x \in M
  <2>1. ASSUME NEW x \in Of(T, r) PROVE x \in M
    <3> PICK g \in T : g[1] = r /\ g[2] = x
      BY DEF Of
    <3> QED BY <1>1
  <2>2. ASSUME NEW x \in M PROVE x \in Of(T, r)
    BY <1>2 DEF Of
  <2> QED BY <2>1, <2>2
<1>4. ASSUME NEW q, q # r PROVE Of(T, q) = Of(S, q)
  <2>1. {h \in T : h[1] = q} = {h \in S : h[1] = q}
    BY <1>1, <1>4
  <2> QED BY <2>1 DEF Of
<1> QED BY <1>1, <1>3, <1>4

\* Writing all of one right side anew.
LEMMA RewriteTo ==
  ASSUME NEW S, NEW r, NEW M, NEW T, RewrittenTo(S, r, M, T)
  PROVE  /\ To(T, r) = M
         /\ \A q : q # r => To(T, q) = To(S, q)
<1> USE DEF RewrittenTo
<1>1. \A g \in M \X {r} : g[2] = r /\ g[1] \in M
  OBVIOUS
<1>2. \A m \in M : <<m, r>> \in T /\ <<m, r>>[2] = r /\ <<m, r>>[1] = m
  OBVIOUS
<1>3. \A x : x \in To(T, r) <=> x \in M
  <2>1. ASSUME NEW x \in To(T, r) PROVE x \in M
    <3> PICK g \in T : g[2] = r /\ g[1] = x
      BY DEF To
    <3> QED BY <1>1
  <2>2. ASSUME NEW x \in M PROVE x \in To(T, r)
    BY <1>2 DEF To
  <2> QED BY <2>1, <2>2
<1>4. ASSUME NEW q, q # r PROVE To(T, q) = To(S, q)
  <2>1. {h \in T : h[2] = q} = {h \in S : h[2] = q}
    BY <1>1, <1>4
  <2> QED BY <2>1 DEF To
<1> QED BY <1>3, <1>4

\* A save that read what is there leaves what it was sent.
LEMMA MergeIsSent ==
  ASSUME NEW save, NEW now, now = save.had
  PROVE  Merge(now, save) = save.sent
  BY DEF Merge

-----------------------------------------------------------------------------
(* What a request has read *)

IsSave(s) == s = [op |-> s.op, of |-> s.of, had |-> s.had, sent |-> s.sent, crown |-> s.crown,
                  n |-> s.n, alone |-> s.alone]

IsOf(o, pair) == o.who = pair[1] /\ o.key = pair[2]

\* What was read of an override: rows of that user and key, whatever they say by now.
ReadOfOverride(s) ==
    /\ s.of = <<s.of[1], s.of[2]>> /\ s.of[1] \in Staff /\ s.of[2] \in Keys /\ s.sent \in BOOLEAN
    /\ s.had \subseteq Override
    /\ \A o \in s.had : /\ IsOf(o, s.of) /\ o.id < s.n
                        /\ \A p \in overrides : p.id = o.id => IsOf(p, s.of)

\* While a save is alone, what it read is what there is.
ReadIsNow(s) ==
    /\ s.op = "role" => KeysOf(s.of) = s.had
    /\ s.op = "user" => RolesOf(s.of) = s.had
    /\ s.op = "override" => RowsOf(s.of[1], s.of[2]) = s.had
    /\ s.op = "plot" => AssignedTo(s.of) = s.had

Good(s) ==
    /\ IsSave(s) /\ s.op # "none" /\ s.n \in Nat \ {0} /\ s.alone \in BOOLEAN
    /\ \A o \in overrides : o.id # s.n
    /\ s.op = "role" => s.of \in roles
    /\ s.op = "newRole" => s.had = {}
    /\ s.op = "user" => s.sent \subseteq roles /\ (SuperAdmin \in s.sent => s.crown)
    /\ s.op = "override" => ReadOfOverride(s)
    /\ s.alone => ReadIsNow(s)

Rivals(s, t) == s.op = t.op /\ s.of = t.of /\ s.op # "stranded"

Apart(s, t) ==
    /\ s.n # t.n
    /\ Rivals(s, t) => ~s.alone
    /\ s.op = "override" => \A o \in s.had : o.id # t.n

Tables ==
    /\ saves \in Nat
    /\ \A g \in grants : g[1] \in roles
    /\ \A h \in holders : h[2] \in roles
    /\ overrides \subseteq Override
    /\ \A o \in overrides : o.id <= saves
    /\ \A o, p \in overrides : o.id = p.id => o = p

Requests ==
    /\ office = [a \in Admins |-> office[a]]
    /\ \A a \in Admins : office[a] # Nobody => Good(office[a]) /\ office[a].n <= saves
    /\ \A a, b \in Admins :
          a # b /\ office[a] # Nobody /\ office[b] # Nobody => Apart(office[a], office[b])

AccessInv == Tables /\ Requests

\* The tables as seeded, with no request open, satisfy the invariant.
LEMMA AccessInitInv == AccessInit => AccessInv
  BY AccessAssumption, SeedAssumption DEF AccessInit, AccessInv, Tables, Requests

-----------------------------------------------------------------------------
(* A request begins *)

\* Company costs a request its being alone, and nothing else.
LEMMA Accompanied ==
  ASSUME NEW s, Good(s), NEW x \in BOOLEAN, x => s.alone, NEW t, t = [s EXCEPT !.alone = x]
  PROVE  /\ Good(t) /\ t.alone = x /\ t.op = s.op /\ t.of = s.of /\ t.had = s.had /\ t.n = s.n
<1> PICK op, of, had, sent, crown, n, alone :
       s = [op |-> op, of |-> of, had |-> had, sent |-> sent, crown |-> crown, n |-> n, alone |-> alone]
  BY DEF Good, IsSave
<1>1. t = [op |-> op, of |-> of, had |-> had, sent |-> sent, crown |-> crown, n |-> n, alone |-> x]
  OBVIOUS
<1>2. /\ t.op = op /\ t.of = of /\ t.had = had /\ t.sent = sent /\ t.crown = crown /\ t.n = n
      /\ t.alone = x
      /\ s.op = op /\ s.of = of /\ s.had = had /\ s.sent = sent /\ s.crown = crown /\ s.n = n
  BY <1>1
<1>3. IsSave(t)
  BY <1>1, <1>2 DEF IsSave
<1>4. ReadOfOverride(s) => ReadOfOverride(t)
  BY <1>2 DEF ReadOfOverride
<1>5. ReadIsNow(s) => ReadIsNow(t)
  BY <1>2 DEF ReadIsNow
<1>6. Good(t)
  BY <1>2, <1>3, <1>4, <1>5 DEF Good
<1> QED BY <1>2, <1>6

\* Opening a request: it holds what it just read of the tables.
LEMMA BeginInv ==
  ASSUME AccessInv, NEW a \in Admins, MayBegin(a), NEW save, Begin(a, save),
         Good(save), save.alone, save.n = saves + 1, save.op # "stranded",
         save.op = "override" => save.had \subseteq overrides
  PROVE  AccessInv'
<1> DEFINE rivals == {b \in Admins : office[b] # Nobody /\ office[b].op = save.op
                                                        /\ office[b].of = save.of}
<1>1. saves' = saves + 1 /\ UNCHANGED <<roles, grants, holders, overrides, assigned>>
  BY DEF Begin
<1>2. office' = [b \in Admins |->
                    IF b = a THEN [save EXCEPT !.alone = rivals = {}]
                    ELSE IF b \in rivals THEN [office[b] EXCEPT !.alone = FALSE]
                    ELSE office[b]]
  BY DEF Begin
<1>3. office[a] = Nobody /\ saves \in Nat
  BY DEF MayBegin, AccessInv, Tables, Requests
<1>4. /\ Good(office'[a]) /\ office'[a].op = save.op /\ office'[a].of = save.of
      /\ office'[a].had = save.had /\ office'[a].n = saves + 1
      /\ office'[a].alone => rivals = {}
  <2> PICK x \in BOOLEAN : x <=> rivals = {}
    OBVIOUS
  <2>1. x = (rivals = {})
    OBVIOUS
  <2>2. office'[a] = [save EXCEPT !.alone = x]
    BY <1>2, <2>1
  <2>3. x => save.alone
    OBVIOUS
  <2> HIDE DEF rivals
  <2> QED BY <2>2, <2>3, Accompanied
<1>5. ASSUME NEW b \in Admins, b # a, office'[b] # Nobody
      PROVE  /\ office[b] # Nobody /\ Good(office'[b]) /\ office'[b].op = office[b].op
             /\ office'[b].of = office[b].of /\ office'[b].had = office[b].had
             /\ office'[b].n = office[b].n
             /\ office'[b].alone => office[b].alone /\ b \notin rivals
  <2>1. CASE b \in rivals
    <3>1. office'[b] = [office[b] EXCEPT !.alone = FALSE] /\ office[b] # Nobody
      BY <1>2, <1>5, <2>1
    <3>2. Good(office[b])
      BY <3>1 DEF AccessInv, Tables, Requests
    <3> HIDE DEF rivals
    <3> QED BY <3>1, <3>2, Accompanied
  <2>2. CASE b \notin rivals
    <3>1. office'[b] = office[b]
      BY <1>2, <1>5, <2>2
    <3> QED BY <1>5, <2>2, <3>1 DEF AccessInv, Tables, Requests
  <2> QED BY <2>1, <2>2
<1>6. office' = [b \in Admins |-> office'[b]]
  BY <1>2
<1>8. \A b \in Admins : office'[b] # Nobody => Good(office[b])' /\ office'[b].n <= saves'
  <2> SUFFICES ASSUME NEW b \in Admins, office'[b] # Nobody
               PROVE  Good(office[b])' /\ office'[b].n <= saves'
    OBVIOUS
  <2>1. Good(office'[b])
    BY <1>4, <1>5
  <2>2. Good(office[b])'
    BY <2>1, <1>1 DEF Good, ReadOfOverride, ReadIsNow, IsSave, KeysOf, RolesOf, RowsOf, AssignedTo
  <2>3. office'[b].n <= saves'
    BY <1>1, <1>3, <1>4, <1>5 DEF AccessInv, Tables, Requests, Good
  <2> QED BY <2>2, <2>3
<1>9. \A b, c \in Admins :
        b # c /\ office'[b] # Nobody /\ office'[c] # Nobody => Apart(office'[b], office'[c])
  <2> SUFFICES ASSUME NEW b \in Admins, NEW c \in Admins, b # c, office'[b] # Nobody,
                      office'[c] # Nobody
               PROVE  Apart(office'[b], office'[c])
    OBVIOUS
  <2>1. CASE b # a /\ c # a
    <3>1. Apart(office[b], office[c])
      BY <1>5, <2>1 DEF AccessInv, Tables, Requests
    <3> QED BY <1>5, <2>1, <3>1 DEF Apart, Rivals
  <2>2. CASE b = a
    <3>1. office[c] # Nobody /\ office[c].n <= saves /\ office[c].n \in Nat
      BY <1>5, <2>2 DEF AccessInv, Tables, Requests, Good
    <3>2. office'[b].n # office'[c].n
      BY <1>3, <1>4, <1>5, <2>2, <3>1
    <3>3. Rivals(office'[b], office'[c]) => ~office'[b].alone
      BY <1>4, <1>5, <2>2, <3>1 DEF Rivals
    <3>4. office'[b].op = "override" => \A o \in office'[b].had : o.id # office'[c].n
      BY <1>4, <1>5, <2>2, <3>1 DEF AccessInv, Tables, Requests, Good
    <3> QED BY <3>2, <3>3, <3>4 DEF Apart
  <2>3. CASE c = a
    <3>1. office[b] # Nobody /\ office[b].n <= saves /\ office[b].n \in Nat /\ Good(office[b])
      BY <1>5, <2>3 DEF AccessInv, Tables, Requests, Good
    <3>2. office'[b].n # office'[c].n
      BY <1>3, <1>4, <1>5, <2>3, <3>1
    <3>3. Rivals(office'[b], office'[c]) => ~office'[b].alone
      BY <1>4, <1>5, <2>3, <3>1 DEF Rivals
    <3>4. office'[b].op = "override" => \A o \in office'[b].had : o.id # office'[c].n
      <4> SUFFICES ASSUME office[b].op = "override", NEW o \in office[b].had PROVE o.id # saves + 1
        BY <1>4, <1>5, <2>3
      <4>1. o.id < office[b].n /\ o \in Override
        BY <3>1 DEF Good, ReadOfOverride
      <4>2. o.id \in Nat
        BY <4>1 DEF Override
      <4> QED BY <1>3, <3>1, <4>1, <4>2
    <3> QED BY <3>2, <3>3, <3>4 DEF Apart
  <2> QED BY <2>1, <2>2, <2>3
<1>11. \A b, c \in Admins :
        b # c /\ office'[b] # Nobody /\ office'[c] # Nobody => Apart(office[b], office[c])'
  BY <1>9 DEF Apart, Rivals
<1>12. Tables'
  <2>1. Tables
    BY DEF AccessInv
  <2>2. \A o \in overrides : o.id <= saves + 1
    BY <1>3, <2>1 DEF Tables, Override
  <2> QED BY <1>1, <1>3, <2>1, <2>2 DEF Tables, Override
<1>13. Requests'
  BY <1>6, <1>8, <1>11 DEF Requests
<1> QED BY <1>12, <1>13 DEF AccessInv

-----------------------------------------------------------------------------

\* The number of a new request is no row's.
LEMMA NewNumber ==
  ASSUME AccessInv, NEW s, s.n = saves + 1, s.alone = TRUE
  PROVE  /\ s.n \in Nat \ {0} /\ s.alone \in BOOLEAN
         /\ \A o \in overrides : o.id # s.n /\ o.id \in Nat /\ o.id < s.n
<1>1. saves \in Nat /\ \A o \in overrides : o.id \in Nat /\ o.id <= saves
  BY DEF AccessInv, Tables, Override
<1> PICK n \in Nat : n = saves + 1
  BY <1>1
<1>2. \A o \in overrides : o.id # n /\ o.id \in Nat /\ o.id < n
  BY <1>1
<1>3. s.alone \in BOOLEAN
  OBVIOUS
<1>4. n \in Nat \ {0}
  BY <1>1
<1>5. s.n = n
  OBVIOUS
<1> QED BY <1>2, <1>3, <1>4, <1>5, Zenon

\* Saving a role: the request reads the permissions it will replace.
LEMMA SaveRoleInv ==
  ASSUME AccessInv, NEW a \in Admins, NEW r, NEW keys, SaveRole(a, r, keys)
  PROVE  AccessInv'
<1> PICK op : op = IF r \in roles THEN "role" ELSE "newRole"
  OBVIOUS
<1> PICK s : s = Save(op, r, KeysOf(r), keys, IsSuper(a))
  OBVIOUS
<1>1. MayBegin(a) /\ Begin(a, s)
  BY DEF SaveRole
<1>2. op = "newRole" => KeysOf(r) = {}
  BY DEF AccessInv, Tables, KeysOf
<1>3. /\ IsSave(s) /\ s.n = saves + 1 /\ s.alone = TRUE
      /\ s.op = op /\ s.of = r /\ s.had = KeysOf(r)
  BY DEF Save, IsSave
<1>4. Good(s)
  <2>1. /\ s.n \in Nat \ {0} /\ s.alone \in BOOLEAN
        /\ \A o \in overrides : o.id # s.n
    BY <1>3, NewNumber
  <2> QED BY <1>2, <1>3, <2>1 DEF Good, ReadIsNow
<1> QED BY <1>1, <1>3, <1>4, BeginInv

\* Deleting a role: the request finds it neither built in nor held.
LEMMA DeleteRoleInv ==
  ASSUME AccessInv, NEW a \in Admins, NEW r, DeleteRole(a, r)
  PROVE  AccessInv'
<1> PICK s : s = Save("gone", r, {}, {}, IsSuper(a))
  OBVIOUS
<1>1. MayBegin(a) /\ Begin(a, s)
  BY DEF DeleteRole
<1>2. IsSave(s) /\ s.n = saves + 1 /\ s.alone = TRUE /\ s.op = "gone"
  BY DEF Save, IsSave
<1>3. Good(s)
  <2>1. /\ s.n \in Nat \ {0} /\ s.alone \in BOOLEAN
        /\ \A o \in overrides : o.id # s.n
    BY <1>2, NewNumber
  <2> QED BY <1>2, <2>1 DEF Good, ReadIsNow
<1> QED BY <1>1, <1>2, <1>3, BeginInv

\* Saving a user: the roles it will give are merged from what it read.
LEMMA SaveUserInv ==
  ASSUME AccessInv, NEW a \in Admins, NEW u, NEW names, SaveUser(a, u, names)
  PROVE  AccessInv'
<1> PICK s : s = Save("user", u, RolesOf(u), names \cap roles, IsSuper(a))
  OBVIOUS
<1>1. MayBegin(a) /\ Begin(a, s) /\ (SuperAdmin \in names => IsSuper(a))
  BY DEF SaveUser, MayAssign
<1>2. /\ IsSave(s) /\ s.n = saves + 1 /\ s.alone = TRUE
      /\ s.op = "user" /\ s.of = u /\ s.had = RolesOf(u) /\ s.sent = names \cap roles
      /\ s.crown = IsSuper(a)
  BY DEF Save, IsSave
<1>3. s.sent \subseteq roles /\ (SuperAdmin \in s.sent => s.crown)
  BY <1>1, <1>2
<1>4. Good(s)
  <2>1. /\ s.n \in Nat \ {0} /\ s.alone \in BOOLEAN
        /\ \A o \in overrides : o.id # s.n
    BY <1>2, NewNumber
  <2> QED BY <1>2, <1>3, <2>1 DEF Good, ReadIsNow
<1> QED BY <1>1, <1>2, <1>4, BeginInv

\* Saving an override: the row for one user and one permission.
LEMMA SaveOverrideInv ==
  ASSUME AccessInv, NEW a \in Admins, NEW u \in Staff, NEW k \in Keys, NEW granted \in BOOLEAN,
         SaveOverride(a, u, k, granted)
  PROVE  AccessInv'
<1> PICK s : s = Save("override", <<u, k>>, RowsOf(u, k), granted, IsSuper(a))
  OBVIOUS
<1>1. MayBegin(a) /\ Begin(a, s)
  BY DEF SaveOverride
<1>2. /\ IsSave(s) /\ s.n = saves + 1 /\ s.alone = TRUE
      /\ s.op = "override" /\ s.of = <<u, k>> /\ s.had = RowsOf(u, k) /\ s.sent = granted
  BY DEF Save, IsSave
<1>3. s.of[1] = u /\ s.of[2] = k
  BY <1>2
<1>4. s.had \subseteq overrides /\ \A o \in s.had : IsOf(o, s.of)
  BY <1>2, <1>3 DEF RowsOf, IsOf
<1>5. \A o \in s.had : /\ o.id < s.n
                       /\ \A p \in overrides : p.id = o.id => IsOf(p, s.of)
  BY <1>2, <1>4, NewNumber DEF AccessInv, Tables
<1>6. ReadOfOverride(s)
  BY <1>2, <1>3, <1>4, <1>5 DEF ReadOfOverride, AccessInv, Tables
<1>7. ReadIsNow(s)
  BY <1>2, <1>3 DEF ReadIsNow
<1>8. Good(s)
  <2>1. /\ s.n \in Nat \ {0} /\ s.alone \in BOOLEAN
        /\ \A o \in overrides : o.id # s.n
    BY <1>2, NewNumber
  <2> QED BY <1>2, <1>6, <1>7, <2>1 DEF Good
<1> QED BY <1>1, <1>2, <1>4, <1>8, BeginInv

\* Assigning plots: the request reads who is assigned before it writes.
LEMMA AssignInv ==
  ASSUME AccessInv, NEW a \in Admins, NEW p, NEW users, Assign(a, p, users)
  PROVE  AccessInv'
<1> PICK s : s = Save("plot", p, AssignedTo(p), users, IsSuper(a))
  OBVIOUS
<1>1. MayBegin(a) /\ Begin(a, s)
  BY DEF Assign
<1>2. /\ IsSave(s) /\ s.n = saves + 1 /\ s.alone = TRUE
      /\ s.op = "plot" /\ s.of = p /\ s.had = AssignedTo(p)
  BY DEF Save, IsSave
<1>3. Good(s)
  <2>1. /\ s.n \in Nat \ {0} /\ s.alone \in BOOLEAN
        /\ \A o \in overrides : o.id # s.n
    BY <1>2, NewNumber
  <2> QED BY <1>2, <2>1 DEF Good, ReadIsNow
<1> QED BY <1>1, <1>2, <1>3, BeginInv

-----------------------------------------------------------------------------
(* A request ends: what the others have read is true still *)

\* A request that ends leaves the others as good as they were.
LEMMA Remains ==
  ASSUME AccessInv, NEW a \in Admins, office' = [office EXCEPT ![a] = Nobody], saves' = saves,
         \A b \in Admins : \A s : b # a /\ s = office[b] /\ s # Nobody => Good(s)'
  PROVE  Requests'
<1>1. office' = [b \in Admins |-> IF b = a THEN Nobody ELSE office[b]]
  BY DEF AccessInv, Requests
<1>2. ASSUME NEW b \in Admins, office'[b] # Nobody
      PROVE  Good(office[b])' /\ office'[b].n <= saves'
  <2>1. b # a /\ office'[b] = office[b] /\ office[b].n <= saves
    BY <1>1, <1>2 DEF AccessInv, Requests
  <2> PICK s : s = office[b]
    OBVIOUS
  <2>2. Good(s)' /\ office'[b] = s
    BY <1>2, <2>1
  <2>3. Good(office[b])'
    BY <2>2 DEF Good, ReadOfOverride, ReadIsNow, IsSave, KeysOf, RolesOf, RowsOf, AssignedTo, IsOf
  <2> QED BY <2>1, <2>3
<1>3. ASSUME NEW b \in Admins, NEW c \in Admins, b # c, office'[b] # Nobody, office'[c] # Nobody
      PROVE  Apart(office[b], office[c])'
  <2>1. office'[b] = office[b] /\ office'[c] = office[c]
    BY <1>1, <1>3
  <2> QED BY <1>3, <2>1 DEF AccessInv, Requests, Apart, Rivals
<1>4. office' = [b \in Admins |-> office'[b]]
  BY <1>1
<1> QED BY <1>2, <1>3, <1>4 DEF Requests

\* A request that is refused or abandoned writes nothing.
LEMMA GiveUpInv ==
  ASSUME AccessInv, NEW a \in Admins, GiveUp(a)
  PROVE  AccessInv'
<1>1. /\ office' = [office EXCEPT ![a] = Nobody] /\ saves' = saves
      /\ UNCHANGED <<roles, grants, holders, overrides, assigned>>
  BY DEF GiveUp, Close
<1>2. ASSUME NEW b \in Admins, NEW s, b # a, s = office[b], s # Nobody PROVE Good(s)'
  <2>1. Good(s)
    BY <1>2 DEF AccessInv, Requests
  <2> QED BY <1>1, <2>1
          DEF Good, ReadOfOverride, ReadIsNow, IsSave, KeysOf, RolesOf, RowsOf, AssignedTo
<1>3. Requests'
  BY <1>1, <1>2, Remains
<1> QED BY <1>1, <1>3 DEF AccessInv, Tables, Override

\* What is known of the request that commits, and of another.
LEMMA Both ==
  ASSUME AccessInv, NEW a \in Admins, office[a] # Nobody,
         NEW b \in Admins, NEW s, b # a, s = office[b], s # Nobody
  PROVE  Good(office[a]) /\ Good(s) /\ Apart(s, office[a]) /\ Apart(office[a], s)
  BY DEF AccessInv, Requests

\* A role lands with its new permissions, for all its holders at once.
LEMMA CommitRoleInv ==
  ASSUME AccessInv, NEW a \in Admins, CommitRole(a)
  PROVE  AccessInv'
<1> PICK save, r : save = office[a] /\ r = save.of
  OBVIOUS
<1>1. /\ save # Nobody /\ save.op \in {"role", "newRole"} /\ (r \in roles) = (save.op = "role")
      /\ roles' = roles \cup {r}
      /\ grants' = {g \in grants : g[1] # r} \cup ({r} \X Merge(KeysOf(r), save))
      /\ office' = [office EXCEPT ![a] = Nobody]
      /\ UNCHANGED <<saves, holders, overrides, assigned>>
  BY DEF CommitRole, Close
<1>2. \A g \in grants' : g[1] \in roles'
  BY <1>1, RewriteOf DEF AccessInv, Tables
<1>3. \A q : q # r => KeysOf(q)' = KeysOf(q)
  <2>1. RewrittenOf(grants, r, Merge(KeysOf(r), save), grants')
    BY <1>1 DEF RewrittenOf
  <2>3. \A q : q # r => Of(grants', q) = Of(grants, q)
    BY <2>1, RewriteOf
  <2>2. \A q : KeysOf(q)' = Of(grants', q) /\ KeysOf(q) = Of(grants, q)
    BY DEF KeysOf, Of
  <2> QED BY <2>2, <2>3
<1>4. ASSUME NEW b \in Admins, NEW s, b # a, s = office[b], s # Nobody PROVE Good(s)'
  <2>1. Good(save) /\ Good(s) /\ Apart(s, save)
    BY <1>1, <1>4, Both
  <2>2. s.op = "role" => s.of \in roles
    BY <2>1 DEF Good
  <2>3. s.op = "role" /\ s.alone => s.of # r
    BY <1>1, <2>1, <2>2 DEF Apart, Rivals
  <2>4. s.alone => ReadIsNow(s)'
    <3> SUFFICES ASSUME s.alone PROVE ReadIsNow(s)'
      OBVIOUS
    <3>1. ReadIsNow(s)
      BY <2>1 DEF Good
    <3>2. s.op = "role" => KeysOf(s.of)' = s.had
      BY <1>3, <2>3, <3>1 DEF ReadIsNow
    <3> QED BY <1>1, <3>1, <3>2 DEF ReadIsNow, RolesOf, RowsOf, AssignedTo
  <2>5. ReadOfOverride(s) => ReadOfOverride(s)'
    BY <1>1 DEF ReadOfOverride, IsOf, Override
  <2> QED BY <1>1, <2>1, <2>4, <2>5 DEF Good, IsSave
<1>5. Requests'
  BY <1>1, <1>4, Remains
<1>6. Tables'
  BY <1>1, <1>2 DEF AccessInv, Tables, Override
<1> QED BY <1>5, <1>6 DEF AccessInv

\* A user lands with the roles the request asked for.
LEMMA CommitUserInv ==
  ASSUME AccessInv, NEW a \in Admins, CommitUser(a)
  PROVE  AccessInv'
<1> PICK save, u : save = office[a] /\ u = save.of
  OBVIOUS
<1>1. /\ save # Nobody /\ save.op = "user"
      /\ holders' = {h \in holders : h[1] # u} \cup ({u} \X Merge(RolesOf(u), save))
      /\ office' = [office EXCEPT ![a] = Nobody]
      /\ UNCHANGED <<saves, roles, grants, overrides, assigned>>
  BY DEF CommitUser, Close
<1>0. Good(save)
  BY <1>1 DEF AccessInv, Requests
<1>2. Merge(RolesOf(u), save) \subseteq roles
  <2>1. RolesOf(u) \subseteq roles
    BY DEF AccessInv, Tables, RolesOf
  <2>2. save.sent \subseteq roles
    BY <1>0, <1>1 DEF Good
  <2> QED BY <2>1, <2>2 DEF Merge
<1>3. \A h \in holders' : h[2] \in roles
  BY <1>1, <1>2, RewriteOf DEF AccessInv, Tables
<1>4. \A q : q # u => RolesOf(q)' = RolesOf(q)
  <2>1. RewrittenOf(holders, u, Merge(RolesOf(u), save), holders')
    BY <1>1 DEF RewrittenOf
  <2>3. \A q : q # u => Of(holders', q) = Of(holders, q)
    BY <2>1, RewriteOf
  <2>2. \A q : RolesOf(q)' = Of(holders', q) /\ RolesOf(q) = Of(holders, q)
    BY DEF RolesOf, Of
  <2> QED BY <2>2, <2>3
<1>5. ASSUME NEW b \in Admins, NEW s, b # a, s = office[b], s # Nobody PROVE Good(s)'
  <2>1. Good(s) /\ Apart(s, save)
    BY <1>1, <1>5, Both
  <2>2. s.op = "user" /\ s.alone => s.of # u
    BY <1>1, <2>1 DEF Apart, Rivals
  <2>3. s.alone => ReadIsNow(s)'
    <3> SUFFICES ASSUME s.alone PROVE ReadIsNow(s)'
      OBVIOUS
    <3>1. ReadIsNow(s)
      BY <2>1 DEF Good
    <3>2. s.op = "user" => RolesOf(s.of)' = s.had
      BY <1>4, <2>2, <3>1 DEF ReadIsNow
    <3> QED BY <1>1, <3>1, <3>2 DEF ReadIsNow, KeysOf, RowsOf, AssignedTo
  <2>4. ReadOfOverride(s) => ReadOfOverride(s)'
    BY <1>1 DEF ReadOfOverride, IsOf, Override
  <2> QED BY <1>1, <2>1, <2>3, <2>4 DEF Good, IsSave
<1>6. Requests'
  BY <1>1, <1>5, Remains
<1>7. Tables'
  BY <1>1, <1>3 DEF AccessInv, Tables, Override
<1> QED BY <1>6, <1>7 DEF AccessInv

\* An assignment lands as rows of one plot.
LEMMA CommitAssignInv ==
  ASSUME AccessInv, NEW a \in Admins, CommitAssign(a)
  PROVE  AccessInv'
<1> PICK save, p : save = office[a] /\ p = save.of
  OBVIOUS
<1>1. /\ save # Nobody /\ save.op = "plot"
      /\ assigned' = {x \in assigned : x[2] # p} \cup (Merge(AssignedTo(p), save) \X {p})
      /\ office' = [office EXCEPT ![a] = Nobody]
      /\ UNCHANGED <<saves, roles, grants, holders, overrides>>
  BY DEF CommitAssign, Close
<1>2. \A q : q # p => AssignedTo(q)' = AssignedTo(q)
  <2>1. \A q : q # p => To(assigned', q) = To(assigned, q)
    <3>1. RewrittenTo(assigned, p, Merge(AssignedTo(p), save), assigned')
      BY <1>1 DEF RewrittenTo
    <3> QED BY <3>1, RewriteTo
  <2>2. \A q : AssignedTo(q)' = To(assigned', q) /\ AssignedTo(q) = To(assigned, q)
    BY DEF AssignedTo, To
  <2> QED BY <2>1, <2>2
<1>3. ASSUME NEW b \in Admins, NEW s, b # a, s = office[b], s # Nobody PROVE Good(s)'
  <2>1. Good(s) /\ Apart(s, save)
    BY <1>1, <1>3, Both
  <2>2. s.op = "plot" /\ s.alone => s.of # p
    BY <1>1, <2>1 DEF Apart, Rivals
  <2>3. s.alone => ReadIsNow(s)'
    <3> SUFFICES ASSUME s.alone PROVE ReadIsNow(s)'
      OBVIOUS
    <3>1. ReadIsNow(s)
      BY <2>1 DEF Good
    <3>2. s.op = "plot" => AssignedTo(s.of)' = s.had
      BY <1>2, <2>2, <3>1 DEF ReadIsNow
    <3> QED BY <1>1, <3>1, <3>2 DEF ReadIsNow, KeysOf, RowsOf, RolesOf
  <2>4. ReadOfOverride(s) => ReadOfOverride(s)'
    BY <1>1 DEF ReadOfOverride, IsOf, Override
  <2> QED BY <1>1, <2>1, <2>3, <2>4 DEF Good, IsSave
<1>4. Requests'
  BY <1>1, <1>3, Remains
<1>5. Tables'
  BY <1>1 DEF AccessInv, Tables, Override
<1> QED BY <1>4, <1>5 DEF AccessInv

-----------------------------------------------------------------------------
(* A role goes *)

\* What a pending request makes of it.
LEMMA Outlives ==
  ASSUME NEW s, Good(s), s # Nobody, NEW r, NEW t, t = Outlive(s, r)
  PROVE  /\ IsSave(t) /\ t.n = s.n /\ t.alone = s.alone /\ t.of = s.of
         /\ \/ t.op = "stranded"
            \/ /\ t.op = s.op
               /\ s.op \notin {"user"} => t.had = s.had /\ t.sent = s.sent
               /\ s.op = "role" => s.of # r
               /\ s.op = "user" => /\ t.had = s.had \ {r} /\ t.sent = s.sent \ {r}
                                   /\ t.crown = s.crown
<1> PICK op, of, had, sent, crown, n, alone :
       s = [op |-> op, of |-> of, had |-> had, sent |-> sent, crown |-> crown, n |-> n, alone |-> alone]
  BY DEF Good, IsSave
<1>1. /\ s.op = op /\ s.of = of /\ s.had = had /\ s.sent = sent /\ s.crown = crown /\ s.n = n
      /\ s.alone = alone
  OBVIOUS
<1>2. CASE \/ op \in {"role", "gone"} /\ of = r
           \/ op = "user" /\ r \in sent \ had
  <2>1. t = [op |-> "stranded", of |-> of, had |-> had, sent |-> sent, crown |-> crown, n |-> n,
             alone |-> alone]
    BY <1>1, <1>2 DEF Outlive
  <2>2. /\ t.op = "stranded" /\ t.of = of /\ t.had = had /\ t.sent = sent /\ t.crown = crown
        /\ t.n = n /\ t.alone = alone
    BY <2>1
  <2>3. IsSave(t)
    BY <2>1, <2>2 DEF IsSave
  <2> QED BY <1>1, <2>2, <2>3
<1>3. CASE op = "user" /\ r \notin sent \ had
  <2>1. t = [op |-> op, of |-> of, had |-> had \ {r}, sent |-> sent \ {r}, crown |-> crown,
             n |-> n, alone |-> alone]
    BY <1>1, <1>3 DEF Outlive
  <2>2. /\ t.op = op /\ t.of = of /\ t.had = had \ {r} /\ t.sent = sent \ {r} /\ t.crown = crown
        /\ t.n = n /\ t.alone = alone
    BY <2>1
  <2>3. IsSave(t)
    BY <2>1, <2>2 DEF IsSave
  <2> QED BY <1>1, <1>3, <2>2, <2>3
<1>4. CASE op # "user" /\ ~(op \in {"role", "gone"} /\ of = r)
  <2>1. t = s
    BY <1>1, <1>4 DEF Outlive
  <2> QED BY <1>1, <1>4, <2>1 DEF Good
<1> QED BY <1>2, <1>3, <1>4

\* A deleted role takes its grants and its holders with it.
LEMMA CommitDeleteInv ==
  ASSUME AccessInv, NEW a \in Admins, CommitDelete(a)
  PROVE  AccessInv'
<1> PICK r : r = office[a].of
  OBVIOUS
<1>1. /\ roles' = roles \ {r}
      /\ grants' = {g \in grants : g[1] # r} /\ holders' = {h \in holders : h[2] # r}
      /\ office' = [b \in Admins |-> IF b = a THEN Nobody ELSE Outlive(office[b], r)]
      /\ UNCHANGED <<overrides, assigned, saves>>
  BY DEF CommitDelete
<1>2. Tables'
  BY <1>1 DEF AccessInv, Tables, Override
<1>3. \A q : q # r => KeysOf(q)' = KeysOf(q)
  BY <1>1 DEF KeysOf
<1>4. \A u : RolesOf(u)' = RolesOf(u) \ {r}
  BY <1>1 DEF RolesOf
<1>5. ASSUME NEW b \in Admins, office'[b] # Nobody
      PROVE  /\ b # a /\ office[b] # Nobody /\ Good(office[b]) /\ office[b].n <= saves
             /\ office'[b] = Outlive(office[b], r)
  <2>1. b # a /\ office'[b] = Outlive(office[b], r)
    BY <1>1, <1>5
  <2>2. office[b] # Nobody
    BY <1>5, <2>1 DEF Outlive
  <2> QED BY <2>1, <2>2 DEF AccessInv, Requests
<1>6. ASSUME NEW s, Good(s), s # Nobody, NEW t, t = Outlive(s, r) PROVE Good(t)'
  <2>1. CASE t.op = "stranded"
    <3>1. IsSave(t) /\ t.n = s.n /\ t.alone = s.alone
      BY <1>6, Outlives
    <3> QED BY <1>1, <1>6, <2>1, <3>1 DEF Good, IsSave, ReadIsNow
  <2>2. CASE t.op # "stranded"
    <3>1. /\ IsSave(t) /\ t.n = s.n /\ t.alone = s.alone /\ t.of = s.of /\ t.op = s.op
          /\ s.op \notin {"user"} => t.had = s.had /\ t.sent = s.sent
          /\ s.op = "role" => s.of # r
          /\ s.op = "user" => /\ t.had = s.had \ {r} /\ t.sent = s.sent \ {r}
                              /\ t.crown = s.crown
      BY <1>6, <2>2, Outlives
    <3>2. t.op = "role" => t.of \in roles'
      BY <1>1, <1>6, <3>1 DEF Good
    <3>3. t.op = "newRole" => t.had = {}
      BY <1>6, <3>1 DEF Good
    <3>4. t.op = "user" => t.sent \subseteq roles' /\ (SuperAdmin \in t.sent => t.crown)
      BY <1>1, <1>6, <3>1 DEF Good
    <3>5. t.op = "override" => ReadOfOverride(t)'
      <4> SUFFICES ASSUME t.op = "override" PROVE ReadOfOverride(t)'
        OBVIOUS
      <4>1. ReadOfOverride(s) /\ t.had = s.had /\ t.sent = s.sent
        BY <1>6, <3>1 DEF Good
      <4> QED BY <1>1, <3>1, <4>1 DEF ReadOfOverride, IsOf, Override
    <3>6. t.alone => ReadIsNow(t)'
      <4> SUFFICES ASSUME t.alone PROVE ReadIsNow(t)'
        OBVIOUS
      <4>1. ReadIsNow(s)
        BY <1>6, <3>1 DEF Good
      <4>2. t.op = "role" => KeysOf(t.of)' = t.had
        BY <1>3, <3>1, <4>1 DEF ReadIsNow
      <4>3. t.op = "user" => RolesOf(t.of)' = t.had
        BY <1>4, <3>1, <4>1 DEF ReadIsNow
      <4>4. t.op = "override" => RowsOf(t.of[1], t.of[2])' = t.had
        BY <1>1, <3>1, <4>1 DEF ReadIsNow, RowsOf
      <4>5. t.op = "plot" => AssignedTo(t.of)' = t.had
        BY <1>1, <3>1, <4>1 DEF ReadIsNow, AssignedTo
      <4> QED BY <4>2, <4>3, <4>4, <4>5 DEF ReadIsNow
    <3>7. t.op # "none" /\ t.n \in Nat \ {0} /\ t.alone \in BOOLEAN /\ \A o \in overrides' : o.id # t.n
      BY <1>1, <1>6, <3>1 DEF Good
    <3> QED BY <3>1, <3>2, <3>3, <3>4, <3>5, <3>6, <3>7 DEF Good, IsSave
  <2> QED BY <2>1, <2>2
<1>7. ASSUME NEW b \in Admins, office'[b] # Nobody PROVE Good(office[b])' /\ office'[b].n <= saves'
  <2> PICK t : t = office'[b]
    OBVIOUS
  <2>1. Good(t)' /\ t.n = office[b].n /\ office[b].n <= saves
    <3> PICK s : s = office[b]
      OBVIOUS
    <3>1. Good(s) /\ s # Nobody /\ t = Outlive(s, r) /\ s.n <= saves
      BY <1>5, <1>7
    <3> QED BY <1>6, <3>1, Outlives
  <2>2. Good(office[b])'
    BY <2>1 DEF Good, ReadOfOverride, ReadIsNow, IsSave, KeysOf, RolesOf, RowsOf, AssignedTo, IsOf
  <2> QED BY <1>1, <2>1, <2>2
<1>8. ASSUME NEW b \in Admins, NEW c \in Admins, b # c, office'[b] # Nobody, office'[c] # Nobody
      PROVE  Apart(office[b], office[c])'
  <2> PICK s, t, s1, t1 : s = office[b] /\ t = office[c] /\ s1 = office'[b] /\ t1 = office'[c]
    OBVIOUS
  <2>1. /\ Good(s) /\ Good(t) /\ s # Nobody /\ t # Nobody
        /\ s1 = Outlive(s, r) /\ t1 = Outlive(t, r) /\ Apart(s, t)
    BY <1>5, <1>8 DEF AccessInv, Requests
  <2>2. /\ s1.n = s.n /\ s1.alone = s.alone /\ s1.of = s.of
        /\ \/ s1.op = "stranded"
           \/ s1.op = s.op /\ (s.op \notin {"user"} => s1.had = s.had)
    BY <2>1, Outlives
  <2>3. t1.n = t.n /\ t1.of = t.of /\ (t1.op = "stranded" \/ t1.op = t.op)
    BY <2>1, Outlives
  <2>4. Apart(s1, t1)
    BY <2>1, <2>2, <2>3 DEF Apart, Rivals
  <2> QED BY <2>4 DEF Apart, Rivals
<1>9. Requests'
  <2>1. office' = [b \in Admins |-> office'[b]]
    BY <1>1
  <2> QED BY <1>7, <1>8, <2>1 DEF Requests
<1> QED BY <1>2, <1>9 DEF AccessInv

-----------------------------------------------------------------------------
(* An override is saved *)

LessThan == {ss \in Nat \X Nat : ss[1] < ss[2]}

\* The order of the natural numbers is well founded, in the form the library asks for.
LEMMA LessThanWF == IsWellFoundedOn(LessThan, Nat)
<1>1. OpToRel(<, Nat) = LessThan
  BY Zenon DEF OpToRel, LessThan
<1> QED BY Zenon, <1>1, NatLessThanWellFounded

\* Of some rows there is a first.
LEMMA FirstIs ==
  ASSUME NEW rows \in SUBSET Override, rows # {}
  PROVE  \E o \in rows : \A p \in rows : o.id <= p.id
<1> DEFINE ids == {o.id : o \in rows}
<1>1. ids \subseteq Nat /\ ids # {}
  BY DEF Override
<1>2. PICK i \in ids : \A j \in ids : ~(<<j, i>> \in LessThan)
  <2> HIDE DEF ids
  <2> QED BY <1>1, WFMin, LessThanWF
<1>3. \A j \in ids : i <= j
  <2> HIDE DEF ids
  <2> SUFFICES ASSUME NEW j \in ids, ~(i <= j) PROVE FALSE
    OBVIOUS
  <2>1. i \in Nat /\ j \in Nat /\ j < i
    BY <1>1
  <2>2. <<j, i>> \in LessThan
    BY <2>1 DEF LessThan
  <2> QED BY <1>2, <2>2
<1> QED BY <1>3

\* The row a save leaves, and what it takes away.
LEMMA SettledRows ==
  ASSUME AccessInv, NEW s, Good(s), s.op = "override"
  PROVE  \E row \in Override :
            /\ IsOf(row, s.of) /\ row.granted = s.sent
            /\ \/ s.had = {} /\ row.id = s.n
               \/ \E o \in s.had : row.id = o.id
            /\ Settled(s) = {o \in overrides : \A p \in s.had : p.id # o.id} \cup {row}
<1>1. ReadOfOverride(s)
  BY DEF Good
<1>2. CASE s.had = {}
  <2> DEFINE row == [id |-> s.n, who |-> s.of[1], key |-> s.of[2], granted |-> s.sent]
  <2>1. row \in Override
    BY <1>1 DEF Override, ReadOfOverride, Good
  <2>2. Settled(s) = overrides \cup {row}
    BY <1>2 DEF Settled
  <2> QED BY <1>2, <2>1, <2>2 DEF IsOf
<1>3. CASE s.had # {}
  <2> PICK first : first = CHOOSE o \in s.had : \A p \in s.had : o.id <= p.id
    OBVIOUS
  <2>1. first \in s.had /\ first \in Override /\ IsOf(first, s.of)
    BY <1>1, <1>3, FirstIs DEF ReadOfOverride
  <2> PICK row : row = [first EXCEPT !.granted = s.sent]
    OBVIOUS
  <2>2. /\ row \in Override /\ row.id = first.id /\ row.who = first.who /\ row.key = first.key
        /\ row.granted = s.sent
    BY <1>1, <2>1 DEF Override, ReadOfOverride
  <2>3. Settled(s) = (overrides \ {o \in overrides : \E p \in s.had : p.id = o.id}) \cup {row}
    BY <1>3 DEF Settled
  <2>4. overrides \ {o \in overrides : \E p \in s.had : p.id = o.id}
           = {o \in overrides : \A p \in s.had : p.id # o.id}
    OBVIOUS
  <2>5. IsOf(row, s.of)
    BY <2>1, <2>2 DEF IsOf
  <2>6. Settled(s) = {o \in overrides : \A p \in s.had : p.id # o.id} \cup {row}
    BY <2>3, <2>4
  <2> QED BY <2>1, <2>2, <2>5, <2>6
<1> QED BY <1>2, <1>3

\* An override lands, replaced or removed, for one user and one permission.
LEMMA CommitOverrideInv ==
  ASSUME AccessInv, NEW a \in Admins, CommitOverride(a)
  PROVE  AccessInv'
<1> PICK save : save = office[a]
  OBVIOUS
<1>1. /\ save # Nobody /\ save.op = "override"
      /\ \A o \in save.had : \E p \in overrides : p.id = o.id
      /\ overrides' = Settled(save)
      /\ office' = [office EXCEPT ![a] = Nobody]
      /\ UNCHANGED <<saves, roles, grants, holders, assigned>>
  BY DEF CommitOverride, Close
<1>2. Good(save) /\ save.n <= saves /\ saves \in Nat /\ ReadOfOverride(save)
  BY <1>1 DEF AccessInv, Requests, Tables, Good
<1>3. PICK row \in Override :
            /\ IsOf(row, save.of)
            /\ \/ save.had = {} /\ row.id = save.n
               \/ \E o \in save.had : row.id = o.id
            /\ overrides' = {o \in overrides : \A p \in save.had : p.id # o.id} \cup {row}
  BY <1>1, <1>2, SettledRows
<1>4. row.id \in Nat /\ row.id <= saves
  <2>1. \A o \in save.had : o.id < save.n /\ o.id \in Nat
    BY <1>2 DEF ReadOfOverride, Override
  <2> QED BY <1>2, <1>3, <2>1 DEF Good, Override
<1>5. \A o \in overrides' : o = row \/ (o \in overrides /\ o.id # row.id)
  BY <1>1, <1>2, <1>3 DEF Good
<1>6. Tables'
  BY <1>1, <1>3, <1>4, <1>5 DEF AccessInv, Tables, Override
<1>7. ASSUME NEW b \in Admins, NEW s, b # a, s = office[b], s # Nobody PROVE Good(s)'
  <2>1. Good(s) /\ Apart(s, save) /\ Apart(save, s)
    BY <1>1, <1>7, Both
  <2>2. row.id # s.n
    BY <1>1, <1>3, <2>1 DEF Apart
  <2>3. \A o \in overrides' : o.id # s.n
    BY <1>5, <2>1, <2>2 DEF Good
  <2>4. ReadOfOverride(s) /\ s.op = "override" => ReadOfOverride(s)'
    <3> SUFFICES ASSUME ReadOfOverride(s), s.op = "override",
                        NEW o \in s.had, NEW p \in overrides', p.id = o.id
                 PROVE  IsOf(p, s.of)
      BY DEF ReadOfOverride, IsOf, Override
    <3>1. CASE p \in overrides
      BY <3>1 DEF ReadOfOverride
    <3>2. CASE p = row
      <4>1. o.id # save.n
        BY <2>1 DEF Apart
      <4>2. PICK x \in save.had : row.id = x.id
        BY <1>3, <3>2, <4>1
      <4>3. PICK q \in overrides : q.id = x.id
        BY <1>1
      <4>4. IsOf(q, save.of) /\ IsOf(q, s.of)
        BY <1>2, <3>2, <4>2, <4>3 DEF ReadOfOverride
      <4> QED BY <1>3, <3>2, <4>4 DEF IsOf
    <3> QED BY <1>5, <3>1, <3>2
  <2>5. s.alone => ReadIsNow(s)'
    <3> SUFFICES ASSUME s.alone PROVE ReadIsNow(s)'
      OBVIOUS
    <3>1. ReadIsNow(s)
      BY <2>1 DEF Good
    <3>2. s.op = "override" => RowsOf(s.of[1], s.of[2])' = s.had
      <4> SUFFICES ASSUME s.op = "override" PROVE RowsOf(s.of[1], s.of[2])' = s.had
        OBVIOUS
      <4>1. s.of # save.of
        BY <1>1, <2>1 DEF Apart, Rivals
      <4>2. s.of = <<s.of[1], s.of[2]>> /\ save.of = <<save.of[1], save.of[2]>>
        BY <1>2, <2>1 DEF Good, ReadOfOverride
      <4>3. ~\E o : IsOf(o, s.of) /\ IsOf(o, save.of)
        BY <4>1, <4>2 DEF IsOf
      <4>4. \A o \in overrides : IsOf(o, s.of) => \A p \in save.had : p.id # o.id
        BY <1>2, <4>3 DEF ReadOfOverride
      <4>5. \A o : o \in overrides' /\ IsOf(o, s.of) <=> o \in overrides /\ IsOf(o, s.of)
        BY <1>3, <4>3, <4>4
      <4>6. \A o : o \in RowsOf(s.of[1], s.of[2])' <=> o \in RowsOf(s.of[1], s.of[2])
        BY <4>5 DEF RowsOf, IsOf
      <4> QED BY <3>1, <4>6 DEF ReadIsNow
    <3> QED BY <1>1, <3>1, <3>2 DEF ReadIsNow, KeysOf, RolesOf, AssignedTo
  <2> QED BY <1>1, <2>1, <2>3, <2>4, <2>5 DEF Good, IsSave
<1>8. Requests'
  BY <1>1, <1>7, Remains
<1> QED BY <1>6, <1>8 DEF AccessInv

\* Every step keeps the invariant.
LEMMA AccessNextInv == AccessInv /\ [AccessNext]_accessVars => AccessInv'
<1> SUFFICES ASSUME AccessInv, [AccessNext]_accessVars PROVE AccessInv'
  OBVIOUS
<1>1. CASE UNCHANGED accessVars
  BY <1>1 DEF accessVars, AccessInv, Tables, Requests, Good, ReadOfOverride, ReadIsNow, IsSave,
              KeysOf, RolesOf, RowsOf, AssignedTo, IsOf, Override, Apart, Rivals
<1> QED
  BY <1>1, SaveRoleInv, DeleteRoleInv, SaveUserInv, SaveOverrideInv, AssignInv, CommitRoleInv,
     CommitDeleteInv, CommitUserInv, CommitOverrideInv, CommitAssignInv, GiveUpInv
  DEF AccessNext

-----------------------------------------------------------------------------
(* The properties *)

\* What a lone save leaves when it is committed.
LEMMA RoleStands ==
  ASSUME AccessInv, NEW a \in Admins, CommitRole(a), office[a].alone, NEW save, save = office[a]
  PROVE  Stands(save)'
<1> PICK r : r = save.of
  OBVIOUS
<1>1. /\ save # Nobody /\ save.op \in {"role", "newRole"} /\ (r \in roles) = (save.op = "role")
      /\ grants' = {g \in grants : g[1] # r} \cup ({r} \X Merge(KeysOf(r), save))
  BY DEF CommitRole
<1>2. Good(save)
  BY <1>1 DEF AccessInv, Requests
<1>3. KeysOf(r) = save.had
  <2>1. CASE save.op = "role"
    BY <1>2, <2>1 DEF Good, ReadIsNow
  <2>2. CASE save.op = "newRole"
    <3>1. r \notin roles /\ save.had = {}
      BY <1>1, <1>2, <2>2 DEF Good
    <3> QED BY <3>1 DEF AccessInv, Tables, KeysOf
  <2> QED BY <1>1, <2>1, <2>2
<1>4. RewrittenOf(grants, r, save.sent, grants')
  <2>1. Merge(KeysOf(r), save) = save.sent
    BY <1>3, MergeIsSent
  <2> QED BY <1>1, <2>1 DEF RewrittenOf
<1>5. Of(grants', r) = save.sent
  BY <1>4, RewriteOf
<1>6. KeysOf(save.of)' = save.sent
  BY <1>5 DEF KeysOf, Of
<1> QED BY <1>1, <1>6 DEF Stands

\* The roles of a user are what a save that met no other asked for.
LEMMA UserStands ==
  ASSUME AccessInv, NEW a \in Admins, CommitUser(a), office[a].alone, NEW save, save = office[a]
  PROVE  Stands(save)'
<1> PICK u : u = save.of
  OBVIOUS
<1>1. /\ save # Nobody /\ save.op = "user" /\ roles' = roles
      /\ holders' = {h \in holders : h[1] # u} \cup ({u} \X Merge(RolesOf(u), save))
  BY DEF CommitUser
<1>2. Good(save)
  BY <1>1 DEF AccessInv, Requests
<1>3. RolesOf(u) = save.had /\ save.sent \subseteq roles
  BY <1>1, <1>2 DEF Good, ReadIsNow
<1>4. RewrittenOf(holders, u, save.sent, holders')
  <2>1. Merge(RolesOf(u), save) = save.sent
    BY <1>3, MergeIsSent
  <2> QED BY <1>1, <2>1 DEF RewrittenOf
<1>5. Of(holders', u) = save.sent
  BY <1>4, RewriteOf
<1>6. RolesOf(save.of)' = save.sent
  BY <1>5 DEF RolesOf, Of
<1>7. save.sent \cap roles' = save.sent
  BY <1>1, <1>3
<1> QED BY <1>1, <1>6, <1>7 DEF Stands

\* The staff of a plot are what an assignment that met no other asked for.
LEMMA AssignStands ==
  ASSUME AccessInv, NEW a \in Admins, CommitAssign(a), office[a].alone, NEW save, save = office[a]
  PROVE  Stands(save)'
<1> PICK p : p = save.of
  OBVIOUS
<1>1. /\ save # Nobody /\ save.op = "plot"
      /\ assigned' = {x \in assigned : x[2] # p} \cup (Merge(AssignedTo(p), save) \X {p})
  BY DEF CommitAssign
<1>2. AssignedTo(p) = save.had
  BY <1>1 DEF AccessInv, Requests, Good, ReadIsNow
<1>3. RewrittenTo(assigned, p, save.sent, assigned')
  <2>1. Merge(AssignedTo(p), save) = save.sent
    BY <1>2, MergeIsSent
  <2> QED BY <1>1, <2>1 DEF RewrittenTo
<1>4. To(assigned', p) = save.sent
  BY <1>3, RewriteTo
<1>5. AssignedTo(save.of)' = save.sent
  BY <1>4 DEF AssignedTo, To
<1> QED BY <1>1, <1>5 DEF Stands

\* An override is what a save that met no other asked for.
LEMMA OverrideStands ==
  ASSUME AccessInv, NEW a \in Admins, CommitOverride(a), office[a].alone,
         NEW save, save = office[a]
  PROVE  Stands(save)'
<1> PICK u, k : u = save.of[1] /\ k = save.of[2]
  OBVIOUS
<1>1. save # Nobody /\ save.op = "override" /\ overrides' = Settled(save)
  BY DEF CommitOverride
<1>2. Good(save) /\ ReadOfOverride(save)
  BY <1>1 DEF AccessInv, Requests, Good
<1>3. PICK row \in Override :
            /\ IsOf(row, save.of) /\ row.granted = save.sent
            /\ overrides' = {o \in overrides : \A p \in save.had : p.id # o.id} \cup {row}
  BY <1>1, <1>2, SettledRows
<1>4. RowsOf(u, k) = save.had
  BY <1>1, <1>2 DEF Good, ReadIsNow
<1>5. RowsOf(u, k)' = {row}
  <2>1. \A o \in overrides' : o = row \/ o \notin RowsOf(u, k)
    BY <1>3, <1>4
  <2>2. \A o \in overrides' : o = row \/ o \in overrides
    BY <1>3
  <2>3. row \in overrides' /\ row.who = u /\ row.key = k
    BY <1>3 DEF IsOf
  <2> QED BY <2>1, <2>2, <2>3 DEF RowsOf
<1>6. Newest({row}) = row
  <2>1. row.id <= row.id
    BY DEF Override
  <2> QED BY <2>1 DEF Newest
<1>7. k \in Keys
  BY <1>2 DEF ReadOfOverride
<1>8. (k \in Effective(u))' = row.granted
  <2>1. row.granted \in BOOLEAN
    BY DEF Override
  <2>2. (k \in Effective(u))' <=> row.granted
    BY <1>5, <1>6, <1>7 DEF Effective
  <2> QED BY <2>1, <2>2
<1>9. Cardinality(RowsOf(u, k))' = 1
  BY <1>5, FS_Singleton
<1>10. (Cardinality(RowsOf(save.of[1], save.of[2])) = 1
        /\ (save.of[2] \in Effective(save.of[1])) = save.sent)'
  BY <1>3, <1>8, <1>9
<1> QED BY <1>1, <1>10 DEF Stands

\* A deleted role is gone.
LEMMA DeleteStands ==
  ASSUME NEW a \in Admins, CommitDelete(a), NEW save, save = office[a]
  PROVE  Stands(save)'
<1>1. save.op = "gone" /\ save.of \notin roles'
  BY DEF CommitDelete
<1> QED BY <1>1 DEF Stands

\* The tables change only as a request commits.
LEMMA Changes ==
  ASSUME AccessNext, tables' # tables
  PROVE  \E b \in Admins :
           \/ CommitRole(b) \/ CommitDelete(b) \/ CommitUser(b) \/ CommitOverride(b)
           \/ CommitAssign(b)
<1>1. ASSUME NEW b \in Admins, NEW save, Begin(b, save) PROVE FALSE
  BY <1>1 DEF Begin, tables
<1>2. ASSUME NEW b \in Admins, NEW r \in Roles, NEW keys \in Payloads.keys, SaveRole(b, r, keys)
      PROVE  FALSE
  BY <1>1, <1>2 DEF SaveRole
<1>3. ASSUME NEW b \in Admins, NEW r \in Roles, DeleteRole(b, r) PROVE FALSE
  BY <1>1, <1>3 DEF DeleteRole
<1>4. ASSUME NEW b \in Admins, NEW u \in Staff, NEW names \in Payloads.roles, SaveUser(b, u, names)
      PROVE  FALSE
  BY <1>1, <1>4 DEF SaveUser
<1>5. ASSUME NEW b \in Admins, NEW u \in Staff, NEW k \in Keys, NEW granted \in BOOLEAN,
             SaveOverride(b, u, k, granted)
      PROVE  FALSE
  BY <1>1, <1>5 DEF SaveOverride
<1>6. ASSUME NEW b \in Admins, NEW p \in Sites, NEW users \in Payloads.users, Assign(b, p, users)
      PROVE  FALSE
  BY <1>1, <1>6 DEF Assign
<1>7. ASSUME NEW b \in Admins, GiveUp(b) PROVE FALSE
  BY <1>7 DEF GiveUp, tables
<1> QED BY <1>2, <1>3, <1>4, <1>5, <1>6, <1>7 DEF AccessNext

\* Only a commit changes a table, and it empties its sender's desk and no other.
LEMMA Committed ==
  ASSUME AccessInv, AccessNext, NEW a \in Admins, office[a] # Nobody, office'[a] = Nobody,
         tables' # tables
  PROVE  \/ CommitRole(a) \/ CommitDelete(a) \/ CommitUser(a) \/ CommitOverride(a)
         \/ CommitAssign(a)
<1>1. PICK b \in Admins :
        \/ CommitRole(b) \/ CommitDelete(b) \/ CommitUser(b) \/ CommitOverride(b)
        \/ CommitAssign(b)
  BY Changes
<1>2. CASE CommitDelete(b)
  <2> SUFFICES ASSUME b # a PROVE FALSE
    BY <1>2
  <2>1. office'[a] = Outlive(office[a], office[b].of)
    BY <1>2 DEF CommitDelete
  <2> PICK s, t, r : s = office[a] /\ t = office'[a] /\ r = office[b].of
    OBVIOUS
  <2>2. Good(s) /\ s # Nobody /\ t = Outlive(s, r)
    BY <2>1 DEF AccessInv, Requests
  <2>3. t.op # "none"
    BY <2>2, Outlives DEF Good
  <2> QED BY <2>3 DEF Nobody
<1>3. CASE CommitRole(b) \/ CommitUser(b) \/ CommitOverride(b) \/ CommitAssign(b)
  <2>1. office' = [office EXCEPT ![b] = Nobody]
    BY <1>3 DEF CommitRole, CommitUser, CommitOverride, CommitAssign, Close
  <2>2. a = b
    BY <2>1 DEF AccessInv, Requests
  <2> QED BY <1>3, <2>2
<1> QED BY <1>1, <1>2, <1>3

\* A save that met no other stands when it commits, whatever it saved.
LEMMA LoneStep ==
  ASSUME AccessInv, AccessNext, NEW a \in Admins, NEW save \in {office[a]},
         save # Nobody, office'[a] = Nobody, tables' # tables, save.alone
  PROVE  Stands(save)'
  BY Committed, RoleStands, DeleteStands, UserStands, OverrideStands, AssignStands

\* Nobody becomes a super administrator but by a save that a super administrator began.
LEMMA SuperStep ==
  ASSUME AccessInv, AccessNext, NEW u \in Staff, ~IsSuper(u), IsSuper(u)'
  PROVE  \E a \in Admins : office[a] # Nobody /\ office'[a] = Nobody /\ office[a].crown
<1>1. PICK h \in holders' : h \notin holders /\ h[1] = u /\ h[2] = SuperAdmin
  BY DEF IsSuper, RolesOf
<1>2. PICK a \in Admins : CommitUser(a)
  <2>1. tables' # tables
    BY <1>1 DEF tables
  <2>2. PICK b \in Admins :
           \/ CommitRole(b) \/ CommitDelete(b) \/ CommitUser(b) \/ CommitOverride(b)
           \/ CommitAssign(b)
    BY <2>1, Changes
  <2> QED BY <1>1, <2>2 DEF CommitRole, CommitDelete, CommitOverride, CommitAssign
<1> PICK save : save = office[a]
  OBVIOUS
<1>3. /\ save # Nobody /\ save.op = "user" /\ office' = [office EXCEPT ![a] = Nobody]
      /\ RewrittenOf(holders, save.of, Merge(RolesOf(save.of), save), holders')
  BY <1>2 DEF CommitUser, Close, RewrittenOf
<1>4. h[1] = save.of /\ h[2] \in Merge(RolesOf(save.of), save)
  BY <1>1, <1>3, RewriteOf
<1>5. SuperAdmin \in save.sent
  BY <1>1, <1>4 DEF Merge, IsSuper
<1>6. save.crown
  BY <1>3, <1>5 DEF AccessInv, Requests, Good
<1>7. office'[a] = Nobody
  BY <1>3 DEF AccessInv, Requests
<1> QED BY <1>3, <1>6, <1>7

\* Saves of roles, users, overrides and assignments that overlap no other of the same leave
\* what was sent, and nobody becomes a super administrator but by the hand of one:
\* roles.py, users.py and assign_users, for any staff, roles, keys and plots, and any
\* number of requests under way at once.
THEOREM LoneSaves == AccessSpec => LoneSavesStand
<1>1. AccessInv /\ [AccessNext]_accessVars =>
        [\A a \in Admins : \A save \in {office[a]} :
          save # Nobody /\ office'[a] = Nobody /\ tables' # tables /\ save.alone
          => Stands(save)']_accessVars
  BY LoneStep
<1> QED BY <1>1, AccessInitInv, AccessNextInv, PTL DEF AccessSpec, LoneSavesStand

\* Nobody becomes a super administrator but by the hand of one.
THEOREM CrownsAreGiven == AccessSpec => OnlySupersMakeSupers
<1>1. AccessInv /\ [AccessNext]_accessVars =>
        [\A u \in Staff : ~IsSuper(u) /\ IsSuper(u)' =>
          \E a \in Admins : office[a] # Nobody /\ office'[a] = Nobody /\ office[a].crown]_accessVars
  BY SuperStep
<1> QED BY <1>1, AccessInitInv, AccessNextInv, PTL DEF AccessSpec, OnlySupersMakeSupers


\* Who sees a record sees its plot, and who sees a plot sees its cycles, whatever the tables.
LEMMA ScopesNestAlways == ScopesNest
<1> SUFFICES ASSUME NEW u \in Staff, NEW p \in Sites
             PROVE  /\ FindsRecord(u, p) = SeesRecord(u, p)
                    /\ SeesRecord(u, p) => SeesPlot(u, p)
                    /\ SeesCycle(u, p) = SeesPlot(u, p)
                    /\ SeesPlot(u, p) => \/ FindsSupplier(u, Owner[p])
                                         \/ FieldOfficer \notin RolesOf(u) /\ Owner[u] # Owner[p]
  BY DEF ScopesNest
<1> PICK scope : scope = ScopeOf(u)
  OBVIOUS
<1>1. SeesPlot(u, p) <=> \/ scope = "all"
                         \/ scope = "supplier" /\ Owner[p] = Owner[u]
                         \/ scope = "assigned" /\ <<u, p>> \in assigned
  BY DEF SeesPlot, Policy
<1>2. FindsRecord(u, p) = SeesRecord(u, p) /\ SeesRecord(u, p) = SeesPlot(u, p)
  BY DEF FindsRecord, SeesRecord, SeesPlot, Policy
<1>3. SeesCycle(u, p) = SeesPlot(u, p)
  BY <1>1 DEF SeesCycle, Policy, SeesPlot
<1>4. SeesPlot(u, p) => \/ FindsSupplier(u, Owner[p])
                        \/ FieldOfficer \notin RolesOf(u) /\ Owner[u] # Owner[p]
  BY <1>1 DEF FindsSupplier
<1> QED BY <1>2, <1>3, <1>4

\* The two layers that isolate suppliers agree and nest, whatever roles, overrides and
\* assignments there are: scope.py against the policies of the migrations.
THEOREM ScopesAlwaysNest == AccessSpec => []ScopesNest
  BY ScopesNestAlways, PTL

-----------------------------------------------------------------------------
(* Menus: induction over sets in place of predicates, and recursion        *)

\* Induction by steps of one, over a set in place of a predicate.
LEMMA Induction ==
  ASSUME NEW T, 0 \in T, \A n \in Nat : n \in T => n + 1 \in T
  PROVE  \A n \in Nat : n \in T
<1> DEFINE bad == {n \in Nat : n \notin T}
<1> SUFFICES ASSUME bad # {} PROVE FALSE
  OBVIOUS
<1>1. bad \subseteq Nat
  OBVIOUS
<1>2. PICK n \in bad : \A m \in bad : ~(<<m, n>> \in LessThan)
  <2> HIDE DEF bad
  <2> QED BY <1>1, WFMin, LessThanWF
<1>3. n # 0 /\ n - 1 \in Nat /\ n - 1 < n /\ (n - 1) + 1 = n
  OBVIOUS
<1>4. n - 1 \in T
  BY <1>2, <1>3 DEF LessThan
<1> QED BY <1>3, <1>4

Stepwise(V, b, s, N) ==
    \E f \in [0 .. N -> V] : f[0] = b /\ \A k \in 0 .. N : k # 0 => f[k] = s[f[k - 1]]

\* A function by steps of one, up to a number.
LEMMA Recursion ==
  ASSUME NEW V, NEW b \in V, NEW s \in [V -> V], NEW N \in Nat
  PROVE  Stepwise(V, b, s, N)
<1> DEFINE Up(n) == {h \in [0 .. n -> V] : /\ h[0] = b
                                           /\ \A k \in 0 .. n : k # 0 => h[k] = s[h[k - 1]]}
           T == {n \in Nat : Up(n) # {}}
<1>1. 0 \in T
  <2> DEFINE h == [k \in 0 .. 0 |-> b]
  <2>1. h \in Up(0)
    OBVIOUS
  <2> QED BY <2>1
<1>2. \A n \in Nat : n \in T => n + 1 \in T
  <2> SUFFICES ASSUME NEW n \in Nat, NEW h \in Up(n) PROVE Up(n + 1) # {}
    OBVIOUS
  <2> DEFINE g == [k \in 0 .. (n + 1) |-> IF k = n + 1 THEN s[h[n]] ELSE h[k]]
  <2>1. s[h[n]] \in V
    OBVIOUS
  <2>2. g \in [0 .. (n + 1) -> V]
    BY <2>1
  <2>3. g[0] = b
    OBVIOUS
  <2>4. ASSUME NEW k \in 0 .. (n + 1), k # 0 PROVE g[k] = s[g[k - 1]]
    <3>1. k - 1 \in 0 .. n /\ g[k - 1] = h[k - 1]
      BY <2>4
    <3>2. CASE k = n + 1
      BY <3>1, <3>2
    <3>3. CASE k \in 0 .. n
      BY <2>4, <3>1, <3>3
    <3> QED BY <3>2, <3>3
  <2> QED BY <2>2, <2>3, <2>4
<1>3. \A n \in Nat : n \in T
  <2> HIDE DEF T
  <2> QED BY <1>1, <1>2, Induction
<1>4. Up(N) # {}
  BY <1>3
<1> QED BY <1>4 DEF Stepwise

-----------------------------------------------------------------------------
(* The way up *)

HasParent(m) == menu[m] # Root /\ menu[m].parent # Root

Closed(S) == \A m \in S : HasParent(m) => menu[m].parent \in S

Parents(S) == {menu[m].parent : m \in {n \in S : HasParent(n)}}

LineageStep(f, d) ==
    [m \in Menus |-> IF d = 0 \/ menu[m] = Root \/ menu[m].parent = Root THEN {m}
                     ELSE {m} \cup f[d - 1][menu[m].parent]]

\* A parent is a row of the catalogue.
LEMMA ParentIsThere ==
  ASSUME MenuTypeOK, NEW m \in Menus, HasParent(m)
  PROVE  m \in Catalogue /\ menu[m].parent \in Catalogue /\ menu[m].parent \in Menus
  BY DEF MenuTypeOK, HasParent, Catalogue

\* The lineages that are defined by recursion exist.
LEMMA LineageRecurs ==
  ASSUME MenuTypeOK
  PROVE  \A d \in 0 .. Cardinality(Menus) :
            Lineage[d] = LineageStep(Lineage, d) /\ Lineage[d] \in [Menus -> SUBSET Menus]
<1> PICK N \in Nat : N = Cardinality(Menus)
  BY MenusAssumption, FS_CardinalityType
<1>v. PICK V : V = [Menus -> SUBSET Menus]
  OBVIOUS
<1>b. PICK b : b = [m \in Menus |-> {m}]
  OBVIOUS
<1>s. PICK s : s = [L \in V |-> [m \in Menus |->
                      IF HasParent(m) THEN {m} \cup L[menu[m].parent] ELSE {m}]]
  OBVIOUS
<1>1. b \in V
  BY <1>v, <1>b
<1>2. s \in [V -> V]
  <2> SUFFICES ASSUME NEW L \in V, NEW m \in Menus, HasParent(m)
               PROVE  {m} \cup L[menu[m].parent] \subseteq Menus
    BY <1>v, <1>s
  <2> QED BY <1>v, ParentIsThere
<1>3. PICK f \in [0 .. N -> V] : f[0] = b /\ \A k \in 0 .. N : k # 0 => f[k] = s[f[k - 1]]
  <2>1. Stepwise(V, b, s, N)
    BY <1>1, <1>2, Recursion
  <2> QED BY <2>1, Zenon DEF Stepwise
<1>4. ASSUME NEW k \in 0 .. N PROVE f[k] = LineageStep(f, k)
  <2>1. CASE k = 0
    BY <1>3, <1>b, <2>1 DEF LineageStep
  <2>2. CASE k # 0
    <3>1. f[k] = s[f[k - 1]] /\ f[k - 1] \in V
      <4>1. k - 1 \in 0 .. N
        BY <2>2
      <4> QED BY <1>3, <2>2, <4>1
    <3>2. f[k] = [m \in Menus |-> IF HasParent(m) THEN {m} \cup f[k - 1][menu[m].parent] ELSE {m}]
      BY <1>v, <1>s, <3>1
    <3> QED BY <2>2, <3>2 DEF LineageStep, HasParent
  <2> QED BY <2>1, <2>2
<1>5. f = [k \in 0 .. N |-> LineageStep(f, k)]
  BY <1>4
<1>6. Lineage = CHOOSE g : g = [k \in 0 .. N |-> LineageStep(g, k)]
  BY Zenon DEF Lineage, LineageStep
<1>7. Lineage = [k \in 0 .. N |-> LineageStep(Lineage, k)]
  BY <1>5, <1>6, Zenon
<1>8. \A k \in 0 .. N : Lineage[k] = LineageStep(Lineage, k)
  BY <1>7, Zenon
<1> DEFINE T == {k \in Nat : k <= N => Lineage[k] \in V}
<1> USE <1>v
<1>9. 0 \in T
  <2>1. Lineage[0] = [m \in Menus |-> {m}]
    BY <1>8 DEF LineageStep
  <2> QED BY <2>1
<1>10. ASSUME NEW k \in Nat, k \in T PROVE k + 1 \in T
  <2> SUFFICES ASSUME k + 1 <= N PROVE Lineage[k + 1] \in V
    OBVIOUS
  <2>0. Lineage[k] \in V
    BY <1>10
  <2>1. Lineage[k + 1] = LineageStep(Lineage, k + 1) /\ k + 1 # 0 /\ (k + 1) - 1 = k
    BY <1>8
  <2>2. Lineage[k + 1] = [m \in Menus |-> IF HasParent(m) THEN {m} \cup Lineage[k][menu[m].parent] ELSE {m}]
    BY <2>1 DEF LineageStep, HasParent
  <2>3. ASSUME NEW m \in Menus, HasParent(m) PROVE {m} \cup Lineage[k][menu[m].parent] \subseteq Menus
    BY <2>0, <2>3, ParentIsThere
  <2> QED BY <2>2, <2>3
<1>11. \A k \in Nat : k \in T
  <2> HIDE DEF T
  <2> QED BY <1>9, <1>10, Induction
<1> QED BY <1>8, <1>11

\* The way up is the menu, and its parent's way up.
LEMMA LineageIs ==
  ASSUME MenuTypeOK, NEW d \in 0 .. Cardinality(Menus), NEW m \in Menus
  PROVE  /\ Lineage[d][m] \subseteq Menus /\ m \in Lineage[d][m]
         /\ d = 0 \/ ~HasParent(m) => Lineage[d][m] = {m}
         /\ d # 0 /\ HasParent(m) => Lineage[d][m] = {m} \cup Lineage[d - 1][menu[m].parent]
<1>1. Lineage[d] = LineageStep(Lineage, d) /\ Lineage[d] \in [Menus -> SUBSET Menus]
  BY LineageRecurs
<1>2. Lineage[d][m] = IF d = 0 \/ menu[m] = Root \/ menu[m].parent = Root THEN {m}
                      ELSE {m} \cup Lineage[d - 1][menu[m].parent]
  BY <1>1, Zenon DEF LineageStep
<1> QED BY <1>1, <1>2 DEF HasParent

\* One step more adds the parents of those there are.
LEMMA LineageGrows ==
  ASSUME MenuTypeOK
  PROVE  \A d \in Nat : \A m \in Menus : d + 1 <= Cardinality(Menus) =>
            Lineage[d + 1][m] = Lineage[d][m] \cup Parents(Lineage[d][m])
<1> PICK N \in Nat : N = Cardinality(Menus)
  BY MenusAssumption, FS_CardinalityType
<1> DEFINE T == {d \in Nat : d + 1 <= N => \A m \in Menus :
                    Lineage[d + 1][m] = Lineage[d][m] \cup Parents(Lineage[d][m])}
<1>1. 0 \in T
  <2> SUFFICES ASSUME 1 <= N, NEW m \in Menus
               PROVE  Lineage[0 + 1][m] = Lineage[0][m] \cup Parents(Lineage[0][m])
    OBVIOUS
  <2>1. Lineage[0][m] = {m}
    BY LineageIs
  <2>2. CASE HasParent(m)
    <3>1. Lineage[1][m] = {m} \cup Lineage[1 - 1][menu[m].parent]
      BY <2>2, LineageIs
    <3>2. Lineage[0][menu[m].parent] = {menu[m].parent}
      BY <2>2, ParentIsThere, LineageIs
    <3>3. Parents({m}) = {menu[m].parent}
      BY <2>2 DEF Parents
    <3> QED BY <2>1, <3>1, <3>2, <3>3
  <2>3. CASE ~HasParent(m)
    <3>1. Lineage[1][m] = {m}
      BY <2>3, LineageIs
    <3>2. Parents({m}) = {}
      BY <2>3 DEF Parents
    <3> QED BY <2>1, <3>1, <3>2
  <2> QED BY <2>2, <2>3
<1>2. \A d \in Nat : d \in T => d + 1 \in T
  <2> SUFFICES ASSUME NEW d \in Nat, d \in T, (d + 1) + 1 <= N, NEW m \in Menus
               PROVE  Lineage[(d + 1) + 1][m] = Lineage[d + 1][m] \cup Parents(Lineage[d + 1][m])
    OBVIOUS
  <2> PICK e : e = d + 1
    OBVIOUS
  <2>0. e \in 0 .. N /\ e # 0 /\ e - 1 = d /\ e + 1 \in 0 .. N /\ e + 1 # 0 /\ (e + 1) - 1 = e
    OBVIOUS
  <2>1. CASE HasParent(m)
    <3> PICK p : p = menu[m].parent
      OBVIOUS
    <3>1. p \in Menus
      BY <2>1, ParentIsThere
    <3>2. Lineage[e + 1][m] = {m} \cup Lineage[e][p]
      BY <2>0, <2>1, LineageIs
    <3>3. Lineage[e][m] = {m} \cup Lineage[d][p]
      BY <2>0, <2>1, LineageIs
    <3>4. Lineage[e][p] = Lineage[d][p] \cup Parents(Lineage[d][p])
      BY <3>1
    <3>5. p \in Lineage[d][p]
      BY <3>1, LineageIs
    <3>6. Parents(Lineage[e][m]) = {p} \cup Parents(Lineage[d][p])
      BY <2>1, <3>3 DEF Parents
    <3> QED BY <3>2, <3>3, <3>4, <3>5, <3>6
  <2>2. CASE ~HasParent(m)
    <3>1. Lineage[e + 1][m] = {m} /\ Lineage[e][m] = {m}
      BY <2>0, <2>2, LineageIs
    <3>2. Parents({m}) = {}
      BY <2>2 DEF Parents
    <3> QED BY <3>1, <3>2
  <2> QED BY <2>1, <2>2
<1>3. \A d \in Nat : d \in T
  <2> HIDE DEF T
  <2> QED BY <1>1, <1>2, Induction
<1> QED BY <1>3

\* A way up of d steps is the whole way or is of more than d menus.
LEMMA LineageEnds ==
  ASSUME MenuTypeOK
  PROVE  \A d \in Nat : \A m \in Menus : d <= Cardinality(Menus) =>
            Closed(Lineage[d][m]) \/ Cardinality(Lineage[d][m]) >= d + 1
<1> PICK N \in Nat : N = Cardinality(Menus)
  BY MenusAssumption, FS_CardinalityType
<1> DEFINE T == {d \in Nat : d <= N => \A m \in Menus :
                    Closed(Lineage[d][m]) \/ Cardinality(Lineage[d][m]) >= d + 1}
<1>1. 0 \in T
  <2>1. ASSUME NEW m \in Menus PROVE Cardinality(Lineage[0][m]) >= 0 + 1
    <3>1. Lineage[0][m] = {m}
      BY LineageIs
    <3>2. Cardinality({m}) = 1
      BY FS_Singleton
    <3> QED BY <3>1, <3>2
  <2> QED BY <2>1
<1>2. \A d \in Nat : d \in T => d + 1 \in T
  <2> SUFFICES ASSUME NEW d \in Nat, d \in T, d + 1 <= N, NEW m \in Menus,
                      ~Closed(Lineage[d + 1][m])
               PROVE  Cardinality(Lineage[d + 1][m]) >= (d + 1) + 1
    OBVIOUS
  <2> PICK S, U : S = Lineage[d][m] /\ U = Lineage[d + 1][m]
    OBVIOUS
  <2>1. U = S \cup Parents(S) /\ S \subseteq Menus /\ U \subseteq Menus
    BY LineageGrows, LineageIs
  <2>2. ~Closed(S)
    <3> SUFFICES ASSUME Closed(S) PROVE FALSE
      OBVIOUS
    <3>1. Parents(S) \subseteq S
      BY DEF Closed, Parents
    <3>2. U = S
      BY <2>1, <3>1
    <3> QED BY <3>2
  <2>3. Cardinality(S) >= d + 1
    BY <2>2
  <2>4. PICK x \in Parents(S) : x \notin S
    BY <2>2 DEF Closed, Parents
  <2>5. IsFiniteSet(S) /\ IsFiniteSet(U) /\ Cardinality(S) \in Nat /\ Cardinality(U) \in Nat
    BY <2>1, MenusAssumption, FS_Subset, FS_CardinalityType
  <2>6. S \cup {x} \subseteq U
    BY <2>1
  <2>7. Cardinality(S \cup {x}) = Cardinality(S) + 1
    BY <2>4, <2>5, FS_AddElement
  <2>8. Cardinality(S \cup {x}) <= Cardinality(U)
    BY <2>5, <2>6, FS_Subset
  <2> QED BY <2>3, <2>5, <2>7, <2>8
<1>3. \A d \in Nat : d \in T
  <2> HIDE DEF T
  <2> QED BY <1>1, <1>2, Induction
<1> QED BY <1>3

\* A way up stays in whatever set it begins in that has the parents of its own.
LEMMA LineageStays ==
  ASSUME MenuTypeOK, NEW S, Closed(S)
  PROVE  \A d \in Nat : \A m \in Menus : d <= Cardinality(Menus) /\ m \in S => Lineage[d][m] \subseteq S
<1> PICK N \in Nat : N = Cardinality(Menus)
  BY MenusAssumption, FS_CardinalityType
<1> DEFINE T == {d \in Nat : \A m \in Menus : d <= N /\ m \in S => Lineage[d][m] \subseteq S}
<1>1. 0 \in T
  BY LineageIs
<1>2. \A d \in Nat : d \in T => d + 1 \in T
  <2> SUFFICES ASSUME NEW d \in Nat, d \in T, NEW m \in Menus, d + 1 <= N, m \in S
               PROVE  Lineage[d + 1][m] \subseteq S
    OBVIOUS
  <2>1. CASE HasParent(m)
    <3>1. menu[m].parent \in Menus /\ menu[m].parent \in S
      BY <2>1, ParentIsThere DEF Closed
    <3>2. Lineage[d][menu[m].parent] \subseteq S
      BY <3>1
    <3>3. d + 1 \in 0 .. N /\ d + 1 # 0 /\ (d + 1) - 1 = d
      OBVIOUS
    <3>4. Lineage[d + 1][m] = {m} \cup Lineage[d][menu[m].parent]
      BY <2>1, <3>3, LineageIs
    <3> QED BY <3>2, <3>4
  <2>2. CASE ~HasParent(m)
    BY <2>2, LineageIs
  <2> QED BY <2>1, <2>2
<1>3. \A d \in Nat : d \in T
  <2> HIDE DEF T
  <2> QED BY <1>1, <1>2, Induction
<1> QED BY <1>3

\* A step less than there are menus is the whole way already.
LEMMA WholeWay ==
  ASSUME MenuTypeOK, NEW m \in Menus
  PROVE  /\ Cardinality(Menus) \in Nat \ {0}
         /\ AncestorsAndSelf(m) = Lineage[Cardinality(Menus) - 1][m]
         /\ Closed(AncestorsAndSelf(m))
<1> PICK N \in Nat : N = Cardinality(Menus)
  BY MenusAssumption, FS_CardinalityType
<1>1. N # 0
  BY MenusAssumption, FS_EmptySet
<1> PICK d \in Nat : d = N - 1
  BY <1>1
<1>2. d + 1 = N /\ d <= N
  BY <1>1
<1> PICK S : S = Lineage[d][m]
  OBVIOUS
<1>3. S \subseteq Menus
  BY <1>2, LineageIs
<1>4. Closed(S)
  <2>1. CASE Cardinality(S) >= d + 1
    <3>1. IsFiniteSet(S) /\ Cardinality(S) \in Nat /\ Cardinality(S) <= N
      BY <1>3, MenusAssumption, FS_Subset, FS_CardinalityType
    <3>2. Cardinality(Menus) = Cardinality(S)
      BY <1>2, <2>1, <3>1
    <3>3. S = Menus
      BY <1>3, <3>2, MenusAssumption, FS_Subset
    <3> QED BY <3>3, ParentIsThere DEF Closed
  <2> QED BY <1>2, <2>1, LineageEnds
<1>5. Lineage[d + 1][m] = S \cup Parents(S)
  BY <1>2, LineageGrows
<1>6. Parents(S) \subseteq S
  BY <1>4 DEF Closed, Parents
<1>7. AncestorsAndSelf(m) = S
  BY <1>2, <1>5, <1>6 DEF AncestorsAndSelf
<1> QED BY <1>1, <1>4, <1>7

\* What the ancestors of a menu are: the least set with it and the parents of its own.
LEMMA AncestorsAre ==
  ASSUME MenuTypeOK, NEW m \in Menus
  PROVE  /\ m \in AncestorsAndSelf(m) /\ AncestorsAndSelf(m) \subseteq Menus
         /\ \A n \in AncestorsAndSelf(m) : AncestorsAndSelf(n) \subseteq AncestorsAndSelf(m)
         /\ ~HasParent(m) => AncestorsAndSelf(m) = {m}
         /\ HasParent(m) => AncestorsAndSelf(m) = {m} \cup AncestorsAndSelf(menu[m].parent)
         /\ m \in Catalogue => AncestorsAndSelf(m) \subseteq Catalogue
<1>1. Cardinality(Menus) \in 0 .. Cardinality(Menus)
  BY WholeWay
<1>2. m \in AncestorsAndSelf(m) /\ AncestorsAndSelf(m) \subseteq Menus
      /\ (~HasParent(m) => AncestorsAndSelf(m) = {m})
  BY <1>1, LineageIs DEF AncestorsAndSelf
<1>3. ASSUME NEW S, Closed(S), NEW n \in Menus, n \in S PROVE AncestorsAndSelf(n) \subseteq S
  BY <1>1, <1>3, LineageStays, WholeWay DEF AncestorsAndSelf
<1>4. \A n \in AncestorsAndSelf(m) : AncestorsAndSelf(n) \subseteq AncestorsAndSelf(m)
  BY <1>2, <1>3, WholeWay
<1>5. ASSUME HasParent(m) PROVE AncestorsAndSelf(m) = {m} \cup AncestorsAndSelf(menu[m].parent)
  <2> PICK p : p = menu[m].parent
    OBVIOUS
  <2>1. p \in Menus
    BY <1>5, ParentIsThere
  <2>2. p \in AncestorsAndSelf(m)
    BY <1>2, <1>5, WholeWay DEF Closed
  <2>3. Cardinality(Menus) # 0 /\ Cardinality(Menus) \in Nat /\ p \in AncestorsAndSelf(p)
    BY <2>1, WholeWay, <1>1, LineageIs DEF AncestorsAndSelf
  <2>4. Closed(AncestorsAndSelf(p))
    BY <2>1, WholeWay
  <2>5. Closed({m} \cup AncestorsAndSelf(p))
    BY <2>3, <2>4 DEF Closed
  <2>6. AncestorsAndSelf(m) \subseteq {m} \cup AncestorsAndSelf(p)
    BY <1>3, <2>5
  <2>7. AncestorsAndSelf(p) \subseteq AncestorsAndSelf(m)
    BY <1>4, <2>2
  <2> QED BY <1>2, <2>6, <2>7
<1>6. ASSUME m \in Catalogue PROVE AncestorsAndSelf(m) \subseteq Catalogue
  <2>1. Closed(Catalogue)
    <3> SUFFICES ASSUME NEW n \in Catalogue, HasParent(n) PROVE menu[n].parent \in Catalogue
      BY DEF Closed
    <3>1. n \in Menus
      BY DEF Catalogue
    <3> QED BY <3>1, ParentIsThere
  <2> QED BY <1>3, <1>6, <2>1
<1> QED BY <1>2, <1>4, <1>5, <1>6

-----------------------------------------------------------------------------
(* The walk down *)

\* What the walk shows of a menu, when it shows S below it.
ShownWith(allowed, c, S) ==
    IF menu[c].gate = Ungated /\ IsGroup(allowed, c) /\ S = {} THEN {} ELSE {c} \cup S

WalkStep(allowed, f, d) ==
    [p \in Menus \cup {Root} |->
        IF d = 0 THEN {}
        ELSE UNION {IF menu[m].gate = Ungated /\ IsGroup(allowed, m) /\ f[d - 1][m] = {}
                    THEN {} ELSE {m} \cup f[d - 1][m] :
                    m \in {c \in Menus : Kept(allowed, c) /\ menu[c].parent = p}}]

Walks(allowed, w) ==
    /\ w \in [0 .. Cardinality(Menus) -> [Menus \cup {Root} -> SUBSET Menus]]
    /\ w = [d \in 0 .. Cardinality(Menus) |-> WalkStep(allowed, w, d)]

\* A step of the walk, with what it shows of each menu named.
LEMMA WalkStepIs ==
  ASSUME NEW allowed, NEW f, NEW d, d # 0, NEW p \in Menus \cup {Root}
  PROVE  WalkStep(allowed, f, d)[p] =
            UNION {ShownWith(allowed, m, f[d - 1][m]) :
                   m \in {c \in Menus : Kept(allowed, c) /\ menu[c].parent = p}}
  BY DEF WalkStep, ShownWith

\* The first step shows nothing.
LEMMA WalkStepZero ==
  ASSUME NEW allowed, NEW f
  PROVE  WalkStep(allowed, f, 0) = [p \in Menus \cup {Root} |-> {}]
  BY DEF WalkStep

\* The walk that is defined by recursion exists.
LEMMA WalkRecurs ==
  ASSUME NEW allowed
  PROVE  \E w : Walks(allowed, w) /\ Walk(allowed) = w[Cardinality(Menus)]
<1> PICK N \in Nat : N = Cardinality(Menus)
  BY MenusAssumption, FS_CardinalityType
<1>v. PICK V : V = [Menus \cup {Root} -> SUBSET Menus]
  OBVIOUS
<1>b. PICK b : b = [p \in Menus \cup {Root} |-> {}]
  OBVIOUS
<1>s. PICK s : s = [L \in V |-> [p \in Menus \cup {Root} |->
                      UNION {ShownWith(allowed, m, L[m]) :
                             m \in {c \in Menus : Kept(allowed, c) /\ menu[c].parent = p}}]]
  OBVIOUS
<1>1. b \in V
  BY <1>v, <1>b
<1>2. s \in [V -> V]
  <2>1. ASSUME NEW L \in V PROVE s[L] \in V
    <3>1. \A m \in Menus : ShownWith(allowed, m, L[m]) \subseteq Menus
      BY <1>v DEF ShownWith
    <3>2. s[L] = [p \in Menus \cup {Root} |->
                      UNION {ShownWith(allowed, m, L[m]) :
                             m \in {c \in Menus : Kept(allowed, c) /\ menu[c].parent = p}}]
      BY <1>s
    <3> QED BY <1>v, <3>1, <3>2
  <2>2. s = [L \in V |-> s[L]]
    BY <1>s
  <2> QED BY <2>1, <2>2
<1>3. PICK f \in [0 .. N -> V] : f[0] = b /\ \A k \in 0 .. N : k # 0 => f[k] = s[f[k - 1]]
  <2>1. Stepwise(V, b, s, N)
    BY <1>1, <1>2, Recursion
  <2> QED BY <2>1, Zenon DEF Stepwise
<1>4. ASSUME NEW k \in 0 .. N PROVE f[k] = WalkStep(allowed, f, k)
  <2>1. CASE k = 0
    BY <1>3, <1>b, <2>1, WalkStepZero
  <2>2. CASE k # 0
    <3>1. f[k] = s[f[k - 1]] /\ f[k - 1] \in V
      <4>1. k - 1 \in 0 .. N
        BY <2>2
      <4> QED BY <1>3, <2>2, <4>1
    <3>2. f[k] = [p \in Menus \cup {Root} |->
                      UNION {ShownWith(allowed, m, f[k - 1][m]) :
                             m \in {c \in Menus : Kept(allowed, c) /\ menu[c].parent = p}}]
      BY <1>s, <3>1
    <3>3. WalkStep(allowed, f, k) = [p \in Menus \cup {Root} |-> WalkStep(allowed, f, k)[p]]
      BY DEF WalkStep
    <3> QED BY <2>2, <3>2, <3>3, WalkStepIs
  <2> QED BY <2>1, <2>2
<1>5. f = [k \in 0 .. N |-> WalkStep(allowed, f, k)]
  BY <1>4
<1> DEFINE below == CHOOSE g : g = [k \in 0 .. N |-> WalkStep(allowed, g, k)]
<1>6. Walk(allowed) = below[N]
  BY Zenon DEF Walk, WalkStep
<1> HIDE DEF below
<1> PICK w : w = below
  OBVIOUS
<1>7. w = [k \in 0 .. N |-> WalkStep(allowed, w, k)]
  BY <1>5, Zenon DEF below
<1>8. \A k \in 0 .. N : w[k] = WalkStep(allowed, w, k)
  BY <1>7, Zenon
<1> DEFINE T == {k \in Nat : k <= N => w[k] \in V}
<1>9. 0 \in T
  <2>1. w[0] = [p \in Menus \cup {Root} |-> {}]
    <3>1. w[0] = WalkStep(allowed, w, 0)
      BY <1>8
    <3> QED BY <3>1, WalkStepZero, Zenon
  <2> QED BY <1>v, <2>1
<1>10. ASSUME NEW k \in Nat, k \in T PROVE k + 1 \in T
  <2> SUFFICES ASSUME k + 1 <= N PROVE w[k + 1] \in V
    OBVIOUS
  <2>0. w[k] \in V
    BY <1>10
  <2>1. w[k + 1] = WalkStep(allowed, w, k + 1) /\ k + 1 # 0 /\ (k + 1) - 1 = k
    BY <1>8
  <2>2. \A m \in Menus : ShownWith(allowed, m, w[k][m]) \subseteq Menus
    BY <1>v, <2>0 DEF ShownWith
  <2>3. \A p \in Menus \cup {Root} : WalkStep(allowed, w, k + 1)[p] \subseteq Menus
    BY <2>1, <2>2, WalkStepIs
  <2>4. WalkStep(allowed, w, k + 1) = [p \in Menus \cup {Root} |-> WalkStep(allowed, w, k + 1)[p]]
    BY DEF WalkStep
  <2> QED BY <1>v, <2>1, <2>3, <2>4
<1>11. \A k \in Nat : k \in T
  <2> HIDE DEF T
  <2> QED BY <1>9, <1>10, Induction
<1>12. w \in [0 .. N -> V]
  BY <1>7, <1>11
<1>13. Walks(allowed, w)
  BY <1>v, <1>7, <1>12 DEF Walks
<1> QED BY <1>6, <1>13

\* What the walk shows below a menu, or below none.
LEMMA WalkIs ==
  ASSUME NEW allowed, NEW w, Walks(allowed, w),
         NEW d \in 0 .. Cardinality(Menus), NEW p \in Menus \cup {Root}
  PROVE  /\ w[d][p] \subseteq Menus
         /\ d = 0 => w[d][p] = {}
         /\ d # 0 => \A x : x \in w[d][p] <=>
                \E c \in Menus : /\ Kept(allowed, c) /\ menu[c].parent = p
                                 /\ x = c \/ x \in w[d - 1][c]
                                 /\ Leads(c) \/ w[d - 1][c] # {}
<1>1. w[d] = WalkStep(allowed, w, d)
  BY Zenon DEF Walks
<1>2. w[d][p] \subseteq Menus
  BY DEF Walks
<1>3. d = 0 => w[d][p] = {}
  BY <1>1 DEF WalkStep
<1>4. ASSUME d # 0, NEW x
      PROVE  x \in w[d][p] <=>
                \E c \in Menus : /\ Kept(allowed, c) /\ menu[c].parent = p
                                 /\ x = c \/ x \in w[d - 1][c]
                                 /\ Leads(c) \/ w[d - 1][c] # {}
  <2>1. w[d][p] = UNION {ShownWith(allowed, m, w[d - 1][m]) :
                         m \in {c \in Menus : Kept(allowed, c) /\ menu[c].parent = p}}
    BY <1>1, <1>4, WalkStepIs
  <2>2. \A c \in Menus : x \in ShownWith(allowed, c, w[d - 1][c]) <=>
                            /\ x = c \/ x \in w[d - 1][c]
                            /\ Leads(c) \/ w[d - 1][c] # {}
    BY DEF ShownWith, Leads, IsGroup
  <2>3. x \in w[d][p] <=> \E c \in Menus : /\ Kept(allowed, c) /\ menu[c].parent = p
                                           /\ x \in ShownWith(allowed, c, w[d - 1][c])
    BY <2>1
  <2> QED BY <2>2, <2>3
<1> QED BY <1>2, <1>3, <1>4

\* A menu that is let through below nothing, or below what is open, is open.
LEMMA OpenBelow ==
  ASSUME MenuTypeOK, NEW allowed, NEW c \in Menus, Kept(allowed, c),
         NEW p \in Menus \cup {Root}, menu[c].parent = p, p = Root \/ Open(allowed, p)
  PROVE  Open(allowed, c) /\ (p \in Menus => p \in AncestorsAndSelf(c))
<1>1. c \in Catalogue /\ Allows(allowed, c) /\ menu[c] # Root
  BY DEF Kept, Catalogue
<1>2. CASE p = Root
  <2>1. AncestorsAndSelf(c) = {c}
    BY <1>2, AncestorsAre DEF HasParent
  <2> QED BY <1>1, <1>2, <2>1, RootAssumption DEF Open, Listed
<1>3. CASE p # Root
  <2>1. HasParent(c) /\ p \in Menus
    BY <1>1, <1>3 DEF HasParent
  <2>2. AncestorsAndSelf(c) = {c} \cup AncestorsAndSelf(p) /\ p \in AncestorsAndSelf(p)
    BY <2>1, AncestorsAre
  <2> QED BY <1>1, <1>3, <2>2 DEF Open, Listed
<1> QED BY <1>2, <1>3

LeadsTo(allowed, x) ==
    \E n \in Catalogue : Leads(n) /\ Open(allowed, n) /\ x \in AncestorsAndSelf(n)

\* What the walk shows is open, below where it began, and leads somewhere.
LEMMA WalkShowsNoMore ==
  ASSUME MenuTypeOK, NEW allowed, NEW w, Walks(allowed, w)
  PROVE  \A d \in Nat : d <= Cardinality(Menus) =>
            \A p \in Menus \cup {Root} : p = Root \/ Open(allowed, p) =>
                \A x \in w[d][p] : /\ x \in Catalogue /\ Open(allowed, x)
                                   /\ p \in Menus => p \in AncestorsAndSelf(x)
                                   /\ LeadsTo(allowed, x)
<1> PICK N \in Nat : N = Cardinality(Menus)
  BY MenusAssumption, FS_CardinalityType
<1> DEFINE Right(d, p) == \A x \in w[d][p] : /\ x \in Catalogue /\ Open(allowed, x)
                                             /\ p \in Menus => p \in AncestorsAndSelf(x)
                                             /\ LeadsTo(allowed, x)
           T == {d \in Nat : d <= N => \A p \in Menus \cup {Root} :
                                           p = Root \/ Open(allowed, p) => Right(d, p)}
<1>1. 0 \in T
  BY WalkIs
<1>2. ASSUME NEW d \in Nat, d \in T PROVE d + 1 \in T
  <2> SUFFICES ASSUME d + 1 <= N, NEW p \in Menus \cup {Root}, p = Root \/ Open(allowed, p),
                      NEW x \in w[d + 1][p]
               PROVE  /\ x \in Catalogue /\ Open(allowed, x)
                      /\ p \in Menus => p \in AncestorsAndSelf(x)
                      /\ LeadsTo(allowed, x)
    OBVIOUS
  <2>0. d + 1 \in 0 .. N /\ d + 1 # 0 /\ (d + 1) - 1 = d
    OBVIOUS
  <2>1. PICK c \in Menus : /\ Kept(allowed, c) /\ menu[c].parent = p
                           /\ x = c \/ x \in w[d][c]
                           /\ Leads(c) \/ w[d][c] # {}
    BY <2>0, WalkIs
  <2>2. Open(allowed, c) /\ (p \in Menus => p \in AncestorsAndSelf(c)) /\ c \in Catalogue
    BY <2>1, OpenBelow DEF Kept
  <2>3. Right(d, c)
    BY <1>2, <2>2
  <2>4. CASE x = c
    <3>1. LeadsTo(allowed, c)
      <4>1. CASE Leads(c)
        BY <2>2, <4>1, AncestorsAre DEF LeadsTo
      <4>2. CASE w[d][c] # {}
        <5>1. PICK y \in w[d][c] : TRUE
          BY <4>2
        <5>2. c \in AncestorsAndSelf(y) /\ y \in Catalogue
          BY <2>3, <5>1
        <5>3. PICK n \in Catalogue : /\ Leads(n) /\ Open(allowed, n) /\ y \in AncestorsAndSelf(n)
          BY <2>3, <5>1 DEF LeadsTo
        <5>4. n \in Menus
          BY DEF Catalogue
        <5>5. c \in AncestorsAndSelf(n)
          BY <5>2, <5>3, <5>4, AncestorsAre
        <5> QED BY <5>3, <5>5 DEF LeadsTo
      <4> QED BY <2>1, <4>1, <4>2
    <3> QED BY <2>2, <2>4, <3>1
  <2>5. CASE x \in w[d][c]
    <3>1. x \in Catalogue /\ Open(allowed, x) /\ c \in AncestorsAndSelf(x) /\ LeadsTo(allowed, x)
      BY <2>3, <2>5
    <3>2. x \in Menus
      BY <3>1 DEF Catalogue
    <3>3. p \in Menus => p \in AncestorsAndSelf(x)
      BY <2>2, <3>1, <3>2, AncestorsAre
    <3> QED BY <3>1, <3>3
  <2> QED BY <2>1, <2>4, <2>5
<1>3. \A d \in Nat : d \in T
  <2> HIDE DEF T
  <2> QED BY <1>1, <1>2, Induction
<1> QED BY <1>3

\* A deeper walk shows no less.
LEMMA WalkGrows ==
  ASSUME NEW allowed, NEW w, Walks(allowed, w)
  PROVE  \A e \in Nat : \A d \in Nat : d + e <= Cardinality(Menus) =>
            \A p \in Menus \cup {Root} : w[d][p] \subseteq w[d + e][p]
<1> PICK N \in Nat : N = Cardinality(Menus)
  BY MenusAssumption, FS_CardinalityType
<1> DEFINE T == {d \in Nat : d + 1 <= N => \A p \in Menus \cup {Root} : w[d][p] \subseteq w[d + 1][p]}
           U == {e \in Nat : \A d \in Nat : d + e <= N =>
                                \A p \in Menus \cup {Root} : w[d][p] \subseteq w[d + e][p]}
<1>1. 0 \in T
  BY WalkIs
<1>2. ASSUME NEW d \in Nat, d \in T PROVE d + 1 \in T
  <2> SUFFICES ASSUME (d + 1) + 1 <= N, NEW p \in Menus \cup {Root}, NEW x \in w[d + 1][p]
               PROVE  x \in w[(d + 1) + 1][p]
    OBVIOUS
  <2>0. /\ d + 1 \in 0 .. N /\ d + 1 # 0 /\ (d + 1) - 1 = d
        /\ (d + 1) + 1 \in 0 .. N /\ (d + 1) + 1 # 0 /\ ((d + 1) + 1) - 1 = d + 1
    OBVIOUS
  <2>1. PICK c \in Menus : /\ Kept(allowed, c) /\ menu[c].parent = p
                           /\ x = c \/ x \in w[d][c]
                           /\ Leads(c) \/ w[d][c] # {}
    BY <2>0, WalkIs
  <2>2. w[d][c] \subseteq w[d + 1][c]
    BY <1>2
  <2>3. (x = c \/ x \in w[d + 1][c]) /\ (Leads(c) \/ w[d + 1][c] # {})
    BY <2>1, <2>2
  <2> QED BY <2>0, <2>1, <2>3, WalkIs
<1>3. \A d \in Nat : d \in T
  <2> HIDE DEF T
  <2> QED BY <1>1, <1>2, Induction
<1>4. 0 \in U
  OBVIOUS
<1>5. ASSUME NEW e \in Nat, e \in U PROVE e + 1 \in U
  <2> SUFFICES ASSUME NEW d \in Nat, d + (e + 1) <= N, NEW p \in Menus \cup {Root}
               PROVE  w[d][p] \subseteq w[d + (e + 1)][p]
    OBVIOUS
  <2>1. w[d][p] \subseteq w[d + e][p]
    BY <1>5
  <2>2. d + e \in Nat /\ (d + e) + 1 <= N /\ d + (e + 1) = (d + e) + 1
    OBVIOUS
  <2>3. w[d + e][p] \subseteq w[(d + e) + 1][p]
    BY <1>3, <2>2
  <2> QED BY <2>1, <2>2, <2>3
<1>6. \A e \in Nat : e \in U
  <2> HIDE DEF U
  <2> QED BY <1>4, <1>5, Induction
<1> QED BY <1>6

Starts(allowed, w, d, n, j) ==
    /\ \E top \in Lineage[d][n] : menu[top].parent = Root
    /\ \A a \in Lineage[d][n] : Kept(allowed, a)
    /\ Leads(n) \/ w[j][n] # {}

\* All of a way up that is let through is shown, and all that is shown below its first menu.
LEMMA WalkShowsNoLess ==
  ASSUME MenuTypeOK, NEW allowed, NEW w, Walks(allowed, w)
  PROVE  \A d \in Nat : \A j \in Nat : (j + d) + 1 <= Cardinality(Menus) =>
            \A n \in Menus : Starts(allowed, w, d, n, j) =>
                Lineage[d][n] \cup w[j][n] \subseteq w[(j + d) + 1][Root]
<1> PICK N \in Nat : N = Cardinality(Menus)
  BY MenusAssumption, FS_CardinalityType
<1> DEFINE T == {d \in Nat : \A j \in Nat : (j + d) + 1 <= N =>
                    \A n \in Menus : Starts(allowed, w, d, n, j) =>
                        Lineage[d][n] \cup w[j][n] \subseteq w[(j + d) + 1][Root]}
<1>0. ASSUME NEW j \in Nat, j + 1 <= N, NEW n \in Menus, Kept(allowed, n),
             Leads(n) \/ w[j][n] # {}
      PROVE  {n} \cup w[j][n] \subseteq w[j + 1][menu[n].parent]
  <2>1. j + 1 \in 0 .. N /\ j + 1 # 0 /\ (j + 1) - 1 = j
    BY <1>0
  <2>2. menu[n].parent \in Menus \cup {Root}
    BY <1>0 DEF MenuTypeOK, Kept, Catalogue
  <2> QED BY <1>0, <2>1, <2>2, WalkIs
<1>1. 0 \in T
  <2> SUFFICES ASSUME NEW j \in Nat, (j + 0) + 1 <= N, NEW n \in Menus, Starts(allowed, w, 0, n, j)
               PROVE  Lineage[0][n] \cup w[j][n] \subseteq w[(j + 0) + 1][Root]
    OBVIOUS
  <2>1. Lineage[0][n] = {n}
    BY LineageIs
  <2>2. Kept(allowed, n) /\ menu[n].parent = Root /\ (Leads(n) \/ w[j][n] # {})
    BY <2>1 DEF Starts
  <2> QED BY <1>0, <2>1, <2>2
<1>2. ASSUME NEW d \in Nat, d \in T PROVE d + 1 \in T
  <2> SUFFICES ASSUME NEW j \in Nat, (j + (d + 1)) + 1 <= N, NEW n \in Menus,
                      Starts(allowed, w, d + 1, n, j)
               PROVE  Lineage[d + 1][n] \cup w[j][n] \subseteq w[(j + (d + 1)) + 1][Root]
    OBVIOUS
  <2>0. d + 1 \in 0 .. N /\ d + 1 # 0 /\ (d + 1) - 1 = d /\ j + 1 <= N
    OBVIOUS
  <2>1. n \in Lineage[d + 1][n]
    BY <2>0, LineageIs
  <2>2. Kept(allowed, n) /\ (Leads(n) \/ w[j][n] # {}) /\ menu[n] # Root
    BY <2>1 DEF Starts, Kept, Catalogue
  <2>3. {n} \cup w[j][n] \subseteq w[j + 1][menu[n].parent]
    BY <1>0, <2>0, <2>2
  <2>4. CASE menu[n].parent = Root
    <3>1. Lineage[d + 1][n] = {n}
      BY <2>0, <2>4, LineageIs DEF HasParent
    <3>2. w[j + 1][Root] \subseteq w[(j + 1) + (d + 1)][Root]
      BY WalkGrows
    <3>3. (j + 1) + (d + 1) = (j + (d + 1)) + 1
      OBVIOUS
    <3> QED BY <2>3, <2>4, <3>1, <3>2, <3>3
  <2>5. CASE menu[n].parent # Root
    <3> PICK p : p = menu[n].parent
      OBVIOUS
    <3>1. HasParent(n) /\ p \in Menus
      BY <2>2, <2>5, ParentIsThere DEF HasParent
    <3>2. Lineage[d + 1][n] = {n} \cup Lineage[d][p]
      BY <2>0, <3>1, LineageIs
    <3>3. w[j + 1][p] # {}
      BY <2>3
    <3>4. Starts(allowed, w, d, p, j + 1)
      <4>1. PICK top \in Lineage[d + 1][n] : menu[top].parent = Root
        BY DEF Starts
      <4>2. top \in Lineage[d][p]
        BY <2>5, <3>2, <4>1
      <4>3. \A a \in Lineage[d][p] : Kept(allowed, a)
        BY <3>2 DEF Starts
      <4> QED BY <3>3, <4>1, <4>2, <4>3 DEF Starts
    <3>5. ((j + 1) + d) + 1 <= N /\ j + 1 \in Nat /\ ((j + 1) + d) + 1 = (j + (d + 1)) + 1
      OBVIOUS
    <3>6. Lineage[d][p] \cup w[j + 1][p] \subseteq w[((j + 1) + d) + 1][Root]
      BY <1>2, <3>1, <3>4, <3>5
    <3> QED BY <2>3, <3>2, <3>5, <3>6
  <2> QED BY <2>4, <2>5
<1>3. \A d \in Nat : d \in T
  <2> HIDE DEF T
  <2> QED BY <1>1, <1>2, Induction
<1> QED BY <1>3

\* The sidebar is what leads somewhere.
LEMMA SidebarIs ==
  ASSUME MenuTypeOK, NEW allowed
  PROVE  Sidebar(allowed) = {m \in Catalogue : Open(allowed, m) /\ LeadsTo(allowed, m)}
<1> PICK N \in Nat : N = Cardinality(Menus)
  BY MenusAssumption, FS_CardinalityType
<1>1. PICK w : Walks(allowed, w) /\ Walk(allowed) = w[N]
  BY WalkRecurs
<1>2. Sidebar(allowed) = w[N][Root]
  BY <1>1 DEF Sidebar
<1>3. \A x \in w[N][Root] : x \in Catalogue /\ Open(allowed, x) /\ LeadsTo(allowed, x)
  BY <1>1, WalkShowsNoMore
<1>4. ASSUME NEW x \in Catalogue, LeadsTo(allowed, x) PROVE x \in w[N][Root]
  <2>1. PICK n \in Catalogue : Leads(n) /\ Open(allowed, n) /\ x \in AncestorsAndSelf(n)
    BY <1>4 DEF LeadsTo
  <2>2. n \in Menus
    BY DEF Catalogue
  <2>3. N # 0 /\ AncestorsAndSelf(n) = Lineage[N - 1][n]
    BY <2>2, WholeWay
  <2>4. AncestorsAndSelf(n) \subseteq Catalogue
    BY <2>2, AncestorsAre
  <2>5. Starts(allowed, w, N - 1, n, 0)
    BY <2>1, <2>3, <2>4 DEF Starts, Open, Listed, Kept
  <2>6. N - 1 \in Nat /\ (0 + (N - 1)) + 1 = N
    BY <2>3
  <2>7. Lineage[N - 1][n] \subseteq w[N][Root]
    BY <1>1, <2>2, <2>5, <2>6, WalkShowsNoLess
  <2> QED BY <2>1, <2>3, <2>7
<1> QED BY <1>2, <1>3, <1>4

\* The catalogue keeps its shape, and no row's parent is gone.
LEMMA MenuTyped == MenuTypeOK /\ [MenuNext]_menuVars => MenuTypeOK'
<1> SUFFICES ASSUME MenuTypeOK, [MenuNext]_menuVars PROVE MenuTypeOK'
  OBVIOUS
<1>0. /\ menu \in [Menus -> Item \cup {Root}]
      /\ \A m \in Menus : menu[m] # Root => /\ menu[m] \in Item /\ menu[m].parent \in Menus \cup {Root}
                                            /\ menu[m].parent # Root => menu[menu[m].parent] # Root
  BY DEF MenuTypeOK, Catalogue
<1>1. CASE UNCHANGED menuVars
  BY <1>1 DEF menuVars, MenuTypeOK, Catalogue
<1>2. ASSUME NEW m \in Menus, NEW item \in Item, CreateMenu(m, item) \/ PatchMenu(m, item)
      PROVE  MenuTypeOK'
  <2>1. menu' = [menu EXCEPT ![m] = item] /\ item # Root
        /\ (item.parent # Root => item.parent \in Menus /\ menu[item.parent] # Root)
    BY <1>2, RootAssumption DEF CreateMenu, PatchMenu, Catalogue
  <2>2. menu' \in [Menus -> Item \cup {Root}]
    BY <1>0, <2>1
  <2>3. \A n \in Menus : menu'[n] = IF n = m THEN item ELSE menu[n]
    BY <1>0, <2>1
  <2>4. \A n \in Menus : menu'[n] # Root => menu'[n].parent \in Catalogue' \cup {Root}
    BY <1>0, <2>1, <2>3 DEF Catalogue
  <2> QED BY <2>2, <2>4 DEF MenuTypeOK, Catalogue
<1>3. ASSUME NEW m \in Menus, DeleteMenu(m) PROVE MenuTypeOK'
  <2> PICK gone : gone = AncestorsAndSelf(m)
    OBVIOUS
  <2>1. menu' = [n \in Menus |-> IF n \in gone THEN Root
                                 ELSE IF n \in Catalogue /\ menu[n].parent \in gone
                                 THEN [menu[n] EXCEPT !.parent = Root]
                                 ELSE menu[n]]
    BY <1>3 DEF DeleteMenu
  <2>2. ASSUME NEW n \in Menus
        PROVE  /\ menu'[n] \in Item \cup {Root}
               /\ menu'[n] # Root => menu'[n].parent \in Catalogue' \cup {Root}
    <3>1. CASE n \in gone
      BY <2>1, <3>1
    <3>2. CASE n \notin gone /\ n \in Catalogue /\ menu[n].parent \in gone
      <4>1. menu[n] \in Item
        BY <1>0, <3>2 DEF Catalogue
      <4> PICK item : item = [menu[n] EXCEPT !.parent = Root]
        OBVIOUS
      <4>2. item \in Item /\ item.parent = Root
        BY <4>1 DEF Item
      <4> QED BY <2>1, <3>2, <4>2
    <3>3. CASE n \notin gone /\ ~(n \in Catalogue /\ menu[n].parent \in gone)
      <4>1. menu'[n] = menu[n]
        BY <2>1, <3>3
      <4>2. ASSUME menu[n] # Root, menu[n].parent # Root PROVE menu[n].parent \in Catalogue'
        <5> PICK p \in Menus : p = menu[n].parent
          BY <1>0, <4>2
        <5>1. p \notin gone /\ menu[p] # Root /\ menu[p] \in Item
          BY <1>0, <3>3, <4>2 DEF Catalogue
        <5>2. menu'[p] # Root
          <6>1. [menu[p] EXCEPT !.parent = Root] \in Item
            BY <5>1 DEF Item
          <6> QED BY <2>1, <5>1, <6>1, RootAssumption
        <5> QED BY <5>2 DEF Catalogue
      <4> QED BY <1>0, <4>1, <4>2
    <3> QED BY <3>1, <3>2, <3>3
  <2>3. menu' \in [Menus -> Item \cup {Root}]
    <3>1. menu' = [n \in Menus |-> menu'[n]]
      BY <2>1
    <3> QED BY <2>2, <3>1
  <2> QED BY <2>2, <2>3 DEF MenuTypeOK, Catalogue
<1> QED BY <1>1, <1>2, <1>3 DEF MenuNext

\* The sidebar of anyone, whatever administrators have done to the catalogue, shows just
\* the menus that lead him somewhere, and more of them the more he may (_build_tree).
THEOREM MenusAreAlwaysShown == MenuSpec => []MenusAreShown
<1>1. MenuInit => MenuTypeOK
  <2> SUFFICES ASSUME MenuInit PROVE MenuTypeOK
    OBVIOUS
  <2>1. menu \in [Menus -> [parent : {Root}, gate : Gates \cup {Ungated}] \cup {Root}]
    BY DEF MenuInit
  <2>2. [parent : {Root}, gate : Gates \cup {Ungated}] \subseteq Item
    BY DEF Item
  <2>3. \A m \in Menus : menu[m] # Root => menu[m].parent = Root
    BY <2>1
  <2> QED BY <2>1, <2>2, <2>3 DEF MenuTypeOK, Catalogue
<1>2. MenuTypeOK => MenusAreShown
  <2> SUFFICES ASSUME MenuTypeOK PROVE SidebarIsWhatLeads /\ SidebarGrows
    BY DEF MenusAreShown
  <2>1. SidebarIsWhatLeads
    BY SidebarIs DEF SidebarIsWhatLeads, LeadsTo
  <2>2. ASSUME NEW allowed, NEW fewer \in SUBSET allowed PROVE Sidebar(fewer) \subseteq Sidebar(allowed)
    <3>1. \A m : Open(fewer, m) => Open(allowed, m)
      BY DEF Open, Allows
    <3> QED BY <3>1, SidebarIs DEF LeadsTo
  <2> QED BY <2>1, <2>2 DEF SidebarGrows
<1> QED BY <1>1, <1>2, MenuTyped, PTL DEF MenuSpec

=============================================================================
