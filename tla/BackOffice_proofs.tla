------------------------- MODULE BackOffice_proofs --------------------------
(***************************************************************************)
(* What holds of the public lookup (PhoneAccess), of the import of         *)
(* suppliers (SupplierImport), of the master data (MasterData), of the     *)
(* yield figures (YieldFigures) and of lots and plot codes (LotNumbers)    *)
(* for any plots, phones, passwords, clients, limits, suppliers, values,   *)
(* files, plans, quantities and texts.                                     *)
(*                                                                         *)
(* The lookup: that a form is opened without an account only for a holder  *)
(* who proved a number and a password, and that guessing at them is        *)
(* bounded (LookupsAreGuarded). Three invariants, each inductive given     *)
(* those before it. Typed says what every variable holds. Vouched follows  *)
(* a proof from the query to the session and on to the opening of a plot;  *)
(* it needs that a request outlives no change of the enforcement flag, and *)
(* that passwords are only ever added to. Counted bounds the failures      *)
(* counted together with those still to come.                              *)
(*                                                                         *)
(* Lots and plot codes: what an identifier tells (CodesTellApart). Decimal *)
(* digits, which are recursive, tell a number; a text with its length in   *)
(* front tells itself and what follows; so a key tells its texts, and a    *)
(* code, which is split at its last separators, its parts. The invariant   *)
(* says that every row is what its own fields make, and that series are    *)
(* numbered without gaps.                                                  *)
(***************************************************************************)
EXTENDS PhoneAccess, SupplierImport, MasterData, YieldFigures, LotNumbers, TLAPS,
        FiniteSetTheorems, SequenceTheorems, WellFoundedInduction

(* Every outage was an event, so outages are bounded as events are.        *)
Typed == PhoneTypeOK /\ outages <= events

(* A request past its query carries only grants whose password was typed,  *)
(* in a server that asks for passwords.                                    *)
Carried(c) ==
    enforced /\ request[c].at \in {"verify", "answer", "enter"} =>
        \A g \in request[c].found : Proves(g, request[c].typed)

Vouched == OpenedByProof /\ \A c \in Clients : Carried(c)

(* The storage that never failed answers.                                  *)
Counted == (outages = 0 => storageUp) /\ GuessesAreBounded

-----------------------------------------------------------------------------
(* Types.                                                                  *)

\* No lookup is under way at first, and nobody holds a session.
LEMMA InitTyped == PhoneInit => Typed
<1> SUFFICES ASSUME PhoneInit PROVE Typed
  OBVIOUS
<1> USE TablesAtFirstAssumption, PhoneBoundsAssumption
<1>1. Idle \in Request /\ NoSession \in Session
  BY DEF Idle, NoSession, Request, Session
<1>2. request \in [Clients -> Request] /\ session \in [Clients -> Session]
  BY <1>1 DEF PhoneInit
<1>3. perAddress \in [Addresses -> [Phones -> Nat]] /\ perPhone \in [Phones -> Nat]
  BY DEF PhoneInit
<1>4. events \in 0 .. MaxEvents /\ outages \in 0 .. MaxEvents /\ outages <= events
  BY DEF PhoneInit
<1> QED
  BY <1>2, <1>3, <1>4 DEF PhoneInit, PhoneTypeOK, Typed

(* The counters keep their type whichever way they are moved.              *)
LEMMA CountersTyped ==
    ASSUME Typed, NEW a, NEW f, register_failure(a, f) \/ clear_failures(a, f)
    PROVE  perAddress' \in [Addresses -> [Phones -> Nat]] /\ perPhone' \in [Phones -> Nat]
<1>1. perAddress \in [Addresses -> [Phones -> Nat]] /\ perPhone \in [Phones -> Nat]
  BY DEF Typed, PhoneTypeOK
<1>2. CASE register_failure(a, f)
  BY <1>1, <1>2 DEF register_failure
<1>3. CASE clear_failures(a, f)
  BY <1>1, <1>3 DEF clear_failures
<1> QED
  BY <1>2, <1>3

(* What a lookup finds are grants, and they are proved by what was typed.  *)
LEMMA FoundAreProved ==
    ASSUME Typed, NEW f, NEW password,
           NEW g \in lookup_active_access_rows_by_phone_and_digest(f, password)
    PROVE  g \in Grant /\ Proves(g, password)
<1>1. PICK p \in Reachable(f) : /\ g = [plot |-> p, phone |-> f, version |-> Version(p)]
                                /\ Version(p) > 0 /\ passwords[p][Version(p)] = password
  BY DEF lookup_active_access_rows_by_phone_and_digest
<1>2. p \in Plots /\ f \in Phones
  BY DEF Reachable, Typed, PhoneTypeOK
<1>3. Version(p) \in 0 .. MaxVersion
  BY <1>2, PhoneBoundsAssumption DEF Version, Typed, PhoneTypeOK
<1> QED
  BY <1>1, <1>2, <1>3, PhoneBoundsAssumption DEF Grant, Proves

(* The request of one client changes to another of the type.               *)
LEMMA RequestTyped ==
    ASSUME Typed, NEW c \in Clients, NEW r \in Request,
           request' = [request EXCEPT ![c] = r]
    PROVE  request' \in [Clients -> Request]
  BY DEF Typed, PhoneTypeOK

\* Every step keeps the shapes.
LEMMA NextTyped == Typed /\ [PhoneNext]_phoneVars => Typed'
<1> SUFFICES ASSUME Typed, [PhoneNext]_phoneVars PROVE Typed'
  OBVIOUS
<1> USE PhoneBoundsAssumption
<1>t. /\ usable \subseteq Plots
      /\ listed \in [Plots -> SUBSET Phones]
      /\ passwords \in [Plots -> Seq(Passwords)]
      /\ \A p \in Plots : Len(passwords[p]) <= MaxVersion
      /\ perAddress \in [Addresses -> [Phones -> Nat]]
      /\ perPhone \in [Phones -> Nat]
      /\ {enforced, storageUp} \subseteq BOOLEAN
      /\ events \in 0 .. MaxEvents /\ outages \in 0 .. MaxEvents
      /\ request \in [Clients -> Request]
      /\ session \in [Clients -> Session]
      /\ opened \in Opened \cup {Nobody}
      /\ outages <= events
  BY DEF Typed, PhoneTypeOK
<1>i. Idle \in Request /\ NoSession \in Session
  BY DEF Idle, NoSession, Request, Session
<1>e. Event => events' \in 0 .. MaxEvents /\ events' = events + 1
  BY <1>t DEF Event
<1>1. CASE UNCHANGED phoneVars
  BY <1>1, <1>t DEF phoneVars, settings, counters, clients, Typed, PhoneTypeOK
<1>2. CASE OpensNothing /\ opened' = Nobody
  <2> USE <1>2, <1>t, <1>e DEF Typed, PhoneTypeOK, settings, counters, clients
  <2>1. CASE \E p \in Plots : \E phones \in SUBSET Phones : ReplacePhones(p, phones)
    BY <2>1 DEF ReplacePhones
  <2>2. CASE \E p \in Plots, password \in Passwords : SetPassword(p, password)
    <3>1. PICK p \in Plots, password \in Passwords : SetPassword(p, password)
      BY <2>2
    <3> DEFINE longer == Append(passwords[p], password)
    <3>2. longer \in Seq(Passwords) /\ Len(longer) = Len(passwords[p]) + 1
      OBVIOUS
    <3>3. passwords' = [passwords EXCEPT ![p] = longer]
      BY <3>1 DEF SetPassword
    <3>4. Len(longer) <= MaxVersion
      BY <3>1, <3>2 DEF SetPassword, Version
    <3> HIDE DEF longer
    <3>5. passwords' \in [Plots -> Seq(Passwords)] /\ \A q \in Plots : Len(passwords'[q]) <= MaxVersion
      BY <3>2, <3>3, <3>4
    <3> QED
      BY <3>1, <3>5 DEF SetPassword
  <2>3. CASE \E p \in Plots : SetUsable(p)
    BY <2>3 DEF SetUsable
  <2>4. CASE Restart
    <3>1. request' \in [Clients -> Request]
      BY <2>4, <1>i DEF Restart
    <3>2. {enforced', storageUp'} \subseteq BOOLEAN
      BY <2>4 DEF Restart
    <3>3. events' \in 0 .. MaxEvents /\ events' = events + 1
      BY <2>4 DEF Restart
    <3>4. UNCHANGED <<settings, counters, session>>
      BY <2>4 DEF Restart
    <3> QED
      BY <3>1, <3>2, <3>3, <3>4
  <2>5a. CASE StorageFails
    <3>1. events' \in 0 .. MaxEvents /\ events' = events + 1 /\ outages' = outages + 1
      BY <2>5a DEF StorageFails
    <3>2. outages' \in 0 .. MaxEvents /\ outages' <= events'
      BY <3>1
    <3>3. {enforced', storageUp'} \subseteq BOOLEAN
      BY <2>5a DEF StorageFails
    <3>4. UNCHANGED <<settings, clients, perAddress, perPhone>>
      BY <2>5a DEF StorageFails
    <3> QED
      BY <3>1, <3>2, <3>3, <3>4
  <2>5b. CASE StorageReturns
    BY <2>5b DEF StorageReturns
  <2>6. CASE \E a \in Addresses, f \in Phones : AddressWindowEnds(a, f)
    BY <2>6 DEF AddressWindowEnds
  <2>7. CASE \E f \in Phones : PhoneWindowEnds(f)
    BY <2>7 DEF PhoneWindowEnds
  <2>8. ASSUME NEW c \in Clients, NEW f \in Phones, PhoneQuery(c, f)
        PROVE Typed'
    <3>1. {[plot |-> p, phone |-> f, version |-> 0] : p \in Reachable(f)} \subseteq Grant
      BY DEF Reachable, Grant
    <3>2. [Idle EXCEPT !.at = "answer", !.phone = f,
            !.found = {[plot |-> p, phone |-> f, version |-> 0] : p \in Reachable(f)}] \in Request
      BY <3>1 DEF Idle, Request
    <3>3. request' \in [Clients -> Request]
      BY <2>8, <3>2, RequestTyped DEF PhoneQuery
    <3> QED
      BY <2>8, <3>3 DEF PhoneQuery
  <2>9. ASSUME NEW c \in Clients, NEW f \in Phones, NEW password \in Passwords \cup {Nobody},
               Ask(c, f, password)
        PROVE Typed'
    <3>1. [Idle EXCEPT !.at = "query", !.phone = f, !.typed = password] \in Request
      BY DEF Idle, Request
    <3>2. request' \in [Clients -> Request]
      BY <2>9, <3>1, RequestTyped DEF Ask
    <3>3. perAddress' \in [Addresses -> [Phones -> Nat]] /\ perPhone' \in [Phones -> Nat]
      BY <2>9, CountersTyped DEF Ask
    <3> QED
      BY <2>9, <3>2, <3>3 DEF Ask
  <2>10. ASSUME NEW c \in Clients, Query(c)
         PROVE Typed'
    <3> DEFINE found == lookup_active_access_rows_by_phone_and_digest(request[c].phone, request[c].typed)
    <3>1. found \in SUBSET Grant
      BY FoundAreProved
    <3>2. request' = [request EXCEPT ![c] = [request[c] EXCEPT !.at = "verify", !.found = found]]
      BY <2>10 DEF Query
    <3> HIDE DEF found
    <3>3. [request[c] EXCEPT !.at = "verify", !.found = found] \in Request
      BY <3>1 DEF Request
    <3>4. request' \in [Clients -> Request]
      BY <3>2, <3>3, RequestTyped
    <3> QED
      BY <2>10, <3>4 DEF Query
  <2>11. ASSUME NEW c \in Clients, Verify(c)
         PROVE Typed'
    <3>1. [request[c] EXCEPT !.at = "answer"] \in Request
      BY DEF Request
    <3>2. request' \in [Clients -> Request]
      BY <2>11, <3>1, <1>i, RequestTyped DEF Verify
    <3>3. perAddress' \in [Addresses -> [Phones -> Nat]] /\ perPhone' \in [Phones -> Nat]
      BY <2>11, CountersTyped DEF Verify
    <3> QED
      BY <2>11, <3>2, <3>3 DEF Verify
  <2>12. ASSUME NEW c \in Clients, Forget(c)
         PROVE Typed'
    BY <2>12, <1>i DEF Forget
  <2>13. ASSUME NEW c \in Clients, NEW scanned \in Plots \cup {Nobody}, Answer(c, scanned)
         PROVE Typed'
    <3>1. [kind |-> IF enforced THEN "password" ELSE "phone",
           grants |-> request[c].found, typed |-> request[c].typed] \in Session
      BY DEF Request, Session
    <3>2. session' \in [Clients -> Session]
      BY <2>13, <3>1 DEF Answer
    <3>3. request' \in [Clients -> Request]
      BY <2>13, <1>i, RequestTyped DEF Answer
    <3> QED
      BY <2>13, <3>2, <3>3 DEF Answer
  <2>14. ASSUME NEW c \in Clients, NEW p \in Plots, SelectPlot(c, p)
         PROVE Typed'
    <3>1. PICK g \in session[c].grants :
            request' = [request EXCEPT ![c] = [Idle EXCEPT
              !.at = "enter", !.phone = g.phone, !.typed = session[c].typed,
              !.found = {[g EXCEPT !.version = IF enforced THEN Version(p) ELSE 0]}]]
      BY <2>14 DEF SelectPlot, StillGranted, _resolve_password_session
    <3>2. g \in Grant /\ session[c].typed \in Passwords \cup {Nobody}
      BY DEF Session
    <3> DEFINE version == IF enforced THEN Version(p) ELSE 0
    <3>3. version \in 0 .. MaxVersion
      BY DEF Version
    <3> HIDE DEF version
    <3>4. [g EXCEPT !.version = version] \in Grant
      BY <3>2, <3>3 DEF Grant
    <3> DEFINE granted == [g EXCEPT !.version = version]
    <3>5. granted \in Grant /\ g.phone \in Phones
      BY <3>2, <3>4 DEF Grant
    <3> HIDE DEF granted
    <3>6. [Idle EXCEPT !.at = "enter", !.phone = g.phone, !.typed = session[c].typed,
                       !.found = {granted}] \in Request
      BY <3>2, <3>5 DEF Idle, Request
    <3>7. request' \in [Clients -> Request]
      BY <3>1, <3>6, RequestTyped DEF granted, version
    <3> QED
      BY <2>14, <3>7 DEF SelectPlot
  <2> QED
    BY <2>1, <2>2, <2>3, <2>4, <2>5a, <2>5b, <2>6, <2>7, <2>8, <2>9, <2>10, <2>11, <2>12, <2>13, <2>14
    DEF OpensNothing
<1>3. ASSUME NEW c \in Clients, Enter(c)
      PROVE Typed'
  <2>1. request' \in [Clients -> Request]
    BY <1>3, <1>i, RequestTyped DEF Enter
  <2>2. ASSUME NEW g \in request[c].found
        PROVE [grant |-> g, typed |-> request[c].typed, proved |-> enforced] \in Opened
    BY <1>t, <2>2 DEF Request, Opened
  <2>3. opened' \in Opened \cup {Nobody}
    BY <1>3, <2>2 DEF Enter
  <2> QED
    BY <1>3, <1>t, <2>1, <2>3 DEF Enter, Typed, PhoneTypeOK, settings, counters
<1> QED
  BY <1>1, <1>2, <1>3 DEF PhoneNext

-----------------------------------------------------------------------------
(* A proof once given stands: passwords are only ever added.               *)
LEMMA ProofsStand ==
    ASSUME Typed, [PhoneNext]_phoneVars,
           NEW g \in Grant, NEW typed, Proves(g, typed)
    PROVE  Proves(g, typed)'
<1>1. CASE passwords' = passwords
  BY <1>1 DEF Proves, Version
<1>2. CASE passwords' # passwords
  <2>1. PICK p \in Plots, password \in Passwords : SetPassword(p, password)
    BY <1>2 DEF PhoneNext, OpensNothing, phoneVars, settings, counters, clients, ReplacePhones,
       SetUsable, Restart, StorageFails, StorageReturns, AddressWindowEnds, PhoneWindowEnds,
       PhoneQuery, Ask, Query, Verify, Forget, Answer, SelectPlot, Enter
  <2> DEFINE longer == Append(passwords[p], password)
  <2>2. passwords[p] \in Seq(Passwords) /\ passwords \in [Plots -> Seq(Passwords)]
    BY DEF Typed, PhoneTypeOK
  <2>3. /\ Len(longer) = Len(passwords[p]) + 1
        /\ \A i \in 1 .. Len(passwords[p]) : longer[i] = passwords[p][i]
    BY <2>2
  <2>4. passwords' = [passwords EXCEPT ![p] = longer]
    BY <2>1 DEF SetPassword
  <2> HIDE DEF longer
  <2>5. g.plot \in Plots /\ g.version \in Nat
    BY PhoneBoundsAssumption DEF Grant
  <2>6. passwords[g.plot] \in Seq(Passwords)
    BY <2>2, <2>5
  <2>7. PICK n \in Nat : n = Len(passwords[g.plot])
    BY <2>6
  <2>8. PICK m \in Nat : m = Len(passwords[p])
    BY <2>2
  <2>9. g.version \in 1 .. n /\ passwords[g.plot][g.version] = typed
    BY <2>7 DEF Proves, Version
  <2>10. CASE g.plot = p
    <3>1. passwords'[g.plot] = longer /\ n = m
      BY <2>2, <2>4, <2>7, <2>8, <2>10
    <3>2. Len(longer) = m + 1 /\ longer[g.version] = typed
      BY <2>3, <2>8, <2>9, <2>10, <3>1
    <3> QED
      BY <2>9, <3>1, <3>2 DEF Proves, Version
  <2>11. CASE g.plot # p
    <3>1. passwords'[g.plot] = passwords[g.plot]
      BY <2>2, <2>4, <2>5, <2>11
    <3> QED
      BY <2>7, <2>9, <3>1 DEF Proves, Version
  <2> QED
    BY <2>10, <2>11
<1> QED
  BY <1>1, <1>2

\* Nobody holds a session at first.
LEMMA InitVouched == PhoneInit => Vouched
<1> SUFFICES ASSUME PhoneInit PROVE Vouched
  OBVIOUS
<1>1. \A c \in Clients : session[c].kind = "none" /\ request[c].at = "idle"
  BY DEF PhoneInit, Idle, NoSession
<1>2. opened = Nobody
  BY DEF PhoneInit
<1> QED
  BY <1>1, <1>2 DEF Vouched, OpenedByProof, Carried

(* A session is as it was, or forgotten, or it is minted from a request    *)
(* that carried its proof.                                                 *)
LEMMA SessionsStayProved ==
    ASSUME Typed, Vouched, [PhoneNext]_phoneVars, NEW c \in Clients,
           session'[c].kind = "password", NEW g \in session'[c].grants
    PROVE  Proves(g, session[c].typed)'
<1>t. session \in [Clients -> Session] /\ request \in [Clients -> Request] /\ enforced \in BOOLEAN
  BY DEF Typed, PhoneTypeOK
<1>1. CASE session'[c] = session[c]
  <2>1. g \in Grant /\ Proves(g, session[c].typed)
    BY <1>t, <1>1 DEF Session, Vouched, OpenedByProof
  <2>2. PICK typed : typed = session[c].typed
    OBVIOUS
  <2>3. Proves(g, typed)'
    BY <2>1, <2>2, ProofsStand
  <2>4. session'[c].typed = typed
    BY <1>1, <2>2
  <2> QED
    BY <2>3, <2>4 DEF Proves
<1>2. CASE session'[c] # session[c]
  <2>1. PICK d \in Clients : Forget(d) \/ \E scanned \in Plots \cup {Nobody} : Answer(d, scanned)
    BY <1>2 DEF PhoneNext, OpensNothing, phoneVars, settings, counters, clients, ReplacePhones,
       SetPassword, SetUsable, Restart, StorageFails, StorageReturns, AddressWindowEnds,
       PhoneWindowEnds, PhoneQuery, Ask, Query, Verify, SelectPlot, Enter
  <2>2. CASE Forget(d)
    <3>1. session'[c] = NoSession
      BY <1>t, <1>2, <2>2 DEF Forget
    <3> QED
      BY <3>1 DEF NoSession
  <2>3. CASE \E scanned \in Plots \cup {Nobody} : Answer(d, scanned)
    <3>1. /\ request[d].at = "answer" /\ d = c
          /\ session'[c] = [kind |-> IF enforced THEN "password" ELSE "phone",
                            grants |-> request[c].found, typed |-> request[c].typed]
      BY <1>t, <1>2, <2>3 DEF Answer
    <3>2. enforced /\ g \in request[c].found
      BY <1>t, <3>1
    <3>3. g \in Grant /\ Proves(g, request[c].typed)
      BY <1>t, <3>1, <3>2 DEF Vouched, Carried, Request
    <3>4. PICK typed : typed = request[c].typed
      OBVIOUS
    <3>5. Proves(g, typed)'
      BY <3>3, <3>4, ProofsStand
    <3>6. session'[c].typed = typed
      BY <3>1, <3>4
    <3> QED
      BY <3>5, <3>6 DEF Proves
  <2> QED
    BY <2>1, <2>2, <2>3
<1> QED
  BY <1>1, <1>2

(* A request that carries its proof keeps it, or comes by it in a query or *)
(* from a session.                                                         *)
LEMMA RequestsStayProved ==
    ASSUME Typed, Vouched, [PhoneNext]_phoneVars, NEW c \in Clients,
           enforced', request'[c].at \in {"verify", "answer", "enter"},
           NEW g \in request'[c].found
    PROVE  Proves(g, request[c].typed)'
<1>t. session \in [Clients -> Session] /\ request \in [Clients -> Request]
  BY DEF Typed, PhoneTypeOK
<1>d. Idle.at = "idle"
  BY DEF Idle
<1>r. ~Restart
  BY <1>d DEF Restart
<1>1. enforced' = enforced
  BY <1>r DEF PhoneNext, OpensNothing, phoneVars, settings, counters, clients, ReplacePhones,
     SetPassword, SetUsable, StorageFails, StorageReturns, AddressWindowEnds, PhoneWindowEnds,
     PhoneQuery, Ask, Query, Verify, Answer, SelectPlot, Forget, Enter
<1>s. ASSUME NEW typed, g \in Grant, Proves(g, typed), request'[c].typed = typed
      PROVE Proves(g, request[c].typed)'
  <2>1. Proves(g, typed)'
    BY <1>s, ProofsStand
  <2> QED
    BY <1>s, <2>1 DEF Proves
<1>2. CASE request'[c] = request[c]
  <2>1. g \in Grant /\ Proves(g, request[c].typed)
    BY <1>t, <1>1, <1>2 DEF Request, Vouched, Carried
  <2> QED
    BY <1>2, <1>s, <2>1
<1>3. CASE request'[c] # request[c]
  <2>1. \/ Query(c) \/ Verify(c) \/ Enter(c)
        \/ \E f \in Phones : PhoneQuery(c, f)
        \/ \E f \in Phones, password \in Passwords \cup {Nobody} : Ask(c, f, password)
        \/ \E p \in Plots \cup {Nobody} : Answer(c, p)
        \/ \E p \in Plots : SelectPlot(c, p)
    <3>1. \A d \in Clients : \A r : request' = [request EXCEPT ![d] = r] => d = c
      BY <1>t, <1>3
    <3>2. ASSUME NEW d \in Clients, Query(d)
          PROVE d = c
      BY <3>1, <3>2 DEF Query
    <3>3. ASSUME NEW d \in Clients, Verify(d)
          PROVE d = c
      BY <1>3, <3>1, <3>3 DEF Verify
    <3>4. ASSUME NEW d \in Clients, NEW f, NEW password, Ask(d, f, password)
          PROVE d = c
      BY <1>3, <3>1, <3>4 DEF Ask
    <3>5. ASSUME NEW d \in Clients, NEW p, SelectPlot(d, p)
          PROVE d = c
      BY <3>1, <3>5 DEF SelectPlot
    <3>6. ASSUME NEW d \in Clients, NEW f, PhoneQuery(d, f)
          PROVE d = c
      BY <3>1, <3>6 DEF PhoneQuery
    <3>7. ASSUME NEW d \in Clients, NEW p, Answer(d, p)
          PROVE d = c
      BY <3>1, <3>7 DEF Answer
    <3>8. ASSUME NEW d \in Clients, Enter(d)
          PROVE d = c
      BY <3>1, <3>8 DEF Enter
    <3> QED
      BY <1>3, <1>r, <3>2, <3>3, <3>4, <3>5, <3>6, <3>7, <3>8
      DEF PhoneNext, OpensNothing, phoneVars, settings, counters, clients, ReplacePhones,
         SetPassword, SetUsable, StorageFails, StorageReturns, AddressWindowEnds, PhoneWindowEnds,
         Forget
  <2>2. CASE Query(c)
    <3>1. /\ request'[c].typed = request[c].typed
          /\ g \in lookup_active_access_rows_by_phone_and_digest(request[c].phone, request[c].typed)
      BY <1>t, <2>2 DEF Query, Request
    <3>2. g \in Grant /\ Proves(g, request[c].typed)
      BY <3>1, FoundAreProved
    <3> QED
      BY <1>s, <3>1, <3>2
  <2>3. CASE Verify(c)
    <3>1. /\ request[c].at = "verify"
          /\ request'[c].typed = request[c].typed /\ request'[c].found = request[c].found
      BY <1>t, <1>d, <2>3 DEF Verify, Request
    <3>2. g \in Grant /\ Proves(g, request[c].typed)
      BY <1>t, <1>1, <3>1 DEF Request, Vouched, Carried
    <3> QED
      BY <1>s, <3>1, <3>2
  <2>4. CASE \E p \in Plots : SelectPlot(c, p)
    <3>1. PICK p \in Plots, h \in _resolve_password_session(c) :
            /\ h.plot = p
            /\ request' = [request EXCEPT ![c] = [Idle EXCEPT
                 !.at = "enter", !.phone = h.phone, !.typed = session[c].typed,
                 !.found = {[h EXCEPT !.version = Version(p)]}]]
      BY <1>1, <2>4 DEF SelectPlot, StillGranted
    <3>2. /\ h \in Grant /\ h.version = Version(p)
          /\ Proves(h, session[c].typed)
      BY <1>t, <3>1 DEF _resolve_password_session, Session, Vouched, OpenedByProof
    <3>3. [h EXCEPT !.version = Version(p)] = h
      BY <3>2 DEF Grant
    <3>4. request'[c].found = {h} /\ request'[c].typed = session[c].typed
      BY <1>t, <3>1, <3>3 DEF Idle
    <3> QED
      BY <1>s, <3>2, <3>4
  <2>5. CASE Enter(c) \/ \E p \in Plots \cup {Nobody} : Answer(c, p)
    BY <1>t, <1>d, <2>5 DEF Enter, Answer
  <2>6. CASE \E f \in Phones, password \in Passwords \cup {Nobody} : Ask(c, f, password)
    BY <1>t, <1>3, <2>6 DEF Ask, Idle
  <2>7. CASE \E f \in Phones : PhoneQuery(c, f)
    BY <1>1, <2>7 DEF PhoneQuery
  <2> QED
    BY <2>1, <2>2, <2>3, <2>4, <2>5, <2>6, <2>7
<1> QED
  BY <1>2, <1>3

\* Every step leaves each session and each opened form vouched for.
LEMMA NextVouched == Typed /\ Vouched /\ [PhoneNext]_phoneVars => Vouched'
<1> SUFFICES ASSUME Typed, Vouched, [PhoneNext]_phoneVars PROVE Vouched'
  OBVIOUS
<1>1. \A c \in Clients : session'[c].kind = "password" =>
        \A g \in session'[c].grants : Proves(g, session[c].typed)'
  BY SessionsStayProved
<1>2. \A c \in Clients : Carried(c)'
  BY RequestsStayProved DEF Carried
<1>3. ASSUME opened' # Nobody, opened'.proved
      PROVE Proves(opened.grant, opened.typed)'
  <2>1. CASE opened' = opened /\ passwords' = passwords
    BY <1>3, <2>1 DEF Vouched, OpenedByProof, Proves, Version
  <2>2. CASE \E c \in Clients : Enter(c)
    <3>1. PICK c \in Clients : Enter(c)
      BY <2>2
    <3>2. PICK g \in request[c].found :
            opened' = [grant |-> g, typed |-> request[c].typed, proved |-> enforced]
      BY <1>3, <3>1 DEF Enter
    <3>3. request[c].at = "enter" /\ enforced /\ passwords' = passwords
      BY <1>3, <3>1, <3>2 DEF Enter, settings
    <3>4. Proves(g, request[c].typed)
      BY <3>3 DEF Vouched, Carried
    <3> QED
      BY <3>2, <3>3, <3>4 DEF Proves, Version
  <2> QED
    BY <1>3, <2>1, <2>2 DEF PhoneNext, phoneVars, settings
<1> QED
  BY <1>1, <1>2, <1>3 DEF Vouched, OpenedByProof

-----------------------------------------------------------------------------
(* Counting.  failed is a counter, waiting the requests that may yet fail  *)
(* on it and group those that could: what a step does to the three.        *)

\* Guesses that are over, counted or not, leave room for no more than those that wait.
LEMMA FewerWait ==
    ASSUME NEW group \in SUBSET Clients, NEW waiting \in SUBSET group,
           NEW still \in SUBSET waiting, NEW failed \in Nat, NEW left \in 0 .. failed,
           NEW limit \in Nat, failed + Cardinality(waiting) < limit + Cardinality(group)
    PROVE  left + Cardinality(still) < limit + Cardinality(group)
<1>1. IsFiniteSet(group) /\ IsFiniteSet(waiting)
  BY ClientsAssumption, FS_Subset
<1>2. Cardinality(still) <= Cardinality(waiting)
  BY <1>1, FS_Subset
<1>3. /\ Cardinality(still) \in Nat /\ Cardinality(waiting) \in Nat
      /\ Cardinality(group) \in Nat
  BY <1>1, FS_Subset, FS_CardinalityType
<1> QED
  BY <1>2, <1>3

(* Below the limit, one more may wait.                                     *)
LEMMA OneMoreWaits ==
    ASSUME NEW group \in SUBSET Clients, NEW waiting \in SUBSET group,
           NEW limit \in Nat, NEW failed \in Nat, failed < limit
    PROVE  failed + Cardinality(waiting) < limit + Cardinality(group)
<1>1. IsFiniteSet(group)
  BY ClientsAssumption, FS_Subset
<1>2. Cardinality(waiting) <= Cardinality(group)
  BY <1>1, FS_Subset
<1>3. Cardinality(waiting) \in Nat /\ Cardinality(group) \in Nat
  BY <1>1, FS_Subset, FS_CardinalityType
<1> QED
  BY <1>2, <1>3

(* Below the limit, one that does not wait may fail.                       *)
LEMMA OneFailsAtOnce ==
    ASSUME NEW group \in SUBSET Clients, NEW waiting \in SUBSET group,
           NEW c \in group, c \notin waiting,
           NEW limit \in Nat, NEW failed \in Nat, failed < limit
    PROVE  failed + 1 + Cardinality(waiting) < limit + Cardinality(group)
<1>1. IsFiniteSet(group)
  BY ClientsAssumption, FS_Subset
<1>2. IsFiniteSet(group \ {c}) /\ Cardinality(group \ {c}) = Cardinality(group) - 1
  BY <1>1, FS_RemoveElement
<1>3. waiting \in SUBSET (group \ {c})
  OBVIOUS
<1>4. Cardinality(waiting) <= Cardinality(group \ {c})
  BY <1>2, <1>3, FS_Subset
<1>5. Cardinality(waiting) \in Nat /\ Cardinality(group) \in Nat
  BY <1>1, FS_Subset, FS_CardinalityType
<1> QED
  BY <1>2, <1>4, <1>5

(* The failure of one that waited was counted already.                     *)
LEMMA OneFailsLate ==
    ASSUME NEW group \in SUBSET Clients, NEW waiting \in SUBSET group, NEW c \in waiting,
           NEW limit \in Nat, NEW failed \in Nat,
           failed + Cardinality(waiting) < limit + Cardinality(group)
    PROVE  failed + 1 + Cardinality(waiting \ {c}) < limit + Cardinality(group)
<1>1. IsFiniteSet(group) /\ IsFiniteSet(waiting)
  BY ClientsAssumption, FS_Subset
<1>2. Cardinality(waiting \ {c}) = Cardinality(waiting) - 1
  BY <1>1, FS_RemoveElement
<1>3. Cardinality(waiting) \in Nat /\ Cardinality(group) \in Nat
  BY <1>1, FS_CardinalityType
<1> QED
  BY <1>2, <1>3

(* The requests that may yet fail for a phone, whatever their address.     *)
Pending(f) ==
    {c \in Clients : request[c].phone = f /\ request[c].at \in {"query", "verify"}}

\* The guesses at a number are those made from all the addresses together.
LEMMA PendingAnywhere ==
    ASSUME NEW f
    PROVE  UNION {Guessing(a, f) : a \in Addresses} = Pending(f)
  BY AddressAssumption DEF Guessing, Pending

(* The two bounds, of an address and of all.                               *)
AddressBound(a, f) ==
    perAddress[a][f] + Cardinality(Guessing(a, f)) < Limit + Cardinality(At(a))
PhoneBound(f) ==
    perPhone[f] + Cardinality(Pending(f)) < GlobalLimit + Cardinality(Clients)

\* The bounds of the counters, taken address by address and number by number.
LEMMA BoundsTogether ==
    GuessesAreBounded <=>
        (outages = 0 => /\ \A a \in Addresses, f \in Phones : At(a) # {} => AddressBound(a, f)
                        /\ \A f \in Phones : PhoneBound(f))
  BY PendingAnywhere DEF GuessesAreBounded, AddressBound, PhoneBound

\* The same of the next state.
LEMMA BoundsNext ==
    (outages' = 0 => /\ \A a \in Addresses, f \in Phones : At(a) # {} => AddressBound(a, f)'
                     /\ \A f \in Phones : PhoneBound(f)')
    => GuessesAreBounded'
<1>1. \A f : (UNION {Guessing(a, f) : a \in Addresses})' = Pending(f)'
  BY AddressAssumption DEF Guessing, Pending
<1> QED
  BY <1>1 DEF GuessesAreBounded, AddressBound, PhoneBound, At

\* Only clients guess, each from its own address.
LEMMA GuessersTyped ==
    ASSUME NEW a, NEW f
    PROVE  /\ At(a) \in SUBSET Clients
           /\ Guessing(a, f) \in SUBSET At(a)
           /\ Pending(f) \in SUBSET Clients
  BY DEF At, Guessing, Pending

(* A step in which no counter grows and no request joins those that wait   *)
(* keeps both bounds.                                                      *)
LEMMA QuietSteps ==
    ASSUME Typed, Counted, outages' = outages, storageUp => storageUp',
           \A a \in Addresses, f \in Phones : perAddress'[a][f] \in 0 .. perAddress[a][f],
           \A f \in Phones : perPhone'[f] \in 0 .. perPhone[f],
           \A c \in Clients : request'[c].at \in {"query", "verify"} =>
                /\ request[c].at \in {"query", "verify"}
                /\ request'[c].phone = request[c].phone
    PROVE  Counted'
<1>l. Limit \in Nat /\ GlobalLimit \in Nat
  BY LimitAssumption
<1>t. /\ perAddress \in [Addresses -> [Phones -> Nat]] /\ perPhone \in [Phones -> Nat]
  BY DEF Typed, PhoneTypeOK
<1>1. ASSUME NEW a \in Addresses, NEW f \in Phones, At(a) # {}, outages = 0
      PROVE AddressBound(a, f)'
  <2>1. AddressBound(a, f)
    BY <1>1, BoundsTogether DEF Counted
  <2>2. Guessing(a, f)' \in SUBSET Guessing(a, f)
    BY DEF Guessing
  <2>3. perAddress[a][f] \in Nat
    BY <1>t
  <2>4. perAddress'[a][f] + Cardinality(Guessing(a, f)') < Limit + Cardinality(At(a))
    BY <1>l, <2>1, <2>2, <2>3, GuessersTyped, FewerWait DEF AddressBound
  <2> QED
    BY <2>4 DEF AddressBound, At
<1>2. ASSUME NEW f \in Phones, outages = 0
      PROVE PhoneBound(f)'
  <2>1. PhoneBound(f)
    BY <1>2, BoundsTogether DEF Counted
  <2>2. Pending(f)' \in SUBSET Pending(f)
    BY DEF Pending
  <2>3. perPhone[f] \in Nat
    BY <1>t
  <2>4. perPhone'[f] + Cardinality(Pending(f)') < GlobalLimit + Cardinality(Clients)
    BY <1>l, <2>1, <2>2, <2>3, GuessersTyped, FewerWait DEF PhoneBound
  <2> QED
    BY <2>4 DEF PhoneBound
<1>3. GuessesAreBounded'
  BY <1>1, <1>2, BoundsNext
<1> QED
  BY <1>3 DEF Counted

\* Nobody has failed yet, and nobody is guessing.
LEMMA InitCounted == PhoneInit => Counted
<1> SUFFICES ASSUME PhoneInit PROVE Counted
  OBVIOUS
<1>l. Limit \in Nat \ {0} /\ GlobalLimit \in Nat \ {0}
  BY LimitAssumption
<1>1. ASSUME NEW a \in Addresses, NEW f \in Phones
      PROVE AddressBound(a, f)
  <2>1. perAddress[a][f] = 0
    BY DEF PhoneInit
  <2>2. perAddress[a][f] + Cardinality(Guessing(a, f)) < Limit + Cardinality(At(a))
    BY <1>l, <2>1, GuessersTyped, OneMoreWaits
  <2> QED
    BY <2>2 DEF AddressBound
<1>2. ASSUME NEW f \in Phones
      PROVE PhoneBound(f)
  <2>1. perPhone[f] = 0
    BY DEF PhoneInit
  <2>2. perPhone[f] + Cardinality(Pending(f)) < GlobalLimit + Cardinality(Clients)
    BY <1>l, <2>1, GuessersTyped, OneMoreWaits
  <2> QED
    BY <2>2 DEF PhoneBound
<1>3. storageUp
  BY DEF PhoneInit
<1> QED
  BY <1>1, <1>2, <1>3, BoundsTogether DEF Counted

(* A lookup asked for: the test of the counters is what keeps the bounds,  *)
(* whether it fails at once or goes on to wait.                            *)
LEMMA AskCounted ==
    ASSUME Typed, Counted, NEW c \in Clients, NEW f \in Phones,
           NEW password \in Passwords \cup {Nobody}, Ask(c, f, password)
    PROVE  Counted'
<1>l. Limit \in Nat /\ GlobalLimit \in Nat
  BY LimitAssumption
<1>t. /\ perAddress \in [Addresses -> [Phones -> Nat]] /\ perPhone \in [Phones -> Nat]
      /\ request \in [Clients -> Request]
  BY DEF Typed, PhoneTypeOK
<1>u. UNCHANGED <<storageUp, outages>> /\ request[c].at = "idle"
  BY DEF Ask
<1>a. PICK b \in Addresses : b = AddressOf[c]
  BY AddressAssumption
<1>o. outages = 0 => perAddress[b][f] < Limit /\ perPhone[f] < GlobalLimit
  <2>1. perAddress[b][f] \in Nat /\ perPhone[f] \in Nat
    BY <1>t
  <2> QED
    BY <1>l, <1>a, <2>1 DEF Ask, is_locked_out, Counted
<1>m. c \in At(b) /\ c \notin Guessing(b, f) /\ c \notin Pending(f)
  BY <1>a, <1>u DEF At, Guessing, Pending
<1>1. CASE password = Nobody
  <2>1. request' = request
    BY <1>1 DEF Ask
  <2>2. ASSUME outages = 0
        PROVE /\ perAddress' = [perAddress EXCEPT ![b][f] = @ + 1]
              /\ perPhone' = [perPhone EXCEPT ![f] = @ + 1]
    BY <1>1, <1>a, <2>2 DEF Ask, register_failure, Counted
  <2>3. ASSUME NEW a \in Addresses, NEW g \in Phones, At(a) # {}, outages = 0
        PROVE AddressBound(a, g)'
    <3>1. Guessing(a, g)' = Guessing(a, g) /\ At(a)' = At(a)
      BY <2>1 DEF Guessing, At
    <3>2. CASE a = b /\ g = f
      <4>1. perAddress'[a][g] = perAddress[a][g] + 1 /\ perAddress[a][g] \in Nat
        BY <1>t, <2>2, <2>3, <3>2
      <4>2. perAddress[a][g] + 1 + Cardinality(Guessing(a, g)) < Limit + Cardinality(At(a))
        BY <1>l, <1>m, <1>o, <2>3, <3>2, <4>1, GuessersTyped, OneFailsAtOnce
      <4> QED
        BY <3>1, <4>1, <4>2 DEF AddressBound
    <3>3. CASE ~(a = b /\ g = f)
      <4>1. perAddress'[a][g] = perAddress[a][g]
        BY <1>t, <2>2, <2>3, <3>3
      <4>2. AddressBound(a, g)
        BY <2>3, BoundsTogether DEF Counted
      <4> QED
        BY <3>1, <4>1, <4>2 DEF AddressBound
    <3> QED
      BY <3>2, <3>3
  <2>4. ASSUME NEW g \in Phones, outages = 0
        PROVE PhoneBound(g)'
    <3>1. Pending(g)' = Pending(g)
      BY <2>1 DEF Pending
    <3>2. CASE g = f
      <4>1. perPhone'[g] = perPhone[g] + 1 /\ perPhone[g] \in Nat
        BY <1>t, <2>2, <2>4, <3>2
      <4>2. perPhone[g] + 1 + Cardinality(Pending(g)) < GlobalLimit + Cardinality(Clients)
        BY <1>l, <1>m, <1>o, <2>4, <3>2, <4>1, GuessersTyped, OneFailsAtOnce
      <4> QED
        BY <3>1, <4>1, <4>2 DEF PhoneBound
    <3>3. CASE g # f
      <4>1. perPhone'[g] = perPhone[g]
        BY <1>t, <2>2, <2>4, <3>3
      <4>2. PhoneBound(g)
        BY <2>4, BoundsTogether DEF Counted
      <4> QED
        BY <3>1, <4>1, <4>2 DEF PhoneBound
    <3> QED
      BY <3>2, <3>3
  <2> QED
    BY <1>u, <2>3, <2>4, BoundsNext DEF Counted
<1>2. CASE password # Nobody
  <2>1. /\ request' = [request EXCEPT ![c] = [Idle EXCEPT
                 !.at = "query", !.phone = f, !.typed = password]]
        /\ UNCHANGED <<perAddress, perPhone>>
    BY <1>2 DEF Ask
  <2>2. \A d \in Clients \ {c} : request'[d] = request[d]
    BY <1>t, <2>1
  <2>3. request'[c].phone = f
    BY <1>t, <2>1 DEF Idle
  <2>4. ASSUME NEW a \in Addresses, NEW g \in Phones, At(a) # {}, outages = 0
        PROVE AddressBound(a, g)'
    <3>1. perAddress[a][g] \in Nat /\ At(a)' = At(a) /\ Guessing(a, g)' \in SUBSET At(a)
      BY <1>t DEF At, Guessing
    <3>2. CASE a = b /\ g = f
      <4>1. perAddress[a][g] + Cardinality(Guessing(a, g)') < Limit + Cardinality(At(a))
        BY <1>l, <1>o, <2>4, <3>1, <3>2, GuessersTyped, OneMoreWaits
      <4> QED
        BY <2>1, <3>1, <4>1 DEF AddressBound
    <3>3. CASE ~(a = b /\ g = f)
      <4>1. Guessing(a, g)' = Guessing(a, g)
        BY <1>a, <1>u, <2>2, <2>3, <3>3 DEF Guessing
      <4>2. AddressBound(a, g)
        BY <2>4, BoundsTogether DEF Counted
      <4> QED
        BY <2>1, <3>1, <4>1, <4>2 DEF AddressBound
    <3> QED
      BY <3>2, <3>3
  <2>5. ASSUME NEW g \in Phones, outages = 0
        PROVE PhoneBound(g)'
    <3>1. perPhone[g] \in Nat /\ Pending(g)' \in SUBSET Clients
      BY <1>t DEF Pending
    <3>2. CASE g = f
      <4>1. perPhone[g] + Cardinality(Pending(g)') < GlobalLimit + Cardinality(Clients)
        BY <1>l, <1>o, <2>5, <3>1, <3>2, OneMoreWaits
      <4> QED
        BY <2>1, <4>1 DEF PhoneBound
    <3>3. CASE g # f
      <4>1. Pending(g)' = Pending(g)
        BY <1>u, <2>2, <2>3, <3>3 DEF Pending
      <4>2. PhoneBound(g)
        BY <2>5, BoundsTogether DEF Counted
      <4> QED
        BY <2>1, <4>1, <4>2 DEF PhoneBound
    <3> QED
      BY <3>2, <3>3
  <2> QED
    BY <1>u, <2>4, <2>5, BoundsNext DEF Counted
<1> QED
  BY <1>1, <1>2

(* A lookup that failed is counted and waits no more; one that found a     *)
(* plot clears its counters.                                               *)
LEMMA VerifyCounted ==
    ASSUME Typed, Counted, NEW c \in Clients, Verify(c)
    PROVE  Counted'
<1>l. Limit \in Nat /\ GlobalLimit \in Nat
  BY LimitAssumption
<1>t. /\ perAddress \in [Addresses -> [Phones -> Nat]] /\ perPhone \in [Phones -> Nat]
      /\ request \in [Clients -> Request]
  BY DEF Typed, PhoneTypeOK
<1>d. Idle.at = "idle"
  BY DEF Idle
<1>u. UNCHANGED <<storageUp, outages>> /\ request[c].at = "verify"
  BY DEF Verify
<1>a. PICK b \in Addresses : b = AddressOf[c]
  BY AddressAssumption
<1>p. PICK f : f = request[c].phone
  OBVIOUS
<1>1. CASE request[c].found = {}
  <2>1. request' = [request EXCEPT ![c] = Idle]
    BY <1>1 DEF Verify
  <2>2. \A d \in Clients \ {c} : request'[d] = request[d]
    BY <1>t, <2>1
  <2>3. request'[c].at = "idle"
    BY <1>t, <1>d, <2>1
  <2>4. ASSUME outages = 0
        PROVE /\ perAddress' = [perAddress EXCEPT ![b][f] = @ + 1]
              /\ perPhone' = [perPhone EXCEPT ![f] = @ + 1]
    BY <1>1, <1>a, <1>p, <2>4 DEF Verify, register_failure, Counted
  <2>5. ASSUME NEW a \in Addresses, NEW g \in Phones, At(a) # {}, outages = 0
        PROVE AddressBound(a, g)'
    <3>1. AddressBound(a, g) /\ At(a)' = At(a)
      BY <2>5, BoundsTogether DEF Counted, At
    <3>2. CASE a = b /\ g = f
      <4>1. perAddress'[a][g] = perAddress[a][g] + 1 /\ perAddress[a][g] \in Nat
        BY <1>t, <2>4, <2>5, <3>2
      <4>2. c \in Guessing(a, g)
        BY <1>a, <1>p, <1>u, <3>2 DEF Guessing
      <4>3. Guessing(a, g)' = Guessing(a, g) \ {c}
        BY <2>2, <2>3 DEF Guessing
      <4>4. perAddress[a][g] + 1 + Cardinality(Guessing(a, g) \ {c}) < Limit + Cardinality(At(a))
        BY <1>l, <3>1, <4>1, <4>2, GuessersTyped, OneFailsLate DEF AddressBound
      <4> QED
        BY <3>1, <4>1, <4>3, <4>4 DEF AddressBound
    <3>3. CASE ~(a = b /\ g = f)
      <4>1. perAddress'[a][g] = perAddress[a][g]
        BY <1>t, <2>4, <2>5, <3>3
      <4>2. Guessing(a, g)' = Guessing(a, g)
        BY <1>a, <1>p, <2>2, <2>3, <3>3 DEF Guessing
      <4> QED
        BY <3>1, <4>1, <4>2 DEF AddressBound
    <3> QED
      BY <3>2, <3>3
  <2>6. ASSUME NEW g \in Phones, outages = 0
        PROVE PhoneBound(g)'
    <3>1. PhoneBound(g)
      BY <2>6, BoundsTogether DEF Counted
    <3>2. CASE g = f
      <4>1. perPhone'[g] = perPhone[g] + 1 /\ perPhone[g] \in Nat
        BY <1>t, <2>4, <2>6, <3>2
      <4>2. c \in Pending(g)
        BY <1>p, <1>u, <3>2 DEF Pending
      <4>3. Pending(g)' = Pending(g) \ {c}
        BY <2>2, <2>3 DEF Pending
      <4>4. perPhone[g] + 1 + Cardinality(Pending(g) \ {c}) < GlobalLimit + Cardinality(Clients)
        BY <1>l, <3>1, <4>1, <4>2, GuessersTyped, OneFailsLate DEF PhoneBound
      <4> QED
        BY <4>1, <4>3, <4>4 DEF PhoneBound
    <3>3. CASE g # f
      <4>1. perPhone'[g] = perPhone[g]
        BY <1>t, <2>4, <2>6, <3>3
      <4>2. Pending(g)' = Pending(g)
        BY <1>p, <2>2, <2>3, <3>3 DEF Pending
      <4> QED
        BY <3>1, <4>1, <4>2 DEF PhoneBound
    <3> QED
      BY <3>2, <3>3
  <2> QED
    BY <1>u, <2>5, <2>6, BoundsNext DEF Counted
<1>2. CASE request[c].found # {}
  <2>1. /\ clear_failures(b, f)
        /\ request' = [request EXCEPT ![c].at = "answer"]
    BY <1>2, <1>a, <1>p DEF Verify
  <2>2. /\ \A a \in Addresses, g \in Phones : perAddress'[a][g] \in 0 .. perAddress[a][g]
        /\ \A g \in Phones : perPhone'[g] \in 0 .. perPhone[g]
    BY <1>t, <2>1 DEF clear_failures
  <2>3. \A d \in Clients : request'[d].at \in {"query", "verify"} =>
          request'[d] = request[d]
    BY <1>t, <2>1 DEF Request
  <2> QED
    BY <1>u, <2>2, <2>3, QuietSteps
<1> QED
  BY <1>1, <1>2

\* Every step keeps the failures within what the limits and those still waiting allow.
LEMMA NextCounted == Typed /\ Counted /\ [PhoneNext]_phoneVars => Counted'
<1> SUFFICES ASSUME Typed, Counted, [PhoneNext]_phoneVars PROVE Counted'
  OBVIOUS
<1>t. /\ perAddress \in [Addresses -> [Phones -> Nat]] /\ perPhone \in [Phones -> Nat]
      /\ request \in [Clients -> Request] /\ outages \in Nat
  BY PhoneBoundsAssumption DEF Typed, PhoneTypeOK
<1>d. Idle.at = "idle"
  BY DEF Idle
<1>1. CASE StorageFails
  BY <1>1, <1>t DEF StorageFails, Counted, GuessesAreBounded
<1>2. CASE \E c \in Clients, f \in Phones, password \in Passwords \cup {Nobody} : Ask(c, f, password)
  BY <1>2, AskCounted
<1>3. CASE \E c \in Clients : Verify(c)
  BY <1>3, VerifyCounted
<1>4. CASE /\ ~StorageFails
           /\ ~\E c \in Clients, f \in Phones, password \in Passwords \cup {Nobody} : Ask(c, f, password)
           /\ ~\E c \in Clients : Verify(c)
  <2>1. outages' = outages /\ (storageUp => storageUp')
    <3>1. CASE StorageReturns
      BY <3>1 DEF StorageReturns
    <3>2. CASE UNCHANGED <<storageUp, outages>>
      BY <3>2
    <3> QED
      BY <1>4, <3>1, <3>2 DEF PhoneNext, OpensNothing, phoneVars, settings, counters, clients,
         ReplacePhones, SetPassword, SetUsable, Restart, AddressWindowEnds, PhoneWindowEnds,
         PhoneQuery, Query, Answer, SelectPlot, Forget, Enter
  <2>2. /\ \A a \in Addresses, f \in Phones : perAddress'[a][f] \in 0 .. perAddress[a][f]
        /\ \A f \in Phones : perPhone'[f] \in 0 .. perPhone[f]
    <3>1. CASE \E a \in Addresses, f \in Phones : AddressWindowEnds(a, f)
      BY <1>t, <3>1 DEF AddressWindowEnds
    <3>2. CASE \E f \in Phones : PhoneWindowEnds(f)
      BY <1>t, <3>2 DEF PhoneWindowEnds
    <3>3. CASE perAddress' = perAddress /\ perPhone' = perPhone
      BY <1>t, <3>3
    <3> QED
      BY <1>4, <3>1, <3>2, <3>3 DEF PhoneNext, OpensNothing, phoneVars, settings, counters, clients,
         ReplacePhones, SetPassword, SetUsable, Restart, StorageReturns,
         PhoneQuery, Query, Answer, SelectPlot, Forget, Enter
  <2>3. \A d \in Clients : request'[d].at \in {"query", "verify"} =>
          /\ request[d].at \in {"query", "verify"}
          /\ request'[d].phone = request[d].phone
    <3>1. CASE request' = request
      BY <3>1
    <3>2. CASE Restart
      BY <1>d, <3>2 DEF Restart
    <3>3. CASE \E c \in Clients : Query(c)
      BY <1>t, <3>3 DEF Query, Request
    <3>4. CASE \E c \in Clients : Enter(c) \/ \E p \in Plots \cup {Nobody} : Answer(c, p)
      BY <1>t, <1>d, <3>4 DEF Enter, Answer
    <3>5. CASE \E c \in Clients, f \in Phones : PhoneQuery(c, f)
      BY <1>t, <3>5 DEF PhoneQuery, Idle
    <3>6. CASE \E c \in Clients, p \in Plots : SelectPlot(c, p)
      <4>1. PICK c \in Clients : \E p \in Plots : SelectPlot(c, p)
        BY <3>6
      <4>2. request'[c].at = "enter"
        BY <1>t, <4>1 DEF SelectPlot, Idle
      <4>3. \A d \in Clients \ {c} : request'[d] = request[d]
        BY <1>t, <4>1 DEF SelectPlot
      <4> QED
        BY <4>2, <4>3
    <3> QED
      BY <1>4, <3>1, <3>2, <3>3, <3>4, <3>5, <3>6 DEF PhoneNext, OpensNothing, phoneVars, settings,
         counters, clients, ReplacePhones, SetPassword, SetUsable, StorageReturns,
         AddressWindowEnds, PhoneWindowEnds, Forget
  <2> QED
    BY <2>1, <2>2, <2>3, QuietSteps
<1> QED
  BY <1>1, <1>2, <1>3, <1>4

-----------------------------------------------------------------------------
(* A form is opened only by who proved number and password, whatever       *)
(* changes between the query and the opening, and the guesses made at once *)
(* overshoot the limits by no more than their number: the lookup, the two  *)
(* counters and _resolve_password_session together.                        *)
THEOREM LookupsGuarded == PhoneSpec => []LookupsAreGuarded
<1>1. PhoneInit => Typed /\ Vouched /\ Counted
  BY InitTyped, InitVouched, InitCounted
<1>2. Typed /\ Vouched /\ Counted /\ [PhoneNext]_phoneVars => (Typed /\ Vouched /\ Counted)'
  BY NextTyped, NextVouched, NextCounted
<1>3. Typed /\ Vouched /\ Counted => LookupsAreGuarded
  BY DEF Typed, Vouched, Counted, LookupsAreGuarded
<1> QED
  BY <1>1, <1>2, <1>3, PTL DEF PhoneSpec

-----------------------------------------------------------------------------
(***************************************************************************)
(* Suppliers: that a file lands as it was shown and revives nobody         *)
(* (SuppliersStand).                                                       *)
(*                                                                         *)
(* What a request has read stands behind it: suppliers do not go, an       *)
(* import writes what it was shown (SheetHolds), and a form that is open   *)
(* knows whether the row has been written since (FormHolds).               *)
(***************************************************************************)

Cells == SupplierRow \cup {Absent}
Table == [Codes -> Cells]

\* What a request has read stands behind it: suppliers do not go, an import writes what it
\* was shown, and until somebody meddles the table is as it read it.
SheetHolds(i) ==
    sheet[i].at = "writing" =>
        /\ sheet[i].read = sheet[i].shown
        /\ \A c \in Wants(i) : sheet[i].read[c] # Absent => supplier[c] # Absent
        /\ ~sheet[i].meddled => \A c \in Wants(i) : supplier[c] = sheet[i].read[c]

FormHolds(d) ==
    /\ form[d].at # "idle" => form[d].code \in Codes
    /\ form[d].at \in {"update", "deactivate"} =>
           form[d].read \in SupplierRow /\ supplier[form[d].code] # Absent

SupplierInv ==
    /\ SupplierTypeOK
    /\ \A i \in Sheets : SheetHolds(i)
    /\ \A d \in Forms : FormHolds(d)

\* What the assumptions say of the tables and of the bounds.
LEMMA SupplierConstants ==
  /\ MaxWrites \in Nat /\ Absent \notin SupplierRow /\ Absent \notin Codes /\ Absent \notin Sheets
  /\ Known \in Table /\ Lists \subseteq Table /\ Nothing \in Table
  BY SupplierBoundsAssumption, AbsentAssumption, TablesAssumption DEF Table, Cells, Nothing

\* A sheet or form that is not open has the shape of one.
LEMMA IdleTyped == IdleSheet \in Sheet /\ IdleForm \in Form
  BY SupplierConstants DEF IdleSheet, IdleForm, Sheet, Form, Table, Cells

\* A form writes what it changed over the row as it is, and revives only what it read as inactive.
LEMMA MergeTyped ==
  ASSUME NEW now \in SupplierRow, NEW read \in SupplierRow, NEW target \in SupplierRow
  PROVE  /\ update_supplier(now, read, target) \in SupplierRow
         /\ update_supplier(read, read, target) = target
         /\ ~now.active /\ update_supplier(now, read, target).active => ~read.active
<1>1. /\ now.name \in Names /\ now.active \in BOOLEAN /\ read.name \in Names /\ read.active \in BOOLEAN
      /\ target.name \in Names /\ target.active \in BOOLEAN
      /\ target = [name |-> target.name, active |-> target.active]
  BY DEF SupplierRow
<1>2. update_supplier(now, read, target) \in SupplierRow
  BY <1>1 DEF update_supplier, SupplierRow
<1>3. update_supplier(read, read, target) = target
  BY <1>1 DEF update_supplier
<1>4. ~now.active /\ update_supplier(now, read, target).active => ~read.active
  BY <1>1 DEF update_supplier
<1> QED BY <1>2, <1>3, <1>4

\* The tables, sheets and forms, part by part.
LEMMA FieldTypes ==
  ASSUME SupplierTypeOK
  PROVE  /\ supplier \in Table
         /\ \A i \in Sheets : /\ sheet[i] \in Sheet
                              /\ sheet[i].rows \in Table /\ sheet[i].shown \in Table
                              /\ sheet[i].read \in Table
         /\ \A d \in Forms : form[d] \in Form
<1>1. \A i \in Sheets : sheet[i] \in Sheet
  BY DEF SupplierTypeOK
<1>2. \A i \in Sheets : /\ sheet[i].rows \in Table /\ sheet[i].shown \in Table
                        /\ sheet[i].read \in Table
  BY <1>1 DEF Sheet, Table, Cells
<1> QED BY <1>1, <1>2 DEF SupplierTypeOK, Table, Cells

\* Another's commit of some rows: it only marks the imports that read them.
LEMMA MeddleMarks ==
  ASSUME SupplierTypeOK, NEW rows \in SUBSET Codes, NEW by
  PROVE  /\ Meddle(rows, by) \in [Sheets -> Sheet]
         /\ \A i \in Sheets :
              /\ Meddle(rows, by)[i].at = sheet[i].at /\ Meddle(rows, by)[i].rows = sheet[i].rows
              /\ Meddle(rows, by)[i].shown = sheet[i].shown /\ Meddle(rows, by)[i].read = sheet[i].read
              /\ ~Meddle(rows, by)[i].meddled =>
                    /\ ~sheet[i].meddled
                    /\ i # by /\ sheet[i].at = "writing" => rows \cap Wants(i) = {}
<1>1. ASSUME NEW i \in Sheets
      PROVE  /\ Meddle(rows, by)[i] \in Sheet
             /\ Meddle(rows, by)[i].at = sheet[i].at /\ Meddle(rows, by)[i].rows = sheet[i].rows
             /\ Meddle(rows, by)[i].shown = sheet[i].shown /\ Meddle(rows, by)[i].read = sheet[i].read
             /\ ~Meddle(rows, by)[i].meddled =>
                    /\ ~sheet[i].meddled
                    /\ i # by /\ sheet[i].at = "writing" => rows \cap Wants(i) = {}
  <2> DEFINE mark == sheet[i].meddled \/ (i # by /\ sheet[i].at = "writing" /\ rows \cap Wants(i) # {})
  <2>1. sheet[i] \in Sheet
    BY FieldTypes
  <2>2. Meddle(rows, by)[i] = [sheet[i] EXCEPT !.meddled = mark]
    BY DEF Meddle
  <2>3. mark \in BOOLEAN
    BY <2>1 DEF Sheet
  <2>4. mark = FALSE => /\ ~sheet[i].meddled
                        /\ i # by /\ sheet[i].at = "writing" => rows \cap Wants(i) = {}
    OBVIOUS
  <2> HIDE DEF mark
  <2>5. Meddle(rows, by)[i].meddled = mark
    BY <2>1, <2>2 DEF Sheet
  <2> QED BY <2>1, <2>2, <2>3, <2>4, <2>5 DEF Sheet
<1>2. Meddle(rows, by) = [i \in Sheets |-> Meddle(rows, by)[i]]
  BY DEF Meddle
<1> QED BY <1>1, <1>2

\* Nothing is open at first.
LEMMA SupplierInitInv == SupplierInit => SupplierInv
<1> SUFFICES ASSUME SupplierInit PROVE SupplierInv
  OBVIOUS
<1>1. SupplierTypeOK
  BY SupplierConstants, IdleTyped DEF SupplierInit, SupplierTypeOK, Table, Cells
<1>2. \A i \in Sheets : sheet[i].at = "idle"
  BY DEF SupplierInit, IdleSheet
<1>3. \A d \in Forms : form[d].at = "idle"
  BY DEF SupplierInit, IdleForm
<1> QED BY <1>1, <1>2, <1>3 DEF SupplierInv, SheetHolds, FormHolds

-----------------------------------------------------------------------------
(* What a commit leaves of the table *)

\* A step that writes some rows, in a way that no row of a supplier goes.
Touches(rows) ==
    /\ supplier' \in Table
    /\ \A c \in Codes : supplier[c] # Absent => supplier'[c] # Absent
    /\ \A c \in Codes \ rows : supplier'[c] = supplier[c]

\* The imports that go on after one have been told.
LEMMA SheetsAfter ==
  ASSUME SupplierInv, NEW rows \in SUBSET Codes, NEW by, Touches(rows),
         NEW i \in Sheets, i # by, sheet'[i] = Meddle(rows, by)[i]
  PROVE  SheetHolds(i)'
<1>0. SupplierTypeOK /\ SheetHolds(i)
  BY DEF SupplierInv
<1>1. /\ sheet'[i].at = sheet[i].at /\ sheet'[i].rows = sheet[i].rows
      /\ sheet'[i].shown = sheet[i].shown /\ sheet'[i].read = sheet[i].read
      /\ ~sheet'[i].meddled =>
            /\ ~sheet[i].meddled
            /\ sheet[i].at = "writing" => rows \cap Wants(i) = {}
  BY <1>0, MeddleMarks
<1>2. Wants(i)' = Wants(i) /\ Wants(i) \subseteq Codes
  BY <1>1 DEF Wants
<1> SUFFICES ASSUME sheet'[i].at = "writing"
             PROVE  /\ sheet'[i].read = sheet'[i].shown
                    /\ \A c \in Wants(i) : sheet'[i].read[c] # Absent => supplier'[c] # Absent
                    /\ ~sheet'[i].meddled => \A c \in Wants(i) : supplier'[c] = sheet'[i].read[c]
  BY <1>2 DEF SheetHolds
<1>3. /\ sheet[i].read = sheet[i].shown
      /\ \A c \in Wants(i) : sheet[i].read[c] # Absent => supplier[c] # Absent
      /\ ~sheet[i].meddled => \A c \in Wants(i) : supplier[c] = sheet[i].read[c]
  BY <1>0, <1>1 DEF SheetHolds
<1> QED BY <1>1, <1>2, <1>3 DEF Touches

\* A form holds on to its row while no row vanishes.
LEMMA FormsAfter ==
  ASSUME SupplierInv, \A c \in Codes : supplier[c] # Absent => supplier'[c] # Absent,
         NEW d \in Forms, form'[d] \in {form[d], IdleForm}
  PROVE  FormHolds(d)'
  BY DEF SupplierInv, FormHolds, IdleForm

\* A form's commit.
LEMMA FormCommit ==
  ASSUME SupplierInv, NEW d \in Forms, NEW c \in Codes, Touches({c}), writes' \in 0 .. MaxWrites,
         sheet' = Meddle({c}, Absent), form' = [form EXCEPT ![d] = IdleForm]
  PROVE  SupplierInv'
<1>0. SupplierTypeOK
  BY DEF SupplierInv
<1>1. SupplierTypeOK'
  BY <1>0, MeddleMarks, IdleTyped DEF SupplierTypeOK, Touches, Table, Cells
<1>2. ASSUME NEW i \in Sheets PROVE SheetHolds(i)'
  <2>1. i # Absent /\ {c} \in SUBSET Codes /\ sheet'[i] = Meddle({c}, Absent)[i]
    BY SupplierConstants
  <2> QED BY <2>1, SheetsAfter
<1>3. \A e \in Forms : form'[e] \in {form[e], IdleForm}
  BY <1>0 DEF SupplierTypeOK
<1>4. \A e \in Forms : FormHolds(e)'
  BY <1>3, FormsAfter DEF Touches
<1> QED BY <1>1, <1>2, <1>4 DEF SupplierInv

\* One import alone moves on, to a state that holds.
LEMMA SheetMoves ==
  ASSUME SupplierInv, NEW i \in Sheets, NEW s \in Sheet, sheet' = [sheet EXCEPT ![i] = s],
         UNCHANGED <<supplier, form, writes>>, SheetHolds(i)'
  PROVE  SupplierInv'
<1>0. SupplierTypeOK
  BY DEF SupplierInv
<1>1. SupplierTypeOK'
  BY <1>0 DEF SupplierTypeOK
<1>2. ASSUME NEW k \in Sheets, k # i PROVE SheetHolds(k)'
  <2>1. sheet'[k] = sheet[k] /\ SheetHolds(k)
    BY <1>0, <1>2 DEF SupplierTypeOK, SupplierInv
  <2> QED BY <2>1 DEF SheetHolds, Wants
<1>3. \A d \in Forms : FormHolds(d)'
  BY DEF SupplierInv, FormHolds
<1> QED BY <1>1, <1>2, <1>3 DEF SupplierInv

-----------------------------------------------------------------------------
(* The steps *)

\* A form reads its row.
LEMMA FormReadsInv ==
  ASSUME SupplierInv, NEW d \in Forms, NEW c \in Codes,
         \/ create_supplier(d, c)
         \/ \E what \in {"update", "deactivate"} : read_supplier(d, c, what)
  PROVE  SupplierInv'
<1>0. SupplierTypeOK
  BY DEF SupplierInv
<1>1. UNCHANGED <<supplier, sheet, writes>>
  BY DEF create_supplier, read_supplier
<1>2. PICK f \in Form : /\ form' = [form EXCEPT ![d] = f]
                        /\ f.code = c
                        /\ \/ f.at = "create"
                           \/ f.read \in SupplierRow /\ supplier[c] # Absent
  <2>1. CASE create_supplier(d, c)
    <3> PICK f : f = [IdleForm EXCEPT !.at = "create", !.code = c]
      OBVIOUS
    <3>1. f \in Form /\ f.code = c /\ f.at = "create"
      BY IdleTyped DEF Form
    <3> QED BY <2>1, <3>1 DEF create_supplier
  <2>2. ASSUME NEW what \in {"update", "deactivate"}, read_supplier(d, c, what)
        PROVE  \E f \in Form : /\ form' = [form EXCEPT ![d] = f]
                               /\ f.code = c
                               /\ \/ f.at = "create"
                                  \/ f.read \in SupplierRow /\ supplier[c] # Absent
    <3>1. supplier[c] \in SupplierRow
      BY <2>2, <1>0 DEF read_supplier, SupplierTypeOK
    <3>2. [at |-> what, code |-> c, read |-> supplier[c]] \in Form
      BY <3>1 DEF Form
    <3> QED BY <2>2, <3>1, <3>2 DEF read_supplier
  <2> QED BY <2>1, <2>2
<1>3. SupplierTypeOK'
  BY <1>0, <1>1, <1>2 DEF SupplierTypeOK
<1>4. ASSUME NEW e \in Forms PROVE FormHolds(e)'
  <2>1. form'[e] = IF e = d THEN f ELSE form[e]
    BY <1>0, <1>2 DEF SupplierTypeOK
  <2> QED BY <1>1, <1>2, <2>1 DEF SupplierInv, FormHolds
<1>5. \A i \in Sheets : SheetHolds(i)'
  BY <1>1 DEF SupplierInv, SheetHolds, Wants
<1> QED BY <1>3, <1>4, <1>5 DEF SupplierInv

\* A form creates a supplier whose code nobody else took.
LEMMA InsertInv ==
  ASSUME SupplierInv, NEW d \in Forms, NEW name \in Names, Insert(d, name)
  PROVE  SupplierInv'
<1>0. SupplierTypeOK
  BY DEF SupplierInv
<1>1. form[d].at = "create" /\ form' = [form EXCEPT ![d] = IdleForm]
  BY DEF Insert
<1> PICK c \in Codes : c = form[d].code
  BY <1>1 DEF SupplierInv, FormHolds
<1>2. CASE supplier[c] = Absent
  <2> DEFINE row == [name |-> name, active |-> TRUE]
  <2>1. row \in SupplierRow
    BY DEF SupplierRow
  <2>2. /\ writes < MaxWrites /\ writes' = writes + 1
        /\ supplier' = [supplier EXCEPT ![c] = row]
        /\ sheet' = Meddle({c}, Absent)
    BY <1>2 DEF Insert, Write
  <2> HIDE DEF row
  <2>3. Touches({c})
    BY <1>0, <2>1, <2>2, SupplierConstants DEF Touches, SupplierTypeOK, Table, Cells
  <2>4. writes' \in 0 .. MaxWrites
    BY <1>0, <2>2, SupplierConstants DEF SupplierTypeOK
  <2> QED BY <1>1, <2>2, <2>3, <2>4, FormCommit
<1>3. CASE supplier[c] # Absent
  <2>1. UNCHANGED <<supplier, sheet, writes>>
    BY <1>3 DEF Insert
  <2>2. SupplierTypeOK'
    BY <1>0, <1>1, <2>1, IdleTyped DEF SupplierTypeOK
  <2>3. \A e \in Forms : form'[e] \in {form[e], IdleForm}
    BY <1>0, <1>1 DEF SupplierTypeOK
  <2>4. \A e \in Forms : FormHolds(e)'
    BY <2>1, <2>3, FormsAfter
  <2>5. \A i \in Sheets : SheetHolds(i)'
    BY <2>1 DEF SupplierInv, SheetHolds, Wants
  <2> QED BY <2>2, <2>4, <2>5 DEF SupplierInv
<1> QED BY <1>2, <1>3

\* What an edit does to its row.
LEMMA EditStep ==
  ASSUME SupplierInv, NEW d \in Forms, NEW target \in SupplierRow, Edit(d, target)
  PROVE  /\ form[d].code \in Codes /\ form[d].read \in SupplierRow
         /\ supplier[form[d].code] \in SupplierRow
         /\ supplier' = [supplier EXCEPT ![form[d].code] =
                            update_supplier(supplier[form[d].code], form[d].read, target)]
         /\ form' = [form EXCEPT ![d] = IdleForm] /\ sheet' = Meddle({form[d].code}, Absent)
         /\ writes < MaxWrites /\ writes' = writes + 1
<1>1. /\ form[d].code \in Codes /\ form[d].read \in SupplierRow
      /\ supplier[form[d].code] # Absent
  BY DEF Edit, SupplierInv, FormHolds
<1>2. supplier[form[d].code] \in SupplierRow
  BY <1>1 DEF SupplierInv, SupplierTypeOK
<1> QED BY <1>1, <1>2 DEF Edit, Write

\* A form, activation or deactivation is written, and the sheets under way are meddled with.
LEMMA EditInv ==
  ASSUME SupplierInv, NEW d \in Forms, NEW target \in SupplierRow, Edit(d, target)
  PROVE  SupplierInv'
<1>0. SupplierTypeOK
  BY DEF SupplierInv
<1> PICK c \in Codes : c = form[d].code
  BY EditStep
<1> PICK row : row = update_supplier(supplier[c], form[d].read, target)
  OBVIOUS
<1>1. /\ supplier' = [supplier EXCEPT ![c] = row]
      /\ form' = [form EXCEPT ![d] = IdleForm] /\ sheet' = Meddle({c}, Absent)
      /\ writes < MaxWrites /\ writes' = writes + 1
  BY EditStep
<1>2. row \in SupplierRow
  BY EditStep, MergeTyped
<1>3. Touches({c})
  BY <1>0, <1>1, <1>2, SupplierConstants DEF Touches, SupplierTypeOK, Table, Cells
<1>4. writes' \in 0 .. MaxWrites
  BY <1>0, <1>1, SupplierConstants DEF SupplierTypeOK
<1> QED BY <1>1, <1>3, <1>4, FormCommit

\* A sheet is compared with the table and shown.
LEMMA PreviewInv ==
  ASSUME SupplierInv, NEW i \in Sheets, NEW rights \in Rights, NEW rows \in Lists,
         build_preview(i, rows, rights)
  PROVE  SupplierInv'
<1>0. SupplierTypeOK
  BY DEF SupplierInv
<1> PICK seen : seen = existing_by_code(rows)
  OBVIOUS
<1>1. rows \in Table /\ seen \in Table
  BY <1>0, SupplierConstants, FieldTypes DEF existing_by_code, Table, Cells
<1> PICK s : s = [IdleSheet EXCEPT !.at = "shown", !.rows = rows, !.shown = seen]
  OBVIOUS
<1>2. s \in Sheet /\ s.at = "shown"
  BY <1>1, IdleTyped DEF Sheet, Table, Cells
<1>3. sheet' = [sheet EXCEPT ![i] = s] /\ UNCHANGED <<supplier, form, writes>>
  BY DEF build_preview
<1>4. sheet'[i] = s
  BY <1>0, <1>3 DEF SupplierTypeOK
<1>5. SheetHolds(i)'
  BY <1>2, <1>4 DEF SheetHolds
<1> QED BY <1>2, <1>3, <1>5, SheetMoves

\* A commit reads the table again and compares it with the preview.
LEMMA ReadsInv ==
  ASSUME SupplierInv, NEW i \in Sheets, NEW rights \in Rights, CommitReads(i, rights)
  PROVE  SupplierInv'
<1>0. SupplierTypeOK
  BY DEF SupplierInv
<1>1. UNCHANGED <<supplier, form, writes>>
  BY DEF CommitReads
<1>2. CASE _row_states_match_preview(i, rights)
  <2> PICK seen : seen = existing_by_code(sheet[i].rows)
    OBVIOUS
  <2> PICK s : s = [sheet[i] EXCEPT !.at = "writing", !.read = seen]
    OBVIOUS
  <2>1. sheet' = [sheet EXCEPT ![i] = s] /\ seen = sheet[i].shown
    BY <1>2 DEF CommitReads, _row_states_match_preview
  <2>2. seen \in Table /\ sheet[i] \in Sheet
    BY <1>0, <2>1, FieldTypes
  <2>3. s \in Sheet
    BY <2>2 DEF Sheet, Table, Cells
  <2>4. s.read = seen /\ s.shown = sheet[i].shown /\ s.rows = sheet[i].rows
    BY <2>2 DEF Sheet
  <2>5. sheet'[i] = s
    BY <1>0, <2>1 DEF SupplierTypeOK
  <2>6. Wants(i)' = {c \in Codes : sheet[i].rows[c] # Absent}
    BY <2>4, <2>5 DEF Wants
  <2>7. \A c \in Wants(i)' : seen[c] = supplier[c]
    BY <2>6 DEF existing_by_code
  <2>8. SheetHolds(i)'
    BY <1>1, <2>1, <2>4, <2>5, <2>7 DEF SheetHolds
  <2> QED BY <1>1, <2>1, <2>3, <2>8, SheetMoves
<1>3. CASE ~_row_states_match_preview(i, rights)
  <2>1. sheet' = [sheet EXCEPT ![i] = IdleSheet]
    BY <1>3 DEF CommitReads
  <2>2. sheet'[i] = IdleSheet
    BY <1>0, <2>1 DEF SupplierTypeOK
  <2>3. SheetHolds(i)'
    BY <2>2 DEF SheetHolds, IdleSheet
  <2> QED BY <1>1, <2>1, <2>3, IdleTyped, SheetMoves
<1> QED BY <1>2, <1>3

\* What an import leaves of each row, when it writes.
LEMMA LandedRows ==
  ASSUME SupplierInv, NEW i \in Sheets, sheet[i].at = "writing",
         ~\E c \in Wants(i) : sheet[i].read[c] = Absent /\ supplier[c] # Absent,
         NEW c \in Codes
  PROVE  /\ Landed(i)[c] \in Cells
         /\ supplier[c] # Absent => Landed(i)[c] # Absent
         /\ c \notin Wants(i) => Landed(i)[c] = supplier[c]
         /\ c \in Wants(i) /\ supplier[c] = sheet[i].read[c] => Landed(i)[c] = sheet[i].rows[c]
         /\ supplier[c] # Absent /\ ~supplier[c].active /\ Landed(i)[c].active =>
               sheet[i].read[c] # Absent /\ ~sheet[i].read[c].active
<1>0. SupplierTypeOK
  BY DEF SupplierInv
<1>1. supplier[c] \in Cells /\ sheet[i].read[c] \in Cells /\ sheet[i].rows[c] \in Cells
  BY <1>0, FieldTypes DEF Table
<1>2. CASE c \notin Wants(i)
  <2>1. Landed(i)[c] = supplier[c]
    BY <1>2 DEF Landed
  <2> QED BY <1>1, <1>2, <2>1
<1>3. CASE c \in Wants(i) /\ sheet[i].read[c] = Absent
  <2>1. Landed(i)[c] = sheet[i].rows[c] /\ supplier[c] = Absent
    BY <1>3 DEF Landed
  <2> QED BY <1>1, <1>3, <2>1
<1>4. CASE c \in Wants(i) /\ sheet[i].read[c] # Absent
  <2> PICK now, read, target :
           now = supplier[c] /\ read = sheet[i].read[c] /\ target = sheet[i].rows[c]
    OBVIOUS
  <2>1. now # Absent /\ target # Absent
    BY <1>4 DEF SupplierInv, SheetHolds, Wants
  <2>2. now \in SupplierRow /\ read \in SupplierRow /\ target \in SupplierRow
    BY <1>1, <1>4, <2>1 DEF Cells
  <2>3. Landed(i)[c] = update_supplier(now, read, target)
    BY <1>4 DEF Landed
  <2>4. Landed(i)[c] \in SupplierRow
    BY <2>2, <2>3, MergeTyped
  <2>5. now = read => Landed(i)[c] = target
    BY <2>2, <2>3, MergeTyped
  <2>6. ~now.active /\ Landed(i)[c].active => ~read.active
    BY <2>2, <2>3, MergeTyped
  <2> QED BY <1>4, <2>4, <2>5, <2>6, SupplierConstants DEF Cells
<1> QED BY <1>2, <1>3, <1>4

\* A commit writes its rows, all of them.
LEMMA WritesInv ==
  ASSUME SupplierInv, NEW i \in Sheets, CommitWrites(i)
  PROVE  SupplierInv'
<1>0. SupplierTypeOK
  BY DEF SupplierInv
<1>1. sheet[i].at = "writing" /\ UNCHANGED form
  BY DEF CommitWrites
<1>2. CASE \E c \in Wants(i) : sheet[i].read[c] = Absent /\ supplier[c] # Absent
  <2>1. sheet' = [sheet EXCEPT ![i] = IdleSheet] /\ UNCHANGED <<supplier, form, writes>>
    BY <1>2 DEF CommitWrites
  <2>2. sheet'[i] = IdleSheet
    BY <1>0, <2>1 DEF SupplierTypeOK
  <2>3. SheetHolds(i)'
    BY <2>2 DEF SheetHolds, IdleSheet
  <2> QED BY <2>1, <2>3, IdleTyped, SheetMoves
<1>3. CASE ~\E c \in Wants(i) : sheet[i].read[c] = Absent /\ supplier[c] # Absent
  <2>1. /\ supplier' = Landed(i) /\ sheet' = [Meddle(Wants(i), i) EXCEPT ![i] = IdleSheet]
        /\ writes < MaxWrites /\ writes' = writes + 1
    BY <1>3 DEF CommitWrites, Write
  <2>2. Wants(i) \in SUBSET Codes
    BY DEF Wants
  <2>3. Touches(Wants(i))
    <3>1. supplier' = [c \in Codes |-> supplier'[c]]
      BY <2>1 DEF Landed
    <3>2. \A c \in Codes : supplier'[c] \in Cells
      BY <1>1, <1>3, <2>1, LandedRows
    <3>3. supplier' \in Table
      BY <3>1, <3>2 DEF Table
    <3>4. \A c \in Codes : /\ supplier[c] # Absent => supplier'[c] # Absent
                           /\ c \notin Wants(i) => supplier'[c] = supplier[c]
      BY <1>1, <1>3, <2>1, LandedRows
    <3> QED BY <3>3, <3>4 DEF Touches
  <2>4. Meddle(Wants(i), i) \in [Sheets -> Sheet]
    BY <1>0, <2>2, MeddleMarks
  <2>5. writes' \in 0 .. MaxWrites
    BY <1>0, <2>1, SupplierConstants DEF SupplierTypeOK
  <2>6. SupplierTypeOK'
    BY <1>0, <1>1, <2>1, <2>3, <2>4, <2>5, IdleTyped DEF SupplierTypeOK, Touches, Table, Cells
  <2>7. ASSUME NEW k \in Sheets, k # i PROVE SheetHolds(k)'
    <3>1. sheet'[k] = Meddle(Wants(i), i)[k]
      BY <2>1, <2>4, <2>7
    <3> QED BY <2>2, <2>3, <2>7, <3>1, SheetsAfter
  <2>8. SheetHolds(i)'
    <3>1. sheet'[i] = IdleSheet
      BY <2>1, <2>4
    <3> QED BY <3>1 DEF SheetHolds, IdleSheet
  <2>9. \A d \in Forms : FormHolds(d)'
    <3>1. \A d \in Forms : form'[d] \in {form[d], IdleForm}
      BY <1>1
    <3> QED BY <2>3, <3>1, FormsAfter DEF Touches
  <2> QED BY <2>6, <2>7, <2>8, <2>9 DEF SupplierInv
<1> QED BY <1>2, <1>3

\* A sheet is closed without a commit.
LEMMA AbandonInv ==
  ASSUME SupplierInv, NEW i \in Sheets, Abandon(i)
  PROVE  SupplierInv'
<1>1. sheet' = [sheet EXCEPT ![i] = IdleSheet] /\ UNCHANGED <<supplier, form, writes>>
  BY DEF Abandon
<1>2. sheet'[i] = IdleSheet
  BY <1>1 DEF SupplierInv, SupplierTypeOK
<1>3. SheetHolds(i)'
  BY <1>2 DEF SheetHolds, IdleSheet
<1> QED BY <1>1, <1>3, IdleTyped, SheetMoves

\* Every step keeps the invariant.
LEMMA SupplierNextInv == SupplierInv /\ [SupplierNext]_supplierVars => SupplierInv'
<1> SUFFICES ASSUME SupplierInv, [SupplierNext]_supplierVars PROVE SupplierInv'
  OBVIOUS
<1>1. CASE UNCHANGED supplierVars
  BY <1>1 DEF supplierVars, SupplierInv, SupplierTypeOK, SheetHolds, FormHolds, Wants
<1> QED
  BY <1>1, FormReadsInv, InsertInv, EditInv, PreviewInv, ReadsInv, WritesInv, AbandonInv
  DEF SupplierNext

-----------------------------------------------------------------------------
(* The properties *)

\* A sheet nobody meddled with lands as it was shown.
LEMMA LandsStep ==
  ASSUME SupplierInv, NEW i \in Sheets, CommitWrites(i), writes' # writes, ~sheet[i].meddled,
         NEW c \in Wants(i)
  PROVE  supplier[c] = sheet[i].shown[c] /\ supplier'[c] = sheet[i].rows[c]
<1>1. sheet[i].at = "writing" /\ c \in Codes
  BY DEF CommitWrites, Wants
<1>2. /\ ~\E b \in Wants(i) : sheet[i].read[b] = Absent /\ supplier[b] # Absent
      /\ supplier' = Landed(i)
  BY DEF CommitWrites
<1>3. sheet[i].read = sheet[i].shown /\ supplier[c] = sheet[i].read[c]
  BY <1>1 DEF SupplierInv, SheetHolds
<1> QED BY <1>1, <1>2, <1>3, LandedRows

\* A supplier becomes active only by who saw it inactive or by a file that says so.
LEMMA RevivalStep ==
  ASSUME SupplierInv, SupplierNext, NEW c \in Codes,
         supplier[c] # Absent, ~supplier[c].active, supplier'[c].active
  PROVE  \/ \E d \in Forms : /\ form[d].code = c /\ form'[d] = IdleForm
                             /\ form[d].read # Absent /\ ~form[d].read.active
         \/ \E i \in Sheets : /\ sheet[i].at = "writing" /\ sheet'[i] = IdleSheet
                              /\ sheet[i].read[c] # Absent /\ ~sheet[i].read[c].active
<1>0. SupplierTypeOK /\ supplier'[c] # supplier[c]
  BY DEF SupplierInv
<1>1. \/ \E d \in Forms, name \in Names : Insert(d, name)
      \/ \E d \in Forms, target \in SupplierRow : Edit(d, target)
      \/ \E i \in Sheets : CommitWrites(i)
  BY <1>0 DEF SupplierNext, create_supplier, read_supplier, build_preview, CommitReads, Abandon
<1>2. ASSUME NEW d \in Forms, NEW name \in Names, Insert(d, name) PROVE FALSE
  <2>1. supplier[form[d].code] = Absent /\ form[d].code \in Codes
        /\ supplier' = [supplier EXCEPT ![form[d].code] = [name |-> name, active |-> TRUE]]
    BY <1>0, <1>2 DEF Insert, SupplierInv, FormHolds
  <2> QED BY <1>0, <2>1 DEF SupplierTypeOK
<1>3. ASSUME NEW d \in Forms, NEW target \in SupplierRow, Edit(d, target)
      PROVE  /\ form[d].code = c /\ form'[d] = IdleForm
             /\ form[d].read # Absent /\ ~form[d].read.active
  <2> PICK b \in Codes : b = form[d].code
    BY <1>3, EditStep
  <2> PICK row : row = update_supplier(supplier[b], form[d].read, target)
    OBVIOUS
  <2>1. /\ supplier' = [supplier EXCEPT ![b] = row]
        /\ form' = [form EXCEPT ![d] = IdleForm]
        /\ form[d].read \in SupplierRow /\ supplier[b] \in SupplierRow
    BY <1>3, EditStep
  <2>2. b = c /\ supplier'[c] = row /\ form'[d] = IdleForm
    BY <1>0, <2>1 DEF SupplierTypeOK
  <2>3. row.active /\ ~supplier[b].active
    BY <2>2
  <2>4. ~form[d].read.active
    BY <2>1, <2>3, MergeTyped
  <2> QED BY <2>1, <2>2, <2>4, SupplierConstants
<1>4. ASSUME NEW i \in Sheets, CommitWrites(i)
      PROVE  /\ sheet[i].at = "writing" /\ sheet'[i] = IdleSheet
             /\ sheet[i].read[c] # Absent /\ ~sheet[i].read[c].active
  <2>1. /\ sheet[i].at = "writing" /\ supplier' = Landed(i)
        /\ ~\E b \in Wants(i) : sheet[i].read[b] = Absent /\ supplier[b] # Absent
        /\ sheet' = [Meddle(Wants(i), i) EXCEPT ![i] = IdleSheet]
    BY <1>0, <1>4 DEF CommitWrites
  <2>2. Meddle(Wants(i), i) \in [Sheets -> Sheet]
    BY <1>0, MeddleMarks DEF Wants
  <2> QED BY <2>1, <2>2, LandedRows
<1> QED BY <1>1, <1>2, <1>3, <1>4

\* A file of suppliers lands as it was shown and revives nobody: suppliers.py and
\* supplier_import.py, for any number of suppliers, forms and imports under way at once.
THEOREM LandedSuppliers == SupplierSpec => SuppliersStand
<1>1. SupplierInv => SupplierTypeOK
  BY DEF SupplierInv
<1>2. SupplierInv /\ [SupplierNext]_supplierVars =>
        [\A i \in Sheets :
          (CommitWrites(i) /\ writes' # writes /\ ~sheet[i].meddled) =>
             \A c \in Wants(i) :
                /\ supplier[c] = sheet[i].shown[c]
                /\ supplier'[c] = sheet[i].rows[c]]_supplierVars
  BY LandsStep
<1>3. SupplierInv /\ [SupplierNext]_supplierVars =>
        [\A c \in Codes :
          (/\ supplier[c] # Absent /\ ~supplier[c].active
           /\ supplier'[c].active) =>
             \/ \E d \in Forms : /\ form[d].code = c /\ form'[d] = IdleForm
                                 /\ form[d].read # Absent /\ ~form[d].read.active
             \/ \E i \in Sheets : /\ sheet[i].at = "writing" /\ sheet'[i] = IdleSheet
                                  /\ sheet[i].read[c] # Absent
                                  /\ ~sheet[i].read[c].active]_supplierVars
  BY RevivalStep
<1> QED
  BY <1>1, <1>2, <1>3, SupplierInitInv, SupplierNextInv, PTL
  DEF SupplierSpec, SuppliersStand, LandsAsShown, DeactivationIsNotUndone

-----------------------------------------------------------------------------
(***************************************************************************)
(* Master data: a variety has one active P.Code but for what raced, a      *)
(* cycle names what is live, a file lands whole (TaxonomyStands).          *)
(*                                                                         *)
(* Tables says that a row keeps its type and its id whatever it is renamed *)
(* to. Holding is what each request under way holds. Seeing is what it has *)
(* read and checked, and that this is still so unless something was        *)
(* committed since: a request that is not stale writes on what it checked, *)
(* so a P.Code it makes active is alone where it is (OneKept); what a      *)
(* stale one makes active is marked as raced.                              *)
(***************************************************************************)

\* A row keeps the type it was created with, whatever it is renamed to, and is one row.
Tables ==
    /\ item \in [Values -> Item \cup {NoRow}]
    /\ commits \in 0 .. MaxCommits
    /\ \A x \in Values : item[x] # NoRow =>
          /\ item[x].parent \in Above(x) \cup {NoRow}
          /\ item[x].id[1] \in 0 .. commits /\ SameType(item[x].id[2], x)
    /\ \A x, y \in Values : item[x] # NoRow /\ item[y] # NoRow /\ item[x].id = item[y].id => x = y

DeskHolds(d) ==
    /\ desk[d] \in Desk
    /\ desk[d].at \in {"create", "update"} =>
          /\ desk[d].value \in Values /\ desk[d].renamed \in Values
          /\ SameType(desk[d].value, desk[d].renamed)
          /\ desk[d].target \in Item /\ desk[d].target.parent \in Above(desk[d].value) \cup {NoRow}
          /\ desk[d].at = "create" => desk[d].renamed = desk[d].value
    /\ desk[d].at \in {"update", "delete"} =>
          /\ desk[d].value \in Values /\ desk[d].read \in Item
          /\ SameType(desk[d].read.id[2], desk[d].value)

\* What a form has read and checked still holds, unless something was committed since.
DeskSees(d) ==
    desk[d].at # "idle" /\ ~desk[d].stale =>
        /\ (/\ desk[d].at \in {"create", "update"}
            /\ desk[d].value \in PCodes /\ desk[d].target.active)
              => assert_p_code_assignable(desk[d].target.parent, desk[d].value)
        /\ desk[d].at = "update" => desk[d].read = item[desk[d].value]

\* A file is written from the plan it was shown with, which is of its own rows.
UploadHolds ==
    /\ upload = [at |-> upload.at, file |-> upload.file, plan |-> upload.plan,
                 read |-> upload.read, stale |-> upload.stale]
    /\ upload.at \in {"idle", "shown", "writing"} /\ upload.stale \in BOOLEAN
    /\ upload.file \subseteq FileRow /\ upload.read \in [Values -> Item \cup {NoRow}]
    /\ upload.at # "idle" => upload.file \in Files
    /\ \A p \in upload.plan : p.row \in upload.file

UploadSees ==
    upload.at = "writing" /\ ~upload.stale =>
        /\ upload.read = item
        /\ upload.plan = _build_row_states(upload.file) /\ \A p \in upload.plan : ~p.error

PlantingHolds ==
    /\ planting \in Planting
    /\ planting.at # "idle" => planting.named \in Crops /\ planting.code \in PCodes

PlantingSees ==
    planting.at # "idle" /\ ~planting.stale =>
        /\ planting.crop = item[planting.named]
        /\ planting.at = "variety" => planting.p_code = item[planting.code]

PlantedTyped ==
    planted \in [crop : Crops, p_code : PCodes, variety : Varieties, stale : BOOLEAN] \cup {NoRow}

Holding == /\ desk \in [Desks -> Desk] /\ \A d \in Desks : DeskHolds(d)
           /\ UploadHolds /\ PlantingHolds /\ PlantedTyped
Seeing == (\A d \in Desks : DeskSees(d)) /\ UploadSees /\ PlantingSees

MasterInv == Tables /\ Holding /\ Seeing /\ OneActivePCode

-----------------------------------------------------------------------------

\* What the assumptions say of the bounds and of the values that stand for none.
LEMMA Bounds == MaxCommits \in Nat /\ NoRow \notin Values /\ NoRow \notin Item /\ NoRow \notin Desks
  BY MasterBoundsAssumption, ValuesAssumption

\* A row of master data is its four columns.
LEMMA ItemFields ==
  \A i \in Item : /\ i = [parent |-> i.parent, active |-> i.active, id |-> i.id, raced |-> i.raced]
                  /\ i.parent \in Values \cup {NoRow} /\ i.active \in BOOLEAN
                  /\ i.id \in Nat \X Values /\ i.raced \in BOOLEAN
  BY DEF Item

\* Four columns make a row of master data.
LEMMA ItemMade ==
  \A parent \in Values \cup {NoRow}, active \in BOOLEAN, id \in Nat \X Values, raced \in BOOLEAN :
     [parent |-> parent, active |-> active, id |-> id, raced |-> raced] \in Item
  BY DEF Item

\* The types of master data part the values, and each type has one above it.
LEMMA Types ==
  /\ \A x \in Values : Above(x) \subseteq Values /\ NoRow \notin Above(x) /\ SameType(x, x)
  /\ \A x, y : SameType(x, y) => x \in Values /\ y \in Values /\ Above(x) = Above(y)
                                 /\ SameType(y, x) /\ (x \in PCodes <=> y \in PCodes)
  /\ \A x, y, z : SameType(x, y) /\ SameType(y, z) => SameType(x, z)
  BY ValuesAssumption DEF Values, Above, SameType

\* The invariant contains the shapes.
LEMMA MasterTyped == MasterInv => MasterTypeOK
  BY DEF MasterInv, Tables, Holding, UploadHolds, PlantingHolds, PlantedTyped, MasterTypeOK

\* A desk, an upload and a planting that are idle have their shapes.
LEMMA NothingAsked ==
  /\ IdleDesk \in Desk /\ IdleDesk.at = "idle"
  /\ IdlePlanting \in Planting /\ IdlePlanting.at = "idle"
  /\ IdleUpload.at = "idle" /\ IdleUpload.file = {} /\ IdleUpload.plan = {}
  /\ IdleUpload.read = Start /\ IdleUpload.stale = FALSE
  BY DEF IdleDesk, IdlePlanting, IdleUpload, Desk, Planting

\* The tables as they start, with nothing open, satisfy the invariant.
LEMMA MasterInitInv == MasterInit => MasterInv
<1> SUFFICES ASSUME MasterInit PROVE MasterInv
  OBVIOUS
<1>1. /\ item = Start /\ desk = [d \in Desks |-> IdleDesk] /\ upload = IdleUpload
      /\ planting = IdlePlanting /\ planted = NoRow /\ commits = 0
  BY DEF MasterInit
<1>2. Tables
  <2>1. \A x \in Values : item[x] # NoRow => item[x].id[1] = 0 /\ item[x].id[2] = x
    BY <1>1, StartAssumption
  <2>2. \A x \in Values : item[x] # NoRow => item[x].parent \in Above(x) \cup {NoRow}
    BY <1>1, StartAssumption
  <2>3. item \in [Values -> Item \cup {NoRow}] /\ commits \in 0 .. MaxCommits
    BY <1>1, StartAssumption, Bounds
  <2> QED BY <1>1, <2>1, <2>2, <2>3, Types DEF Tables
<1>3. Holding
  <2>1. \A d \in Desks : DeskHolds(d)
    BY <1>1, NothingAsked DEF DeskHolds
  <2>2. UploadHolds
    <3>1. Start \in [Values -> Item \cup {NoRow}]
      BY StartAssumption
    <3> QED BY <1>1, <3>1 DEF UploadHolds, IdleUpload
  <2>3. PlantingHolds /\ PlantedTyped
    BY <1>1, NothingAsked DEF PlantingHolds, PlantedTyped
  <2> QED BY <1>1, <2>1, <2>2, <2>3, NothingAsked DEF Holding
<1>4. Seeing
  BY <1>1, NothingAsked DEF Seeing, DeskSees, UploadSees, PlantingSees
<1>5. OneActivePCode
  <2>1. \A q \in PCodes : Active(q) => Start[q] # NoRow /\ Start[q].active /\ item[q] = Start[q]
    BY <1>1 DEF Active
  <2> QED BY <2>1, StartAssumption DEF OneActivePCode
<1> QED BY <1>2, <1>3, <1>4, <1>5 DEF MasterInv

-----------------------------------------------------------------------------
(* Steps that commit nothing *)

\* What is said of the tables stands while they do.
LEMMA TablesStand ==
  ASSUME MasterInv, UNCHANGED <<item, commits>> PROVE Tables' /\ OneActivePCode'
  BY DEF MasterInv, Tables, OneActivePCode, Active

\* A form begins or ends.
LEMMA DeskMoves ==
  ASSUME MasterInv, NEW d \in Desks, NEW f \in Desk, desk' = [desk EXCEPT ![d] = f],
         DeskHolds(d)', DeskSees(d)', UNCHANGED <<item, upload, planting, planted, commits>>
  PROVE  MasterInv'
<1>1. desk \in [Desks -> Desk]
  BY DEF MasterInv, Holding
<1>2. desk' \in [Desks -> Desk] /\ \A e \in Desks : e # d => desk'[e] = desk[e]
  BY <1>1
<1>3. \A e \in Desks : DeskHolds(e)'
  BY <1>2 DEF MasterInv, Holding, DeskHolds
<1>4. \A e \in Desks : DeskSees(e)'
  <2> SUFFICES ASSUME NEW e \in Desks, e # d PROVE DeskSees(e)'
    OBVIOUS
  <2>1. DeskSees(e) /\ desk'[e] = desk[e]
    BY <1>2 DEF MasterInv, Seeing
  <2> QED BY <2>1 DEF DeskSees, assert_p_code_assignable, active_p_code_for_variety, Active
<1>5. UploadHolds' /\ PlantingHolds' /\ PlantedTyped'
  BY DEF MasterInv, Holding, UploadHolds, PlantingHolds, PlantedTyped
<1>6. UploadSees' /\ PlantingSees'
  BY DEF MasterInv, Seeing, UploadSees, PlantingSees, _build_row_states, RowErrors, Seen,
         active_p_code_for_variety, Active
<1> QED BY <1>2, <1>3, <1>4, <1>5, <1>6, TablesStand DEF MasterInv, Holding, Seeing

\* A form for a new value is sent.
LEMMA CreateInv ==
  ASSUME MasterInv, NEW d \in Desks, NEW x \in Values, NEW parent \in Above(x) \cup {NoRow},
         create_master_data(d, x, parent)
  PROVE  MasterInv'
<1> DEFINE yes == TRUE
           no == FALSE
           target == [parent |-> parent, active |-> yes, id |-> <<0, x>>, raced |-> no]
           f == [at |-> "create", value |-> x, renamed |-> x, read |-> NoRow,
                 target |-> target, stale |-> no]
<1>1. yes = TRUE /\ no = FALSE /\ yes \in BOOLEAN /\ no \in BOOLEAN
  OBVIOUS
<1>2. /\ x \in PCodes => assert_p_code_assignable(parent, x)
      /\ desk' = [desk EXCEPT ![d] = [IdleDesk EXCEPT
           !.at = "create", !.value = x, !.renamed = x,
           !.target = [parent |-> parent, active |-> TRUE, id |-> <<0, x>>, raced |-> FALSE]]]
      /\ UNCHANGED <<item, upload, planting, planted, commits>>
  BY DEF create_master_data
<1>3. IdleDesk = [at |-> "idle", value |-> NoRow, renamed |-> NoRow, read |-> NoRow,
                  target |-> NoRow, stale |-> no]
  BY DEF IdleDesk
<1> HIDE DEF yes, no
<1>4. target \in Item
  BY <1>1, Types DEF Item
<1>5. target.parent = parent /\ target.active = yes
  OBVIOUS
<1>6. target = [parent |-> parent, active |-> TRUE, id |-> <<0, x>>, raced |-> FALSE]
  BY <1>1
<1> HIDE DEF target
<1> PICK w : w = [IdleDesk EXCEPT !.at = "create", !.value = x, !.renamed = x, !.target = target]
  OBVIOUS
<1>7. w = f
  BY <1>3
<1> HIDE DEF f
<1>70. desk' = [desk EXCEPT ![d] = f]
  BY <1>2, <1>6, <1>7
<1> USE DEF f
<1>8. f \in Desk
  BY <1>1, <1>4 DEF Desk
<1>9. f.at = "create" /\ f.value = x /\ f.renamed = x /\ f.target = target
  OBVIOUS
<1> HIDE DEF f
<1>10. desk'[d] = f
  BY <1>70 DEF MasterInv, Holding
<1>11. DeskHolds(d)'
  BY <1>4, <1>5, <1>8, <1>9, <1>10, Types DEF DeskHolds
<1>12. DeskSees(d)'
  <2>1. x \in PCodes => assert_p_code_assignable(parent, x)'
    BY <1>2 DEF assert_p_code_assignable, active_p_code_for_variety, Active
  <2> QED BY <1>5, <1>9, <1>10, <2>1 DEF DeskSees, assert_p_code_assignable, active_p_code_for_variety, Active
<1> QED BY <1>2, <1>70, <1>8, <1>11, <1>12, DeskMoves

\* A form for a change is sent, with the row as it was read.
LEMMA UpdateInv ==
  ASSUME MasterInv, NEW d \in Desks, NEW x \in Values, NEW y \in Values, SameType(x, y),
         NEW target \in Item, target.parent \in Above(x) \cup {NoRow},
         update_master_data(d, x, y, target)
  PROVE  MasterInv'
<1> DEFINE no == FALSE
           f == [at |-> "update", value |-> x, renamed |-> y, read |-> item[x],
                 target |-> target, stale |-> no]
<1>1. no \in BOOLEAN
  OBVIOUS
<1>2. /\ item[x] # NoRow
      /\ (x \in PCodes /\ target.active) => assert_p_code_assignable(target.parent, x)
      /\ desk' = [desk EXCEPT ![d] = [IdleDesk EXCEPT
           !.at = "update", !.value = x, !.renamed = y, !.read = item[x], !.target = target]]
      /\ UNCHANGED <<item, upload, planting, planted, commits>>
  BY DEF update_master_data
<1>3. IdleDesk = [at |-> "idle", value |-> NoRow, renamed |-> NoRow, read |-> NoRow,
                  target |-> NoRow, stale |-> no]
  BY DEF IdleDesk
<1> HIDE DEF no
<1>4. item[x] \in Item /\ SameType(item[x].id[2], x)
  BY <1>2 DEF MasterInv, Tables
<1> PICK w : w = [IdleDesk EXCEPT !.at = "update", !.value = x, !.renamed = y, !.read = item[x],
                       !.target = target]
  OBVIOUS
<1>50. w = f
  BY <1>3
<1> HIDE DEF f
<1>5. desk' = [desk EXCEPT ![d] = f]
  BY <1>2, <1>50
<1> USE DEF f
<1>6. f \in Desk
  BY <1>1, <1>4 DEF Desk
<1>7. f.at = "update" /\ f.value = x /\ f.renamed = y /\ f.target = target /\ f.read = item[x]
  OBVIOUS
<1> HIDE DEF f
<1>8. desk'[d] = f
  BY <1>5 DEF MasterInv, Holding
<1>9. DeskHolds(d)'
  BY <1>4, <1>6, <1>7, <1>8 DEF DeskHolds
<1>10. DeskSees(d)'
  BY <1>2, <1>7, <1>8 DEF DeskSees, assert_p_code_assignable, active_p_code_for_variety, Active
<1> QED BY <1>2, <1>5, <1>6, <1>9, <1>10, DeskMoves

\* A form for a deletion is sent.
LEMMA DeleteInv ==
  ASSUME MasterInv, NEW d \in Desks, NEW x \in Values, delete_master_data(d, x) PROVE MasterInv'
<1> DEFINE no == FALSE
           f == [at |-> "delete", value |-> x, renamed |-> NoRow, read |-> item[x],
                 target |-> NoRow, stale |-> no]
<1>1. no \in BOOLEAN
  OBVIOUS
<1>2. /\ item[x] # NoRow
      /\ desk' = [desk EXCEPT ![d] = [IdleDesk EXCEPT
           !.at = "delete", !.value = x, !.read = item[x]]]
      /\ UNCHANGED <<item, upload, planting, planted, commits>>
  BY DEF delete_master_data
<1>3. IdleDesk = [at |-> "idle", value |-> NoRow, renamed |-> NoRow, read |-> NoRow,
                  target |-> NoRow, stale |-> no]
  BY DEF IdleDesk
<1> HIDE DEF no
<1>4. item[x] \in Item /\ SameType(item[x].id[2], x)
  BY <1>2 DEF MasterInv, Tables
<1> PICK w : w = [IdleDesk EXCEPT !.at = "delete", !.value = x, !.read = item[x]]
  OBVIOUS
<1>50. w = f
  BY <1>3
<1> HIDE DEF f
<1>5. desk' = [desk EXCEPT ![d] = f]
  BY <1>2, <1>50
<1> USE DEF f
<1>6. f \in Desk
  BY <1>1, <1>4 DEF Desk
<1>7. f.at = "delete" /\ f.value = x /\ f.read = item[x]
  OBVIOUS
<1> HIDE DEF f
<1>8. desk'[d] = f
  BY <1>5 DEF MasterInv, Holding
<1>9. DeskHolds(d)'
  BY <1>4, <1>6, <1>7, <1>8 DEF DeskHolds
<1>10. desk'[d].at = "delete" /\ desk'[d].at \notin {"create", "update"}
  BY <1>7, <1>8
<1>11. DeskSees(d)'
  BY <1>10 DEF DeskSees
<1> QED BY <1>2, <1>5, <1>6, <1>9, <1>11, DeskMoves

\* A form is refused, or closed.
LEMMA GiveUpInv == ASSUME MasterInv, NEW d \in Desks, GiveUp(d) PROVE MasterInv'
<1>1. desk' = [desk EXCEPT ![d] = IdleDesk] /\ UNCHANGED <<item, upload, planting, planted, commits>>
  BY DEF GiveUp
<1>2. desk'[d] = IdleDesk
  BY <1>1 DEF MasterInv, Holding
<1>3. desk'[d].at = "idle" /\ desk'[d] \in Desk
  BY <1>2, NothingAsked
<1>4. DeskHolds(d)'
  BY <1>3 DEF DeskHolds
<1>5. DeskSees(d)'
  BY <1>3 DEF DeskSees
<1> QED BY <1>1, <1>4, <1>5, NothingAsked, DeskMoves

\* A question about a change finds the row in use or not.
LEMMA AskInv == ASSUME MasterInv, NEW d \in Desks, NEW x \in Values, item[x] # NoRow, AskUpdate(d, x)
                PROVE MasterInv'
<1>1. /\ item[x] \in Item /\ item[x].parent \in Above(x) \cup {NoRow}
      /\ item[x] = [parent |-> item[x].parent, active |-> item[x].active, id |-> item[x].id,
                    raced |-> item[x].raced]
      /\ item[x].active \in BOOLEAN /\ item[x].id \in Nat \X Values /\ item[x].raced \in BOOLEAN
  BY ItemFields DEF MasterInv, Tables
<1> PICK parent, active, id, raced :
      item[x] = [parent |-> parent, active |-> active, id |-> id, raced |-> raced]
  BY <1>1
<1>2. ASSUME NEW y \in Values \ {x}, SameType(x, y), update_master_data(d, x, y, item[x]) PROVE MasterInv'
  BY <1>1, <1>2, UpdateInv
<1>3. ASSUME NEW p \in Above(x) \cup {NoRow}, update_master_data(d, x, x, [item[x] EXCEPT !.parent = p])
      PROVE  MasterInv'
  <2> DEFINE t == [item[x] EXCEPT !.parent = p]
  <2>1. t = [parent |-> p, active |-> active, id |-> id, raced |-> raced]
    OBVIOUS
  <2>2. t \in Item /\ t.parent \in Above(x) \cup {NoRow}
    BY <1>1, <2>1, Types DEF Item
  <2> HIDE DEF t
  <2>3. update_master_data(d, x, x, t)
    BY <1>3 DEF t
  <2> QED BY <2>2, <2>3, Types, UpdateInv
<1>4. ASSUME update_master_data(d, x, x, [item[x] EXCEPT !.active = ~@]) PROVE MasterInv'
  <2> DEFINE b == ~item[x].active
             t == [item[x] EXCEPT !.active = b]
  <2>1. b \in BOOLEAN
    OBVIOUS
  <2>2. update_master_data(d, x, x, t)
    BY <1>4
  <2> HIDE DEF b
  <2>3. t = [parent |-> parent, active |-> b, id |-> id, raced |-> raced]
    OBVIOUS
  <2>4. t \in Item /\ t.parent \in Above(x) \cup {NoRow}
    BY <1>1, <2>1, <2>3 DEF Item
  <2> HIDE DEF t
  <2> QED BY <2>2, <2>4, Types, UpdateInv
<1> QED BY <1>2, <1>3, <1>4 DEF AskUpdate

-----------------------------------------------------------------------------
(* Steps that commit *)

\* What was under way while another committed knows it no more than it holds.
LEMMA StaleDesks ==
  ASSUME MasterInv, NEW by,
         \/ by \notin Desks /\ desk' = Stale(by)
         \/ by \in Desks /\ desk' = [Stale(by) EXCEPT ![by] = IdleDesk]
  PROVE  desk' \in [Desks -> Desk] /\ \A d \in Desks : DeskHolds(d)' /\ DeskSees(d)'
<1>1. desk \in [Desks -> Desk] /\ \A d \in Desks : DeskHolds(d)
  BY DEF MasterInv, Holding
<1>2. ASSUME NEW d \in Desks, d # by, desk[d].at # "idle"
      PROVE  desk'[d] \in Desk /\ DeskHolds(d)' /\ DeskSees(d)'
  <2> DEFINE yes == TRUE
  <2>1. yes = TRUE /\ yes \in BOOLEAN
    OBVIOUS
  <2>2. desk'[d] = [desk[d] EXCEPT !.stale = yes]
    BY <1>1, <1>2 DEF Stale
  <2> HIDE DEF yes
  <2>3. desk[d] = [at |-> desk[d].at, value |-> desk[d].value, renamed |-> desk[d].renamed,
                   read |-> desk[d].read, target |-> desk[d].target, stale |-> desk[d].stale]
    BY <1>1 DEF Desk
  <2> PICK f : f = desk'[d]
    OBVIOUS
  <2>4. f = [at |-> desk[d].at, value |-> desk[d].value, renamed |-> desk[d].renamed,
             read |-> desk[d].read, target |-> desk[d].target, stale |-> yes]
    BY <2>2, <2>3
  <2>5. f \in Desk
    BY <1>1, <2>1, <2>4 DEF Desk
  <2>6. /\ f.at = desk[d].at /\ f.value = desk[d].value /\ f.renamed = desk[d].renamed
        /\ f.read = desk[d].read /\ f.target = desk[d].target /\ f.stale = yes
    BY <2>4
  <2>7. DeskHolds(d)'
    BY <1>1, <2>5, <2>6 DEF DeskHolds
  <2>8. DeskSees(d)'
    BY <2>1, <2>6 DEF DeskSees
  <2> QED BY <2>5, <2>7, <2>8
<1>3. ASSUME NEW d \in Desks, d # by, desk[d].at = "idle"
      PROVE  desk'[d] \in Desk /\ DeskHolds(d)' /\ DeskSees(d)'
  <2>1. desk'[d] = desk[d] /\ desk[d] \in Desk
    BY <1>1, <1>3 DEF Stale
  <2> QED BY <1>3, <2>1 DEF DeskHolds, DeskSees
<1>4. ASSUME NEW d \in Desks, d = by
      PROVE  desk'[d] \in Desk /\ DeskHolds(d)' /\ DeskSees(d)'
  <2>1. desk'[d] = IdleDesk
    BY <1>4 DEF Stale
  <2>2. desk'[d].at = "idle" /\ desk'[d] \in Desk
    BY <2>1, NothingAsked
  <2> QED BY <2>2 DEF DeskHolds, DeskSees
<1>5. desk' = [d \in Desks |-> desk'[d]]
  BY DEF Stale
<1>6. \A d \in Desks : desk'[d] \in Desk /\ DeskHolds(d)' /\ DeskSees(d)'
  BY <1>2, <1>3, <1>4
<1>7. desk' \in [Desks -> Desk]
  BY <1>5, <1>6
<1> QED BY <1>6, <1>7

\* An upload that is over holds nothing.
LEMMA IdleUploads == ASSUME upload' = IdleUpload PROVE UploadHolds' /\ UploadSees'
<1>1. Start \in [Values -> Item \cup {NoRow}]
  BY StartAssumption
<1> QED BY <1>1 DEF UploadHolds, UploadSees, IdleUpload

\* An upload under way while somebody commits knows that it is stale.
LEMMA StaleUploads == ASSUME MasterInv, upload' = StaleUpload PROVE UploadHolds' /\ UploadSees'
<1>1. UploadHolds
  BY DEF MasterInv, Holding
<1>2. CASE upload.at # "writing"
  <2>1. upload' = upload
    BY <1>2 DEF StaleUpload
  <2> QED BY <1>1, <1>2, <2>1 DEF UploadHolds, UploadSees
<1>3. CASE upload.at = "writing"
  <2> DEFINE yes == TRUE
  <2>1. yes = TRUE /\ yes \in BOOLEAN
    OBVIOUS
  <2>2. upload' = [upload EXCEPT !.stale = yes]
    BY <1>3 DEF StaleUpload
  <2> HIDE DEF yes
  <2>3. upload' = [at |-> upload.at, file |-> upload.file, plan |-> upload.plan,
                   read |-> upload.read, stale |-> yes]
    BY <1>1, <2>2 DEF UploadHolds
  <2>4. UploadHolds'
    BY <1>1, <2>1, <2>3 DEF UploadHolds
  <2>5. upload'.stale = yes
    BY <2>3
  <2> QED BY <2>1, <2>4, <2>5 DEF UploadSees
<1> QED BY <1>2, <1>3

\* A planting under way while somebody commits knows that it is stale.
LEMMA StalePlantings == ASSUME MasterInv, planting' = StalePlanting PROVE PlantingHolds' /\ PlantingSees'
<1>1. PlantingHolds
  BY DEF MasterInv, Holding
<1>2. CASE planting.at = "idle"
  <2>1. planting' = planting
    BY <1>2 DEF StalePlanting
  <2> QED BY <1>1, <1>2, <2>1 DEF PlantingHolds, PlantingSees
<1>3. CASE planting.at # "idle"
  <2> DEFINE yes == TRUE
  <2>1. yes = TRUE /\ yes \in BOOLEAN
    OBVIOUS
  <2>2. planting' = [planting EXCEPT !.stale = yes]
    BY <1>3 DEF StalePlanting
  <2> HIDE DEF yes
  <2>3. planting = [at |-> planting.at, crop |-> planting.crop, named |-> planting.named,
                    p_code |-> planting.p_code, code |-> planting.code, stale |-> planting.stale]
    BY <1>1 DEF PlantingHolds, Planting
  <2> PICK f : f = planting'
    OBVIOUS
  <2>4. f = [at |-> planting.at, crop |-> planting.crop, named |-> planting.named,
             p_code |-> planting.p_code, code |-> planting.code, stale |-> yes]
    BY <2>2, <2>3
  <2>5. f \in Planting
    BY <1>1, <2>1, <2>4 DEF PlantingHolds, Planting
  <2>6. f.at = planting.at /\ f.named = planting.named /\ f.code = planting.code /\ f.stale = yes
    BY <2>4
  <2>7. PlantingHolds'
    BY <1>1, <2>5, <2>6 DEF PlantingHolds
  <2>8. PlantingSees'
    BY <2>1, <2>6 DEF PlantingSees
  <2> QED BY <2>7, <2>8
<1> QED BY <1>2, <1>3

\* A row that is new has an id no other has; one that was has its own.
LEMMA TablesKept ==
  ASSUME MasterInv, commits < MaxCommits, commits' = commits + 1,
         item' \in [Values -> Item \cup {NoRow}],
         \A x \in Values : item'[x] # NoRow =>
            /\ item'[x].parent \in Above(x) \cup {NoRow}
            /\ \/ item'[x].id = <<commits + 1, x>>
               \/ \E y \in Values : item[y] # NoRow /\ item'[x].id = item[y].id /\ SameType(x, y),
         \A x, z \in Values : x # z /\ item'[x] # NoRow /\ item'[z] # NoRow => item'[x].id # item'[z].id
  PROVE  Tables'
<1>1. commits \in Nat /\ commits' \in 0 .. MaxCommits
  BY Bounds DEF MasterInv, Tables
<1>2. \A x \in Values : item'[x] # NoRow =>
         item'[x].id[1] \in 0 .. commits' /\ SameType(item'[x].id[2], x)
  <2> SUFFICES ASSUME NEW x \in Values, item'[x] # NoRow
               PROVE  item'[x].id[1] \in 0 .. commits' /\ SameType(item'[x].id[2], x)
    OBVIOUS
  <2>1. CASE item'[x].id = <<commits + 1, x>>
    BY <1>1, <2>1, Types
  <2>2. ASSUME NEW y \in Values, item[y] # NoRow, item'[x].id = item[y].id, SameType(x, y)
        PROVE  item'[x].id[1] \in 0 .. commits' /\ SameType(item'[x].id[2], x)
    <3>1. item[y].id[1] \in 0 .. commits /\ SameType(item[y].id[2], y)
      BY <2>2 DEF MasterInv, Tables
    <3>2. SameType(y, x) /\ SameType(item[y].id[2], x)
      BY <2>2, <3>1, Types
    <3> QED BY <1>1, <2>2, <3>1, <3>2
  <2> QED BY <2>1, <2>2
<1> QED BY <1>1, <1>2 DEF Tables

\* A P.Code that an action makes active either raced another or is alone where it is.
LEMMA OneKept ==
  ASSUME MasterInv,
         \A q \in PCodes : item'[q] # NoRow /\ item'[q].active =>
            \/ item'[q] = item[q]
            \/ item'[q].raced
            \/ \A r \in PCodes \ {q} : ~Owns(item', item'[q].parent, r)
  PROVE  OneActivePCode'
  BY DEF MasterInv, OneActivePCode, Active, Owns

\* A commit that is typed, and keeps one active P.Code of a variety, keeps the invariant.
LEMMA CommitInv ==
  ASSUME MasterInv, Tables', OneActivePCode', NEW by,
         \/ by \notin Desks /\ desk' = Stale(by)
         \/ by \in Desks /\ desk' = [Stale(by) EXCEPT ![by] = IdleDesk],
         upload' \in {StaleUpload, IdleUpload}, planting' = StalePlanting, UNCHANGED planted
  PROVE  MasterInv'
<1>1. desk' \in [Desks -> Desk] /\ \A d \in Desks : DeskHolds(d)' /\ DeskSees(d)'
  BY StaleDesks
<1>2. UploadHolds' /\ UploadSees'
  BY StaleUploads, IdleUploads
<1>3. PlantingHolds' /\ PlantingSees'
  BY StalePlantings
<1>4. PlantedTyped'
  BY DEF MasterInv, Holding, PlantedTyped
<1> QED BY <1>1, <1>2, <1>3, <1>4 DEF MasterInv, Holding, Seeing

-----------------------------------------------------------------------------
(* The forms commit *)

\* A new value is committed.
LEMMA CreateSaved == ASSUME MasterInv, NEW d \in Desks, SaveCreate(d) PROVE MasterInv'
<1> DEFINE x == desk[d].value
           t == desk[d].target
           row == [t EXCEPT !.id = <<commits + 1, x>>, !.raced = desk[d].stale]
<1>1. /\ desk[d].at = "create" /\ item[x] = NoRow
      /\ commits < MaxCommits /\ commits' = commits + 1 /\ item' = [item EXCEPT ![x] = row]
      /\ desk' = [Stale(d) EXCEPT ![d] = IdleDesk]
      /\ upload' = StaleUpload /\ planting' = StalePlanting /\ UNCHANGED planted
  BY DEF SaveCreate, Commit
<1>2. /\ x \in Values /\ t \in Item /\ t.parent \in Above(x) \cup {NoRow}
      /\ desk[d].stale \in BOOLEAN
  BY <1>1 DEF MasterInv, Holding, DeskHolds, Desk
<1>3. item \in [Values -> Item \cup {NoRow}] /\ commits \in Nat /\ MaxCommits \in Nat
  BY Bounds DEF MasterInv, Tables
<1>4. t = [parent |-> t.parent, active |-> t.active, id |-> t.id, raced |-> t.raced] /\ t.active \in BOOLEAN
  BY <1>2, ItemFields
<1> PICK w : w = row
  OBVIOUS
<1>5. w = [parent |-> t.parent, active |-> t.active, id |-> <<commits + 1, x>>, raced |-> desk[d].stale]
  BY <1>4
<1>6. /\ w.parent = t.parent /\ w.active = t.active /\ w.id = <<commits + 1, x>>
      /\ w.raced = desk[d].stale
  BY <1>5
<1>7. w \in Item
  <2>1. t.parent \in Values \cup {NoRow} /\ <<commits + 1, x>> \in Nat \X Values
    BY <1>2, <1>3, ItemFields
  <2> PICK id \in Nat \X Values : id = <<commits + 1, x>>
    BY <2>1
  <2> PICK parent \in Values \cup {NoRow} : parent = t.parent
    BY <2>1
  <2>2. w = [parent |-> parent, active |-> t.active, id |-> id, raced |-> desk[d].stale]
    BY <1>5
  <2> QED BY <1>2, <1>4, <2>2 DEF Item
<1>8. item' = [item EXCEPT ![x] = w]
  BY <1>1
<1>9. DeskSees(d)
  BY DEF MasterInv, Seeing
<1> HIDE DEF row, x, t
<1>10. item'[x] = w /\ \A y \in Values : y # x => item'[y] = item[y]
  BY <1>2, <1>3, <1>8
<1>11. item' \in [Values -> Item \cup {NoRow}]
  BY <1>2, <1>3, <1>7, <1>8
<1>12. \A y \in Values : y # x /\ item[y] # NoRow => item[y].id # w.id
  <2>1. \A y \in Values : item[y] # NoRow => item[y].id[1] \in 0 .. commits
    BY DEF MasterInv, Tables
  <2>2. w.id[1] = commits + 1
    BY <1>6
  <2> QED BY <1>3, <2>1, <2>2
<1>13. \A y \in Values : item'[y] # NoRow =>
            /\ item'[y].parent \in Above(y) \cup {NoRow}
            /\ \/ item'[y].id = <<commits + 1, y>>
               \/ \E z \in Values : item[z] # NoRow /\ item'[y].id = item[z].id /\ SameType(y, z)
  <2> SUFFICES ASSUME NEW y \in Values, item'[y] # NoRow
               PROVE  /\ item'[y].parent \in Above(y) \cup {NoRow}
                      /\ \/ item'[y].id = <<commits + 1, y>>
                         \/ \E z \in Values : item[z] # NoRow /\ item'[y].id = item[z].id /\ SameType(y, z)
    OBVIOUS
  <2>1. CASE y = x
    BY <1>2, <1>6, <1>10, <2>1
  <2>2. CASE y # x
    BY <1>10, <2>2, Types DEF MasterInv, Tables
  <2> QED BY <2>1, <2>2
<1>14. \A y, z \in Values : y # z /\ item'[y] # NoRow /\ item'[z] # NoRow => item'[y].id # item'[z].id
  BY <1>10, <1>12 DEF MasterInv, Tables
<1>15. Tables'
  BY <1>1, <1>11, <1>13, <1>14, TablesKept
<1>16. OneActivePCode'
  <2>1. ASSUME x \in PCodes, ~w.raced, w.active
        PROVE  \A r \in PCodes \ {x} : ~Owns(item', w.parent, r)
    <3>1. assert_p_code_assignable(t.parent, x)
      BY <1>1, <1>6, <1>9, <2>1 DEF DeskSees, x, t
    <3>2. \A r \in PCodes \ {x} : ~(Active(r) /\ item[r].parent = w.parent)
      BY <1>6, <3>1 DEF assert_p_code_assignable, active_p_code_for_variety
    <3> QED BY <1>10, <3>2 DEF Owns, Active, Values
  <2>2. \A q \in PCodes : item'[q] # NoRow /\ item'[q].active =>
            \/ item'[q] = item[q]
            \/ item'[q].raced
            \/ \A r \in PCodes \ {q} : ~Owns(item', item'[q].parent, r)
    BY <1>10, <2>1 DEF Values
  <2> QED BY <2>2, OneKept
<1> QED BY <1>1, <1>15, <1>16, CommitInv

\* The row a form has read is of the type it was read as, and the same while nothing raced it.
LEMMA Found ==
  ASSUME MasterInv, NEW d \in Desks, desk[d].at \in {"update", "delete"},
         NEW x \in Where(desk[d].read)
  PROVE  /\ x \in Values /\ item[x] \in Item /\ SameType(x, desk[d].value)
         /\ item[x].parent \in Above(x) \cup {NoRow}
         /\ desk[d].at = "update" /\ ~desk[d].stale => x = desk[d].value /\ item[x] = desk[d].read
<1>1. x \in Values /\ item[x] # NoRow /\ item[x].id = desk[d].read.id /\ desk[d].read # NoRow
  BY DEF Where
<1>2. /\ item[x] \in Item /\ SameType(item[x].id[2], x) /\ item[x].parent \in Above(x) \cup {NoRow}
  BY <1>1 DEF MasterInv, Tables
<1>3. DeskHolds(d) /\ DeskSees(d)
  BY DEF MasterInv, Holding, Seeing
<1>4. SameType(desk[d].read.id[2], desk[d].value) /\ desk[d].value \in Values
  BY <1>3 DEF DeskHolds
<1>5. SameType(x, desk[d].value)
  BY <1>1, <1>2, <1>4, Types
<1>6. ASSUME desk[d].at = "update", ~desk[d].stale PROVE x = desk[d].value /\ item[x] = desk[d].read
  <2>1. desk[d].read = item[desk[d].value]
    BY <1>3, <1>6 DEF DeskSees
  <2>2. x = desk[d].value
    BY <1>1, <1>4, <2>1 DEF MasterInv, Tables
  <2> QED BY <2>1, <2>2
<1> QED BY <1>1, <1>2, <1>5, <1>6

\* A deletion is committed.
LEMMA DeleteSaved == ASSUME MasterInv, NEW d \in Desks, SaveDelete(d) PROVE MasterInv'
<1> PICK x \in Where(desk[d].read) :
       commits < MaxCommits /\ commits' = commits + 1 /\ item' = [item EXCEPT ![x] = NoRow]
  BY DEF SaveDelete, Commit
<1>1. /\ desk[d].at = "delete" /\ desk' = [Stale(d) EXCEPT ![d] = IdleDesk]
      /\ upload' = StaleUpload /\ planting' = StalePlanting /\ UNCHANGED planted
  BY DEF SaveDelete
<1>2. x \in Values
  BY <1>1, Found
<1>3. item \in [Values -> Item \cup {NoRow}]
  BY DEF MasterInv, Tables
<1>4. item'[x] = NoRow /\ \A y \in Values : y # x => item'[y] = item[y]
  BY <1>2, <1>3
<1>5. item' \in [Values -> Item \cup {NoRow}]
  BY <1>2, <1>3
<1>6. \A y \in Values : item'[y] # NoRow =>
            /\ item'[y].parent \in Above(y) \cup {NoRow}
            /\ \/ item'[y].id = <<commits + 1, y>>
               \/ \E z \in Values : item[z] # NoRow /\ item'[y].id = item[z].id /\ SameType(y, z)
  BY <1>4, Types DEF MasterInv, Tables
<1>7. \A y, z \in Values : y # z /\ item'[y] # NoRow /\ item'[z] # NoRow => item'[y].id # item'[z].id
  BY <1>4 DEF MasterInv, Tables
<1>8. Tables'
  BY <1>5, <1>6, <1>7, TablesKept
<1>9. OneActivePCode'
  <2>1. \A q \in PCodes : item'[q] # NoRow => item'[q] = item[q]
    BY <1>4 DEF Values
  <2> QED BY <2>1, OneKept
<1> QED BY <1>1, <1>8, <1>9, CommitInv

\* What a form's columns make of the row.
Rewritten(now, asked) == [update(now, asked.read, asked.target) EXCEPT !.raced = asked.stale]

\* A change keeps the identity of its row and has the shape of one.
LEMMA Updated ==
  \A now \in Item, asked \in Desk : asked.read \in Item /\ asked.target \in Item =>
     /\ Rewritten(now, asked) \in Item
     /\ Rewritten(now, asked).id = now.id
     /\ Rewritten(now, asked).raced = asked.stale
     /\ Rewritten(now, asked).parent \in {now.parent, asked.target.parent}
     /\ now = asked.read => /\ Rewritten(now, asked).parent = asked.target.parent
                           /\ Rewritten(now, asked).active = asked.target.active
<1> TAKE now \in Item, asked \in Desk
<1> HAVE asked.read \in Item /\ asked.target \in Item
<1>0. asked.stale \in BOOLEAN
  BY DEF Desk
<1> PICK read \in Item : read = asked.read
  OBVIOUS
<1> PICK target \in Item : target = asked.target
  OBVIOUS
<1> PICK stale \in BOOLEAN : stale = asked.stale
  BY <1>0
<1> PICK row : row = Rewritten(now, asked)
  OBVIOUS
<1> DEFINE p == IF target.parent # read.parent THEN target.parent ELSE now.parent
           b == IF target.active # read.active THEN target.active ELSE now.active
<1>1. /\ now = [parent |-> now.parent, active |-> now.active, id |-> now.id, raced |-> now.raced]
      /\ now.parent \in Values \cup {NoRow} /\ now.active \in BOOLEAN /\ now.id \in Nat \X Values
      /\ target.parent \in Values \cup {NoRow} /\ target.active \in BOOLEAN
      /\ read.active \in BOOLEAN
  BY ItemFields
<1>2. p \in {now.parent, target.parent} /\ (now = read => p = target.parent)
  OBVIOUS
<1>3. b \in {now.active, target.active} /\ (now = read => b = target.active)
  BY Zenon
<1>4. update(now, read, target) = [now EXCEPT !.parent = p, !.active = b]
  BY Zenon DEF update
<1> HIDE DEF p, b
<1> PICK u : u = [now EXCEPT !.parent = p, !.active = b]
  OBVIOUS
<1>5. u = [parent |-> p, active |-> b, id |-> now.id, raced |-> now.raced]
  BY <1>1
<1>6. row = [u EXCEPT !.raced = stale]
  BY <1>4 DEF Rewritten
<1>7. row = [parent |-> p, active |-> b, id |-> now.id, raced |-> stale]
  BY <1>5, <1>6
<1>8. row \in Item
  <2>1. p \in Values \cup {NoRow}
    BY <1>1, <1>2
  <2>2. b \in BOOLEAN
    BY <1>1, <1>3
  <2> QED BY <1>1, <1>7, <2>1, <2>2, ItemMade, Zenon
<1>9. row.parent = p /\ row.active = b /\ row.id = now.id /\ row.raced = stale
  BY <1>7
<1> QED BY <1>2, <1>3, <1>8, <1>9, Zenon

Named(d, x) == IF desk[d].renamed = desk[d].value THEN x ELSE desk[d].renamed
SavedAs(d, x, y, row) ==
    /\ y # x => item[y] = NoRow
    /\ Commit([[item EXCEPT ![x] = NoRow] EXCEPT ![y] = row])

\* A change is committed, in place or under another name.
LEMMA UpdateSaved == ASSUME MasterInv, NEW d \in Desks, SaveUpdate(d) PROVE MasterInv'
<1> PICK x \in Where(desk[d].read) :
       SavedAs(d, x, Named(d, x), Rewritten(item[x], desk[d]))
  BY Zenon DEF SaveUpdate, SavedAs, Named, Rewritten
<1> PICK y : y = Named(d, x)
  OBVIOUS
<1> PICK row : row = Rewritten(item[x], desk[d])
  OBVIOUS
<1>1. /\ desk[d].at = "update" /\ desk' = [Stale(d) EXCEPT ![d] = IdleDesk]
      /\ upload' = StaleUpload /\ planting' = StalePlanting /\ UNCHANGED planted
  BY DEF SaveUpdate
<1>2. /\ y # x => item[y] = NoRow
      /\ commits < MaxCommits /\ commits' = commits + 1
      /\ item' = [[item EXCEPT ![x] = NoRow] EXCEPT ![y] = row]
  BY DEF Commit, SavedAs
<1>3. /\ x \in Values /\ item[x] \in Item /\ SameType(x, desk[d].value)
      /\ item[x].parent \in Above(x) \cup {NoRow}
      /\ ~desk[d].stale => x = desk[d].value /\ item[x] = desk[d].read
  BY <1>1, Found
<1>4. DeskHolds(d) /\ DeskSees(d)
  BY DEF MasterInv, Holding, Seeing
<1>5. /\ desk[d].value \in Values /\ desk[d].renamed \in Values
      /\ SameType(desk[d].value, desk[d].renamed)
      /\ desk[d].read \in Item /\ desk[d].target \in Item /\ desk[d].stale \in BOOLEAN
      /\ desk[d].target.parent \in Above(desk[d].value) \cup {NoRow}
  BY <1>1, <1>4 DEF DeskHolds, Desk
<1>6. y \in Values /\ SameType(y, x) /\ SameType(x, y)
  BY <1>3, <1>5, Types DEF Named
<1>7. /\ row \in Item /\ row.id = item[x].id /\ row.raced = desk[d].stale
      /\ row.parent \in {item[x].parent, desk[d].target.parent}
      /\ item[x] = desk[d].read =>
            row.parent = desk[d].target.parent /\ row.active = desk[d].target.active
  <2>1. item[x] \in Item /\ desk[d] \in Desk /\ desk[d].read \in Item /\ desk[d].target \in Item
    BY <1>3, <1>4, <1>5 DEF DeskHolds
  <2> QED BY <2>1, Updated
<1>8. row.parent \in Above(y) \cup {NoRow}
  BY <1>3, <1>5, <1>6, <1>7, Types
<1>9. item \in [Values -> Item \cup {NoRow}]
  BY DEF MasterInv, Tables
<1>10. /\ item'[y] = row /\ (y # x => item'[x] = NoRow)
       /\ \A z \in Values : z # x /\ z # y => item'[z] = item[z]
  BY <1>2, <1>3, <1>6, <1>9
<1>11. item' \in [Values -> Item \cup {NoRow}]
  BY <1>2, <1>3, <1>6, <1>7, <1>9
<1>12. item[x] # NoRow /\ row # NoRow
  BY <1>3, <1>7, Bounds
<1>13. \A z \in Values : item'[z] # NoRow =>
            /\ item'[z].parent \in Above(z) \cup {NoRow}
            /\ \/ item'[z].id = <<commits + 1, z>>
               \/ \E v \in Values : item[v] # NoRow /\ item'[z].id = item[v].id /\ SameType(z, v)
  <2> SUFFICES ASSUME NEW z \in Values, item'[z] # NoRow
               PROVE  /\ item'[z].parent \in Above(z) \cup {NoRow}
                      /\ \E v \in Values : item[v] # NoRow /\ item'[z].id = item[v].id /\ SameType(z, v)
    OBVIOUS
  <2>1. CASE z = y
    BY <1>3, <1>6, <1>7, <1>8, <1>10, <1>12, <2>1
  <2>2. CASE z # y
    <3>1. z # x /\ item'[z] = item[z]
      BY <1>10, <2>2
    <3> QED BY <3>1, Types DEF MasterInv, Tables
  <2> QED BY <2>1, <2>2
<1>14. \A z, v \in Values : z # v /\ item'[z] # NoRow /\ item'[v] # NoRow => item'[z].id # item'[v].id
  <2>1. \A z \in Values : z # y /\ item'[z] # NoRow => z # x /\ item'[z] = item[z]
    BY <1>10
  <2>2. \A z \in Values : z # y /\ item'[z] # NoRow => item'[z].id # row.id
    BY <1>3, <1>7, <1>12, <2>1 DEF MasterInv, Tables
  <2>3. \A z, v \in Values : z # y /\ v # y /\ z # v /\ item'[z] # NoRow /\ item'[v] # NoRow
                               => item'[z].id # item'[v].id
    BY <2>1 DEF MasterInv, Tables
  <2> QED BY <1>10, <2>2, <2>3
<1>15. Tables'
  BY <1>2, <1>11, <1>13, <1>14, TablesKept
<1>16. OneActivePCode'
  <2>1. ASSUME y \in PCodes, ~row.raced, row.active
        PROVE  \A r \in PCodes \ {y} : ~Owns(item', row.parent, r)
    <3>1. /\ x = desk[d].value /\ row.parent = desk[d].target.parent /\ desk[d].target.active
          /\ ~desk[d].stale
      BY <1>3, <1>7, <2>1
    <3>2. x \in PCodes
      BY <1>6, <2>1, Types
    <3>3. assert_p_code_assignable(row.parent, x)
      BY <1>1, <1>4, <3>1, <3>2 DEF DeskSees
    <3>4. \A r \in PCodes \ {x} : ~(Active(r) /\ item[r].parent = row.parent)
      BY <3>3 DEF assert_p_code_assignable, active_p_code_for_variety
    <3>5. \A r \in PCodes \ {y} : item'[r] # NoRow => r # x /\ item'[r] = item[r]
      BY <1>10 DEF Values
    <3> QED BY <3>4, <3>5 DEF Owns, Active
  <2>2. \A q \in PCodes : q # y /\ item'[q] # NoRow => item'[q] = item[q]
    BY <1>10 DEF Values
  <2>3. \A q \in PCodes : item'[q] # NoRow /\ item'[q].active =>
            \/ item'[q] = item[q]
            \/ item'[q].raced
            \/ \A r \in PCodes \ {q} : ~Owns(item', item'[q].parent, r)
    BY <1>10, <2>1, <2>2
  <2> QED BY <2>3, OneKept
<1> QED BY <1>1, <1>15, <1>16, CommitInv

-----------------------------------------------------------------------------
(* The import *)

\* A step of the import that commits nothing.
LEMMA UploadMoves ==
  ASSUME MasterInv, UploadHolds', UploadSees', UNCHANGED <<item, desk, planting, planted, commits>>
  PROVE  MasterInv'
<1>1. \A d \in Desks : DeskHolds(d)' /\ DeskSees(d)'
  BY DEF MasterInv, Holding, Seeing, DeskHolds, DeskSees, assert_p_code_assignable,
         active_p_code_for_variety, Active
<1>2. PlantingHolds' /\ PlantedTyped' /\ PlantingSees'
  BY DEF MasterInv, Holding, Seeing, PlantingHolds, PlantedTyped, PlantingSees
<1> QED BY <1>1, <1>2, TablesStand DEF MasterInv, Holding, Seeing

\* A file is compared with the table and shown.
LEMMA ShownInv == ASSUME MasterInv, NEW file \in Files, build_preview_taxonomy(file) PROVE MasterInv'
<1> DEFINE rows == _build_row_states(file)
<1>1. /\ upload' = [IdleUpload EXCEPT !.at = "shown", !.file = file, !.plan = rows]
      /\ UNCHANGED <<item, desk, planting, planted, commits>>
  BY DEF build_preview_taxonomy
<1>2. \A p \in rows : p.row \in file
  BY DEF _build_row_states
<1>3. file \subseteq FileRow /\ Start \in [Values -> Item \cup {NoRow}]
  BY FilesAssumption, StartAssumption
<1> HIDE DEF rows
<1> DEFINE no == FALSE
<1>4. no \in BOOLEAN
  OBVIOUS
<1>5. IdleUpload = [at |-> "idle", file |-> {}, plan |-> {}, read |-> Start, stale |-> no]
  BY DEF IdleUpload
<1> HIDE DEF no
<1>6. upload' = [at |-> "shown", file |-> file, plan |-> rows, read |-> Start, stale |-> no]
  BY <1>1, <1>5
<1>7. UploadHolds'
  BY <1>2, <1>3, <1>4, <1>6 DEF UploadHolds
<1>8. UploadSees'
  BY <1>6 DEF UploadSees
<1> QED BY <1>1, <1>7, <1>8, UploadMoves

\* A commit compares the file again.
LEMMA ChecksInv == ASSUME MasterInv, CommitChecks PROVE MasterInv'
<1>1. upload.at = "shown" /\ UNCHANGED <<item, desk, planting, planted, commits>>
  BY DEF CommitChecks
<1>2. UploadHolds /\ item \in [Values -> Item \cup {NoRow}]
  BY DEF MasterInv, Holding, Tables
<1>3. CASE upload' = IdleUpload
  BY <1>1, <1>3, IdleUploads, UploadMoves
<1>4. ASSUME _build_row_states(upload.file) = upload.plan, \A p \in upload.plan : ~p.error,
             upload' = [upload EXCEPT !.at = "writing", !.read = item]
      PROVE  MasterInv'
  <2>1. upload' = [at |-> "writing", file |-> upload.file, plan |-> upload.plan,
                   read |-> item, stale |-> upload.stale]
    BY <1>2, <1>4 DEF UploadHolds
  <2>2. UploadHolds'
    BY <1>1, <1>2, <2>1 DEF UploadHolds
  <2>3. upload'.file = upload.file /\ upload'.plan = upload.plan /\ upload'.read = item
    BY <2>1
  <2>4. _build_row_states(upload.file)' = _build_row_states(upload.file)
    BY <1>1, <2>3 DEF _build_row_states, RowErrors, Seen, active_p_code_for_variety, Active
  <2>5. UploadSees'
    BY <1>1, <1>4, <2>3, <2>4 DEF UploadSees
  <2> QED BY <1>1, <2>2, <2>5, UploadMoves
<1> QED BY <1>3, <1>4 DEF CommitChecks

\* An upload is dismissed.
LEMMA DismissInv == ASSUME MasterInv, Dismiss PROVE MasterInv'
  BY IdleUploads, UploadMoves DEF Dismiss

\* A row of a plan that creates a value as n, and one that switches it to b.
Makes(p, x, n) ==
    \/ /\ n = [parent |-> NoRow, active |-> TRUE] /\ x \in Crops
       /\ p.row.crop = x /\ p.crop = NoRow
    \/ /\ n = [parent |-> p.row.crop, active |-> p.row.status] /\ x \in Varieties
       /\ p.row.variety = x /\ p.variety = NoRow
    \/ /\ n = [parent |-> p.row.variety, active |-> TRUE] /\ x \in PCodes
       /\ p.row.p_code = x /\ p.p_code = NoRow
Turns(p, x, b) ==
    \/ /\ b = p.row.status /\ x \in Varieties /\ p.row.variety = x
       /\ p.variety # NoRow /\ p.variety.active # p.row.status
    \/ /\ b = TRUE /\ x \in PCodes /\ p.row.p_code = x /\ p.p_code # NoRow /\ ~p.p_code.active

\* What a file makes and turns comes from its plan.
LEMMA Writes ==
  ASSUME MasterInv, NEW x \in Values
  PROVE  /\ \A n \in Creates(x) : \E p \in upload.plan : Makes(p, x, n)
         /\ \A b \in Switches(x) : \E p \in upload.plan : Turns(p, x, b)
         /\ \A p \in upload.plan :
               /\ p.row \in upload.file /\ p.row.crop \in Crops /\ p.row.status \in BOOLEAN
               /\ p.row.variety \in Varieties \cup {NoRow} /\ p.row.p_code \in PCodes \cup {NoRow}
<1>1. \A p \in upload.plan :
         /\ p.row \in upload.file /\ p.row.crop \in Crops /\ p.row.status \in BOOLEAN
         /\ p.row.variety \in Varieties \cup {NoRow} /\ p.row.p_code \in PCodes \cup {NoRow}
  BY DEF MasterInv, Holding, UploadHolds, FileRow
<1>2. ASSUME NEW n \in Creates(x) PROVE \E p \in upload.plan : Makes(p, x, n)
  BY <1>1, Bounds, Zenon DEF Creates, Makes
<1>3. ASSUME NEW b \in Switches(x) PROVE \E p \in upload.plan : Turns(p, x, b)
  <2>1. \/ \E p \in upload.plan : /\ p.row.variety = x /\ p.variety # NoRow
                                   /\ p.variety.active # p.row.status /\ b = p.row.status
        \/ \E p \in upload.plan : p.row.p_code = x /\ p.p_code # NoRow /\ ~p.p_code.active /\ b = TRUE
    BY <1>3, Zenon DEF Switches
  <2>2. \A p \in upload.plan : p.row.variety = x => x \in Varieties
    BY <1>1, Bounds
  <2>3. \A p \in upload.plan : p.row.p_code = x => x \in PCodes
    BY <1>1, Bounds
  <2>4. ASSUME NEW p \in upload.plan, p.row.variety = x, p.variety # NoRow,
               p.variety.active # p.row.status, b = p.row.status
        PROVE  Turns(p, x, b)
    BY <2>2, <2>4, Zenon DEF Turns
  <2>5. ASSUME NEW p \in upload.plan, p.row.p_code = x, p.p_code # NoRow, ~p.p_code.active, b = TRUE
        PROVE  Turns(p, x, b)
    BY <2>3, <2>5, Zenon DEF Turns
  <2> QED BY <2>1, <2>4, <2>5, Zenon
<1> QED BY <1>1, <1>2, <1>3, Zenon

\* What a file leaves at a value.
Landing(x) ==
    IF Creates(x) # {}
    THEN LET new == CHOOSE n \in Creates(x) : TRUE
         IN  [parent |-> new.parent, active |-> new.active,
              id |-> <<commits + 1, x>>, raced |-> upload.stale]
    ELSE IF Switched(x) # {}
    THEN [item[x] EXCEPT !.active = CHOOSE b \in Switched(x) : TRUE, !.raced = upload.stale]
    ELSE item[x]

\* What becomes of one value as a file lands.
LEMMA Landings ==
  ASSUME NEW x
  PROVE  /\ Creates(x) # {} => \E n \in Creates(x) :
               Landing(x) = [parent |-> n.parent, active |-> n.active,
                             id |-> <<commits + 1, x>>, raced |-> upload.stale]
         /\ Creates(x) = {} /\ Switched(x) # {} => \E b \in Switched(x) :
               Landing(x) = [item[x] EXCEPT !.active = b, !.raced = upload.stale]
         /\ Creates(x) = {} /\ Switched(x) = {} => Landing(x) = item[x]
<1>1. Creates(x) # {} => (CHOOSE n \in Creates(x) : TRUE) \in Creates(x)
  BY Zenon
<1>2. Switched(x) # {} => (CHOOSE b \in Switched(x) : TRUE) \in Switched(x)
  BY Zenon
<1>3. ASSUME Creates(x) # {}
      PROVE  \E n \in Creates(x) :
               Landing(x) = [parent |-> n.parent, active |-> n.active,
                             id |-> <<commits + 1, x>>, raced |-> upload.stale]
  BY <1>1, <1>3, Zenon DEF Landing
<1>4. ASSUME Creates(x) = {}, Switched(x) # {}
      PROVE  \E b \in Switched(x) :
               Landing(x) = [item[x] EXCEPT !.active = b, !.raced = upload.stale]
  BY <1>2, <1>4, Zenon DEF Landing
<1>5. ASSUME Creates(x) = {}, Switched(x) = {} PROVE Landing(x) = item[x]
  BY <1>5, Zenon DEF Landing
<1> QED BY <1>3, <1>4, <1>5, Zenon

\* The file is written, or nothing happens but to the import.
LEMMA FileOutcomes ==
  ASSUME CommitFile
  PROVE  /\ upload' = IdleUpload /\ UNCHANGED planted
         /\ \/ UNCHANGED <<item, desk, planting, commits>>
            \/ /\ \A x \in Values : /\ Creates(x) # {} => item[x] = NoRow
                                    /\ Switches(x) # {} => Where(upload.read[x]) # {}
               /\ commits < MaxCommits /\ commits' = commits + 1
               /\ item' = [x \in Values |-> Landing(x)]
               /\ desk' = Stale(NoRow) /\ planting' = StalePlanting
  BY Zenon DEF CommitFile, Commit, Landing

\* What is switched is there, and is the row its plan was made for while nothing raced it.
LEMMA Switching ==
  ASSUME MasterInv, upload.at = "writing", NEW x \in Values, NEW b \in Switched(x)
  PROVE  /\ item[x] # NoRow /\ b \in BOOLEAN
         /\ ~upload.stale => b \in Switches(x)
<1> PICK z \in Values : x \in Where(upload.read[z]) /\ b \in Switches(z)
  BY DEF Switched
<1>1. item[x] # NoRow /\ upload.read[z] # NoRow /\ item[x].id = upload.read[z].id
  BY DEF Where
<1>2. b \in BOOLEAN
  <2>1. TRUE \in BOOLEAN
    OBVIOUS
  <2>2. \A p \in upload.plan : p.row.status \in BOOLEAN
    BY Writes
  <2> PICK p \in upload.plan : Turns(p, z, b)
    BY Writes
  <2>3. b = p.row.status \/ b = TRUE
    BY Zenon DEF Turns
  <2> QED BY <2>1, <2>2, <2>3, Zenon
<1>3. ASSUME ~upload.stale PROVE x = z
  <2>1. upload.read = item
    BY <1>3 DEF MasterInv, Seeing, UploadSees
  <2> QED BY <1>1, <2>1 DEF MasterInv, Tables
<1> QED BY <1>1, <1>2, <1>3, Zenon

\* A value that a file creates has its parent in the type above it.
LEMMA CreatedTyped ==
  ASSUME MasterInv, NEW x \in Values, NEW n \in Creates(x)
  PROVE  n.parent \in Above(x) \cup {NoRow} /\ n.active \in BOOLEAN
<1> PICK p \in upload.plan : Makes(p, x, n)
  BY Writes
<1>0. \/ n = [parent |-> NoRow, active |-> TRUE] /\ x \in Crops
      \/ n = [parent |-> p.row.crop, active |-> p.row.status] /\ x \in Varieties
      \/ n = [parent |-> p.row.variety, active |-> TRUE] /\ x \in PCodes
  BY Zenon DEF Makes
<1> DEFINE yes == TRUE
<1>1. yes = TRUE /\ yes \in BOOLEAN
  OBVIOUS
<1> HIDE DEF yes
<1>2. /\ p.row.crop \in Crops /\ p.row.status \in BOOLEAN
      /\ p.row.variety \in Varieties \cup {NoRow}
  BY Writes
<1>3. /\ x \in PCodes => Above(x) = Varieties
      /\ x \in Varieties => Above(x) = Crops
  BY ValuesAssumption DEF Above
<1>4. CASE n = [parent |-> p.row.crop, active |-> p.row.status] /\ x \in Varieties
  BY <1>2, <1>3, <1>4
<1>5. ASSUME NEW parent, n = [parent |-> parent, active |-> TRUE]
      PROVE  n.parent = parent /\ n.active \in BOOLEAN
  <2>1. n = [parent |-> parent, active |-> yes]
    BY <1>1, <1>5, Zenon
  <2> QED BY <1>1, <2>1
<1> QED BY <1>0, <1>2, <1>3, <1>4, <1>5

\* What is created is a row, and what is switched is the row it was.
LEMMA Made ==
  ASSUME MasterInv, upload.at = "writing", NEW x \in Values, item[x] = NoRow, Creates(x) # {}
  PROVE  Landing(x) # NoRow
<1> PICK n \in Creates(x) : Landing(x) = [parent |-> n.parent, active |-> n.active,
                                          id |-> <<commits + 1, x>>, raced |-> upload.stale]
  BY Landings
<1>1. n.parent \in Above(x) \cup {NoRow} /\ n.active \in BOOLEAN
  BY CreatedTyped
<1>2. /\ n.parent \in Values \cup {NoRow} /\ <<commits + 1, x>> \in Nat \X Values
      /\ upload.stale \in BOOLEAN
  BY <1>1, Bounds, Types DEF MasterInv, Tables, Holding, UploadHolds
<1>3. Landing(x) \in Item
  BY <1>1, <1>2, ItemMade, Zenon
<1> QED BY <1>3, Bounds

\* A value that a file switches keeps its name, parent and identity.
LEMMA Turned ==
  ASSUME MasterInv, upload.at = "writing", NEW x \in Values, NEW b \in Switched(x),
         Landing(x) = [item[x] EXCEPT !.active = b, !.raced = upload.stale]
  PROVE  /\ Landing(x) \in Item /\ Landing(x) # NoRow /\ Landing(x).parent = item[x].parent
         /\ Landing(x).active = b /\ Landing(x).id = item[x].id /\ Landing(x).raced = upload.stale
<1>1. item[x] # NoRow /\ b \in BOOLEAN /\ upload.stale \in BOOLEAN
  BY Switching DEF MasterInv, Holding, UploadHolds
<1>2. item[x] \in Item
  BY <1>1 DEF MasterInv, Tables
<1>3. item[x] = [parent |-> item[x].parent, active |-> item[x].active, id |-> item[x].id,
                 raced |-> item[x].raced]
  BY <1>2, ItemFields
<1>4. item[x].parent \in Values \cup {NoRow} /\ item[x].id \in Nat \X Values
  BY <1>2, ItemFields
<1> PICK w : w = Landing(x)
  OBVIOUS
<1>5. w = [parent |-> item[x].parent, active |-> b, id |-> item[x].id, raced |-> upload.stale]
  BY <1>3
<1>6. [parent |-> item[x].parent, active |-> b, id |-> item[x].id, raced |-> upload.stale] \in Item
  BY <1>1, <1>4, ItemMade, Zenon
<1>7. w \in Item
  BY <1>5, <1>6, Zenon
<1>8. w.parent = item[x].parent /\ w.active = b /\ w.id = item[x].id /\ w.raced = upload.stale
  BY <1>5
<1> QED BY <1>7, <1>8, Bounds

\* What a file writes has its type, and an id of its own or the one it had.
LEMMA WrittenTyped ==
  ASSUME MasterInv, upload.at = "writing", NEW x \in Values, Creates(x) # {} => item[x] = NoRow
  PROVE  /\ Landing(x) \in Item \cup {NoRow}
         /\ Landing(x) # NoRow => Landing(x).parent \in Above(x) \cup {NoRow}
         /\ Landing(x) # NoRow /\ Creates(x) # {} => Landing(x).id = <<commits + 1, x>>
         /\ Landing(x) # NoRow /\ Creates(x) = {} => item[x] # NoRow /\ Landing(x).id = item[x].id
         /\ Landing(x) # NoRow /\ Landing(x) # item[x] => Landing(x).raced = upload.stale
<1>1. item[x] \in Item \cup {NoRow} /\ commits \in Nat /\ upload.stale \in BOOLEAN
  BY Bounds DEF MasterInv, Tables, Holding, UploadHolds
<1>2. item[x] # NoRow => item[x].parent \in Above(x) \cup {NoRow}
  BY DEF MasterInv, Tables
<1>3. \A n \in Creates(x) : n.parent \in Above(x) \cup {NoRow} /\ n.active \in BOOLEAN
  BY CreatedTyped
<1>4. CASE Creates(x) # {}
  <2> PICK n \in Creates(x) : Landing(x) = [parent |-> n.parent, active |-> n.active,
                                            id |-> <<commits + 1, x>>, raced |-> upload.stale]
    BY <1>4, Landings
  <2>1. n.parent \in Above(x) \cup {NoRow} /\ n.active \in BOOLEAN
    BY <1>3
  <2>2. n.parent \in Values \cup {NoRow} /\ <<commits + 1, x>> \in Nat \X Values
    BY <1>1, <2>1, Types
  <2>3. Landing(x) \in Item
    BY <1>1, <2>1, <2>2, ItemMade, Zenon
  <2>4. /\ Landing(x).parent = n.parent /\ Landing(x).id = <<commits + 1, x>>
        /\ Landing(x).raced = upload.stale
    OBVIOUS
  <2> QED BY <1>4, <2>1, <2>3, <2>4
<1>5. CASE Creates(x) = {} /\ Switched(x) # {}
  <2> PICK b \in Switched(x) : Landing(x) = [item[x] EXCEPT !.active = b, !.raced = upload.stale]
    BY <1>5, Landings
  <2>1. item[x] # NoRow
    BY Switching
  <2>2. /\ Landing(x) \in Item /\ Landing(x).parent = item[x].parent
        /\ Landing(x).id = item[x].id /\ Landing(x).raced = upload.stale
    BY Turned
  <2> QED BY <1>2, <1>5, <2>1, <2>2
<1>6. CASE Creates(x) = {} /\ Switched(x) = {}
  <2>1. Landing(x) = item[x]
    BY <1>6, Landings
  <2> QED BY <1>1, <1>2, <1>6, <2>1
<1> QED BY <1>4, <1>5, <1>6

\* What the preview sees of a value.
LEMMA Seeings ==
  ASSUME MasterInv, NEW x \in Values
  PROVE  /\ item[x] = NoRow => Seen(x) = NoRow
         /\ item[x] # NoRow => Seen(x) # NoRow /\ Seen(x).active = item[x].active
<1>1. x # NoRow
  BY Bounds
<1>2. ASSUME item[x] # NoRow PROVE Seen(x) # NoRow /\ Seen(x).active = item[x].active
  <2>1. Seen(x) = [parent |-> item[x].parent, active |-> item[x].active]
    BY <1>1, <1>2, Zenon DEF Seen
  <2>2. item[x].parent \in Values \cup {NoRow} /\ item[x].active \in BOOLEAN
    BY <1>2, ItemFields DEF MasterInv, Tables
  <2>3. [parent |-> item[x].parent, active |-> item[x].active]
           \in [parent : Values \cup {NoRow}, active : BOOLEAN]
    BY <2>2
  <2>4. Seen(x) # NoRow
    BY <2>1, <2>3, ValuesAssumption
  <2> QED BY <2>1, <2>4
<1> QED BY <1>1, <1>2, Zenon DEF Seen

\* A file that nothing raced is written from what the table holds, and found nothing wrong.
LEMMA PlansAreNow ==
  ASSUME MasterInv, upload.at = "writing", ~upload.stale
  PROVE  /\ \A p \in upload.plan :
               /\ p.row \in upload.file /\ p.crop = Seen(p.row.crop)
               /\ p.variety = Seen(p.row.variety) /\ p.p_code = Seen(p.row.p_code)
         /\ \A r \in upload.file : (\E p \in upload.plan : p.row = r) /\ ~RowErrors(r, upload.file)
<1>1. upload.plan = _build_row_states(upload.file) /\ \A p \in upload.plan : ~p.error
  BY DEF MasterInv, Seeing, UploadSees
<1>2. \A p \in upload.plan : /\ p.row \in upload.file /\ p.crop = Seen(p.row.crop)
         /\ p.variety = Seen(p.row.variety) /\ p.p_code = Seen(p.row.p_code)
  BY <1>1 DEF _build_row_states
<1>3. ASSUME NEW r \in upload.file
      PROVE  \E p \in upload.plan : p.row = r /\ p.error = RowErrors(r, upload.file)
  <2> DEFINE bad == RowErrors(r, upload.file)
             slot == IF r.variety = NoRow THEN {} ELSE active_p_code_for_variety(r.variety)
             p == [row |-> r, error |-> bad, crop |-> Seen(r.crop), variety |-> Seen(r.variety),
                   p_code |-> Seen(r.p_code), slot |-> slot]
  <2>1. p \in upload.plan
    BY <1>1, Zenon DEF _build_row_states
  <2> HIDE DEF bad, slot
  <2>2. p.row = r /\ p.error = bad
    OBVIOUS
  <2> HIDE DEF p
  <2> QED BY <2>1, <2>2, Zenon DEF bad
<1>4. \A r \in upload.file : ~RowErrors(r, upload.file)
  BY <1>1, <1>3
<1> QED BY <1>2, <1>3, <1>4

\* What it is for a row of the file to have nothing wrong with it.
LEMMA SoundRows ==
  ASSUME MasterInv, upload.at = "writing", ~upload.stale, NEW r \in upload.file
  PROVE  /\ r.crop \in Crops /\ r.status \in BOOLEAN
         /\ r.variety \in Varieties \cup {NoRow} /\ r.p_code \in PCodes \cup {NoRow}
         /\ r.p_code # NoRow => r.variety # NoRow
         /\ \A s \in upload.file : r.variety # NoRow /\ s.variety = r.variety => s = r
         /\ \A s \in upload.file : r.p_code # NoRow /\ s.p_code = r.p_code => s = r
         /\ item[r.crop] # NoRow => Active(r.crop)
         /\ r.variety # NoRow /\ item[r.variety] # NoRow => item[r.variety].parent = r.crop
         /\ r.p_code # NoRow /\ item[r.p_code] # NoRow => item[r.p_code].parent = r.variety
         /\ r.p_code # NoRow /\ ~Active(r.p_code) => active_p_code_for_variety(r.variety) = {}
<1>1. upload.file \in Files /\ upload.file \subseteq FileRow
  BY DEF MasterInv, Holding, UploadHolds
<1>2. /\ r.crop \in Crops /\ r.status \in BOOLEAN
      /\ r.variety \in Varieties \cup {NoRow} /\ r.p_code \in PCodes \cup {NoRow}
  BY <1>1 DEF FileRow
<1>3. r.p_code # NoRow => r.variety # NoRow
  BY <1>1, FilesAssumption
<1>4. ~RowErrors(r, upload.file)
  BY PlansAreNow
<1>5. ~Clashes(r, upload.file)
  BY <1>4 DEF RowErrors
<1>6. /\ \A s \in upload.file : r.variety # NoRow /\ s.variety = r.variety => s = r
      /\ \A s \in upload.file : r.p_code # NoRow /\ s.p_code = r.p_code => s = r
  BY <1>5 DEF Clashes
<1>7. /\ item[r.crop] # NoRow => Active(r.crop)
      /\ r.variety # NoRow /\ item[r.variety] # NoRow => item[r.variety].parent = r.crop
      /\ r.p_code # NoRow /\ item[r.p_code] # NoRow => item[r.p_code].parent = r.variety
      /\ r.p_code # NoRow /\ ~Active(r.p_code) => active_p_code_for_variety(r.variety) = {}
  BY <1>4, Zenon DEF RowErrors
<1> QED BY <1>2, <1>3, <1>6, <1>7

\* A P.Code that a file brings in goes where no other is.
LEMMA Brought ==
  ASSUME MasterInv, upload.at = "writing", ~upload.stale, NEW q \in PCodes,
         Creates(q) # {} => item[q] = NoRow, Landing(q) # item[q]
  PROVE  \E r \in upload.file :
            /\ r.p_code = q /\ r.variety # NoRow
            /\ Landing(q).parent = r.variety /\ Landing(q).active
            /\ active_p_code_for_variety(r.variety) = {}
<1>0. q \in Values /\ q \notin Crops /\ q \notin Varieties /\ q # NoRow
  BY Bounds, ValuesAssumption DEF Values
<1>1. CASE Creates(q) # {}
  <2> PICK n \in Creates(q) : Landing(q) = [parent |-> n.parent, active |-> n.active,
                                            id |-> <<commits + 1, q>>, raced |-> upload.stale]
    BY <1>1, Landings
  <2> PICK p \in upload.plan : Makes(p, q, n)
    BY <1>0, Writes
  <2>1. n = [parent |-> p.row.variety, active |-> TRUE] /\ p.row.p_code = q /\ p.p_code = NoRow
    BY <1>0, Zenon DEF Makes
  <2>2. n.parent = p.row.variety /\ n.active
    BY <2>1
  <2>3. p.row \in upload.file
    BY PlansAreNow
  <2>4. ~Active(p.row.p_code)
    BY <1>1, <2>1 DEF Active
  <2>5. p.row.variety # NoRow /\ active_p_code_for_variety(p.row.variety) = {}
    BY <1>0, <2>1, <2>3, <2>4, SoundRows
  <2>6. Landing(q).parent = p.row.variety /\ Landing(q).active
    BY <2>2
  <2> QED BY <2>1, <2>3, <2>5, <2>6
<1>2. CASE Creates(q) = {}
  <2>1. Switched(q) # {}
    BY <1>2, Landings
  <2> PICK b \in Switched(q) : Landing(q) = [item[q] EXCEPT !.active = b, !.raced = upload.stale]
    BY <1>2, <2>1, Landings
  <2>2. item[q] # NoRow /\ b \in Switches(q)
    BY <1>0, Switching
  <2> PICK p \in upload.plan : Turns(p, q, b)
    BY <1>0, <2>2, Writes
  <2>3. b = TRUE /\ p.row.p_code = q /\ p.p_code # NoRow /\ ~p.p_code.active
    BY <1>0, Zenon DEF Turns
  <2>4. p.row \in upload.file /\ p.p_code = Seen(q)
    BY <2>3, PlansAreNow
  <2>5. ~Active(p.row.p_code)
    BY <1>0, <2>2, <2>3, <2>4, Seeings DEF Active
  <2>6. /\ p.row.variety # NoRow /\ active_p_code_for_variety(p.row.variety) = {}
        /\ item[q].parent = p.row.variety
    BY <1>0, <2>2, <2>3, <2>4, <2>5, SoundRows
  <2>7. Landing(q).parent = item[q].parent /\ Landing(q).active = b
    BY <1>0, Turned
  <2>8. Landing(q).active
    BY <2>3, <2>7, Zenon
  <2> QED BY <2>3, <2>4, <2>6, <2>7, <2>8
<1> QED BY <1>1, <1>2

\* And it is alone there when the file is written.
LEMMA BroughtAlone ==
  ASSUME MasterInv, upload.at = "writing", ~upload.stale,
         \A x \in Values : Creates(x) # {} => item[x] = NoRow, item' = [x \in Values |-> Landing(x)],
         NEW q \in PCodes, item'[q] # item[q]
  PROVE  /\ \E r \in upload.file : /\ r.p_code = q /\ r.variety # NoRow
                                  /\ item'[q].parent = r.variety /\ item'[q].active
         /\ \A s \in PCodes \ {q} : ~Owns(item', item'[q].parent, s)
<1>1. \A s \in PCodes : s \in Values /\ item'[s] = Landing(s)
  BY DEF Values
<1> PICK r \in upload.file :
      /\ r.p_code = q /\ r.variety # NoRow /\ item'[q].parent = r.variety /\ item'[q].active
      /\ active_p_code_for_variety(r.variety) = {}
  BY <1>1, Brought
<1>2. ASSUME NEW s \in PCodes \ {q}, Owns(item', r.variety, s) PROVE FALSE
  <2>1. CASE item'[s] = item[s]
    BY <1>2, <2>1 DEF Owns, active_p_code_for_variety, Active
  <2>2. CASE item'[s] # item[s]
    <3> PICK t \in upload.file : t.p_code = s /\ item'[s].parent = t.variety
      BY <1>1, <2>2, Brought
    <3>1. t.variety = r.variety
      BY <1>2 DEF Owns
    <3>2. t = r
      BY <3>1, SoundRows
    <3> QED BY <1>2, <3>2
  <2> QED BY <2>1, <2>2
<1> QED BY <1>2

\* A file lands, whole.
LEMMA FileInv == ASSUME MasterInv, CommitFile PROVE MasterInv'
<1>1. upload.at = "writing" /\ upload' = IdleUpload /\ UNCHANGED planted
  BY FileOutcomes DEF CommitFile
<1>2. CASE UNCHANGED <<item, desk, planting, commits>>
  BY <1>1, <1>2, IdleUploads, UploadMoves
<1>3. ASSUME \A x \in Values : Creates(x) # {} => item[x] = NoRow,
             commits < MaxCommits, commits' = commits + 1, item' = [x \in Values |-> Landing(x)],
             desk' = Stale(NoRow), planting' = StalePlanting
      PROVE  MasterInv'
  <2>1. \A x \in Values :
          /\ item'[x] = Landing(x) /\ item'[x] \in Item \cup {NoRow}
          /\ item'[x] # NoRow => item'[x].parent \in Above(x) \cup {NoRow}
          /\ item'[x] # NoRow /\ Creates(x) # {} => item'[x].id = <<commits + 1, x>>
          /\ item'[x] # NoRow /\ Creates(x) = {} => item[x] # NoRow /\ item'[x].id = item[x].id
          /\ item'[x] # NoRow /\ item'[x] # item[x] => item'[x].raced = upload.stale
    BY <1>1, <1>3, WrittenTyped
  <2>2. item' \in [Values -> Item \cup {NoRow}]
    BY <1>3, <2>1
  <2>3. \A x \in Values : item'[x] # NoRow =>
            /\ item'[x].parent \in Above(x) \cup {NoRow}
            /\ \/ item'[x].id = <<commits + 1, x>>
               \/ \E y \in Values : item[y] # NoRow /\ item'[x].id = item[y].id /\ SameType(x, y)
    BY <2>1, Types
  <2>4. \A x, z \in Values : x # z /\ item'[x] # NoRow /\ item'[z] # NoRow => item'[x].id # item'[z].id
    <3>1. \A x \in Values : item[x] # NoRow => item[x].id[1] # commits + 1
      BY Bounds DEF MasterInv, Tables
    <3>2. \A x \in Values : <<commits + 1, x>>[1] = commits + 1 /\ <<commits + 1, x>>[2] = x
      OBVIOUS
    <3> QED BY <2>1, <3>1, <3>2 DEF MasterInv, Tables
  <2>5. Tables'
    BY <1>3, <2>2, <2>3, <2>4, TablesKept
  <2>6. OneActivePCode'
    <3>1. \A q \in PCodes : q \in Values /\ q # NoRow
      BY Bounds DEF Values
    <3>2. ASSUME NEW q \in PCodes, item'[q] # NoRow, item'[q] # item[q], ~item'[q].raced
          PROVE  \A s \in PCodes \ {q} : ~Owns(item', item'[q].parent, s)
      <4>1. ~upload.stale
        BY <2>1, <3>1, <3>2
      <4> QED BY <1>1, <1>3, <3>2, <4>1, BroughtAlone
    <3> QED BY <3>2, OneKept
  <2> QED BY <1>1, <1>3, <2>5, <2>6, Bounds, CommitInv
<1> QED BY <1>1, <1>2, <1>3, FileOutcomes

-----------------------------------------------------------------------------
(* A new cycle *)

\* A planting that goes one step on leaves the tables and the desks as they are.
LEMMA PlantingMoves ==
  ASSUME MasterInv, PlantingHolds', PlantingSees', PlantedTyped', UNCHANGED <<item, desk, upload, commits>>
  PROVE  MasterInv'
<1>1. \A d \in Desks : DeskHolds(d)' /\ DeskSees(d)'
  BY DEF MasterInv, Holding, Seeing, DeskHolds, DeskSees, assert_p_code_assignable,
         active_p_code_for_variety, Active
<1>2. UploadHolds'
  BY DEF MasterInv, Holding, UploadHolds
<1>3. UploadSees'
  BY DEF MasterInv, Seeing, UploadSees, _build_row_states, RowErrors, Seen,
         active_p_code_for_variety, Active
<1> QED BY <1>1, <1>2, <1>3, TablesStand DEF MasterInv, Holding, Seeing

\* A planting reads its crop.
LEMMA CropInv == ASSUME MasterInv, NEW c \in Crops, NEW q \in PCodes, ReadCrop(c, q) PROVE MasterInv'
<1>1. /\ planting' = [IdlePlanting EXCEPT !.at = "p_code", !.named = c, !.code = q, !.crop = item[c]]
      /\ planted' = NoRow /\ UNCHANGED <<item, desk, upload, commits>>
  BY DEF ReadCrop
<1> DEFINE no == FALSE
<1>2. no \in BOOLEAN
  OBVIOUS
<1>3. IdlePlanting = [at |-> "idle", crop |-> NoRow, named |-> NoRow, p_code |-> NoRow,
                      code |-> NoRow, stale |-> no]
  BY DEF IdlePlanting
<1> HIDE DEF no
<1> PICK f : f = planting'
  OBVIOUS
<1>4. f = [at |-> "p_code", crop |-> item[c], named |-> c, p_code |-> NoRow, code |-> q, stale |-> no]
  BY <1>1, <1>3
<1>5. item[c] \in Item \cup {NoRow}
  BY DEF MasterInv, Tables, Values
<1>6. f \in Planting
  BY <1>2, <1>4, <1>5 DEF Planting
<1>7. f.at = "p_code" /\ f.crop = item[c] /\ f.named = c /\ f.code = q
  BY <1>4
<1>8. PlantingHolds' /\ PlantedTyped'
  BY <1>1, <1>6, <1>7 DEF PlantingHolds, PlantedTyped
<1>9. PlantingSees'
  BY <1>1, <1>7 DEF PlantingSees
<1> QED BY <1>1, <1>8, <1>9, PlantingMoves

\* A planting reads its P.Code.
LEMMA PCodeInv == ASSUME MasterInv, ReadPCode PROVE MasterInv'
<1>1. /\ planting.at = "p_code"
      /\ planting' = [planting EXCEPT !.at = "variety", !.p_code = item[planting.code]]
      /\ UNCHANGED <<item, desk, upload, planted, commits>>
  BY DEF ReadPCode
<1>2. /\ planting \in Planting /\ planting.named \in Crops /\ planting.code \in PCodes
      /\ PlantedTyped /\ PlantingSees
  BY <1>1 DEF MasterInv, Holding, Seeing, PlantingHolds
<1>3. planting = [at |-> planting.at, crop |-> planting.crop, named |-> planting.named,
                  p_code |-> planting.p_code, code |-> planting.code, stale |-> planting.stale]
  BY <1>2 DEF Planting
<1> PICK f : f = planting'
  OBVIOUS
<1>4. f = [at |-> "variety", crop |-> planting.crop, named |-> planting.named,
           p_code |-> item[planting.code], code |-> planting.code, stale |-> planting.stale]
  BY <1>1, <1>3
<1>5. item[planting.code] \in Item \cup {NoRow}
  BY <1>2 DEF MasterInv, Tables, Values
<1>6. f \in Planting
  BY <1>2, <1>4, <1>5 DEF Planting
<1>7. /\ f.at = "variety" /\ f.crop = planting.crop /\ f.named = planting.named
      /\ f.p_code = item[planting.code] /\ f.code = planting.code /\ f.stale = planting.stale
  BY <1>4
<1>8. PlantingHolds' /\ PlantedTyped'
  BY <1>1, <1>2, <1>6, <1>7 DEF PlantingHolds, PlantedTyped
<1>9. PlantingSees'
  BY <1>1, <1>2, <1>7 DEF PlantingSees
<1> QED BY <1>1, <1>8, <1>9, PlantingMoves

\* A planting reads its variety, and plants.
LEMMA VarietyInv == ASSUME MasterInv, ReadVariety PROVE MasterInv'
<1>1. planting.at = "variety" /\ planting' = IdlePlanting /\ UNCHANGED <<item, desk, upload, commits>>
  BY DEF ReadVariety
<1>2. /\ planting \in Planting /\ planting.named \in Crops /\ planting.code \in PCodes
      /\ planting.stale \in BOOLEAN /\ PlantedTyped
  BY <1>1 DEF MasterInv, Holding, PlantingHolds, Planting
<1>3. PlantingHolds' /\ PlantingSees'
  <2>1. planting'.at = "idle" /\ planting' \in Planting
    BY <1>1, NothingAsked
  <2> QED BY <2>1 DEF PlantingHolds, PlantingSees
<1>4. PlantedTyped'
  <2>1. CASE planted' = planted
    BY <1>2, <2>1 DEF PlantedTyped
  <2>2. ASSUME planted' # planted PROVE PlantedTyped'
    <3> PICK v \in Varieties : planted' = [crop |-> planting.named, p_code |-> planting.code,
                                           variety |-> v, stale |-> planting.stale]
      BY <2>2, Zenon DEF ReadVariety, crop_p_code_errors
    <3> QED BY <1>2 DEF PlantedTyped
  <2> QED BY <2>1, <2>2
<1> QED BY <1>1, <1>3, <1>4, PlantingMoves

-----------------------------------------------------------------------------

\* A form, an upload or a planting begins.
LEMMA BeginInv == ASSUME MasterInv, Begin PROVE MasterInv'
<1>1. ASSUME NEW d \in Desks, NEW x \in Values, NEW parent \in Above(x) \cup {NoRow},
             create_master_data(d, x, parent)
      PROVE  MasterInv'
  BY <1>1, CreateInv
<1>2. ASSUME NEW d \in Desks, NEW x \in Values, item[x] # NoRow /\ AskUpdate(d, x) PROVE MasterInv'
  BY <1>2, AskInv
<1>3. ASSUME NEW d \in Desks, NEW x \in Values, delete_master_data(d, x) PROVE MasterInv'
  BY <1>3, DeleteInv
<1>4. ASSUME NEW file \in Files, build_preview_taxonomy(file) PROVE MasterInv'
  BY <1>4, ShownInv
<1>5. ASSUME NEW c \in Crops, NEW q \in PCodes, ReadCrop(c, q) PROVE MasterInv'
  BY <1>5, CropInv
<1> QED BY <1>1, <1>2, <1>3, <1>4, <1>5 DEF Begin

\* Nothing happens.
LEMMA StutterInv == ASSUME MasterInv, UNCHANGED masterVars PROVE MasterInv'
<1>1. UNCHANGED <<item, desk, upload, planting, planted, commits>>
  BY DEF masterVars
<1>2. PlantingHolds' /\ PlantingSees' /\ PlantedTyped'
  BY <1>1 DEF MasterInv, Holding, Seeing, PlantingHolds, PlantingSees, PlantedTyped
<1> QED BY <1>1, <1>2, PlantingMoves

\* Every step keeps the invariant.
LEMMA MasterNextInv == MasterInv /\ [MasterNext]_masterVars => MasterInv'
<1> SUFFICES ASSUME MasterInv, [MasterNext]_masterVars PROVE MasterInv'
  OBVIOUS
<1>1. CASE Room /\ Begin
  BY <1>1, BeginInv
<1>2. ASSUME NEW d \in Desks, SaveCreate(d) PROVE MasterInv'
  BY <1>2, CreateSaved
<1>3. ASSUME NEW d \in Desks, SaveUpdate(d) PROVE MasterInv'
  BY <1>3, UpdateSaved
<1>4. ASSUME NEW d \in Desks, SaveDelete(d) PROVE MasterInv'
  BY <1>4, DeleteSaved
<1>5. ASSUME NEW d \in Desks, GiveUp(d) PROVE MasterInv'
  BY <1>5, GiveUpInv
<1>6. CASE CommitChecks
  BY <1>6, ChecksInv
<1>7. CASE CommitFile
  BY <1>7, FileInv
<1>8. CASE Dismiss
  BY <1>8, DismissInv
<1>9. CASE ReadPCode
  BY <1>9, PCodeInv
<1>10. CASE ReadVariety
  BY <1>10, VarietyInv
<1>11. CASE UNCHANGED masterVars
  BY <1>11, StutterInv
<1> QED BY <1>1, <1>2, <1>3, <1>4, <1>5, <1>6, <1>7, <1>8, <1>9, <1>10, <1>11 DEF MasterNext

\* What a cycle takes was all active, and each under the other, when it took it.
LivePlanted ==
    planted' \notin {planted, NoRow} /\ ~planted'.stale =>
       LET p == planted' IN
         /\ Active(p.crop) /\ Active(p.p_code) /\ Active(p.variety)
         /\ item[p.p_code].parent = p.variety
         /\ item[p.variety].parent = p.crop

\* Only a planting that has read all three plants.
LEMMA OnlyCyclesPlant ==
  ASSUME [MasterNext]_masterVars, planted' \notin {planted, NoRow} PROVE ReadVariety
<1>1. ASSUME Begin PROVE planted' \in {planted, NoRow}
  BY <1>1 DEF Begin, create_master_data, AskUpdate, update_master_data, delete_master_data,
              build_preview_taxonomy, ReadCrop
<1>2. ASSUME NEW d \in Desks, SaveCreate(d) \/ SaveUpdate(d) \/ SaveDelete(d) \/ GiveUp(d)
      PROVE  planted' = planted
  BY <1>2 DEF SaveCreate, SaveUpdate, SaveDelete, GiveUp
<1>3. ASSUME CommitChecks \/ CommitFile \/ Dismiss \/ ReadPCode PROVE planted' = planted
  BY <1>3 DEF CommitChecks, CommitFile, Dismiss, ReadPCode
<1> QED BY <1>1, <1>2, <1>3 DEF MasterNext, masterVars

\* What is planted undisturbed was active and hung together when it was read.
LEMMA LiveStep == ASSUME MasterInv, [MasterNext]_masterVars PROVE LivePlanted
<1> SUFFICES ASSUME planted' \notin {planted, NoRow}, ~planted'.stale
             PROVE  /\ Active(planted'.crop) /\ Active(planted'.p_code) /\ Active(planted'.variety)
                    /\ item[planted'.p_code].parent = planted'.variety
                    /\ item[planted'.variety].parent = planted'.crop
  BY Zenon DEF LivePlanted
<1> DEFINE variety == IF planting.p_code = NoRow THEN NoRow ELSE planting.p_code.parent
           row == IF variety \in Varieties THEN item[variety] ELSE NoRow
<1>1. /\ planting.at = "variety"
      /\ planted' = IF crop_p_code_errors(planting.crop, planting.p_code, row) THEN planted
                    ELSE [crop |-> planting.named, p_code |-> planting.code,
                          variety |-> variety, stale |-> planting.stale]
  BY OnlyCyclesPlant, Zenon DEF ReadVariety
<1>2. ~crop_p_code_errors(planting.crop, planting.p_code, row)
  BY <1>1
<1>3. planted' = [crop |-> planting.named, p_code |-> planting.code,
                  variety |-> variety, stale |-> planting.stale]
  BY <1>1, <1>2
<1>4. /\ planting.crop # NoRow /\ planting.p_code # NoRow /\ row # NoRow
      /\ planting.crop.active /\ planting.p_code.active /\ row.active /\ row.parent = planting.named
  BY <1>2, Zenon DEF crop_p_code_errors
<1>5. variety = planting.p_code.parent /\ row = item[variety]
  BY <1>4
<1> HIDE DEF variety, row
<1>6. /\ planted'.crop = planting.named /\ planted'.p_code = planting.code
      /\ planted'.variety = variety /\ planted'.stale = planting.stale
  BY <1>3
<1>7. planting.crop = item[planting.named] /\ planting.p_code = item[planting.code]
  BY <1>1, <1>6 DEF MasterInv, Seeing, PlantingSees
<1> QED BY <1>4, <1>5, <1>6, <1>7 DEF Active

\* What a file that nothing raced leaves of its rows.
LandsWhole ==
    CommitFile /\ commits' # commits /\ ~upload.stale =>
       /\ \A r \in upload.file :
            /\ item'[r.crop] # NoRow /\ item'[r.crop].active
            /\ r.variety # NoRow =>
                 item'[r.variety] # NoRow /\ item'[r.variety].parent = r.crop
                   /\ item'[r.variety].active = r.status
            /\ r.p_code # NoRow =>
                 /\ Owns(item', r.variety, r.p_code)
                 /\ item'[r.p_code] # item[r.p_code] =>
                       \A q \in PCodes \ {r.p_code} : ~Owns(item', r.variety, q)
       /\ \A x \in Values : item'[x] # item[x] =>
            \E r \in upload.file : x \in {r.crop, r.variety, r.p_code}

\* A plan has something to create for what is not there, and to switch for what is not as asked.
LEMMA Lacking ==
  ASSUME MasterInv, upload.at = "writing", ~upload.stale, NEW r \in upload.file
  PROVE  /\ item[r.crop] = NoRow => Creates(r.crop) # {}
         /\ r.variety # NoRow /\ item[r.variety] = NoRow => Creates(r.variety) # {}
         /\ r.p_code # NoRow /\ item[r.p_code] = NoRow => Creates(r.p_code) # {}
         /\ r.variety # NoRow /\ item[r.variety] # NoRow /\ item[r.variety].active # r.status
               => Switched(r.variety) # {}
         /\ r.p_code # NoRow /\ item[r.p_code] # NoRow /\ ~item[r.p_code].active
               => Switched(r.p_code) # {}
<1> PICK p \in upload.plan : p.row = r
  BY PlansAreNow
<1>1. p.crop = Seen(r.crop) /\ p.variety = Seen(r.variety) /\ p.p_code = Seen(r.p_code)
  BY PlansAreNow
<1>2. /\ r.crop \in Values /\ r.variety \in Values \cup {NoRow} /\ r.p_code \in Values \cup {NoRow}
  BY SoundRows DEF Values
<1>3. ASSUME item[r.crop] = NoRow PROVE Creates(r.crop) # {}
  <2>1. p.crop = NoRow
    BY <1>1, <1>2, <1>3, Seeings
  <2> QED BY <2>1, Zenon DEF Creates
<1>4. ASSUME r.variety # NoRow, item[r.variety] = NoRow PROVE Creates(r.variety) # {}
  <2>1. p.variety = NoRow
    BY <1>1, <1>2, <1>4, Seeings
  <2> QED BY <2>1, Zenon DEF Creates
<1>5. ASSUME r.p_code # NoRow, item[r.p_code] = NoRow PROVE Creates(r.p_code) # {}
  <2>1. p.p_code = NoRow
    BY <1>1, <1>2, <1>5, Seeings
  <2> QED BY <2>1, Zenon DEF Creates
<1>6. ASSUME NEW x \in Values, item[x] # NoRow, Switches(x) # {} PROVE Switched(x) # {}
  <2>1. x \in Where(upload.read[x])
    BY <1>6 DEF Where, MasterInv, Seeing, UploadSees
  <2> QED BY <1>6, <2>1, Zenon DEF Switched
<1>7. ASSUME r.variety # NoRow, item[r.variety] # NoRow, item[r.variety].active # r.status
      PROVE  Switched(r.variety) # {}
  <2>1. p.variety # NoRow /\ p.variety.active = item[r.variety].active
    BY <1>1, <1>2, <1>7, Seeings
  <2>2. p.variety.active # p.row.status
    BY <1>7, <2>1, Zenon
  <2>3. Switches(r.variety) # {}
    BY <2>1, <2>2, Zenon DEF Switches
  <2> QED BY <1>2, <1>6, <1>7, <2>3
<1>8. ASSUME r.p_code # NoRow, item[r.p_code] # NoRow, ~item[r.p_code].active
      PROVE  Switched(r.p_code) # {}
  <2>1. p.p_code # NoRow /\ p.p_code.active = item[r.p_code].active
    BY <1>1, <1>2, <1>8, Seeings
  <2>2. ~p.p_code.active
    BY <1>8, <2>1, Zenon
  <2>3. Switches(r.p_code) # {}
    BY <2>1, <2>2, Zenon DEF Switches
  <2> QED BY <1>2, <1>6, <1>8, <2>3
<1> QED BY <1>3, <1>4, <1>5, <1>7, <1>8

\* What is there is not created.
LEMMA KeptRows ==
  ASSUME MasterInv, upload.at = "writing", ~upload.stale, NEW x \in Values, item[x] # NoRow
  PROVE  Creates(x) = {}
<1> SUFFICES ASSUME NEW n \in Creates(x) PROVE FALSE
  OBVIOUS
<1> PICK p \in upload.plan : Makes(p, x, n)
  BY Writes
<1>1. Seen(x) # NoRow
  BY Seeings
<1>2. p.crop = Seen(p.row.crop) /\ p.variety = Seen(p.row.variety) /\ p.p_code = Seen(p.row.p_code)
  BY PlansAreNow
<1> QED BY <1>1, <1>2, Zenon DEF Makes

\* The crop of a row of an undisturbed file is active once the file has landed.
LEMMA CropLands ==
  ASSUME MasterInv, upload.at = "writing", ~upload.stale, NEW r \in upload.file
  PROVE  Landing(r.crop) # NoRow /\ Landing(r.crop).active
<1> PICK x : x = r.crop
  OBVIOUS
<1>1. x \in Crops /\ x \in Values /\ x \notin Varieties /\ x \notin PCodes
  BY SoundRows, ValuesAssumption DEF Values
<1>2. CASE item[x] = NoRow
  <2>1. Creates(x) # {}
    BY <1>2, Lacking
  <2> PICK n \in Creates(x) : Landing(x) = [parent |-> n.parent, active |-> n.active,
                                            id |-> <<commits + 1, x>>, raced |-> upload.stale]
    BY <2>1, Landings
  <2> PICK p \in upload.plan : Makes(p, x, n)
    BY <1>1, Writes
  <2>2. n = [parent |-> NoRow, active |-> TRUE]
    BY <1>1, Zenon DEF Makes
  <2>3. n.active
    BY <2>2
  <2>4. Landing(x).active /\ Landing(x).id = <<commits + 1, x>>
    BY <2>3
  <2>5. Landing(x) # NoRow
    BY <1>1, <1>2, <2>1, Made
  <2> QED BY <2>4, <2>5
<1>3. CASE item[x] # NoRow
  <2>1. Creates(x) = {}
    BY <1>1, <1>3, KeptRows
  <2>2. Switched(x) = {}
    <3> SUFFICES ASSUME NEW b \in Switched(x) PROVE FALSE
      OBVIOUS
    <3>1. b \in Switches(x)
      BY <1>1, Switching
    <3> PICK p \in upload.plan : Turns(p, x, b)
      BY <1>1, <3>1, Writes
    <3> QED BY <1>1, Zenon DEF Turns
  <2>3. Landing(x) = item[x]
    BY <2>1, <2>2, Landings
  <2> QED BY <1>3, <2>3, SoundRows DEF Active
<1> QED BY <1>2, <1>3

\* Its variety hangs below that crop and has the status of the row.
LEMMA VarietyLands ==
  ASSUME MasterInv, upload.at = "writing", ~upload.stale, NEW r \in upload.file, r.variety # NoRow
  PROVE  /\ Landing(r.variety) # NoRow /\ Landing(r.variety).parent = r.crop
         /\ Landing(r.variety).active = r.status
<1> PICK x : x = r.variety
  OBVIOUS
<1>1. x \in Varieties /\ x \in Values /\ x \notin Crops /\ x \notin PCodes /\ r.status \in BOOLEAN
  BY SoundRows, ValuesAssumption DEF Values
<1>2. \A p \in upload.plan : p.row.variety = x => p.row = r
  BY PlansAreNow, SoundRows
<1>3. CASE item[x] = NoRow
  <2>1. Creates(x) # {}
    BY <1>3, Lacking
  <2> PICK n \in Creates(x) : Landing(x) = [parent |-> n.parent, active |-> n.active,
                                            id |-> <<commits + 1, x>>, raced |-> upload.stale]
    BY <2>1, Landings
  <2> PICK p \in upload.plan : Makes(p, x, n)
    BY <1>1, Writes
  <2>2. n = [parent |-> p.row.crop, active |-> p.row.status] /\ p.row.variety = x
    BY <1>1, Zenon DEF Makes
  <2>3. n = [parent |-> r.crop, active |-> r.status]
    BY <1>2, <2>2
  <2>4. n.parent = r.crop /\ n.active = r.status
    BY <2>3
  <2>5. Landing(x).parent = r.crop /\ Landing(x).active = r.status
    BY <2>4
  <2>6. Landing(x) # NoRow
    BY <1>1, <1>3, <2>1, Made
  <2> QED BY <2>5, <2>6
<1>4. CASE item[x] # NoRow
  <2>1. Creates(x) = {} /\ item[x].parent = r.crop
    BY <1>1, <1>4, KeptRows, SoundRows
  <2>2. CASE Switched(x) = {}
    <3>1. Landing(x) = item[x]
      BY <2>1, <2>2, Landings
    <3>2. item[x].active = r.status
      BY <1>1, <1>4, <2>2, Lacking
    <3> QED BY <1>4, <2>1, <3>1, <3>2
  <2>3. CASE Switched(x) # {}
    <3> PICK b \in Switched(x) : Landing(x) = [item[x] EXCEPT !.active = b, !.raced = upload.stale]
      BY <2>1, <2>3, Landings
    <3>1. b \in Switches(x)
      BY <1>1, Switching
    <3> PICK p \in upload.plan : Turns(p, x, b)
      BY <1>1, <3>1, Writes
    <3>2. b = p.row.status /\ p.row.variety = x
      BY <1>1, Zenon DEF Turns
    <3>3. b = r.status
      BY <1>2, <3>2
    <3>4. Landing(x) # NoRow /\ Landing(x).parent = item[x].parent /\ Landing(x).active = b
      BY <1>1, <1>4, <2>1, Turned
    <3> QED BY <2>1, <3>3, <3>4, Zenon
  <2> QED BY <2>2, <2>3
<1> QED BY <1>3, <1>4

\* Its P.Code belongs to that variety, and is the only one if the file turned it on.
LEMMA PCodeLands ==
  ASSUME MasterInv, upload.at = "writing", ~upload.stale, NEW r \in upload.file, r.p_code # NoRow,
         \A x \in Values : Creates(x) # {} => item[x] = NoRow, item' = [x \in Values |-> Landing(x)]
  PROVE  /\ Owns(item', r.variety, r.p_code)
         /\ item'[r.p_code] # item[r.p_code] => \A q \in PCodes \ {r.p_code} : ~Owns(item', r.variety, q)
<1> PICK q : q = r.p_code
  OBVIOUS
<1>1. q \in PCodes /\ q \in Values
  BY SoundRows DEF Values
<1>2. CASE item'[q] # item[q]
  <2> PICK t \in upload.file : /\ t.p_code = q /\ t.variety # NoRow
                               /\ item'[q].parent = t.variety /\ item'[q].active
    BY <1>1, <1>2, BroughtAlone
  <2>1. t = r
    BY SoundRows
  <2>2. \A s \in PCodes \ {q} : ~Owns(item', item'[q].parent, s)
    BY <1>1, <1>2, BroughtAlone
  <2>3. item'[q] # NoRow
    <3>1. CASE item[q] = NoRow
      BY <1>2, <3>1
    <3>2. CASE item[q] # NoRow
      <4>1. Creates(q) = {} /\ item'[q] = Landing(q)
        BY <1>1, <3>2, KeptRows
      <4>2. Switched(q) # {}
        BY <1>2, <4>1, Landings
      <4> PICK b \in Switched(q) : Landing(q) = [item[q] EXCEPT !.active = b, !.raced = upload.stale]
        BY <4>1, <4>2, Landings
      <4> QED BY <1>1, <4>1, Turned
    <3> QED BY <3>1, <3>2
  <2> QED BY <2>1, <2>2, <2>3 DEF Owns
<1>3. CASE item'[q] = item[q]
  <2>1. Landing(q) = item[q]
    BY <1>1, <1>3
  <2>2. item[q] # NoRow
    <3> SUFFICES ASSUME item[q] = NoRow PROVE FALSE
      OBVIOUS
    <3>1. Creates(q) # {}
      BY Lacking
    <3> QED BY <1>1, <2>1, <3>1, Made
  <2>3. item[q].parent = r.variety
    BY <2>2, SoundRows
  <2>4. item[q].active
    <3> SUFFICES ASSUME ~item[q].active PROVE FALSE
      OBVIOUS
    <3>1. Switched(q) # {} /\ Creates(q) = {}
      BY <1>1, <2>2, KeptRows, Lacking
    <3> PICK b \in Switched(q) : Landing(q) = [item[q] EXCEPT !.active = b, !.raced = upload.stale]
      BY <3>1, Landings
    <3>2. Landing(q).active = b /\ b \in Switches(q)
      BY <1>1, Turned, Switching
    <3> PICK p \in upload.plan : Turns(p, q, b)
      BY <1>1, <3>2, Writes
    <3>3. q \notin Varieties
      BY <1>1, ValuesAssumption
    <3>4. b = TRUE
      BY <3>3, Zenon DEF Turns
    <3> QED BY <2>1, <3>2, <3>4, Zenon
  <2> QED BY <1>3, <2>2, <2>3, <2>4 DEF Owns
<1> QED BY <1>2, <1>3

\* An undisturbed file touches only what its rows name.
LEMMA OnlyItsRows ==
  ASSUME MasterInv, upload.at = "writing", ~upload.stale, NEW x \in Values, Landing(x) # item[x]
  PROVE  \E r \in upload.file : x \in {r.crop, r.variety, r.p_code}
<1>1. CASE Creates(x) # {}
  <2> PICK n \in Creates(x) : TRUE
    BY <1>1
  <2> PICK p \in upload.plan : Makes(p, x, n)
    BY Writes
  <2>1. x \in {p.row.crop, p.row.variety, p.row.p_code}
    BY Zenon DEF Makes
  <2> QED BY <2>1, PlansAreNow
<1>2. CASE Creates(x) = {}
  <2>1. Switched(x) # {}
    BY <1>2, Landings
  <2> PICK b \in Switched(x) : TRUE
    BY <2>1
  <2>2. b \in Switches(x)
    BY Switching
  <2> PICK p \in upload.plan : Turns(p, x, b)
    BY <2>2, Writes
  <2>3. x \in {p.row.crop, p.row.variety, p.row.p_code}
    BY Zenon DEF Turns
  <2> QED BY <2>3, PlansAreNow
<1> QED BY <1>1, <1>2

\* An undisturbed file lands whole.
LEMMA WholeStep == ASSUME MasterInv PROVE LandsWhole
<1> SUFFICES ASSUME CommitFile, commits' # commits, ~upload.stale
             PROVE  /\ \A r \in upload.file :
                          /\ item'[r.crop] # NoRow /\ item'[r.crop].active
                          /\ r.variety # NoRow =>
                               item'[r.variety] # NoRow /\ item'[r.variety].parent = r.crop
                                 /\ item'[r.variety].active = r.status
                          /\ r.p_code # NoRow =>
                               /\ Owns(item', r.variety, r.p_code)
                               /\ item'[r.p_code] # item[r.p_code] =>
                                     \A q \in PCodes \ {r.p_code} : ~Owns(item', r.variety, q)
                    /\ \A x \in Values : item'[x] # item[x] =>
                          \E r \in upload.file : x \in {r.crop, r.variety, r.p_code}
  BY Zenon DEF LandsWhole
<1>1. /\ upload.at = "writing" /\ item' = [x \in Values |-> Landing(x)]
      /\ \A x \in Values : Creates(x) # {} => item[x] = NoRow
  BY FileOutcomes DEF CommitFile
<1>2. ASSUME NEW r \in upload.file
      PROVE  /\ item'[r.crop] # NoRow /\ item'[r.crop].active
             /\ r.variety # NoRow =>
                  item'[r.variety] # NoRow /\ item'[r.variety].parent = r.crop
                    /\ item'[r.variety].active = r.status
             /\ r.p_code # NoRow =>
                  /\ Owns(item', r.variety, r.p_code)
                  /\ item'[r.p_code] # item[r.p_code] =>
                        \A q \in PCodes \ {r.p_code} : ~Owns(item', r.variety, q)
  <2>1. /\ r.crop \in Values /\ (r.variety # NoRow => r.variety \in Values)
    BY <1>1, SoundRows DEF Values
  <2>2. item'[r.crop] # NoRow /\ item'[r.crop].active
    BY <1>1, <2>1, CropLands
  <2>3. ASSUME r.variety # NoRow
        PROVE  /\ item'[r.variety] # NoRow /\ item'[r.variety].parent = r.crop
               /\ item'[r.variety].active = r.status
    <3>1. item'[r.variety] = Landing(r.variety)
      BY <1>1, <2>1, <2>3
    <3> QED BY <1>1, <2>3, <3>1, VarietyLands, Zenon
  <2>4. ASSUME r.p_code # NoRow
        PROVE  /\ Owns(item', r.variety, r.p_code)
               /\ item'[r.p_code] # item[r.p_code] =>
                     \A q \in PCodes \ {r.p_code} : ~Owns(item', r.variety, q)
    BY <1>1, <2>4, PCodeLands
  <2> QED BY <2>2, <2>3, <2>4, Zenon
<1>3. \A x \in Values : item'[x] # item[x] => \E r \in upload.file : x \in {r.crop, r.variety, r.p_code}
  BY <1>1, OnlyItsRows
<1> QED BY <1>2, <1>3, Zenon

(* One active P.Code to a variety but for one that raced another's commit, *)
(* and cycles that take living names; a file lands whole, each P.Code it   *)
(* brings in alone under its variety.                                      *)
THEOREM StandingTaxonomy == MasterSpec => TaxonomyStands
<1>1. MasterInv => MasterTypeOK /\ OneActivePCode
  BY MasterTyped DEF MasterInv
<1>2. MasterInv /\ [MasterNext]_masterVars => [LivePlanted]_masterVars /\ [LandsWhole]_masterVars
  BY LiveStep, WholeStep
<1> QED BY <1>1, <1>2, MasterInitInv, MasterNextInv, PTL
        DEF MasterSpec, TaxonomyStands, CyclesNameLiveTaxonomy, FileLandsWhole, LivePlanted, LandsWhole

-----------------------------------------------------------------------------
(***************************************************************************)
(* Yield figures: that the stored percentage is that of the stored         *)
(* weights, that a page foretells what the server stores, and that a form  *)
(* nobody touched repeats the last one (FiguresAgree).                     *)
(*                                                                         *)
(* The last rests on RoundTrip: a percentage that came from kilograms of a *)
(* target comes back from the kilograms it is turned into, since either    *)
(* the hundredth of a kilogram or the tenth of a percent is the coarser,   *)
(* and whichever way the browser's halves fall (PageRounds).               *)
(* The invariant adds where an open form's figures come from (Prefilled)   *)
(* and which figures a record was derived from (FiledIsDerived).           *)
(***************************************************************************)

\* What is left over when one divides.
LEMMA Divided ==
  ASSUME NEW n \in Nat, NEW d \in Nat \ {0}
  PROVE  n \div d \in Nat /\ d * (n \div d) <= n /\ n < d * (n \div d) + d
  OBVIOUS

\* A common factor does not turn an inequality.
LEMMA Factor ==
  ASSUME NEW a \in Int, NEW b \in Int, NEW d \in Nat \ {0}, a * d < b * d PROVE a < b
<1> SUFFICES ASSUME b <= a PROVE FALSE
  OBVIOUS
<1>1. PICK c \in Nat : a = b + c
  <2>1. a - b \in Nat /\ a = b + (a - b)
    OBVIOUS
  <2> QED BY <2>1
<1>2. a * d = b * d + c * d /\ c * d >= 0
  BY <1>1
<1> QED BY <1>2

\* A quotient that is rounded is off by half the divisor at most.
LEMMA RoundedBounds ==
  ASSUME NEW n \in Nat, NEW d \in Nat \ {0}
  PROVE  /\ Rounded(n, d) \in Nat
         /\ 2 * Rounded(n, d) * d - d <= 2 * n /\ 2 * n < 2 * Rounded(n, d) * d + d
<1>1. 2 * n + d \in Nat /\ 2 * d \in Nat \ {0}
  OBVIOUS
<1> PICK r : r = Rounded(n, d)
  OBVIOUS
<1>2. r \in Nat /\ (2 * d) * r <= 2 * n + d /\ 2 * n + d < (2 * d) * r + 2 * d
  BY <1>1, Divided DEF Rounded
<1>3. (2 * d) * r = 2 * r * d
  BY <1>2
<1> QED BY <1>2, <1>3

\* It is a number.
LEMMA RoundedNat == ASSUME NEW n \in Nat, NEW d \in Nat \ {0} PROVE Rounded(n, d) \in Nat
  BY RoundedBounds

\* And no other number is.
LEMMA RoundedIs ==
  ASSUME NEW n \in Nat, NEW d \in Nat \ {0}, NEW r \in Nat,
         2 * r * d - d <= 2 * n, 2 * n < 2 * r * d + d
  PROVE  Rounded(n, d) = r
<1> PICK s \in Nat : s = Rounded(n, d) /\ 2 * s * d - d <= 2 * n /\ 2 * n < 2 * s * d + d
  BY RoundedBounds
<1>1. /\ (2 * r - 1) * d = 2 * r * d - d /\ (2 * r + 1) * d = 2 * r * d + d
      /\ (2 * s - 1) * d = 2 * s * d - d /\ (2 * s + 1) * d = 2 * s * d + d
  OBVIOUS
<1>2. (2 * r - 1) * d < (2 * s + 1) * d /\ (2 * s - 1) * d < (2 * r + 1) * d
  BY <1>1
<1>3. 2 * r - 1 < 2 * s + 1 /\ 2 * s - 1 < 2 * r + 1
  BY <1>2, Factor
<1> QED BY <1>3

\* A whole number is not changed by rounding it.
LEMMA RoundedWhole ==
  ASSUME NEW m \in Nat, NEW d \in Nat \ {0} PROVE Rounded(m * d, d) = m
<1>1. m * d \in Nat /\ 2 * m * d - d <= 2 * (m * d) /\ 2 * (m * d) < 2 * m * d + d
  OBVIOUS
<1> QED BY <1>1, RoundedIs

(* v is n / d rounded as the server does, or an exact half rounded down.   *)
PageRounded(v, n, d) ==
    /\ v \in Nat /\ 2 * v * d - d <= 2 * n /\ 2 * n <= 2 * v * d + d
    /\ Rounded(n, d) \in Nat
    /\ \/ v = Rounded(n, d)
       \/ HalfWay(n, d) /\ v = Rounded(n, d) - 1

\* So the page rounds.
LEMMA PageRounds ==
  ASSUME NEW n \in Nat, NEW d \in Nat \ {0}, NEW of
  PROVE  PageRounded(math_round(n, d, of), n, d)
<1> PICK r : r = Rounded(n, d)
  OBVIOUS
<1> PICK v : v = math_round(n, d, of)
  OBVIOUS
<1>1. r \in Nat /\ 2 * r * d - d <= 2 * n /\ 2 * n < 2 * r * d + d
  BY RoundedBounds
<1>2. CASE v = r
  BY <1>1, <1>2 DEF PageRounded
<1>3. CASE v # r
  <2>1. HalfWay(n, d) /\ v = r - 1
    BY <1>3 DEF math_round
  <2> PICK m, e : m = 2 * n + d /\ e = 2 * d
    OBVIOUS
  <2>2. m \in Nat /\ m > 0 /\ e \in Nat \ {0} /\ m % e = 0 /\ r = m \div e
    BY <2>1 DEF HalfWay, Rounded
  <2>3. m = e * r
    BY <2>2
  <2>4. e * r = 2 * r * d
    BY <1>1
  <2>5. r # 0
    BY <2>2, <2>3
  <2>6. v \in Nat /\ r = v + 1
    BY <1>1, <2>1, <2>5
  <2>7. 2 * r * d = 2 * v * d + 2 * d
    BY <2>6
  <2>8. 2 * v * d \in Nat
    BY <2>6
  <2>9. 2 * v * d - d <= 2 * n /\ 2 * n <= 2 * v * d + d
    BY <2>3, <2>4, <2>7, <2>8
  <2> QED BY <2>1, <2>6, <2>9 DEF PageRounded
<1> QED BY <1>2, <1>3

\* It is a number.
LEMMA PageRoundsNat ==
  ASSUME NEW n \in Nat, NEW d \in Nat \ {0}, NEW of PROVE math_round(n, d, of) \in Nat
<1>1. PageRounded(math_round(n, d, of), n, d)
  BY PageRounds
<1> QED BY <1>1, Zenon DEF PageRounded

\* Where there is no half, it rounds as the server does.
LEMMA PageRoundsWhole ==
  ASSUME NEW m \in Nat, NEW of PROVE math_round(m * 1000, 1000, of) = m
<1>1. ~HalfWay(m * 1000, 1000)
  BY DEF HalfWay
<1>2. Rounded(m * 1000, 1000) = m
  BY RoundedWhole
<1> QED BY <1>1, <1>2 DEF math_round

(* The hundredths k of a kilogram are m / 1000 to the nearest, or one of    *)
(* the two nearest.                                                        *)
Nearest(k, m) == k \in Nat /\ 2000 * k - 1000 <= 2 * m /\ 2 * m <= 2000 * k + 1000

\* A percentage that came from kilograms of a target comes back from its kilograms:
\* either a kilogram's last digit is finer than a percentage's, or it is coarser.
LEMMA RoundTrip ==
  ASSUME NEW q \in Nat, NEW t \in Nat \ {0}, NEW pct \in Nat, pct = Rounded(1000 * q, t),
         NEW k, Nearest(k, pct * t)
  PROVE  Rounded(1000 * k, t) = pct
<1> PICK m : m = pct * t
  OBVIOUS
<1>1. m \in Nat /\ pct * t = m /\ 2 * pct * t = 2 * m
  OBVIOUS
<1>2. 2 * m - t <= 2000 * q /\ 2000 * q < 2 * m + t
  <2>1. 1000 * q \in Nat
    OBVIOUS
  <2>2. 2 * pct * t - t <= 2 * (1000 * q) /\ 2 * (1000 * q) < 2 * pct * t + t
    BY <2>1, RoundedBounds
  <2> QED BY <2>2, <1>1
<1>k. k \in Nat /\ 2000 * k - 1000 <= 2 * m /\ 2 * m <= 2000 * k + 1000
  BY DEF Nearest
<1>3. ASSUME t < 1000 PROVE Rounded(1000 * k, t) = pct
  <2>1. k = q
    BY <1>k, <1>1, <1>2, <1>3
  <2> QED BY <2>1
<1>4. ASSUME t = 1000 PROVE Rounded(1000 * k, t) = pct
  <2>1. m = pct * 1000
    BY <1>1, <1>4
  <2>2. k = pct
    BY <2>1, <1>k
  <2>3. 1000 * k = pct * t
    BY <2>2, <1>4
  <2> QED BY <2>3, RoundedWhole
<1>5. ASSUME 1000 < t PROVE Rounded(1000 * k, t) = pct
  <2> PICK n : n = 1000 * k
    OBVIOUS
  <2>1. n \in Nat /\ 2 * pct * t - t <= 2 * n /\ 2 * n < 2 * pct * t + t
    BY <1>1, <1>k, <1>5
  <2> QED BY <2>1, RoundedIs
<1> QED BY <1>3, <1>4, <1>5

-----------------------------------------------------------------------------
(* Figures of one plan *)

\* What may be stored as a percentage.
Percentages == 0 .. MaxPercent \cup {Null}

\* What the plans, the bounds and the none value are.
LEMMA FigureConstants ==
  /\ Quantities \subseteq Nat /\ Percents \subseteq 0 .. MaxPercent
  /\ MaxKg \in Nat /\ MaxPercent \in Nat /\ MaxFilings \in Nat
  /\ Null \notin Nat /\ Null \notin Plan /\ Null \notin Page /\ Null \notin Record /\ Plans \subseteq Plan
  BY PlansAssumption, FiguresAssumption

\* The page and the server mean the same target, but for a half of a hundredth.
LEMMA TargetsAgree ==
  ASSUME NEW p \in Plan
  PROVE  /\ _target_kg(p) \in (Nat \ {0}) \cup {Null}
         /\ targetToKg(p) \in (Nat \ {0}) \cup {Null}
         /\ ~HalfCent(p) => targetToKg(p) = _target_kg(p)
<1> PICK of : of = <<"target", p.full>>
  OBVIOUS
<1>1. p.full \in Nat \cup {Null} /\ p.unit \in {"kg", "KG", "g", "ton", "crate"}
  BY DEF Plan
<1>2. Null \notin Nat
  BY FigureConstants
<1>3. CASE p.full = Null
  BY <1>3 DEF targetToKg, _target_kg
<1>4. CASE p.full # Null
  <2>1. p.full \in Nat
    BY <1>1, <1>4
  <2>2. CASE p.unit \in {"kg", "KG"}
    <3>1. math_round(p.full * 1000, 1000, of) = p.full
      BY <2>1, PageRoundsWhole
    <3>2. _normalize_unit(p.unit) = "kg"
      BY <2>2 DEF _normalize_unit
    <3>3. targetToKg(p) = IF p.full = 0 THEN Null ELSE p.full
      BY <3>1, <3>2, <1>4 DEF targetToKg, KG_FACTOR
    <3>4. _target_kg(p) = IF p.full > 0 THEN p.full ELSE Null
      BY <2>2, <3>2, <1>4 DEF _target_kg, Weights
    <3> QED BY <3>3, <3>4, <2>1
  <2>3. CASE p.unit = "g"
    <3> PICK r, v, d : r = Rounded(p.full, 1000) /\ v = math_round(p.full, 1000, of) /\ d = 1000
      OBVIOUS
    <3>1. p.full * 1 = p.full
      BY <2>1
    <3>2. _normalize_unit(p.unit) = "g"
      BY <2>3 DEF _normalize_unit
    <3>3. r \in Nat /\ v \in Nat /\ (v = r \/ HalfWay(p.full, 1000))
      <4>1. PageRounded(v, p.full, 1000)
        BY <2>1, PageRounds
      <4> QED BY <4>1 DEF PageRounded
    <3>4. targetToKg(p) = IF v = 0 THEN Null ELSE v
      BY <3>1, <3>2, <2>3, <1>4 DEF targetToKg, KG_FACTOR
    <3>5. _target_kg(p) = IF r > 0 THEN r ELSE Null
      BY <3>2, <2>3, <1>4 DEF _target_kg, Weights
    <3>6. ~HalfCent(p) => v = r
      BY <3>3, <2>3, <1>4 DEF HalfCent
    <3> QED BY <3>3, <3>4, <3>5, <3>6
  <2>4. CASE p.unit = "ton"
    <3> PICK m \in Nat : m = 1000 * p.full
      BY <2>1
    <3>1. p.full * (1000 * 1000) = m * 1000
      BY <2>1
    <3>2. math_round(p.full * (1000 * 1000), 1000, of) = m
      BY <3>1, PageRoundsWhole
    <3>3. _normalize_unit(p.unit) = "ton"
      BY <2>4 DEF _normalize_unit
    <3>4. targetToKg(p) = IF m = 0 THEN Null ELSE m
      BY <3>2, <3>3, <2>4, <1>4 DEF targetToKg, KG_FACTOR
    <3>5. _target_kg(p) = IF m > 0 THEN m ELSE Null
      BY <3>3, <2>4, <1>4 DEF _target_kg, Weights
    <3> QED BY <3>4, <3>5
  <2>5. CASE p.unit = "crate"
    <3>1. p.full * 0 = 0 * 1000 /\ math_round(0 * 1000, 1000, of) = 0
      BY <2>1, PageRoundsWhole
    <3>2. _normalize_unit(p.unit) = "crate"
      BY <2>5 DEF _normalize_unit
    <3>3. targetToKg(p) = Null
      BY <3>1, <3>2, <2>5 DEF targetToKg, KG_FACTOR
    <3>4. _target_kg(p) = Null
      BY <3>2 DEF _target_kg, Weights
    <3> QED BY <3>3, <3>4
  <2> QED BY <1>1, <2>2, <2>3, <2>4, <2>5
<1> QED BY <1>3, <1>4

\* What the server makes of a quantity, and of what an old client sends.
Derived(row, quantity, client, p) ==
    /\ row.plan = p /\ row.quantity = quantity
    /\ quantity = Null => row.pct = client /\ row.target = Null
    /\ quantity # Null => row.target = _target_kg(p)
    /\ quantity # Null /\ row.target = Null => row.pct = Null
    /\ row.target # Null => row.pct = Percentage(quantity, row.target)

\* It is stored, if it fits the columns.
LEMMA DeriveStores ==
  ASSUME NEW quantity \in Figure, NEW client \in Figure, quantity = Null => client \in Percentages,
         NEW p \in Plan, NEW row, row = derive_yield(quantity, client, p), row # Null
  PROVE  row \in Record /\ Derived(row, quantity, client, p)
<1> PICK b : b = [pct |-> Null, quantity |-> quantity, target |-> Null, plan |-> p]
  OBVIOUS
<1> PICK t : t = _target_kg(p)
  OBVIOUS
<1>1. t \in (Nat \ {0}) \cup {Null} /\ Null \notin Nat /\ MaxKg \in Nat /\ MaxPercent \in Nat
  BY TargetsAgree, FigureConstants
<1>2. CASE quantity = Null
  <2>1. row = [b EXCEPT !.pct = client]
    BY <1>2 DEF derive_yield
  <2>2. row = [pct |-> client, quantity |-> quantity, target |-> Null, plan |-> p]
    BY <2>1
  <2> QED BY <2>2, <1>2 DEF Record, Derived, Percentages, Figure
<1>3. CASE quantity # Null /\ t = Null
  <2>1. row = b
    BY <1>3 DEF derive_yield
  <2> QED BY <2>1, <1>3 DEF Record, Derived, Figure
<1>4. CASE quantity # Null /\ t # Null
  <2>1. quantity \in Nat /\ t \in Nat \ {0}
    BY <1>1, <1>4 DEF Figure
  <2> PICK c : c = Percentage(quantity, t)
    OBVIOUS
  <2>2. c \in Nat
    <3>1. 1000 * quantity \in Nat
      BY <2>1
    <3> QED BY <3>1, <2>1, RoundedBounds DEF Percentage
  <2>3. /\ ~(t > MaxKg \/ c > MaxPercent)
        /\ row = [b EXCEPT !.pct = c, !.target = t]
    BY <1>4 DEF derive_yield
  <2>4. row = [pct |-> c, quantity |-> quantity, target |-> t, plan |-> p]
    BY <2>3
  <2> QED BY <2>1, <2>2, <2>3, <2>4, <1>1, <1>4 DEF Record, Derived, Figure
<1> QED BY <1>2, <1>3, <1>4

\* Otherwise the target or the percentage is beyond its column.
LEMMA DeriveRefuses ==
  ASSUME NEW quantity \in Figure, NEW client \in Figure, quantity = Null => client \in Percentages,
         NEW p \in Plan, derive_yield(quantity, client, p) = Null
  PROVE  /\ quantity # Null /\ _target_kg(p) # Null
         /\ _target_kg(p) > MaxKg \/ Percentage(quantity, _target_kg(p)) > MaxPercent
<1> PICK b : b = [pct |-> Null, quantity |-> quantity, target |-> Null, plan |-> p]
  OBVIOUS
<1> PICK t : t = _target_kg(p)
  OBVIOUS
<1>1. Null \notin Record /\ Null \notin Nat /\ MaxKg \in Nat /\ MaxPercent \in Nat
      /\ t \in (Nat \ {0}) \cup {Null}
  BY FigureConstants, TargetsAgree
<1>2. CASE quantity = Null
  <2>1. Null = [b EXCEPT !.pct = client]
    BY <1>2 DEF derive_yield
  <2>2. Null = [pct |-> client, quantity |-> quantity, target |-> Null, plan |-> p]
    BY <2>1
  <2>3. [pct |-> client, quantity |-> quantity, target |-> Null, plan |-> p] \in Record
    BY <1>2 DEF Record, Percentages, Figure
  <2> QED BY <2>2, <2>3, <1>1
<1>3. CASE quantity # Null /\ t = Null
  <2>1. Null = b /\ b \in Record
    BY <1>3 DEF derive_yield, Record, Figure
  <2> QED BY <2>1, <1>1
<1>4. CASE quantity # Null /\ t # Null
  <2> SUFFICES ASSUME ~(t > MaxKg \/ Percentage(quantity, t) > MaxPercent) PROVE FALSE
    BY <1>4
  <2>1. quantity \in Nat /\ t \in Nat \ {0}
    BY <1>1, <1>4 DEF Figure
  <2> PICK c : c = Percentage(quantity, t)
    OBVIOUS
  <2>2. c \in Nat
    <3>1. 1000 * quantity \in Nat
      BY <2>1
    <3> QED BY <3>1, <2>1, RoundedBounds DEF Percentage
  <2>3. Null = [b EXCEPT !.pct = c, !.target = t]
    BY <1>4 DEF derive_yield
  <2>4. Null = [pct |-> c, quantity |-> quantity, target |-> t, plan |-> p]
    BY <2>3
  <2>5. [pct |-> c, quantity |-> quantity, target |-> t, plan |-> p] \in Record
    BY <2>1, <2>2, <1>1 DEF Record, Figure
  <2> QED BY <2>4, <2>5, <1>1
<1> QED BY <1>2, <1>3, <1>4

\* Figures derived so add up.
LEMMA DerivedAddsUp ==
  ASSUME NEW row \in Record, NEW quantity \in Nat, NEW client, NEW p \in Plan,
         Derived(row, quantity, client, p)
  PROVE  /\ row.pct = Null <=> row.target = Null
         /\ row.target # Null =>
              /\ row.target > 0
              /\ (2 * row.pct - 1) * row.target <= 2000 * row.quantity
              /\ 2000 * row.quantity < (2 * row.pct + 1) * row.target
         /\ actual_vs_target_pct(row.quantity, "kg", row.plan) \in {Null, row.pct}
<1>1. Null \notin Nat /\ quantity # Null /\ row.quantity = quantity /\ row.plan = p
      /\ row.target = _target_kg(p) /\ (row.target = Null => row.pct = Null)
      /\ (row.target # Null => row.pct = Percentage(quantity, row.target))
  BY FigureConstants DEF Derived
<1>2. CASE row.target # Null
  <2> PICK t, c : t = row.target /\ c = row.pct
    OBVIOUS
  <2> PICK n : n = 1000 * quantity
    OBVIOUS
  <2>1. t \in Nat \ {0} /\ n \in Nat /\ 2 * n = 2000 * quantity
    BY <1>1, <1>2, TargetsAgree
  <2>2. c = Rounded(n, t)
    BY <1>1, <1>2 DEF Percentage
  <2>3. c \in Nat /\ 2 * c * t - t <= 2000 * quantity /\ 2000 * quantity < 2 * c * t + t
    BY <2>1, <2>2, RoundedBounds
  <2>4. (2 * c - 1) * t = 2 * c * t - t /\ (2 * c + 1) * t = 2 * c * t + t
    BY <2>1, <2>3
  <2>5. /\ t > 0 /\ (2 * c - 1) * t <= 2000 * quantity /\ 2000 * quantity < (2 * c + 1) * t
        /\ c # Null
    BY <2>1, <2>3, <2>4, <1>1
  <2>6. actual_vs_target_pct(quantity, "kg", p) \in {Null, c}
    <3> SUFFICES ASSUME p.full # Null, "kg" = p.unit, p.full # 0
                 PROVE  Percentage(quantity, p.full) = c
      BY <1>1 DEF actual_vs_target_pct
    <3>1. p.full \in Nat /\ p.full > 0
      BY DEF Plan
    <3>2. _target_kg(p) = p.full
      BY <3>1, <1>1 DEF _target_kg, _normalize_unit, Weights
    <3> QED BY <3>2, <1>1, <1>2
  <2> QED BY <2>5, <2>6, <1>1
<1>3. CASE row.target = Null
  <2>1. actual_vs_target_pct(quantity, "kg", p) = Null
    <3> SUFFICES ASSUME p.full # Null, "kg" = p.unit, p.full # 0 PROVE FALSE
      BY <1>1 DEF actual_vs_target_pct
    <3>1. p.full \in Nat /\ p.full > 0
      BY DEF Plan
    <3>2. _target_kg(p) = p.full
      BY <3>1, <1>1 DEF _target_kg, _normalize_unit, Weights
    <3> QED BY <3>1, <3>2, <1>1, <1>3
  <2> QED BY <2>1, <1>1, <1>3
<1> QED BY <1>2, <1>3

-----------------------------------------------------------------------------
(* The invariant *)

\* What a form shows, by what it last came from.
Prefilled ==
    page # Null =>
        /\ page.how = "opened" =>
              <<page.quantity, page.pct>> = computeInitialYieldValue(page.plan, page.latest)
        /\ page.how = "typed" => page.pct = quantityKgToPct(page.quantity, targetToKg(page.plan))
        /\ page.quantity = Null => page.pct = Null

\* The last record's figures are those the server derives from its quantity and plan.
FiledIsDerived ==
    filed # Null => Derived(filed, filed.quantity, filed.pct, filed.plan)

FiguresInv == FiguresTypeOK /\ Prefilled /\ FiledIsDerived

\* Nothing is planned, shown or filed at first but a plan.
LEMMA FiguresInitInv == FiguresInit => FiguresInv
  BY FigureConstants DEF FiguresInit, FiguresInv, FiguresTypeOK, Prefilled, FiledIsDerived, Figure

\* A form that has just been opened has figures, and none without a target.
LEMMA FormOpened ==
  ASSUME NEW p \in Plan, NEW last \in Figure
  PROVE  /\ computeInitialYieldValue(p, last)[1] \in Figure
         /\ computeInitialYieldValue(p, last)[2] \in Figure
         /\ computeInitialYieldValue(p, last)[1] = Null => computeInitialYieldValue(p, last)[2] = Null
         /\ computeInitialYieldValue(p, last)
               = <<computeInitialYieldValue(p, last)[1], computeInitialYieldValue(p, last)[2]>>
<1> PICK t : t = targetToKg(p)
  OBVIOUS
<1>1. t \in (Nat \ {0}) \cup {Null} /\ Null \notin Nat
  BY TargetsAgree, FigureConstants
<1>2. CASE t = Null
  BY <1>2 DEF computeInitialYieldValue, Figure
<1>3. CASE t # Null /\ last = Null
  BY <1>1, <1>3 DEF computeInitialYieldValue, Figure
<1>4. CASE t # Null /\ last # Null
  <2>1. t \in Nat /\ last \in Nat /\ last * t \in Nat
    BY <1>1, <1>4 DEF Figure
  <2>2. pctToQuantityKg(last, t) \in Nat
    BY <2>1, <1>4, PageRoundsNat DEF pctToQuantityKg
  <2> QED BY <2>1, <2>2, <1>1, <1>4 DEF computeInitialYieldValue, Figure
<1> QED BY <1>2, <1>3, <1>4

\* A form is opened.
LEMMA OpenInv == ASSUME FiguresInv, Open PROVE FiguresInv'
<1> PICK i : i = computeInitialYieldValue(plan, latest)
  OBVIOUS
<1>1. plan \in Plan /\ latest \in Figure
  BY DEF FiguresInv, FiguresTypeOK
<1>2. i[1] \in Figure /\ i[2] \in Figure /\ (i[1] = Null => i[2] = Null) /\ i = <<i[1], i[2]>>
  BY <1>1, FormOpened
<1>3. /\ page' = [plan |-> plan, quantity |-> i[1], pct |-> i[2], how |-> "opened", latest |-> latest]
      /\ UNCHANGED <<plan, latest, filed, answer, filings>>
  BY DEF Open
<1>4. page' \in Page
  BY <1>1, <1>2, <1>3 DEF Page
<1>5. Prefilled'
  BY <1>2, <1>3 DEF Prefilled
<1> QED BY <1>3, <1>4, <1>5 DEF FiguresInv, FiguresTypeOK, FiledIsDerived

\* Its quantity is typed.
LEMMA KgInv ==
  ASSUME FiguresInv, NEW quantity \in Quantities \cup {Null}, handleKgChange(quantity)
  PROVE  FiguresInv'
<1> PICK t : t = targetToKg(page.plan)
  OBVIOUS
<1> PICK c : c = quantityKgToPct(quantity, t)
  OBVIOUS
<1>1. page \in Page /\ page # Null /\ page.plan \in Plan /\ page.latest \in Figure
  BY DEF FiguresInv, FiguresTypeOK, handleKgChange, Page
<1>2. t \in (Nat \ {0}) \cup {Null} /\ Null \notin Nat /\ quantity \in Nat \cup {Null}
  BY <1>1, TargetsAgree, FigureConstants
<1>3. c \in Figure /\ (quantity = Null => c = Null)
  <2>1. CASE quantity = Null \/ t = Null
    BY <2>1 DEF quantityKgToPct, Figure
  <2>2. CASE quantity # Null /\ t # Null
    <3> PICK n : n = 1000 * quantity
      OBVIOUS
    <3>1. t \in Nat \ {0} /\ n \in Nat
      BY <2>2, <1>2
    <3>2. c = math_round(n, t, <<"pct", quantity, t>>)
      BY <2>2 DEF quantityKgToPct
    <3>3. c \in Nat
      BY <3>1, <3>2, PageRoundsNat
    <3> QED BY <3>3, <2>2 DEF Figure
  <2> QED BY <2>1, <2>2
<1>4. /\ page' = [page EXCEPT !.quantity = quantity, !.how = "typed", !.pct = c]
      /\ UNCHANGED <<plan, latest, filed, answer, filings>>
  BY DEF handleKgChange
<1>5. page' = [plan |-> page.plan, quantity |-> quantity, pct |-> c, how |-> "typed", latest |-> page.latest]
  BY <1>1, <1>4 DEF Page
<1>6. page' \in Page
  BY <1>1, <1>2, <1>3, <1>5 DEF Page, Figure
<1>7. Prefilled'
  BY <1>3, <1>5 DEF Prefilled
<1> QED BY <1>4, <1>6, <1>7 DEF FiguresInv, FiguresTypeOK, FiledIsDerived

\* Its slider is moved.
LEMMA PctInv ==
  ASSUME FiguresInv, NEW pct \in Percents, handlePctChange(pct)
  PROVE  FiguresInv'
<1> PICK t : t = targetToKg(page.plan)
  OBVIOUS
<1> PICK q : q = pctToQuantityKg(pct, t)
  OBVIOUS
<1>1. page \in Page /\ page # Null /\ page.plan \in Plan /\ page.latest \in Figure /\ t # Null
  BY DEF FiguresInv, FiguresTypeOK, handlePctChange, Page
<1>2. t \in Nat \ {0} /\ Null \notin Nat /\ pct \in Nat /\ pct * t \in Nat
  BY <1>1, TargetsAgree, FigureConstants
<1>3. q \in Nat
  BY <1>1, <1>2, PageRoundsNat DEF pctToQuantityKg
<1>4. /\ page' = [page EXCEPT !.pct = pct, !.how = "slid", !.quantity = q]
      /\ UNCHANGED <<plan, latest, filed, answer, filings>>
  BY DEF handlePctChange
<1>5. page' = [plan |-> page.plan, quantity |-> q, pct |-> pct, how |-> "slid", latest |-> page.latest]
  BY <1>1, <1>4 DEF Page
<1>6. page' \in Page
  BY <1>1, <1>2, <1>3, <1>5 DEF Page, Figure
<1>7. Prefilled'
  BY <1>2, <1>3, <1>5 DEF Prefilled
<1> QED BY <1>4, <1>6, <1>7 DEF FiguresInv, FiguresTypeOK, FiledIsDerived

\* A report is stored or refused.
LEMMA Stored ==
  ASSUME FiguresInv, NEW quantity \in Figure, NEW client \in Figure,
         quantity = Null => client \in Percentages, Store(quantity, client)
  PROVE  /\ plan' = plan /\ plan' \in Plan /\ latest' \in Figure /\ filings' \in 0 .. MaxFilings
         /\ filed' = Null \/ filed' \in Record
         /\ FiledIsDerived'
         /\ answer' \in {"stored", "refused"}
         /\ answer' = "refused" => derive_yield(quantity, client, plan) = Null
         /\ answer' = "stored" => /\ filed' \in Record
                                  /\ Derived(filed', quantity, client, plan)
<1> PICK row : row = derive_yield(quantity, client, plan)
  OBVIOUS
<1>1. /\ plan' = plan /\ filings < MaxFilings /\ filings' = filings + 1
      /\ answer' = IF row = Null THEN "refused" ELSE "stored"
      /\ filed' = IF row = Null THEN filed ELSE row
      /\ latest' = IF row = Null THEN latest ELSE row.pct
  BY DEF Store
<1>2. plan \in Plan /\ filings \in 0 .. MaxFilings /\ latest \in Figure /\ MaxFilings \in Nat
  BY FigureConstants DEF FiguresInv, FiguresTypeOK
<1>3. CASE row = Null
  BY <1>1, <1>2, <1>3 DEF FiguresInv, FiguresTypeOK, FiledIsDerived, Derived
<1>4. CASE row # Null
  <2>1. row \in Record /\ Derived(row, quantity, client, plan)
    BY <1>2, <1>4, DeriveStores
  <2>2. row.pct \in Figure
    BY <2>1, FigureConstants DEF Record, Figure
  <2>3. Derived(row, row.quantity, row.pct, row.plan)
    BY <2>1 DEF Derived
  <2>4. FiledIsDerived'
    BY <1>1, <1>4, <2>3 DEF FiledIsDerived, Derived
  <2> QED BY <1>1, <1>2, <1>4, <2>1, <2>2, <2>4
<1> QED BY <1>3, <1>4

\* A form is sent only with figures it may send.
LEMMA Sendable ==
  ASSUME FiguresInv, page # Null
  PROVE  page \in Page /\ page.quantity \in Figure /\ page.pct \in Figure /\ page.plan \in Plan
         /\ page.latest \in Figure /\ (page.quantity = Null => page.pct \in Percentages)
  BY DEF FiguresInv, FiguresTypeOK, Prefilled, Page, Percentages

\* A form is sent.
LEMMA SubmitInv == ASSUME FiguresInv, Submit PROVE FiguresInv'
<1>1. /\ page # Null /\ Store(page.quantity, page.pct)
      /\ page' = IF answer' = "stored" THEN Null ELSE page
  BY DEF Submit
<1>2. /\ plan' \in Plan /\ latest' \in Figure /\ filings' \in 0 .. MaxFilings
      /\ filed' = Null \/ filed' \in Record
      /\ FiledIsDerived' /\ answer' \in {"stored", "refused"}
  BY <1>1, Sendable, Stored
<1>3. page' = Null \/ page' = page
  BY <1>1
<1>4. Prefilled'
  BY <1>3 DEF FiguresInv, Prefilled
<1> QED BY <1>2, <1>3, <1>4 DEF FiguresInv, FiguresTypeOK

\* An old client sends a percentage.
LEMMA LegacyInv == ASSUME FiguresInv, NEW pct \in Percents, SubmitLegacy(pct) PROVE FiguresInv'
<1>1. Null \in Figure /\ pct \in Figure /\ pct \in Percentages
  BY FigureConstants DEF Figure, Percentages
<1>2. /\ plan' \in Plan /\ latest' \in Figure /\ filings' \in 0 .. MaxFilings
      /\ filed' = Null \/ filed' \in Record
      /\ FiledIsDerived' /\ answer' \in {"stored", "refused"} /\ page' = page
  BY <1>1, Stored DEF SubmitLegacy
<1> QED BY <1>2 DEF FiguresInv, FiguresTypeOK, Prefilled

\* Every step keeps the invariant.
LEMMA FiguresNextInv == FiguresInv /\ [FiguresNext]_figureVars => FiguresInv'
<1> SUFFICES ASSUME FiguresInv, [FiguresNext]_figureVars PROVE FiguresInv'
  OBVIOUS
<1>1. ASSUME NEW p \in Plans, update_cycle(p) PROVE FiguresInv'
  <2>1. p \in Plan
    BY FigureConstants
  <2> QED BY <1>1, <2>1 DEF update_cycle, FiguresInv, FiguresTypeOK, Prefilled, FiledIsDerived
<1>2. ASSUME Leave PROVE FiguresInv'
  BY <1>2 DEF Leave, FiguresInv, FiguresTypeOK, Prefilled, FiledIsDerived
<1>3. ASSUME UNCHANGED figureVars PROVE FiguresInv'
  BY <1>3 DEF figureVars, FiguresInv, FiguresTypeOK, Prefilled, FiledIsDerived
<1> QED
  BY <1>1, <1>2, <1>3, OpenInv, KgInv, PctInv, SubmitInv, LegacyInv DEF FiguresNext

-----------------------------------------------------------------------------
(* The properties *)

\* What is filed adds up.
LEMMA FiledAddsUp == FiguresInv => StoredFiguresAddUp
<1> SUFFICES ASSUME FiguresInv, filed # Null, filed.quantity # Null PROVE StoredFiguresAddUp
  BY DEF StoredFiguresAddUp
<1>1. filed \in Record /\ Derived(filed, filed.quantity, filed.pct, filed.plan)
  BY DEF FiguresInv, FiguresTypeOK, FiledIsDerived
<1>2. filed.quantity \in Nat /\ filed.plan \in Plan
  BY <1>1 DEF Record, Figure
<1> QED BY <1>1, <1>2, DerivedAddsUp DEF StoredFiguresAddUp

\* A form that was typed into is stored as it reads, or an exact half higher; only a target
\* or such a half beyond its column is refused.
LEMMA ForetellsStep ==
  ASSUME FiguresInv, Submit, page.plan = plan, page.how = "typed", ~HalfCent(plan)
  PROVE  IF answer' = "stored"
         THEN /\ filed'.quantity = page.quantity
              /\ \/ page.pct = filed'.pct
                 \/ /\ HalfWay(1000 * page.quantity, filed'.target)
                    /\ page.pct = filed'.pct - 1
         ELSE \/ _target_kg(plan) > MaxKg
              \/ /\ HalfWay(1000 * page.quantity, _target_kg(plan))
                 /\ page.pct = MaxPercent
<1> PICK q, t, c : q = page.quantity /\ t = targetToKg(page.plan) /\ c = page.pct
  OBVIOUS
<1>1. page # Null /\ Store(q, c) /\ validateYieldQuantityKg(q, t)
  BY DEF Submit
<1>2. q \in Figure /\ c \in Figure /\ plan \in Plan /\ (q = Null => c \in Percentages)
      /\ c = quantityKgToPct(q, t)
  BY <1>1, Sendable DEF FiguresInv, Prefilled
<1>3. t = _target_kg(plan) /\ t \in (Nat \ {0}) \cup {Null} /\ Null \notin Nat
      /\ MaxKg \in Nat /\ MaxPercent \in Nat
  BY <1>2, TargetsAgree, FigureConstants
<1>4. /\ answer' \in {"stored", "refused"}
      /\ answer' = "refused" => derive_yield(q, c, plan) = Null
      /\ answer' = "stored" => Derived(filed', q, c, plan)
  BY <1>1, <1>2, Stored
<1>5. ASSUME q # Null, t # Null
      PROVE  /\ q \in Nat /\ t \in Nat \ {0} /\ c \in Nat /\ Percentage(q, t) \in Nat
             /\ \/ c = Percentage(q, t)
                \/ HalfWay(1000 * q, t) /\ c = Percentage(q, t) - 1
  <2> PICK n : n = 1000 * q
    OBVIOUS
  <2> PICK of : of = <<"pct", q, t>>
    BY Zenon
  <2>1. q \in Nat /\ t \in Nat \ {0} /\ n \in Nat
    BY <1>2, <1>3, <1>5 DEF Figure
  <2>2. c = math_round(n, t, of)
    BY <1>2, <1>5 DEF quantityKgToPct
  <2>3. c \in Nat /\ Rounded(n, t) \in Nat
        /\ (c = Rounded(n, t) \/ (HalfWay(n, t) /\ c = Rounded(n, t) - 1))
    <3>1. PageRounded(math_round(n, t, of), n, t)
      BY <2>1, PageRounds
    <3>2. PageRounded(c, n, t)
      BY <3>1, <2>2
    <3> QED BY <3>2, Zenon DEF PageRounded
  <2> QED BY <2>1, <2>3 DEF Percentage
<1>6. CASE answer' = "stored"
  <2>1. filed'.quantity = q /\ (q = Null => filed'.pct = c)
        /\ (q # Null => filed'.target = t)
        /\ (q # Null /\ t = Null => filed'.pct = Null) /\ (q # Null /\ t # Null => filed'.pct = Percentage(q, t))
    BY <1>4, <1>6, <1>3 DEF Derived
  <2>2. t = Null => c = Null
    BY <1>2 DEF quantityKgToPct
  <2>3. c = filed'.pct \/ (HalfWay(1000 * q, filed'.target) /\ c = filed'.pct - 1)
    BY <2>1, <2>2, <1>5
  <2> QED BY <1>6, <2>1, <2>3
<1>7. CASE answer' # "stored"
  <2>1. q # Null /\ t # Null /\ (t > MaxKg \/ Percentage(q, t) > MaxPercent)
    BY <1>2, <1>3, <1>4, <1>7, DeriveRefuses
  <2>2. quantityKgToPct(q, t) <= MaxPercent
    BY <1>1, <2>1 DEF validateYieldQuantityKg
  <2>3. c <= MaxPercent
    BY <2>2, <1>2
  <2> PICK r : r = Percentage(q, t)
    OBVIOUS
  <2>4. r \in Nat /\ c \in Nat /\ (c = r \/ (HalfWay(1000 * q, t) /\ c = r - 1))
    BY <1>5, <2>1
  <2>5. t > MaxKg \/ (HalfWay(1000 * q, t) /\ c = MaxPercent)
    BY <2>1, <2>3, <2>4, <1>3
  <2> QED BY <1>3, <1>7, <2>5
<1> QED BY <1>6, <1>7

\* A form sent as it opened says what the last inspection said.
LEMMA UntouchedStep ==
  ASSUME FiguresInv, Submit, answer' = "stored", page.how = "opened", page.plan = plan,
         filed # Null, filed.plan = plan, filed.target # Null, page.latest = filed.pct,
         ~HalfCent(plan)
  PROVE  filed'.pct = filed.pct
<1> PICK q0, t, pct, q : q0 = filed.quantity /\ t = filed.target /\ pct = filed.pct /\ q = page.quantity
  OBVIOUS
<1>1. filed \in Record /\ Derived(filed, q0, pct, plan) /\ plan \in Plan /\ Null \notin Nat
  BY FigureConstants DEF FiguresInv, FiguresTypeOK, FiledIsDerived
<1>2. q0 # Null /\ t = _target_kg(plan) /\ pct = Rounded(1000 * q0, t)
  BY <1>1 DEF Derived, Percentage
<1>3. q0 \in Nat /\ t \in Nat \ {0} /\ 1000 * q0 \in Nat
  BY <1>1, <1>2, TargetsAgree DEF Record, Figure
<1>4. pct \in Nat /\ pct * t \in Nat
  <2>1. pct \in Nat
    BY <1>2, <1>3, RoundedBounds
  <2> QED BY <2>1, <1>3
<1> PICK of : of = <<"quantity", pct, t>>
  OBVIOUS
<1>5. q = math_round(pct * t, 1000, of) /\ page # Null
  <2>1. page # Null /\ <<page.quantity, page.pct>> = computeInitialYieldValue(plan, pct)
    BY DEF FiguresInv, Prefilled, Submit
  <2>2. targetToKg(plan) = t /\ t # Null /\ pct # Null
    BY <1>1, <1>2, <1>3, <1>4, TargetsAgree
  <2>3. computeInitialYieldValue(plan, pct) = <<pctToQuantityKg(pct, t), pct>>
    BY <2>2 DEF computeInitialYieldValue
  <2>4. page.quantity = pctToQuantityKg(pct, t)
    BY <2>1, <2>3
  <2> QED BY <2>1, <2>2, <2>4 DEF pctToQuantityKg
<1>6. q \in Nat /\ q # Null /\ Nearest(q, pct * t)
  <2> PICK m, d : m = pct * t /\ d = 1000
    OBVIOUS
  <2>1. m \in Nat /\ d \in Nat \ {0} /\ q = math_round(m, d, of)
    BY <1>4, <1>5
  <2>2. PageRounded(q, m, d)
    <3>1. PageRounded(math_round(m, d, of), m, d)
      BY <2>1, PageRounds
    <3> QED BY <3>1, <2>1
  <2>3. q \in Nat /\ 2 * q * d - d <= 2 * m /\ 2 * m <= 2 * q * d + d
    BY <2>2 DEF PageRounded
  <2>4. Nearest(q, m)
    BY <2>1, <2>3 DEF Nearest
  <2> QED BY <2>3, <2>4, <1>1
<1>7. Derived(filed', q, page.pct, plan)
  BY <1>5, Sendable, Stored DEF Submit
<1>8. filed'.pct = Rounded(1000 * q, t)
  BY <1>7, <1>6, <1>2, <1>3, <1>1 DEF Derived, Percentage
<1>9. Rounded(1000 * q, t) = pct
  <2>1. q0 \in Nat /\ t \in Nat \ {0} /\ pct \in Nat
    BY <1>3, <1>4
  <2>2. pct = Rounded(1000 * q0, t) /\ Nearest(q, pct * t)
    BY <1>2, <1>6
  <2> QED BY <2>1, <2>2, RoundTrip
<1> QED BY <1>8, <1>9

\* The stored percentage is that of the stored weights to its last digit, a page foretells
\* what the server stores but for an exact half, and a form nobody touched says what the
\* last one said (yield_calculation.py and yield-planning.ts, for every plan, every target,
\* and whichever halves the browser rounds down).
THEOREM FiguresAddUp == FiguresSpec => FiguresAgree
<1>1. FiguresInv => FiguresTypeOK /\ StoredFiguresAddUp
  BY FiledAddsUp DEF FiguresInv
<1>2. FiguresInv /\ [FiguresNext]_figureVars =>
        [(Submit /\ page.plan = plan /\ page.how = "typed" /\ ~HalfCent(plan)) =>
          IF answer' = "stored"
          THEN /\ filed'.quantity = page.quantity
               /\ \/ page.pct = filed'.pct
                  \/ /\ HalfWay(1000 * page.quantity, filed'.target)
                     /\ page.pct = filed'.pct - 1
          ELSE \/ _target_kg(plan) > MaxKg
               \/ /\ HalfWay(1000 * page.quantity, _target_kg(plan))
                  /\ page.pct = MaxPercent]_figureVars
  BY ForetellsStep
<1>3. FiguresInv /\ [FiguresNext]_figureVars =>
        [(/\ Submit /\ answer' = "stored" /\ page.how = "opened" /\ page.plan = plan
          /\ filed # Null /\ filed.plan = plan /\ filed.target # Null /\ page.latest = filed.pct
          /\ ~HalfCent(plan)) =>
          filed'.pct = filed.pct]_figureVars
  BY UntouchedStep
<1> QED
  BY <1>1, <1>2, <1>3, FiguresInitInv, FiguresNextInv, PTL
     DEF FiguresSpec, FiguresAgree, PageForetellsServer, UntouchedSaysTheSame

-----------------------------------------------------------------------------
(* Lots and plot codes: induction, over sets instead of predicates        *)

LessThan == {ss \in Nat \X Nat : ss[1] < ss[2]}

\* The order of the natural numbers is well founded, in the form the library asks for.
LEMMA LessThanWF == IsWellFoundedOn(LessThan, Nat)
<1>1. OpToRel(<, Nat) = LessThan
  BY Zenon DEF OpToRel, LessThan
<1> QED BY Zenon, <1>1, NatLessThanWellFounded

\* A number in a set that holds whatever all lesser ones are in.
LEMMA StrongInduction ==
  ASSUME NEW T, \A n \in Nat : (\A m \in Nat : m < n => m \in T) => n \in T
  PROVE  \A n \in Nat : n \in T
<1> DEFINE bad == {n \in Nat : n \notin T}
<1> SUFFICES ASSUME bad # {} PROVE FALSE
  OBVIOUS
<1>1. bad \subseteq Nat
  OBVIOUS
<1>2. PICK n \in bad : \A m \in bad : ~(<<m, n>> \in LessThan)
  <2> HIDE DEF bad
  <2> QED BY <1>1, WFMin, LessThanWF
<1>3. \A m \in Nat : m < n => m \in T
  BY <1>2 DEF LessThan
<1> QED BY <1>3

\* By steps of one.
LEMMA Induction ==
  ASSUME NEW T, 0 \in T, \A n \in Nat : n \in T => n + 1 \in T
  PROVE  \A n \in Nat : n \in T
<1>1. \A n \in Nat : (\A m \in Nat : m < n => m \in T) => n \in T
  <2> SUFFICES ASSUME NEW n \in Nat, \A m \in Nat : m < n => m \in T, n # 0 PROVE n \in T
    OBVIOUS
  <2>1. n - 1 \in Nat /\ n - 1 < n /\ (n - 1) + 1 = n
    OBVIOUS
  <2> QED BY <2>1
<1> QED BY <1>1, StrongInduction

-----------------------------------------------------------------------------
(* Texts *)

Step(text, h, n) ==
    IF n = 0 THEN <<>>
    ELSE IF text[n] \in Blanks THEN h[n - 1] ELSE Append(h[n - 1], text[n])

\* What is left of a text is a text.
LEMMA CompactText == ASSUME NEW text \in Text PROVE _compact(text) \in Text
<1> PICK N : N = Len(text)
  OBVIOUS
<1>1. N \in Nat /\ \A i \in 1 .. N : text[i] \in Characters
  BY DEF Text
<1> DEFINE Up(n) == {h \in [0 .. n -> Text] : \A k \in 0 .. n : h[k] = Step(text, h, k)}
           T == {n \in Nat : n <= N => Up(n) # {}}
<1>2. 0 \in T
  <2> DEFINE h == [k \in 0 .. 0 |-> <<>>]
  <2>1. h \in Up(0)
    BY DEF Step, Text
  <2> QED BY <2>1
<1>3. \A n \in Nat : n \in T => n + 1 \in T
  <2> SUFFICES ASSUME NEW n \in Nat, n + 1 <= N, NEW h \in Up(n) PROVE Up(n + 1) # {}
    BY <1>1
  <2> DEFINE t == Step(text, h, n + 1)
             g == [k \in 0 .. (n + 1) |-> IF k = n + 1 THEN t ELSE h[k]]
  <2>1. h[n] \in Text /\ text[n + 1] \in Characters
    BY <1>1
  <2>2. t \in Text
    <3>1. t = IF text[n + 1] \in Blanks THEN h[n] ELSE Append(h[n], text[n + 1])
      BY DEF Step
    <3>2. Append(h[n], text[n + 1]) \in Text
      BY <2>1, AppendProperties DEF Text
    <3> HIDE DEF t
    <3> QED BY <2>1, <3>1, <3>2
  <2> HIDE DEF t
  <2>3. g \in [0 .. (n + 1) -> Text]
    BY <2>2
  <2>4. ASSUME NEW k \in 0 .. (n + 1) PROVE g[k] = Step(text, g, k)
    <3>1. CASE k = n + 1
      BY <3>1 DEF Step, t
    <3>2. CASE k \in 0 .. n
      <4>1. g[k] = h[k] /\ h[k] = Step(text, h, k)
        BY <3>2
      <4>2. k # 0 => g[k - 1] = h[k - 1]
        BY <3>2
      <4> HIDE DEF g
      <4> QED BY <4>1, <4>2 DEF Step
    <3> QED BY <3>1, <3>2
  <2> QED BY <2>3, <2>4
<1>4. \A n \in Nat : n \in T
  <2> HIDE DEF T
  <2> QED BY <1>2, <1>3, Induction
<1>5. PICK h \in Up(N) : TRUE
  BY <1>1, <1>4
<1> DEFINE kept == CHOOSE f : f = [n \in 0 .. N |-> Step(text, f, n)]
<1>6. h = [n \in 0 .. N |-> Step(text, h, n)]
  BY <1>5
<1>7. kept = [n \in 0 .. N |-> Step(text, kept, n)]
  BY <1>6, Zenon
<1>8. _compact(text) = kept[N]
  BY Zenon DEF _compact, Step
<1> DEFINE U == {n \in Nat : n <= N => kept[n] \in Text}
<1>9. 0 \in U
  <2>1. kept[0] = Step(text, kept, 0)
    BY <1>1, <1>7
  <2> HIDE DEF kept
  <2> QED BY <2>1 DEF Step, Text
<1>10. \A n \in Nat : n \in U => n + 1 \in U
  <2> SUFFICES ASSUME NEW n \in Nat, n + 1 <= N, kept[n] \in Text PROVE kept[n + 1] \in Text
    BY <1>1
  <2>1. kept[n + 1] = Step(text, kept, n + 1)
    BY <1>1, <1>7
  <2>2. text[n + 1] \in Characters
    BY <1>1
  <2> HIDE DEF kept
  <2>3. CASE text[n + 1] \in Blanks
    BY <2>1, <2>3 DEF Step
  <2>4. CASE text[n + 1] \notin Blanks
    <3>1. kept[n + 1] = Append(kept[n], text[n + 1])
      BY <2>1, <2>4 DEF Step
    <3> QED BY <2>2, <3>1 DEF Text
  <2> QED BY <2>3, <2>4
<1>11. \A n \in Nat : n \in U
  <2> HIDE DEF U
  <2> QED BY <1>9, <1>10, Induction
<1> HIDE DEF kept
<1> QED BY <1>1, <1>8, <1>11

-----------------------------------------------------------------------------
(* Decimal digits *)

DigitStep(h, n) ==
    IF n < 10 THEN <<DigitChars[n + 1]>> ELSE Append(h[n \div 10], DigitChars[(n % 10) + 1])

\* A tenth and a remainder.
LEMMA Tenth ==
  ASSUME NEW n \in Nat
  PROVE  n \div 10 \in Nat /\ n % 10 \in 0 .. 9 /\ n = 10 * (n \div 10) + (n % 10)
  OBVIOUS

\* Ten characters, no two alike, and none of them a separator.
LEMMA TenDigits ==
  /\ \A d, e \in 1 .. 10 : DigitChars[d] = DigitChars[e] => d = e
  /\ Digit \subseteq Characters /\ \A c \in Digit : c \notin {":", "|", "-"}
  /\ \A d \in 1 .. 10 : DigitChars[d] \in Digit
<1>1. /\ DigitChars[1] = "0" /\ DigitChars[2] = "1" /\ DigitChars[3] = "2" /\ DigitChars[4] = "3"
      /\ DigitChars[5] = "4" /\ DigitChars[6] = "5" /\ DigitChars[7] = "6" /\ DigitChars[8] = "7"
      /\ DigitChars[9] = "8" /\ DigitChars[10] = "9"
  BY DEF DigitChars
<1>2. \A d \in 1 .. 10 : d \in {1, 2, 3, 4, 5, 6, 7, 8, 9, 10}
  OBVIOUS
<1>3. \A d, e \in 1 .. 10 : DigitChars[d] = DigitChars[e] => d = e
  BY <1>1, <1>2
<1>4. Digit \subseteq Characters
  BY CharactersAssumption
<1>5. \A d \in 1 .. 10 : DigitChars[d] # ":" /\ DigitChars[d] # "|" /\ DigitChars[d] # "-"
  BY <1>1, <1>2
<1> QED BY <1>3, <1>4, <1>5 DEF Digit

Good(n, h) == \A k \in 0 .. n : h[k] = DigitStep(h, k)
Up(n) == {h \in [0 .. n -> Seq(Characters)] : Good(n, h)}

\* The digits that are defined by recursion exist.
LEMMA DigitsRecur == \A n \in Nat : digits[n] = DigitStep(digits, n)
<1> DEFINE T == {n \in Nat : Up(n) # {}}
           U == {k \in Nat : \A n, m \in Nat : \A h, g : k <= n /\ k <= m /\ Good(n, h) /\ Good(m, g)
                                 => h[k] = g[k]}
<1>1. 0 \in T
  <2> DEFINE h == [k \in 0 .. 0 |-> <<DigitChars[1]>>]
  <2>1. h \in [0 .. 0 -> Seq(Characters)]
    BY TenDigits DEF Digit
  <2>2. Good(0, h)
    BY DEF Good, DigitStep
  <2> HIDE DEF h
  <2> QED BY <2>1, <2>2 DEF Up
<1>2. \A n \in Nat : n \in T => n + 1 \in T
  <2> SUFFICES ASSUME NEW n \in Nat, NEW h \in Up(n) PROVE Up(n + 1) # {}
    OBVIOUS
  <2> USE DEF Up, Good
  <2> DEFINE t == DigitStep(h, n + 1)
             g == [k \in 0 .. (n + 1) |-> IF k = n + 1 THEN t ELSE h[k]]
  <2>1. t \in Seq(Characters)
    <3>1. ASSUME ~(n + 1 < 10) PROVE (n + 1) \div 10 \in 0 .. n
      <4> PICK m \in Nat : m = n + 1
        OBVIOUS
      <4> QED BY <3>1, Tenth
    <3>2. (n + 1) % 10 \in 0 .. 9
      <4> PICK m \in Nat : m = n + 1
        OBVIOUS
      <4> QED BY Tenth
    <3>3. DigitChars[((n + 1) % 10) + 1] \in Characters /\ (n + 1 < 10 => DigitChars[(n + 1) + 1] \in Characters)
      <4> PICK r : r = (n + 1) % 10
        OBVIOUS
      <4>1. r + 1 \in 1 .. 10 /\ (n + 1 < 10 => (n + 1) + 1 \in 1 .. 10)
        BY <3>2
      <4>2. DigitChars[r + 1] \in Characters /\ (n + 1 < 10 => DigitChars[(n + 1) + 1] \in Characters)
        BY <4>1, TenDigits DEF Digit
      <4> QED BY <4>2
    <3>4. CASE n + 1 < 10
      BY <3>3, <3>4 DEF DigitStep
    <3>5. CASE ~(n + 1 < 10)
      <4>1. h[(n + 1) \div 10] \in Seq(Characters)
        BY <3>1, <3>5
      <4>2. Append(h[(n + 1) \div 10], DigitChars[((n + 1) % 10) + 1]) \in Seq(Characters)
        BY <3>3, <4>1, AppendProperties
      <4> QED BY <3>5, <4>2 DEF DigitStep
    <3> QED BY <3>4, <3>5
  <2> HIDE DEF t
  <2>2. g \in [0 .. (n + 1) -> Seq(Characters)]
    BY <2>1
  <2>3. ASSUME NEW k \in 0 .. (n + 1) PROVE g[k] = DigitStep(g, k)
    <3>1. ~(k < 10) => k \div 10 \in 0 .. n
      BY k \in Nat, Tenth
    <3>2. ~(k < 10) => g[k \div 10] = h[k \div 10]
      BY <3>1
    <3>3. DigitStep(g, k) = DigitStep(h, k)
      <4> HIDE DEF g
      <4> QED BY <3>2 DEF DigitStep
    <3>4. CASE k = n + 1
      BY <3>3, <3>4 DEF t
    <3>5. CASE k \in 0 .. n
      <4>1. g[k] = h[k] /\ h[k] = DigitStep(h, k)
        BY <3>5
      <4> QED BY <3>3, <4>1
    <3> QED BY <3>4, <3>5
  <2> QED BY <2>2, <2>3
<1>3. \A n \in Nat : n \in T
  <2> HIDE DEF T
  <2> QED BY <1>1, <1>2, Induction
<1>4. \A k \in Nat : k \in U
  <2>1. \A k \in Nat : (\A j \in Nat : j < k => j \in U) => k \in U
    <3> SUFFICES ASSUME NEW k \in Nat, \A j \in Nat : j < k => j \in U,
                        NEW n \in Nat, NEW m \in Nat, NEW h, NEW g,
                        k <= n, k <= m, Good(n, h), Good(m, g)
                 PROVE  h[k] = g[k]
      OBVIOUS
    <3>1. h[k] = DigitStep(h, k) /\ g[k] = DigitStep(g, k)
      BY DEF Good
    <3>2. ~(k < 10) => h[k \div 10] = g[k \div 10]
      <4> SUFFICES ASSUME ~(k < 10) PROVE h[k \div 10] = g[k \div 10]
        OBVIOUS
      <4>1. k \div 10 \in Nat /\ k \div 10 < k
        BY Tenth
      <4>2. k \div 10 \in U /\ k \div 10 <= n /\ k \div 10 <= m
        BY <4>1
      <4> QED BY <4>2
    <3> QED BY <3>1, <3>2 DEF DigitStep
  <2> HIDE DEF U
  <2> QED BY <2>1, StrongInduction
<1> DEFINE H(n) == CHOOSE h \in [0 .. n -> Seq(Characters)] : Good(n, h)
           F == [n \in Nat |-> H(n)[n]]
<1>5. \A n \in Nat : Good(n, H(n))
  <2> SUFFICES ASSUME NEW n \in Nat PROVE \E h \in [0 .. n -> Seq(Characters)] : Good(n, h)
    BY Zenon
  <2> QED BY <1>3 DEF Up
<1>6. ASSUME NEW n \in Nat PROVE F[n] = DigitStep(F, n)
  <2>1. H(n)[n] = DigitStep(H(n), n)
    <3> HIDE DEF H
    <3> QED BY <1>5 DEF Good
  <2>2. ASSUME ~(n < 10) PROVE H(n)[n \div 10] = F[n \div 10]
    <3>1. n \div 10 \in Nat /\ n \div 10 <= n /\ n \div 10 <= n \div 10
      BY Tenth
    <3>2. n \div 10 \in U /\ Good(n, H(n)) /\ Good(n \div 10, H(n \div 10))
      BY <1>4, <1>5, <3>1
    <3>3. F[n \div 10] = H(n \div 10)[n \div 10]
      BY <3>1
    <3> HIDE DEF H, F
    <3> QED BY <3>1, <3>2, <3>3
  <2>3. F[n] = H(n)[n]
    OBVIOUS
  <2> HIDE DEF H, F
  <2> QED BY <2>1, <2>2, <2>3 DEF DigitStep
<1>7. F = [n \in Nat |-> DigitStep(F, n)]
  <2>1. F = [n \in Nat |-> F[n]]
    OBVIOUS
  <2> HIDE DEF F
  <2> QED BY <1>6, <2>1
<1>8. digits = CHOOSE f : f = [n \in Nat |-> DigitStep(f, n)]
  BY Zenon DEF digits, DigitStep
<1>9. digits = [n \in Nat |-> DigitStep(digits, n)]
  <2> HIDE DEF F
  <2> QED BY <1>7, <1>8, Zenon
<1> QED BY <1>9, Zenon

-----------------------------------------------------------------------------
(* What digits look like *)

\* One character is a text.
LEMMA OneChar ==
  ASSUME NEW S, NEW c \in S PROVE <<c>> \in Seq(S) /\ Len(<<c>>) = 1 /\ <<c>>[1] = c
  OBVIOUS

\* A text and one character more tell the text and the character.
LEMMA AppendTells ==
  ASSUME NEW S, NEW s \in Seq(S), NEW u \in Seq(S), NEW c \in S, NEW d \in S,
         Append(s, c) = Append(u, d)
  PROVE  s = u /\ c = d
<1> PICK v : v = Append(s, c)
  OBVIOUS
<1>1. /\ Len(v) = Len(s) + 1 /\ v[Len(s) + 1] = c /\ \A i \in 1 .. Len(s) : v[i] = s[i]
      /\ Len(v) = Len(u) + 1 /\ v[Len(u) + 1] = d /\ \A i \in 1 .. Len(u) : v[i] = u[i]
      /\ Len(s) \in Nat /\ Len(u) \in Nat
  BY AppendProperties, LenProperties
<1>2. Len(s) = Len(u) /\ c = d
  BY <1>1
<1> QED BY <1>1, <1>2, SeqEqual

\* A number below ten is one digit, any other a digit after those of its tenth.
LEMMA DigitsAre ==
  ASSUME NEW n \in Nat
  PROVE  /\ n < 10 => digits[n] = <<DigitChars[n + 1]>> /\ DigitChars[n + 1] \in Digit
         /\ n >= 10 => /\ digits[n] = Append(digits[n \div 10], DigitChars[(n % 10) + 1])
                       /\ DigitChars[(n % 10) + 1] \in Digit
                       /\ n \div 10 \in Nat /\ n \div 10 < n /\ n \div 10 >= 1
<1>1. digits[n] = DigitStep(digits, n)
  BY DigitsRecur
<1>2. n \div 10 \in Nat /\ n % 10 \in 0 .. 9 /\ (n >= 10 => n \div 10 < n /\ n \div 10 >= 1)
  BY Tenth
<1> PICK r : r = n % 10
  OBVIOUS
<1>3. r + 1 \in 1 .. 10 /\ (n < 10 => n + 1 \in 1 .. 10)
  BY <1>2
<1>4. DigitChars[r + 1] \in Digit /\ (n < 10 => DigitChars[n + 1] \in Digit)
  BY <1>3, TenDigits
<1>5. n < 10 => digits[n] = <<DigitChars[n + 1]>>
  BY <1>1 DEF DigitStep
<1>6. n >= 10 => digits[n] = Append(digits[n \div 10], DigitChars[r + 1])
  BY <1>1 DEF DigitStep
<1> QED BY <1>2, <1>4, <1>5, <1>6

\* Digits, the first of them not zero.
LEMMA DigitsShape ==
  \A n \in Nat : /\ digits[n] \in Seq(Digit) /\ Len(digits[n]) >= 1
                 /\ n >= 1 => digits[n][1] # "0"
<1> DEFINE T == {n \in Nat : /\ digits[n] \in Seq(Digit) /\ Len(digits[n]) >= 1
                             /\ n >= 1 => digits[n][1] # "0"}
<1>1. ASSUME NEW n \in Nat, \A m \in Nat : m < n => m \in T PROVE n \in T
  <2>1. CASE n < 10
    <3> PICK c : c = DigitChars[n + 1]
      OBVIOUS
    <3>1. digits[n] = <<c>> /\ c \in Digit
      BY <2>1, DigitsAre
    <3>2. n >= 1 => c # "0"
      <4>1. n + 1 \in 1 .. 10 /\ (n >= 1 => n + 1 # 1)
        BY <2>1
      <4>2. DigitChars[1] = "0"
        BY DEF DigitChars
      <4> QED BY <4>1, <4>2, TenDigits
    <3>3. digits[n] \in Seq(Digit) /\ Len(digits[n]) = 1 /\ digits[n][1] = c
      BY <3>1, OneChar
    <3> QED BY <3>2, <3>3
  <2>2. CASE n >= 10
    <3> PICK c, m : c = DigitChars[(n % 10) + 1] /\ m = n \div 10
      OBVIOUS
    <3>1. digits[n] = Append(digits[m], c) /\ c \in Digit /\ m \in Nat /\ m < n /\ m >= 1
      BY <2>2, DigitsAre
    <3>2. digits[m] \in Seq(Digit) /\ Len(digits[m]) >= 1 /\ digits[m][1] # "0"
      BY <1>1, <3>1
    <3>3. /\ digits[n] \in Seq(Digit) /\ Len(digits[n]) = Len(digits[m]) + 1
          /\ digits[n][1] = digits[m][1] /\ Len(digits[m]) \in Nat
      <4> PICK s \in Seq(Digit) : s = digits[m] /\ Len(s) >= 1 /\ Len(s) \in Nat
        BY <3>2, LenProperties
      <4>1. /\ Append(s, c) \in Seq(Digit) /\ Len(Append(s, c)) = Len(s) + 1
            /\ Append(s, c)[1] = s[1]
        BY <3>1, AppendProperties
      <4> QED BY <3>1, <4>1
    <3> QED BY <3>2, <3>3
  <2> QED BY <2>1, <2>2
<1>2. \A n \in Nat : n \in T
  <2> HIDE DEF T
  <2> QED BY <1>1, StrongInduction
<1> QED BY <1>2

Ends(text, s, c) == s \in Seq(Digit) /\ c \in Digit /\ text = Append(s, c)

\* So do the digits of a number.
LEMMA EndsTell ==
  ASSUME NEW text, NEW s, NEW c, NEW u, NEW d, Ends(text, s, c), Ends(text, u, d)
  PROVE  s = u /\ c = d
<1>1. Append(s, c) = Append(u, d)
  BY Zenon DEF Ends
<1>2. s \in Seq(Digit) /\ c \in Digit /\ u \in Seq(Digit) /\ d \in Digit
  BY Zenon DEF Ends
<1> QED BY <1>1, <1>2, AppendTells

\* Different numbers have different digits.
LEMMA DigitsInjective == \A n, m \in Nat : digits[n] = digits[m] => n = m
<1> DEFINE T == {n \in Nat : \A m \in Nat : digits[n] = digits[m] => n = m}
<1>1. ASSUME NEW n \in Nat, \A m \in Nat : m < n => m \in T PROVE n \in T
  <2> SUFFICES ASSUME NEW m \in Nat, digits[n] = digits[m] PROVE n = m
    OBVIOUS
  <2>1. CASE n < 10 /\ m < 10
    <3>1. DigitChars[n + 1] = DigitChars[m + 1]
      BY <2>1, DigitsAre
    <3>2. n + 1 \in 1 .. 10 /\ m + 1 \in 1 .. 10
      BY <2>1
    <3> QED BY <3>1, <3>2, TenDigits
  <2>2. CASE n >= 10 /\ m >= 10
    <3> PICK c, x, d, y : /\ c = DigitChars[(n % 10) + 1] /\ x = n \div 10
                          /\ d = DigitChars[(m % 10) + 1] /\ y = m \div 10
      OBVIOUS
    <3>1. /\ digits[n] = Append(digits[x], c) /\ c \in Digit /\ x \in Nat /\ x < n
          /\ digits[m] = Append(digits[y], d) /\ d \in Digit /\ y \in Nat
      BY <2>2, DigitsAre
    <3>2. digits[x] = digits[y] /\ c = d
      <4>1. Ends(digits[n], digits[x], c) /\ Ends(digits[m], digits[y], d)
        BY <3>1, DigitsShape DEF Ends
      <4>2. Ends(digits[n], digits[y], d)
        BY <4>1, Zenon
      <4> QED BY <4>1, <4>2, EndsTell
    <3>3. x = y
      BY <1>1, <3>1, <3>2
    <3>4. n % 10 = m % 10
      <4> PICK r, s : r = n % 10 /\ s = m % 10
        OBVIOUS
      <4>1. r + 1 \in 1 .. 10 /\ s + 1 \in 1 .. 10 /\ r \in Int /\ s \in Int
        BY Tenth
      <4>2. DigitChars[r + 1] = DigitChars[s + 1]
        BY <3>2
      <4>3. r + 1 = s + 1
        BY <4>1, <4>2, TenDigits
      <4> QED BY <4>1, <4>3
    <3> QED BY <3>3, <3>4, Tenth
  <2>3. ASSUME NEW a \in Nat, NEW b \in Nat, a < 10, b >= 10 PROVE Len(digits[a]) # Len(digits[b])
    <3> PICK d, y : d = DigitChars[(b % 10) + 1] /\ y = b \div 10
      OBVIOUS
    <3>1. digits[b] = Append(digits[y], d) /\ d \in Digit /\ y \in Nat
      BY <2>3, DigitsAre
    <3>2. Len(digits[b]) = Len(digits[y]) + 1 /\ Len(digits[y]) >= 1 /\ Len(digits[y]) \in Nat
      BY <3>1, DigitsShape, AppendProperties
    <3>3. Len(digits[a]) = 1
      <4> PICK c : c = DigitChars[a + 1]
        OBVIOUS
      <4>1. digits[a] = <<c>> /\ c \in Digit
        BY <2>3, DigitsAre
      <4> QED BY <4>1, OneChar
    <3> QED BY <3>2, <3>3
  <2> QED BY <2>1, <2>2, <2>3
<1>2. \A n \in Nat : n \in T
  <2> HIDE DEF T
  <2> QED BY <1>1, StrongInduction
<1> QED BY <1>2

\* How a number is padded.
LEMMA ZfillAre ==
  ASSUME NEW n \in Nat
  PROVE  /\ n < 10 => zfill(n) = <<"0", "0", DigitChars[n + 1]>>
         /\ n >= 10 /\ n < 100 => zfill(n) = <<"0">> \o digits[n]
         /\ n >= 100 => zfill(n) = digits[n]
<1>1. digits[n] \in Seq(Digit) /\ "0" \in Digit
  <2>1. DigitChars[1] = "0"
    BY DEF DigitChars
  <2> QED BY <2>1, DigitsShape, TenDigits
<1> PICK k : k = IF n < 10 THEN 2 ELSE IF n < 100 THEN 1 ELSE 0
  OBVIOUS
<1>z. zfill(n) = [i \in 1 .. k |-> "0"] \o digits[n]
  BY Zenon DEF zfill
<1>2. ASSUME n < 10 PROVE zfill(n) = <<"0", "0", DigitChars[n + 1]>>
  <2> PICK c : c = DigitChars[n + 1]
    OBVIOUS
  <2>1. digits[n] = <<c>> /\ c \in Digit
    BY <1>2, DigitsAre
  <2>2. zfill(n) = [i \in 1 .. 2 |-> "0"] \o <<c>>
    <3>1. k = 2
      BY <1>2
    <3> QED BY <1>z, <2>1, <3>1
  <2>3. [i \in 1 .. 2 |-> "0"] = <<"0", "0">>
    OBVIOUS
  <2>4. ASSUME NEW z PROVE <<z, z>> \o <<c>> = <<z, z, c>>
    <3> PICK S : S = {z, c}
      OBVIOUS
    <3> PICK s, u, v : s = <<z, z>> /\ u = <<c>> /\ v = <<z, z, c>>
      OBVIOUS
    <3>1. /\ s \in Seq(S) /\ Len(s) = 2 /\ s[1] = z /\ s[2] = z
          /\ u \in Seq(S) /\ Len(u) = 1 /\ u[1] = c
          /\ v \in Seq(S) /\ Len(v) = 3 /\ v[1] = z /\ v[2] = z /\ v[3] = c
      OBVIOUS
    <3>2. s \o u \in Seq(S) /\ Len(s \o u) = 3
          /\ \A i \in 1 .. 3 : (s \o u)[i] = IF i <= 2 THEN s[i] ELSE u[i - 2]
      BY <3>1, ConcatProperties
    <3>3. \A i \in 1 .. 3 : i = 1 \/ i = 2 \/ i = 3
      OBVIOUS
    <3>4. \A i \in 1 .. 3 : (s \o u)[i] = v[i]
      BY <3>1, <3>2, <3>3
    <3>5. s \o u = v
      BY <3>1, <3>2, <3>4, SeqEqual
    <3> QED BY <3>5
  <2> QED BY <2>2, <2>3, <2>4
<1>3. ASSUME n >= 10, n < 100 PROVE zfill(n) = <<"0">> \o digits[n]
  <2>1. zfill(n) = [i \in 1 .. 1 |-> "0"] \o digits[n]
    <3>1. k = 1
      BY <1>3
    <3> QED BY <1>z, <3>1
  <2>2. [i \in 1 .. 1 |-> "0"] = <<"0">>
    OBVIOUS
  <2> QED BY <2>1, <2>2
<1>4. ASSUME n >= 100 PROVE zfill(n) = digits[n]
  <2>1. zfill(n) = [i \in 1 .. 0 |-> "0"] \o digits[n]
    <3>1. k = 0
      BY <1>4
    <3> QED BY <1>z, <3>1
  <2>2. [i \in 1 .. 0 |-> "0"] = <<>>
    OBVIOUS
  <2> QED BY <1>1, <2>1, <2>2, ConcatEmptySeq
<1> QED BY <1>2, <1>3, <1>4

\* A padded number is a text of digits.
LEMMA ZfillText == ASSUME NEW n \in Nat PROVE zfill(n) \in Seq(Digit)
<1>1. "0" \in Digit
  <2>1. DigitChars[1] = "0"
    BY DEF DigitChars
  <2> QED BY <2>1, TenDigits
<1>2. digits[n] \in Seq(Digit)
  BY DigitsShape
<1>3. CASE n < 10
  <2> PICK c : c = DigitChars[n + 1]
    OBVIOUS
  <2>1. zfill(n) = <<"0", "0", c>> /\ c \in Digit
    BY <1>3, ZfillAre, DigitsAre
  <2> QED BY <1>1, <2>1
<1>4. CASE n >= 10 /\ n < 100
  <2> PICK s, z : s = digits[n] /\ z = <<"0">>
    OBVIOUS
  <2>1. s \in Seq(Digit) /\ z \in Seq(Digit)
    BY <1>1, <1>2, OneChar
  <2>2. z \o s \in Seq(Digit)
    BY <2>1, ConcatProperties
  <2>3. zfill(n) = z \o s
    BY <1>4, ZfillAre
  <2> QED BY <2>2, <2>3, Zenon
<1>5. CASE n >= 100
  BY <1>2, <1>5, ZfillAre
<1> QED BY <1>3, <1>4, <1>5

\* Different numbers are padded to different texts.
LEMMA ZfillInjective ==
  ASSUME NEW n \in Nat, NEW m \in Nat, zfill(n) = zfill(m) PROVE n = m
<1> DEFINE first(k) == zfill(k)[1]
           second(k) == zfill(k)[2]
<1>1. ASSUME NEW k \in Nat, k < 10
      PROVE  zfill(k) = <<"0", "0", DigitChars[k + 1]>> /\ k + 1 \in 1 .. 10
  BY <1>1, ZfillAre
<1>2. ASSUME NEW k \in Nat, k >= 10, k < 100
      PROVE  /\ zfill(k) = <<"0">> \o digits[k] /\ digits[k] \in Seq(Digit)
             /\ zfill(k)[1] = "0" /\ zfill(k)[2] # "0"
  <2>1. "0" \in Digit
    <3>1. DigitChars[1] = "0"
      BY DEF DigitChars
    <3> QED BY <3>1, TenDigits
  <2>2. /\ zfill(k) = <<"0">> \o digits[k] /\ digits[k] \in Seq(Digit)
        /\ Len(digits[k]) >= 1 /\ digits[k][1] # "0" /\ Len(digits[k]) \in Nat
    BY <1>2, ZfillAre, DigitsShape, LenProperties
  <2> PICK s, z : s = digits[k] /\ z = <<"0">>
    OBVIOUS
  <2>3. z \in Seq(Digit) /\ Len(z) = 1 /\ z[1] = "0"
    BY <2>1
  <2>4. (z \o s)[1] = z[1] /\ (z \o s)[2] = s[1]
    BY <2>2, <2>3, ConcatProperties
  <2> QED BY <2>2, <2>3, <2>4
<1>3. ASSUME NEW k \in Nat, k >= 100 PROVE zfill(k) = digits[k] /\ zfill(k)[1] # "0"
  BY <1>3, ZfillAre, DigitsShape
<1>4. CASE n < 10 /\ m < 10
  BY <1>1, <1>4, TenDigits
<1>5. CASE n >= 10 /\ n < 100 /\ m >= 10 /\ m < 100
  <2>1. "0" \in Digit
    <3>1. DigitChars[1] = "0"
      BY DEF DigitChars
    <3> QED BY <3>1, TenDigits
  <2>2. <<"0">> \in Seq(Digit)
    BY <2>1
  <2>3. <<"0">> \o digits[n] = <<"0">> \o digits[m]
    BY <1>2, <1>5
  <2>4. digits[n] = digits[m]
    BY <1>2, <1>5, <2>2, <2>3, ConcatSimplifications
  <2> QED BY <2>4, DigitsInjective
<1>6. CASE n >= 100 /\ m >= 100
  BY <1>3, <1>6, DigitsInjective
<1>7. ASSUME NEW k \in Nat, k < 10 PROVE zfill(k)[1] = "0" /\ zfill(k)[2] = "0"
  BY <1>1, <1>7
<1> QED BY <1>2, <1>3, <1>4, <1>5, <1>6, <1>7

-----------------------------------------------------------------------------
(* Texts put together *)

Joins(w, s, t) == s \in Text /\ t \in Text /\ w = s \o t

\* What is where in two texts one after the other.
LEMMA Joined ==
  ASSUME NEW w, NEW s, NEW t, Joins(w, s, t)
  PROVE  /\ w \in Text /\ s \in Text /\ t \in Text
         /\ Len(s) \in Nat /\ Len(t) \in Nat /\ Len(w) = Len(s) + Len(t)
         /\ \A i \in 1 .. Len(s) : w[i] = s[i]
         /\ \A i \in 1 .. Len(t) : w[Len(s) + i] = t[i]
<1>0. s \in Text /\ t \in Text /\ w = s \o t
  BY Zenon DEF Joins
<1> PICK x : x = s \o t
  OBVIOUS
<1>1. /\ x \in Text /\ Len(x) = Len(s) + Len(t)
      /\ \A i \in 1 .. Len(s) + Len(t) : x[i] = IF i <= Len(s) THEN s[i] ELSE t[i - Len(s)]
  BY <1>0, ConcatProperties DEF Text
<1>2. Len(s) \in Nat /\ Len(t) \in Nat
  BY <1>0, LenProperties DEF Text
<1> PICK m, n : m = Len(s) /\ n = Len(t)
  OBVIOUS
<1>3. m \in Nat /\ n \in Nat /\ \A i \in 1 .. m + n : x[i] = IF i <= m THEN s[i] ELSE t[i - m]
  BY <1>1, <1>2, Zenon
<1>4. \A i \in 1 .. m : x[i] = s[i]
  BY <1>3
<1>5. ASSUME NEW i \in 1 .. n PROVE x[m + i] = t[i]
  <2>1. m + i \in 1 .. m + n /\ ~(m + i <= m) /\ (m + i) - m = i
    BY <1>3
  <2> QED BY <1>3, <2>1
<1>6. x = w
  BY <1>0, Zenon
<1> QED BY <1>0, <1>1, <1>2, <1>4, <1>5, <1>6, Zenon

\* Texts of the same length in front tell both parts.
LEMMA SplitLen ==
  ASSUME NEW w, NEW s, NEW t, NEW u, NEW v, Joins(w, s, t), Joins(w, u, v), Len(s) = Len(u)
  PROVE  s = u /\ t = v
<1> PICK m, n, k : m = Len(s) /\ n = Len(t) /\ k = Len(v)
  OBVIOUS
<1>1. /\ m \in Nat /\ n \in Nat /\ Len(w) = m + n /\ s \in Text /\ t \in Text
      /\ \A i \in 1 .. m : w[i] = s[i]
      /\ \A i \in 1 .. n : w[m + i] = t[i]
  BY Joined
<1>2. /\ k \in Nat /\ Len(w) = m + k /\ u \in Text /\ v \in Text
      /\ \A i \in 1 .. m : w[i] = u[i]
      /\ \A i \in 1 .. k : w[m + i] = v[i]
  BY Joined
<1>3. n = k
  BY <1>1, <1>2
<1>4. s = u
  <2>1. \A i \in 1 .. Len(s) : s[i] = u[i]
    BY <1>1, <1>2
  <2> QED BY <1>1, <1>2, <2>1, SeqEqual DEF Text
<1>5. t = v
  <2>1. Len(t) = Len(v) /\ \A i \in 1 .. Len(t) : t[i] = v[i]
    BY <1>1, <1>2, <1>3
  <2> QED BY <1>1, <1>2, <2>1, SeqEqual DEF Text
<1> QED BY <1>4, <1>5

Without(s, z) == \A i \in 1 .. Len(s) : s[i] # z[1]

Single(z) == Len(z) = 1

\* Where a separator in front of a text is.
LEMMA BeginsWith ==
  ASSUME NEW a, NEW z, NEW t, Joins(a, z, t), Single(z)
  PROVE  Len(a) \in Nat /\ Len(a) >= 1 /\ a[1] = z[1]
<1>1. /\ Len(t) \in Nat /\ Len(a) = Len(z) + Len(t)
      /\ \A i \in 1 .. Len(z) : a[i] = z[i]
  BY Joined
<1> QED BY <1>1 DEF Single

\* And where one behind a text is.
LEMMA EndsWith ==
  ASSUME NEW a, NEW x, NEW z, Joins(a, x, z), Single(z)
  PROVE  Len(x) \in Nat /\ Len(a) = Len(x) + 1 /\ a[Len(x) + 1] = z[1]
<1>1. /\ Len(x) \in Nat /\ Len(a) = Len(x) + Len(z)
      /\ \A i \in 1 .. Len(z) : a[Len(x) + i] = z[i]
  BY Joined
<1> QED BY <1>1 DEF Single

\* So do texts without a separator, in front of it.
LEMMA SplitAt ==
  ASSUME NEW w, NEW z, Single(z),
         NEW s, NEW a, NEW t, Joins(w, s, a), Joins(a, z, t), Without(s, z),
         NEW u, NEW b, NEW v, Joins(w, u, b), Joins(b, z, v), Without(u, z)
  PROVE  s = u /\ t = v
<1> PICK m, n, k, l, c : m = Len(s) /\ n = Len(u) /\ k = Len(a) /\ l = Len(b) /\ c = z[1]
  OBVIOUS
<1>1. k \in Nat /\ k >= 1 /\ a[1] = c
  BY BeginsWith
<1>2. l \in Nat /\ l >= 1 /\ b[1] = c
  BY BeginsWith
<1>3. m \in Nat /\ (\A i \in 1 .. m : w[i] = s[i]) /\ \A i \in 1 .. k : w[m + i] = a[i]
  BY Joined
<1>4. n \in Nat /\ (\A i \in 1 .. n : w[i] = u[i]) /\ \A i \in 1 .. l : w[n + i] = b[i]
  BY Joined
<1>5. w[m + 1] = c /\ w[n + 1] = c
  BY <1>1, <1>2, <1>3, <1>4
<1>6. (\A i \in 1 .. m : s[i] # c) /\ \A i \in 1 .. n : u[i] # c
  BY Zenon DEF Without
<1>7. m = n
  <2>1. ~(m < n)
    <3> SUFFICES ASSUME m < n PROVE FALSE
      OBVIOUS
    <3>1. m + 1 \in 1 .. n
      BY <1>3, <1>4
    <3> QED BY <1>4, <1>5, <1>6, <3>1
  <2>2. ~(n < m)
    <3> SUFFICES ASSUME n < m PROVE FALSE
      OBVIOUS
    <3>1. n + 1 \in 1 .. m
      BY <1>3, <1>4
    <3> QED BY <1>3, <1>5, <1>6, <3>1
  <2> QED BY <1>3, <1>4, <2>1, <2>2
<1>8. s = u /\ a = b
  BY <1>7, SplitLen
<1>9. t = v
  BY <1>8, SplitLen
<1> QED BY <1>8, <1>9

\* And texts without one, behind the last.
LEMMA SplitLast ==
  ASSUME NEW w, NEW z, Single(z),
         NEW s, NEW a, NEW t, Joins(w, a, t), Joins(a, s, z), Without(t, z),
         NEW u, NEW b, NEW v, Joins(w, b, v), Joins(b, u, z), Without(v, z)
  PROVE  s = u /\ t = v
<1> PICK m, n, k, l, c : m = Len(s) /\ n = Len(u) /\ k = Len(t) /\ l = Len(v) /\ c = z[1]
  OBVIOUS
<1>1. m \in Nat /\ Len(a) = m + 1 /\ a[m + 1] = c
  BY EndsWith
<1>2. n \in Nat /\ Len(b) = n + 1 /\ b[n + 1] = c
  BY EndsWith
<1>3. /\ k \in Nat /\ Len(w) = m + 1 + k
      /\ w[m + 1] = c /\ \A i \in 1 .. k : w[m + 1 + i] = t[i]
  <2>1. /\ k \in Nat /\ Len(w) = Len(a) + k
        /\ \A i \in 1 .. Len(a) : w[i] = a[i]
        /\ \A i \in 1 .. k : w[Len(a) + i] = t[i]
    BY Joined
  <2> QED BY <1>1, <2>1
<1>4. /\ l \in Nat /\ Len(w) = n + 1 + l
      /\ w[n + 1] = c /\ \A i \in 1 .. l : w[n + 1 + i] = v[i]
  <2>1. /\ l \in Nat /\ Len(w) = Len(b) + l
        /\ \A i \in 1 .. Len(b) : w[i] = b[i]
        /\ \A i \in 1 .. l : w[Len(b) + i] = v[i]
    BY Joined
  <2> QED BY <1>2, <2>1
<1>5. (\A i \in 1 .. k : t[i] # c) /\ \A i \in 1 .. l : v[i] # c
  BY Zenon DEF Without
<1>6. ~(m < n)
  <2> SUFFICES ASSUME m < n PROVE FALSE
    OBVIOUS
  <2> PICK j : j = n - m
    OBVIOUS
  <2>1. j \in 1 .. k /\ m + 1 + j = n + 1
    BY <1>1, <1>2, <1>3, <1>4
  <2>2. w[m + 1 + j] = t[j]
    BY <1>3, <2>1
  <2> QED BY <1>4, <1>5, <2>1, <2>2
<1>7. ~(n < m)
  <2> SUFFICES ASSUME n < m PROVE FALSE
    OBVIOUS
  <2> PICK j : j = m - n
    OBVIOUS
  <2>1. j \in 1 .. l /\ n + 1 + j = m + 1
    BY <1>1, <1>2, <1>3, <1>4
  <2>2. w[n + 1 + j] = v[j]
    BY <1>4, <2>1
  <2> QED BY <1>3, <1>5, <2>1, <2>2
<1>8. m = n
  BY <1>1, <1>2, <1>6, <1>7
<1>9. a = b /\ t = v
  BY <1>1, <1>2, <1>8, SplitLen
<1>10. s = u
  BY <1>8, <1>9, SplitLen
<1> QED BY <1>9, <1>10

\* Of three texts, whichever two are joined first.
LEMMA Rejoined ==
  ASSUME NEW w, NEW p, NEW r, NEW x, NEW y, Joins(w, p, r), Joins(p, x, y)
  PROVE  \E q : Joins(w, x, q) /\ Joins(q, y, r)
<1>1. x \in Text /\ y \in Text /\ r \in Text /\ p = x \o y /\ w = p \o r
  BY Zenon DEF Joins
<1> PICK q : q = y \o r
  OBVIOUS
<1>2. (x \o y) \o r = x \o (y \o r)
  BY <1>1, ConcatAssociative DEF Text
<1>3. w = x \o q
  BY <1>1, <1>2, Zenon
<1>4. q \in Text
  <2>1. y \o r \in Text
    BY <1>1, ConcatProperties DEF Text
  <2> QED BY <2>1, Zenon
<1> QED BY <1>1, <1>3, <1>4, Zenon DEF Joins

\* The texts the formats are made of.
LEMMA Pieces ==
  /\ <<":">> \in Text /\ <<"|">> \in Text /\ <<"-">> \in Text /\ <<>> \in Text
  /\ <<"v2", "|">> \in Text /\ <<"pcv1", "|">> \in Text
  /\ Single(<<":">>) /\ Single(<<"|">>) /\ Single(<<"-">>)
  /\ <<":">>[1] = ":" /\ <<"|">>[1] = "|" /\ <<"-">>[1] = "-"
<1>1. {"-", "|", ":", "v2", "pcv1"} \subseteq Characters
  BY CharactersAssumption
<1>2. <<":">> \in Text /\ <<"|">> \in Text /\ <<"-">> \in Text
  BY <1>1 DEF Text
<1>3. <<"v2", "|">> \in Text /\ <<"pcv1", "|">> \in Text /\ <<>> \in Text
  BY <1>1 DEF Text
<1>4. Single(<<":">>) /\ Single(<<"|">>) /\ Single(<<"-">>)
  BY DEF Single
<1>5. <<":">>[1] = ":" /\ <<"|">>[1] = "|" /\ <<"-">>[1] = "-"
  OBVIOUS
<1> QED BY <1>2, <1>3, <1>4, <1>5, Zenon

\* A text of digits is a text, and holds no separator.
LEMMA DigitsText ==
  ASSUME NEW t \in Seq(Digit)
  PROVE  t \in Text /\ Without(t, <<":">>) /\ Without(t, <<"-">>)
<1>1. Len(t) \in Nat /\ \A i \in 1 .. Len(t) : t[i] \in Digit
  OBVIOUS
<1>2. t \in Text
  BY TenDigits DEF Text
<1>3. \A i \in 1 .. Len(t) : t[i] # ":" /\ t[i] # "-"
  BY <1>1, TenDigits
<1> QED BY <1>2, <1>3, Pieces DEF Without

\* A text with its length in front, and how it is put together.
LEMMA PrefixedJoins ==
  ASSUME NEW text \in Text
  PROVE  \E e, d : /\ Joins(Prefixed(text), e, text) /\ Joins(e, d, <<":">>)
                   /\ d = digits[Len(text)] /\ Without(d, <<":">>)
<1> PICK d, z : d = digits[Len(text)] /\ z = <<":">>
  OBVIOUS
<1>1. d \in Text /\ Without(d, z)
  <2>1. Len(text) \in Nat
    BY LenProperties DEF Text
  <2> QED BY <2>1, DigitsShape, DigitsText
<1>2. z \in Text
  BY Pieces
<1> PICK e : e = d \o z
  OBVIOUS
<1>3. Joins(e, d, z)
  BY <1>1, <1>2, Zenon DEF Joins
<1>4. e \in Text
  BY <1>3, Joined
<1>5. Prefixed(text) = e \o text
  BY Zenon DEF Prefixed
<1>6. Joins(Prefixed(text), e, text)
  BY <1>4, <1>5, Zenon DEF Joins
<1> QED BY <1>1, <1>3, <1>6, Zenon

\* A text with its length in front tells itself and what follows.
LEMMA Netstring ==
  ASSUME NEW w, NEW a \in Text, NEW r, NEW b \in Text, NEW s,
         Joins(w, Prefixed(a), r), Joins(w, Prefixed(b), s)
  PROVE  a = b /\ r = s
<1> PICK z : z = <<":">>
  OBVIOUS
<1>z. Single(z)
  BY Pieces
<1>1. PICK e, d : /\ Joins(Prefixed(a), e, a) /\ Joins(e, d, z)
                  /\ d = digits[Len(a)] /\ Without(d, z)
  BY PrefixedJoins, Zenon
<1>2. PICK f, g : /\ Joins(Prefixed(b), f, b) /\ Joins(f, g, z)
                  /\ g = digits[Len(b)] /\ Without(g, z)
  BY PrefixedJoins, Zenon
<1>3. PICK p : Joins(w, e, p) /\ Joins(p, a, r)
  BY <1>1, Rejoined
<1>4. PICK q : Joins(w, d, q) /\ Joins(q, z, p)
  BY <1>1, <1>3, Rejoined
<1>5. PICK x : Joins(w, f, x) /\ Joins(x, b, s)
  BY <1>2, Rejoined
<1>6. PICK y : Joins(w, g, y) /\ Joins(y, z, x)
  BY <1>2, <1>5, Rejoined
<1>7. d = g /\ p = x
  BY <1>z, <1>1, <1>2, <1>4, <1>6, SplitAt
<1>8. Len(a) = Len(b)
  <2>1. Len(a) \in Nat /\ Len(b) \in Nat
    BY LenProperties DEF Text
  <2> QED BY <1>1, <1>2, <1>7, <2>1, DigitsInjective
<1> QED BY <1>3, <1>5, <1>7, <1>8, SplitLen

-----------------------------------------------------------------------------
(* Keys *)

Series(key, a, b, c) ==
    \E v, z, p, q, r, t :
        /\ v = <<"v2", "|">> /\ z = <<"|">>
        /\ Joins(key, v, p) /\ Joins(p, Prefixed(a), q) /\ Joins(q, z, r)
        /\ Joins(r, Prefixed(b), t) /\ Joins(t, z, Prefixed(c))

\* How three texts are put together to a key.
LEMMA SeriesOf ==
  ASSUME NEW a \in Text, NEW b \in Text, NEW c \in Text, NEW key,
         key = <<"v2", "|">> \o Prefixed(a) \o <<"|">> \o Prefixed(b) \o <<"|">> \o Prefixed(c)
  PROVE  Series(key, a, b, c) /\ key \in Text
<1> PICK v, z, x, y, w : /\ v = <<"v2", "|">> /\ z = <<"|">>
                         /\ x = Prefixed(a) /\ y = Prefixed(b) /\ w = Prefixed(c)
  OBVIOUS
<1>1. v \in Text /\ z \in Text /\ x \in Text /\ y \in Text /\ w \in Text
  <2>1. \A t \in Text : Prefixed(t) \in Text
    <3> SUFFICES ASSUME NEW t \in Text PROVE Prefixed(t) \in Text
      OBVIOUS
    <3>1. PICK e : Joins(Prefixed(t), e, t)
      BY PrefixedJoins, Zenon
    <3> QED BY <3>1, Joined
  <2> QED BY <2>1, Pieces
<1> PICK k1 : k1 = v \o x
  OBVIOUS
<1> PICK k2 : k2 = k1 \o z
  OBVIOUS
<1> PICK k3 : k3 = k2 \o y
  OBVIOUS
<1> PICK k4 : k4 = k3 \o z
  OBVIOUS
<1>2. key = k4 \o w
  BY Zenon
<1>3. Joins(k1, v, x) /\ k1 \in Text
  <2>1. Joins(k1, v, x)
    BY <1>1, Zenon DEF Joins
  <2> QED BY <2>1, Joined
<1>4. Joins(k2, k1, z) /\ k2 \in Text
  <2>1. Joins(k2, k1, z)
    BY <1>1, <1>3, Zenon DEF Joins
  <2> QED BY <2>1, Joined
<1>5. Joins(k3, k2, y) /\ k3 \in Text
  <2>1. Joins(k3, k2, y)
    BY <1>1, <1>4, Zenon DEF Joins
  <2> QED BY <2>1, Joined
<1>6. Joins(k4, k3, z) /\ k4 \in Text
  <2>1. Joins(k4, k3, z)
    BY <1>1, <1>5, Zenon DEF Joins
  <2> QED BY <2>1, Joined
<1>7. Joins(key, k4, w) /\ key \in Text
  <2>1. Joins(key, k4, w)
    BY <1>1, <1>2, <1>6, Zenon DEF Joins
  <2> QED BY <2>1, Joined
<1>8. PICK t : Joins(key, k3, t) /\ Joins(t, z, w)
  BY <1>6, <1>7, Rejoined
<1>9. PICK r : Joins(key, k2, r) /\ Joins(r, y, t)
  BY <1>5, <1>8, Rejoined
<1>10. PICK q : Joins(key, k1, q) /\ Joins(q, z, r)
  BY <1>4, <1>9, Rejoined
<1>11. PICK p : Joins(key, v, p) /\ Joins(p, x, q)
  BY <1>3, <1>10, Rejoined
<1>12. Series(key, a, b, c)
  BY <1>8, <1>9, <1>10, <1>11, Zenon DEF Series
<1> QED BY <1>7, <1>12

Same(a, b, c, d, e, f) == a = d /\ b = e /\ c = f

\* A key is of one series.
LEMMA SeriesTell ==
  ASSUME NEW a \in Text, NEW b \in Text, NEW c \in Text,
         NEW d \in Text, NEW e \in Text, NEW f \in Text,
         NEW key, Series(key, a, b, c), Series(key, d, e, f)
  PROVE  Same(a, b, c, d, e, f)
<1>1. PICK v1, z1, p, q, r, t :
        /\ v1 = <<"v2", "|">> /\ z1 = <<"|">>
        /\ Joins(key, v1, p) /\ Joins(p, Prefixed(a), q) /\ Joins(q, z1, r)
        /\ Joins(r, Prefixed(b), t) /\ Joins(t, z1, Prefixed(c))
  BY Zenon DEF Series
<1>2. PICK v2, z2, p2, q2, r2, t2 :
        /\ v2 = <<"v2", "|">> /\ z2 = <<"|">>
        /\ Joins(key, v2, p2) /\ Joins(p2, Prefixed(d), q2) /\ Joins(q2, z2, r2)
        /\ Joins(r2, Prefixed(e), t2) /\ Joins(t2, z2, Prefixed(f))
  BY Zenon DEF Series
<1>v. v1 = v2 /\ z1 = z2
  BY <1>1, <1>2, Zenon
<1>3. p = p2
  BY <1>v, <1>1, <1>2, SplitLen
<1>4. a = d /\ q = q2
  BY <1>1, <1>2, <1>3, Netstring
<1>5. r = r2
  BY <1>v, <1>1, <1>2, <1>4, SplitLen
<1>6. b = e /\ t = t2
  BY <1>1, <1>2, <1>5, Netstring
<1>7. Prefixed(c) = Prefixed(f)
  BY <1>v, <1>1, <1>2, <1>6, SplitLen
<1>8. c = f
  <2> PICK w, n : w = Prefixed(c) /\ n = <<>>
    OBVIOUS
  <2>1. w \in Text /\ n \in Text
    BY <1>1, Joined, Pieces
  <2>2. w \o <<>> = w
    BY <2>1, ConcatEmptySeq DEF Text
  <2>3. Joins(w, w, n)
    BY <2>1, <2>2, Zenon DEF Joins
  <2>4. Joins(w, Prefixed(c), n) /\ Joins(w, Prefixed(f), n)
    BY <1>7, <2>3, Zenon
  <2> QED BY <2>4, Netstring
<1> QED BY <1>4, <1>6, <1>8 DEF Same

OneKey(a, b, c, d, e, f) == build_auto_lot_series_key(a, b, c) = build_auto_lot_series_key(d, e, f)

\* Two keys are one exactly when the texts are, but for their blanks.
LEMMA KeysTell ==
  ASSUME NEW a \in Text, NEW b \in Text, NEW c \in Text,
         NEW d \in Text, NEW e \in Text, NEW f \in Text
  PROVE  OneKey(a, b, c, d, e, f)
           <=> Same(_compact(a), _compact(b), _compact(c), _compact(d), _compact(e), _compact(f))
<1> PICK x, y, w, x2, y2, w2 : /\ x = _compact(a) /\ y = _compact(b) /\ w = _compact(c)
                               /\ x2 = _compact(d) /\ y2 = _compact(e) /\ w2 = _compact(f)
  OBVIOUS
<1>1. x \in Text /\ y \in Text /\ w \in Text /\ x2 \in Text /\ y2 \in Text /\ w2 \in Text
  BY CompactText
<1> PICK k, l : k = build_auto_lot_series_key(a, b, c) /\ l = build_auto_lot_series_key(d, e, f)
  OBVIOUS
<1>2. k = <<"v2", "|">> \o Prefixed(x) \o <<"|">> \o Prefixed(y) \o <<"|">> \o Prefixed(w)
  BY Zenon DEF build_auto_lot_series_key
<1>3. l = <<"v2", "|">> \o Prefixed(x2) \o <<"|">> \o Prefixed(y2) \o <<"|">> \o Prefixed(w2)
  BY Zenon DEF build_auto_lot_series_key
<1>4. Series(k, x, y, w)
  <2> HIDE DEF Series
  <2> QED BY <1>1, <1>2, SeriesOf, Zenon
<1>5. Series(l, x2, y2, w2)
  BY <1>1, <1>3, SeriesOf, Zenon
<1>6. ASSUME k = l PROVE Same(x, y, w, x2, y2, w2)
  <2>1. Series(k, x2, y2, w2)
    BY <1>5, <1>6, Zenon
  <2> PICK key : key = k
    OBVIOUS
  <2>2. Series(key, x, y, w) /\ Series(key, x2, y2, w2)
    BY <1>4, <2>1, Zenon
  <2> QED BY <1>1, <2>2, SeriesTell
<1>7. Same(x, y, w, x2, y2, w2) => k = l
  BY <1>2, <1>3, Zenon DEF Same
<1>8. k = l <=> Same(x, y, w, x2, y2, w2)
  BY <1>6, <1>7
<1> QED BY <1>8, Zenon DEF OneKey

\* A key is a text.
LEMMA KeyText ==
  ASSUME NEW a \in Text, NEW b \in Text, NEW c \in Text
  PROVE  build_auto_lot_series_key(a, b, c) \in Text
<1> PICK x, y, w : x = _compact(a) /\ y = _compact(b) /\ w = _compact(c)
  OBVIOUS
<1>1. x \in Text /\ y \in Text /\ w \in Text
  BY CompactText
<1> PICK k : k = build_auto_lot_series_key(a, b, c)
  OBVIOUS
<1>2. k = <<"v2", "|">> \o Prefixed(x) \o <<"|">> \o Prefixed(y) \o <<"|">> \o Prefixed(w)
  BY Zenon DEF build_auto_lot_series_key
<1>3. k \in Text
  BY <1>1, <1>2, SeriesOf, Zenon
<1> QED BY <1>3, Zenon

Prints(lot, owner, label, code, n) == lot = format_auto_lot_no(owner, label, code, n)

\* Of one series, lots tell their running numbers.
LEMMA LotsTell ==
  ASSUME NEW a \in Text, NEW b \in Text, NEW c \in Text, NEW n \in Nat,
         NEW d \in Text, NEW e \in Text, NEW f \in Text, NEW m \in Nat, NEW lot,
         Same(_compact(a), _compact(b), _compact(c), _compact(d), _compact(e), _compact(f)),
         Prints(lot, a, b, c, n), Prints(lot, d, e, f, m)
  PROVE  n = m
<1> PICK x, y, w, z : x = _compact(a) /\ y = _compact(b) /\ w = _compact(c) /\ z = <<"-">>
  OBVIOUS
<1>1. x \in Text /\ y \in Text /\ w \in Text /\ z \in Text
  BY CompactText, Pieces
<1> PICK front : front = y \o z \o x \o z \o w \o z
  OBVIOUS
<1>2. front \in Text
  <2>1. \A s, t \in Text : s \o t \in Text
    BY ConcatProperties DEF Text
  <2>2. y \o z \in Text
    BY <1>1, <2>1
  <2>3. y \o z \o x \in Text
    BY <1>1, <2>1, <2>2
  <2>4. y \o z \o x \o z \in Text
    BY <1>1, <2>1, <2>3
  <2>5. y \o z \o x \o z \o w \in Text
    BY <1>1, <2>1, <2>4
  <2>6. y \o z \o x \o z \o w \o z \in Text
    BY <1>1, <2>1, <2>5
  <2> QED BY <2>6, Zenon
<1> PICK s, t : s = zfill(n) /\ t = zfill(m)
  OBVIOUS
<1>3. lot = front \o s
  BY Zenon DEF format_auto_lot_no, Prints
<1>4. lot = front \o t
  BY Zenon DEF format_auto_lot_no, Prints, Same
<1>5. s \in Text /\ t \in Text
  BY ZfillText, DigitsText
<1>6. Joins(lot, front, s)
  BY <1>2, <1>3, <1>5, Zenon DEF Joins
<1>7. Joins(lot, front, t)
  BY <1>2, <1>4, <1>5, Zenon DEF Joins
<1>8. s = t
  BY <1>6, <1>7, SplitLen
<1> QED BY <1>8, ZfillInjective

-----------------------------------------------------------------------------
(* Plot codes *)

Coded(code, a, month, n) ==
    \E z, p, q, r : /\ z = <<"-">> /\ Joins(code, r, zfill(n)) /\ Joins(r, q, z)
                    /\ Joins(q, p, month) /\ Joins(p, a, z)

\* How a plot code is put together.
LEMMA CodeOf ==
  ASSUME NEW a \in Suppliers, NEW month \in Months, NEW n \in Nat
  PROVE  /\ Coded(format_auto_plot_code(a, month, n), a, month, n)
         /\ format_auto_plot_code(a, month, n) \in Text
<1> PICK z, t, code : z = <<"-">> /\ t = zfill(n) /\ code = format_auto_plot_code(a, month, n)
  OBVIOUS
<1>1. a \in Text /\ month \in Text /\ z \in Text /\ t \in Text
  <2>1. a \in Text /\ month \in Text
    BY TextsAssumption
  <2>2. t \in Text
    BY ZfillText, DigitsText
  <2> QED BY <2>1, <2>2, Pieces
<1> PICK p : p = a \o z
  OBVIOUS
<1> PICK q : q = p \o month
  OBVIOUS
<1> PICK r : r = q \o z
  OBVIOUS
<1>2. code = r \o t
  BY Zenon DEF format_auto_plot_code
<1>3. Joins(p, a, z) /\ p \in Text
  <2>1. Joins(p, a, z)
    BY <1>1, Zenon DEF Joins
  <2> QED BY <2>1, Joined
<1>4. Joins(q, p, month) /\ q \in Text
  <2>1. Joins(q, p, month)
    BY <1>1, <1>3, Zenon DEF Joins
  <2> QED BY <2>1, Joined
<1>5. Joins(r, q, z) /\ r \in Text
  <2>1. Joins(r, q, z)
    BY <1>1, <1>4, Zenon DEF Joins
  <2> QED BY <2>1, Joined
<1>6. Joins(code, r, t) /\ code \in Text
  <2>1. Joins(code, r, t)
    BY <1>1, <1>2, <1>5, Zenon DEF Joins
  <2> QED BY <2>1, Joined
<1>7. Coded(code, a, month, n)
  BY <1>3, <1>4, <1>5, <1>6, Zenon DEF Coded
<1> QED BY <1>6, <1>7, Zenon

\* A planting date is four digits, no separator.
LEMMA MonthText ==
  ASSUME NEW month \in Months PROVE month \in Text /\ Without(month, <<"-">>)
<1>1. month \in Text
  BY TextsAssumption
<1>2. Len(month) = 4 /\ \A i \in 1 .. 4 : month[i] \in Digit
  BY MonthsAssumption
<1>3. \A i \in 1 .. Len(month) : month[i] # "-"
  BY <1>2, TenDigits
<1> QED BY <1>1, <1>3, Pieces DEF Without

\* A plot code is of one supplier, month and number, whatever is in the supplier's code.
LEMMA CodesTell ==
  ASSUME NEW a \in Suppliers, NEW month \in Months, NEW n \in Nat,
         NEW b \in Suppliers, NEW other \in Months, NEW m \in Nat,
         format_auto_plot_code(a, month, n) = format_auto_plot_code(b, other, m)
  PROVE  a = b /\ month = other /\ n = m
<1> PICK code : code = format_auto_plot_code(a, month, n)
  OBVIOUS
<1>1. Coded(code, a, month, n)
  BY CodeOf, Zenon
<1>2. Coded(code, b, other, m)
  <2>1. Coded(format_auto_plot_code(b, other, m), b, other, m)
    BY CodeOf
  <2> QED BY <2>1, Zenon
<1>3. PICK z1, p, q, r : /\ z1 = <<"-">> /\ Joins(code, r, zfill(n)) /\ Joins(r, q, z1)
                         /\ Joins(q, p, month) /\ Joins(p, a, z1)
  BY <1>1, Zenon DEF Coded
<1>4. PICK z2, p2, q2, r2 : /\ z2 = <<"-">> /\ Joins(code, r2, zfill(m)) /\ Joins(r2, q2, z2)
                            /\ Joins(q2, p2, other) /\ Joins(p2, b, z2)
  BY <1>2, Zenon DEF Coded
<1>5. z1 = z2 /\ Single(z1)
  BY <1>3, <1>4, Pieces
<1>6. Without(zfill(n), z1) /\ Without(zfill(m), z1)
  BY <1>3, ZfillText, DigitsText
<1>7. q = q2 /\ zfill(n) = zfill(m)
  BY <1>3, <1>4, <1>5, <1>6, SplitLast
<1>8. Without(month, z1) /\ Without(other, z1)
  BY <1>3, MonthText
<1>9. a = b /\ month = other
  BY <1>3, <1>4, <1>5, <1>7, <1>8, SplitLast
<1>10. n = m
  BY <1>7, ZfillInjective
<1> QED BY <1>9, <1>10

-----------------------------------------------------------------------------
(* The next number *)

\* Of numbers that are bounded there is a greatest, and MaxOf is it.
LEMMA MaxOfIs ==
  ASSUME NEW S, S \subseteq Nat, NEW b \in Nat, \A k \in S : k <= b
  PROVE  /\ MaxOf(S) \in Nat /\ MaxOf(S) <= b /\ \A k \in S : k <= MaxOf(S)
         /\ S # {} => MaxOf(S) \in S
<1>1. CASE S = {}
  BY <1>1 DEF MaxOf
<1>2. CASE S # {}
  <2> DEFINE U == {n \in Nat : \A k \in S : k <= n}
  <2>1. U \subseteq Nat /\ U # {}
    OBVIOUS
  <2>2. PICK n \in U : \A m \in U : ~(<<m, n>> \in LessThan)
    <3> HIDE DEF U
    <3> QED BY <2>1, WFMin, LessThanWF
  <2>3. n \in S
    <3> SUFFICES ASSUME n \notin S PROVE FALSE
      OBVIOUS
    <3>1. \A k \in S : k < n
      OBVIOUS
    <3>2. n - 1 \in Nat /\ n - 1 < n
      <4> PICK k \in S : k < n
        BY <1>2, <3>1
      <4>1. k \in Nat /\ n \in Nat
        OBVIOUS
      <4> HIDE DEF U
      <4> QED BY <4>1
    <3>3. \A k \in S : k <= n - 1
      BY <3>1, <3>2
    <3>4. n - 1 \in U
      BY <3>2, <3>3
    <3> QED BY <2>2, <3>2, <3>4 DEF LessThan
  <2>4. \A k \in S : k <= n
    OBVIOUS
  <2>5. \E x \in S : \A k \in S : k <= x
    BY <2>3, <2>4
  <2> PICK max : max = CHOOSE x \in S : \A k \in S : k <= x
    OBVIOUS
  <2>6. max \in S /\ \A k \in S : k <= max
    BY <2>5, Zenon
  <2>7. MaxOf(S) = max
    BY <1>2, Zenon DEF MaxOf
  <2>8. max \in Nat /\ max <= b
    BY <2>6
  <2> QED BY <2>6, <2>7, <2>8
<1> QED BY <1>1, <1>2

Bounded(rows) == \E b \in Nat : \A x \in rows : x.running <= b

\* Finitely many rows have a greatest number.
LEMMA FiniteBounded ==
  ASSUME NEW rows, IsFiniteSet(rows), \A x \in rows : x.running \in Nat
  PROVE  Bounded(rows)
<1> PICK n : n = Cardinality(rows)
  OBVIOUS
<1>1. n \in Nat /\ ExistsBijection(1 .. n, rows)
  BY FS_CardinalityType
<1>2. PICK f \in [1 .. n -> rows] : \A x \in rows : \E i \in 1 .. n : f[i] = x
  BY <1>1 DEF ExistsBijection, Bijection, Surjection
<1> DEFINE T == {k \in Nat : k <= n => \E b \in Nat : \A i \in 1 .. k : f[i].running <= b}
<1>3. 0 \in T
  OBVIOUS
<1>4. ASSUME NEW k \in Nat, k \in T PROVE k + 1 \in T
  <2>1. ASSUME k + 1 <= n PROVE \E d \in Nat : \A i \in 1 .. (k + 1) : f[i].running <= d
    <3>1. k <= n
      BY <1>1, <2>1
    <3> PICK b \in Nat : \A i \in 1 .. k : f[i].running <= b
      BY <1>4, <3>1
    <3> PICK x : x = f[k + 1].running
      OBVIOUS
    <3>2. x \in Nat
      BY <1>1, <2>1
    <3>3. b + x \in Nat
      BY <3>2
    <3>4. ASSUME NEW i \in 1 .. (k + 1) PROVE f[i].running <= b + x
      <4>1. f[i].running \in Nat
        BY <1>1, <2>1
      <4>2. CASE i = k + 1
        BY <3>2, <4>2
      <4>3. CASE i \in 1 .. k
        BY <3>2, <4>1, <4>3
      <4> QED BY <4>2, <4>3
    <3> QED BY <3>3, <3>4
  <2> QED BY <2>1
<1>5. \A k \in Nat : k \in T
  <2> HIDE DEF T
  <2> QED BY <1>3, <1>4, Induction
<1>6. PICK b \in Nat : \A i \in 1 .. n : f[i].running <= b
  <2>1. n \in T
    <3> HIDE DEF T
    <3> QED BY <1>1, <1>5
  <2>2. n <= n
    BY <1>1
  <2> QED BY <2>1, <2>2
<1> QED BY <1>2, <1>6 DEF Bounded

-----------------------------------------------------------------------------
(* The rows of the tables *)

MadeCycle(c) == \E owner \in Suppliers, label, code \in Text, n \in Nat \ {0} :
                    c = CycleOf(owner, label, code, n)

MadePlot(p) == \E owner \in Suppliers, month \in Months, n \in Nat \ {0} :
                    p = PlotOf(owner, month, n)

TypedPlot(p) == p.running = 0 /\ {p.supplier, p.key, p.plot_code} \subseteq Text

\* A cycle is what its own fields make.
LEMMA CycleFields ==
  ASSUME NEW c, MadeCycle(c)
  PROVE  /\ c.supplier \in Suppliers /\ c.supplier \in Text /\ c.label \in Text /\ c.code \in Text
         /\ c.running \in Nat \ {0}
         /\ c.key = build_auto_lot_series_key(c.supplier, c.label, c.code)
         /\ c.lot = format_auto_lot_no(c.supplier, c.label, c.code, c.running)
         /\ c = CycleOf(c.supplier, c.label, c.code, c.running)
         /\ c.key \in Text /\ c.lot \in Text
<1> PICK s \in Suppliers, l \in Text, k \in Text, n \in Nat \ {0} : c = CycleOf(s, l, k, n)
  BY Zenon DEF MadeCycle
<1>1. s \in Text
  BY TextsAssumption
<1>2. /\ c.supplier = s /\ c.label = l /\ c.code = k /\ c.running = n
      /\ c.key = build_auto_lot_series_key(s, l, k)
      /\ c.lot = format_auto_lot_no(s, l, k, n)
  BY DEF CycleOf
<1>3. build_auto_lot_series_key(s, l, k) \in Text
  BY <1>1, KeyText
<1>4. format_auto_lot_no(s, l, k, n) \in Text
  <2>1. \A u, v \in Text : u \o v \in Text
    BY ConcatProperties DEF Text
  <2> PICK x, y, w, z, t : /\ x = _compact(s) /\ y = _compact(l) /\ w = _compact(k)
                           /\ z = <<"-">> /\ t = zfill(n)
    OBVIOUS
  <2>2. x \in Text /\ y \in Text /\ w \in Text /\ z \in Text /\ t \in Text
    BY <1>1, CompactText, Pieces, ZfillText, DigitsText
  <2>3. y \o z \in Text
    BY <2>1, <2>2
  <2>4. y \o z \o x \in Text
    BY <2>1, <2>2, <2>3
  <2>5. y \o z \o x \o z \in Text
    BY <2>1, <2>2, <2>4
  <2>6. y \o z \o x \o z \o w \in Text
    BY <2>1, <2>2, <2>5
  <2>7. y \o z \o x \o z \o w \o z \in Text
    BY <2>1, <2>2, <2>6
  <2>8. y \o z \o x \o z \o w \o z \o t \in Text
    BY <2>1, <2>2, <2>7
  <2> QED BY <2>8, Zenon DEF format_auto_lot_no
<1> QED BY <1>1, <1>2, <1>3, <1>4, Zenon

\* And a plot with a made code what its own are.
LEMMA PlotFields ==
  ASSUME NEW p, MadePlot(p)
  PROVE  /\ p.supplier \in Suppliers /\ p.running \in Nat \ {0}
         /\ p.supplier \in Text /\ p.key \in Text /\ p.plot_code \in Text
<1> PICK s \in Suppliers, month \in Months, n \in Nat \ {0} : p = PlotOf(s, month, n)
  BY Zenon DEF MadePlot
<1>1. s \in Text /\ month \in Text
  BY TextsAssumption
<1>2. /\ p.supplier = s /\ p.running = n
      /\ p.key = build_plot_code_series_key(s, month)
      /\ p.plot_code = format_auto_plot_code(s, month, n)
  BY DEF PlotOf
<1>3. p.plot_code \in Text
  BY <1>2, CodeOf
<1>4. build_plot_code_series_key(s, month) \in Text
  <2>1. \A u, v \in Text : u \o v \in Text
    BY ConcatProperties DEF Text
  <2> PICK x, y, v, z : /\ x = Prefixed(s) /\ y = Prefixed(month)
                        /\ v = <<"pcv1", "|">> /\ z = <<"|">>
    OBVIOUS
  <2>2. x \in Text /\ y \in Text /\ v \in Text /\ z \in Text
    <3>1. ASSUME NEW t \in Text PROVE Prefixed(t) \in Text
      <4>1. PICK e : Joins(Prefixed(t), e, t)
        BY PrefixedJoins, Zenon
      <4> QED BY <4>1, Joined
    <3> QED BY <1>1, <3>1, Pieces
  <2>3. v \o x \in Text
    BY <2>1, <2>2
  <2>4. v \o x \o z \in Text
    BY <2>1, <2>2, <2>3
  <2>5. v \o x \o z \o y \in Text
    BY <2>1, <2>2, <2>4
  <2> QED BY <2>5, Zenon DEF build_plot_code_series_key
<1> QED BY <1>1, <1>2, <1>3, <1>4

\* Cycles have one key exactly when they are of one series.
LEMMA KeysOfCycles ==
  ASSUME NEW c, NEW d, MadeCycle(c), MadeCycle(d)
  PROVE  c.key = d.key <=> Components(c) = Components(d)
<1>1. /\ c.supplier \in Text /\ c.label \in Text /\ c.code \in Text
      /\ c.key = build_auto_lot_series_key(c.supplier, c.label, c.code)
  BY CycleFields
<1>2. /\ d.supplier \in Text /\ d.label \in Text /\ d.code \in Text
      /\ d.key = build_auto_lot_series_key(d.supplier, d.label, d.code)
  BY CycleFields
<1>3. c.key = d.key <=> /\ _compact(c.supplier) = _compact(d.supplier)
                        /\ _compact(c.label) = _compact(d.label)
                        /\ _compact(c.code) = _compact(d.code)
  <2> PICK a1, b1, c1, a2, b2, c2 : /\ a1 = c.supplier /\ b1 = c.label /\ c1 = c.code
                                    /\ a2 = d.supplier /\ b2 = d.label /\ c2 = d.code
    OBVIOUS
  <2>1. /\ a1 \in Text /\ b1 \in Text /\ c1 \in Text /\ a2 \in Text /\ b2 \in Text /\ c2 \in Text
    BY <1>1, <1>2
  <2>2. OneKey(a1, b1, c1, a2, b2, c2)
          <=> Same(_compact(a1), _compact(b1), _compact(c1), _compact(a2), _compact(b2), _compact(c2))
    BY <2>1, KeysTell
  <2> QED BY <1>1, <1>2, <2>2, Zenon DEF Same, OneKey
<1> QED BY <1>3 DEF Components

\* Of one series, cycles of one lot have one running number.
LEMMA LotsOfCycles ==
  ASSUME NEW c, NEW d, MadeCycle(c), MadeCycle(d), Components(c) = Components(d), c.lot = d.lot
  PROVE  c.running = d.running
<1> PICK a1, b1, c1, n, a2, b2, c2, m, lot :
      /\ a1 = c.supplier /\ b1 = c.label /\ c1 = c.code /\ n = c.running
      /\ a2 = d.supplier /\ b2 = d.label /\ c2 = d.code /\ m = d.running /\ lot = c.lot
  OBVIOUS
<1>1. a1 \in Text /\ b1 \in Text /\ c1 \in Text /\ n \in Nat /\ c.lot = format_auto_lot_no(a1, b1, c1, n)
  BY CycleFields
<1>2. a2 \in Text /\ b2 \in Text /\ c2 \in Text /\ m \in Nat /\ d.lot = format_auto_lot_no(a2, b2, c2, m)
  BY CycleFields
<1>3. Same(_compact(a1), _compact(b1), _compact(c1), _compact(a2), _compact(b2), _compact(c2))
  BY DEF Components, Same
<1>4. Prints(lot, a1, b1, c1, n) /\ Prints(lot, a2, b2, c2, m)
  BY <1>1, <1>2, Zenon DEF Prints
<1>5. n = m
  BY <1>1, <1>2, <1>3, <1>4, LotsTell
<1> QED BY <1>5

-----------------------------------------------------------------------------
(* The invariant *)

CyclesInv == (\A c \in cycles : MadeCycle(c)) /\ Numbered(cycles) /\ Bounded(cycles)

PlotsInv == (\A p \in plots : MadePlot(p) \/ TypedPlot(p)) /\ Bounded(plots)

RefusedPlots ==
    outcome.kind = "code taken" =>
        \E p \in plots : p.running = 0 /\ p.plot_code = outcome.wanted.plot_code

AnswersInv ==
    /\ outcome.kind \in {"none", "made", "missing", "too_long", "lot taken", "code taken"}
    /\ RefusedByAnotherSeries /\ RefusedPlots

NumbersInv == CyclesInv /\ PlotsInv /\ AnswersInv

\* One more row is bounded too.
LEMMA BoundedMore ==
  ASSUME NEW rows, NEW row, Bounded(rows), row.running \in Nat, \A x \in rows : x.running \in Nat
  PROVE  Bounded(rows \cup {row})
<1> PICK b \in Nat : \A x \in rows : x.running <= b
  BY DEF Bounded
<1> PICK k \in Nat : k = row.running
  OBVIOUS
<1>1. b + k \in Nat /\ b <= b + k /\ k <= b + k
  OBVIOUS
<1>2. \A x \in rows \cup {row} : x.running <= b + k
  BY <1>1
<1> QED BY <1>1, <1>2 DEF Bounded

NextAfter(rows, key) == MaxOf({c.running : c \in {d \in rows : d.key = key}}) + 1

\* The number given out is beyond all of a series, and next to the last.
LEMMA NextIs ==
  ASSUME NEW rows, Bounded(rows), \A x \in rows : x.running \in Nat, NEW key, NEW n,
         n = NextAfter(rows, key)
  PROVE  /\ n \in Nat \ {0}
         /\ \A x \in rows : x.key = key => x.running < n
         /\ (\E x \in rows : x.key = key) => \E x \in rows : x.key = key /\ x.running = n - 1
<1> PICK S : S = {c.running : c \in {d \in rows : d.key = key}}
  OBVIOUS
<1> PICK m : m = MaxOf(S)
  OBVIOUS
<1>1. n = m + 1
  BY Zenon DEF NextAfter
<1> PICK b \in Nat : \A x \in rows : x.running <= b
  BY DEF Bounded
<1>2. S \subseteq Nat /\ \A k \in S : k <= b
  OBVIOUS
<1>3. m \in Nat /\ (\A k \in S : k <= m) /\ (S # {} => m \in S)
  BY <1>2, MaxOfIs
<1>4. \A x \in rows : x.key = key => x.running \in S
  OBVIOUS
<1>5. ASSUME NEW x \in rows, x.key = key PROVE x.running < n
  <2> PICK k : k = x.running
    OBVIOUS
  <2>1. k \in S /\ k \in Nat
    BY <1>4, <1>5
  <2>2. k <= m
    BY <1>3, <2>1
  <2>3. k < n
    BY <1>1, <1>3, <2>1, <2>2
  <2> QED BY <2>3
<1>6. ASSUME NEW x \in rows, x.key = key PROVE \E y \in rows : y.key = key /\ y.running = n - 1
  <2>1. m \in S
    BY <1>3, <1>4, <1>6
  <2>2. \E y \in rows : y.key = key /\ y.running = m
    BY <2>1
  <2> QED BY <1>1, <1>3, <2>2
<1>7. n \in Nat \ {0}
  BY <1>1, <1>3
<1> QED BY <1>5, <1>6, <1>7

\* The cycle that is made is of its series, beyond all of it, and leaves no gap.
LEMMA NewCycle ==
  ASSUME CyclesInv, NEW s \in Suppliers, NEW l \in Text, NEW k \in Text, NEW new,
         new = CycleOf(s, l, k, _next_lot_running_no(build_auto_lot_series_key(s, l, k)))
  PROVE  /\ MadeCycle(new)
         /\ \A c \in cycles : Components(c) = Components(new) => c.running < new.running
         /\ (\E c \in cycles : Components(c) = Components(new))
              => \E c \in cycles : Components(c) = Components(new) /\ c.running = new.running - 1
<1> PICK key, n : key = build_auto_lot_series_key(s, l, k) /\ n = _next_lot_running_no(key)
  OBVIOUS
<1>1. n = NextAfter(cycles, key)
  BY Zenon DEF _next_lot_running_no, NextAfter
<1>2. Bounded(cycles) /\ \A c \in cycles : MadeCycle(c)
  BY Zenon DEF CyclesInv
<1>3. \A c \in cycles : c.running \in Nat
  BY <1>2, CycleFields
<1>4. /\ n \in Nat \ {0}
      /\ \A x \in cycles : x.key = key => x.running < n
      /\ (\E x \in cycles : x.key = key) => \E x \in cycles : x.key = key /\ x.running = n - 1
  BY <1>1, <1>2, <1>3, NextIs
<1>5. new = CycleOf(s, l, k, n)
  BY Zenon
<1>6. MadeCycle(new)
  BY <1>4, <1>5, Zenon DEF MadeCycle
<1>7. new.key = key /\ new.running = n
  BY <1>5 DEF CycleOf
<1>8. \A c \in cycles : c.key = key <=> Components(c) = Components(new)
  BY <1>2, <1>6, <1>7, KeysOfCycles
<1> HIDE DEF CyclesInv
<1> QED BY <1>4, <1>6, <1>7, <1>8

\* So the series stays numbered without gaps.
LEMMA StaysNumbered ==
  ASSUME NEW rows, NEW new, Numbered(rows), new.running \in Nat,
         \A c \in rows : c.running \in Nat,
         \A c \in rows : Components(c) = Components(new) => c.running < new.running,
         (\E c \in rows : Components(c) = Components(new))
           => \E c \in rows : Components(c) = Components(new) /\ c.running = new.running - 1
  PROVE  Numbered(rows \cup {new})
<1> SUFFICES ASSUME NEW c \in rows \cup {new}, NEW d \in rows \cup {new},
                    Components(c) = Components(d)
             PROVE  /\ c.running = d.running => c = d
                    /\ \A n \in c.running .. d.running :
                          \E e \in rows \cup {new} : Components(e) = Components(c) /\ e.running = n
  BY DEF Numbered
<1>1. CASE c \in rows /\ d \in rows
  BY <1>1 DEF Numbered
<1>2. CASE c = new /\ d = new
  <2>1. \A n \in c.running .. d.running : n = new.running
    BY <1>2
  <2> QED BY <1>2, <2>1
<1>3. CASE c = new /\ d \in rows
  <2>1. d.running < c.running /\ d.running \in Nat /\ c.running \in Nat
    BY <1>3
  <2> QED BY <2>1
<1>4. CASE c \in rows /\ d = new
  <2>1. c.running < new.running /\ c.running \in Nat
    BY <1>4
  <2>2. PICK last \in rows : Components(last) = Components(new) /\ last.running = new.running - 1
    BY <1>4
  <2>3. ASSUME NEW n \in c.running .. d.running
        PROVE  \E e \in rows \cup {new} : Components(e) = Components(c) /\ e.running = n
    <3>1. CASE n = new.running
      BY <1>4, <3>1
    <3>2. CASE n # new.running
      <4>1. n \in c.running .. last.running
        BY <1>4, <2>1, <2>2, <3>2
      <4>2. Components(c) = Components(last)
        BY <1>4, <2>2
      <4> QED BY <1>4, <4>1, <4>2 DEF Numbered
    <3> QED BY <3>1, <3>2
  <2> QED BY <1>4, <2>1, <2>3
<1> QED BY <1>1, <1>2, <1>3, <1>4

\* The invariant holds at first: no answer was given, and no code was made.
LEMMA InvInit == NumbersInit => NumbersInv
<1> SUFFICES ASSUME NumbersInit PROVE NumbersInv
  OBVIOUS
<1>1. PICK grown \in Grown :
        cycles = {CycleOf(g.supplier, g.label, g.code, g.running) : g \in grown}
  BY DEF NumbersInit
<1>2. /\ IsFiniteSet(grown) /\ Numbered(grown)
      /\ \A g \in grown : /\ g.supplier \in Suppliers /\ g.label \in Text /\ g.code \in Text
                          /\ g.running \in Nat \ {0}
  BY GrownAssumption
<1>3. \A c \in cycles : MadeCycle(c)
  BY <1>1, <1>2 DEF MadeCycle
<1>4. ASSUME NEW c \in cycles
      PROVE  \E g \in grown : /\ c = CycleOf(g.supplier, g.label, g.code, g.running)
                              /\ c.running = g.running /\ Components(c) = Components(g)
  <2> PICK g \in grown : c = CycleOf(g.supplier, g.label, g.code, g.running)
    BY <1>1
  <2>1. /\ c.supplier = g.supplier /\ c.label = g.label /\ c.code = g.code
        /\ c.running = g.running
    BY DEF CycleOf
  <2>2. Components(c) = Components(g)
    BY <2>1, Zenon DEF Components
  <2> QED BY <2>1, <2>2
<1>5. ASSUME NEW g \in grown
      PROVE  \E c \in cycles : c.running = g.running /\ Components(c) = Components(g)
  <2> PICK c : c = CycleOf(g.supplier, g.label, g.code, g.running)
    OBVIOUS
  <2>0. c \in cycles
    BY <1>1
  <2>1. /\ c.supplier = g.supplier /\ c.label = g.label /\ c.code = g.code
        /\ c.running = g.running
    BY DEF CycleOf
  <2>2. Components(c) = Components(g)
    BY <2>1, Zenon DEF Components
  <2> QED BY <2>0, <2>1, <2>2
<1>6. Numbered(cycles)
  <2> SUFFICES ASSUME NEW c \in cycles, NEW d \in cycles, Components(c) = Components(d)
               PROVE  /\ c.running = d.running => c = d
                      /\ \A n \in c.running .. d.running :
                            \E e \in cycles : Components(e) = Components(c) /\ e.running = n
    BY DEF Numbered
  <2>1. PICK g \in grown : /\ c = CycleOf(g.supplier, g.label, g.code, g.running)
                           /\ c.running = g.running /\ Components(c) = Components(g)
    BY <1>4
  <2>2. PICK h \in grown : /\ d = CycleOf(h.supplier, h.label, h.code, h.running)
                           /\ d.running = h.running /\ Components(d) = Components(h)
    BY <1>4
  <2>3. Components(g) = Components(h)
    BY <2>1, <2>2
  <2>4. ASSUME c.running = d.running PROVE c = d
    <3>1. g = h
      BY <1>2, <2>1, <2>2, <2>3, <2>4 DEF Numbered
    <3> QED BY <2>1, <2>2, <3>1
  <2>5. ASSUME NEW n \in c.running .. d.running
        PROVE  \E e \in cycles : Components(e) = Components(c) /\ e.running = n
    <3>1. PICK k \in grown : Components(k) = Components(g) /\ k.running = n
      BY <1>2, <2>1, <2>2, <2>3 DEF Numbered
    <3> QED BY <1>5, <2>1, <3>1
  <2> QED BY <2>4, <2>5
<1>7. Bounded(cycles)
  <2>1. Bounded(grown)
    BY <1>2, FiniteBounded
  <2> PICK b \in Nat : \A g \in grown : g.running <= b
    BY <2>1 DEF Bounded
  <2>2. \A c \in cycles : c.running <= b
    BY <1>4
  <2> QED BY <2>2 DEF Bounded
<1>8. \A p \in plots : TypedPlot(p)
  <2> SUFFICES ASSUME NEW p \in plots PROVE TypedPlot(p)
    OBVIOUS
  <2>1. PICK t \in TypedCodes :
          p = [supplier |-> t.supplier, running |-> 0, key |-> <<>>, plot_code |-> t.plot_code]
    BY DEF NumbersInit
  <2>2. p.running = 0 /\ p.supplier = t.supplier /\ p.key = <<>> /\ p.plot_code = t.plot_code
    BY <2>1
  <2>3. t.supplier \in Text /\ t.plot_code \in Text /\ <<>> \in Text
    BY TypedCodesAssumption, TextsAssumption, Pieces
  <2> QED BY <2>2, <2>3 DEF TypedPlot
<1>9. PlotsInv
  <2>1. \A p \in plots : p.running <= 0
    BY <1>8 DEF TypedPlot
  <2> QED BY <1>8, <2>1 DEF PlotsInv, Bounded
<1>10. AnswersInv
  <2>1. outcome.kind = "none"
    BY DEF NumbersInit
  <2> QED BY <2>1 DEF AnswersInv, RefusedByAnotherSeries, RefusedPlots
<1> QED BY <1>3, <1>6, <1>7, <1>9, <1>10 DEF NumbersInv, CyclesInv

\* A step that leaves the cycles alone but for one that is made.
LEMMA InvCycles ==
  ASSUME NumbersInv, NEW owner \in Suppliers, NEW label \in Labels, NEW code \in ProductCodes,
         create_cycle(owner, label, code)
  PROVE  NumbersInv'
<1>w. PICK new : new = CycleOf(owner, label, code,
                               _next_lot_running_no(build_auto_lot_series_key(owner, label, code)))
  OBVIOUS
<1>r. PICK refused : refused = IF _missing_components(owner, label, code) THEN "missing"
                             ELSE IF Len(new.lot) > MaxLotLength THEN "too_long"
                             ELSE IF Taken(new) THEN "lot taken" ELSE "made"
  OBVIOUS
<1>1. /\ cycles' = IF refused = "made" THEN cycles \cup {new} ELSE cycles
      /\ outcome' = [kind |-> refused, wanted |-> new]
      /\ plots' = plots
  BY <1>w, <1>r, Zenon DEF create_cycle, Answered
<1>2. label \in Text /\ code \in Text
  BY TextsAssumption
<1>i. CyclesInv /\ PlotsInv /\ AnswersInv
  BY Zenon DEF NumbersInv
<1>3. /\ MadeCycle(new)
      /\ \A c \in cycles : Components(c) = Components(new) => c.running < new.running
      /\ (\E c \in cycles : Components(c) = Components(new))
           => \E c \in cycles : Components(c) = Components(new) /\ c.running = new.running - 1
  BY <1>w, <1>2, <1>i, NewCycle
<1>4. refused \in {"missing", "too_long", "lot taken", "made"} /\ (refused = "lot taken" => Taken(new))
  BY <1>r
<1>5. (\A c \in cycles : MadeCycle(c)) /\ Numbered(cycles) /\ Bounded(cycles)
  BY <1>i, Zenon DEF CyclesInv
<1>6. new.running \in Nat /\ \A c \in cycles : c.running \in Nat
  BY <1>3, <1>5, CycleFields
<1>7. CyclesInv'
  <2>1. CASE refused = "made"
    <3> PICK rows : rows = cycles \cup {new}
      OBVIOUS
    <3>1. cycles' = rows
      BY <1>1, <2>1
    <3>2. Numbered(rows)
      BY <1>3, <1>5, <1>6, StaysNumbered
    <3>3. Bounded(rows)
      BY <1>5, <1>6, BoundedMore
    <3>4. \A c \in rows : MadeCycle(c)
      BY <1>3, <1>5
    <3> QED BY <3>1, <3>2, <3>3, <3>4, Zenon DEF CyclesInv
  <2>2. CASE refused # "made"
    <3>1. cycles' = cycles
      BY <1>1, <2>2
    <3> QED BY <1>5, <3>1, Zenon DEF CyclesInv
  <2> QED BY <2>1, <2>2
<1>8. PlotsInv'
  BY <1>1, <1>i, Zenon DEF PlotsInv
<1>9. AnswersInv'
  <2>1. outcome'.kind = refused /\ outcome'.wanted = new
    BY <1>1
  <2>2. RefusedByAnotherSeries'
    <3>0. SUFFICES ASSUME refused = "lot taken"
                 PROVE  \E c \in cycles' : c.lot = new.lot /\ Components(c) # Components(new)
      BY <2>1, Zenon DEF RefusedByAnotherSeries
    <3>1. cycles' = cycles
      BY <1>1, <3>0
    <3>2. PICK c \in cycles : c.lot = new.lot
      BY <1>4, <3>0 DEF Taken
    <3>3. ASSUME Components(c) = Components(new) PROVE FALSE
      <4>1. c.running = new.running
        BY <1>3, <1>5, <3>2, <3>3, LotsOfCycles
      <4> PICK m, n : m = c.running /\ n = new.running
        OBVIOUS
      <4>2. m < n /\ m \in Nat /\ n \in Nat
        BY <1>3, <1>6, <3>3
      <4>3. m # n
        BY <4>2
      <4> QED BY <4>1, <4>3
    <3> QED BY <3>1, <3>2, <3>3
  <2>3. RefusedPlots'
    <3>1. outcome'.kind # "code taken"
      BY <1>4, <2>1
    <3> QED BY <3>1, Zenon DEF RefusedPlots
  <2>4. outcome'.kind \in {"none", "made", "missing", "too_long", "lot taken", "code taken"}
    BY <1>4, <2>1
  <2> QED BY <2>2, <2>3, <2>4, Zenon DEF AnswersInv
<1> QED BY <1>7, <1>8, <1>9, Zenon DEF NumbersInv

\* A step that leaves the plots alone but for one that is made.
LEMMA InvPlots ==
  ASSUME NumbersInv, NEW owner \in Suppliers, NEW month \in Months,
         create_plot(owner, month)
  PROVE  NumbersInv'
<1>k. PICK key, n : /\ key = build_plot_code_series_key(owner, month)
                    /\ n = _next_plot_code_running_no(key)
  OBVIOUS
<1>w. PICK new : new = PlotOf(owner, month, n)
  OBVIOUS
<1>r. PICK kind : kind = IF CodeTaken(new) THEN "code taken" ELSE "made"
  OBVIOUS
<1>1. /\ plots' = IF CodeTaken(new) THEN plots ELSE plots \cup {new}
      /\ outcome' = [kind |-> kind, wanted |-> new]
      /\ cycles' = cycles
  BY <1>k, <1>w, <1>r, Zenon DEF create_plot, Answered
<1>i. CyclesInv /\ PlotsInv /\ AnswersInv
  BY Zenon DEF NumbersInv
<1>2. Bounded(plots) /\ \A p \in plots : MadePlot(p) \/ TypedPlot(p)
  BY <1>i, Zenon DEF PlotsInv
<1>3. \A p \in plots : p.running \in Nat
  <2> SUFFICES ASSUME NEW p \in plots PROVE p.running \in Nat
    OBVIOUS
  <2>1. CASE MadePlot(p)
    BY <2>1, PlotFields
  <2>2. CASE TypedPlot(p)
    BY <2>2 DEF TypedPlot
  <2> QED BY <1>2, <2>1, <2>2
<1>4. n \in Nat \ {0} /\ \A p \in plots : p.key = key => p.running < n
  <2>1. n = NextAfter(plots, key)
    BY <1>k, Zenon DEF _next_plot_code_running_no, NextAfter
  <2> QED BY <1>2, <1>3, <2>1, NextIs
<1>5. MadePlot(new)
  BY <1>w, <1>4, Zenon DEF MadePlot
<1>6. new.running = n /\ new.plot_code = format_auto_plot_code(owner, month, n)
  BY <1>w DEF PlotOf
<1>7. CyclesInv'
  BY <1>1, <1>i, Zenon DEF CyclesInv
<1>8. PlotsInv'
  <2>1. CASE CodeTaken(new)
    <3>1. plots' = plots
      BY <1>1, <2>1
    <3> QED BY <1>i, <3>1, Zenon DEF PlotsInv
  <2>2. CASE ~CodeTaken(new)
    <3> PICK rows : rows = plots \cup {new}
      OBVIOUS
    <3>1. plots' = rows
      BY <1>1, <2>2
    <3>2. Bounded(rows)
      BY <1>2, <1>3, <1>4, <1>6, BoundedMore
    <3>3. \A p \in rows : MadePlot(p) \/ TypedPlot(p)
      BY <1>2, <1>5
    <3> QED BY <3>1, <3>2, <3>3, Zenon DEF PlotsInv
  <2> QED BY <2>1, <2>2
<1>9. AnswersInv'
  <2>1. outcome'.kind = kind /\ outcome'.wanted = new
    BY <1>1
  <2>2. kind \in {"code taken", "made"} /\ (kind = "code taken" => CodeTaken(new))
    BY <1>r
  <2>3. RefusedPlots'
    <3>0. SUFFICES ASSUME kind = "code taken"
                 PROVE  \E p \in plots' : p.running = 0 /\ p.plot_code = new.plot_code
      BY <2>1, Zenon DEF RefusedPlots
    <3>1. CodeTaken(new)
      BY <2>2, <3>0
    <3>2. plots' = plots
      BY <1>1, <3>1
    <3>3. PICK p \in plots : p.plot_code = new.plot_code
      BY <3>1 DEF CodeTaken
    <3>4. ~MadePlot(p)
      <4> SUFFICES ASSUME MadePlot(p) PROVE FALSE
        OBVIOUS
      <4>1. PICK s \in Suppliers, other \in Months, m \in Nat \ {0} : p = PlotOf(s, other, m)
        BY Zenon DEF MadePlot
      <4>2. p.running = m /\ p.plot_code = format_auto_plot_code(s, other, m)
            /\ p.key = build_plot_code_series_key(s, other)
        BY <4>1 DEF PlotOf
      <4>3. s = owner /\ other = month /\ m = n
        <5>1. format_auto_plot_code(s, other, m) = format_auto_plot_code(owner, month, n)
          BY <1>6, <3>3, <4>2, Zenon
        <5>2. n \in Nat /\ m \in Nat
          BY <1>4
        <5> QED BY <5>1, <5>2, CodesTell
      <4>4. p.key = key /\ p.running = n
        BY <1>k, <4>2, <4>3
      <4>5. n < n
        BY <1>4, <4>4
      <4> QED BY <1>4, <4>5
    <3>5. p.running = 0
      BY <1>2, <3>4 DEF TypedPlot
    <3> QED BY <3>2, <3>3, <3>5
  <2>4. RefusedByAnotherSeries'
    <3>1. outcome'.kind # "lot taken"
      BY <2>1, <2>2
    <3> QED BY <3>1, Zenon DEF RefusedByAnotherSeries
  <2>5. outcome'.kind \in {"none", "made", "missing", "too_long", "lot taken", "code taken"}
    BY <2>1, <2>2
  <2> QED BY <2>3, <2>4, <2>5, Zenon DEF AnswersInv
<1> QED BY <1>7, <1>8, <1>9, Zenon DEF NumbersInv

\* Every step keeps the invariant.
LEMMA InvNext == NumbersInv /\ [NumbersNext]_numberVars => NumbersInv'
<1> SUFFICES ASSUME NumbersInv, [NumbersNext]_numberVars PROVE NumbersInv'
  OBVIOUS
<1>1. CASE NumbersNext
  <2>1. ASSUME NEW owner \in Suppliers, NEW label \in Labels, NEW code \in ProductCodes,
               create_cycle(owner, label, code)
        PROVE  NumbersInv'
    BY <2>1, InvCycles
  <2>2. ASSUME NEW owner \in Suppliers, NEW month \in Months, create_plot(owner, month)
        PROVE  NumbersInv'
    BY <2>2, InvPlots
  <2> QED BY <1>1, <2>1, <2>2, Zenon DEF NumbersNext
<1>2. CASE UNCHANGED numberVars
  <2>1. cycles' = cycles /\ plots' = plots /\ outcome' = outcome
    BY <1>2 DEF numberVars
  <2> QED BY <2>1, Zenon DEF NumbersInv, CyclesInv, PlotsInv, AnswersInv, RefusedByAnotherSeries,
                             RefusedPlots
<1> QED BY <1>1, <1>2

\* What the invariant says of the identifiers.
LEMMA InvTells == NumbersInv => CodesTellApart
<1> SUFFICES ASSUME NumbersInv PROVE CodesTellApart
  OBVIOUS
<1>1. CyclesInv /\ PlotsInv /\ AnswersInv
  BY Zenon DEF NumbersInv
<1>2. (\A c \in cycles : MadeCycle(c)) /\ Numbered(cycles)
  BY <1>1, Zenon DEF CyclesInv
<1>3. \A p \in plots : MadePlot(p) \/ TypedPlot(p)
  BY <1>1, Zenon DEF PlotsInv
<1>4. NumbersTypeOK
  <2>1. ASSUME NEW c \in cycles
        PROVE  /\ c.running \in Nat \ {0}
               /\ {c.supplier, c.label, c.code, c.key, c.lot} \subseteq Text
    BY <1>2, CycleFields
  <2>2. ASSUME NEW p \in plots
        PROVE  p.running \in Nat /\ {p.supplier, p.key, p.plot_code} \subseteq Text
    <3>1. CASE MadePlot(p)
      BY <3>1, PlotFields
    <3>2. CASE TypedPlot(p)
      BY <3>2 DEF TypedPlot
    <3> QED BY <1>3, <3>1, <3>2
  <2>3. outcome.kind \in {"none", "made", "missing", "too_long", "lot taken", "code taken"}
    BY <1>1, Zenon DEF AnswersInv
  <2> QED BY <2>1, <2>2, <2>3, Zenon DEF NumbersTypeOK
<1>5. SeriesAreToldApart
  <2> SUFFICES ASSUME NEW c \in cycles, NEW d \in cycles
               PROVE  /\ c.key = d.key <=> Components(c) = Components(d)
                      /\ c # d /\ c.key = d.key => c.running # d.running
                      /\ c.key = d.key /\ c.running < d.running =>
                           \A n \in c.running .. d.running :
                              \E e \in cycles : e.key = c.key /\ e.running = n
    BY DEF SeriesAreToldApart
  <2>1. \A e \in cycles : c.key = e.key <=> Components(c) = Components(e)
    BY <1>2, KeysOfCycles
  <2>2. Components(c) = Components(d) =>
          /\ c.running = d.running => c = d
          /\ \A n \in c.running .. d.running :
                \E e \in cycles : Components(e) = Components(c) /\ e.running = n
    BY <1>2 DEF Numbered
  <2> QED BY <2>1, <2>2
<1>6. RefusedByAnotherSeries /\ RefusedPlots
  BY <1>1, Zenon DEF AnswersInv
<1>7. ASSUME NEW p \in plots, NEW q \in plots, p # q, p.running > 0, q.running > 0
      PROVE  p.plot_code # q.plot_code
  <2>1. MadePlot(p) /\ MadePlot(q)
    BY <1>3, <1>7 DEF TypedPlot
  <2>2. PICK s \in Suppliers, month \in Months, n \in Nat \ {0} : p = PlotOf(s, month, n)
    BY <2>1, Zenon DEF MadePlot
  <2>3. PICK t \in Suppliers, other \in Months, m \in Nat \ {0} : q = PlotOf(t, other, m)
    BY <2>1, Zenon DEF MadePlot
  <2>4. /\ p.plot_code = format_auto_plot_code(s, month, n)
        /\ q.plot_code = format_auto_plot_code(t, other, m)
    BY <2>2, <2>3 DEF PlotOf
  <2> SUFFICES ASSUME format_auto_plot_code(s, month, n) = format_auto_plot_code(t, other, m)
               PROVE  FALSE
    BY <2>4
  <2>5. s = t /\ month = other /\ n = m
    BY CodesTell
  <2> QED BY <1>7, <2>2, <2>3, <2>5
<1>8. PlotCodesAreUnique
  BY <1>6, <1>7 DEF PlotCodesAreUnique, RefusedPlots
<1> QED BY <1>4, <1>5, <1>6, <1>8 DEF CodesTellApart

\* Whatever is typed, a lot and a plot code are of one series, and a number of it.
THEOREM CodesAlwaysTellApart == NumbersSpec => []CodesTellApart
<1>1. NumbersInit => NumbersInv
  BY InvInit
<1>2. NumbersInv /\ [NumbersNext]_numberVars => NumbersInv'
  BY InvNext
<1>3. NumbersInv => CodesTellApart
  BY InvTells
<1> QED BY <1>1, <1>2, <1>3, PTL DEF NumbersSpec

=============================================================================
